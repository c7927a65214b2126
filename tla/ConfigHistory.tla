--------------------------- MODULE ConfigHistory ---------------------------
(***************************************************************************)
(* What a Query of the shard master can see: a list of configurations that *)
(* only grows, each the result of one Join, Leave or Move of the one       *)
(* before.  There is no g2shard and no navieAssign here.  ShardConfig.tla  *)
(* is shown to implement it.                                               *)
(***************************************************************************)
EXTENDS Integers, Sequences, FiniteSets

CONSTANTS NShards, Gid, NoGroup

VARIABLE configs

Shard == 0 .. NShards - 1

NoConfig == [shards |-> [s \in Shard |-> NoGroup], groups |-> {}]

Load(c, g) == Cardinality({s \in Shard : c.shards[s] = g})

\* The shards are spread evenly over some groups, those of the configuration
\* among them
Spread(c) ==
    \E K \in SUBSET Gid :
        /\ c.groups \subseteq K
        /\ \A s \in Shard : c.shards[s] \in K
        /\ \A g \in K : Load(c, g) \in {NShards \div Cardinality(K), NShards \div Cardinality(K) + 1}

Newest == configs[Len(configs)]

Init == configs = <<NoConfig>>

\* Groups join, and the shards are spread anew; or all were known
Join ==
    \/ Newest' = Newest
    \/ Newest.groups \subseteq Newest'.groups /\ Newest'.groups # Newest.groups /\ Spread(Newest')

\* Groups leave, and the shards are spread over the others, if there are any;
\* or none was known
Leave ==
    \/ Newest' = Newest
    \/ Newest'.groups \subseteq Newest.groups /\ (Spread(Newest') \/ Newest' = NoConfig)

\* One shard goes to a group, which need not have joined
Move ==
    \E s \in Shard, gid \in Gid : Newest' = [Newest EXCEPT !.shards[s] = gid]

Next == configs' = Append(configs, Newest') /\ (Join \/ Leave \/ Move)

Spec == Init /\ [][Next]_configs
=============================================================================
