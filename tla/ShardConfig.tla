----------------------------- MODULE ShardConfig -----------------------------
(***************************************************************************)
(* The configurations of src/shardmaster/server.go: what one replica's run *)
(* goroutine does with the Join, Leave and Move operations that Raft hands *)
(* it, and the algorithm navieAssign that spreads the shards over the      *)
(* groups.                                                                 *)
(*                                                                         *)
(* An operation holds sm.mu from its first assignment to its last.  Join   *)
(* and Leave end in navieAssign, whose loops are stepped through here, one *)
(* action per iteration; while assigning is TRUE the replica does nothing  *)
(* else.                                                                   *)
(***************************************************************************)
EXTENDS Integers, Sequences, FiniteSets

CONSTANTS
    NShards,     \* the number of shards
    Gid,         \* ids of the groups that may join
    NoGroup,     \* gid 0, "the invalid group"
    MaxConfigs   \* bound: configurations after the initial one

ASSUME NShardsAssumption == NShards \in Nat \ {0}
ASSUME GidAssumption == IsFiniteSet(Gid) /\ NoGroup \notin Gid
ASSUME MaxConfigsAssumption == MaxConfigs \in Nat

VARIABLES
    configs,         \* sm.configs; the number of a configuration is its place
    known,           \* the keys of the map sm.g2shard
    g2shard,         \* its values: a key that is missing reads as nil
    assigning,       \* navieAssign is running
    groupMap,        \* its lists of groups: tless, tok, tplus, tmore
    shardToAssign

vars == <<configs, known, g2shard, assigning, groupMap, shardToAssign>>
-----------------------------------------------------------------------------
Shard == 0 .. NShards - 1
Owner == Gid \cup {NoGroup}
Config == [shards : [Shard -> Owner], groups : SUBSET Gid]

Class == {"tless", "tok", "tplus", "tmore"}
NoLists == [c \in Class |-> <<>>]

\* The last element of a slice, and the rest
Last(q) == q[Len(q)]
Front(q) == SubSeq(q, 1, Len(q) - 1)

getLastCfg == configs[Len(configs)]

\* All the ways to list a finite set: the iteration order of a Go map
Listings(S) ==
    {q \in [1 .. Cardinality(S) -> S] :
        /\ \A a, b \in DOMAIN q : q[a] = q[b] => a = b
        /\ \A x \in S : \E a \in DOMAIN q : q[a] = x}
Ascending(S) == {q \in Listings(S) : \A a, b \in DOMAIN q : a < b => q[a] < q[b]}

\* Mutant: rounded up
ShareUp(n) == NShards \div n + 1

\* What every group gets when the shards are spread over n groups
Share(n) == NShards \div n

\* Mutant: no group has too many
ClassOfNoMore(n, t) == IF n < t THEN "tless" ELSE IF n = t THEN "tok" ELSE "tplus"

\* The list a group with n shards belongs to when the share is t
ClassOf(n, t) ==
    CASE n < t     -> "tless"
      [] n = t     -> "tok"
      [] n = t + 1 -> "tplus"
      [] n > t + 1 -> "tmore"

share == Share(Cardinality(known))
-----------------------------------------------------------------------------
Init ==
    /\ configs = <<[shards |-> [s \in Shard |-> NoGroup], groups |-> {}]>>
    /\ known = {}
    /\ g2shard = [g \in Gid |-> <<>>]
    /\ assigning = FALSE
    /\ groupMap = NoLists
    /\ shardToAssign = <<>>

\* Mutant: the copy shares the map Groups with the configuration before
AddSharing(c) == configs' = Append([configs EXCEPT ![Len(configs)].groups = c.groups], c)

\* addConfig, and the changes made to the copy
AddConfig(c) == configs' = Append(configs, c)

\* Mutant: the walk is over the keys from before the operation
ClassifiedBefore(ks, gs, c) == {g \in known : ClassOf(Len(gs[g]), Share(Cardinality(ks))) = c}

\* The groups that navieAssign puts into list c
Classified(ks, gs, c) == {g \in ks : ClassOf(Len(gs[g]), Share(Cardinality(ks))) = c}

\* navieAssign up to its loops, in the state the operation has prepared
BeginAssign ==
    IF known' = {} THEN UNCHANGED <<assigning, groupMap, shardToAssign>>
    ELSE LET shards == configs'[Len(configs')].shards
         IN  /\ assigning' = TRUE
             /\ shardToAssign' \in Ascending({s \in Shard : shards[s] = NoGroup})
             /\ \E l \in Listings(Classified(known', g2shard', "tless")),
                   o \in Listings(Classified(known', g2shard', "tok")),
                   p \in Listings(Classified(known', g2shard', "tplus")),
                   m \in Listings(Classified(known', g2shard', "tmore")) :
                   groupMap' = [tless |-> l, tok |-> o, tplus |-> p, tmore |-> m]

\* Join: groups that are known already are passed over
Join(gids) ==
    LET new == gids \ known
    IN  /\ ~assigning
        /\ Len(configs) <= MaxConfigs
        /\ AddConfig([getLastCfg EXCEPT !.groups = @ \cup new])
        /\ known' = known \cup new
        /\ UNCHANGED g2shard
        /\ IF new # {} THEN BeginAssign ELSE UNCHANGED <<assigning, groupMap, shardToAssign>>

\* The groups gids leave, and the shards of the groups freed are nobody's
LeaveFreeing(gids, freed) ==
    LET gone == gids \cap known
        free(s) == \E g \in freed : \E k \in DOMAIN g2shard[g] : g2shard[g][k] = s
    IN  /\ ~assigning
        /\ Len(configs) <= MaxConfigs
        /\ AddConfig([shards |-> [s \in Shard |->
                          IF free(s) THEN NoGroup ELSE getLastCfg.shards[s]],
                      groups |-> getLastCfg.groups \ gone])
        /\ known' = known \ gone
        /\ g2shard' = [g \in Gid |-> IF g \in freed THEN <<>> ELSE g2shard[g]]
        /\ IF gone # {} THEN BeginAssign ELSE UNCHANGED <<assigning, groupMap, shardToAssign>>

\* Mutants: all shards are assigned afresh; none is
LeaveAfresh(gids) == LeaveFreeing(gids, known)
LeaveKeeping(gids) == LeaveFreeing(gids, {})

\* Leave: groups that are not known are passed over
Leave(gids) == LeaveFreeing(gids, gids \cap known)

\* Mutant: the old group keeps the shard
WithoutNothing(q, s) == q

\* The slice q without its element s
Without(q, s) ==
    IF \E k \in DOMAIN q : q[k] = s
    THEN LET k == CHOOSE k \in DOMAIN q : q[k] = s /\ \A l \in 1 .. k - 1 : q[l] # s
         IN  SubSeq(q, 1, k - 1) \o SubSeq(q, k + 1, Len(q))
    ELSE q

\* Move: gid need not have joined; it becomes a key of g2shard
Move(s, gid) ==
    LET old == getLastCfg.shards[s]
        cut == [g \in Gid |-> IF g = old THEN Without(g2shard[g], s) ELSE g2shard[g]]
    IN  /\ ~assigning
        /\ Len(configs) <= MaxConfigs
        /\ AddConfig([getLastCfg EXCEPT !.shards[s] = gid])
        /\ g2shard' = [cut EXCEPT ![gid] = Append(@, s)]
        /\ known' = known \cup {gid}
        /\ UNCHANGED <<assigning, groupMap, shardToAssign>>
-----------------------------------------------------------------------------
(* The loops of navieAssign.                                               *)

Assign(s, gid) ==
    configs' = [configs EXCEPT ![Len(configs)].shards[s] = gid]

\* The first loop: the groups with too many shards give up all but share + 1
CutMore ==
    LET gid == groupMap["tmore"][1]
        rest == Front(g2shard[gid])
    IN  /\ assigning
        /\ groupMap["tmore"] # <<>>
        /\ shardToAssign' = Append(shardToAssign, Last(g2shard[gid]))
        /\ g2shard' = [g2shard EXCEPT ![gid] = rest]
        /\ groupMap' = IF Len(rest) = share + 1
                       THEN [groupMap EXCEPT !["tplus"] = Append(@, gid), !["tmore"] = Tail(@)]
                       ELSE groupMap
        /\ UNCHANGED <<configs, known, assigning>>

\* The second loop: shards without a group go to the groups with too few,
\* and then one to each of the others
AssignNext ==
    LET s == shardToAssign[1]
        less == groupMap["tless"] # <<>>
        gid == IF less THEN groupMap["tless"][1] ELSE groupMap["tok"][1]
        full == Len(g2shard[gid]) + 1 = share
    IN  /\ assigning
        /\ groupMap["tmore"] = <<>> /\ shardToAssign # <<>>
        /\ less \/ groupMap["tok"] # <<>>
        /\ shardToAssign' = Tail(shardToAssign)
        /\ Assign(s, gid)
        /\ g2shard' = [g2shard EXCEPT ![gid] = Append(@, s)]
        /\ groupMap' =
              CASE less /\ full  -> [groupMap EXCEPT !["tok"] = Append(@, gid), !["tless"] = Tail(@)]
                [] less /\ ~full -> groupMap
                [] ~less         -> [groupMap EXCEPT !["tplus"] = Append(@, gid), !["tok"] = Tail(@)]
        /\ UNCHANGED <<known, assigning>>

\* Mutant: a group that has got its share stays in the list
NeverFilled(q, full) == q

Filled(q, full) == IF full THEN Tail(q) ELSE q

\* The third loop: what the groups with too few still lack comes from the
\* groups with share + 1
FillLess ==
    LET from == groupMap["tplus"][1]
        to == groupMap["tless"][1]
        s == Last(g2shard[from])
        full == Len(g2shard[to]) + 1 = share
    IN  /\ assigning
        /\ groupMap["tmore"] = <<>> /\ shardToAssign = <<>>
        /\ groupMap["tless"] # <<>> /\ groupMap["tplus"] # <<>>
        /\ Assign(s, to)
        /\ g2shard' = [g2shard EXCEPT ![from] = Front(@), ![to] = Append(@, s)]
        /\ groupMap' = [groupMap EXCEPT !["tplus"] = Tail(@), !["tless"] = Filled(@, full)]
        /\ UNCHANGED <<known, assigning, shardToAssign>>

\* navieAssign returns
EndAssign ==
    /\ assigning
    /\ groupMap["tmore"] = <<>> /\ shardToAssign = <<>> /\ groupMap["tless"] = <<>>
    /\ assigning' = FALSE
    /\ groupMap' = NoLists
    /\ UNCHANGED <<configs, known, g2shard, shardToAssign>>
-----------------------------------------------------------------------------
navieAssign == CutMore \/ AssignNext \/ FillLess \/ EndAssign

Next ==
    \/ \E gids \in SUBSET Gid : Join(gids) \/ Leave(gids)
    \/ \E s \in Shard, gid \in Gid : Move(s, gid)
    \/ navieAssign

Spec == Init /\ [][Next]_vars

\* Nothing but navieAssign's own return ends it
FairSpec == Spec /\ WF_vars(navieAssign)
-----------------------------------------------------------------------------
(* Properties.                                                             *)

\* The configurations, the map from groups to shards and the lists of
\* navieAssign have their types; only known groups have shards.
TypeOK ==
    /\ configs \in Seq(Config) /\ configs # <<>>
    /\ known \subseteq Gid
    /\ g2shard \in [Gid -> Seq(Shard)]
    /\ \A g \in Gid \ known : g2shard[g] = <<>>
    /\ assigning \in BOOLEAN
    /\ groupMap \in [Class -> Seq(known)]
    /\ shardToAssign \in Seq(Shard)

\* Shard s is at place k of group g's slice
At(g, k, s) == k \in DOMAIN g2shard[g] /\ g2shard[g][k] = s

\* No element is read from an empty slice: groupMap[tok][0] in the second loop
\* of navieAssign and groupMap[tplus][0] in the third are there, and so is the
\* last shard of the group that gives one up.
NoIndexPanic ==
    assigning /\ groupMap["tmore"] = <<>> =>
        /\ shardToAssign # <<>> /\ groupMap["tless"] = <<>> => groupMap["tok"] # <<>>
        /\ shardToAssign = <<>> /\ groupMap["tless"] # <<>> =>
              groupMap["tplus"] # <<>> /\ g2shard[groupMap["tplus"][1]] # <<>>

\* Between two operations the newest configuration and g2shard say the same:
\* a shard is in the slice of the group it is assigned to, once, and in no
\* other; a shard of no group is in none.
Consistent ==
    ~assigning =>
    \A s \in Shard : LET owner == getLastCfg.shards[s] IN
        /\ \A g \in Gid, k \in 1 .. NShards : At(g, k, s) => g = owner
        /\ owner # NoGroup =>
              \E k \in 1 .. NShards : At(owner, k, s)
                 /\ \A l \in 1 .. Len(g2shard[owner]) : At(owner, l, s) => l = k

Load(c, g) == Cardinality({s \in Shard : c.shards[s] = g})

\* When navieAssign returns, every shard belongs to a known group, and every
\* known group has NShards / groups shards or one more.
Balanced ==
    [][assigning /\ ~assigning' =>
         /\ \A s \in Shard : getLastCfg.shards[s] \in known
         /\ \A g \in known : Load(getLastCfg, g) \in {share, share + 1}]_vars

\* From one configuration to the next a group that stays gains shards or
\* loses some, never both: no two groups swap shards.
GainsOrLoses ==
    ~assigning =>
    \A n \in 1 .. Len(configs) - 1 : \A g \in Gid :
        LET before == {s \in Shard : configs[n].shards[s] = g}
            after == {s \in Shard : configs[n + 1].shards[s] = g}
        IN  before \subseteq after \/ after \subseteq before

\* Before configuration n a Move has named group g, which had not joined
MovedUnjoined(n, g) ==
    \E m \in 1 .. n - 1 : \E s \in Shard :
        g \notin configs[m].groups /\ configs[m + 1] = [configs[m] EXCEPT !.shards[s] = g]

\* A configuration assigns shards to its own groups only, unless a Move has
\* named another: navieAssign then goes on giving that group its share, and
\* Join passes it over.
AssignedToMembers ==
    \A n \in 1 .. Len(configs) : \A s \in Shard :
        LET owner == configs[n].shards[s]
        IN  owner \in configs[n].groups \cup {NoGroup} \/ MovedUnjoined(n, owner)

\* What a Query may return: an operation in progress holds sm.mu
published == IF assigning THEN Front(configs) ELSE configs

History == INSTANCE ConfigHistory WITH configs <- published

\* For a Query the operations are atomic, and their results those of
\* ConfigHistory.tla: after a Join or Leave the shards are spread evenly, a Move
\* moves one shard, and no configuration is changed, skipped or withdrawn, not
\* even while navieAssign works on the next one.
ActsAsHistory == History!Spec

\* navieAssign returns: each of its three loops comes to an end.
AssignEnds == assigning ~> ~assigning
=============================================================================
