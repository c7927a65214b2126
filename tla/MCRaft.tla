------------------------------- MODULE MCRaft -------------------------------
(* Raft.tla for TLC.                                                       *)
EXTENDS Raft, TLC

\* Servers that differ in nothing but their name, and commands
Symmetry ==
    Permutations(Timers) \cup Permutations(Server \ Timers) \cup Permutations(Value)

\* A leader l of term t that all have voted for, nothing in flight: the state an
\* election ends in once its calls are over.  log[i] is the whole of rf.logs,
\* low[i] the index of its placeholder, done[i] what the service has executed.
ElectedWith(l, t, log, low, done) ==
    \E v \in Server \ {l} :
        /\ role = [i \in Server |-> IF i = l THEN "Leader" ELSE "Follower"]
        /\ currentTerm = [i \in Server |-> t]
        /\ votedFor = [i \in Server |-> l]
        /\ logs = log
        /\ lastIncludedIndex = low
        /\ lastIncludedTerm = [i \in Server |-> log[i][1].term]
        /\ commitIndex = [i \in Server |-> Len(done[i])]
        /\ lastApplied = [i \in Server |-> Len(done[i])]
        /\ service = done
        /\ snapJobs = {}
        /\ nextIndex = [i \in Server |-> [j \in Server |->
                           IF i = l /\ j # l THEN low[l] + Len(log[l]) ELSE 0]]
        /\ matchIndex = [i \in Server |-> [j \in Server |-> 0]]
        /\ beating = [i \in Server |-> FALSE]
        /\ rounds = [i \in Server |-> 0]
        /\ acks = [i \in Server |-> {}]
        /\ campaigns = [i \in Server |-> IF i = l THEN 1 ELSE 0]
        /\ votes = [i \in Server |->
                      IF i = l THEN {[term |-> t, round |-> 1, voter |-> v]} ELSE {}]
        /\ raftState = [i \in Server |-> [term |-> t, vote |-> l, logs |-> log[i],
                           lii |-> low[i], lit |-> log[i][1].term]]
        /\ snapshot = [i \in Server |-> SubSeq(done[i], 1, low[i])]
        /\ voteReq = {} /\ voteRep = {}
        /\ senders = {} /\ appReq = {} /\ appRep = {}
        /\ snapReq = {} /\ snapRep = {}
        /\ faults = 0
        /\ cast = {<<i, t, l>> : i \in Server}
        /\ erased = {}
        /\ elected = {<<t, l>>}

\* The same with the logs lg after the placeholder, and nothing committed
Elected(l, t, lg) ==
    ElectedWith(l, t, [i \in Server |-> <<Placeholder(-1)>> \o lg[i]],
                [i \in Server |-> 0], [i \in Server |-> <<>>])

\* The first election of a group
ElectedInit == \E l \in Timers : Elected(l, 0, [i \in Server |-> <<>>])
ElectedSpec == ElectedInit /\ [][Next]_vars

\* Logs two earlier leaders have left behind.  The leader of term 0 took two
\* commands and replicated none.  The leader of term 1, elected by the third
\* server, took one and replicated none; restarted, it won term 2.
DivergedInit ==
    \E a, b \in Timers : \E v, w \in Value :
        /\ a # b /\ (v = w => Value = {v})
        /\ Elected(b, 2, [i \in Server |->
              IF i = a THEN <<[term |-> 0, cmd |-> v], [term |-> 0, cmd |-> v]>>
              ELSE IF i = b THEN <<[term |-> 1, cmd |-> w]>> ELSE <<>>])

\* As before, but the leader of term 1 replicated its command to the third
\* server, committed it and took a snapshot, and then won term 2.  The first
\* leader holds another entry at the snapshot's index, and one after it.
CompactedInit ==
    \E a, b \in Timers : \E v, w \in Value :
        LET old == [term |-> 0, cmd |-> v]
            kept == [term |-> 1, cmd |-> w]
        IN  /\ a # b /\ (v = w => Value = {v})
            /\ ElectedWith(b, 2,
                  [i \in Server |-> IF i = a THEN <<Placeholder(-1), old, old>>
                                    ELSE IF i = b THEN <<kept>> ELSE <<Placeholder(-1), kept>>],
                  [i \in Server |-> IF i = b THEN 1 ELSE 0],
                  [i \in Server |-> IF i = b THEN <<w>> ELSE <<>>])
RepairSpec == (DivergedInit \/ CompactedInit) /\ [][Next]_vars

\* The goroutines of a leader and the handlers of its peers keep running, and
\* labrpc delivers: what the code does on a reliable network.  Timers, clients
\* and snapshots stay free.
Deliver ==
    \/ \E i \in Server : BroadcastEntries(i)
    \/ \E s \in senders : SendEntries(s)
    \/ \E m \in appReq : AppendEntries(m)
    \/ \E m \in appRep : AppendReply(m)
    \/ \E m \in snapReq : InstallSnapshot(m)
    \/ \E m \in snapRep : SnapshotReply(m)
FairRepairSpec == RepairSpec /\ WF_vars(Deliver)

\* A command a leader takes while another broadcast is to come is committed:
\* the back-off of nextIndex ends, whatever the followers' logs hold.
TakenIsCommitted ==
    \A i \in Server : \A g \in 1 .. MaxLog :
        (/\ role[i] = "Leader" /\ rounds[i] < MaxRounds
         /\ g \in lastIncludedIndex[i] + 1 .. LastLogIndex(i)
         /\ LogAt(i, g).term = currentTerm[i]) ~> (commitIndex[i] >= g)

\* The commands of a log differ, so that a lost, repeated or displaced one shows:
\* a constraint for runs with as many values as entries
FreshCommands ==
    \A i \in Server :
        LET new == SubSeq(logs[i], lastApplied[i] - lastIncludedIndex[i] + 2, Len(logs[i]))
        IN  IsInjective(service[i] \o [k \in DOMAIN new |-> new[k].cmd])

\* Nothing is claimed of logs once a vote has been forgotten
NothingErased == erased = {}
=============================================================================
