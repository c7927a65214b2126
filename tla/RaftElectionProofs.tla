------------------------- MODULE RaftElectionProofs -------------------------
(***************************************************************************)
(* Elections of Raft.tla, for any number of servers: what the persister    *)
(* holds, who has voted for whom, and when a term can have two leaders.    *)
(***************************************************************************)
EXTENDS RaftTypeProofs

USE Zenon, SMTT(30)

-----------------------------------------------------------------------------
(* The persister.                                                          *)

\* No step of server i changes what another one would write to its persister
OthersKept(i) == \A j \in Server \ {i} :
    /\ currentTerm'[j] = currentTerm[j] /\ votedFor'[j] = votedFor[j] /\ logs'[j] = logs[j]
    /\ lastIncludedIndex'[j] = lastIncludedIndex[j] /\ lastIncludedTerm'[j] = lastIncludedTerm[j]

\* A step that persists at its end leaves the persister in sync.
LEMMA SyncPersist ==
    ASSUME AllTypes, PersistInSync, NEW i \in Server, Persist(i), OthersKept(i)
    PROVE  PersistInSync'
  BY DEF AllTypes, DiskType, PersistInSync, Persist, OthersKept

\* So does a step that changes nothing that is persisted.
LEMMA SyncKept ==
    ASSUME PersistInSync, UNCHANGED <<currentTerm, votedFor, logVars, raftState>>
    PROVE  PersistInSync'
  BY DEF PersistInSync, logVars

\* Replacing the placeholder leaves the rest of the log alone.
LEMMA TailExcept ==
    ASSUME NEW S, NEW s \in Seq(S), s # <<>>, NEW x \in S
    PROVE  Tail([s EXCEPT ![1] = x]) = Tail(s)
  BY SMTT(30)

\* A server restarted on persisted data has in memory what is on disk.
LEMMA SyncReboot ==
    ASSUME AllTypes, PersistInSync, NEW i \in Server, NEW d \in RaftState, d.logs # <<>>, Reboot(i, d)
    PROVE  PersistInSync'
  <1>1. Tail([d.logs EXCEPT ![1] = Placeholder(d.lit)]) = Tail(d.logs)
    <2>1. d.logs \in Seq(Entry) /\ Placeholder(d.lit) \in Entry
      BY DEF RaftState, Placeholder, Entry, Command
    <2>. QED BY <2>1, TailExcept
  <1>. SUFFICES ASSUME NEW j \in Server
                PROVE  /\ raftState'[j].term = currentTerm'[j] /\ raftState'[j].vote = votedFor'[j]
                       /\ raftState'[j].lii = lastIncludedIndex'[j]
                       /\ raftState'[j].lit = lastIncludedTerm'[j]
                       /\ Tail(raftState'[j].logs) = Tail(logs'[j])
    BY DEF PersistInSync
  <1>2. CASE j = i
    BY <1>1, <1>2 DEF AllTypes, TermType, LogType, DiskType, Reboot
  <1>3. CASE j # i
    BY <1>3 DEF AllTypes, TermType, LogType, DiskType, Reboot, PersistInSync
  <1>. QED BY <1>2, <1>3

\* Every step that changes term, vote, log or snapshot position persists them.
LEMMA SyncNext == AllTypes /\ PersistInSync /\ [Next]_vars => PersistInSync'
  <1>. SUFFICES ASSUME AllTypes, PersistInSync, [Next]_vars PROVE PersistInSync'
    OBVIOUS
  <1>. USE DEF AllTypes
  <1>1. CASE UNCHANGED vars
    BY <1>1, SyncKept DEF vars, termVars, diskVars
  <1>2. ASSUME NEW i \in Server, ElectionTimeout(i) PROVE PersistInSync'
    <2>1. OthersKept(i)
      BY <1>2 DEF ElectionTimeout, OthersKept, TermType, logVars
    <2>. QED BY <1>2, <2>1, SyncPersist DEF ElectionTimeout
  <1>3. ASSUME NEW i \in Server, Campaign(i) PROVE PersistInSync'
    BY <1>3, SyncKept DEF Campaign, termVars, diskVars
  <1>4. ASSUME NEW m \in voteReq, RequestVote(m) PROVE PersistInSync'
    <2>0. m.dst \in Server
      BY DEF VoteNetType, VoteCalls
    <2>1. OthersKept(m.dst)
      BY <1>4, <2>0 DEF RequestVote, OthersKept, TermType, logVars
    <2>2. CASE Persist(m.dst)
      BY <2>0, <2>1, <2>2, SyncPersist
    <2>3. CASE UNCHANGED <<currentTerm, votedFor, raftState>>
      BY <1>4, <2>3, SyncKept DEF RequestVote
    <2>. QED BY <1>4, <2>0, <2>2, <2>3 DEF RequestVote, PersistIf, TermType
  <1>5. ASSUME NEW m \in voteRep, VoteReply(m) PROVE PersistInSync'
    <2>0. m.src \in Server
      BY DEF VoteNetType, VoteReplies
    <2>1. OthersKept(m.src)
      BY <1>5, <2>0 DEF VoteReply, StepDown, OthersKept, TermType, logVars, termVars
    <2>2. CASE Persist(m.src)
      BY <2>0, <2>1, <2>2, SyncPersist
    <2>3. CASE UNCHANGED <<currentTerm, votedFor, logVars, raftState>>
      BY <2>3, SyncKept
    <2>. QED BY <1>5, <2>2, <2>3 DEF VoteReply, termVars, diskVars
  <1>6. ASSUME NEW i \in Server, NEW v \in Value, Start(i, v) PROVE PersistInSync'
    <2>1. OthersKept(i)
      BY <1>6 DEF Start, OthersKept, LogType, termVars
    <2>. QED BY <1>6, <2>1, SyncPersist DEF Start
  <1>7. ASSUME NEW i \in Server, BroadcastEntries(i) PROVE PersistInSync'
    BY <1>7, SyncKept DEF BroadcastEntries, termVars, diskVars
  <1>8. ASSUME NEW s \in senders, SendEntries(s) PROVE PersistInSync'
    BY <1>8, SyncKept DEF SendEntries, termVars, diskVars
  <1>9. ASSUME NEW m \in appReq, AppendEntries(m) PROVE PersistInSync'
    <2>0. m.dst \in Server /\ m \in AppendCalls
      BY DEF AppNetType, AppendCalls
    <2>1. OthersKept(m.dst)
      <3>1. AdoptTerm(m.dst, m.term) \/ UNCHANGED termVars
        BY <1>9 DEF AppendEntries
      <3>2. \A j \in Server \ {m.dst} : currentTerm'[j] = currentTerm[j] /\ votedFor'[j] = votedFor[j]
        BY <2>0, <3>1 DEF AdoptTerm, StepDown, TermType, termVars
      <3>3. /\ UNCHANGED <<lastIncludedIndex, lastIncludedTerm>>
            /\ UNCHANGED logs \/ logs' = [logs EXCEPT ![m.dst] = MergedLog(m.dst, m)]
        BY <1>9 DEF AppendEntries, logVars
      <3>. QED BY <3>2, <3>3 DEF OthersKept, LogType
    <2>2. CASE Persist(m.dst)
      BY <2>0, <2>1, <2>2, SyncPersist
    <2>3. CASE UNCHANGED <<currentTerm, votedFor, raftState>> /\ ~UNCHANGED logs /\ m.entries = <<>>
                 /\ Matches(m.dst, m) /\ logs' = [logs EXCEPT ![m.dst] = MergedLog(m.dst, m)]
      <3>1. MergedLog(m.dst, m) = logs[m.dst]
        BY <2>0, <2>3, MergedLogType
      <3>2. UNCHANGED logs
        BY <2>3, <3>1 DEF LogType
      <3>. QED BY <2>3, <3>2
    <2>4. CASE UNCHANGED <<currentTerm, votedFor, raftState, logs>>
      <3>1. UNCHANGED logVars
        BY <1>9, <2>4 DEF AppendEntries, logVars
      <3>. QED BY <2>4, <3>1, SyncKept
    <2>. QED BY <1>9, <2>2, <2>3, <2>4 DEF AppendEntries, AdoptTerm, PersistIf, termVars, logVars
  <1>10. ASSUME NEW m \in appRep, AppendReply(m) PROVE PersistInSync'
    <2>0. m.src \in Server
      BY DEF AppNetType, AppendReplies
    <2>1. OthersKept(m.src)
      BY <1>10, <2>0 DEF AppendReply, StepDown, OthersKept, TermType, logVars, termVars
    <2>2. CASE Persist(m.src)
      BY <2>0, <2>1, <2>2, SyncPersist
    <2>3. CASE UNCHANGED <<currentTerm, votedFor, logVars, raftState>>
      BY <2>3, SyncKept
    <2>. QED BY <1>10, <2>2, <2>3 DEF AppendReply, termVars, diskVars
  <1>11. ASSUME NEW job \in snapJobs, TakeSnapshot(job) PROVE PersistInSync'
    <2>0. job.srv \in Server
      BY DEF ApplyType, SnapJobs
    <2>1. OthersKept(job.srv)
      BY <1>11, <2>0 DEF TakeSnapshot, OthersKept, LogType, logVars, termVars
    <2>2. CASE Persist(job.srv)
      BY <2>0, <2>1, <2>2, SyncPersist
    <2>3. CASE UNCHANGED <<currentTerm, votedFor, logVars, raftState>>
      BY <2>3, SyncKept
    <2>. QED BY <1>11, <2>2, <2>3 DEF TakeSnapshot, termVars, diskVars
  <1>12. ASSUME NEW m \in snapReq, InstallSnapshot(m) PROVE PersistInSync'
    <2>0. m.dst \in Server
      BY DEF SnapNetType, SnapCalls
    <2>1. OthersKept(m.dst)
      BY <1>12, <2>0 DEF InstallSnapshot, AdoptTerm, StepDown, OthersKept, TermType, LogType, logVars, termVars
    <2>2. CASE Persist(m.dst)
      BY <2>0, <2>1, <2>2, SyncPersist
    <2>3. CASE UNCHANGED <<currentTerm, votedFor, logVars, raftState>>
      BY <2>3, SyncKept
    <2>. QED BY <1>12, <2>2, <2>3 DEF InstallSnapshot, termVars, diskVars
  <1>13. ASSUME NEW m \in snapRep, SnapshotReply(m) PROVE PersistInSync'
    <2>0. m.src \in Server
      BY DEF SnapNetType, SnapReplies
    <2>1. OthersKept(m.src)
      BY <1>13, <2>0 DEF SnapshotReply, StepDown, OthersKept, TermType, logVars, termVars
    <2>2. CASE Persist(m.src)
      BY <2>0, <2>1, <2>2, SyncPersist
    <2>3. CASE UNCHANGED <<currentTerm, votedFor, logVars, raftState>>
      BY <2>3, SyncKept
    <2>. QED BY <1>13, <2>2, <2>3 DEF SnapshotReply, termVars
  <1>14. ASSUME NEW i \in Server, Restart(i) PROVE PersistInSync'
    <2>1. raftState[i] \in RaftState /\ raftState[i].logs # <<>>
      BY DEF DiskType
    <2>. QED BY <1>14, <2>1, SyncReboot DEF Restart
  <1>15. ASSUME NEW m \in Requests, CrashInHandler(m) PROVE PersistInSync'
    <2>1. m.dst \in Server /\ m.term \in Term
      BY DEF Requests, VoteNetType, AppNetType, SnapNetType, VoteCalls, AppendCalls, SnapCalls
    <2>. DEFINE d == [raftState[m.dst] EXCEPT !.term = m.term, !.vote = Nil]
    <2>2. d \in RaftState /\ d.logs # <<>>
      BY <2>1 DEF DiskType, RaftState
    <2>3. Reboot(m.dst, d)
      BY <1>15 DEF CrashInHandler
    <2>. HIDE DEF d
    <2>. QED BY <2>1, <2>2, <2>3, SyncReboot
  <1>16. ASSUME NEW m, Lose(m) PROVE PersistInSync'
    BY <1>16, SyncKept DEF Lose, termVars, diskVars
  <1>. QED BY <1>1, <1>2, <1>3, <1>4, <1>5, <1>6, <1>7, <1>8, <1>9, <1>10, <1>11, <1>12, <1>13,
              <1>14, <1>15, <1>16, TimersAssumption DEF Next

\* Every step of every handler that changes what must survive a crash writes it
\* to the persister before it releases rf.mu.
THEOREM PersistedInSync == Spec => []PersistInSync
  <1>1. Init => PersistInSync
    <2>. SUFFICES ASSUME Init PROVE PersistInSync
      OBVIOUS
    <2>. DEFINE d == [term |-> -1, vote |-> Nil, logs |-> <<Placeholder(-1)>>, lii |-> 0, lit |-> -1]
    <2>1. ASSUME NEW i \in Server PROVE raftState[i] = d /\ Tail(logs[i]) = Tail(d.logs)
      BY DEF Init
    <2>2. ASSUME NEW i \in Server
          PROVE  /\ currentTerm[i] = -1 /\ votedFor[i] = Nil
                 /\ lastIncludedIndex[i] = 0 /\ lastIncludedTerm[i] = -1
      BY DEF Init
    <2>3. d.term = -1 /\ d.vote = Nil /\ d.lii = 0 /\ d.lit = -1
      OBVIOUS
    <2>. HIDE DEF d
    <2>. QED BY <2>1, <2>2, <2>3 DEF PersistInSync
  <1>2. Spec => []AllTypes
    BY TypeInit, TypeNext, PTL DEF Spec
  <1>. QED BY <1>1, <1>2, SyncNext, PTL DEF Spec

-----------------------------------------------------------------------------
(* Votes and leaders.  The inductive invariant ties every history record   *)
(* to the state that justifies it.                                         *)

\* A vote is of an older term, or the one votedFor still names, or forgotten.
Ballots ==
    \A b \in cast : \/ b[2] < currentTerm[b[1]]
                    \/ b[2] = currentTerm[b[1]] /\ b[3] = votedFor[b[1]]
                    \/ <<b[1], b[2]>> \in erased

\* No server asks itself for a vote.
NoCallToSelf == \A m \in voteReq : m.src # m.dst

\* A reply that a candidate will count stands for a vote cast in its term.
Grants ==
    \A m \in voteRep :
        /\ m.src # m.dst
        /\ m.granted /\ m.term <= m.reqTerm => <<m.dst, m.reqTerm, m.src>> \in cast

\* So does every vote a candidate has counted, none of which is its own.
Counted ==
    \A i \in Server : \A v \in votes[i] : v.voter # i /\ <<v.voter, v.term, i>> \in cast

\* A candidate has voted for itself.
Candidates ==
    \A i \in Server : role[i] = "Candidate" => <<i, currentTerm[i], i>> \in cast

\* Q is a majority of the servers, all of which have voted for l in term t
VotedIn(Q, t, l) ==
    /\ Q \subseteq Server /\ 2 * Cardinality(Q) > Cardinality(Server)
    /\ \A q \in Q : <<q, t, l>> \in cast

\* A leader has the votes of a majority.
Winners == \A e \in elected : \E Q : VotedIn(Q, e[1], e[2])

ElectionInv ==
    Ballots /\ NoCallToSelf /\ Grants /\ Counted /\ Candidates /\ Winners

\* A server that becomes a follower of term t keeps its word as long as the
\* terms from t on, up to the one it leaves, are recorded as erased.
LEMMA StepDownKeeps ==
    ASSUME AllTypes, Ballots, Candidates, NEW i \in Server, NEW t \in Term, StepDown(i, t),
           cast' = cast, erased \subseteq erased',
           \A x \in Term : t <= x /\ x <= currentTerm[i] => <<i, x>> \in erased'
    PROVE  Ballots' /\ Candidates'
  <1>1. Candidates'
    BY DEF AllTypes, TermType, Candidates, StepDown
  <1>2. ASSUME NEW b \in cast
        PROVE  \/ b[2] < currentTerm'[b[1]]
               \/ b[2] = currentTerm'[b[1]] /\ b[3] = votedFor'[b[1]]
               \/ <<b[1], b[2]>> \in erased'
    <2>0. b[1] \in Server /\ b[2] \in Term
      BY DEF AllTypes, HistoryType
    <2>1. CASE b[1] # i
      <3>1. currentTerm'[b[1]] = currentTerm[b[1]] /\ votedFor'[b[1]] = votedFor[b[1]]
        BY <2>0, <2>1 DEF AllTypes, TermType, StepDown
      <3>. QED BY <3>1, <2>0, <1>2 DEF Ballots
    <2>2. CASE b[1] = i
      <3>1. currentTerm'[i] = t /\ currentTerm[i] \in Term
        BY DEF AllTypes, TermType, StepDown
      <3>2. \/ b[2] <= currentTerm[i]
            \/ <<i, b[2]>> \in erased
        BY SMTT(30), <2>0, <2>2, <3>1, <1>2 DEF Ballots, Term
      <3>3. CASE b[2] <= currentTerm[i] /\ t <= b[2]
        BY <2>0, <2>2, <3>3
      <3>4. CASE b[2] < t
        BY <2>2, <3>1, <3>4
      <3>. QED BY SMTT(30), <2>0, <2>2, <3>2, <3>3, <3>4 DEF Term
    <2>. QED BY <2>1, <2>2
  <1>. QED BY <1>1, <1>2 DEF Ballots

\* Following a newer term is such a step.
LEMMA AdoptTermKeeps ==
    ASSUME AllTypes, Ballots, Candidates, NEW i \in Server, NEW t \in Term, AdoptTerm(i, t),
           cast' = cast, erased' = erased
    PROVE  Ballots' /\ Candidates'
  <1>1. CASE t > currentTerm[i]
    <2>1. StepDown(i, t)
      BY <1>1 DEF AdoptTerm
    <2>2. \A x \in Term : ~(t <= x /\ x <= currentTerm[i])
      BY SMTT(30), <1>1 DEF AllTypes, TermType, Term
    <2>. QED BY <2>1, <2>2, StepDownKeeps
  <1>2. CASE UNCHANGED termVars
    BY <1>2 DEF termVars, Ballots, Candidates
  <1>. QED BY <1>1, <1>2 DEF AdoptTerm

\* Nothing that an election rests on changes
LEMMA BallotsKept ==
    ASSUME Ballots, Candidates, UNCHANGED <<termVars, cast, erased>>
    PROVE  Ballots' /\ Candidates'
  BY DEF termVars, Ballots, Candidates

\* Votes that have been counted stay backed by votes that were cast.
LEMMA CountsKept ==
    ASSUME NoCallToSelf, Grants, Counted, Winners,
           voteReq' \subseteq voteReq, voteRep' \subseteq voteRep,
           UNCHANGED <<votes, cast, elected>>
    PROVE  NoCallToSelf' /\ Grants' /\ Counted' /\ Winners'
  BY DEF NoCallToSelf, Grants, Counted, Winners, VotedIn

\* A vote more does no harm to what is already on record.
LEMMA CastGrows ==
    ASSUME Winners, cast \subseteq cast', elected' = elected
    PROVE  Winners'
  <1>. SUFFICES ASSUME NEW e \in elected PROVE \E Q : VotedIn(Q, e[1], e[2])'
    BY DEF Winners
  <1>1. PICK Q : VotedIn(Q, e[1], e[2])
    BY DEF Winners
  <1>2. VotedIn(Q, e[1], e[2])'
    BY <1>1 DEF VotedIn
  <1>. QED BY <1>2

\* Becoming a candidate keeps the election invariant: the term is new to the server.
LEMMA InvElectionTimeout ==
    ASSUME AllTypes, ElectionInv, NEW i \in Server, ElectionTimeout(i)
    PROVE  ElectionInv'
  <1>. DEFINE t == currentTerm[i] + 1
  <1>0. /\ currentTerm' = [currentTerm EXCEPT ![i] = t]
        /\ votedFor' = [votedFor EXCEPT ![i] = i]
        /\ role' = [role EXCEPT ![i] = "Candidate"]
        /\ cast' = cast \cup {<<i, t, i>>}
        /\ UNCHANGED <<votes, voteReq, voteRep, erased, elected>>
    BY DEF ElectionTimeout, voteVars, voteNet
  <1>1. t \in Term /\ t > currentTerm[i] /\ currentTerm[i] \in Term
    BY SMTT(30) DEF AllTypes, TermType, Term
  <1>. HIDE DEF t
  <1>2. ASSUME NEW b \in cast'
        PROVE  \/ b[2] < currentTerm'[b[1]]
               \/ b[2] = currentTerm'[b[1]] /\ b[3] = votedFor'[b[1]]
               \/ <<b[1], b[2]>> \in erased'
    <2>1. CASE b = <<i, t, i>>
      BY <1>0, <2>1 DEF AllTypes, TermType
    <2>2. CASE b \in cast /\ b[1] # i
      <3>1. b[1] \in Server
        BY <2>2 DEF AllTypes, HistoryType
      <3>. QED BY <1>0, <2>2, <3>1 DEF AllTypes, TermType, ElectionInv, Ballots
    <2>3. CASE b \in cast /\ b[1] = i
      <3>1. b[2] \in Term
        BY <2>3 DEF AllTypes, HistoryType
      <3>2. currentTerm'[i] = t
        BY <1>0 DEF AllTypes, TermType
      <3>. QED BY SMTT(30), <1>0, <1>1, <2>3, <3>1, <3>2 DEF ElectionInv, Ballots, Term
    <2>. QED BY <1>0, <2>1, <2>2, <2>3
  <1>3. Candidates'
    BY <1>0 DEF AllTypes, TermType, ElectionInv, Candidates
  <1>4. Grants' /\ Counted' /\ NoCallToSelf'
    BY <1>0 DEF ElectionInv, Grants, Counted, NoCallToSelf
  <1>5. Winners'
    BY <1>0, CastGrows DEF ElectionInv
  <1>. QED BY <1>2, <1>3, <1>4, <1>5 DEF ElectionInv, Ballots

\* Asking for votes keeps the election invariant.
LEMMA InvCampaign ==
    ASSUME AllTypes, ElectionInv, NEW i \in Server, Campaign(i)
    PROVE  ElectionInv'
  <1>1. UNCHANGED <<termVars, cast, erased, votes, voteRep, elected>>
    BY DEF Campaign, history
  <1>2. NoCallToSelf'
    BY SMTT(30) DEF Campaign, ElectionInv, NoCallToSelf
  <1>3. Grants' /\ Counted' /\ Winners'
    BY <1>1 DEF ElectionInv, Grants, Counted, Winners, VotedIn
  <1>. QED BY <1>1, <1>2, <1>3, BallotsKept DEF ElectionInv

\* RequestVote keeps the election invariant: a vote is given only where none was.
LEMMA InvRequestVote ==
    ASSUME AllTypes, ElectionInv, NEW m \in voteReq, RequestVote(m)
    PROVE  ElectionInv'
  <1>. DEFINE i == m.dst
              newTerm == m.term > currentTerm[i]
              term == IF newTerm THEN m.term ELSE currentTerm[i]
  <1>0. i \in Server /\ m.src \in Server /\ m.term \in Term /\ m.src # m.dst
    BY DEF AllTypes, VoteNetType, VoteCalls, ElectionInv, NoCallToSelf
  <1>1. PICK grant \in BOOLEAN :
           /\ grant => newTerm \/ votedFor[i] \in {Nil, m.src}
           /\ currentTerm' = [currentTerm EXCEPT ![i] = term]
           /\ role' = [role EXCEPT ![i] = IF newTerm THEN "Follower" ELSE @]
           /\ votedFor' = [votedFor EXCEPT ![i] = IF grant THEN m.src ELSE IF newTerm THEN Nil ELSE @]
           /\ cast' = IF grant THEN cast \cup {<<i, term, m.src>>} ELSE cast
           /\ voteRep' = IF m.round = 0 THEN voteRep ELSE voteRep \cup
                 {[src |-> m.src, dst |-> i, reqTerm |-> m.term, round |-> m.round,
                   term |-> currentTerm[i], granted |-> grant]}
    <2>. DEFINE g == /\ \/ m.lastTerm > LastLogTerm(i)
                        \/ m.lastTerm = LastLogTerm(i) /\ m.lastIndex >= LastLogIndex(i)
                     /\ newTerm \/ votedFor[i] \in {Nil, m.src}
    <2>1. g \in BOOLEAN
      OBVIOUS
    <2>. QED BY <2>1 DEF RequestVote, Grant, NewerEntries
  <1>2. UNCHANGED <<votes, erased, elected>> /\ voteReq' \subseteq voteReq
    BY DEF RequestVote, voteVars
  <1>3. /\ term \in Term /\ currentTerm[i] \in Term /\ term >= currentTerm[i]
        /\ newTerm => term = m.term /\ term > currentTerm[i]
        /\ ~newTerm => term = currentTerm[i]
        /\ newTerm \in BOOLEAN
        /\ ~newTerm => m.term <= currentTerm[i]
    <2>1. currentTerm[i] \in Term /\ m.term \in Term
      BY <1>0 DEF AllTypes, TermType
    <2>. QED BY ONLY SMTT(30), <2>1 DEF Term
  <1>. HIDE DEF newTerm, term
  <1>4. cast \subseteq cast'
    BY <1>1
  <1>5. ASSUME NEW b \in cast'
        PROVE  \/ b[2] < currentTerm'[b[1]]
               \/ b[2] = currentTerm'[b[1]] /\ b[3] = votedFor'[b[1]]
               \/ <<b[1], b[2]>> \in erased'
    <2>0. currentTerm'[i] = term
      BY <1>0, <1>1 DEF AllTypes, TermType
    <2>1. CASE b \notin cast
      <3>1. grant /\ b = <<i, term, m.src>>
        BY <1>1, <1>5, <2>1
      <3>2. votedFor'[i] = m.src
        BY <1>0, <1>1, <3>1 DEF AllTypes, TermType
      <3>. QED BY <2>0, <3>1, <3>2
    <2>2. CASE b \in cast /\ b[1] # i
      <3>1. b[1] \in Server
        BY <2>2 DEF AllTypes, HistoryType
      <3>2. currentTerm'[b[1]] = currentTerm[b[1]] /\ votedFor'[b[1]] = votedFor[b[1]]
        BY <1>0, <1>1, <2>2, <3>1 DEF AllTypes, TermType
      <3>. QED BY <1>2, <2>2, <3>2 DEF ElectionInv, Ballots
    <2>3. CASE b \in cast /\ b[1] = i
      <3>1. b[2] \in Term /\ b[3] \in Server
        BY <2>3 DEF AllTypes, HistoryType
      <3>2. \/ b[2] < currentTerm[i]
            \/ b[2] = currentTerm[i] /\ b[3] = votedFor[i]
            \/ <<i, b[2]>> \in erased
        BY <2>3 DEF ElectionInv, Ballots
      <3>3. CASE b[2] < currentTerm[i]
        BY SMTT(30), <1>3, <2>0, <2>3, <3>1, <3>3 DEF Term
      <3>4. CASE b[2] = currentTerm[i] /\ newTerm
        BY <1>3, <2>0, <2>3, <3>1, <3>4 DEF Term
      <3>5. CASE b[2] = currentTerm[i] /\ b[3] = votedFor[i] /\ ~newTerm
        <4>1. votedFor[i] # Nil
          BY <3>1, <3>5, NilAssumption
        <4>2. votedFor'[i] = votedFor[i]
          BY <1>0, <1>1, <3>5, <4>1 DEF AllTypes, TermType
        <4>. QED BY <1>3, <2>0, <2>3, <3>5, <4>2
      <3>6. CASE <<i, b[2]>> \in erased
        BY <1>2, <2>3, <3>6
      <3>. QED BY <1>3, <3>2, <3>3, <3>4, <3>5, <3>6
    <2>. QED BY <2>1, <2>2, <2>3
  <1>6. Candidates'
    <2>. SUFFICES ASSUME NEW j \in Server, role'[j] = "Candidate"
                  PROVE  <<j, currentTerm'[j], j>> \in cast'
      BY DEF Candidates
    <2>1. role[j] = "Candidate" /\ currentTerm'[j] = currentTerm[j]
      BY <1>0, <1>1, <1>3 DEF AllTypes, TermType
    <2>. QED BY <1>4, <2>1 DEF ElectionInv, Candidates
  <1>7. Grants'
    <2>. SUFFICES ASSUME NEW r \in voteRep'
                  PROVE  /\ r.src # r.dst
                         /\ r.granted /\ r.term <= r.reqTerm => <<r.dst, r.reqTerm, r.src>> \in cast'
      BY DEF Grants
    <2>1. CASE r \in voteRep
      BY <1>4, <2>1 DEF ElectionInv, Grants
    <2>2. CASE r \notin voteRep
      <3>1. r = [src |-> m.src, dst |-> i, reqTerm |-> m.term, round |-> m.round,
                 term |-> currentTerm[i], granted |-> grant]
        BY <1>1, <2>2
      <3>2. /\ r.src = m.src /\ r.dst = i /\ r.reqTerm = m.term /\ r.term = currentTerm[i]
            /\ r.granted = grant
        BY <3>1
      <3>3. CASE grant /\ currentTerm[i] <= m.term
        <4>1. term = m.term
          BY SMTT(30), <1>0, <1>3, <3>3 DEF Term
        <4>. QED BY <1>0, <1>1, <3>2, <3>3, <4>1
      <3>. QED BY <1>0, <3>2, <3>3
    <2>. QED BY <2>1, <2>2
  <1>8. Counted' /\ NoCallToSelf'
    BY <1>2, <1>4 DEF ElectionInv, Counted, NoCallToSelf
  <1>9. Winners'
    BY <1>2, <1>4, CastGrows DEF ElectionInv
  <1>. QED BY <1>5, <1>6, <1>7, <1>8, <1>9 DEF ElectionInv, Ballots

\* The counters of a campaign reach FirstMajority only with a majority of the
\* servers behind the candidate, itself included.
LEMMA MajorityVoted ==
    ASSUME NEW i \in Server, NEW W \in SUBSET Server, i \notin W,
           FirstMajority(1 + Cardinality(W))
    PROVE  2 * Cardinality(W \cup {i}) > Cardinality(Server)
  <1>1. IsFiniteSet(W) /\ Cardinality(Server) \in Nat
    BY ServerAssumption, FS_Subset, FS_CardinalityType
  <1>2. Cardinality(W) \in Nat /\ Cardinality(W \cup {i}) = Cardinality(W) + 1
    BY <1>1, FS_AddElement, FS_CardinalityType
  <1>3. \A n \in Nat : 2 * (n \div 2 + 1) > n
    BY SMTT(30)
  <1>. QED BY SMTT(30), <1>1, <1>2, <1>3 DEF FirstMajority

\* Counting votes keeps the election invariant: a leader has a majority behind it.
LEMMA InvVoteReply ==
    ASSUME AllTypes, ElectionInv, NEW m \in voteRep, VoteReply(m)
    PROVE  ElectionInv'
  <1>. DEFINE i == m.src
              vote(j) == [term |-> m.reqTerm, round |-> m.round, voter |-> j]
              counted == votes[i] \cup {vote(m.dst)}
              W == {j \in Server : vote(j) \in counted}
  <1>0. i \in Server /\ m.dst \in Server /\ m.src # m.dst /\ m.reqTerm \in Term /\ m.term \in Term
    BY DEF AllTypes, VoteNetType, VoteReplies, ElectionInv, Grants
  <1>1. voteRep' \subseteq voteRep /\ UNCHANGED voteReq
    BY DEF VoteReply
  <1>2. CASE /\ StepDown(i, currentTerm[i])
             /\ erased' = erased \cup {<<i, currentTerm[i]>>}
             /\ UNCHANGED <<votes, cast, elected>>
    <2>1. currentTerm[i] \in Term
      BY <1>0 DEF AllTypes, TermType
    <2>2. \A x \in Term : currentTerm[i] <= x /\ x <= currentTerm[i] => <<i, x>> \in erased'
      <3>1. \A x \in Term : currentTerm[i] <= x /\ x <= currentTerm[i] => x = currentTerm[i]
        BY ONLY SMTT(30), <2>1 DEF Term
      <3>. QED BY <1>2, <3>1
    <2>3. Ballots' /\ Candidates'
      BY <1>0, <1>2, <2>1, <2>2, StepDownKeeps DEF ElectionInv
    <2>. QED BY <1>1, <1>2, <2>3, CountsKept DEF ElectionInv
  <1>3. CASE UNCHANGED <<termVars, votes, history>>
    BY <1>1, <1>3, BallotsKept, CountsKept DEF ElectionInv, history
  <1>4. CASE /\ m.term <= currentTerm[i]
             /\ checkState(i, "Candidate", m.reqTerm) /\ m.granted
             /\ votes' = [votes EXCEPT ![i] = counted]
             /\ UNCHANGED <<currentTerm, votedFor, cast, erased>>
             /\ \/ FirstMajority(1 + Cardinality(W)) /\ BecomeLeader(i)
                \/ UNCHANGED <<role, elected>>
    <2>1. <<m.dst, m.reqTerm, i>> \in cast
      BY <1>0, <1>4 DEF ElectionInv, Grants, checkState
    <2>2. Ballots'
      BY <1>4 DEF ElectionInv, Ballots
    <2>3. Candidates'
      <3>1. CASE BecomeLeader(i)
        BY <1>0, <1>4, <3>1 DEF AllTypes, TermType, ElectionInv, Candidates, BecomeLeader, LeadFrom
      <3>. QED BY <1>4, <3>1 DEF ElectionInv, Candidates
    <2>4. \A v \in counted : v.voter # i /\ <<v.voter, v.term, i>> \in cast
      <3>1. \A v \in votes[i] : v.voter # i /\ <<v.voter, v.term, i>> \in cast
        BY <1>0 DEF ElectionInv, Counted
      <3>2. vote(m.dst).voter = m.dst /\ vote(m.dst).term = m.reqTerm
        OBVIOUS
      <3>. HIDE DEF vote
      <3>. QED BY <1>0, <2>1, <3>1, <3>2
    <2>. HIDE DEF counted
    <2>5. Counted'
      <3>. SUFFICES ASSUME NEW j \in Server, NEW v \in votes'[j]
                    PROVE  v.voter # j /\ <<v.voter, v.term, j>> \in cast
        BY <1>4 DEF Counted
      <3>1. CASE j = i
        <4>1. v \in counted
          BY <1>0, <1>4, <3>1 DEF AllTypes, VoteType
        <4>. QED BY <3>1, <4>1, <2>4
      <3>2. CASE j # i
        <4>1. v \in votes[j]
          BY <1>0, <1>4, <3>2 DEF AllTypes, VoteType
        <4>. QED BY <4>1 DEF ElectionInv, Counted
      <3>. QED BY <3>1, <3>2
    <2>6. \A j \in W : j # i /\ <<j, m.reqTerm, i>> \in cast
      <3>. SUFFICES ASSUME NEW j \in W PROVE j # i /\ <<j, m.reqTerm, i>> \in cast
        OBVIOUS
      <3>1. vote(j).voter = j /\ vote(j).term = m.reqTerm /\ vote(j) \in counted
        OBVIOUS
      <3>. HIDE DEF vote, W
      <3>. QED BY <2>4, <3>1
    <2>7. W \subseteq Server
      OBVIOUS
    <2>. HIDE DEF W, vote
    <2>8. Winners'
      <3>1. CASE FirstMajority(1 + Cardinality(W)) /\ BecomeLeader(i)
        <4>1. elected' = elected \cup {<<m.reqTerm, i>>}
          BY <1>4, <3>1 DEF BecomeLeader, LeadFrom, checkState
        <4>2. 2 * Cardinality(W \cup {i}) > Cardinality(Server)
          BY <1>0, <2>6, <2>7, <3>1, MajorityVoted
        <4>3. <<i, m.reqTerm, i>> \in cast
          BY <1>0, <1>4 DEF ElectionInv, Candidates, checkState
        <4>4. \E Q : VotedIn(Q, m.reqTerm, i)'
          <5>1. PICK Q : Q = W \cup {i}
            OBVIOUS
          <5>2. VotedIn(Q, m.reqTerm, i)'
            BY <1>0, <1>4, <2>6, <2>7, <4>2, <4>3, <5>1 DEF VotedIn
          <5>. QED BY <5>2
        <4>5. ASSUME NEW e \in elected' PROVE \E Q : VotedIn(Q, e[1], e[2])'
          <5>1. CASE e \in elected
            <6>1. PICK Q : VotedIn(Q, e[1], e[2])
              BY <5>1 DEF ElectionInv, Winners
            <6>2. VotedIn(Q, e[1], e[2])'
              BY <1>4, <6>1 DEF VotedIn
            <6>. QED BY <6>2
          <5>2. CASE e = <<m.reqTerm, i>>
            BY <4>4, <5>2
          <5>. QED BY <4>1, <5>1, <5>2
        <4>. QED BY <4>5 DEF Winners
      <3>2. CASE UNCHANGED elected
        BY <1>4, <3>2, CastGrows DEF ElectionInv
      <3>. QED BY <1>4, <3>1, <3>2
    <2>9. Grants' /\ NoCallToSelf'
      BY <1>1, <1>4 DEF ElectionInv, Grants, NoCallToSelf
    <2>. QED BY <2>2, <2>3, <2>5, <2>8, <2>9 DEF ElectionInv
  <1>. QED BY <1>2, <1>3, <1>4 DEF VoteReply

\* A restarted server is a follower with the term and the vote on its disk.
LEMMA InvReboot ==
    ASSUME AllTypes, ElectionInv, NEW i \in Server, NEW d, Reboot(i, d),
           NoCallToSelf', Ballots'
    PROVE  ElectionInv'
  <1>1. Candidates'
    BY DEF Reboot, history, AllTypes, TermType, ElectionInv, Candidates
  <1>2. Counted'
    BY DEF Reboot, history, AllTypes, VoteType, ElectionInv, Counted
  <1>3. Grants'
    BY DEF Reboot, history, OfOthers, ElectionInv, Grants
  <1>4. Winners'
    BY CastGrows DEF Reboot, history, ElectionInv
  <1>. QED BY <1>1, <1>2, <1>3, <1>4 DEF ElectionInv

\* Calls of a dead incarnation keep their sender and their receiver.
LEMMA OrphanedCalls ==
    ASSUME NEW S \in SUBSET VoteCalls, NEW i, \A m \in S : m.src # m.dst
    PROVE  \A m \in Orphaned(S, i) : m.src # m.dst
  BY DEF Orphaned, VoteCalls

\* Every step keeps the election invariant.
LEMMA InvNext == AllTypes /\ PersistInSync /\ ElectionInv /\ [Next]_vars => ElectionInv'
  <1>. SUFFICES ASSUME AllTypes, PersistInSync, ElectionInv, [Next]_vars PROVE ElectionInv'
    OBVIOUS
  <1>a. ASSUME Ballots', Candidates', UNCHANGED <<voteNet, votes, cast, elected>>
        PROVE  ElectionInv'
    BY <1>a, CountsKept DEF voteNet, ElectionInv
  <1>b. ASSUME UNCHANGED <<termVars, voteNet, votes, history>> PROVE ElectionInv'
    BY <1>a, <1>b, BallotsKept DEF history, ElectionInv
  <1>1. CASE UNCHANGED vars
    BY <1>1, <1>b DEF vars, voteVars
  <1>3. ASSUME NEW i \in Server, NEW v \in Value, Start(i, v) PROVE ElectionInv'
    BY <1>3, <1>b DEF Start, voteVars
  <1>4. ASSUME NEW i \in Server, BroadcastEntries(i) PROVE ElectionInv'
    BY <1>4, <1>b DEF BroadcastEntries, voteVars
  <1>5. ASSUME NEW s \in senders, SendEntries(s) PROVE ElectionInv'
    BY <1>5, <1>b DEF SendEntries, voteVars
  <1>6. ASSUME NEW m \in appReq, AppendEntries(m) PROVE ElectionInv'
    <2>1. m.dst \in Server /\ m.term \in Term
      BY DEF AllTypes, AppNetType, AppendCalls
    <2>2. AdoptTerm(m.dst, m.term) \/ UNCHANGED termVars
      BY <1>6 DEF AppendEntries
    <2>3. UNCHANGED <<voteNet, votes, cast, erased, elected>>
      BY <1>6 DEF AppendEntries, voteVars, history
    <2>. QED BY <2>1, <2>2, <2>3, <1>a, AdoptTermKeeps, BallotsKept DEF ElectionInv
  <1>7. ASSUME NEW m \in appRep, AppendReply(m) PROVE ElectionInv'
    <2>1. m.src \in Server /\ m.term \in Term
      BY DEF AllTypes, AppNetType, AppendReplies
    <2>2. UNCHANGED <<voteNet, votes, cast, elected>>
      BY <1>7 DEF AppendReply, voteVars
    <2>3. CASE /\ StepDown(m.src, m.term)
               /\ erased' = erased \cup {<<m.src, t>> : t \in m.term .. currentTerm[m.src]}
      <3>1. \A x \in Term : m.term <= x /\ x <= currentTerm[m.src] => <<m.src, x>> \in erased'
        BY SMTT(30), <2>1, <2>3 DEF Term
      <3>. QED BY <1>a, <2>1, <2>2, <2>3, <3>1, StepDownKeeps DEF ElectionInv
    <2>4. CASE UNCHANGED <<termVars, erased>>
      BY <1>a, <2>2, <2>4, BallotsKept DEF ElectionInv
    <2>. QED BY <1>7, <2>3, <2>4 DEF AppendReply
  <1>8. ASSUME NEW job \in snapJobs, TakeSnapshot(job) PROVE ElectionInv'
    BY <1>8, <1>b DEF TakeSnapshot, voteVars
  <1>9. ASSUME NEW m \in snapReq, InstallSnapshot(m) PROVE ElectionInv'
    <2>1. m.dst \in Server /\ m.term \in Term
      BY DEF AllTypes, SnapNetType, SnapCalls
    <2>2. AdoptTerm(m.dst, m.term) \/ UNCHANGED termVars
      BY <1>9 DEF InstallSnapshot
    <2>3. UNCHANGED <<voteNet, votes, cast, erased, elected>>
      BY <1>9 DEF InstallSnapshot, voteVars, history
    <2>. QED BY <2>1, <2>2, <2>3, <1>a, AdoptTermKeeps, BallotsKept DEF ElectionInv
  <1>10. ASSUME NEW m \in snapRep, SnapshotReply(m) PROVE ElectionInv'
    <2>1. m.src \in Server /\ m.term \in Term
      BY DEF AllTypes, SnapNetType, SnapReplies
    <2>2. AdoptTerm(m.src, m.term) \/ UNCHANGED termVars
      BY <1>10 DEF SnapshotReply, AdoptTerm
    <2>3. UNCHANGED <<voteNet, votes, cast, erased, elected>>
      BY <1>10 DEF SnapshotReply, voteVars, history
    <2>. QED BY <2>1, <2>2, <2>3, <1>a, AdoptTermKeeps, BallotsKept DEF ElectionInv
  <1>11. ASSUME NEW i \in Server, Restart(i) PROVE ElectionInv'
    <2>1. Reboot(i, raftState[i]) /\ voteReq' = Orphaned(voteReq, i)
      BY <1>11 DEF Restart
    <2>2. NoCallToSelf'
      BY <2>1, OrphanedCalls DEF AllTypes, VoteNetType, ElectionInv, NoCallToSelf
    <2>3. UNCHANGED <<currentTerm, votedFor, cast, erased>>
      <3>1. raftState[i].term = currentTerm[i] /\ raftState[i].vote = votedFor[i]
        BY DEF PersistInSync
      <3>. QED BY <2>1, <3>1 DEF Reboot, history, AllTypes, TermType
    <2>4. Ballots'
      BY <2>3 DEF ElectionInv, Ballots
    <2>. QED BY <2>1, <2>2, <2>4, InvReboot
  <1>12. ASSUME NEW m \in Requests, CrashInHandler(m) PROVE ElectionInv'
    <2>. DEFINE d == [raftState[m.dst] EXCEPT !.term = m.term, !.vote = Nil]
    <2>1. m.dst \in Server /\ m.term \in Term
      BY DEF Requests, AllTypes, VoteNetType, AppNetType, SnapNetType, VoteCalls, AppendCalls, SnapCalls
    <2>2. /\ Reboot(m.dst, d) /\ voteReq' = Orphaned(voteReq \ {m}, m.dst)
          /\ m.term > currentTerm[m.dst]
      BY <1>12 DEF CrashInHandler
    <2>3. NoCallToSelf'
      BY <2>2, OrphanedCalls DEF AllTypes, VoteNetType, ElectionInv, NoCallToSelf
    <2>4. d.term = m.term /\ d.vote = Nil
      BY <2>1 DEF AllTypes, DiskType, RaftState
    <2>. HIDE DEF d
    <2>5. StepDown(m.dst, m.term) /\ UNCHANGED <<cast, erased>>
      BY <2>2, <2>4 DEF Reboot, StepDown, history
    <2>6. AdoptTerm(m.dst, m.term)
      BY <2>2, <2>5 DEF AdoptTerm
    <2>7. Ballots'
      BY <2>1, <2>5, <2>6, AdoptTermKeeps DEF ElectionInv
    <2>. QED BY <2>1, <2>2, <2>3, <2>7, InvReboot
  <1>13. ASSUME NEW m, Lose(m) PROVE ElectionInv'
    BY <1>13, BallotsKept, CountsKept DEF Lose, voteVars, history, ElectionInv
  <1>. QED BY <1>1, <1>3, <1>4, <1>5, <1>6, <1>7, <1>8, <1>9, <1>10, <1>11, <1>12, <1>13,
              InvElectionTimeout, InvCampaign, InvRequestVote, InvVoteReply, TimersAssumption DEF Next

\* The election invariant holds before the first election.
LEMMA InvInit == Init => ElectionInv
  BY DEF Init, ElectionInv, Ballots, NoCallToSelf, Grants, Counted, Candidates, Winners

\* The election invariant holds in every reachable state.
LEMMA ElectionInvariant == Spec => []ElectionInv
  BY TypeInit, TypeNext, InvInit, InvNext, PersistedInSync, PTL DEF Spec

\* Votes are only added, in the voter's current term, and none is unforgotten.
LEMMA HistoryStep ==
    ASSUME AllTypes, [Next]_vars
    PROVE  erased \subseteq erased' /\ \A b \in cast' \ cast : b[2] = currentTerm'[b[1]]
  <1>1. ASSUME NEW i \in Server, ElectionTimeout(i)
        PROVE  UNCHANGED erased /\ \A b \in cast' \ cast : b[2] = currentTerm'[b[1]]
    BY SMTT(30), <1>1 DEF ElectionTimeout, AllTypes, TermType
  <1>2. ASSUME NEW m \in voteReq, RequestVote(m)
        PROVE  UNCHANGED erased /\ \A b \in cast' \ cast : b[2] = currentTerm'[b[1]]
    <2>1. m.dst \in Server
      BY DEF AllTypes, VoteNetType, VoteCalls
    <2>. DEFINE t == IF m.term > currentTerm[m.dst] THEN m.term ELSE currentTerm[m.dst]
    <2>2. /\ UNCHANGED erased /\ currentTerm' = [currentTerm EXCEPT ![m.dst] = t]
          /\ cast' \subseteq cast \cup {<<m.dst, t, m.src>>}
      BY <1>2 DEF RequestVote
    <2>. HIDE DEF t
    <2>. QED BY SMTT(30), <2>1, <2>2 DEF AllTypes, TermType
  <1>3. ASSUME NEW m \in voteRep, VoteReply(m) PROVE erased \subseteq erased' /\ cast' = cast
    BY <1>3 DEF VoteReply, history
  <1>4. ASSUME NEW m \in appRep, AppendReply(m) PROVE erased \subseteq erased' /\ cast' = cast
    BY <1>4 DEF AppendReply
  <1>5. CASE UNCHANGED history
    BY <1>5 DEF history
  <1>6. ASSUME NEW i \in Server
        PROVE  /\ Campaign(i) => UNCHANGED history
               /\ \A v \in Value : Start(i, v) => UNCHANGED history
               /\ BroadcastEntries(i) => UNCHANGED history
               /\ Restart(i) => UNCHANGED history
    BY DEF Campaign, Start, BroadcastEntries, Restart, Reboot
  <1>7. ASSUME NEW m
        PROVE  /\ SendEntries(m) => UNCHANGED history
               /\ AppendEntries(m) => UNCHANGED history
               /\ TakeSnapshot(m) => UNCHANGED history
               /\ InstallSnapshot(m) => UNCHANGED history
               /\ SnapshotReply(m) => UNCHANGED history
               /\ CrashInHandler(m) => UNCHANGED history
               /\ Lose(m) => UNCHANGED history
    BY DEF SendEntries, AppendEntries, TakeSnapshot, InstallSnapshot, SnapshotReply,
           CrashInHandler, Lose, Reboot
  <1>8. CASE UNCHANGED vars
    BY <1>5, <1>8 DEF vars
  <1>. QED BY <1>1, <1>2, <1>3, <1>4, <1>5, <1>6, <1>7, <1>8, TimersAssumption DEF Next

\* A vote added in the current term agrees with votedFor, so with every vote of
\* that term that is not forgotten.
LEMMA OnceNext ==
    ASSUME AllTypes, VoteOnceUnlessErased, Ballots', AllTypes', [Next]_vars
    PROVE  VoteOnceUnlessErased'
  <1>. SUFFICES ASSUME NEW a \in cast', NEW b \in cast', a[1] = b[1], a[2] = b[2], a[3] # b[3]
                PROVE  <<a[1], a[2]>> \in erased'
    BY DEF VoteOnceUnlessErased
  <1>1. erased \subseteq erased' /\ \A c \in cast' \ cast : c[2] = currentTerm'[c[1]]
    BY HistoryStep
  <1>2. CASE a \in cast /\ b \in cast
    BY <1>1, <1>2 DEF VoteOnceUnlessErased
  <1>3. CASE a[2] = currentTerm'[a[1]]
    <2>1. a[1] \in Server /\ a[2] \in Term
      BY DEF AllTypes, HistoryType
    <2>2. ~(a[2] < currentTerm'[a[1]])
      BY SMTT(30), <1>3, <2>1 DEF Term
    <2>3. a[3] = votedFor'[a[1]] \/ <<a[1], a[2]>> \in erased'
      BY <2>2 DEF Ballots
    <2>4. b[3] = votedFor'[a[1]] \/ <<a[1], a[2]>> \in erased'
      BY <2>2 DEF Ballots
    <2>. QED BY <2>3, <2>4
  <1>. QED BY <1>1, <1>2, <1>3

\* Across any number of elections, restarts and crashes between two persists a
\* server votes twice in a term only when a reply to one of its own calls has
\* made it forget its vote there.
THEOREM VotedOnce == Spec => []VoteOnceUnlessErased
  <1>1. Init => VoteOnceUnlessErased
    BY DEF Init, VoteOnceUnlessErased
  <1>2. Spec => []AllTypes
    BY TypeInit, TypeNext, PTL DEF Spec
  <1>3. Spec => []Ballots
    <2>1. ElectionInv => Ballots
      BY DEF ElectionInv
    <2>. QED BY <2>1, ElectionInvariant, PTL
  <1>4. AllTypes /\ AllTypes' /\ Ballots' /\ VoteOnceUnlessErased /\ [Next]_vars
          => VoteOnceUnlessErased'
    BY OnceNext
  <1>. QED BY <1>1, <1>2, <1>3, <1>4, PTL DEF Spec

\* Two servers become leader in one term only when some server has forgotten
\* its vote of that term: the vote counters of leaderElection and the missing
\* test for old terms in RequestVote never make two leaders by themselves.
THEOREM OneLeader == Spec => []OneLeaderUnlessErased
  <1>1. AllTypes /\ Winners /\ VoteOnceUnlessErased => OneLeaderUnlessErased
    <2>. SUFFICES ASSUME AllTypes, Winners, VoteOnceUnlessErased, NEW a \in elected, NEW b \in elected,
                         a[1] = b[1], a[2] # b[2]
                  PROVE  \E s \in Server : <<s, a[1]>> \in erased
      BY DEF OneLeaderUnlessErased
    <2>1. PICK P : VotedIn(P, a[1], a[2])
      BY DEF Winners
    <2>2. PICK Q : VotedIn(Q, b[1], b[2])
      BY DEF Winners
    <2>3. P \cap Q # {}
      <3>1. IsFiniteSet(P) /\ IsFiniteSet(Q)
        BY <2>1, <2>2, ServerAssumption, FS_Subset DEF VotedIn
      <3>2. Cardinality(P) \in Nat /\ Cardinality(Q) \in Nat /\ Cardinality(Server) \in Nat
        BY <3>1, ServerAssumption, FS_CardinalityType
      <3>3. Cardinality(P) + Cardinality(Q) > Cardinality(Server)
        BY SMTT(30), <2>1, <2>2, <3>2 DEF VotedIn
      <3>4. P \subseteq Server /\ Q \subseteq Server
        BY <2>1, <2>2 DEF VotedIn
      <3>. QED BY <3>3, <3>4, ServerAssumption, FS_MajoritiesIntersect
    <2>4. PICK s : s \in P /\ s \in Q
      BY <2>3
    <2>. DEFINE x == <<s, a[1], a[2]>>
                y == <<s, a[1], b[2]>>
    <2>5. s \in Server /\ x \in cast /\ y \in cast
      BY <2>1, <2>2, <2>4 DEF VotedIn
    <2>6. x[1] = s /\ x[2] = a[1] /\ x[3] = a[2] /\ y[1] = s /\ y[2] = a[1] /\ y[3] = b[2]
      OBVIOUS
    <2>. HIDE DEF x, y
    <2>7. <<x[1], x[2]>> \in erased
      BY <2>5, <2>6 DEF VoteOnceUnlessErased
    <2>. QED BY <2>5, <2>6, <2>7
  <1>2. Spec => []AllTypes
    BY TypeInit, TypeNext, PTL DEF Spec
  <1>3. Spec => []Winners
    <2>1. ElectionInv => Winners
      BY DEF ElectionInv
    <2>. QED BY <2>1, ElectionInvariant, PTL
  <1>. QED BY <1>1, <1>2, <1>3, VotedOnce, PTL
=============================================================================
