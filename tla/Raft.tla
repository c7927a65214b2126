-------------------------------- MODULE Raft --------------------------------
(***************************************************************************)
(* The Raft server of src/raft/raft.go: elections, log replication, log    *)
(* compaction with snapshots, persistence and restart.                     *)
(*                                                                         *)
(* Every critical section under rf.mu is one action.  A goroutine that     *)
(* gives the lock up around an RPC is split there: the call it has made is *)
(* a record in one of the network variables, the reply another.  labrpc    *)
(* delivers a call at most once, so a delivered record is removed; calls   *)
(* and replies overtake each other freely; a lost call is one that is      *)
(* never delivered, or removed by Lose.                                    *)
(***************************************************************************)
EXTENDS Integers, Sequences, FiniteSets, FiniteSetsExt

CONSTANTS
    Server,        \* the peers of one Raft group
    Value,         \* commands handed to Start
    Nil,           \* votedNull, and the command of the placeholder logs[0]
    Timers,        \* bound: the servers whose election timer ever expires
    MaxTerm,       \* bound: terms reached by election timeouts
    MaxLog,        \* bound: index of the last log entry
    MaxCampaigns,  \* bound: leaderElection calls per incarnation of a server
    MaxRounds,     \* bound: broadcastEntries calls per incarnation of a server
    MaxSnapIndex,  \* bound: indexes at which the service snapshots (0: never)
    MaxFaults      \* bound: restarts and explicitly lost calls

ASSUME ServerAssumption == IsFiniteSet(Server) /\ Server # {}
ASSUME TimersAssumption == Timers \subseteq Server
ASSUME NilAssumption == Nil \notin Server \cup Value
ASSUME BoundAssumption ==
    {MaxTerm, MaxLog, MaxCampaigns, MaxRounds, MaxSnapIndex, MaxFaults} \subseteq Nat

VARIABLES
    role, currentTerm, votedFor,
    logs,                   \* logs[i][k+1] is the Go slice element rf.logs[k]
    lastIncludedIndex, lastIncludedTerm,
    commitIndex, lastApplied,
    service,                \* commands whose effect the service above holds
    snapJobs,               \* TakeSnapshot goroutines the service has started
    nextIndex, matchIndex,
    beating,                \* the main loop is in its Leader branch
    rounds,                 \* broadcastEntries calls so far
    acks,                   \* commitNum of each round, as the followers counted
    campaigns,              \* leaderElection calls so far
    votes,                  \* voteCnt of each campaign, as the voters counted
    raftState, snapshot,    \* the Persister
    voteReq, voteRep, senders, appReq, appRep, snapReq, snapRep,
    faults,
    cast,                   \* history: every vote <<voter, term, candidate>>
    erased,                 \* history: <<server, term>> whose vote was forgotten
    elected                 \* history: every <<term, leader>>

termVars    == <<role, currentTerm, votedFor>>
logVars     == <<logs, lastIncludedIndex, lastIncludedTerm>>
applyVars   == <<commitIndex, lastApplied, service, snapJobs>>
leaderVars  == <<nextIndex, matchIndex, beating, rounds, acks>>
voteVars    == <<campaigns, votes>>
diskVars    == <<raftState, snapshot>>
voteNet     == <<voteReq, voteRep>>
appNet      == <<senders, appReq, appRep>>
snapNet     == <<snapReq, snapRep>>
history     == <<cast, erased, elected>>
vars == <<termVars, logVars, applyVars, leaderVars, voteVars, diskVars,
          voteNet, appNet, snapNet, faults, history>>
-----------------------------------------------------------------------------
Role == {"Follower", "Candidate", "Leader"}
Term == Nat \cup {-1}
Command == Value \cup {Nil}
Entry == [term : Term, cmd : Command]
Placeholder(t) == [term |-> t, cmd |-> Nil]

RaftState == [term : Term, vote : Server \cup {Nil}, logs : Seq(Entry),
              lii : Nat, lit : Term]

\* The counter n has just passed len(rf.peers)/2: voteFlag and commitFlag make
\* each round act on that once
FirstMajority(n) == n = Cardinality(Server) \div 2 + 1

LastLogIndex(i) == Len(logs[i]) - 1 + lastIncludedIndex[i]
LastLogTerm(i) == logs[i][Len(logs[i])].term
\* rf.logs[rf.subIdx(g)]
LogAt(i, g) == logs[i][g - lastIncludedIndex[i] + 1]
\* Mutant: the slice starts one element late
FromNext(log, low, g) == SubSeq(log, g - low + 2, Len(log))

\* rf.logs[rf.subIdx(g):], for a log that starts at index low
From(log, low, g) == SubSeq(log, g - low + 1, Len(log))
checkState(i, r, t) == role[i] = r /\ currentTerm[i] = t
-----------------------------------------------------------------------------
Init ==
    /\ role = [i \in Server |-> "Follower"]
    /\ currentTerm = [i \in Server |-> -1]
    /\ votedFor = [i \in Server |-> Nil]
    /\ logs = [i \in Server |-> <<Placeholder(-1)>>]
    /\ lastIncludedIndex = [i \in Server |-> 0]
    /\ lastIncludedTerm = [i \in Server |-> -1]
    /\ commitIndex = [i \in Server |-> 0]
    /\ lastApplied = [i \in Server |-> 0]
    /\ service = [i \in Server |-> <<>>]
    /\ snapJobs = {}
    /\ nextIndex = [i \in Server |-> [j \in Server |-> 0]]
    /\ matchIndex = [i \in Server |-> [j \in Server |-> 0]]
    /\ beating = [i \in Server |-> FALSE]
    /\ rounds = [i \in Server |-> 0]
    /\ acks = [i \in Server |-> {}]
    /\ campaigns = [i \in Server |-> 0]
    /\ votes = [i \in Server |-> {}]
    /\ raftState = [i \in Server |-> [term |-> -1, vote |-> Nil,
                       logs |-> <<Placeholder(-1)>>, lii |-> 0, lit |-> -1]]
    /\ snapshot = [i \in Server |-> <<>>]
    /\ voteReq = {} /\ voteRep = {}
    /\ senders = {} /\ appReq = {} /\ appRep = {}
    /\ snapReq = {} /\ snapRep = {}
    /\ faults = 0
    /\ cast = {} /\ erased = {} /\ elected = {}
-----------------------------------------------------------------------------
(* Steps several handlers share.                                           *)

\* Mutants: the vote, or the log, is not encoded
PersistNoVote(i) ==
    raftState' = [raftState EXCEPT ![i] =
        [term |-> currentTerm'[i], vote |-> @.vote, logs |-> logs'[i],
         lii |-> lastIncludedIndex'[i], lit |-> lastIncludedTerm'[i]]]
PersistNoLog(i) ==
    raftState' = [raftState EXCEPT ![i] =
        [term |-> currentTerm'[i], vote |-> votedFor'[i], logs |-> @.logs,
         lii |-> lastIncludedIndex'[i], lit |-> lastIncludedTerm'[i]]]

\* persist: what a later readPersist will find
Persist(i) ==
    raftState' = [raftState EXCEPT ![i] =
        [term |-> currentTerm'[i], vote |-> votedFor'[i], logs |-> logs'[i],
         lii |-> lastIncludedIndex'[i], lit |-> lastIncludedTerm'[i]]]

PersistIf(b, i) == IF b THEN Persist(i) ELSE UNCHANGED raftState

\* currentTerm = t; convertRoleTo(Follower)
StepDown(i, t) ==
    /\ currentTerm' = [currentTerm EXCEPT ![i] = t]
    /\ role' = [role EXCEPT ![i] = "Follower"]
    /\ votedFor' = [votedFor EXCEPT ![i] = Nil]

\* Mutant: a newer term does not make the server a follower
AdoptInRole(i, t) ==
    /\ currentTerm' = [currentTerm EXCEPT ![i] = Max({@, t})]
    /\ UNCHANGED <<role, votedFor>>

AdoptTerm(i, t) ==
    IF t > currentTerm[i] THEN StepDown(i, t) ELSE UNCHANGED termVars

\* commitIndex = c; applyLogs().  The service consumes each command in turn,
\* and may start a TakeSnapshot goroutine after any of them.  An index outside
\* rf.logs panics.
ApplyLogs(i, c) ==
    LET a == lastApplied[i]
        applied == service[i] \o
            [k \in 1 .. (c - a) |-> logs'[i][a + k - lastIncludedIndex'[i] + 1].cmd]
    IN  /\ a + 1 >= lastIncludedIndex'[i]
        /\ c - lastIncludedIndex'[i] \in 0 .. Len(logs'[i]) - 1
        /\ commitIndex' = [commitIndex EXCEPT ![i] = c]
        /\ lastApplied' = [lastApplied EXCEPT ![i] = c]
        /\ service' = [service EXCEPT ![i] = applied]
        /\ \E G \in SUBSET {g \in a + 1 .. c : g <= MaxSnapIndex} :
              snapJobs' = snapJobs \cup
                {[srv |-> i, index |-> g, term |-> currentTerm'[i],
                  data |-> SubSeq(applied, 1, Len(service[i]) + g - a)] : g \in G}
-----------------------------------------------------------------------------
(* Elections.                                                              *)

\* The main loop's timer: convertRoleTo(Candidate) whatever the role is by
\* then, unless the loop is in its Leader branch and still finds a leader.
ElectionTimeout(i) ==
    LET t == currentTerm[i] + 1
    IN  /\ ~(role[i] = "Leader" /\ beating[i])
        /\ t <= MaxTerm
        /\ currentTerm' = [currentTerm EXCEPT ![i] = t]
        /\ votedFor' = [votedFor EXCEPT ![i] = i]
        /\ role' = [role EXCEPT ![i] = "Candidate"]
        /\ beating' = [beating EXCEPT ![i] = FALSE]
        /\ cast' = cast \cup {<<i, t, i>>}
        /\ UNCHANGED <<logVars, snapshot>>
        /\ Persist(i)
        /\ UNCHANGED <<applyVars, nextIndex, matchIndex, rounds, acks, voteVars,
                       voteNet, appNet, snapNet, faults, erased, elected>>

\* leaderElection: the same arguments go to every peer
Campaign(i) ==
    /\ role[i] = "Candidate"
    /\ campaigns[i] < MaxCampaigns
    /\ campaigns' = [campaigns EXCEPT ![i] = @ + 1]
    /\ voteReq' = voteReq \cup
         {[src |-> i, dst |-> j, term |-> currentTerm[i], round |-> campaigns[i] + 1,
           lastIndex |-> LastLogIndex(i), lastTerm |-> LastLogTerm(i)] :
          j \in Server \ {i}}
    /\ UNCHANGED <<termVars, logVars, applyVars, leaderVars, votes, diskVars,
                   voteRep, appNet, snapNet, faults, history>>

\* Mutant: the logs are not compared
AnyEntries(i, m) == TRUE

\* The candidate's log is at least as new as the voter's
NewerEntries(i, m) ==
    \/ m.lastTerm > LastLogTerm(i)
    \/ m.lastTerm = LastLogTerm(i) /\ m.lastIndex >= LastLogIndex(i)

\* Mutant: votedFor is not looked at
GrantAgain(i, m) == NewerEntries(i, m)

\* In a new term the vote of the old one is forgotten first
Grant(i, m) ==
    NewerEntries(i, m) /\ (m.term > currentTerm[i] \/ votedFor[i] \in {Nil, m.src})

\* RequestVote: no test for an old term, and the reply has the term before
\* the update
RequestVote(m) ==
    LET i == m.dst
        newTerm == m.term > currentTerm[i]
        grant == Grant(i, m)
        term == IF newTerm THEN m.term ELSE currentTerm[i]
    IN  /\ voteReq' = voteReq \ {m}
        /\ currentTerm' = [currentTerm EXCEPT ![i] = term]
        /\ role' = [role EXCEPT ![i] = IF newTerm THEN "Follower" ELSE @]
        /\ votedFor' = [votedFor EXCEPT ![i] =
               IF grant THEN m.src ELSE IF newTerm THEN Nil ELSE @]
        /\ cast' = IF grant THEN cast \cup {<<i, term, m.src>>} ELSE cast
        /\ voteRep' = IF m.round = 0 THEN voteRep ELSE voteRep \cup
               {[src |-> m.src, dst |-> i, reqTerm |-> m.term, round |-> m.round,
                 term |-> currentTerm[i], granted |-> grant]}
        /\ UNCHANGED <<logVars, snapshot>>
        /\ PersistIf(newTerm \/ grant, i)
        /\ UNCHANGED <<applyVars, leaderVars, voteVars, appNet, snapNet, faults,
                       erased, elected>>

\* convertRoleTo(Leader), replication starting at index next
LeadFrom(i, next) ==
    /\ role' = [role EXCEPT ![i] = "Leader"]
    /\ nextIndex' = [nextIndex EXCEPT ![i] =
          [j \in Server |-> IF j = i THEN @[j] ELSE next]]
    /\ matchIndex' = [matchIndex EXCEPT ![i] =
          [j \in Server |-> IF j = i THEN @[j] ELSE 0]]
    /\ beating' = [beating EXCEPT ![i] = FALSE]
    /\ elected' = elected \cup {<<currentTerm[i], i>>}

\* Mutants: replication starts one index early, or late
LeadFromLast(i) == LeadFrom(i, LastLogIndex(i))
LeadBeyondEnd(i) == LeadFrom(i, LastLogIndex(i) + 2)

BecomeLeader(i) == LeadFrom(i, LastLogIndex(i) + 1)

\* The reply to a RequestVote call.  A reply with a higher term makes the
\* server a follower of the term it is in: its vote is forgotten, its term
\* stays.
VoteReply(m) ==
    LET i == m.src
        counted == votes[i] \cup {[term |-> m.reqTerm, round |-> m.round, voter |-> m.dst]}
        voteCnt == 1 + Cardinality({j \in Server :
              [term |-> m.reqTerm, round |-> m.round, voter |-> j] \in counted})
    IN  /\ voteRep' = voteRep \ {m}
        /\ \/ /\ m.term > currentTerm[i]
              /\ StepDown(i, currentTerm[i])
              /\ UNCHANGED <<logVars, snapshot>>
              /\ Persist(i)
              /\ erased' = erased \cup {<<i, currentTerm[i]>>}
              /\ UNCHANGED <<leaderVars, votes, cast, elected>>
           \/ /\ m.term <= currentTerm[i]
              /\ ~checkState(i, "Candidate", m.reqTerm) \/ ~m.granted
              /\ UNCHANGED <<termVars, logVars, leaderVars, votes, diskVars, history>>
           \/ /\ m.term <= currentTerm[i]
              /\ checkState(i, "Candidate", m.reqTerm) /\ m.granted
              /\ votes' = [votes EXCEPT ![i] = counted]
              /\ UNCHANGED <<currentTerm, votedFor, logVars, snapshot, rounds, acks, cast, erased>>
              /\ IF FirstMajority(voteCnt)
                 THEN BecomeLeader(i) /\ Persist(i)
                 ELSE UNCHANGED <<role, nextIndex, matchIndex, beating, elected, raftState>>
        /\ UNCHANGED <<applyVars, campaigns, voteReq, appNet, snapNet, faults>>
-----------------------------------------------------------------------------
(* Log replication.                                                        *)

\* Start
Start(i, v) ==
    /\ role[i] = "Leader"
    /\ LastLogIndex(i) < MaxLog
    /\ logs' = [logs EXCEPT ![i] = Append(@, [term |-> currentTerm[i], cmd |-> v])]
    /\ UNCHANGED <<termVars, lastIncludedIndex, lastIncludedTerm, snapshot>>
    /\ Persist(i)
    /\ UNCHANGED <<applyVars, leaderVars, voteVars, voteNet, appNet, snapNet,
                   faults, history>>

\* The main loop's Leader branch: broadcastEntries starts one goroutine per peer
BroadcastEntries(i) ==
    /\ role[i] = "Leader"
    /\ rounds[i] < MaxRounds
    /\ beating' = [beating EXCEPT ![i] = TRUE]
    /\ rounds' = [rounds EXCEPT ![i] = @ + 1]
    /\ senders' = senders \cup
          {[src |-> i, dst |-> j, term |-> currentTerm[i], round |-> rounds[i] + 1] :
           j \in Server \ {i}}
    /\ UNCHANGED <<termVars, logVars, applyVars, nextIndex, matchIndex, acks, voteVars,
                   diskVars, voteNet, appReq, appRep, snapNet, faults, history>>

\* One iteration of a broadcast goroutine up to its RPC.  The slice
\* expressions panic unless nextIndex is within the log.
SendEntries(s) ==
    LET i == s.src
        next == nextIndex[i][s.dst]
    IN  /\ senders' = senders \ {s}
        /\ \/ /\ ~checkState(i, "Leader", s.term)
              /\ UNCHANGED <<appReq, snapReq>>
           \/ /\ checkState(i, "Leader", s.term)
              /\ next <= lastIncludedIndex[i]
              /\ snapReq' = snapReq \cup
                    {[src |-> i, dst |-> s.dst, term |-> s.term, round |-> s.round,
                      lii |-> lastIncludedIndex[i], lit |-> lastIncludedTerm[i],
                      data |-> snapshot[i]]}
              /\ UNCHANGED appReq
           \/ /\ checkState(i, "Leader", s.term)
              /\ next \in lastIncludedIndex[i] + 1 .. LastLogIndex(i) + 1
              /\ appReq' = appReq \cup
                    {[src |-> i, dst |-> s.dst, term |-> s.term, round |-> s.round,
                      prev |-> next - 1, prevTerm |-> LogAt(i, next - 1).term,
                      entries |-> From(logs[i], lastIncludedIndex[i], next),
                      commit |-> commitIndex[i]]}
              /\ UNCHANGED snapReq
        /\ UNCHANGED <<termVars, logVars, applyVars, leaderVars, voteVars, diskVars,
                       voteNet, appRep, snapRep, faults, history>>

\* Mutant: entries that differ are kept, only missing ones are appended
MergedKeeping(i, m) ==
    LET missing == {k \in 1 .. Len(m.entries) : m.prev + k > LastLogIndex(i)}
    IN  IF missing = {} THEN logs[i]
        ELSE logs[i] \o SubSeq(m.entries, Min(missing), Len(m.entries))

\* Mutant: the log always ends with the call's last entry
MergedCutting(i, m) ==
    SubSeq(logs[i], 1, m.prev - lastIncludedIndex[i] + 1) \o m.entries

\* The log after AppendEntries: cut at the first entry that differs in its
\* term or is missing, continued with the leader's entries from there
MergedLog(i, m) ==
    LET at(k) == m.prev + k - lastIncludedIndex[i] + 1
        differs == {k \in 1 .. Len(m.entries) :
                      \/ at(k) > Len(logs[i])
                      \/ logs[i][at(k)].term # m.entries[k].term}
    IN  IF differs = {} THEN logs[i]
        ELSE SubSeq(logs[i], 1, at(Min(differs)) - 1)
               \o SubSeq(m.entries, Min(differs), Len(m.entries))

\* Mutant: the follower names the end of its own log
ConflictAtEnd(i, g) == LastLogIndex(i) + 1

\* The first index, after the snapshot, of the run of entries of one term
\* that ends at g; -1 when g is the snapshot's own index
ConflictIndex(i, g) ==
    LET sameTerm == {k \in lastIncludedIndex[i] + 1 .. g :
                       \A x \in k .. g : LogAt(i, x).term = LogAt(i, g).term}
    IN  IF sameTerm = {} THEN -1 ELSE Min(sameTerm)

ReplyAppend(m, success, ci, ct) ==
    appRep' = IF m.round = 0 THEN appRep ELSE appRep \cup
        {[src |-> m.src, dst |-> m.dst, reqTerm |-> m.term, round |-> m.round,
          prev |-> m.prev, n |-> Len(m.entries), term |-> currentTerm'[m.dst],
          success |-> success, conflictIndex |-> ci, conflictTerm |-> ct]}

Missing(i, m) == LastLogIndex(i) < m.prev
Compacted(i, m) == ~Missing(i, m) /\ lastIncludedIndex[i] > m.prev
Mismatch(i, m) ==
    m.prev \in lastIncludedIndex[i] .. LastLogIndex(i) /\ LogAt(i, m.prev).term # m.prevTerm
\* Mutant: the term of the previous entry is not compared
MatchesAnyTerm(i, m) == m.prev \in lastIncludedIndex[i] .. LastLogIndex(i)

Matches(i, m) ==
    m.prev \in lastIncludedIndex[i] .. LastLogIndex(i) /\ LogAt(i, m.prev).term = m.prevTerm

CommitGrows(i, m) == m.commit > commitIndex[i]

\* AppendEntries: an old term; a consistency check that fails; success.
\* A server of the leader's own term keeps its role.
AppendEntries(m) ==
    LET i == m.dst
        last(log) == Len(log) - 1 + lastIncludedIndex[i]
    IN  /\ appReq' = appReq \ {m}
        /\ \/ /\ m.term < currentTerm[i]
              /\ UNCHANGED <<termVars, logs, raftState, applyVars>>
              /\ ReplyAppend(m, FALSE, -1, -1)
           \/ /\ m.term >= currentTerm[i]
              /\ AdoptTerm(i, m.term)
              /\ UNCHANGED <<logVars, applyVars>>
              /\ PersistIf(m.term > currentTerm[i], i)
              /\ \/ Missing(i, m) /\ ReplyAppend(m, FALSE, LastLogIndex(i) + 1, -1)
                 \/ Compacted(i, m) /\ ReplyAppend(m, FALSE, lastIncludedIndex[i] + 1, -1)
                 \/ Mismatch(i, m) /\ ReplyAppend(m, FALSE, ConflictIndex(i, m.prev),
                                                  LogAt(i, m.prev).term)
           \/ /\ m.term >= currentTerm[i]
              /\ Matches(i, m)
              /\ AdoptTerm(i, m.term)
              /\ logs' = [logs EXCEPT ![i] = MergedLog(i, m)]
              /\ UNCHANGED <<lastIncludedIndex, lastIncludedTerm>>
              /\ PersistIf(m.term > currentTerm[i] \/ m.entries # <<>>, i)
              /\ IF CommitGrows(i, m)
                 THEN ApplyLogs(i, Min({m.commit, last(logs'[i])}))
                 ELSE UNCHANGED applyVars
              /\ ReplyAppend(m, TRUE, -1, -1)
        /\ UNCHANGED <<lastIncludedIndex, lastIncludedTerm, leaderVars, voteVars,
                       snapshot, voteNet, senders, snapNet, faults, history>>

\* Mutant: a refusal does not move nextIndex
RetryThere(i, m) == nextIndex[i][m.dst]

\* The nextIndex a refused AppendEntries leads to
RetryIndex(i, m) ==
    LET lii == lastIncludedIndex[i]
        sameTerm == {g \in lii + 1 .. m.conflictIndex : LogAt(i, g).term = m.conflictTerm}
    IN  IF m.conflictTerm = -1 THEN m.conflictIndex
        ELSE IF sameTerm # {} THEN Max(sameTerm) + 1
        ELSE IF lii # 0 THEN lii ELSE 1

\* Mutant: every success counts
NeverExpired(i, len) == FALSE

\* A success that comes after a longer one has been committed
Expired(i, len) == len < commitIndex[i]

\* The reply to an AppendEntries call.  A term above the one the call was
\* made in replaces currentTerm, whatever that is by now.  Replies to empty
\* calls are otherwise ignored, refused ones too.
AppendReply(m) ==
    LET i == m.src
        j == m.dst
        len == m.prev + m.n
        counted == acks[i] \cup {[term |-> m.reqTerm, round |-> m.round, from |-> j]}
        commitNum == 1 + Cardinality({k \in Server :
              [term |-> m.reqTerm, round |-> m.round, from |-> k] \in counted})
        current == m.term <= m.reqTerm /\ checkState(i, "Leader", m.reqTerm) /\ m.n > 0
    IN  /\ appRep' = appRep \ {m}
        /\ \/ /\ m.term > m.reqTerm
              /\ StepDown(i, m.term)
              /\ UNCHANGED <<logVars, snapshot>>
              /\ Persist(i)
              /\ erased' = erased \cup {<<i, t>> : t \in m.term .. currentTerm[i]}
              /\ UNCHANGED <<nextIndex, matchIndex, acks, applyVars, senders>>
           \/ /\ m.term <= m.reqTerm
              /\ ~current \/ (m.success /\ Expired(i, len))
              /\ UNCHANGED <<termVars, diskVars, nextIndex, matchIndex, acks, applyVars,
                             senders, erased>>
           \/ /\ current /\ m.success /\ ~Expired(i, len)
              /\ IF len >= matchIndex[i][j]
                 THEN /\ matchIndex' = [matchIndex EXCEPT ![i][j] = len]
                      /\ nextIndex' = [nextIndex EXCEPT ![i][j] = len + 1]
                 ELSE UNCHANGED <<matchIndex, nextIndex>>
              /\ acks' = [acks EXCEPT ![i] = counted]
              /\ UNCHANGED <<termVars, logVars, diskVars, senders, erased>>
              /\ IF FirstMajority(commitNum) THEN ApplyLogs(i, len) ELSE UNCHANGED applyVars
           \/ /\ current /\ ~m.success
              /\ nextIndex' = [nextIndex EXCEPT ![i][j] = RetryIndex(i, m)]
              /\ senders' = senders \cup
                    {[src |-> i, dst |-> j, term |-> m.reqTerm, round |-> m.round]}
              /\ UNCHANGED <<termVars, diskVars, matchIndex, acks, applyVars, erased>>
        /\ UNCHANGED <<logVars, beating, rounds, voteVars, snapshot, voteNet, appReq,
                       snapNet, faults, cast, elected>>
-----------------------------------------------------------------------------
(* Snapshots.                                                              *)

\* TakeSnapshot, in the goroutine the service started
TakeSnapshot(job) ==
    LET i == job.srv
    IN  /\ snapJobs' = snapJobs \ {job}
        /\ \/ /\ job.index <= lastIncludedIndex[i]
              /\ UNCHANGED <<logVars, diskVars>>
           \/ /\ job.index \in lastIncludedIndex[i] + 1 .. LastLogIndex(i)
              /\ logs' = [logs EXCEPT ![i] = From(@, lastIncludedIndex[i], job.index)]
              /\ lastIncludedIndex' = [lastIncludedIndex EXCEPT ![i] = job.index]
              /\ lastIncludedTerm' = [lastIncludedTerm EXCEPT ![i] = job.term]
              /\ UNCHANGED termVars
              /\ Persist(i)
              /\ snapshot' = [snapshot EXCEPT ![i] = job.data]
        /\ UNCHANGED <<termVars, commitIndex, lastApplied, service, leaderVars, voteVars,
                       voteNet, appNet, snapNet, faults, history>>

\* InstallSnapshot: the reply has the term before the update, and the service
\* is reset to the snapshot even when it is ahead of it
InstallSnapshot(m) ==
    LET i == m.dst
    IN  /\ snapReq' = snapReq \ {m}
        /\ snapRep' = IF m.round = 0 THEN snapRep ELSE snapRep \cup
              {[src |-> m.src, dst |-> i, reqTerm |-> m.term, round |-> m.round,
                lii |-> m.lii, term |-> currentTerm[i]]}
        /\ \/ /\ currentTerm[i] > m.term \/ m.lii <= lastIncludedIndex[i]
              /\ UNCHANGED <<termVars, logVars, commitIndex, lastApplied, service, diskVars>>
           \/ /\ currentTerm[i] <= m.term /\ m.lii > lastIncludedIndex[i]
              /\ AdoptTerm(i, m.term)
              /\ logs' = [logs EXCEPT ![i] =
                    IF m.lii <= LastLogIndex(i)
                    THEN From(@, lastIncludedIndex[i], m.lii)
                    ELSE <<Placeholder(m.lit)>>]
              /\ lastIncludedIndex' = [lastIncludedIndex EXCEPT ![i] = m.lii]
              /\ lastIncludedTerm' = [lastIncludedTerm EXCEPT ![i] = m.lit]
              /\ lastApplied' = [lastApplied EXCEPT ![i] = Max({@, m.lii})]
              /\ commitIndex' = [commitIndex EXCEPT ![i] = Max({@, m.lii})]
              /\ Persist(i)
              /\ snapshot' = [snapshot EXCEPT ![i] = m.data]
              /\ service' = [service EXCEPT ![i] = m.data]
        /\ UNCHANGED <<snapJobs, leaderVars, voteVars, voteNet, appNet, faults, history>>

\* sendSnapshot after the reply has come in time
SnapshotReply(m) ==
    LET i == m.src
    IN  /\ snapRep' = snapRep \ {m}
        /\ \/ /\ m.term > currentTerm[i]
              /\ StepDown(i, m.term)
              /\ UNCHANGED <<logVars, snapshot>>
              /\ Persist(i)
              /\ UNCHANGED <<nextIndex, matchIndex>>
           \/ /\ m.term <= currentTerm[i] /\ ~checkState(i, "Leader", m.reqTerm)
              /\ UNCHANGED <<termVars, raftState, nextIndex, matchIndex>>
           \/ /\ m.term <= currentTerm[i] /\ checkState(i, "Leader", m.reqTerm)
              /\ nextIndex' = [nextIndex EXCEPT ![i][m.dst] = m.lii + 1]
              /\ matchIndex' = [matchIndex EXCEPT ![i][m.dst] = m.lii]
              /\ UNCHANGED <<termVars, raftState>>
        /\ UNCHANGED <<logVars, applyVars, beating, rounds, acks, voteVars, snapshot,
                       voteNet, appNet, snapReq, faults, history>>
-----------------------------------------------------------------------------
(* Failures.                                                               *)

\* Calls a dead incarnation of i has made may still be served, but nobody
\* waits for their replies: round 0
Orphaned(S, i) == {IF m.src = i THEN [m EXCEPT !.round = 0] ELSE m : m \in S}
OfOthers(S, i) == {m \in S : m.src # i}

\* Make on the persister's contents d: readPersist, then logs[0] is rebuilt
\* from the snapshot's index and term; the service loads the snapshot
Reboot(i, d) ==
    /\ faults < MaxFaults
    /\ faults' = faults + 1
    /\ raftState' = [raftState EXCEPT ![i] = d]
    /\ currentTerm' = [currentTerm EXCEPT ![i] = d.term]
    /\ votedFor' = [votedFor EXCEPT ![i] = d.vote]
    /\ role' = [role EXCEPT ![i] = "Follower"]
    /\ logs' = [logs EXCEPT ![i] = [d.logs EXCEPT ![1] = Placeholder(d.lit)]]
    /\ lastIncludedIndex' = [lastIncludedIndex EXCEPT ![i] = d.lii]
    /\ lastIncludedTerm' = [lastIncludedTerm EXCEPT ![i] = d.lit]
    /\ commitIndex' = [commitIndex EXCEPT ![i] = d.lii]
    /\ lastApplied' = [lastApplied EXCEPT ![i] = d.lii]
    /\ service' = [service EXCEPT ![i] = snapshot[i]]
    /\ snapJobs' = {job \in snapJobs : job.srv # i}
    /\ nextIndex' = [nextIndex EXCEPT ![i] = [j \in Server |-> 0]]
    /\ matchIndex' = [matchIndex EXCEPT ![i] = [j \in Server |-> 0]]
    /\ beating' = [beating EXCEPT ![i] = FALSE]
    /\ rounds' = [rounds EXCEPT ![i] = 0]
    /\ acks' = [acks EXCEPT ![i] = {}]
    /\ campaigns' = [campaigns EXCEPT ![i] = 0]
    /\ votes' = [votes EXCEPT ![i] = {}]
    /\ voteRep' = OfOthers(voteRep, i)
    /\ senders' = OfOthers(senders, i)
    /\ appRep' = OfOthers(appRep, i)
    /\ snapRep' = OfOthers(snapRep, i)
    /\ UNCHANGED <<snapshot, history>>

Restart(i) ==
    /\ Reboot(i, raftState[i])
    /\ voteReq' = Orphaned(voteReq, i)
    /\ appReq' = Orphaned(appReq, i)
    /\ snapReq' = Orphaned(snapReq, i)

\* The crash hits between the two persists of a handler: the new term and the
\* forgotten vote are on disk, the rest of the request's effect is not
CrashInHandler(m) ==
    LET i == m.dst
    IN  /\ m.term > currentTerm[i]
        /\ m \in snapReq => m.lii > lastIncludedIndex[i]
        /\ Reboot(i, [raftState[i] EXCEPT !.term = m.term, !.vote = Nil])
        /\ voteReq' = Orphaned(voteReq \ {m}, i)
        /\ appReq' = Orphaned(appReq \ {m}, i)
        /\ snapReq' = Orphaned(snapReq \ {m}, i)

\* A request or a reply is dropped, or its caller gives up waiting
Lose(m) ==
    /\ faults < MaxFaults
    /\ faults' = faults + 1
    /\ voteReq' = voteReq \ {m} /\ voteRep' = voteRep \ {m}
    /\ appReq' = appReq \ {m} /\ appRep' = appRep \ {m}
    /\ snapReq' = snapReq \ {m} /\ snapRep' = snapRep \ {m}
    /\ UNCHANGED <<termVars, logVars, applyVars, leaderVars, voteVars, diskVars,
                   senders, history>>
-----------------------------------------------------------------------------
Requests == voteReq \cup appReq \cup snapReq
Replies == voteRep \cup appRep \cup snapRep

Next ==
    \/ \E i \in Timers : ElectionTimeout(i)
    \/ \E i \in Server : Campaign(i)
    \/ \E m \in voteReq : RequestVote(m)
    \/ \E m \in voteRep : VoteReply(m)
    \/ \E i \in Server, v \in Value : Start(i, v)
    \/ \E i \in Server : BroadcastEntries(i)
    \/ \E s \in senders : SendEntries(s)
    \/ \E m \in appReq : AppendEntries(m)
    \/ \E m \in appRep : AppendReply(m)
    \/ \E job \in snapJobs : TakeSnapshot(job)
    \/ \E m \in snapReq : InstallSnapshot(m)
    \/ \E m \in snapRep : SnapshotReply(m)
    \/ \E i \in Server : Restart(i)
    \/ \E m \in Requests : CrashInHandler(m)
    \/ \E m \in Requests \cup Replies : Lose(m)

Spec == Init /\ [][Next]_vars
-----------------------------------------------------------------------------
(* Properties.                                                             *)

VoteCalls == [src : Server, dst : Server, term : Term, round : Nat,
              lastIndex : Nat, lastTerm : Term]
VoteReplies == [src : Server, dst : Server, reqTerm : Term, round : Nat,
                term : Term, granted : BOOLEAN]
Senders == [src : Server, dst : Server, term : Term, round : Nat]
AppendCalls == [src : Server, dst : Server, term : Term, round : Nat, prev : Nat,
                prevTerm : Term, entries : Seq(Entry), commit : Nat]
AppendReplies == [src : Server, dst : Server, reqTerm : Term, round : Nat, prev : Nat,
                  n : Nat, term : Term, success : BOOLEAN, conflictIndex : Int,
                  conflictTerm : Term]
SnapCalls == [src : Server, dst : Server, term : Term, round : Nat, lii : Nat,
              lit : Term, data : Seq(Command)]
SnapReplies == [src : Server, dst : Server, reqTerm : Term, round : Nat, lii : Nat,
                term : Term]
SnapJobs == [srv : Server, index : Nat, term : Term, data : Seq(Command)]

\* Every variable of the server, its persister and its RPCs has its type; the
\* log always has its placeholder logs[0].
TypeOK ==
    /\ role \in [Server -> Role]
    /\ currentTerm \in [Server -> Term]
    /\ votedFor \in [Server -> Server \cup {Nil}]
    /\ logs \in [Server -> Seq(Entry)] /\ \A i \in Server : logs[i] # <<>>
    /\ lastIncludedIndex \in [Server -> Nat]
    /\ lastIncludedTerm \in [Server -> Term]
    /\ commitIndex \in [Server -> Nat]
    /\ lastApplied \in [Server -> Nat]
    /\ service \in [Server -> Seq(Command)]
    /\ snapJobs \subseteq SnapJobs
    /\ nextIndex \in [Server -> [Server -> Int]]
    /\ matchIndex \in [Server -> [Server -> Nat]]
    /\ beating \in [Server -> BOOLEAN]
    /\ rounds \in [Server -> Nat]
    /\ acks \in [Server -> SUBSET [term : Term, round : Nat, from : Server]]
    /\ campaigns \in [Server -> Nat]
    /\ votes \in [Server -> SUBSET [term : Term, round : Nat, voter : Server]]
    /\ raftState \in [Server -> RaftState] /\ \A i \in Server : raftState[i].logs # <<>>
    /\ snapshot \in [Server -> Seq(Command)]
    /\ voteReq \subseteq VoteCalls /\ voteRep \subseteq VoteReplies
    /\ senders \subseteq Senders
    /\ appReq \subseteq AppendCalls /\ appRep \subseteq AppendReplies
    /\ snapReq \subseteq SnapCalls /\ snapRep \subseteq SnapReplies
    /\ faults \in Nat
    /\ cast \subseteq Server \X Term \X Server
    /\ erased \subseteq Server \X Term
    /\ elected \subseteq Term \X Server

\* Whenever rf.mu is free, the persister holds exactly the term, the vote, the
\* log (the placeholder apart, which Make rebuilds) and the snapshot's
\* position that are in memory: a crash there loses none of them.
PersistInSync ==
    \A i \in Server : LET d == raftState[i] IN
        /\ d.term = currentTerm[i] /\ d.vote = votedFor[i]
        /\ d.lii = lastIncludedIndex[i] /\ d.lit = lastIncludedTerm[i]
        /\ Tail(d.logs) = Tail(logs[i])

\* A server votes for two candidates in one term only if a reply to one of its
\* own calls has made it forget its vote there: convertRoleTo(Follower) under
\* a term that is not new.  No interleaving of RequestVote, elections and
\* restarts does it otherwise, the missing test for old terms included.
VoteOnceUnlessErased ==
    \A a, b \in cast : a[1] = b[1] /\ a[2] = b[2] /\ a[3] # b[3] => <<a[1], a[2]>> \in erased

\* Two servers become leader in one term only if some server has forgotten its
\* vote of that term.
OneLeaderUnlessErased ==
    \A a, b \in elected : a[1] = b[1] /\ a[2] # b[2] => \E s \in Server : <<s, a[1]>> \in erased

\* Any two logs that hold an entry of the same index and term are equal up to
\* there, as far as both still hold the entries.
LogMatching ==
    erased = {} =>
    \A i, j \in Server :
        LET low == Max({lastIncludedIndex[i], lastIncludedIndex[j]})
            high == Min({LastLogIndex(i), LastLogIndex(j)})
        IN  \A g \in low + 1 .. high :
              LogAt(i, g).term = LogAt(j, g).term =>
                \A h \in low + 1 .. g : LogAt(i, h) = LogAt(j, h)

\* The service of i holds the effect of every entry up to lastApplied: no
\* InstallSnapshot has taken it back behind lastApplied
InSync(i) == Len(service[i]) = lastApplied[i]

\* The services of any two servers have executed the same commands in the same
\* order, one of them perhaps further.  Nothing is said of a service that an
\* older snapshot has taken back: it misses commands from then on.
StateMachineSafety ==
    erased = {} =>
    \A i, j \in Server : InSync(i) /\ InSync(j) =>
        \A k \in 1 .. Min({Len(service[i]), Len(service[j])}) : service[i][k] = service[j][k]

\* A leader's log holds every entry that a server of its term or an older one
\* has committed.
LeaderCompleteness ==
    erased = {} =>
    \A i, j \in Server :
        role[i] = "Leader" /\ currentTerm[j] <= currentTerm[i] =>
            /\ commitIndex[j] <= LastLogIndex(i)
            /\ \A g \in Max({lastIncludedIndex[i], lastIncludedIndex[j]}) + 1 .. commitIndex[j] :
                  LogAt(i, g) = LogAt(j, g)

\* AppendEntries never sends entries of older terms only: a call with entries
\* ends in one of the leader's own term.  The commit rule, which counts the
\* successful replies and does not look at terms, rests on it.
AppendsEndInOwnTerm ==
    erased = {} =>
    \A m \in appReq : m.entries # <<>> => m.entries[Len(m.entries)].term = m.term

\* No index into rf.logs that a goroutine is about to use is out of range: the
\* slices of broadcastEntries, the entries applyLogs reads, the scan for a
\* conflicting term, and the cut of TakeSnapshot.
NoIndexPanic ==
    erased = {} =>
    /\ \A i \in Server : lastIncludedIndex[i] <= lastApplied[i] /\ commitIndex[i] <= LastLogIndex(i)
    /\ \A s \in senders : checkState(s.src, "Leader", s.term) =>
          nextIndex[s.src][s.dst] <= LastLogIndex(s.src) + 1
    /\ \A m \in appRep : checkState(m.src, "Leader", m.reqTerm) /\ m.term <= m.reqTerm =>
          m.prev + m.n <= LastLogIndex(m.src) /\ m.conflictIndex <= LastLogIndex(m.src) + 1
    /\ \A job \in snapJobs : job.index <= LastLogIndex(job.srv)

\* The servers whose log or snapshot covers index g with the entry i has there
Holders(i, g) ==
    {j \in Server : g <= LastLogIndex(j) /\ (g > lastIncludedIndex[j] => LogAt(j, g) = LogAt(i, g))}

\* What a server has committed is on a majority of the servers.
CommittedOnMajority ==
    erased = {} =>
    \A i \in Server : \A g \in lastIncludedIndex[i] + 1 .. commitIndex[i] :
        2 * Cardinality(Holders(i, g)) > Cardinality(Server)

\* What a follower has acknowledged to the leader of its term it still holds,
\* in its log or under its snapshot: no call or snapshot that arrives late
\* cuts it off again.
AckedKept ==
    erased = {} =>
    \A i, j \in Server :
        role[i] = "Leader" /\ currentTerm[j] = currentTerm[i] =>
            \A g \in lastIncludedIndex[i] + 1 .. matchIndex[i][j] : j \in Holders(i, g)

\* A leader only ever adds to its log, although AppendEntries does not look at
\* the role of the server it runs on.
LeaderAppendOnly ==
    [][erased' = {} =>
         \A i \in Server : checkState(i, "Leader", currentTerm[i]) /\ role'[i] = "Leader" =>
            \A g \in lastIncludedIndex'[i] + 1 .. LastLogIndex(i) :
                logs'[i][g - lastIncludedIndex'[i] + 1] = LogAt(i, g)]_vars

\* A server that does not restart never takes back a commit, although a leader
\* sets commitIndex to the length a reply brings, and a follower computes it
\* from the end of the merged log.
CommitNeverRetreats ==
    [][erased' = {} /\ faults' = faults =>
         \A i \in Server : commitIndex'[i] >= commitIndex[i]]_vars
-----------------------------------------------------------------------------
(* What comments, notes and assertions of the repository say.              *)

\* "term %d has %d (>1) leaders" is fatal in checkOneLeader: no term has two.
OneLeaderPerTerm ==
    \A i, j \in Server : role[i] = "Leader" /\ role[j] = "Leader"
                          /\ currentTerm[i] = currentTerm[j] => i = j

\* The notes on snapshots: the service is reset to the snapshot so that it
\* agrees with the server, that is, has executed the entries up to lastApplied.
ServiceInSync == \A i \in Server : InSync(i)
=============================================================================
