------------------------------ MODULE RaftLog ------------------------------
(***************************************************************************)
(* What src/raft promises the service above it: at any time some servers   *)
(* believe they lead, the one with the highest term may be able to commit, *)
(* Start gives a command a place in the leader's own log, and every server *)
(* is handed the committed commands in one order.                          *)
(*                                                                         *)
(* These are the servers of Raft.tla with the messages left out.  A stale  *)
(* leader keeps its belief, and its log, until it hears of the new term; a *)
(* server that is elected has the committed entries (LeaderCompleteness in *)
(* Raft.tla), and only the leader of the highest term commits.             *)
(***************************************************************************)
EXTENDS Integers, Sequences, FiniteSetsExt, SequencesExt

CONSTANTS
    NServers,   \* the size of the group
    MaxTerm     \* bound: terms

ASSUME NServersAssumption == NServers \in Nat \ {0}
ASSUME MaxTermAssumption == MaxTerm \in Nat

VARIABLES
    currentTerm,
    leads,        \* the server is in role Leader
    logs,
    committed,    \* the entries a majority holds for good
    commitTerm,   \* the term of the leader that committed each of them
    lastApplied   \* how many of them applyLogs has handed to the service

raftVars == <<currentTerm, leads, logs, committed, commitTerm, lastApplied>>

Server == 0 .. NServers - 1
TopTerm == Max({currentTerm[s] : s \in Server})

RaftInit ==
    /\ currentTerm = [s \in Server |-> -1]
    /\ leads = [s \in Server |-> FALSE]
    /\ logs = [s \in Server |-> <<>>]
    /\ committed = <<>>
    /\ commitTerm = <<>>
    /\ lastApplied = [s \in Server |-> 0]

\* The first election is over: server l leads in term 0
RaftElected(l) ==
    /\ currentTerm = [s \in Server |-> 0]
    /\ leads = [s \in Server |-> s = l]
    /\ logs = [s \in Server |-> <<>>]
    /\ committed = <<>>
    /\ commitTerm = <<>>
    /\ lastApplied = [s \in Server |-> 0]

\* A server wins an election
Elect(s) ==
    /\ TopTerm < MaxTerm
    /\ IsPrefix(committed, logs[s])
    /\ currentTerm' = [currentTerm EXCEPT ![s] = TopTerm + 1]
    /\ leads' = [leads EXCEPT ![s] = TRUE]
    /\ UNCHANGED <<logs, committed, commitTerm, lastApplied>>

\* A call or a reply brings a newer term
LearnTerm(s) ==
    /\ \E t \in currentTerm[s] + 1 .. TopTerm :
          currentTerm' = [currentTerm EXCEPT ![s] = t]
    /\ leads' = [leads EXCEPT ![s] = FALSE]
    /\ UNCHANGED <<logs, committed, commitTerm, lastApplied>>

\* AppendEntries from leader l: the log of s becomes the leader's, unless it
\* continues it.  A leader only sends entries once it has one of its own term.
Follow(s, l) ==
    /\ leads[l] /\ s # l
    /\ currentTerm[s] <= currentTerm[l]
    /\ logs[l] # <<>> /\ Last(logs[l]).term = currentTerm[l]
    /\ ~IsPrefix(logs[l], logs[s])
    /\ logs' = [logs EXCEPT ![s] = logs[l]]
    /\ currentTerm' = [currentTerm EXCEPT ![s] = currentTerm[l]]
    /\ leads' = [leads EXCEPT ![s] = FALSE]
    /\ UNCHANGED <<committed, commitTerm, lastApplied>>

\* A majority has acknowledged the leader's log up to an entry of its own term
Commit(s) ==
    /\ leads[s] /\ currentTerm[s] = TopTerm
    /\ \E n \in Len(committed) + 1 .. Len(logs[s]) :
          /\ logs[s][n].term = currentTerm[s]
          /\ committed' = SubSeq(logs[s], 1, n)
          /\ commitTerm' = commitTerm \o [k \in 1 .. n - Len(committed) |-> currentTerm[s]]
    /\ UNCHANGED <<currentTerm, leads, logs, lastApplied>>

\* Start on a leader: the command's index is Len(logs[s]) + 1
Propose(s, cmd) ==
    /\ logs' = [logs EXCEPT ![s] = Append(@, [term |-> currentTerm[s], cmd |-> cmd])]
    /\ UNCHANGED <<currentTerm, leads, committed, commitTerm, lastApplied>>

\* applyLogs may hand over the next entry: the server has it, and has heard of
\* its commit from a leader no older than the one that committed it
Deliverable(s) ==
    LET i == lastApplied[s] + 1
    IN  /\ i <= Len(committed)
        /\ IsPrefix(SubSeq(committed, 1, i), logs[s])
        /\ commitTerm[i] <= currentTerm[s]

RaftNext ==
    \/ \E s \in Server : Elect(s) \/ LearnTerm(s) \/ Commit(s)
    \/ \E s, l \in Server : Follow(s, l)
=============================================================================
