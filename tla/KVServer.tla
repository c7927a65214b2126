------------------------------ MODULE KVServer ------------------------------
(***************************************************************************)
(* The key/value service of src/kvraft: the clerks, the RPC handlers Get   *)
(* and PutAppend, the goroutine receiveNewMsg that executes what Raft      *)
(* commits, and the channels in msgCh on which it wakes the handlers up.   *)
(*                                                                         *)
(* Every critical section under kv.mu is one action, and so is a call of   *)
(* Start.  A handler is a record with a program counter.  Handlers outlive *)
(* the clerk's patience: the clerk may send a command again while several  *)
(* handlers of earlier attempts are still at work.                         *)
(***************************************************************************)
EXTENDS RaftLog

CONSTANTS
    Clerk,
    Key,
    None,           \* no message, no channel, no call
    Program,        \* the commands each clerk is asked for, one after the other
    MaxCalls,       \* bound: RPCs of each clerk
    MaxSnapIndex,   \* bound: indexes at which a server snapshots (0: never)
    MaxRestarts     \* bound: restarts

ASSUME NoneAssumption == None \notin Clerk \cup Key
ASSUME ProgramAssumption ==
    Program \in [Clerk -> Seq([method : {"Get", "Put", "Append"}, key : Key])]
ASSUME KVBoundAssumption ==
    MaxCalls \in [Clerk -> Nat] /\ {MaxSnapIndex, MaxRestarts} \subseteq Nat

VARIABLES
    kvDB,       \* a value is the sequence of the writes it consists of
    clerkLog,
    msgCh,      \* the channels registered, each with its handler's id
    sending,    \* the index and term receiveNewMsg is sending, kv.mu held
    jobs,       \* TakeSnapshot goroutines
    snapshot,   \* the persisted snapshot and its index
    handlers,
    closers,    \* closeCh goroutines
    clerk,
    restarts,
    pos,        \* history: how many committed commands kvDB accounts for
    seen,       \* history: the last of them any clerk knows to be executed
    reused,     \* history: <<server, index>> given to a second handler
    reset       \* history: a snapshot has taken a server back

stateVars   == <<kvDB, clerkLog, pos>>
loopVars    == <<sending, jobs>>
handlerVars == <<msgCh, handlers, closers>>
historyVars == <<seen, reused, reset>>
vars == <<raftVars, stateVars, loopVars, snapshot, handlerVars, clerk, restarts, historyVars>>
-----------------------------------------------------------------------------
Write == {"Put", "Append"}
Method == Write \cup {"Get"}
Op == [clerk : Clerk, index : Nat, method : Method, key : Key]

\* What the value a write carries stands for
WriteId(op) == <<op.clerk, op.index>>

\* A service's state after the first index commands
Empty == [db |-> [k \in Key |-> <<>>], log |-> [c \in Clerk |-> 0], index |-> 0]

Refused == [ok |-> FALSE, value |-> <<>>, at |-> 0]
Accepted == [ok |-> TRUE, value |-> <<>>, at |-> 0]

KVInit ==
    /\ kvDB = [s \in Server |-> Empty.db]
    /\ clerkLog = [s \in Server |-> Empty.log]
    /\ msgCh = {}
    /\ sending = [s \in Server |-> None]
    /\ jobs = {}
    /\ snapshot = [s \in Server |-> Empty]
    /\ handlers = {} /\ closers = {}
    /\ clerk = [c \in Clerk |-> [cmdIndex |-> 0, op |-> None, leader |-> 0, to |-> 0,
                                 calls |-> 0, waits |-> FALSE, floor |-> 0, got |-> None]]
    /\ restarts = 0
    /\ pos = [s \in Server |-> 0]
    /\ seen = 0 /\ reused = {} /\ reset = FALSE

Init == RaftInit /\ KVInit
-----------------------------------------------------------------------------
(* The clerk.                                                              *)

\* One RPC: the clerk's next call number identifies its handler
Handler(c, op, to) ==
    [id |-> <<c, clerk[c].calls + 1>>, srv |-> to, op |-> op,
     pc |-> IF op.method = "Get" THEN "start" ELSE "begin",
     index |-> 0, term |-> 0, reply |-> Refused]

\* Clerk.Get, Put and Append up to their first RPC
Invoke(c) ==
    LET ck == clerk[c]
        n == ck.cmdIndex + 1
        op == [clerk |-> c, index |-> n,
               method |-> Program[c][n].method, key |-> Program[c][n].key]
    IN  /\ ck.op = None
        /\ n <= Len(Program[c]) /\ ck.calls < MaxCalls[c]
        /\ clerk' = [clerk EXCEPT ![c] =
              [@ EXCEPT !.cmdIndex = @ + 1, !.op = op, !.to = ck.leader, !.calls = @ + 1,
                        !.waits = TRUE, !.floor = seen, !.got = None]]
        /\ handlers' = handlers \cup {Handler(c, op, ck.leader)}
        /\ UNCHANGED <<raftVars, stateVars, loopVars, snapshot, msgCh, closers, restarts,
                       historyVars>>

\* The call has failed or been refused: on to the next server
Retry(c, rest) ==
    LET ck == clerk[c]
        next == (ck.to + 1) % NServers
    IN  IF ck.calls < MaxCalls[c]
        THEN /\ clerk' = [clerk EXCEPT ![c] = [@ EXCEPT !.to = next, !.calls = @ + 1]]
             /\ handlers' = rest \cup {Handler(c, ck.op, next)}
        ELSE /\ clerk' = [clerk EXCEPT ![c].waits = FALSE]
             /\ handlers' = rest

\* labrpc's Call returns false: the request or the reply is lost or late
CallFails(c) ==
    /\ clerk[c].waits
    /\ Retry(c, {h \in handlers : ~(h.pc = "reply" /\ h.op.clerk = c)})
    /\ UNCHANGED <<raftVars, stateVars, loopVars, snapshot, msgCh, closers, restarts,
                   historyVars>>

\* Where the first copy of op is in the committed log
Place(op) == Min({i \in DOMAIN committed : committed[i].cmd = op} \cup {Len(committed)})

\* The reply of a handler reaches the clerk
Reply(h) ==
    LET c == h.op.clerk
        rest == handlers \ {h}
    IN  /\ h.pc = "reply"
        /\ \/ /\ ~h.reply.ok
              /\ Retry(c, rest)
              /\ UNCHANGED seen
           \/ /\ h.reply.ok
              /\ handlers' = rest
              /\ clerk' = [clerk EXCEPT ![c] =
                    [@ EXCEPT !.op = None, !.waits = FALSE, !.leader = h.srv,
                              !.got = IF h.op.method = "Get"
                                      THEN [key |-> h.op.key, value |-> h.reply.value,
                                            at |-> h.reply.at]
                                      ELSE None]]
              /\ seen' = Max({seen, IF h.op.method = "Get" THEN h.reply.at ELSE Place(h.op)})
        /\ UNCHANGED <<raftVars, stateVars, loopVars, snapshot, msgCh, closers, restarts,
                       reused, reset>>
-----------------------------------------------------------------------------
(* The RPC handlers.                                                       *)

To(h, pc) == handlers' = (handlers \ {h}) \cup {[h EXCEPT !.pc = pc]}

\* The handler returns.  Its clerk may have given the call up.
Return(h, reply) ==
    LET ck == clerk[h.op.clerk]
        waited == ck.waits /\ h.id = <<h.op.clerk, ck.calls>>
    IN  handlers' = (handlers \ {h}) \cup
            IF waited THEN {[h EXCEPT !.pc = "reply", !.reply = reply]} ELSE {}

\* kvDB as a reply to a Get
Read(h) == [ok |-> TRUE, value |-> kvDB[h.srv][h.op.key], at |-> pos[h.srv]]

\* receiveNewMsg holds kv.mu while it waits for a handler
Locked(s) == sending[s] # None

\* Mutant: the clerk's last command counts as new
ExecutedLater(s, op) == clerkLog[s][op.clerk] > op.index

\* The clerk's command, or a later one, has been executed here
Executed(s, op) == clerkLog[s][op.clerk] >= op.index

\* PutAppend up to Start
Begin(h) ==
    /\ h.pc = "begin"
    /\ ~Locked(h.srv)
    /\ IF Executed(h.srv, h.op) THEN Return(h, Accepted) ELSE To(h, "start")
    /\ UNCHANGED <<raftVars, stateVars, loopVars, snapshot, msgCh, closers, clerk, restarts,
                   historyVars>>

\* kv.rf.Start(op), and what the handler does when the server does not lead
StartOr(h, refuse) ==
    LET s == h.srv
        index == Len(logs[s]) + 1
        shared == \E o \in (handlers \ {h}) \cup closers : o.srv = s /\ o.index = index
    IN  /\ h.pc = "start"
        /\ IF leads[s]
           THEN /\ Propose(s, h.op)
                /\ handlers' = (handlers \ {h}) \cup
                      {[h EXCEPT !.pc = "register", !.index = index, !.term = currentTerm[s]]}
                /\ reused' = IF shared THEN reused \cup {<<s, index>>} ELSE reused
           ELSE refuse /\ UNCHANGED <<raftVars, reused>>
        /\ UNCHANGED <<stateVars, loopVars, snapshot, msgCh, closers, clerk, restarts, seen, reset>>

\* Mutant: isLeader is not looked at, and Start has returned -1, -1
StartUnchecked(h) ==
    StartOr(h, handlers' = (handlers \ {h}) \cup
                   {[h EXCEPT !.pc = "register", !.index = -1, !.term = -1]})

Start(h) == StartOr(h, Return(h, Refused))

Channels(s, index) == {ch \in msgCh : ch.srv = s /\ ch.index = index}

\* A handler's second critical section: an answer at once, or a new channel
\* in the place of the one there
RegisterOr(h, atOnce) ==
    /\ h.pc = "register"
    /\ ~Locked(h.srv)
    /\ IF atOnce THEN Return(h, Read(h)) /\ UNCHANGED msgCh
       ELSE /\ To(h, "wait")
            /\ msgCh' = (msgCh \ Channels(h.srv, h.index)) \cup
                           {[srv |-> h.srv, index |-> h.index, id |-> h.id]}
    /\ UNCHANGED <<raftVars, stateVars, loopVars, snapshot, closers, clerk, restarts, historyVars>>

\* Mutant: the leader answers a Get from its own state
RegisterLocalRead(h) == RegisterOr(h, h.op.method = "Get")

\* msgCh[index] = make(chan int).  Get looks first whether its command has
\* been executed meanwhile.
Register(h) == RegisterOr(h, h.op.method = "Get" /\ Executed(h.srv, h.op))

\* Mutant: the handler returns without closeCh
NotClosing(h) == UNCHANGED closers

\* go closeCh(index)
Closing(h) == closers' = closers \cup {[srv |-> h.srv, index |-> h.index, id |-> h.id]}

LeaveSelect(h, reply) ==
    /\ h.pc \in {"wait", "closed"}
    /\ Return(h, reply)
    /\ Closing(h)
    /\ UNCHANGED <<raftVars, stateVars, loopVars, snapshot, msgCh, clerk, restarts, historyVars>>

\* Mutants: WrongLeader is not set before the select; there is no timer
TimeoutAccepts(h) == LeaveSelect(h, Accepted)
TimeoutNever(h) == h.index = -1 /\ LeaveSelect(h, Refused)

\* WaitPeriod is over
Timeout(h) == LeaveSelect(h, Refused)

\* What a handler does with the term it receives
Woken(h, msgTerm) ==
    \/ /\ msgTerm # h.term
       /\ Return(h, Refused)
       /\ Closing(h)
    \/ /\ msgTerm = h.term /\ h.op.method \in Write
       /\ Return(h, Accepted)
       /\ Closing(h)
    \/ /\ msgTerm = h.term /\ h.op.method = "Get"
       /\ To(h, "read")
       /\ UNCHANGED closers

\* The channel has been closed by another handler: it yields 0
WokenByClose(h) ==
    /\ h.pc = "closed"
    /\ Woken(h, 0)
    /\ UNCHANGED <<raftVars, stateVars, loopVars, snapshot, msgCh, clerk, restarts, historyVars>>

\* Get after its command has been executed
ReadValue(h) ==
    /\ h.pc = "read"
    /\ ~Locked(h.srv)
    /\ Return(h, Read(h))
    /\ Closing(h)
    /\ UNCHANGED <<raftVars, stateVars, loopVars, snapshot, msgCh, clerk, restarts, historyVars>>
-----------------------------------------------------------------------------
(* receiveNewMsg.                                                          *)
(* A message waits between applyCh and kv.mu; what happens meanwhile could *)
(* as well happen before or after both, so they are one step here.         *)

\* Executing a command: the new database
Executing(db, op) ==
    CASE op.method = "Put"    -> [db EXCEPT ![op.key] = <<WriteId(op)>>]
      [] op.method = "Append" -> [db EXCEPT ![op.key] = Append(@, WriteId(op))]
      [] op.method = "Get"    -> db

\* checkState: a goroutine is started when the persisted state is large
CheckState(s, index) ==
    \/ UNCHANGED jobs
    \/ /\ index <= MaxSnapIndex
       /\ jobs' = jobs \cup {[srv |-> s, snap |->
             [db |-> kvDB'[s], log |-> clerkLog'[s], index |-> index]]}

\* applyLogs hands over the next command with the server's current term, and
\* receiveNewMsg executes it, up to ch <- term
Execute(s) ==
    LET index == lastApplied[s] + 1
        op == committed[index].cmd
    IN  /\ ~Locked(s)
        /\ Deliverable(s)
        /\ lastApplied' = [lastApplied EXCEPT ![s] = index]
        /\ IF Executed(s, op) THEN UNCHANGED <<kvDB, clerkLog>>
           ELSE /\ clerkLog' = [clerkLog EXCEPT ![s][op.clerk] = op.index]
                /\ kvDB' = [kvDB EXCEPT ![s] = Executing(@, op)]
        /\ pos' = [pos EXCEPT ![s] = index]
        /\ IF Channels(s, index) # {}
           THEN /\ sending' = [sending EXCEPT ![s] = [index |-> index, term |-> currentTerm[s]]]
                /\ UNCHANGED jobs
           ELSE CheckState(s, index) /\ UNCHANGED sending
        /\ UNCHANGED <<currentTerm, leads, logs, committed, commitTerm, snapshot, handlerVars,
                       clerk, restarts, historyVars>>

\* ch <- term meets the handler's select; left are the channels afterwards
HandOverLeaving(h, left) ==
    LET msg == sending[h.srv]
    IN  /\ h.pc = "wait"
        /\ Locked(h.srv)
        /\ \E ch \in Channels(h.srv, msg.index) : ch.id = h.id
        /\ Woken(h, msg.term)
        /\ msgCh' = left
        /\ UNCHANGED stateVars
        /\ sending' = [sending EXCEPT ![h.srv] = None]
        /\ CheckState(h.srv, msg.index)
        /\ UNCHANGED <<raftVars, snapshot, clerk, restarts, historyVars>>

\* Mutant: receiveNewMsg deletes the channel, too
HandOverOnce(h) == HandOverLeaving(h, msgCh \ Channels(h.srv, h.index))

HandOver(h) == HandOverLeaving(h, msgCh)

\* InstallSnapshot: the leader's snapshot is newer than the server's own, but
\* perhaps not than the state of its service, which is reset to it
InstallSnapshot(s, l) ==
    LET snap == snapshot[l]
    IN  /\ leads[l] /\ s # l
        /\ currentTerm[s] <= currentTerm[l]
        /\ snap.index > snapshot[s].index
        /\ ~Locked(s)
        /\ snapshot' = [snapshot EXCEPT ![s] = snap]
        /\ currentTerm' = [currentTerm EXCEPT ![s] = currentTerm[l]]
        /\ leads' = [leads EXCEPT ![s] = @ /\ currentTerm[s] = currentTerm[l]]
        /\ logs' = [logs EXCEPT ![s] =
              SubSeq(committed, 1, snap.index) \o SubSeq(@, snap.index + 1, Len(@))]
        /\ lastApplied' = [lastApplied EXCEPT ![s] = Max({@, snap.index})]
        /\ kvDB' = [kvDB EXCEPT ![s] = snap.db]
        /\ clerkLog' = [clerkLog EXCEPT ![s] = snap.log]
        /\ pos' = [pos EXCEPT ![s] = snap.index]
        /\ reset' = (reset \/ pos[s] > snap.index)
        /\ UNCHANGED <<committed, commitTerm, loopVars, handlerVars, clerk, restarts, seen, reused>>

\* TakeSnapshot, in the goroutine of checkState
TakeSnapshot(job) ==
    /\ jobs' = jobs \ {job}
    /\ snapshot' = [snapshot EXCEPT ![job.srv] =
          IF job.snap.index <= @.index THEN @ ELSE job.snap]
    /\ UNCHANGED <<raftVars, stateVars, sending, handlerVars, clerk, restarts, historyVars>>
-----------------------------------------------------------------------------
(* Crashes.                                                                *)

\* The process ends, and StartKVServer runs on what was persisted, with Raft
\* handing over the commands after applied
CrashTo(s, applied) ==
    LET others(S) == {x \in S : x.srv # s}
    IN  /\ leads' = [leads EXCEPT ![s] = FALSE]
        /\ lastApplied' = [lastApplied EXCEPT ![s] = applied]
        /\ kvDB' = [kvDB EXCEPT ![s] = snapshot[s].db]
        /\ clerkLog' = [clerkLog EXCEPT ![s] = snapshot[s].log]
        /\ pos' = [pos EXCEPT ![s] = snapshot[s].index]
        /\ sending' = [sending EXCEPT ![s] = None]
        /\ jobs' = others(jobs)
        /\ msgCh' = others(msgCh) /\ handlers' = others(handlers) /\ closers' = others(closers)
        /\ UNCHANGED <<currentTerm, logs, committed, commitTerm, snapshot, clerk, historyVars>>

\* Mutant: commands that have been handed over are not handed over again
CrashForgets(s) == CrashTo(s, lastApplied[s])

Crash(s) == CrashTo(s, snapshot[s].index)

Restart(s) ==
    /\ restarts < MaxRestarts
    /\ restarts' = restarts + 1
    /\ Crash(s)

\* closeCh closes whatever channel is registered at the index by now; when
\* there is none, close(nil) ends the process
CloseCh(cl) ==
    LET chs == Channels(cl.srv, cl.index)
        ids == {ch.id : ch \in chs}
    IN  /\ ~Locked(cl.srv)
        /\ \/ /\ chs # {}
              /\ msgCh' = msgCh \ chs
              /\ handlers' = {IF h.id \in ids /\ h.pc = "wait" THEN [h EXCEPT !.pc = "closed"]
                              ELSE h : h \in handlers}
              /\ closers' = closers \ {cl}
              /\ UNCHANGED <<raftVars, stateVars, loopVars, snapshot, clerk, historyVars>>
           \/ chs = {} /\ Crash(cl.srv)
        /\ UNCHANGED restarts
-----------------------------------------------------------------------------
Handling(h) ==
    \/ Begin(h) \/ Start(h) \/ Register(h) \/ Timeout(h) \/ WokenByClose(h) \/ ReadValue(h)
    \/ HandOver(h) \/ Reply(h)

Next ==
    \/ RaftNext /\ UNCHANGED <<stateVars, loopVars, snapshot, handlerVars, clerk, restarts,
                               historyVars>>
    \/ \E c \in Clerk : Invoke(c) \/ CallFails(c)
    \/ \E h \in handlers : Handling(h)
    \/ \E cl \in closers : CloseCh(cl)
    \/ \E s \in Server : Execute(s) \/ Restart(s)
    \/ \E s, l \in Server : InstallSnapshot(s, l)
    \/ \E job \in jobs : TakeSnapshot(job)

Spec == Init /\ [][Next]_vars

\* The goroutines of a server run, timers fire and mutexes are handed on;
\* elections, commits and the clerks' patience are left open
Fairness ==
    /\ \A c \in Clerk : \A n \in 1 .. MaxCalls[c] :
          WF_vars(\E h \in handlers : h.id = <<c, n>> /\ Handling(h))
    /\ WF_vars(\E cl \in closers : CloseCh(cl))
-----------------------------------------------------------------------------
(* Properties.                                                             *)

Snapshots == [db : [Key -> Seq(Clerk \X Nat)], log : [Clerk -> Nat], index : Nat]
Replies == [ok : BOOLEAN, value : Seq(Clerk \X Nat), at : Nat]
Handlers == [id : Clerk \X Nat, srv : Server, op : Op, index : Nat, term : Nat, reply : Replies,
             pc : {"begin", "start", "register", "wait", "closed", "read", "reply"}]

\* The server's maps, channels and goroutines have their types; a handler that
\* has got past Start holds an index and a term of the log.
TypeOK ==
    /\ kvDB \in [Server -> [Key -> Seq(Clerk \X Nat)]]
    /\ clerkLog \in [Server -> [Clerk -> Nat]]
    /\ msgCh \cup closers \subseteq [srv : Server, index : Nat, id : Clerk \X Nat]
    /\ sending \in [Server -> [index : Nat, term : Nat] \cup {None}]
    /\ jobs \subseteq [srv : Server, snap : Snapshots]
    /\ snapshot \in [Server -> Snapshots]
    /\ handlers \subseteq Handlers

\* The places up to n where a command is committed for the first time
FirstCopies(n) ==
    {i \in 1 .. n : \A j \in 1 .. i - 1 : committed[j].cmd # committed[i].cmd}

\* The value of k once each of the first n commands has been executed once:
\* the writes from the last Put on
ValueAt(n, k) ==
    LET writes == {i \in FirstCopies(n) : committed[i].cmd.key = k /\ committed[i].cmd.method \in Write}
        lasting(i) == i \in writes /\ \A j \in writes : committed[j].cmd.method = "Put" => j <= i
        places == SelectSeq([i \in 1 .. n |-> i], lasting)
    IN  [x \in DOMAIN places |-> WriteId(committed[places[x]].cmd)]

\* A server's database holds the effect of the committed commands it has been
\* handed, in their order, each executed once however often its clerk sent it
\* and whatever snapshots and restarts were in between.
ExecutedOnce ==
    ~reset => \A s \in Server : \A k \in Key : kvDB[s][k] = ValueAt(pos[s], k)

\* "Will the order 6 8 7 occur?  No": no command of a clerk is committed before
\* the one it sent before it.
NoJump ==
    reused = {} =>
    \A i \in DOMAIN committed : committed[i].cmd.index > 1 =>
        \E j \in 1 .. i - 1 : /\ committed[j].cmd.clerk = committed[i].cmd.clerk
                              /\ committed[j].cmd.index = committed[i].cmd.index - 1

Finished(c) == IF clerk[c].op = None THEN clerk[c].cmdIndex ELSE clerk[c].cmdIndex - 1

\* A command the clerk has been told is done is committed.
AckedIsCommitted ==
    \A c \in Clerk : \A n \in 1 .. Finished(c) :
        \E i \in DOMAIN committed : committed[i].cmd.clerk = c /\ committed[i].cmd.index = n

\* The same as long as no index has been given to two handlers at once.
AckedUnlessReused == reused = {} => AckedIsCommitted

\* A Get returns a value the key had, once each command is executed once, after
\* everything any clerk knew to be done when the Get began: a write that was
\* acknowledged, or one another Get has seen.
ReadsFresh ==
    ~reset /\ reused = {} =>
    \A c \in Clerk : LET got == clerk[c].got IN
        got # None => got.at >= clerk[c].floor /\ got.value = ValueAt(got.at, got.key)

\* closeCh finds its channel, unless its index was given to another handler too.
ClosePanicOnlyIfReused ==
    \A cl \in closers : Channels(cl.srv, cl.index) = {} => <<cl.srv, cl.index>> \in reused

\* receiveNewMsg waits, with kv.mu, for a handler that has timed out
Stuck(s) ==
    Locked(s) /\ \A h \in handlers : h.pc = "wait" =>
                    \A ch \in Channels(s, sending[s].index) : ch.id # h.id

\* receiveNewMsg gets stuck in one way only: the timer of the handler it sends
\* to fired first, and that handler's closeCh now waits for kv.mu.  No handler
\* leaves a channel behind that nobody receives from or closes.
StuckOnlyByTimeout ==
    \A s \in Server : Stuck(s) =>
        \E cl \in closers : \E ch \in Channels(s, sending[s].index) : ch.id = cl.id

\* Every RPC handler returns, unless receiveNewMsg of its server is stuck: no
\* call keeps a handler at work for ever.
HandlersEnd ==
    \A c \in Clerk : \A n \in 1 .. MaxCalls[c] :
        []<>(\A h \in handlers : h.id = <<c, n>> => Stuck(h.srv))
=============================================================================
