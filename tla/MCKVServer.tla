----------------------------- MODULE MCKVServer -----------------------------
(* KVServer.tla for TLC.                                                   *)
EXTENDS KVServer

CONSTANTS c1, c2, k1

Do(m) == [method |-> m, key |-> k1]

\* One clerk writes and then reads what it wrote
OneWritesAndReads == c1 :> <<Do("Append"), Do("Get")>> @@ c2 :> <<>>
OneCallsThrice == c1 :> 3 @@ c2 :> 0

\* Each of two clerks has one command
OneWritesOneReads == c1 :> <<Do("Put")>> @@ c2 :> <<Do("Get")>>
BothWrite == c1 :> <<Do("Append")>> @@ c2 :> <<Do("Append")>>
OneIsPatient == c1 :> 3 @@ c2 :> 1

\* A group whose first leader is server 0
ElectedInit == RaftElected(0) /\ KVInit
ElectedSpec == ElectedInit /\ [][Next]_vars

\* Server 0 led in term 0 and took a command of each clerk without committing
\* it; c1 gave up there.  Server 1 leads in term 1 and has taken c1's command.
\* The handler of c2 has yet to register its channel, or waits on it.
StaleInit ==
    LET op(c) == [clerk |-> c, index |-> 1,
                  method |-> Program[c][1].method, key |-> Program[c][1].key]
        handler(c, n, s, i, t, pc) ==
            [id |-> <<c, n>>, srv |-> s, op |-> op(c), pc |-> pc, index |-> i, term |-> t,
             reply |-> Refused]
        channel(c, n, s, i) == [srv |-> s, index |-> i, id |-> <<c, n>>]
        asking(c, to, n) ==
            [cmdIndex |-> 1, op |-> op(c), leader |-> 0, to |-> to, calls |-> n,
             waits |-> TRUE, floor |-> 0, got |-> None]
    IN  /\ currentTerm = (0 :> 0 @@ 1 :> 1)
        /\ leads = [s \in Server |-> TRUE]
        /\ logs = (0 :> <<[term |-> 0, cmd |-> op(c1)], [term |-> 0, cmd |-> op(c2)]>> @@
                   1 :> <<[term |-> 1, cmd |-> op(c1)]>>)
        /\ committed = <<>> /\ commitTerm = <<>>
        /\ lastApplied = [s \in Server |-> 0]
        /\ kvDB = [s \in Server |-> Empty.db]
        /\ clerkLog = [s \in Server |-> Empty.log]
        /\ \E pc \in {"register", "wait"} :
              /\ handlers = {handler(c1, 2, 1, 1, 1, "wait"), handler(c2, 1, 0, 2, 0, pc)}
              /\ msgCh = {channel(c1, 2, 1, 1)} \cup
                         IF pc = "wait" THEN {channel(c2, 1, 0, 2)} ELSE {}
        /\ closers = {}
        /\ sending = [s \in Server |-> None]
        /\ jobs = {}
        /\ snapshot = [s \in Server |-> Empty]
        /\ clerk = (c1 :> asking(c1, 1, 2) @@ c2 :> asking(c2, 0, 1))
        /\ restarts = 0
        /\ pos = [s \in Server |-> 0]
        /\ seen = 0 /\ reused = {} /\ reset = FALSE
StaleSpec == StaleInit /\ [][Next]_vars
FairStaleSpec == StaleSpec /\ Fairness
=============================================================================
