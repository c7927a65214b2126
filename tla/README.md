# Raft, the key/value store and the shard master in TLA+

Specifications, model-checking runs and machine-checked proofs for the Go code
under `src/` of this repository: the MIT 6.824 labs 2 to 4. `PROJECT.json` lists
the components, the runs, which definition models which lines, the hazards and
the theorems; this file says how they belong together.

## 1. The system

| part | source | what it does |
|---|---|---|
| Raft server | `raft/raft.go` | elects a leader, replicates a log, compacts it with snapshots |
| Persister | `raft/persister.go` | the disk: Raft's state and the service's snapshot |
| key/value server | `kvraft/server.go` | RPC handlers over Raft, a database, deduplication of commands |
| key/value clerk | `kvraft/client.go` | sends a command to one server after the other until it is done |
| shard master | `shardmaster/server.go` | a replicated history of configurations: which group serves which shard |
| sharded server | `shardkv/server.go` | a key/value group that gives and takes shards as configurations change |
| clerks of both | `shardmaster/client.go`, `shardkv/client.go` | like the key/value clerk |
| network | `labrpc/labrpc.go` | at-most-once RPC that loses, delays and reorders |
| encoding | `labgob/labgob.go` | a wrapper of encoding/gob |
| checker | `linearizability/*.go` | a test tool |
| harnesses | `*/config.go` | start, crash, disconnect and restart servers; assertions |

### State and operations

*Raft server.* `role`, `currentTerm`, `votedFor`, `logs` (with a placeholder at
offset 0), `lastIncludedIndex/Term`, `commitIndex`, `lastApplied`, `nextIndex`,
`matchIndex`. Operations: the main loop's election timer and leader branch, the
goroutines of `leaderElection` and `broadcastEntries`, the handlers
`RequestVote`, `AppendEntries` and `InstallSnapshot`, `Start`, `TakeSnapshot`,
`applyLogs`, and `Make` after a crash. Everything is done under `rf.mu`, which
the goroutines give up around an RPC. `applyLogs` hands commands to the service
over an unbuffered channel with `rf.mu` held.

*Key/value server.* `kvDB`, `clerkLog` (the last command executed of each
clerk), `msgCh` (for each log index the channel on which a handler waits).
`Get` and `PutAppend` call `Start`, register a channel, and wait for a term on
it or for a timeout; the goroutine `receiveNewMsg` executes what Raft commits
and sends the term on the channel, with `kv.mu` held; `closeCh` removes the
channel. After a command it may start a goroutine that takes a snapshot.

*Shard master.* `configs`, `g2shard`, and the same handler/channel scheme.
`Join`, `Leave` and `Move` append a configuration; `Join` and `Leave` end in
`navieAssign`, which spreads the shards evenly with few moves.

*Sharded server.* A key/value store per shard, the current configuration, the
shards to send, and `waitUntilMoveDone`. The leader polls the shard master,
proposes new configurations, pushes shards to their new groups and deletes them
when they have arrived.

### What makes it hard

* RPC goroutines come back after role, term or log have changed.
* Calls and replies overtake each other, get lost, and outlive their sender.
* A crash between the two writes of a handler, or between a write and a reply.
* The log is cut at the front by snapshots while indexes into it are in flight.
* A clerk repeats a command while handlers of earlier attempts are at work, on
  servers that still believe they lead.
* An unbuffered channel is written under a mutex.
* Map iteration order decides which group a shard goes to.

The hazards in `PROJECT.json` name the lines where these bite.

## 2. Modules

```
Raft             servers, network, persister          raft.go, persister.go
  MCRaft         initial states, fairness, symmetry
  RaftTypeProofs      Spec => []TypeOK
  RaftElectionProofs  persistence, votes, leaders
RaftLog          what Raft promises the service       raft.go, messages left out
  KVServer       handlers, channels, clerks           kvraft/*.go
    MCKVServer   programs of the clerks, initial states
ShardConfig      one replica's configurations         shardmaster/server.go
  MCShardConfig
  ShardConfigProofs   Spec => []IInv, what follows, the refinement
ConfigHistory    what a Query of the shard master sees
```

**Raft.** Each critical section under `rf.mu` is one action; a goroutine is cut
where it gives the lock up. A call in flight is a record in `voteReq`, `appReq`
or `snapReq`, a reply one in `voteRep`, `appRep` or `snapRep`, and a broadcast
goroutine about to start its next iteration one in `senders`. Delivered records
disappear (labrpc is at-most-once). A lost message is one that is never
delivered, or one `Lose` removes; `Lose` matters only where an action waits for
the record to go. `round` tells the goroutines of two broadcasts (or campaigns)
of one term apart, so that `voteCnt` and `commitNum`, closure variables in the
code, can be recomputed from the replies counted; `round = 0` marks a call whose
caller has crashed. `ApplyLogs` includes the service's consumption and its
choice to start `TakeSnapshot` goroutines, which are records in `snapJobs`.
`CrashInHandler` is a crash between the `persist` in `convertRoleTo` and the
later one of the same handler; all other writes of a handler come last.
`cast`, `erased` and `elected` are history variables: votes given, votes
forgotten, leaders made.

**RaftLog** is Raft as a service sees it: who believes to lead in which term,
the log of each server, what is committed and how far `applyLogs` has handed it
over. It assumes what `Raft` is checked for: a server that is elected has the
committed entries (`LeaderCompleteness`), and `Start`'s index and term identify
an entry. Terms start at -1, so the first leader has term 0; that detail
matters below.

**KVServer** extends RaftLog. A handler is a record with a program counter:
`begin` (PutAppend's first look at `clerkLog`), `start`, `register`, `wait`,
`closed` (another handler has closed its channel), `read` (Get's last critical
section), `reply`. `closers` are the goroutines of `closeCh`. `sending[s]` is
the message `receiveNewMsg` is trying to send while it holds `kv.mu`; every
action that needs `kv.mu` is disabled then. A value is the sequence of the
writes it is made of, so that two executions of one Append show.
Taking a message from `applyCh` and executing it are one action: what can happen
between them either does not touch what the message carries, or commutes with
both. `pos`, `seen`, `reused` and `reset` are history: how many commands a
database accounts for, the last of them a clerk knows of, the indexes given to
two handlers at once, and whether a snapshot has thrown a service back.

**ShardConfig** is one replica's `run` goroutine. The loops of `navieAssign` are
stepped through, one action per iteration, with `assigning` in the place of
`sm.mu`. The order in which Go walks `g2shard` is any listing of its keys.
`known` is the key set of `g2shard`, which is not the same as the groups of the
configuration: `Move` adds a key, so a group that was moved to before it joined
is passed over by a later `Join`. `Move` to gid 0, the invalid group of
`common.go:14-15`, is left out; no caller in the repository asks for it.

**ConfigHistory** is what ShardConfig promises a client: a list that only grows,
in which each configuration follows from the one before by one Join, Leave or
Move and the shards are spread evenly after the first two. ShardConfig
implements it with `configs <- published`, the configurations that `Query` can
read: all of them, but for the one `navieAssign` is still at work on
(`ActsAsHistory`).

## 3. Runs

Every run finishes in about two minutes or less with two workers.

| run | instance | shows |
|---|---|---|
| `raft_election` | 3 servers, terms 0 and 1, one fault | persistence, votes and leaders |
| `raft_replication` | 3 servers, 2 can time out, terms 0 and 1, 2 commands, 2 entries | log matching, state machine safety, leader completeness, the commit rule, append-only leaders |
| `raft_repair` | logs of two failed leaders, or a leader's snapshot against a follower's stale entries; fair delivery | the back-off of `nextIndex` ends and commits; no index is out of range |
| `raft_recovery` | terms 0 and 1, one entry, a snapshot, one restart, crash inside a handler or lost call | persistence, state machine safety, leader completeness and index ranges across a restart |
| `raft_compaction` | one leader, 2 entries, snapshots at both indexes, two broadcasts | indexes, acknowledged entries and commits while snapshots and calls are in flight |
| `raft_one_leader` (violation) | 3 servers, terms 0 and 1 | `OneLeaderPerTerm` fails |
| `raft_majority_commit` (violation) | 5 servers | `CommittedOnMajority` fails |
| `raft_rollback` (violation) | snapshot at index 1 | `ServiceInSync` fails |
| `exactly_once` | 2 servers, one clerk, 2 commands, 3 calls, snapshot at index 1 | commands are executed once, in order, and Gets are fresh |
| `handlers` | stale leader and successor, 2 clerks, 1 restart, fairness | handlers return, and what stops them; `closeCh` and the database |
| `acked` (violation) | the same initial states, terms up to 2 | `AckedIsCommitted` fails |
| `rebalance` | 3 shards, 4 groups, 3 operations | `navieAssign`, the configurations, and that they implement ConfigHistory |

### Bounds

Raft's runs start from `Init` (`raft_election`) or from a state that an election
leaves (`Elected`). One more term and two entries then suffice for a stale
leader, a divergent follower, and entries of an old term that a new leader
passes on. Figure 8 of the Raft paper takes more terms; the code excludes it by
never sending a call that ends in an old entry, and that
(`AppendsEndInOwnTerm`) is visible within the bound. `raft_repair` starts from
logs that differ in both directions, which takes two failed leaders to produce
(`DivergedInit`), or from a leader that has compacted index 1 while a follower
has another entry there and one behind it (`CompactedInit`).
With `MaxRounds = 2` two broadcasts of one leader overlap. `raft_compaction` has
snapshots at indexes 1 and 2 of a log of two entries: a second snapshot, an
older one that comes later, and an entry that follows a snapshot. Its constraint
`FreshCommands` leaves out logs that repeat a command. `raft_recovery` has
snapshots at index 1. Five
servers are needed for `raft_majority_commit`: with three, a single reply
completes the majority and there is nothing to mix.

Raft's safety properties are stated for `erased = {}`, or the runs stop there
with `CONSTRAINT NothingErased`: once a server forgets a vote, two leaders of a
term are possible (finding `raft_one_leader`) and nothing else can be claimed.
`StateMachineSafety` compares servers whose service has as many commands as
`lastApplied` says (`InSync`). A service that `InstallSnapshot` has taken back
(finding `raft_rollback`) lacks commands for good, and the next one lands in
their place; the property claims nothing of it. In the
same way `ExecutedOnce` and `ReadsFresh` say nothing after `reset`, the
rollback of a service (finding `raft_rollback`), and `NoJump`, `AckedUnlessReused`
and `ReadsFresh` nothing once an index has been `reused` (finding `acked`).

KVServer uses two servers a clerk can talk to. Two are enough for a leader, a
stale leader and a follower that takes over; the majority behind an election or
a commit is not modelled. Three calls let a clerk send a command to both and
return to the first. `exactly_once` has snapshots and no restart, `handlers` a
restart and no snapshot: together they are too many states, so a restart from a
key/value snapshot is checked for Raft (`raft_recovery`) only. `handlers` and
`acked` start where the first leader has taken two commands it will lose and the
second one has taken one, the shortest logs that make `Start` return an index a
second time.

In `rebalance`, four groups over three shards include `share = 0`; three
operations are a Join, a Move that unbalances it, and a Join or Leave after that.

`CHECK_DEADLOCK FALSE` everywhere: the instances end when their bounds are used
up, and a key/value server can really stop (below).

### Fairness

`raft_repair` assumes weak fairness of the delivery of a leader's calls and their
replies and of the main loop's broadcasts: goroutines run, and labrpc delivers
on a reliable network. Election timers, clients and losses stay free; the
instance has no later term. `TakenIsCommitted` needs another broadcast to come,
which a leader's heartbeat loop provides.

`handlers` assumes that handlers and `closeCh` goroutines that can run do. That
a timer fires is part of it (`time.After`). Nothing is assumed of elections,
commits or restarts.

`rebalance` assumes that `navieAssign` goes on: it is sequential code.

### What the violations mean

* `raft_one_leader`: `broadcastEntries` compares the term of a reply with the term
  of the call, not with `currentTerm` (`raft.go:832`). A leader of term 0 sends
  its calls, then votes in term 1; a reply with term 1 comes late, is taken for
  news, and `convertRoleTo` clears the vote in the same term (`raft.go:748`). The
  server votes again, and the harness's "has (>1) leaders" is reached. With
  more terms the same line can also lower `currentTerm`; two terms show the first.
* `raft_majority_commit`: `commitNum` counts replies to calls that carried different
  prefixes, and commits the length of the last one. With five servers an entry
  is committed that two servers hold.
* `raft_rollback`: `InstallSnapshot` resets the service to a snapshot it is ahead
  of, and `lastApplied` stays: the commands in between are never executed again.
* `acked`: a handler of term 0 is delayed between `Start` and the registration
  of its channel; its entry is overwritten, the server leads again and gives
  the index out again; the later handler times out and `closeCh` closes the
  older one's channel; the 0 read from it equals the term, and an overwritten
  command is acknowledged. It takes the first term: any other is not 0.

## 4. Proofs

Checked by TLAPS 1.4.5 with Z3, Zenon and LS4, for all values of the constants
under the named assumptions (finite, non-empty `Server`, `Timers` among them,
`Nil` outside, natural bounds; `NShards` positive, `Gid` finite without
`NoGroup`). The bounds are constants of the theorems, so they hold for any.

**RaftTypeProofs.** `TypeCorrect`: `TypeOK` is inductive. It is proved in groups
of variables (`AllTypes`), with one lemma per action. What is not routine: the
log never loses its placeholder, which needs the shape of `MergedLog`, of the
cut in `TakeSnapshot` and of `InstallSnapshot`.

**RaftElectionProofs.**
`PersistedInSync`: term, vote, log and snapshot position on disk equal those in
memory whenever `rf.mu` is free.
`VotedOnce` and `OneLeader`: within a term a server votes once and at most one
server becomes leader, unless a vote of that term was erased. The inductive
invariant `ElectionInv` says of every vote cast that the voter has not returned
below its term, and still has that vote if it is in it, unless the pair is
erased; that calls, replies and counted votes are backed by votes cast; and
that a leader's term has a majority of votes for it. It is needed because
`RequestVote` does not compare terms: a delayed call of an old campaign must be
shown harmless from what `votedFor` says. Two majorities share a server
(cardinalities), and that server voted once.

**ShardConfigProofs.** The inductive invariant `IInv` is `TypeOK` and:
no shard is in two slices or twice in one (`Disjoint`); shards waiting to be
assigned are in no slice and listed once (`PendingFree`); every other shard is
in the slice of its owner and conversely (`Agree`, `Cover`); while
`navieAssign` runs, every known group is in exactly one list (`Once`,
`Listed`), the one its number of shards calls for (`Sorted`).
`NeverPanics` then follows by counting. If shards were left and the lists
`tless` and `tok` empty, every group had more than its share: an injection of
`known \X 1 .. share + 1` into the shards, too many of them. If a group lacked
shards and `tplus` was empty, the shards would map into fewer places than there
are shards. `AlwaysBalanced` and `AlwaysConsistent` are read off the invariant;
the first turns "the length of the slice" into "the number of shards with this
owner". `Implements` (`Spec => ActsAsHistory`) maps every step to a step of
ConfigHistory or to none: a Join or Leave that needs `navieAssign` shows only
when the last iteration is done, and the spread it then needs is the balance
just proved. It takes a second invariant, which relates the configuration in the
making to the one before it.

Only model-checked: everything of log replication and snapshots, all of
KVServer, `GainsOrLoses`, `AssignedToMembers`, and the liveness properties `TakenIsCommitted`,
`HandlersEnd` and `AssignEnds`. TLAPS has no support for `ENABLED` and
fairness, and none for induction over data with the installed backends.

## 5. Differences between code and documents

Besides the four findings with a run, met while modelling:

* `README.md:37-38` describes a pre-vote; there is none in `raft.go`.
* `README.md:41` says a stale candidate is refused. `RequestVote` does not
  compare terms; `VotedOnce` shows that no second vote comes of it.
* `raft.go:944` calls the third argument of `TakeSnapshot` the term the index
  belongs to. The caller passes the term in which the entry was handed to the
  service, as `README.md:22` has it. The model keeps both terms apart. They
  matter after a restart: the placeholder then has the later term. A leader
  that restarts so and has a new command is refused by followers that hold the
  entry itself, and the snapshot it sends does not change their entry: the
  command is never committed. No run includes this start.
* `raft.go:1011`: `InstallSnapshot` keeps what the follower has from the
  snapshot's index on, whatever its term. A follower with a stale entry there
  has it as its placeholder and refuses the leader's calls from then on. The
  stale suffix is never committed, and the leader commits with the others
  (`raft_repair`, `CompactedInit`); this follower is not repaired.
* The reply to a heartbeat is dropped even when refused, so a follower that is
  behind is repaired with the next command, not the next heartbeat.
* `kvraft/server.go:279`: a handler that has timed out no longer receives, its
  `closeCh` waits for `kv.mu`, and `receiveNewMsg` keeps it: the server stops.
  `HandlersEnd` excludes exactly this state (`Stuck`), and `StuckOnlyByTimeout`
  says that nothing else leads to it.
* `kvraft/server.go:293`: closing the channel of a reused index twice is a
  panic; `ClosePanicOnlyIfReused` says it happens in no other case.
* `kvraft/client.go` compares the value, not the error, with `ErrNoKey`.
* `shardmaster/server.go:290`: `clerkLog` is never written, so a repeated
  command is executed again; the branch for duplicates would not unlock.
* `shardmaster/server.go:200`: replicas walk `g2shard` in different orders and
  may assign shards differently, although the tests compare their answers.

## 6. Not modelled, and the plan

Not modelled: logging, labgob, the linearizability checker, labrpc's own
goroutines (its effect on calls is), the sharing of a slice between a call being
encoded and the log (`raft.go:816`), and `rf.mu` being held by `applyLogs` while
`receiveNewMsg` is stuck.

To come, in this order:

1. *ShardMaster*: `executeOp`, the channels and several replicas over RaftLog,
   with ShardConfig's operations as the commands; agreement of the replicas.
2. *ShardKV*: configuration changes and shard transfer between two groups over
   RaftLog: no shard served by two groups, none lost, no acknowledged write
   lost on the way, transfers end.
3. *Raft implements RaftLog*: the committed log as a function of the history,
   as a refinement checked by TLC and, for the safety part, proved.
4. Proofs for log replication (`AppendsEndInOwnTerm`, then `LogMatching`) and
   for KVServer (`ExecutedOnce`, `AckedUnlessReused`).
5. *labrpc* as a module of its own: at-most-once delivery, `Enable` and
   replaced servers.
