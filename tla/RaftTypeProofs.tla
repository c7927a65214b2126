---------------------------- MODULE RaftTypeProofs ---------------------------
(***************************************************************************)
(* Type correctness of Raft.tla, for any number of servers, any commands   *)
(* and any bounds, and lemmas about the operators it is built from.        *)
(***************************************************************************)
EXTENDS Raft, FiniteSetTheorems, TLAPS, WellFoundedInduction

USE Zenon, SMTT(30)

-----------------------------------------------------------------------------
(* Operators the model is built from.                                      *)

\* A nonempty set of naturals has a least element, and Min finds it.
LEMMA MinNat ==
    ASSUME NEW S, S \subseteq Nat, S # {}
    PROVE  Min(S) \in S /\ \A x \in S : Min(S) <= x
  <1>. DEFINE R == OpToRel(<, Nat)
  <1>1. \A x \in Nat : \A y \in Nat : <<x, y>> \in R <=> x < y
    BY DEF OpToRel
  <1>2. IsWellFoundedOn(R, Nat)
    BY NatLessThanWellFounded
  <1>. HIDE DEF R
  <1>3. PICK x \in S : \A y \in S : ~(<<y, x>> \in R)
    BY <1>2, WFMin
  <1>4. ASSUME NEW y \in S
        PROVE  x <= y
    <2>1. x \in Nat /\ y \in Nat
      OBVIOUS
    <2>2. ~(<<y, x>> \in R)
      BY <1>3
    <2>3. ~(y < x)
      BY <1>1, <2>1, <2>2
    <2>. QED BY SMTT(30), <2>1, <2>3
  <1>. QED BY <1>4 DEF Min

\* A nonempty set of integers below some bound has a greatest element.
LEMMA MaxInt ==
    ASSUME NEW b \in Int, NEW S, S \subseteq Int, S # {}, \A x \in S : x <= b
    PROVE  Max(S) \in S /\ \A x \in S : x <= Max(S)
  <1>. DEFINE T == {b - x : x \in S}
  <1>1. T \subseteq Nat
    BY SMTT(30)
  <1>1a. T # {}
    OBVIOUS
  <1>2. Min(T) \in T /\ \A y \in T : Min(T) <= y
    BY <1>1, <1>1a, MinNat
  <1>3. PICK x \in S : Min(T) = b - x
    BY <1>2
  <1>4. ASSUME NEW y \in S
        PROVE  y <= x
    <2>1. b - y \in T
      OBVIOUS
    <2>2. b - x <= b - y
      BY <2>1, <1>2, <1>3
    <2>3. x \in Int /\ y \in Int
      OBVIOUS
    <2>. QED BY SMTT(30), <2>2, <2>3
  <1>. QED BY <1>4 DEF Max

-----------------------------------------------------------------------------
(* Type correctness.  TypeOK is taken apart by the groups of variables the *)
(* actions change together.                                                *)

TermType ==
    /\ role \in [Server -> Role]
    /\ currentTerm \in [Server -> Term]
    /\ votedFor \in [Server -> Server \cup {Nil}]

LogType ==
    /\ logs \in [Server -> Seq(Entry)] /\ \A i \in Server : logs[i] # <<>>
    /\ lastIncludedIndex \in [Server -> Nat]
    /\ lastIncludedTerm \in [Server -> Term]

ApplyType ==
    /\ commitIndex \in [Server -> Nat]
    /\ lastApplied \in [Server -> Nat]
    /\ service \in [Server -> Seq(Command)]
    /\ snapJobs \subseteq SnapJobs

LeaderType ==
    /\ nextIndex \in [Server -> [Server -> Int]]
    /\ matchIndex \in [Server -> [Server -> Nat]]
    /\ beating \in [Server -> BOOLEAN]
    /\ rounds \in [Server -> Nat]
    /\ acks \in [Server -> SUBSET [term : Term, round : Nat, from : Server]]

VoteType ==
    /\ campaigns \in [Server -> Nat]
    /\ votes \in [Server -> SUBSET [term : Term, round : Nat, voter : Server]]

DiskType ==
    /\ raftState \in [Server -> RaftState] /\ \A i \in Server : raftState[i].logs # <<>>
    /\ snapshot \in [Server -> Seq(Command)]

VoteNetType == voteReq \subseteq VoteCalls /\ voteRep \subseteq VoteReplies
AppNetType == senders \subseteq Senders /\ appReq \subseteq AppendCalls /\ appRep \subseteq AppendReplies
SnapNetType == snapReq \subseteq SnapCalls /\ snapRep \subseteq SnapReplies

HistoryType ==
    /\ faults \in Nat
    /\ cast \subseteq Server \X Term \X Server
    /\ erased \subseteq Server \X Term
    /\ elected \subseteq Term \X Server

AllTypes ==
    /\ TermType /\ LogType /\ ApplyType /\ LeaderType /\ VoteType /\ DiskType
    /\ VoteNetType /\ AppNetType /\ SnapNetType /\ HistoryType

\* The groups make up TypeOK.
LEMMA Groups == TypeOK <=> AllTypes
  BY DEF TypeOK, AllTypes, TermType, LogType, ApplyType, LeaderType, VoteType, DiskType,
         VoteNetType, AppNetType, SnapNetType, HistoryType

\* A group whose variables do not change keeps its type.
LEMMA Frame ==
    /\ TermType /\ UNCHANGED termVars => TermType'
    /\ LogType /\ UNCHANGED logVars => LogType'
    /\ ApplyType /\ UNCHANGED applyVars => ApplyType'
    /\ LeaderType /\ UNCHANGED leaderVars => LeaderType'
    /\ VoteType /\ UNCHANGED voteVars => VoteType'
    /\ DiskType /\ UNCHANGED diskVars => DiskType'
    /\ VoteNetType /\ UNCHANGED voteNet => VoteNetType'
    /\ AppNetType /\ UNCHANGED appNet => AppNetType'
    /\ SnapNetType /\ UNCHANGED snapNet => SnapNetType'
    /\ HistoryType /\ UNCHANGED <<faults, history>> => HistoryType'
  BY DEF TermType, LogType, ApplyType, LeaderType, VoteType, DiskType, VoteNetType, AppNetType,
         SnapNetType, HistoryType, termVars, logVars, applyVars, leaderVars, voteVars, diskVars,
         voteNet, appNet, snapNet, history

\* persist writes a well-formed state when memory holds one.
LEMMA PersistType ==
    ASSUME NEW i \in Server, DiskType, Persist(i), TermType', LogType',
           UNCHANGED snapshot \/ \E data \in Seq(Command) : snapshot' = [snapshot EXCEPT ![i] = data]
    PROVE  DiskType'
  <1>1. /\ currentTerm'[i] \in Term /\ votedFor'[i] \in Server \cup {Nil}
        /\ logs'[i] \in Seq(Entry) /\ logs'[i] # <<>>
        /\ lastIncludedIndex'[i] \in Nat /\ lastIncludedTerm'[i] \in Term
    BY DEF TermType, LogType
  <1>. QED BY <1>1 DEF DiskType, Persist, RaftState

\* What getLastLogIndex, getLastLogTerm and an access within the log return.
LEMMA LogTypes ==
    ASSUME LogType, NEW i \in Server
    PROVE  /\ logs[i] \in Seq(Entry) /\ Len(logs[i]) \in Nat \ {0}
           /\ lastIncludedIndex[i] \in Nat /\ lastIncludedTerm[i] \in Term
           /\ LastLogIndex(i) \in Nat
           /\ LastLogTerm(i) \in Term
           /\ \A g \in lastIncludedIndex[i] .. LastLogIndex(i) :
                 LogAt(i, g) \in Entry /\ LogAt(i, g).term \in Term
  <1>1. /\ logs[i] \in Seq(Entry) /\ logs[i] # <<>>
        /\ lastIncludedIndex[i] \in Nat /\ lastIncludedTerm[i] \in Term
    BY DEF LogType
  <1>2. Len(logs[i]) \in Nat \ {0}
    BY SMTT(30), <1>1
  <1>3. \A k \in 1 .. Len(logs[i]) : logs[i][k] \in Entry
    BY SMTT(30), <1>1
  <1>4. \A e \in Entry : e.term \in Term
    BY DEF Entry
  <1>5. LastLogIndex(i) \in Nat
    BY SMTT(30), <1>1, <1>2 DEF LastLogIndex
  <1>6. LastLogTerm(i) \in Term
    BY SMTT(30), <1>2, <1>3, <1>4 DEF LastLogTerm
  <1>7. ASSUME NEW g \in lastIncludedIndex[i] .. LastLogIndex(i)
        PROVE  LogAt(i, g) \in Entry
    <2>1. g - lastIncludedIndex[i] + 1 \in 1 .. Len(logs[i])
      BY SMTT(30), <1>1, <1>2 DEF LastLogIndex
    <2>. QED BY <2>1, <1>3 DEF LogAt
  <1>. QED BY <1>1, <1>2, <1>4, <1>5, <1>6, <1>7

\* convertRoleTo(Candidate) in the main loop keeps the types.
LEMMA TypeElectionTimeout ==
    ASSUME AllTypes, NEW i \in Server, ElectionTimeout(i)
    PROVE  AllTypes'
  <1>1. currentTerm[i] + 1 \in Term
    BY SMTT(30) DEF AllTypes, TermType, Term
  <1>2. TermType'
    BY <1>1 DEF AllTypes, ElectionTimeout, TermType, Role
  <1>3. LogType' /\ ApplyType' /\ VoteType' /\ VoteNetType' /\ AppNetType' /\ SnapNetType'
    BY Frame DEF AllTypes, ElectionTimeout
  <1>4. DiskType'
    BY <1>2, <1>3, PersistType DEF AllTypes, ElectionTimeout
  <1>5. LeaderType'
    BY DEF AllTypes, ElectionTimeout, LeaderType
  <1>6. HistoryType'
    BY SMTT(30), <1>1 DEF AllTypes, ElectionTimeout, HistoryType
  <1>. QED BY <1>2, <1>3, <1>4, <1>5, <1>6 DEF AllTypes

\* leaderElection sends well-typed RequestVote calls.
LEMMA TypeCampaign ==
    ASSUME AllTypes, NEW i \in Server, Campaign(i)
    PROVE  AllTypes'
  <1>1. /\ TermType' /\ LogType' /\ ApplyType' /\ LeaderType' /\ DiskType'
        /\ AppNetType' /\ SnapNetType' /\ HistoryType'
    BY Frame DEF AllTypes, Campaign
  <1>2. VoteType'
    BY SMTT(30) DEF AllTypes, Campaign, VoteType
  <1>3. ASSUME NEW j \in Server
        PROVE  [src |-> i, dst |-> j, term |-> currentTerm[i], round |-> campaigns[i] + 1,
                lastIndex |-> LastLogIndex(i), lastTerm |-> LastLogTerm(i)] \in VoteCalls
    BY SMTT(30), LogTypes DEF AllTypes, TermType, VoteType, VoteCalls
  <1>4. VoteNetType'
    BY <1>3 DEF AllTypes, Campaign, VoteNetType
  <1>. QED BY <1>1, <1>2, <1>4 DEF AllTypes

\* The RequestVote handler keeps the types.
LEMMA TypeRequestVote ==
    ASSUME AllTypes, NEW m \in voteReq, RequestVote(m)
    PROVE  AllTypes'
  <1>1. m \in VoteCalls /\ m.src \in Server /\ m.dst \in Server /\ m.term \in Term /\ m.round \in Nat
    BY DEF AllTypes, VoteNetType, VoteCalls
  <1>2. TermType'
    BY <1>1 DEF AllTypes, RequestVote, TermType, Role
  <1>3. LogType' /\ ApplyType' /\ LeaderType' /\ VoteType' /\ AppNetType' /\ SnapNetType'
    BY Frame DEF AllTypes, RequestVote
  <1>4. DiskType'
    <2>1. CASE Persist(m.dst)
      BY <2>1, <1>1, <1>2, <1>3, PersistType DEF AllTypes, RequestVote
    <2>2. CASE UNCHANGED raftState
      BY <2>2, Frame DEF AllTypes, RequestVote, diskVars
    <2>. QED BY <2>1, <2>2 DEF RequestVote, PersistIf
  <1>5. VoteNetType'
    <2>. DEFINE rep(b) == [src |-> m.src, dst |-> m.dst, reqTerm |-> m.term, round |-> m.round,
                           term |-> currentTerm[m.dst], granted |-> b]
    <2>1. \A b \in BOOLEAN : rep(b) \in VoteReplies
      BY <1>1 DEF AllTypes, TermType, VoteReplies
    <2>2. \E b \in BOOLEAN : voteRep' \in {voteRep, voteRep \cup {rep(b)}}
      BY DEF RequestVote, Grant, NewerEntries
    <2>. HIDE DEF rep
    <2>3. voteReq' \subseteq voteReq
      BY DEF RequestVote
    <2>. QED BY <2>1, <2>2, <2>3 DEF AllTypes, VoteNetType
  <1>6. HistoryType'
    BY SMTT(30), <1>1 DEF AllTypes, TermType, RequestVote, HistoryType
  <1>. QED BY <1>2, <1>3, <1>4, <1>5, <1>6 DEF AllTypes

\* Counting a vote, stepping down and becoming leader keep the types.
LEMMA TypeVoteReply ==
    ASSUME AllTypes, NEW m \in voteRep, VoteReply(m)
    PROVE  AllTypes'
  <1>1. /\ m.src \in Server /\ m.dst \in Server /\ m.reqTerm \in Term /\ m.round \in Nat
        /\ m.term \in Term
    BY DEF AllTypes, VoteNetType, VoteReplies
  <1>2. ApplyType' /\ AppNetType' /\ SnapNetType'
    BY Frame DEF AllTypes, VoteReply
  <1>3. VoteNetType'
    BY DEF AllTypes, VoteReply, VoteNetType
  <1>4. TermType'
    BY <1>1 DEF AllTypes, VoteReply, TermType, StepDown, BecomeLeader, LeadFrom, Role, termVars
  <1>5. LogType'
    BY Frame DEF AllTypes, VoteReply
  <1>6. DiskType'
    <2>1. CASE Persist(m.src) /\ UNCHANGED snapshot
      BY <2>1, <1>1, <1>4, <1>5, PersistType DEF AllTypes
    <2>2. CASE UNCHANGED diskVars
      BY <2>2, Frame DEF AllTypes
    <2>. QED BY <2>1, <2>2 DEF VoteReply, diskVars
  <1>7. LeaderType'
    <2>1. CASE UNCHANGED leaderVars
      BY <2>1, Frame DEF AllTypes
    <2>2. CASE BecomeLeader(m.src) /\ UNCHANGED <<rounds, acks>>
      <3>1. LastLogIndex(m.src) + 1 \in Int
        BY SMTT(30), <1>1, LogTypes DEF AllTypes
      <3>. QED BY <2>2, <3>1, <1>1 DEF AllTypes, LeaderType, BecomeLeader, LeadFrom
    <2>. QED BY <2>1, <2>2 DEF VoteReply, leaderVars
  <1>8. VoteType'
    BY SMTT(30), <1>1 DEF AllTypes, VoteReply, VoteType
  <1>9. HistoryType'
    BY SMTT(30), <1>1 DEF AllTypes, TermType, VoteReply, HistoryType, BecomeLeader, LeadFrom, history
  <1>. QED BY <1>2, <1>3, <1>4, <1>5, <1>6, <1>7, <1>8, <1>9 DEF AllTypes

\* Start keeps the types.
LEMMA TypeStart ==
    ASSUME AllTypes, NEW i \in Server, NEW v \in Value, Start(i, v)
    PROVE  AllTypes'
  <1>1. /\ TermType' /\ ApplyType' /\ LeaderType' /\ VoteType' /\ VoteNetType'
        /\ AppNetType' /\ SnapNetType' /\ HistoryType'
    BY Frame DEF AllTypes, Start
  <1>2. [term |-> currentTerm[i], cmd |-> v] \in Entry
    BY DEF AllTypes, TermType, Entry, Command
  <1>3. LogType'
    BY SMTT(30), <1>2 DEF AllTypes, Start, LogType
  <1>4. DiskType'
    BY <1>1, <1>3, PersistType DEF AllTypes, Start
  <1>. QED BY <1>1, <1>3, <1>4 DEF AllTypes

\* broadcastEntries starts well-typed goroutines.
LEMMA TypeBroadcastEntries ==
    ASSUME AllTypes, NEW i \in Server, BroadcastEntries(i)
    PROVE  AllTypes'
  <1>1. /\ TermType' /\ LogType' /\ ApplyType' /\ VoteType' /\ DiskType' /\ VoteNetType'
        /\ SnapNetType' /\ HistoryType'
    BY Frame DEF AllTypes, BroadcastEntries
  <1>2. LeaderType'
    BY SMTT(30) DEF AllTypes, BroadcastEntries, LeaderType
  <1>3. AppNetType'
    BY SMTT(30) DEF AllTypes, BroadcastEntries, TermType, LeaderType, AppNetType, Senders
  <1>. QED BY <1>1, <1>2, <1>3 DEF AllTypes

\* A slice of a sequence that stays within it.
LEMMA SliceType ==
    ASSUME NEW S, NEW s \in Seq(S), NEW a \in Nat \ {0}, NEW b \in Nat, b <= Len(s)
    PROVE  /\ SubSeq(s, a, b) \in Seq(S)
           /\ Len(SubSeq(s, a, b)) = IF a <= b THEN b - a + 1 ELSE 0
           /\ \A k \in 1 .. b - a + 1 : SubSeq(s, a, b)[k] = s[a + k - 1]
  BY SMTT(30)

\* An iteration of a broadcast goroutine sends a well-typed call.
LEMMA TypeSendEntries ==
    ASSUME AllTypes, NEW s \in senders, SendEntries(s)
    PROVE  AllTypes'
  <1>1. s.src \in Server /\ s.dst \in Server /\ s.term \in Term /\ s.round \in Nat
    BY DEF AllTypes, AppNetType, Senders
  <1>2. /\ TermType' /\ LogType' /\ ApplyType' /\ LeaderType' /\ VoteType' /\ DiskType'
        /\ VoteNetType' /\ HistoryType'
    BY Frame DEF AllTypes, SendEntries
  <1>. DEFINE i == s.src
              next == nextIndex[i][s.dst]
              snap == [src |-> i, dst |-> s.dst, term |-> s.term, round |-> s.round,
                       lii |-> lastIncludedIndex[i], lit |-> lastIncludedTerm[i],
                       data |-> snapshot[i]]
              app == [src |-> i, dst |-> s.dst, term |-> s.term, round |-> s.round,
                      prev |-> next - 1, prevTerm |-> LogAt(i, next - 1).term,
                      entries |-> From(logs[i], lastIncludedIndex[i], next),
                      commit |-> commitIndex[i]]
  <1>3. snap \in SnapCalls
    BY <1>1 DEF AllTypes, LogType, DiskType, SnapCalls
  <1>4. ASSUME next \in lastIncludedIndex[i] + 1 .. LastLogIndex(i) + 1
        PROVE  app \in AppendCalls
    <2>1. /\ logs[i] \in Seq(Entry) /\ Len(logs[i]) \in Nat /\ lastIncludedIndex[i] \in Nat
          /\ LastLogIndex(i) \in Nat
          /\ \A g \in lastIncludedIndex[i] .. LastLogIndex(i) : LogAt(i, g).term \in Term
      BY <1>1, LogTypes DEF AllTypes
    <2>. HIDE DEF app, snap, next
    <2>2. next - 1 \in lastIncludedIndex[i] .. LastLogIndex(i) /\ next - 1 \in Nat
      BY SMTT(30), <1>4, <2>1
    <2>3. next - lastIncludedIndex[i] + 1 \in Nat \ {0}
      BY SMTT(30), <1>4, <2>1
    <2>4. SubSeq(logs[i], next - lastIncludedIndex[i] + 1, Len(logs[i])) \in Seq(Entry)
      BY SMTT(30), <2>1, <2>3, SliceType
    <2>5. commitIndex[i] \in Nat
      BY <1>1 DEF AllTypes, ApplyType
    <2>6. LogAt(i, next - 1).term \in Term
      BY <2>1, <2>2
    <2>. QED BY <1>1, <2>2, <2>4, <2>5, <2>6 DEF AppendCalls, app, From
  <1>5. snapReq' \in {snapReq, snapReq \cup {snap}}
    BY DEF SendEntries
  <1>6. \/ appReq' = appReq
        \/ next \in lastIncludedIndex[i] + 1 .. LastLogIndex(i) + 1 /\ appReq' = appReq \cup {app}
    BY DEF SendEntries
  <1>7. senders' \subseteq senders /\ UNCHANGED <<appRep, snapRep>>
    BY DEF SendEntries
  <1>. HIDE DEF snap, app, next, i
  <1>8. AppNetType'
    BY <1>4, <1>6, <1>7 DEF AllTypes, AppNetType
  <1>9. SnapNetType'
    BY <1>3, <1>5, <1>7 DEF AllTypes, SnapNetType
  <1>. QED BY <1>2, <1>8, <1>9 DEF AllTypes

\* A log cut at its front, as a snapshot does: it is not empty, and ends as before.
LEMMA CutType ==
    ASSUME NEW S, NEW s \in Seq(S), NEW a \in 1 .. Len(s)
    PROVE  LET cut == SubSeq(s, a, Len(s))
           IN  /\ cut \in Seq(S) /\ cut # <<>> /\ Len(cut) = Len(s) - a + 1
               /\ cut[Len(cut)] = s[Len(s)]
  <1>. DEFINE cut == SubSeq(s, a, Len(s))
  <1>1. Len(s) \in Nat /\ a \in Nat \ {0} /\ a <= Len(s)
    BY SMTT(30)
  <1>2. /\ cut \in Seq(S) /\ Len(cut) = Len(s) - a + 1
        /\ \A k \in 1 .. Len(s) - a + 1 : cut[k] = s[a + k - 1]
    BY SMTT(30), <1>1, SliceType
  <1>. HIDE DEF cut
  <1>3. Len(cut) \in 1 .. Len(s) - a + 1 /\ a + Len(cut) - 1 = Len(s)
    BY SMTT(30), <1>1, <1>2
  <1>4. cut[Len(cut)] = s[Len(s)]
    BY <1>2, <1>3
  <1>5. cut # <<>>
    BY SMTT(30), <1>2, <1>3
  <1>. QED BY <1>2, <1>4, <1>5 DEF cut

\* A prefix of one sequence continued with a suffix of another.
LEMMA Spliced ==
    ASSUME NEW S, NEW s \in Seq(S), NEW t \in Seq(S), NEW e \in 1 .. Len(s), NEW d \in 1 .. Len(t)
    PROVE  LET u == SubSeq(s, 1, e) \o SubSeq(t, d, Len(t))
           IN  u \in Seq(S) /\ Len(u) \in Nat \ {0} /\ u[Len(u)] = t[Len(t)]
  <1>. DEFINE a == SubSeq(s, 1, e)
              b == SubSeq(t, d, Len(t))
              u == a \o b
  <1>1. a \in Seq(S) /\ Len(a) = e
    BY SMTT(30)
  <1>2. b \in Seq(S) /\ Len(b) = Len(t) - d + 1 /\ b[Len(b)] = t[Len(t)]
    BY SMTT(30)
  <1>. HIDE DEF a, b
  <1>3. e \in Nat \ {0} /\ Len(t) - d + 1 \in Nat \ {0}
    BY SMTT(30)
  <1>4. /\ u \in Seq(S) /\ Len(u) = Len(a) + Len(b)
        /\ \A k \in 1 .. Len(a) + Len(b) : u[k] = IF k <= Len(a) THEN a[k] ELSE b[k - Len(a)]
    <2>1. a \in Seq(S) /\ b \in Seq(S)
      BY <1>1, <1>2
    <2>. QED BY ONLY SMTT(30), <2>1
  <1>. HIDE DEF u
  <1>5. Len(u) \in 1 .. Len(a) + Len(b) /\ ~(Len(u) <= Len(a)) /\ Len(u) - Len(a) = Len(b)
    BY SMTT(30), <1>1, <1>2, <1>3, <1>4
  <1>6. u[Len(u)] = b[Len(b)]
    BY <1>4, <1>5
  <1>7. u \in Seq(S) /\ Len(u) \in Nat \ {0} /\ u[Len(u)] = t[Len(t)]
    BY SMTT(30), <1>1, <1>2, <1>3, <1>4, <1>6
  <1>. QED BY <1>7 DEF a, b, u

LEMMA SpliceType ==
    ASSUME NEW S, NEW s \in Seq(S), NEW t \in Seq(S), NEW e \in 1 .. Len(s), NEW d \in 1 .. Len(t),
           NEW w, w = SubSeq(s, 1, e) \o SubSeq(t, d, Len(t))
    PROVE  w \in Seq(S) /\ Len(w) \in Nat \ {0} /\ w[Len(w)] = t[Len(t)]
  BY SMTT(30), Spliced

\* The log AppendEntries leaves: it still has its placeholder, and it ends in
\* the leader's last entry unless it is unchanged.
LEMMA MergedLogType ==
    ASSUME LogType, NEW i \in Server, NEW m \in AppendCalls, Matches(i, m)
    PROVE  /\ MergedLog(i, m) \in Seq(Entry)
           /\ Len(MergedLog(i, m)) \in Nat \ {0}
           /\ \/ MergedLog(i, m) = logs[i]
              \/ /\ m.entries # <<>>
                 /\ MergedLog(i, m)[Len(MergedLog(i, m))] = m.entries[Len(m.entries)]
  <1>. DEFINE base == m.prev - lastIncludedIndex[i]
              new == MergedLog(i, m)
  <1>1. m.entries \in Seq(Entry) /\ m.prev \in Nat /\ Len(m.entries) \in Nat
    BY SMTT(30) DEF AppendCalls
  <1>2. /\ logs[i] \in Seq(Entry) /\ Len(logs[i]) \in Nat \ {0} /\ lastIncludedIndex[i] \in Nat
        /\ LastLogIndex(i) \in Nat
    BY LogTypes
  <1>3. base \in 0 .. Len(logs[i]) - 1
    BY SMTT(30), <1>1, <1>2 DEF Matches, LastLogIndex
  <1>4. PICK differs \in SUBSET (1 .. Len(m.entries)) :
          /\ \A k \in (1 .. Len(m.entries)) \ differs : base + k + 1 <= Len(logs[i])
          /\ new = IF differs = {} THEN logs[i]
                   ELSE SubSeq(logs[i], 1, base + Min(differs))
                          \o SubSeq(m.entries, Min(differs), Len(m.entries))
    <2>. DEFINE at(k) == m.prev + k - lastIncludedIndex[i] + 1
                D == {k \in 1 .. Len(m.entries) :
                        \/ at(k) > Len(logs[i])
                        \/ logs[i][at(k)].term # m.entries[k].term}
    <2>1. /\ D \in SUBSET (1 .. Len(m.entries))
          /\ \A k \in (1 .. Len(m.entries)) \ D : base + k + 1 <= Len(logs[i])
      BY SMTT(30), <1>1, <1>2
    <2>2. new = IF D = {} THEN logs[i]
                ELSE SubSeq(logs[i], 1, at(Min(D)) - 1) \o SubSeq(m.entries, Min(D), Len(m.entries))
      BY DEF MergedLog
    <2>3. ASSUME D # {}
          PROVE  at(Min(D)) - 1 = base + Min(D)
      <3>. HIDE DEF D
      <3>1. D \subseteq Nat
        BY SMTT(30), <2>1, <1>1
      <3>2. Min(D) \in Nat
        BY <2>3, <3>1, MinNat
      <3>. QED BY SMTT(30), <3>2, <1>1, <1>2
    <2>. HIDE DEF D, at, base, new
    <2>. QED BY <2>1, <2>2, <2>3
  <1>. DEFINE d == Min(differs)
  <1>. HIDE DEF base, new
  <1>5. ASSUME differs # {}
        PROVE  /\ new \in Seq(Entry) /\ Len(new) \in Nat \ {0}
               /\ m.entries # <<>> /\ new[Len(new)] = m.entries[Len(m.entries)]
    <2>1. differs \subseteq Nat
      BY SMTT(30), <1>1
    <2>2. d \in differs /\ \A k \in differs : d <= k
      BY <1>5, <2>1, MinNat
    <2>3. new = SubSeq(logs[i], 1, base + d) \o SubSeq(m.entries, d, Len(m.entries))
      BY <1>4, <1>5
    <2>. HIDE DEF d
    <2>4. d \in 1 .. Len(m.entries)
      BY <2>2
    <2>5. base + d \in 1 .. Len(logs[i])
      <3>1. CASE d = 1
        BY SMTT(30), <3>1, <1>2, <1>3
      <3>2. CASE d # 1
        <4>1. d - 1 \in 1 .. Len(m.entries)
          BY SMTT(30), <3>2, <2>4, <1>1
        <4>2. d - 1 \notin differs
          BY SMTT(30), <4>1, <2>2, <2>4, <1>1
        <4>3. base + (d - 1) + 1 <= Len(logs[i])
          BY <4>1, <4>2, <1>4
        <4>. QED BY SMTT(30), <4>3, <2>4, <1>1, <1>2, <1>3
      <3>. QED BY <3>1, <3>2
    <2>6. m.entries # <<>>
      BY SMTT(30), <1>1, <2>4
    <2>. DEFINE e == base + d
                u == SubSeq(logs[i], 1, e) \o SubSeq(m.entries, d, Len(m.entries))
    <2>7. e \in 1 .. Len(logs[i])
      BY <2>5
    <2>. HIDE DEF e
    <2>8. u \in Seq(Entry) /\ Len(u) \in Nat \ {0} /\ u[Len(u)] = m.entries[Len(m.entries)]
      <3>1. /\ logs[i] \in Seq(Entry) /\ m.entries \in Seq(Entry)
            /\ e \in 1 .. Len(logs[i]) /\ d \in 1 .. Len(m.entries)
        BY <1>1, <1>2, <2>4, <2>7
      <3>2. PICK w, lg, more, x : w = u /\ lg = logs[i] /\ more = m.entries /\ x = e
        OBVIOUS
      <3>3. PICK y : y = d
        OBVIOUS
      <3>4. w = SubSeq(lg, 1, x) \o SubSeq(more, y, Len(more))
        BY <3>2, <3>3
      <3>5. lg \in Seq(Entry) /\ more \in Seq(Entry) /\ x \in 1 .. Len(lg) /\ y \in 1 .. Len(more)
        BY <3>1, <3>2, <3>3
      <3>. HIDE DEF u
      <3>6. w \in Seq(Entry) /\ Len(w) \in Nat \ {0} /\ w[Len(w)] = more[Len(more)]
        BY SMTT(30), <3>4, <3>5, SpliceType
      <3>. QED BY <3>2, <3>6
    <2>9. new = u
      BY <2>3 DEF e
    <2>. HIDE DEF u
    <2>. QED BY <2>6, <2>8, <2>9
  <1>. QED BY <1>2, <1>4, <1>5 DEF new

\* The commands applyLogs hands over.
LEMMA CommandsType ==
    ASSUME NEW lg \in Seq(Entry), NEW a \in Nat, NEW l \in Nat, NEW c \in Nat,
           a + 1 >= l, c - l \in 0 .. Len(lg) - 1
    PROVE  LET more == [k \in 1 .. (c - a) |-> lg[a + k - l + 1].cmd]
           IN  /\ more \in Seq(Command) /\ Len(more) \in Nat
               /\ c >= a => Len(more) = c - a
  <1>. DEFINE more == [k \in 1 .. (c - a) |-> lg[a + k - l + 1].cmd]
  <1>1. ASSUME NEW k \in 1 .. (c - a)
        PROVE  more[k] \in Command
    <2>1. Len(lg) \in Nat
      BY SMTT(30)
    <2>2. a + k - l + 1 \in 1 .. Len(lg)
      BY SMTT(30), <2>1
    <2>3. lg[a + k - l + 1] \in Entry
      BY SMTT(30), <2>2
    <2>. QED BY <2>3 DEF Entry
  <1>2. ASSUME c >= a
        PROVE  more \in Seq(Command) /\ Len(more) = c - a /\ Len(more) \in Nat
    <2>1. c - a \in Nat
      BY SMTT(30), <1>2
    <2>2. more \in [1 .. (c - a) -> Command]
      BY <1>1
    <2>. HIDE DEF more
    <2>. QED BY SMTT(30), <2>1, <2>2
  <1>3. ASSUME ~(c >= a)
        PROVE  more \in Seq(Command) /\ Len(more) \in Nat
    <2>1. 1 .. (c - a) = {}
      BY SMTT(30), <1>3
    <2>2. more = << >>
      BY SMTT(30), <2>1
    <2>. HIDE DEF more
    <2>. QED BY SMTT(30), <2>2
  <1>. HIDE DEF more
  <1>4. more \in Seq(Command) /\ Len(more) \in Nat /\ (c >= a => Len(more) = c - a)
    BY <1>2, <1>3
  <1>. QED BY <1>4 DEF more

\* applyLogs keeps the types of the group it changes.
LEMMA ApplyLogsType ==
    ASSUME ApplyType, TermType', LogType', NEW i \in Server, NEW c \in Nat, ApplyLogs(i, c)
    PROVE  ApplyType'
  <1>. DEFINE a == lastApplied[i]
              lii == lastIncludedIndex'[i]
              more == [k \in 1 .. (c - a) |-> logs'[i][a + k - lii + 1].cmd]
              n == Len(service[i])
              applied == service[i] \o more
              job(g) == [srv |-> i, index |-> g, term |-> currentTerm'[i],
                         data |-> SubSeq(applied, 1, n + g - a)]
  <1>1. PICK G \in SUBSET {g \in a + 1 .. c : g <= MaxSnapIndex} :
          /\ a + 1 >= lii /\ c - lii \in 0 .. Len(logs'[i]) - 1
          /\ commitIndex' = [commitIndex EXCEPT ![i] = c]
          /\ lastApplied' = [lastApplied EXCEPT ![i] = c]
          /\ service' = [service EXCEPT ![i] = applied]
          /\ snapJobs' = snapJobs \cup {job(g) : g \in G}
    BY DEF ApplyLogs
  <1>2. a \in Nat /\ lii \in Nat /\ logs'[i] \in Seq(Entry) /\ service[i] \in Seq(Command)
    BY DEF ApplyType, LogType
  <1>3. more \in Seq(Command) /\ Len(more) \in Nat /\ (c >= a => Len(more) = c - a)
    <2>1. a + 1 >= lii /\ c - lii \in 0 .. Len(logs'[i]) - 1
      BY <1>1
    <2>. HIDE DEF a, lii
    <2>. QED BY <2>1, <1>2, CommandsType
  <1>. HIDE DEF more
  <1>4. applied \in Seq(Command) /\ Len(applied) = n + Len(more) /\ n \in Nat
    BY SMTT(30), <1>2, <1>3
  <1>. HIDE DEF applied, a, n
  <1>5. ASSUME NEW g \in a + 1 .. c
        PROVE  job(g) \in SnapJobs
    <2>c. c >= a
      BY SMTT(30), <1>2
    <2>0. Len(applied) = n + (c - a) /\ n \in Nat /\ a \in Nat
      BY <1>2, <1>3, <1>4, <2>c
    <2>1. n + g - a \in Nat /\ n + g - a <= Len(applied) /\ g \in Nat
      BY SMTT(30), <2>0
    <2>2. SubSeq(applied, 1, n + g - a) \in Seq(Command)
      BY SMTT(30), <2>1, <1>4, SliceType
    <2>3. currentTerm'[i] \in Term
      BY DEF TermType
    <2>. QED BY <2>1, <2>2, <2>3 DEF SnapJobs
  <1>. HIDE DEF job
  <1>6. snapJobs' \subseteq SnapJobs
    BY <1>1, <1>5 DEF ApplyType
  <1>. QED BY <1>1, <1>4, <1>6 DEF ApplyType

\* Taking over a newer term keeps term, role and vote well-typed.
LEMMA AdoptTermType ==
    ASSUME TermType, NEW i \in Server, NEW t \in Term, AdoptTerm(i, t)
    PROVE  TermType'
  BY DEF TermType, AdoptTerm, StepDown, Role, termVars

\* The reply to AppendEntries, whatever the handler has found.
LEMMA ReplyAppendType ==
    ASSUME AppNetType, TermType', NEW m \in AppendCalls, NEW b \in BOOLEAN, NEW ci \in Int,
           NEW ct \in Term, ReplyAppend(m, b, ci, ct)
    PROVE  appRep' \subseteq AppendReplies
  <1>1. /\ m.src \in Server /\ m.dst \in Server /\ m.term \in Term /\ m.round \in Nat
        /\ m.prev \in Nat /\ Len(m.entries) \in Nat
    BY SMTT(30) DEF AppendCalls
  <1>2. currentTerm'[m.dst] \in Term
    BY <1>1 DEF TermType
  <1>3. [src |-> m.src, dst |-> m.dst, reqTerm |-> m.term, round |-> m.round,
         prev |-> m.prev, n |-> Len(m.entries), term |-> currentTerm'[m.dst],
         success |-> b, conflictIndex |-> ci, conflictTerm |-> ct] \in AppendReplies
    BY <1>1, <1>2 DEF AppendReplies
  <1>. QED BY <1>3 DEF ReplyAppend, AppNetType

\* The follower's conflict index is an integer.
LEMMA ConflictIndexType ==
    ASSUME LogType, NEW i \in Server, NEW g \in Nat
    PROVE  ConflictIndex(i, g) \in Int
  <1>. DEFINE sameTerm == {k \in lastIncludedIndex[i] + 1 .. g :
                             \A x \in k .. g : LogAt(i, x).term = LogAt(i, g).term}
  <1>1. lastIncludedIndex[i] \in Nat
    BY LogTypes
  <1>2. sameTerm \subseteq Nat
    BY SMTT(30), <1>1
  <1>3. ConflictIndex(i, g) = IF sameTerm = {} THEN -1 ELSE Min(sameTerm)
    BY DEF ConflictIndex
  <1>. HIDE DEF sameTerm
  <1>4. sameTerm # {} => Min(sameTerm) \in Nat
    BY <1>2, MinNat
  <1>. QED BY SMTT(30), <1>3, <1>4

\* The AppendEntries handler keeps the types, in each of its branches.
LEMMA TypeAppendEntries ==
    ASSUME AllTypes, NEW m \in appReq, AppendEntries(m)
    PROVE  AllTypes'
  <1>. DEFINE i == m.dst
  <1>1. m \in AppendCalls /\ i \in Server /\ m.term \in Term /\ m.prev \in Nat /\ m.commit \in Nat
    BY DEF AllTypes, AppNetType, AppendCalls
  <1>2. LeaderType' /\ VoteType' /\ VoteNetType' /\ SnapNetType' /\ HistoryType'
    BY Frame DEF AllTypes, AppendEntries
  <1>3. TermType'
    BY <1>1, AdoptTermType, Frame DEF AllTypes, AppendEntries
  <1>4. LogType'
    <2>1. CASE UNCHANGED logs
      BY <2>1, Frame DEF AllTypes, AppendEntries, logVars
    <2>2. CASE Matches(i, m) /\ logs' = [logs EXCEPT ![i] = MergedLog(i, m)]
      <3>1. MergedLog(i, m) \in Seq(Entry) /\ Len(MergedLog(i, m)) # 0
        BY <1>1, <2>2, MergedLogType DEF AllTypes
      <3>2. MergedLog(i, m) # <<>>
        BY SMTT(30), <3>1
      <3>3. UNCHANGED <<lastIncludedIndex, lastIncludedTerm>>
        BY DEF AppendEntries
      <3>. QED BY <1>1, <2>2, <3>1, <3>2, <3>3 DEF AllTypes, LogType
    <2>. QED BY <2>1, <2>2 DEF AppendEntries, logVars
  <1>5. DiskType'
    <2>0. UNCHANGED snapshot
      BY DEF AppendEntries
    <2>1. CASE Persist(i)
      BY <2>0, <2>1, <1>1, <1>3, <1>4, PersistType DEF AllTypes
    <2>2. CASE UNCHANGED raftState
      BY <2>0, <2>2, Frame DEF AllTypes, diskVars
    <2>. QED BY <2>1, <2>2 DEF AppendEntries, PersistIf
  <1>6. ApplyType'
    <2>1. CASE UNCHANGED applyVars
      BY <2>1, Frame DEF AllTypes
    <2>2. CASE ApplyLogs(i, Min({m.commit, Len(logs'[i]) - 1 + lastIncludedIndex[i]}))
      <3>. DEFINE last == Len(logs'[i]) - 1 + lastIncludedIndex[i]
                  c == Min({m.commit, last})
      <3>1. last \in Nat
        BY SMTT(30), <1>1, <1>4 DEF AllTypes, LogType
      <3>. HIDE DEF last
      <3>2. c \in Nat
        BY <1>1, <3>1, MinNat
      <3>3. ApplyLogs(i, c)
        BY <2>2 DEF last
      <3>. HIDE DEF c
      <3>. QED BY <1>1, <1>3, <1>4, <3>2, <3>3, ApplyLogsType DEF AllTypes
    <2>. QED BY <2>1, <2>2 DEF AppendEntries
  <1>7. AppNetType'
    <2>1. \E b \in BOOLEAN, ci \in Int, ct \in Term : ReplyAppend(m, b, ci, ct)
      <3>1. -1 \in Int /\ -1 \in Term /\ LastLogIndex(i) + 1 \in Int /\ lastIncludedIndex[i] + 1 \in Int
        BY SMTT(30), <1>1, LogTypes DEF AllTypes, Term
      <3>2. ConflictIndex(i, m.prev) \in Int
        BY <1>1, ConflictIndexType DEF AllTypes
      <3>3. Mismatch(i, m) => LogAt(i, m.prev).term \in Term
        BY <1>1, LogTypes DEF AllTypes, Mismatch
      <3>4. \/ ReplyAppend(m, FALSE, -1, -1) \/ ReplyAppend(m, TRUE, -1, -1)
            \/ ReplyAppend(m, FALSE, LastLogIndex(i) + 1, -1)
            \/ ReplyAppend(m, FALSE, lastIncludedIndex[i] + 1, -1)
            \/ /\ Mismatch(i, m)
               /\ ReplyAppend(m, FALSE, ConflictIndex(i, m.prev), LogAt(i, m.prev).term)
        BY DEF AppendEntries
      <3>. QED BY <3>1, <3>2, <3>3, <3>4
    <2>2. appRep' \subseteq AppendReplies
      BY <2>1, <1>1, <1>3, ReplyAppendType DEF AllTypes
    <2>3. appReq' \subseteq appReq /\ UNCHANGED senders
      BY DEF AppendEntries
    <2>. QED BY <2>2, <2>3 DEF AllTypes, AppNetType
  <1>. QED BY <1>2, <1>3, <1>4, <1>5, <1>6, <1>7 DEF AllTypes

\* The nextIndex a refused call leads to is an integer.
LEMMA RetryIndexType ==
    ASSUME LogType, NEW i \in Server, NEW m \in AppendReplies
    PROVE  RetryIndex(i, m) \in Int
  <1>. DEFINE lii == lastIncludedIndex[i]
              sameTerm == {g \in lii + 1 .. m.conflictIndex : LogAt(i, g).term = m.conflictTerm}
  <1>1. m.conflictIndex \in Int /\ lii \in Nat
    BY LogTypes DEF AppendReplies
  <1>2. sameTerm \subseteq Int /\ \A x \in sameTerm : x <= m.conflictIndex
    BY SMTT(30), <1>1
  <1>3. RetryIndex(i, m) \in {m.conflictIndex, lii, 1}
          \/ (sameTerm # {} /\ RetryIndex(i, m) = Max(sameTerm) + 1)
    BY DEF RetryIndex
  <1>. HIDE DEF sameTerm
  <1>4. sameTerm # {} => Max(sameTerm) \in Int
    BY <1>1, <1>2, MaxInt
  <1>. QED BY SMTT(30), <1>1, <1>3, <1>4

\* Setting one peer's entry of nextIndex or matchIndex.
LEMMA PeerEntryType ==
    ASSUME NEW S, NEW f \in [Server -> [Server -> S]], NEW i \in Server, NEW j \in Server, NEW x \in S
    PROVE  [f EXCEPT ![i][j] = x] \in [Server -> [Server -> S]]
  <1>1. [f[i] EXCEPT ![j] = x] \in [Server -> S]
    OBVIOUS
  <1>2. [f EXCEPT ![i] = [f[i] EXCEPT ![j] = x]] \in [Server -> [Server -> S]]
    BY <1>1
  <1>. QED BY <1>2

\* Handling the reply to AppendEntries keeps the types.
LEMMA TypeAppendReply ==
    ASSUME AllTypes, NEW m \in appRep, AppendReply(m)
    PROVE  AllTypes'
  <1>. DEFINE i == m.src
              j == m.dst
              len == m.prev + m.n
  <1>1. /\ m \in AppendReplies /\ i \in Server /\ j \in Server /\ m.term \in Term
        /\ m.reqTerm \in Term /\ m.round \in Nat /\ len \in Nat
    BY SMTT(30) DEF AllTypes, AppNetType, AppendReplies
  <1>2. LogType' /\ VoteType' /\ VoteNetType' /\ SnapNetType'
    BY Frame DEF AllTypes, AppendReply
  <1>3. TermType'
    BY <1>1 DEF AllTypes, AppendReply, TermType, StepDown, Role, termVars
  <1>4. DiskType'
    <2>1. CASE Persist(i) /\ UNCHANGED snapshot
      BY <2>1, <1>1, <1>2, <1>3, PersistType DEF AllTypes
    <2>2. CASE UNCHANGED diskVars
      BY <2>2, Frame DEF AllTypes
    <2>. QED BY <2>1, <2>2 DEF AppendReply
  <1>5. ApplyType'
    <2>1. CASE UNCHANGED applyVars
      BY <2>1, Frame DEF AllTypes
    <2>2. CASE ApplyLogs(i, len)
      BY <2>2, <1>1, <1>2, <1>3, ApplyLogsType DEF AllTypes
    <2>. QED BY <2>1, <2>2 DEF AppendReply
  <1>6. LeaderType'
    <2>1. RetryIndex(i, m) \in Int
      BY <1>1, RetryIndexType DEF AllTypes
    <2>2. \/ UNCHANGED nextIndex \/ nextIndex' = [nextIndex EXCEPT ![i][j] = len + 1]
          \/ nextIndex' = [nextIndex EXCEPT ![i][j] = RetryIndex(i, m)]
      BY DEF AppendReply
    <2>3. UNCHANGED matchIndex \/ matchIndex' = [matchIndex EXCEPT ![i][j] = len]
      BY DEF AppendReply
    <2>4. \/ UNCHANGED acks
          \/ acks' = [acks EXCEPT ![i] = acks[i] \cup
                       {[term |-> m.reqTerm, round |-> m.round, from |-> j]}]
      BY DEF AppendReply
    <2>5. UNCHANGED <<beating, rounds>>
      BY DEF AppendReply
    <2>6. nextIndex' \in [Server -> [Server -> Int]]
      <3>1. nextIndex \in [Server -> [Server -> Int]] /\ len + 1 \in Int
        BY SMTT(30), <1>1 DEF AllTypes, LeaderType
      <3>. HIDE DEF i, j, len
      <3>2. /\ [nextIndex EXCEPT ![i][j] = len + 1] \in [Server -> [Server -> Int]]
            /\ [nextIndex EXCEPT ![i][j] = RetryIndex(i, m)] \in [Server -> [Server -> Int]]
        BY <1>1, <2>1, <3>1, PeerEntryType
      <3>. QED BY <2>2, <3>1, <3>2
    <2>7. matchIndex' \in [Server -> [Server -> Nat]]
      <3>1. matchIndex \in [Server -> [Server -> Nat]]
        BY DEF AllTypes, LeaderType
      <3>. HIDE DEF i, j, len
      <3>2. [matchIndex EXCEPT ![i][j] = len] \in [Server -> [Server -> Nat]]
        BY <1>1, <3>1, PeerEntryType
      <3>. QED BY <2>3, <3>1, <3>2
    <2>8. acks' \in [Server -> SUBSET [term : Term, round : Nat, from : Server]]
      BY SMTT(30), <1>1, <2>4 DEF AllTypes, LeaderType
    <2>. QED BY <2>5, <2>6, <2>7, <2>8 DEF AllTypes, LeaderType
  <1>7. AppNetType'
    <2>1. [src |-> i, dst |-> j, term |-> m.reqTerm, round |-> m.round] \in Senders
      BY <1>1 DEF Senders
    <2>2. senders' \subseteq senders \cup
            {[src |-> i, dst |-> j, term |-> m.reqTerm, round |-> m.round]}
      BY DEF AppendReply
    <2>3. appRep' \subseteq appRep /\ UNCHANGED appReq
      BY DEF AppendReply
    <2>. QED BY <2>1, <2>2, <2>3 DEF AllTypes, AppNetType
  <1>8. HistoryType'
    <2>1. UNCHANGED <<faults, cast, elected>>
      BY DEF AppendReply
    <2>2. \/ UNCHANGED erased
          \/ erased' = erased \cup {<<i, t>> : t \in m.term .. currentTerm[i]}
      BY DEF AppendReply
    <2>3. m.term .. currentTerm[i] \subseteq Term
      BY SMTT(30), <1>1 DEF AllTypes, TermType, Term
    <2>4. erased \subseteq Server \X Term
      BY DEF AllTypes, HistoryType
    <2>5. erased' \subseteq Server \X Term
      <3>. HIDE DEF i
      <3>1. {<<i, t>> : t \in m.term .. currentTerm[i]} \subseteq Server \X Term
        BY SMTT(30), <1>1, <2>3
      <3>. QED BY <2>2, <2>4, <3>1
    <2>. QED BY <2>1, <2>5 DEF AllTypes, HistoryType
  <1>. QED BY <1>2, <1>3, <1>4, <1>5, <1>6, <1>7, <1>8 DEF AllTypes

\* TakeSnapshot keeps the types, and the log its placeholder.
LEMMA TypeTakeSnapshot ==
    ASSUME AllTypes, NEW job \in snapJobs, TakeSnapshot(job)
    PROVE  AllTypes'
  <1>. DEFINE i == job.srv
  <1>1. i \in Server /\ job.index \in Nat /\ job.term \in Term /\ job.data \in Seq(Command)
    BY DEF AllTypes, ApplyType, SnapJobs
  <1>2. /\ TermType' /\ LeaderType' /\ VoteType' /\ VoteNetType' /\ AppNetType' /\ SnapNetType'
        /\ HistoryType'
    BY Frame DEF AllTypes, TakeSnapshot
  <1>3. ApplyType'
    BY DEF AllTypes, TakeSnapshot, ApplyType
  <1>4. CASE UNCHANGED <<logVars, diskVars>>
    BY <1>2, <1>3, <1>4, Frame DEF AllTypes
  <1>5. CASE job.index \in lastIncludedIndex[i] + 1 .. LastLogIndex(i)
    <2>. DEFINE a == job.index - lastIncludedIndex[i] + 1
                cut == SubSeq(logs[i], a, Len(logs[i]))
    <2>1. /\ logs[i] \in Seq(Entry) /\ Len(logs[i]) \in Nat /\ lastIncludedIndex[i] \in Nat
      BY <1>1, LogTypes DEF AllTypes
    <2>2. a \in 1 .. Len(logs[i])
      BY SMTT(30), <1>1, <1>5, <2>1 DEF LastLogIndex
    <2>. HIDE DEF a
    <2>3. cut \in Seq(Entry) /\ cut # <<>>
      <3>. HIDE DEF i
      <3>. QED BY <2>1, <2>2, CutType
    <2>4. CASE UNCHANGED <<logVars, diskVars>>
      BY <2>4, <1>4
    <2>5. CASE ~UNCHANGED <<logVars, diskVars>>
      <3>1. /\ logs' = [logs EXCEPT ![i] = cut]
            /\ lastIncludedIndex' = [lastIncludedIndex EXCEPT ![i] = job.index]
            /\ lastIncludedTerm' = [lastIncludedTerm EXCEPT ![i] = job.term]
            /\ Persist(i)
            /\ snapshot' = [snapshot EXCEPT ![i] = job.data]
        BY <2>5 DEF TakeSnapshot, From, a
      <3>. HIDE DEF cut
      <3>2. LogType'
        BY <1>1, <2>3, <3>1 DEF AllTypes, LogType
      <3>3. DiskType'
        BY <1>1, <1>2, <3>1, <3>2, PersistType DEF AllTypes
      <3>. QED BY <1>2, <1>3, <3>2, <3>3 DEF AllTypes
    <2>. QED BY <2>4, <2>5
  <1>. QED BY <1>4, <1>5 DEF TakeSnapshot

\* The InstallSnapshot handler keeps the types, and the log its placeholder.
LEMMA TypeInstallSnapshot ==
    ASSUME AllTypes, NEW m \in snapReq, InstallSnapshot(m)
    PROVE  AllTypes'
  <1>. DEFINE i == m.dst
  <1>1. /\ m.src \in Server /\ i \in Server /\ m.term \in Term /\ m.round \in Nat /\ m.lii \in Nat
        /\ m.lit \in Term /\ m.data \in Seq(Command)
    BY DEF AllTypes, SnapNetType, SnapCalls
  <1>2. LeaderType' /\ VoteType' /\ VoteNetType' /\ AppNetType' /\ HistoryType'
    BY Frame DEF AllTypes, InstallSnapshot
  <1>3. SnapNetType'
    <2>. DEFINE r == [src |-> m.src, dst |-> i, reqTerm |-> m.term, round |-> m.round,
                      lii |-> m.lii, term |-> currentTerm[i]]
    <2>1. snapReq' \subseteq snapReq /\ snapRep' \subseteq snapRep \cup {r}
      BY DEF InstallSnapshot
    <2>2. currentTerm[i] \in Term
      BY <1>1 DEF AllTypes, TermType
    <2>3. r \in SnapReplies
      BY <1>1, <2>2 DEF SnapReplies
    <2>. QED BY <2>1, <2>3 DEF AllTypes, SnapNetType
  <1>4. CASE UNCHANGED <<termVars, logVars, commitIndex, lastApplied, service, diskVars>>
    <2>1. TermType' /\ LogType' /\ DiskType'
      BY <1>4, Frame DEF AllTypes
    <2>2. UNCHANGED applyVars
      BY <1>4 DEF InstallSnapshot, applyVars
    <2>3. ApplyType'
      BY <2>2, Frame DEF AllTypes
    <2>. QED BY <1>2, <1>3, <2>1, <2>3 DEF AllTypes
  <1>5. CASE ~UNCHANGED <<termVars, logVars, commitIndex, lastApplied, service, diskVars>>
    <2>. DEFINE a == m.lii - lastIncludedIndex[i] + 1
                new == IF m.lii <= LastLogIndex(i) THEN SubSeq(logs[i], a, Len(logs[i]))
                       ELSE <<Placeholder(m.lit)>>
    <2>1. /\ m.lii > lastIncludedIndex[i]
          /\ AdoptTerm(i, m.term)
          /\ logs' = [logs EXCEPT ![i] = new]
          /\ lastIncludedIndex' = [lastIncludedIndex EXCEPT ![i] = m.lii]
          /\ lastIncludedTerm' = [lastIncludedTerm EXCEPT ![i] = m.lit]
          /\ lastApplied' = [lastApplied EXCEPT ![i] = Max({lastApplied[i], m.lii})]
          /\ commitIndex' = [commitIndex EXCEPT ![i] = Max({commitIndex[i], m.lii})]
          /\ Persist(i)
          /\ snapshot' = [snapshot EXCEPT ![i] = m.data]
          /\ service' = [service EXCEPT ![i] = m.data]
          /\ UNCHANGED snapJobs
      BY <1>5 DEF InstallSnapshot, From
    <2>2. TermType'
      BY <1>1, <2>1, AdoptTermType DEF AllTypes
    <2>3. /\ logs[i] \in Seq(Entry) /\ Len(logs[i]) \in Nat \ {0} /\ lastIncludedIndex[i] \in Nat
          /\ LastLogIndex(i) \in Nat
      BY <1>1, LogTypes DEF AllTypes
    <2>4. new \in Seq(Entry) /\ new # <<>>
      <3>1. CASE m.lii <= LastLogIndex(i)
        <4>0. m.lii > lastIncludedIndex[i] /\ m.lii \in Nat
          BY <1>1, <2>1
        <4>1. a \in 1 .. Len(logs[i])
          <5>. HIDE DEF i, new
          <5>. QED BY SMTT(30), <3>1, <4>0, <2>3 DEF LastLogIndex
        <4>. HIDE DEF a
        <4>2. SubSeq(logs[i], a, Len(logs[i])) \in Seq(Entry)
                /\ SubSeq(logs[i], a, Len(logs[i])) # <<>>
          <5>1. logs[i] \in Seq(Entry)
            BY <2>3
          <5>. HIDE DEF i
          <5>. QED BY <4>1, <5>1, CutType
        <4>. QED BY <3>1, <4>2
      <3>2. CASE ~(m.lii <= LastLogIndex(i))
        <4>1. Placeholder(m.lit) \in Entry
          BY <1>1 DEF Placeholder, Entry, Command
        <4>2. <<Placeholder(m.lit)>> \in Seq(Entry) /\ <<Placeholder(m.lit)>> # <<>>
          BY SMTT(30), <4>1
        <4>. QED BY <3>2, <4>2
      <3>. QED BY <3>1, <3>2
    <2>. HIDE DEF new
    <2>5. LogType'
      BY <1>1, <2>1, <2>4 DEF AllTypes, LogType
    <2>6. DiskType'
      BY <1>1, <2>1, <2>2, <2>5, PersistType DEF AllTypes
    <2>7. ASSUME NEW x \in Nat
          PROVE  Max({x, m.lii}) \in Nat
      <3>. DEFINE b == IF x <= m.lii THEN m.lii ELSE x
      <3>1. b \in Int /\ \A y \in {x, m.lii} : y <= b
        BY SMTT(30), <1>1
      <3>2. {x, m.lii} \subseteq Int /\ {x, m.lii} # {}
        BY SMTT(30), <1>1
      <3>. HIDE DEF b
      <3>3. Max({x, m.lii}) \in {x, m.lii}
        BY <3>1, <3>2, MaxInt
      <3>. QED BY <3>3, <1>1
    <2>8. ApplyType'
      BY <1>1, <2>1, <2>7 DEF AllTypes, ApplyType
    <2>. QED BY <1>2, <1>3, <2>2, <2>5, <2>6, <2>8 DEF AllTypes
  <1>. QED BY <1>4, <1>5

\* sendSnapshot keeps the types when the reply is in.
LEMMA TypeSnapshotReply ==
    ASSUME AllTypes, NEW m \in snapRep, SnapshotReply(m)
    PROVE  AllTypes'
  <1>. DEFINE i == m.src
  <1>1. /\ i \in Server /\ m.dst \in Server /\ m.term \in Term /\ m.lii \in Nat /\ m.lii + 1 \in Int
    BY SMTT(30) DEF AllTypes, SnapNetType, SnapReplies
  <1>2. /\ LogType' /\ ApplyType' /\ VoteType' /\ VoteNetType' /\ AppNetType' /\ HistoryType'
    BY Frame DEF AllTypes, SnapshotReply
  <1>3. SnapNetType'
    BY DEF AllTypes, SnapshotReply, SnapNetType
  <1>4. TermType'
    BY <1>1 DEF AllTypes, SnapshotReply, TermType, StepDown, Role, termVars
  <1>5. DiskType'
    <2>0. UNCHANGED snapshot
      BY DEF SnapshotReply
    <2>1. CASE Persist(i)
      BY <2>0, <2>1, <1>1, <1>2, <1>4, PersistType DEF AllTypes
    <2>2. CASE UNCHANGED raftState
      BY <2>0, <2>2, Frame DEF AllTypes, diskVars
    <2>. QED BY <2>1, <2>2 DEF SnapshotReply
  <1>6. LeaderType'
    <2>1. /\ UNCHANGED nextIndex \/ nextIndex' = [nextIndex EXCEPT ![i][m.dst] = m.lii + 1]
          /\ UNCHANGED matchIndex \/ matchIndex' = [matchIndex EXCEPT ![i][m.dst] = m.lii]
          /\ UNCHANGED <<beating, rounds, acks>>
      BY DEF SnapshotReply
    <2>2. nextIndex \in [Server -> [Server -> Int]] /\ matchIndex \in [Server -> [Server -> Nat]]
      BY DEF AllTypes, LeaderType
    <2>. HIDE DEF i
    <2>3. /\ [nextIndex EXCEPT ![i][m.dst] = m.lii + 1] \in [Server -> [Server -> Int]]
          /\ [matchIndex EXCEPT ![i][m.dst] = m.lii] \in [Server -> [Server -> Nat]]
      BY <1>1, <2>2, PeerEntryType
    <2>4. nextIndex' \in [Server -> [Server -> Int]] /\ matchIndex' \in [Server -> [Server -> Nat]]
      BY <2>1, <2>2, <2>3
    <2>. QED BY <2>1, <2>3, <2>4 DEF AllTypes, LeaderType
  <1>. QED BY <1>2, <1>3, <1>4, <1>5, <1>6 DEF AllTypes

\* Make on well-typed persisted data starts a well-typed server.
LEMMA TypeReboot ==
    ASSUME AllTypes, NEW i \in Server, NEW d \in RaftState, d.logs # <<>>, Reboot(i, d),
           voteReq' \subseteq VoteCalls, appReq' \subseteq AppendCalls, snapReq' \subseteq SnapCalls
    PROVE  AllTypes'
  <1>1. /\ d.term \in Term /\ d.vote \in Server \cup {Nil} /\ d.logs \in Seq(Entry)
        /\ d.lii \in Nat /\ d.lit \in Term
    BY DEF RaftState
  <1>2. TermType'
    BY <1>1 DEF AllTypes, Reboot, TermType, Role
  <1>3. LogType'
    <2>. DEFINE lg == [d.logs EXCEPT ![1] = Placeholder(d.lit)]
    <2>1. Placeholder(d.lit) \in Entry
      BY <1>1 DEF Placeholder, Entry, Command
    <2>2. lg \in Seq(Entry) /\ lg # <<>>
      BY SMTT(30), <1>1, <2>1
    <2>3. /\ logs' = [logs EXCEPT ![i] = lg]
          /\ lastIncludedIndex' = [lastIncludedIndex EXCEPT ![i] = d.lii]
          /\ lastIncludedTerm' = [lastIncludedTerm EXCEPT ![i] = d.lit]
      BY DEF Reboot
    <2>. HIDE DEF lg
    <2>. QED BY <1>1, <2>2, <2>3 DEF AllTypes, LogType
  <1>4. ApplyType'
    BY <1>1 DEF AllTypes, Reboot, ApplyType, DiskType
  <1>5. LeaderType' /\ VoteType'
    <2>1. /\ nextIndex' = [nextIndex EXCEPT ![i] = [j \in Server |-> 0]]
          /\ matchIndex' = [matchIndex EXCEPT ![i] = [j \in Server |-> 0]]
          /\ beating' = [beating EXCEPT ![i] = FALSE]
          /\ rounds' = [rounds EXCEPT ![i] = 0]
          /\ acks' = [acks EXCEPT ![i] = {}]
      BY DEF Reboot
    <2>2. campaigns' = [campaigns EXCEPT ![i] = 0] /\ votes' = [votes EXCEPT ![i] = {}]
      BY DEF Reboot
    <2>3. LeaderType'
      BY SMTT(30), <2>1 DEF AllTypes, LeaderType
    <2>4. VoteType'
      BY <2>2 DEF AllTypes, VoteType
    <2>. QED BY <2>3, <2>4
  <1>6. DiskType'
    BY DEF AllTypes, Reboot, DiskType
  <1>7. VoteNetType' /\ AppNetType' /\ SnapNetType'
    BY DEF AllTypes, Reboot, OfOthers, VoteNetType, AppNetType, SnapNetType
  <1>8. HistoryType'
    <2>1. faults' = faults + 1 /\ UNCHANGED history
      BY DEF Reboot
    <2>. QED BY SMTT(30), <2>1 DEF AllTypes, HistoryType, history
  <1>. QED BY <1>2, <1>3, <1>4, <1>5, <1>6, <1>7, <1>8 DEF AllTypes

\* The calls of a dead incarnation keep their types.
LEMMA OrphanedType ==
    ASSUME NEW i \in Server
    PROVE  /\ \A S \in SUBSET VoteCalls : Orphaned(S, i) \subseteq VoteCalls
           /\ \A S \in SUBSET AppendCalls : Orphaned(S, i) \subseteq AppendCalls
           /\ \A S \in SUBSET SnapCalls : Orphaned(S, i) \subseteq SnapCalls
  <1>1. \A m \in VoteCalls : [m EXCEPT !.round = 0] \in VoteCalls
    BY DEF VoteCalls
  <1>2. \A m \in AppendCalls : [m EXCEPT !.round = 0] \in AppendCalls
    BY DEF AppendCalls
  <1>3. \A m \in SnapCalls : [m EXCEPT !.round = 0] \in SnapCalls
    BY DEF SnapCalls
  <1>. QED BY <1>1, <1>2, <1>3 DEF Orphaned

\* A crash while no handler runs, and the restart, keep the types.
LEMMA TypeRestart ==
    ASSUME AllTypes, NEW i \in Server, Restart(i)
    PROVE  AllTypes'
  <1>1. raftState[i] \in RaftState /\ raftState[i].logs # <<>>
    BY DEF AllTypes, DiskType
  <1>2. voteReq' \subseteq VoteCalls /\ appReq' \subseteq AppendCalls /\ snapReq' \subseteq SnapCalls
    BY OrphanedType DEF AllTypes, Restart, VoteNetType, AppNetType, SnapNetType
  <1>3. Reboot(i, raftState[i])
    BY DEF Restart
  <1>. QED BY <1>1, <1>2, <1>3, TypeReboot

\* A crash between the two writes of a handler keeps the types.
LEMMA TypeCrashInHandler ==
    ASSUME AllTypes, NEW m \in Requests, CrashInHandler(m)
    PROVE  AllTypes'
  <1>1. m.dst \in Server /\ m.term \in Term
    BY DEF AllTypes, Requests, VoteNetType, AppNetType, SnapNetType, VoteCalls, AppendCalls, SnapCalls
  <1>. DEFINE d == [raftState[m.dst] EXCEPT !.term = m.term, !.vote = Nil]
  <1>2. d \in RaftState /\ d.logs # <<>>
    BY <1>1 DEF AllTypes, DiskType, RaftState
  <1>3. voteReq' \subseteq VoteCalls /\ appReq' \subseteq AppendCalls /\ snapReq' \subseteq SnapCalls
    <2>1. /\ voteReq \ {m} \in SUBSET VoteCalls /\ appReq \ {m} \in SUBSET AppendCalls
          /\ snapReq \ {m} \in SUBSET SnapCalls
      BY DEF AllTypes, VoteNetType, AppNetType, SnapNetType
    <2>. QED BY <1>1, <2>1, OrphanedType DEF CrashInHandler
  <1>4. Reboot(m.dst, d)
    BY DEF CrashInHandler
  <1>. HIDE DEF d
  <1>. QED BY <1>1, <1>2, <1>3, <1>4, TypeReboot

\* Losing a call or a reply keeps the types.
LEMMA TypeLose ==
    ASSUME AllTypes, NEW m, Lose(m)
    PROVE  AllTypes'
  <1>1. /\ TermType' /\ LogType' /\ ApplyType' /\ LeaderType' /\ VoteType' /\ DiskType'
    BY Frame DEF AllTypes, Lose
  <1>2. VoteNetType' /\ AppNetType' /\ SnapNetType'
    BY DEF AllTypes, Lose, VoteNetType, AppNetType, SnapNetType
  <1>3. HistoryType'
    BY SMTT(30) DEF AllTypes, Lose, HistoryType, history
  <1>. QED BY <1>1, <1>2, <1>3 DEF AllTypes

\* Make without persisted data starts well-typed servers.
LEMMA TypeInit == Init => AllTypes
  <1>. SUFFICES ASSUME Init PROVE AllTypes
    OBVIOUS
  <1>0. -1 \in Term /\ Placeholder(-1) \in Entry
    BY DEF Term, Placeholder, Entry, Command
  <1>1. TermType /\ LeaderType /\ VoteType
    BY SMTT(30), <1>0 DEF Init, TermType, LeaderType, VoteType, Role
  <1>2. <<Placeholder(-1)>> \in Seq(Entry) /\ <<Placeholder(-1)>> # <<>>
    BY SMTT(30), <1>0
  <1>3. LogType
    BY <1>0, <1>2 DEF Init, LogType
  <1>e. <<>> \in Seq(Command)
    BY SMTT(30)
  <1>4. ApplyType
    BY <1>e DEF Init, ApplyType
  <1>5. DiskType
    BY <1>0, <1>2, <1>e DEF Init, DiskType, RaftState
  <1>6. VoteNetType /\ AppNetType /\ SnapNetType /\ HistoryType
    BY DEF Init, VoteNetType, AppNetType, SnapNetType, HistoryType
  <1>. QED BY <1>1, <1>3, <1>4, <1>5, <1>6 DEF AllTypes

\* Every step keeps the types.
LEMMA TypeNext == AllTypes /\ [Next]_vars => AllTypes'
  <1>. SUFFICES ASSUME AllTypes, [Next]_vars PROVE AllTypes'
    OBVIOUS
  <1>1. CASE UNCHANGED vars
    BY <1>1, Frame DEF AllTypes, vars
  <1>2. CASE Next
    BY <1>2, TimersAssumption, TypeElectionTimeout, TypeCampaign, TypeRequestVote, TypeVoteReply,
       TypeStart, TypeBroadcastEntries, TypeSendEntries, TypeAppendEntries, TypeAppendReply,
       TypeTakeSnapshot, TypeInstallSnapshot, TypeSnapshotReply, TypeRestart,
       TypeCrashInHandler, TypeLose DEF Next
  <1>. QED BY <1>1, <1>2

\* Every variable of every server keeps its type, in every reachable state.
THEOREM TypeCorrect == Spec => []TypeOK
  <1>1. AllTypes => TypeOK
    BY Groups
  <1>. QED BY <1>1, TypeInit, TypeNext, PTL DEF Spec
=============================================================================
