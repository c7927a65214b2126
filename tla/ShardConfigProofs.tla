-------------------------- MODULE ShardConfigProofs --------------------------
(***************************************************************************)
(* Proofs about ShardConfig.tla, for every number of shards and every set  *)
(* of groups: navieAssign never indexes an empty slice, leaves the shards  *)
(* evenly spread, and keeps g2shard and the newest configuration in        *)
(* agreement; and what a Query can see is a history of ConfigHistory.tla.  *)
(***************************************************************************)
EXTENDS ShardConfig, TLAPS, FiniteSetTheorems

USE Zenon, SMTT(30)

-----------------------------------------------------------------------------
(* Slices.                                                                 *)

\* cutG2shard drops the last element of a slice and keeps the others.
LEMMA FrontFacts ==
  ASSUME NEW S, NEW q \in Seq(S), q # <<>>
  PROVE  /\ Front(q) \in Seq(S) /\ Len(q) \in Nat \ {0} /\ Len(Front(q)) = Len(q) - 1
         /\ DOMAIN Front(q) = 1 .. Len(q) - 1 /\ DOMAIN q = 1 .. Len(q)
         /\ \A k \in 1 .. Len(q) - 1 : Front(q)[k] = q[k]
         /\ Last(q) \in S /\ Last(q) = q[Len(q)]
<1>1. Len(q) \in Nat \ {0} /\ DOMAIN q = 1 .. Len(q)
  BY SMTT(30)
<1>2. SubSeq(q, 1, Len(q) - 1) \in Seq(S) /\ Len(SubSeq(q, 1, Len(q) - 1)) = Len(q) - 1
  BY SMTT(30), <1>1
<1>3. \A k \in 1 .. Len(q) - 1 : SubSeq(q, 1, Len(q) - 1)[k] = q[k]
  BY SMTT(30), <1>1
<1>4. DOMAIN SubSeq(q, 1, Len(q) - 1) = 1 .. Len(q) - 1
  BY SMTT(30), <1>2
<1>5. q[Len(q)] \in S
  BY SMTT(30), <1>1
<1> QED
  BY <1>1, <1>2, <1>3, <1>4, <1>5 DEF Front, Last

\* append puts an element behind the others.
LEMMA AppendFacts ==
  ASSUME NEW S, NEW q \in Seq(S), NEW x \in S
  PROVE  /\ Append(q, x) \in Seq(S) /\ Len(q) \in Nat /\ Len(Append(q, x)) = Len(q) + 1
         /\ DOMAIN Append(q, x) = 1 .. Len(q) + 1 /\ DOMAIN q = 1 .. Len(q)
         /\ \A k \in 1 .. Len(q) : Append(q, x)[k] = q[k]
         /\ Append(q, x)[Len(q) + 1] = x
BY SMTT(30)

\* q[1:] drops the first element.
LEMMA TailFacts ==
  ASSUME NEW S, NEW q \in Seq(S), q # <<>>
  PROVE  /\ Tail(q) \in Seq(S) /\ Len(q) \in Nat \ {0} /\ Len(Tail(q)) = Len(q) - 1
         /\ DOMAIN Tail(q) = 1 .. Len(q) - 1 /\ DOMAIN q = 1 .. Len(q)
         /\ \A k \in 1 .. Len(q) - 1 : Tail(q)[k] = q[k + 1]
         /\ q[1] \in S
BY SMTT(30)

\* A listing of a set is a sequence of its elements.
LEMMA ListingFacts ==
  ASSUME NEW S, IsFiniteSet(S), NEW q \in Listings(S)
  PROVE  /\ q \in Seq(S) /\ DOMAIN q = 1 .. Cardinality(S)
         /\ \A a, b \in DOMAIN q : q[a] = q[b] => a = b
         /\ \A x \in S : \E a \in DOMAIN q : q[a] = x
         /\ \A a \in DOMAIN q : q[a] \in S
<1>1. Cardinality(S) \in Nat
  BY FS_CardinalityType
<1>2. q \in [1 .. Cardinality(S) -> S]
  BY DEF Listings
<1>3. q \in Seq(S)
  BY SMTT(30), <1>1, <1>2
<1> QED
  BY <1>2, <1>3 DEF Listings

-----------------------------------------------------------------------------
(* Counting.                                                               *)

\* There are NShards shards.
LEMMA ShardCount == IsFiniteSet(Shard) /\ Cardinality(Shard) = NShards
<1>1. 0 \in Int /\ NShards - 1 \in Int /\ ~(0 > NShards - 1)
  BY SMTT(30), NShardsAssumption
<1>2. IsFiniteSet(0 .. NShards - 1) /\ Cardinality(0 .. NShards - 1) = (NShards - 1) - 0 + 1
  BY ONLY <1>1, FS_Interval
<1> QED
  BY SMTT(30), <1>2, NShardsAssumption DEF Shard

\* NShards / n shards for each of n groups are no more than there are, and one
\* more for each would be too many.
LEMMA ShareBounds ==
  ASSUME NEW n \in Nat \ {0}
  PROVE  Share(n) \in Nat /\ n * Share(n) <= NShards /\ NShards < n * (Share(n) + 1)
BY SMTT(30), NShardsAssumption DEF Share

-----------------------------------------------------------------------------
(* What the assignments to g2shard and to groupMap do, element by element. *)

\* Shard s is at place k of group g in the map f
Held(f, g, k, s) == k \in DOMAIN f[g] /\ f[g][k] = s

\* No shard is held twice.
Disjoint(f) ==
  \A s \in Shard : \A g, h \in Gid : \A k, l \in Nat :
      Held(f, g, k, s) /\ Held(f, h, l, s) => g = h /\ k = l

\* Group g is at place a of list c
In(m, c, a, g) == a \in DOMAIN m[c] /\ m[c][a] = g

\* No group is listed twice.
Once(m) ==
  \A g \in Gid : \A c, d \in Class : \A a, b \in Nat :
      In(m, c, a, g) /\ In(m, d, b, g) => c = d /\ a = b

\* The assignments themselves
Cut(f, gid) == [f EXCEPT ![gid] = Front(f[gid])]
Push(f, gid, x) == [f EXCEPT ![gid] = Append(f[gid], x)]
Relist(m, from, to) ==
  [m EXCEPT ![to] = Append(m[to], m[from][1]), ![from] = Tail(m[from])]
Drop(m, from) == [m EXCEPT ![from] = Tail(m[from])]

\* cutG2shard on one group.
LEMMA CutFacts ==
  ASSUME NEW f \in [Gid -> Seq(Shard)], NEW gid \in Gid, f[gid] # <<>>
  PROVE  /\ Cut(f, gid) \in [Gid -> Seq(Shard)]
         /\ \A g \in Gid, k \in Nat, s \in Shard :
               Held(Cut(f, gid), g, k, s) <=> Held(f, g, k, s) /\ ~(g = gid /\ k = Len(f[gid]))
         /\ Len(f[gid]) \in Nat \ {0} /\ Len(Cut(f, gid)[gid]) = Len(f[gid]) - 1
         /\ \A g \in Gid \ {gid} : Cut(f, gid)[g] = f[g]
         /\ Last(f[gid]) \in Shard /\ Held(f, gid, Len(f[gid]), Last(f[gid]))
<1> DEFINE e == Cut(f, gid)
<1> e = [f EXCEPT ![gid] = Front(f[gid])]
  BY DEF Cut
<1> HIDE DEF e
<1>1. f[gid] \in Seq(Shard)
  OBVIOUS
<1>2. /\ Front(f[gid]) \in Seq(Shard) /\ Len(f[gid]) \in Nat \ {0}
      /\ Len(Front(f[gid])) = Len(f[gid]) - 1
      /\ DOMAIN Front(f[gid]) = 1 .. Len(f[gid]) - 1 /\ DOMAIN f[gid] = 1 .. Len(f[gid])
      /\ \A k \in 1 .. Len(f[gid]) - 1 : Front(f[gid])[k] = f[gid][k]
      /\ Last(f[gid]) \in Shard /\ Last(f[gid]) = f[gid][Len(f[gid])]
  BY <1>1, FrontFacts
<1>3. e[gid] = Front(f[gid]) /\ \A g \in Gid \ {gid} : e[g] = f[g]
  OBVIOUS
<1>4. ASSUME NEW g \in Gid, NEW k \in Nat, NEW s \in Shard
      PROVE  Held(e, g, k, s) <=> Held(f, g, k, s) /\ ~(g = gid /\ k = Len(f[gid]))
  <2>1. CASE g = gid
    BY SMTT(30), <1>2, <1>3, <2>1 DEF Held
  <2>2. CASE g # gid
    BY <1>3, <2>2 DEF Held
  <2> QED
    BY <2>1, <2>2
<1>5. e \in [Gid -> Seq(Shard)]
  BY <1>2
<1>6. Held(f, gid, Len(f[gid]), Last(f[gid]))
  BY SMTT(30), <1>2 DEF Held
<1> QED
  BY <1>2, <1>3, <1>4, <1>5, <1>6 DEF e

\* append to one group's slice.
LEMMA PushFacts ==
  ASSUME NEW f \in [Gid -> Seq(Shard)], NEW gid \in Gid, NEW x \in Shard
  PROVE  /\ Push(f, gid, x) \in [Gid -> Seq(Shard)]
         /\ \A g \in Gid, k \in Nat, s \in Shard :
               Held(Push(f, gid, x), g, k, s) <=> Held(f, g, k, s) \/ (g = gid /\ k = Len(f[gid]) + 1 /\ s = x)
         /\ Len(f[gid]) \in Nat /\ Len(Push(f, gid, x)[gid]) = Len(f[gid]) + 1
         /\ \A g \in Gid \ {gid} : Push(f, gid, x)[g] = f[g]
<1> DEFINE e == Push(f, gid, x)
<1> e = [f EXCEPT ![gid] = Append(f[gid], x)]
  BY DEF Push
<1> HIDE DEF e
<1>1. f[gid] \in Seq(Shard)
  OBVIOUS
<1>2. /\ Append(f[gid], x) \in Seq(Shard) /\ Len(f[gid]) \in Nat
      /\ Len(Append(f[gid], x)) = Len(f[gid]) + 1
      /\ DOMAIN Append(f[gid], x) = 1 .. Len(f[gid]) + 1 /\ DOMAIN f[gid] = 1 .. Len(f[gid])
      /\ \A k \in 1 .. Len(f[gid]) : Append(f[gid], x)[k] = f[gid][k]
      /\ Append(f[gid], x)[Len(f[gid]) + 1] = x
  BY SMTT(30), <1>1, AppendFacts
<1>3. e[gid] = Append(f[gid], x) /\ \A g \in Gid \ {gid} : e[g] = f[g]
  OBVIOUS
<1>4. ASSUME NEW g \in Gid, NEW k \in Nat, NEW s \in Shard
      PROVE  Held(e, g, k, s) <=> Held(f, g, k, s) \/ (g = gid /\ k = Len(f[gid]) + 1 /\ s = x)
  <2>1. CASE g = gid
    BY SMTT(30), <1>2, <1>3, <2>1 DEF Held
  <2>2. CASE g # gid
    BY <1>3, <2>2 DEF Held
  <2> QED
    BY <2>1, <2>2
<1>5. e \in [Gid -> Seq(Shard)]
  BY <1>2
<1> QED
  BY <1>2, <1>3, <1>4, <1>5 DEF e

\* The first group of one list goes to the end of another.
LEMMA RelistFacts ==
  ASSUME NEW K \in SUBSET Gid, NEW m \in [Class -> Seq(K)], Once(m),
         NEW from \in Class, NEW to \in Class, from # to, m[from] # <<>>
  PROVE  /\ Relist(m, from, to) \in [Class -> Seq(K)] /\ Once(Relist(m, from, to))
         /\ m[from][1] \in K /\ In(m, from, 1, m[from][1])
         /\ \A c \in Class, a \in Nat :
               In(Relist(m, from, to), c, a, m[from][1]) => c = to
         /\ \E a \in Nat : In(Relist(m, from, to), to, a, m[from][1])
         /\ \A g \in Gid \ {m[from][1]}, c \in Class :
               (\E a \in Nat : In(Relist(m, from, to), c, a, g)) <=> (\E a \in Nat : In(m, c, a, g))
         /\ \A c \in Class \ {from, to} : Relist(m, from, to)[c] = m[c]
<1> DEFINE n == Relist(m, from, to)
<1> n = [m EXCEPT ![to] = Append(m[to], m[from][1]), ![from] = Tail(m[from])]
  BY DEF Relist
<1> HIDE DEF n
<1> DEFINE gid == m[from][1]
           len == Len(m[to])
<1>1. m[from] \in Seq(K) /\ m[to] \in Seq(K)
  OBVIOUS
<1>2. /\ Tail(m[from]) \in Seq(K) /\ Len(m[from]) \in Nat \ {0}
      /\ DOMAIN Tail(m[from]) = 1 .. Len(m[from]) - 1 /\ DOMAIN m[from] = 1 .. Len(m[from])
      /\ \A k \in 1 .. Len(m[from]) - 1 : Tail(m[from])[k] = m[from][k + 1]
      /\ gid \in K
  BY <1>1, TailFacts
<1>3. /\ Append(m[to], gid) \in Seq(K) /\ len \in Nat
      /\ DOMAIN Append(m[to], gid) = 1 .. len + 1 /\ DOMAIN m[to] = 1 .. len
      /\ \A k \in 1 .. len : Append(m[to], gid)[k] = m[to][k]
      /\ Append(m[to], gid)[len + 1] = gid
  BY SMTT(30), <1>1, <1>2, AppendFacts
<1>4. /\ n[to] = Append(m[to], gid) /\ n[from] = Tail(m[from])
      /\ \A c \in Class \ {from, to} : n[c] = m[c]
  OBVIOUS
<1>5. In(m, from, 1, gid) /\ gid \in Gid
  BY SMTT(30), <1>2 DEF In
<1> HIDE DEF gid, len
<1>6. \A g \in Gid, a \in Nat : In(n, from, a, g) =>
          \E x \in Nat : x = a + 1 /\ x # 1 /\ In(m, from, x, g)
  <2> SUFFICES ASSUME NEW g \in Gid, NEW a \in Nat, In(n, from, a, g)
               PROVE  a + 1 \in Nat /\ a + 1 # 1 /\ In(m, from, a + 1, g)
    OBVIOUS
  <2> QED
    BY SMTT(30), <1>2, <1>4 DEF In
<1>7. \A g \in Gid, a \in Nat : In(n, to, a, g) <=> In(m, to, a, g) \/ (a = len + 1 /\ g = gid)
  <2> SUFFICES ASSUME NEW g \in Gid, NEW a \in Nat
               PROVE  In(n, to, a, g) <=> In(m, to, a, g) \/ (a = len + 1 /\ g = gid)
    OBVIOUS
  <2>1. CASE a = len + 1
    <3>1. a \in DOMAIN n[to] /\ n[to][a] = gid /\ a \notin DOMAIN m[to]
      BY SMTT(30), <1>3, <1>4, <2>1
    <3> QED
      BY <2>1, <3>1 DEF In
  <2>2. CASE a # len + 1
    <3>1. a \in DOMAIN n[to] <=> a \in DOMAIN m[to]
      BY SMTT(30), <1>3, <1>4, <2>2
    <3>2. a \in DOMAIN m[to] => n[to][a] = m[to][a]
      BY <1>3, <1>4
    <3> QED
      BY <2>2, <3>1, <3>2 DEF In
  <2> QED
    BY <2>1, <2>2
<1>8. \A g \in Gid, c \in Class \ {from, to}, a \in Nat : In(n, c, a, g) <=> In(m, c, a, g)
  BY <1>4 DEF In
<1>9. \A g \in Gid, a \in Nat : In(m, from, a, g) /\ a # 1 => \E x \in Nat : In(n, from, x, g)
  <2> SUFFICES ASSUME NEW g \in Gid, NEW a \in Nat, In(m, from, a, g), a # 1
               PROVE  a - 1 \in Nat /\ In(n, from, a - 1, g)
    OBVIOUS
  <2> QED
    BY SMTT(30), <1>2, <1>4 DEF In
<1>10. \A c \in Class, a \in Nat : In(m, c, a, gid) => c = from /\ a = 1
  BY <1>5 DEF Once
<1>11. \A c \in Class, a \in Nat : In(n, c, a, gid) => c = to /\ a = len + 1
  <2>1. \A a \in Nat : ~In(n, from, a, gid)
    <3> SUFFICES ASSUME NEW a \in Nat, In(n, from, a, gid) PROVE FALSE
      OBVIOUS
    <3>1. PICK x \in Nat : x # 1 /\ In(m, from, x, gid)
      BY <1>5, <1>6
    <3> QED
      BY <1>10, <3>1
  <2>2. \A a \in Nat : In(n, to, a, gid) => a = len + 1
    BY <1>5, <1>7, <1>10
  <2>3. \A c \in Class \ {from, to}, a \in Nat : ~In(n, c, a, gid)
    BY <1>5, <1>8, <1>10
  <2> QED
    BY <2>1, <2>2, <2>3
<1>12. \E a \in Nat : In(n, to, a, gid)
  <2>1. PICK a \in Nat : a = len + 1
    BY SMTT(30), <1>3
  <2> QED
    BY <1>5, <1>7, <2>1
<1>13. ASSUME NEW g \in Gid, g # gid, NEW c \in Class
       PROVE  (\E a \in Nat : In(n, c, a, g)) <=> (\E a \in Nat : In(m, c, a, g))
  <2>1. CASE c = from
    <3>1. ASSUME NEW a \in Nat, In(m, from, a, g) PROVE a # 1
      BY <3>1, <1>13 DEF In, gid
    <3> QED
      BY <2>1, <3>1, <1>6, <1>9
  <2>2. CASE c # from
    BY <2>2, <1>7, <1>8, <1>13
  <2> QED
    BY <2>1, <2>2
<1>14. Once(n)
  <2> SUFFICES ASSUME NEW g \in Gid, NEW c \in Class, NEW d \in Class, NEW a \in Nat, NEW b \in Nat,
                      In(n, c, a, g), In(n, d, b, g)
               PROVE  c = d /\ a = b
    BY DEF Once
  <2>1. CASE g = gid
    BY <2>1, <1>11
  <2>2. CASE g # gid
    <3>1. PICK x \in Nat : In(m, c, x, g) /\ x = IF c = from THEN a + 1 ELSE a
      BY <2>2, <1>6, <1>7, <1>8
    <3>2. PICK y \in Nat : In(m, d, y, g) /\ y = IF d = from THEN b + 1 ELSE b
      BY <2>2, <1>6, <1>7, <1>8
    <3>3. c = d /\ x = y
      BY <3>1, <3>2 DEF Once
    <3> QED
      BY SMTT(30), <3>1, <3>2, <3>3
  <2> QED
    BY <2>1, <2>2
<1>15. n \in [Class -> Seq(K)]
  BY <1>2, <1>3, <1>4 DEF gid
<1> QED
  BY <1>2, <1>4, <1>5, <1>11, <1>12, <1>13, <1>14, <1>15 DEF n, gid

\* The first group of a list is dropped.
LEMMA DropFacts ==
  ASSUME NEW K \in SUBSET Gid, NEW m \in [Class -> Seq(K)], Once(m),
         NEW from \in Class, m[from] # <<>>
  PROVE  /\ Drop(m, from) \in [Class -> Seq(K)] /\ Once(Drop(m, from))
         /\ m[from][1] \in K /\ In(m, from, 1, m[from][1])
         /\ \A c \in Class, a \in Nat : ~In(Drop(m, from), c, a, m[from][1])
         /\ \A g \in Gid \ {m[from][1]}, c \in Class :
               (\E a \in Nat : In(Drop(m, from), c, a, g)) <=> (\E a \in Nat : In(m, c, a, g))
         /\ \A c \in Class \ {from} : Drop(m, from)[c] = m[c]
<1> DEFINE n == Drop(m, from)
<1> n = [m EXCEPT ![from] = Tail(m[from])]
  BY DEF Drop
<1> HIDE DEF n
<1> DEFINE gid == m[from][1]
<1>1. m[from] \in Seq(K)
  OBVIOUS
<1>2. /\ Tail(m[from]) \in Seq(K) /\ Len(m[from]) \in Nat \ {0}
      /\ DOMAIN Tail(m[from]) = 1 .. Len(m[from]) - 1 /\ DOMAIN m[from] = 1 .. Len(m[from])
      /\ \A k \in 1 .. Len(m[from]) - 1 : Tail(m[from])[k] = m[from][k + 1]
      /\ gid \in K
  BY <1>1, TailFacts
<1>3. n[from] = Tail(m[from]) /\ \A c \in Class \ {from} : n[c] = m[c]
  OBVIOUS
<1>4. In(m, from, 1, gid) /\ gid \in Gid
  BY SMTT(30), <1>2 DEF In
<1> HIDE DEF gid
<1>5. \A g \in Gid, a \in Nat : In(n, from, a, g) =>
          \E x \in Nat : x = a + 1 /\ x # 1 /\ In(m, from, x, g)
  <2> SUFFICES ASSUME NEW g \in Gid, NEW a \in Nat, In(n, from, a, g)
               PROVE  a + 1 \in Nat /\ a + 1 # 1 /\ In(m, from, a + 1, g)
    OBVIOUS
  <2> QED
    BY SMTT(30), <1>2, <1>3 DEF In
<1>6. \A g \in Gid, c \in Class \ {from}, a \in Nat : In(n, c, a, g) <=> In(m, c, a, g)
  BY <1>3 DEF In
<1>7. \A g \in Gid, a \in Nat : In(m, from, a, g) /\ a # 1 => \E x \in Nat : In(n, from, x, g)
  <2> SUFFICES ASSUME NEW g \in Gid, NEW a \in Nat, In(m, from, a, g), a # 1
               PROVE  a - 1 \in Nat /\ In(n, from, a - 1, g)
    OBVIOUS
  <2> QED
    BY SMTT(30), <1>2, <1>3 DEF In
<1>8. \A c \in Class, a \in Nat : In(m, c, a, gid) => c = from /\ a = 1
  BY <1>4 DEF Once
<1>9. \A c \in Class, a \in Nat : ~In(n, c, a, gid)
  BY <1>4, <1>5, <1>6, <1>8
<1>10. ASSUME NEW g \in Gid, g # gid, NEW c \in Class
       PROVE  (\E a \in Nat : In(n, c, a, g)) <=> (\E a \in Nat : In(m, c, a, g))
  <2>1. CASE c = from
    <3>1. ASSUME NEW a \in Nat, In(m, from, a, g) PROVE a # 1
      BY <3>1, <1>10 DEF In, gid
    <3> QED
      BY <2>1, <3>1, <1>5, <1>7
  <2>2. CASE c # from
    BY <2>2, <1>6, <1>10
  <2> QED
    BY <2>1, <2>2
<1>11. Once(n)
  <2> SUFFICES ASSUME NEW g \in Gid, NEW c \in Class, NEW d \in Class, NEW a \in Nat, NEW b \in Nat,
                      In(n, c, a, g), In(n, d, b, g)
               PROVE  c = d /\ a = b
    BY DEF Once
  <2>1. PICK x \in Nat : In(m, c, x, g) /\ x = IF c = from THEN a + 1 ELSE a
    BY <1>5, <1>6
  <2>2. PICK y \in Nat : In(m, d, y, g) /\ y = IF d = from THEN b + 1 ELSE b
    BY <1>5, <1>6
  <2>3. c = d /\ x = y
    BY <2>1, <2>2 DEF Once
  <2> QED
    BY SMTT(30), <2>1, <2>2, <2>3
<1>12. n \in [Class -> Seq(K)]
  BY <1>2, <1>3
<1> QED
  BY <1>2, <1>3, <1>4, <1>9, <1>10, <1>11, <1>12 DEF n, gid

\* Move takes a shard out of its old group's slice and keeps the others.
LEMMA WithoutFacts ==
  ASSUME NEW S, NEW q \in Seq(S), \A a, b \in DOMAIN q : q[a] = q[b] => a = b,
         NEW x
  PROVE  /\ Without(q, x) \in Seq(S)
         /\ \A k \in DOMAIN Without(q, x) : Without(q, x)[k] # x /\ \E l \in DOMAIN q : q[l] = Without(q, x)[k]
         /\ \A a, b \in DOMAIN Without(q, x) : Without(q, x)[a] = Without(q, x)[b] => a = b
         /\ \A l \in DOMAIN q : q[l] # x => \E k \in DOMAIN Without(q, x) : Without(q, x)[k] = q[l]
<1> DEFINE w == Without(q, x)
<1> w = Without(q, x)
  OBVIOUS
<1> HIDE DEF w
<1>0. Len(q) \in Nat /\ DOMAIN q = 1 .. Len(q) /\ \A k \in 1 .. Len(q) : q[k] \in S
  BY SMTT(30)
<1>1. CASE \E k \in DOMAIN q : q[k] = x
  <2>0. PICK j \in DOMAIN q : q[j] = x
    BY <1>1
  <2>1. q[j] = x /\ \A l \in 1 .. j - 1 : q[l] # x
    BY SMTT(30), <1>0, <2>0
  <2> DEFINE P(k) == q[k] = x /\ \A l \in 1 .. k - 1 : q[l] # x
             c == CHOOSE k \in DOMAIN q : P(k)
  <2>2. c \in DOMAIN q /\ P(c)
    <3>1. \E k \in DOMAIN q : P(k)
      BY <2>0, <2>1
    <3> HIDE DEF P
    <3> QED
      BY <3>1
  <2>3. c = j
    BY <2>0, <2>2
  <2>4. w = SubSeq(q, 1, j - 1) \o SubSeq(q, j + 1, Len(q))
    BY <1>1, <2>3 DEF Without
  <2> HIDE DEF c, P
  <2> DEFINE u == SubSeq(q, 1, j - 1)
             v == SubSeq(q, j + 1, Len(q))
  <2>5. j \in 1 .. Len(q) /\ j \in Nat
    BY SMTT(30), <1>0, <2>0
  <2>6. u \in Seq(S) /\ Len(u) = j - 1 /\ \A k \in 1 .. j - 1 : u[k] = q[k]
    <3>1. \A k \in 1 .. j - 1 : q[k] \in S
      BY SMTT(30), <1>0, <2>5
    <3>2. u = [k \in 1 .. j - 1 |-> q[k]]
      BY SMTT(30), <2>5
    <3> QED
      BY SMTT(30), <2>5, <3>1, <3>2
  <2>7. v \in Seq(S) /\ Len(v) = Len(q) - j /\ \A k \in 1 .. Len(q) - j : v[k] = q[k + j]
    BY SMTT(30), <1>0, <2>5
  <2> HIDE DEF u, v
  <2>8. /\ w \in Seq(S) /\ Len(w) = Len(q) - 1 /\ DOMAIN w = 1 .. Len(q) - 1
        /\ \A k \in 1 .. Len(q) - 1 : w[k] = IF k < j THEN q[k] ELSE q[k + 1]
    <3>1. w = u \o v
      BY <2>4 DEF u, v
    <3>2. w \in Seq(S) /\ Len(w) = Len(u) + Len(v)
      BY SMTT(30), <3>1, <2>6, <2>7
    <3>3. Len(w) = Len(q) - 1
      BY SMTT(30), <3>2, <2>6, <2>7, <1>0, <2>5
    <3>4. \A k \in 1 .. Len(u) + Len(v) : w[k] = IF k <= Len(u) THEN u[k] ELSE v[k - Len(u)]
      <4>0. u \in Seq(S) /\ v \in Seq(S)
        BY <2>6, <2>7
      <4>1. \A k \in 1 .. Len(u) + Len(v) :
              (u \o v)[k] = IF k <= Len(u) THEN u[k] ELSE v[k - Len(u)]
        BY SMTT(30), <4>0
      <4> QED
        BY <3>1, <4>1
    <3>5. ASSUME NEW k \in 1 .. Len(q) - 1 PROVE w[k] = IF k < j THEN q[k] ELSE q[k + 1]
      <4>1. w[k] = IF k <= j - 1 THEN u[k] ELSE v[k - (j - 1)]
        BY SMTT(30), <3>4, <2>6, <2>7, <1>0, <2>5
      <4>2. CASE k < j
        BY SMTT(30), <4>1, <4>2, <2>6, <2>5
      <4>3. CASE ~(k < j)
        <5>1. k - (j - 1) \in 1 .. Len(q) - j /\ (k - (j - 1)) + j = k + 1
          BY SMTT(30), <4>3, <1>0, <2>5
        <5>2. v[k - (j - 1)] = q[k + 1]
          BY <5>1, <2>7
        <5> QED
          BY SMTT(30), <4>1, <4>3, <5>2, <2>5
      <4> QED
        BY <4>2, <4>3
    <3> QED
      BY SMTT(30), <3>2, <3>3, <3>5
  <2>9. ASSUME NEW k \in DOMAIN w PROVE w[k] # x /\ \E l \in DOMAIN q : q[l] = w[k]
    <3>1. PICK l \in DOMAIN q : w[k] = q[l] /\ l # j
      <4>1. k \in 1 .. Len(q) - 1 /\ w[k] = IF k < j THEN q[k] ELSE q[k + 1]
        BY <2>8
      <4>2. CASE k < j
        BY SMTT(30), <4>1, <4>2, <2>5, <1>0
      <4>3. CASE ~(k < j)
        <5>1. k + 1 \in DOMAIN q /\ k + 1 # j /\ w[k] = q[k + 1]
          BY SMTT(30), <4>1, <4>3, <2>5, <1>0
        <5> QED
          BY <5>1
      <4> QED
        BY <4>2, <4>3
    <3> QED
      BY <3>1, <2>0
  <2>10. ASSUME NEW a \in DOMAIN w, NEW b \in DOMAIN w, w[a] = w[b] PROVE a = b
    <3>1. PICK l \in DOMAIN q : w[a] = q[l] /\ l = IF a < j THEN a ELSE a + 1
      BY SMTT(30), <2>8, <2>5, <1>0
    <3>2. PICK n \in DOMAIN q : w[b] = q[n] /\ n = IF b < j THEN b ELSE b + 1
      BY SMTT(30), <2>8, <2>5, <1>0
    <3>3. l = n
      BY <3>1, <3>2, <2>10
    <3> QED
      BY SMTT(30), <3>1, <3>2, <3>3, <2>5, <2>8, <1>0
  <2>11. ASSUME NEW l \in DOMAIN q, q[l] # x PROVE \E k \in DOMAIN w : w[k] = q[l]
    <3>1. l # j
      BY <2>11, <2>0
    <3>2. CASE l < j
      BY SMTT(30), <3>2, <2>8, <2>5, <1>0
    <3>3. CASE l > j
      <4>1. l - 1 \in DOMAIN w /\ ~(l - 1 < j) /\ (l - 1) + 1 = l
        BY SMTT(30), <3>3, <2>8, <2>5, <1>0
      <4>2. w[l - 1] = q[l]
        BY <4>1, <2>8
      <4> QED
        BY <4>1, <4>2
    <3> QED
      BY SMTT(30), <3>1, <3>2, <3>3, <2>5, <1>0
  <2> QED
    BY <2>8, <2>9, <2>10, <2>11
<1>2. CASE ~\E k \in DOMAIN q : q[k] = x
  BY <1>2 DEF Without
<1> QED
  BY <1>1, <1>2 DEF w

-----------------------------------------------------------------------------
(* The inductive invariant.                                                *)

shards == getLastCfg.shards

\* A group of list c has as many shards as the list says
Fits(n, c) ==
  /\ c = "tless" => n < share
  /\ c = "tok"   => n = share
  /\ c = "tplus" => n = share + 1
  /\ c = "tmore" => n > share + 1

\* The shards waiting for a group are distinct, and no group holds one.
PendingFree ==
  /\ \A p, q \in DOMAIN shardToAssign : shardToAssign[p] = shardToAssign[q] => p = q
  /\ \A p \in DOMAIN shardToAssign, g \in Gid, k \in Nat : ~Held(g2shard, g, k, shardToAssign[p])

\* A shard in a group's slice is assigned to the group.
Agree == \A s \in Shard, g \in Gid, k \in Nat : Held(g2shard, g, k, s) => shards[s] = g

\* No shard is lost: it is in a slice, or waits, or belongs to nobody.
Cover ==
  \A s \in Shard :
      \/ \E g \in Gid, k \in Nat : Held(g2shard, g, k, s)
      \/ \E p \in DOMAIN shardToAssign : shardToAssign[p] = s
      \/ ~assigning /\ shards[s] = NoGroup

\* A group is in the list its number of shards calls for.
Sorted == \A g \in Gid, c \in Class, a \in Nat : In(groupMap, c, a, g) => Fits(Len(g2shard[g]), c)

\* While shards are cut or wait, every group is listed; the third loop lets go
\* of groups that have their share.
Listed ==
  \A g \in known :
      \/ \E c \in Class, a \in Nat : In(groupMap, c, a, g)
      \/ Len(g2shard[g]) = share /\ groupMap["tmore"] = <<>> /\ shardToAssign = <<>>

IInv ==
  /\ TypeOK /\ Disjoint(g2shard) /\ PendingFree /\ Agree /\ Cover
  /\ Once(groupMap) /\ Sorted
  /\ assigning => Listed /\ known # {}
  /\ ~assigning => groupMap = NoLists /\ shardToAssign = <<>>

\* The number of groups and the share are natural numbers with
\* groups * share <= NShards < groups * (share + 1).
LEMMA ShareFacts ==
  ASSUME TypeOK
  PROVE  /\ IsFiniteSet(known) /\ Cardinality(known) \in Nat
         /\ known # {} => /\ Cardinality(known) \in Nat \ {0} /\ share \in Nat
                         /\ Cardinality(known) * share <= NShards
                         /\ NShards < Cardinality(known) * (share + 1)
<1>1. IsFiniteSet(known)
  BY GidAssumption, FS_Subset DEF TypeOK
<1>2. Cardinality(known) \in Nat
  BY <1>1, FS_CardinalityType
<1>3. known # {} => Cardinality(known) # 0
  BY <1>1, FS_EmptySet
<1> QED
  BY <1>1, <1>2, <1>3, ShareBounds DEF share

\* Only known groups hold shards, and each place is in range.
LEMMA HolderFacts ==
  ASSUME TypeOK, NEW g \in Gid, NEW k \in Nat, NEW s \in Shard, Held(g2shard, g, k, s)
  PROVE  g \in known /\ k \in 1 .. Len(g2shard[g])
<1>1. g2shard[g] \in Seq(Shard) /\ k \in DOMAIN g2shard[g]
  BY DEF TypeOK, Held
<1>2. g2shard[g] # <<>>
  BY SMTT(30), <1>1
<1> QED
  BY SMTT(30), <1>1, <1>2 DEF TypeOK

\* groupMap[tok][0] is there when navieAssign has a shard left and no group
\* with too few: otherwise every group would have one more than its share.
LEMMA TokThere ==
  ASSUME IInv, assigning, groupMap["tmore"] = <<>>, shardToAssign # <<>>, groupMap["tless"] = <<>>
  PROVE  groupMap["tok"] # <<>>
<1> SUFFICES ASSUME groupMap["tok"] = <<>> PROVE FALSE
  OBVIOUS
<1>0. TypeOK /\ known # {} /\ Listed /\ Sorted /\ Disjoint(g2shard)
  BY DEF IInv
<1>1. /\ IsFiniteSet(known) /\ Cardinality(known) \in Nat \ {0} /\ share \in Nat
      /\ NShards < Cardinality(known) * (share + 1)
  BY <1>0, ShareFacts
<1>2. ASSUME NEW g \in known PROVE Len(g2shard[g]) = share + 1
  <2>1. PICK c \in Class, a \in Nat : In(groupMap, c, a, g)
    BY <1>0 DEF Listed
  <2>2. c = "tplus"
    BY SMTT(30), <2>1 DEF In, Class
  <2>3. g \in Gid
    BY <1>0 DEF TypeOK
  <2> QED
    BY <1>0, <2>1, <2>2, <2>3 DEF Sorted, Fits
<1> DEFINE S == known \X (1 .. share + 1)
           F == [x \in S |-> g2shard[x[1]][x[2]]]
<1>3. IsFiniteSet(S) /\ Cardinality(S) = Cardinality(known) * (share + 1)
  <2>1. IsFiniteSet(1 .. share + 1) /\ Cardinality(1 .. share + 1) = share + 1
    <3>1. 1 \in Int /\ share + 1 \in Int /\ ~(1 > share + 1)
      BY SMTT(30), <1>1
    <3>2. IsFiniteSet(1 .. share + 1) /\ Cardinality(1 .. share + 1) = (share + 1) - 1 + 1
      BY ONLY <3>1, FS_Interval
    <3> QED
      BY SMTT(30), <3>2, <1>1
  <2> QED
    BY <1>1, <2>1, FS_Product
<1>4. F \in [S -> Shard]
  <2> SUFFICES ASSUME NEW g \in known, NEW k \in 1 .. share + 1 PROVE g2shard[g][k] \in Shard
    OBVIOUS
  <2>1. g2shard[g] \in Seq(Shard) /\ Len(g2shard[g]) = share + 1
    BY <1>0, <1>2 DEF TypeOK
  <2> QED
    BY SMTT(30), <2>1
<1>5. \E x, y \in S : x # y /\ F[x] = F[y]
  <2>1. IsFiniteSet(Shard) /\ Cardinality(Shard) = NShards
    BY ShardCount
  <2>2. Cardinality(Shard) < Cardinality(S)
    BY <1>1, <1>3, <2>1
  <2> HIDE DEF S, F
  <2> QED
    BY SMTT(30), <1>3, <1>4, <2>1, <2>2, FS_PigeonHole
<1>6. PICK g \in known, h \in known, k \in 1 .. share + 1, l \in 1 .. share + 1 :
         <<g, k>> # <<h, l>> /\ g2shard[g][k] = g2shard[h][l]
  BY SMTT(30), <1>5
<1>7. g \in Gid /\ h \in Gid /\ k \in Nat /\ l \in Nat
  BY SMTT(30), <1>0, <1>1 DEF TypeOK
<1>8. g2shard[g] \in Seq(Shard) /\ g2shard[h] \in Seq(Shard)
  BY <1>0, <1>7 DEF TypeOK
<1>9. k \in DOMAIN g2shard[g] /\ l \in DOMAIN g2shard[h] /\ g2shard[g][k] \in Shard
  BY SMTT(30), <1>2, <1>8
<1>10. Held(g2shard, g, k, g2shard[g][k]) /\ Held(g2shard, h, l, g2shard[g][k])
  BY <1>6, <1>9 DEF Held
<1>11. g = h /\ k = l
  BY <1>0, <1>7, <1>9, <1>10 DEF Disjoint
<1> QED
  BY <1>6, <1>11

\* groupMap[tplus][0] is there when no shard waits and some group has too few:
\* otherwise the groups would hold fewer shards than there are.
LEMMA PlusThere ==
  ASSUME IInv, assigning, groupMap["tmore"] = <<>>, shardToAssign = <<>>, groupMap["tless"] # <<>>
  PROVE  groupMap["tplus"] # <<>>
<1> SUFFICES ASSUME groupMap["tplus"] = <<>> PROVE FALSE
  OBVIOUS
<1>0. TypeOK /\ known # {} /\ Listed /\ Sorted /\ Cover
  BY DEF IInv
<1>1. /\ IsFiniteSet(known) /\ Cardinality(known) \in Nat \ {0} /\ share \in Nat
      /\ Cardinality(known) * share <= NShards
  BY <1>0, ShareFacts
<1> DEFINE to == groupMap["tless"][1]
<1>2. to \in known /\ In(groupMap, "tless", 1, to)
  <2>1. groupMap["tless"] \in Seq(known) /\ groupMap["tless"] # <<>>
    BY <1>0 DEF TypeOK, Class
  <2> QED
    BY SMTT(30), <2>1 DEF In
<1> HIDE DEF to
<1>3. ASSUME NEW g \in known PROVE Len(g2shard[g]) <= share
  <2>1. g \in Gid /\ g2shard[g] \in Seq(Shard)
    BY <1>0 DEF TypeOK
  <2>2. CASE \E c \in Class, a \in Nat : In(groupMap, c, a, g)
    <3>1. PICK c \in Class, a \in Nat : In(groupMap, c, a, g)
      BY <2>2
    <3>2. c \in {"tless", "tok"}
      BY SMTT(30), <3>1 DEF In, Class
    <3>3. Fits(Len(g2shard[g]), c)
      BY <1>0, <2>1, <3>1 DEF Sorted
    <3> QED
      BY SMTT(30), <1>1, <2>1, <3>2, <3>3 DEF Fits
  <2>3. CASE Len(g2shard[g]) = share
    BY SMTT(30), <1>1, <2>3
  <2> QED
    BY <1>0, <2>2, <2>3 DEF Listed
<1>4. Len(g2shard[to]) < share /\ to \in Gid
  <2>1. to \in Gid
    BY <1>0, <1>2 DEF TypeOK
  <2>2. "tless" \in Class /\ 1 \in Nat
    BY DEF Class
  <2>3. Fits(Len(g2shard[to]), "tless")
    BY <1>0, <1>2, <2>1, <2>2 DEF Sorted
  <2> QED
    BY <2>1, <2>3 DEF Fits
<1>5. share \in 1 .. share /\ Len(g2shard[to]) \in Nat
  <2>1. g2shard[to] \in Seq(Shard)
    BY <1>0, <1>4 DEF TypeOK
  <2> QED
    BY SMTT(30), <1>1, <1>4, <2>1
<1> DEFINE S == known \X (1 .. share)
           T == S \ {<<to, share>>}
<1>6. IsFiniteSet(S) /\ Cardinality(S) = Cardinality(known) * share
  <2>1. IsFiniteSet(1 .. share) /\ Cardinality(1 .. share) = share
    <3>1. 1 \in Int /\ share \in Int /\ ~(1 > share)
      BY SMTT(30), <1>1, <1>5
    <3>2. IsFiniteSet(1 .. share) /\ Cardinality(1 .. share) = share - 1 + 1
      BY ONLY <3>1, FS_Interval
    <3> QED
      BY SMTT(30), <3>2, <1>1
  <2> QED
    BY <1>1, <2>1, FS_Product
<1>7. IsFiniteSet(T) /\ Cardinality(T) = Cardinality(known) * share - 1
  <2>1. <<to, share>> \in S
    BY <1>2, <1>5
  <2> HIDE DEF S
  <2> QED
    BY <1>6, <2>1, FS_RemoveElement
<1>8. ASSUME NEW s \in Shard PROVE \E x \in T : Held(g2shard, x[1], x[2], s)
  <2>1. PICK g \in Gid, k \in Nat : Held(g2shard, g, k, s)
    BY SMTT(30), <1>0 DEF Cover
  <2>2. g \in known /\ k \in 1 .. Len(g2shard[g])
    BY <1>0, <2>1, HolderFacts
  <2>3. k \in 1 .. share
    <3>1. Len(g2shard[g]) <= share /\ g2shard[g] \in Seq(Shard)
      BY <1>0, <1>3, <2>2 DEF TypeOK
    <3> QED
      BY SMTT(30), <1>1, <2>2, <3>1
  <2>4. <<g, k>> # <<to, share>>
    BY SMTT(30), <1>1, <1>4, <1>5, <2>2
  <2>5. <<g, k>> \in T /\ Held(g2shard, <<g, k>>[1], <<g, k>>[2], s)
    BY <2>1, <2>2, <2>3, <2>4
  <2> QED
    BY <2>5
<1> DEFINE F == [s \in Shard |-> CHOOSE x \in T : Held(g2shard, x[1], x[2], s)]
<1>9. \A s \in Shard : F[s] \in T /\ Held(g2shard, F[s][1], F[s][2], s)
  <2> HIDE DEF T
  <2> QED
    BY <1>8
<1>10. \E s, t \in Shard : s # t /\ F[s] = F[t]
  <2>1. IsFiniteSet(Shard) /\ Cardinality(Shard) = NShards
    BY ShardCount
  <2>2. Cardinality(T) < Cardinality(Shard)
    <3> HIDE DEF T
    <3> QED BY SMTT(30), <1>1, <1>7, <2>1, NShardsAssumption
  <2>3. F \in [Shard -> T]
    BY <1>9
  <2> HIDE DEF T, F
  <2> QED
    BY SMTT(30), <1>7, <2>1, <2>2, <2>3, FS_PigeonHole
<1> HIDE DEF F, T
<1> QED
  BY <1>9, <1>10 DEF Held

\* The inductive invariant implies that no index is out of range.
LEMMA IInvNoPanic == IInv => NoIndexPanic
<1> SUFFICES ASSUME IInv, assigning, groupMap["tmore"] = <<>> PROVE
      /\ shardToAssign # <<>> /\ groupMap["tless"] = <<>> => groupMap["tok"] # <<>>
      /\ shardToAssign = <<>> /\ groupMap["tless"] # <<>> =>
            groupMap["tplus"] # <<>> /\ g2shard[groupMap["tplus"][1]] # <<>>
  BY DEF NoIndexPanic
<1>1. shardToAssign # <<>> /\ groupMap["tless"] = <<>> => groupMap["tok"] # <<>>
  BY TokThere
<1>2. ASSUME shardToAssign = <<>>, groupMap["tless"] # <<>>
      PROVE  groupMap["tplus"] # <<>> /\ g2shard[groupMap["tplus"][1]] # <<>>
  <2> DEFINE from == groupMap["tplus"][1]
  <2>1. groupMap["tplus"] # <<>>
    BY <1>2, PlusThere
  <2>2. TypeOK /\ known # {} /\ Sorted
    BY DEF IInv
  <2>3. groupMap["tplus"] \in Seq(known)
    BY <2>2 DEF TypeOK, Class
  <2>4. from \in known /\ In(groupMap, "tplus", 1, from)
    BY SMTT(30), <2>1, <2>3 DEF In
  <2> HIDE DEF from
  <2>5. Fits(Len(g2shard[from]), "tplus")
    <3>1. from \in Gid /\ "tplus" \in Class /\ 1 \in Nat
      BY <2>2, <2>4 DEF TypeOK, Class
    <3> QED
      BY <2>2, <2>4, <3>1 DEF Sorted
  <2>6. share \in Nat
    BY <2>2, ShareFacts
  <2>7. Len(g2shard[from]) # 0
    BY SMTT(30), <2>5, <2>6 DEF Fits
  <2> QED
    BY SMTT(30), <2>1, <2>7 DEF from
<1> QED
  BY <1>1, <1>2

-----------------------------------------------------------------------------
(* Each action keeps the invariant.                                        *)

\* config.Shards[s] = gid, through the pointer to the newest configuration.
LEMMA AssignFacts ==
  ASSUME TypeOK, NEW s \in Shard, NEW gid \in Gid, Assign(s, gid)
  PROVE  /\ configs' \in Seq(Config) /\ configs' # <<>>
         /\ shards \in [Shard -> Owner] /\ shards' = [shards EXCEPT ![s] = gid]
<1> DEFINE n == Len(configs)
<1>1. configs \in Seq(Config) /\ n \in Nat /\ n \in DOMAIN configs /\ configs[n] \in Config
  BY SMTT(30) DEF TypeOK
<1>2. configs[n].shards \in [Shard -> Owner] /\ configs[n].groups \in SUBSET Gid
  BY <1>1 DEF Config
<1> DEFINE c == [configs[n] EXCEPT !.shards[s] = gid]
<1>3. c \in Config /\ c.shards = [configs[n].shards EXCEPT ![s] = gid]
  BY <1>1, <1>2 DEF Config, Owner
<1>4. configs' = [configs EXCEPT ![n] = c]
  BY DEF Assign
<1> HIDE DEF c
<1>5. configs' \in Seq(Config) /\ Len(configs') = n /\ configs'[n] = c
  BY SMTT(30), <1>1, <1>3, <1>4
<1>6. configs' # <<>>
  BY SMTT(30), <1>1, <1>5
<1> QED
  BY <1>2, <1>3, <1>5, <1>6 DEF shards, getLastCfg

\* addConfig followed by changes to the new configuration.
LEMMA AddFacts ==
  ASSUME TypeOK, NEW c \in Config, AddConfig(c)
  PROVE  /\ configs' \in Seq(Config) /\ configs' # <<>> /\ getLastCfg' = c
         /\ getLastCfg \in Config /\ shards \in [Shard -> Owner]
<1>1. configs \in Seq(Config) /\ Len(configs) \in Nat \ {0} /\ configs' = Append(configs, c)
  BY SMTT(30) DEF TypeOK, AddConfig
<1>2. configs' \in Seq(Config) /\ Len(configs') = Len(configs) + 1 /\ configs'[Len(configs) + 1] = c
  BY SMTT(30), <1>1
<1>3. configs' # <<>>
  BY SMTT(30), <1>1, <1>2
<1>4. configs[Len(configs)] \in Config
  BY SMTT(30), <1>1
<1> QED
  BY <1>2, <1>3, <1>4 DEF getLastCfg, shards, Config

\* Group gid, now with n shards, is listed as it should be, and the other
\* groups are where they were
Moved(gid, n) ==
  /\ groupMap' \in [Class -> Seq(known)] /\ Once(groupMap')
  /\ \A c \in Class, a \in Nat : In(groupMap', c, a, gid) => Fits(n, c)
  /\ \E c \in Class, a \in Nat : In(groupMap', c, a, gid)
  /\ \A g \in Gid \ {gid}, c \in Class :
        (\E a \in Nat : In(groupMap', c, a, g)) <=> (\E a \in Nat : In(groupMap, c, a, g))

\* The first group of a list has gained or lost a shard and goes to the list
\* it belongs to now.
LEMMA RelistMoved ==
  ASSUME TypeOK, Once(groupMap), NEW from \in Class, NEW to \in Class, from # to,
         groupMap[from] # <<>>, groupMap' = Relist(groupMap, from, to), NEW n, Fits(n, to)
  PROVE  Moved(groupMap[from][1], n)
<1> DEFINE gid == groupMap[from][1]
<1>1. groupMap \in [Class -> Seq(known)] /\ known \in SUBSET Gid
  BY DEF TypeOK
<1>2. groupMap' \in [Class -> Seq(known)] /\ Once(groupMap')
  BY <1>1, RelistFacts
<1>3. /\ \A c \in Class, a \in Nat : In(groupMap', c, a, gid) => c = to
      /\ \E a \in Nat : In(groupMap', to, a, gid)
  BY <1>1, RelistFacts
<1>4. \A g \in Gid \ {gid}, c \in Class :
        (\E a \in Nat : In(groupMap', c, a, g)) <=> (\E a \in Nat : In(groupMap, c, a, g))
  BY <1>1, RelistFacts
<1> HIDE DEF gid
<1>5. Moved(gid, n)
  BY <1>2, <1>3, <1>4 DEF Moved
<1> QED
  BY <1>5 DEF gid

\* It may also stay where it is.
LEMMA StayMoved ==
  ASSUME TypeOK, Once(groupMap), NEW from \in Class, groupMap[from] # <<>>,
         groupMap' = groupMap, NEW n, Fits(n, from)
  PROVE  Moved(groupMap[from][1], n)
<1> DEFINE gid == groupMap[from][1]
<1>1. groupMap \in [Class -> Seq(known)] /\ known \in SUBSET Gid
  BY DEF TypeOK
<1>2. groupMap[from] \in Seq(known)
  BY <1>1
<1>3. In(groupMap, from, 1, gid) /\ gid \in Gid /\ 1 \in Nat
  BY SMTT(30), <1>1, <1>2 DEF In
<1> HIDE DEF gid
<1>4. \A c \in Class, a \in Nat : In(groupMap, c, a, gid) => c = from
  BY <1>3 DEF Once
<1>5. Moved(gid, n)
  BY <1>1, <1>3, <1>4 DEF Moved
<1> QED
  BY <1>5 DEF gid

\* The first loop keeps the invariant.
LEMMA InvCutMore == ASSUME IInv, CutMore PROVE IInv'
<1> DEFINE gid == groupMap["tmore"][1]
           x == Last(g2shard[gid])
           len == Len(g2shard[gid])
<1>0. /\ TypeOK /\ Disjoint(g2shard) /\ PendingFree /\ Agree /\ Cover /\ Once(groupMap) /\ Sorted
      /\ assigning /\ Listed /\ known # {} /\ groupMap["tmore"] # <<>> /\ share \in Nat
  BY ShareFacts DEF IInv, CutMore
<1>1. /\ shardToAssign' = Append(shardToAssign, x)
      /\ g2shard' = [g2shard EXCEPT ![gid] = Front(g2shard[gid])]
      /\ groupMap' = IF Len(Front(g2shard[gid])) = share + 1
                     THEN [groupMap EXCEPT !["tplus"] = Append(groupMap["tplus"], gid),
                                           !["tmore"] = Tail(groupMap["tmore"])]
                     ELSE groupMap
      /\ configs' = configs /\ known' = known /\ assigning' = assigning
  BY DEF CutMore
<1>2. /\ groupMap \in [Class -> Seq(known)] /\ known \in SUBSET Gid
      /\ {"tless", "tok", "tplus", "tmore"} = Class /\ g2shard \in [Gid -> Seq(Shard)]
      /\ shardToAssign \in Seq(Shard)
  BY <1>0 DEF TypeOK, Class
<1>3. gid \in known /\ gid \in Gid /\ In(groupMap, "tmore", 1, gid)
  <2>1. groupMap["tmore"] \in Seq(known)
    BY <1>2
  <2> QED
    BY SMTT(30), <1>0, <1>2, <2>1 DEF In
<1> HIDE DEF gid
<1>4. len \in Nat /\ len > share + 1
  <2>1. Fits(len, "tmore")
    BY <1>0, <1>2, <1>3 DEF Sorted
  <2> QED
    BY SMTT(30), <1>2, <1>3, <2>1 DEF Fits
<1>5. g2shard[gid] # <<>>
  BY SMTT(30), <1>0, <1>4
<1>6. /\ g2shard' \in [Gid -> Seq(Shard)]
      /\ \A g \in Gid, k \in Nat, s \in Shard :
            Held(g2shard', g, k, s) <=> Held(g2shard, g, k, s) /\ ~(g = gid /\ k = len)
      /\ Len(g2shard'[gid]) = len - 1 /\ \A g \in Gid \ {gid} : g2shard'[g] = g2shard[g]
      /\ x \in Shard /\ Held(g2shard, gid, len, x)
  <2>1. g2shard' = Cut(g2shard, gid)
    BY <1>1 DEF Cut
  <2>2. g2shard \in [Gid -> Seq(Shard)] /\ gid \in Gid /\ g2shard[gid] # <<>>
    BY <1>2, <1>3, <1>5
  <2>3. /\ g2shard' \in [Gid -> Seq(Shard)]
        /\ \A g \in Gid, k \in Nat, s \in Shard :
              Held(g2shard', g, k, s) <=> Held(g2shard, g, k, s) /\ ~(g = gid /\ k = len)
    BY SMTT(30), <2>1, <2>2, CutFacts
  <2>4. Len(g2shard'[gid]) = len - 1 /\ \A g \in Gid \ {gid} : g2shard'[g] = g2shard[g]
    BY <2>1, <2>2, CutFacts
  <2>5. x \in Shard /\ Held(g2shard, gid, len, x)
    BY <2>2, CutFacts
  <2> QED
    BY <2>3, <2>4, <2>5
<1>7. /\ shardToAssign' \in Seq(Shard) /\ Len(shardToAssign) \in Nat
      /\ DOMAIN shardToAssign = 1 .. Len(shardToAssign)
      /\ DOMAIN shardToAssign' = 1 .. Len(shardToAssign) + 1
      /\ \A p \in 1 .. Len(shardToAssign) : shardToAssign'[p] = shardToAssign[p]
      /\ shardToAssign'[Len(shardToAssign) + 1] = x
  BY SMTT(30), <1>1, <1>2, <1>6, AppendFacts
<1>8. share' = share /\ shards' = shards
  BY <1>1 DEF share, shards, getLastCfg
<1>9. Len(Front(g2shard[gid])) = len - 1
  BY <1>1, <1>2, <1>3, <1>6
<1> HIDE DEF x, len
<1>10. Moved(gid, len - 1)
  <2>0. "tmore" \in Class /\ "tplus" \in Class /\ "tmore" # "tplus"
    BY <1>2
  <2>1. CASE len - 1 = share + 1
    <3>1. groupMap' = Relist(groupMap, "tmore", "tplus")
      BY <1>1, <1>9, <2>1 DEF Relist, gid
    <3>2. Fits(len - 1, "tplus")
      BY <2>1 DEF Fits
    <3> QED
      BY <1>0, <2>0, <3>1, <3>2, RelistMoved DEF gid
  <2>2. CASE len - 1 # share + 1
    <3>1. groupMap' = groupMap
      BY <1>1, <1>9, <2>2
    <3>2. Fits(len - 1, "tmore")
      BY SMTT(30), <1>0, <1>4, <2>2 DEF Fits
    <3> QED
      BY <1>0, <2>0, <3>1, <3>2, StayMoved DEF gid
  <2> QED
    BY <2>1, <2>2
<1>11. TypeOK'
  <2>1. \A g \in Gid \ known : g2shard'[g] = <<>>
    BY <1>0, <1>3, <1>6 DEF TypeOK
  <2> QED
    BY <1>0, <1>1, <1>6, <1>7, <1>10, <2>1 DEF TypeOK, Moved
<1>12. Disjoint(g2shard')
  BY SMTT(30), <1>0, <1>6 DEF Disjoint
<1>13. Disjoint(g2shard)
  BY <1>0
<1>14. \A g \in Gid, k \in Nat : ~Held(g2shard', g, k, x)
  BY <1>3, <1>4, <1>6, <1>13 DEF Disjoint
<1>15. PendingFree'
  <2>1. \A p \in DOMAIN shardToAssign : shardToAssign[p] # x
    BY SMTT(30), <1>0, <1>3, <1>4, <1>6 DEF PendingFree
  <2>2. \A p, q \in DOMAIN shardToAssign' : shardToAssign'[p] = shardToAssign'[q] => p = q
    BY SMTT(30), <1>0, <1>7, <2>1 DEF PendingFree
  <2>3. ASSUME NEW p \in DOMAIN shardToAssign', NEW g \in Gid, NEW k \in Nat
        PROVE  ~Held(g2shard', g, k, shardToAssign'[p])
    <3>1. CASE p = Len(shardToAssign) + 1
      BY <1>7, <1>14, <3>1
    <3>2. CASE p # Len(shardToAssign) + 1
      <4>1. p \in DOMAIN shardToAssign /\ shardToAssign'[p] = shardToAssign[p]
        BY SMTT(30), <1>7, <3>2
      <4>2. shardToAssign[p] \in Shard
        BY SMTT(30), <1>2, <4>1
      <4> QED
        BY <1>0, <1>6, <4>1, <4>2 DEF PendingFree
    <3> QED
      BY <3>1, <3>2
  <2> QED
    BY <2>2, <2>3 DEF PendingFree
<1>16. Agree'
  BY <1>0, <1>6, <1>8 DEF Agree
<1>17. Cover'
  <2> SUFFICES ASSUME NEW s \in Shard
               PROVE  \/ \E g \in Gid, k \in Nat : Held(g2shard', g, k, s)
                      \/ \E p \in DOMAIN shardToAssign' : shardToAssign'[p] = s
    BY <1>0 DEF Cover
  <2>1. CASE s = x
    <3>1. Len(shardToAssign) + 1 \in DOMAIN shardToAssign'
      BY SMTT(30), <1>7
    <3> QED
      BY <1>7, <2>1, <3>1
  <2>2. CASE s # x
    <3>1. CASE \E p \in DOMAIN shardToAssign : shardToAssign[p] = s
      <4>1. PICK p \in DOMAIN shardToAssign : shardToAssign[p] = s
        BY <3>1
      <4>2. p \in DOMAIN shardToAssign' /\ shardToAssign'[p] = s
        BY SMTT(30), <1>7, <4>1
      <4> QED
        BY <4>2
    <3>2. CASE \E g \in Gid, k \in Nat : Held(g2shard, g, k, s)
      <4>1. PICK g \in Gid, k \in Nat : Held(g2shard, g, k, s)
        BY <3>2
      <4>2. ~(g = gid /\ k = len)
        BY <1>6, <2>2, <4>1 DEF Held
      <4> QED
        BY <1>6, <4>1, <4>2
    <3> QED
      BY <1>0, <3>1, <3>2 DEF Cover
  <2> QED
    BY <2>1, <2>2
<1>18. Sorted'
  <2> SUFFICES ASSUME NEW g \in Gid, NEW c \in Class, NEW a \in Nat, In(groupMap', c, a, g)
               PROVE  Fits(Len(g2shard'[g]), c)
    BY <1>8 DEF Sorted, Fits
  <2>1. CASE g = gid
    BY <1>6, <1>10, <2>1 DEF Moved
  <2>2. CASE g # gid
    <3>1. PICK b \in Nat : In(groupMap, c, b, g)
      BY <1>10, <2>2 DEF Moved
    <3> QED
      BY <1>0, <1>6, <2>2, <3>1 DEF Sorted
  <2> QED
    BY <2>1, <2>2
<1>19. Listed'
  <2> SUFFICES ASSUME NEW g \in known PROVE \E c \in Class, a \in Nat : In(groupMap', c, a, g)
    BY <1>1 DEF Listed
  <2>1. CASE g = gid
    BY <1>10, <2>1 DEF Moved
  <2>2. CASE g # gid
    <3>1. PICK c \in Class, a \in Nat : In(groupMap, c, a, g)
      BY <1>0 DEF Listed
    <3> QED
      BY <1>2, <1>10, <2>2, <3>1 DEF Moved
  <2> QED
    BY <2>1, <2>2
<1> QED
  BY <1>0, <1>1, <1>10, <1>11, <1>12, <1>15, <1>16, <1>17, <1>18, <1>19 DEF IInv, Moved

\* The second loop keeps the invariant.
LEMMA InvAssignNext == ASSUME IInv, AssignNext PROVE IInv'
<1> DEFINE less == groupMap["tless"] # <<>>
           gid == IF less THEN groupMap["tless"][1] ELSE groupMap["tok"][1]
           from == IF less THEN "tless" ELSE "tok"
           x == shardToAssign[1]
           len == Len(g2shard[gid])
<1>0. /\ TypeOK /\ Disjoint(g2shard) /\ PendingFree /\ Agree /\ Cover /\ Once(groupMap) /\ Sorted
      /\ assigning /\ Listed /\ known # {} /\ shardToAssign # <<>> /\ share \in Nat
  BY ShareFacts DEF IInv, AssignNext
<1>1. /\ shardToAssign' = Tail(shardToAssign)
      /\ Assign(x, gid)
      /\ g2shard' = [g2shard EXCEPT ![gid] = Append(g2shard[gid], x)]
      /\ groupMap' =
            CASE less /\ len + 1 = share -> [groupMap EXCEPT !["tok"] = Append(groupMap["tok"], gid),
                                                            !["tless"] = Tail(groupMap["tless"])]
              [] less /\ ~(len + 1 = share) -> groupMap
              [] ~less -> [groupMap EXCEPT !["tplus"] = Append(groupMap["tplus"], gid),
                                           !["tok"] = Tail(groupMap["tok"])]
      /\ known' = known /\ assigning' = assigning
      /\ groupMap[from] # <<>>
  BY DEF AssignNext
<1>2. /\ groupMap \in [Class -> Seq(known)] /\ known \in SUBSET Gid
      /\ {"tless", "tok", "tplus", "tmore"} = Class /\ g2shard \in [Gid -> Seq(Shard)]
      /\ shardToAssign \in Seq(Shard) /\ from \in Class
  BY <1>0 DEF TypeOK, Class
<1>3. gid \in known /\ gid \in Gid /\ In(groupMap, from, 1, gid)
  <2>1. groupMap[from] \in Seq(known) /\ gid = groupMap[from][1]
    BY <1>2
  <2> QED
    BY SMTT(30), <1>1, <1>2, <2>1 DEF In
<1>4. len \in Nat /\ (less => len < share) /\ (~less => len = share)
  <2>1. Fits(len, from)
    BY <1>0, <1>2, <1>3 DEF Sorted
  <2> QED
    BY SMTT(30), <1>2, <1>3, <2>1 DEF Fits
<1>5. /\ shardToAssign' \in Seq(Shard) /\ Len(shardToAssign) \in Nat \ {0}
      /\ DOMAIN shardToAssign = 1 .. Len(shardToAssign)
      /\ DOMAIN shardToAssign' = 1 .. Len(shardToAssign) - 1
      /\ \A p \in 1 .. Len(shardToAssign) - 1 : shardToAssign'[p] = shardToAssign[p + 1]
      /\ x \in Shard
  BY <1>0, <1>1, <1>2, TailFacts
<1>6. /\ g2shard' \in [Gid -> Seq(Shard)]
      /\ \A g \in Gid, k \in Nat, s \in Shard :
            Held(g2shard', g, k, s) <=> Held(g2shard, g, k, s) \/ (g = gid /\ k = len + 1 /\ s = x)
      /\ Len(g2shard'[gid]) = len + 1 /\ \A g \in Gid \ {gid} : g2shard'[g] = g2shard[g]
  <2> HIDE DEF gid, x
  <2>1. g2shard' = Push(g2shard, gid, x)
    BY <1>1 DEF Push
  <2>2. g2shard \in [Gid -> Seq(Shard)] /\ gid \in Gid /\ x \in Shard
    BY <1>2, <1>3, <1>5
  <2>3. /\ g2shard' \in [Gid -> Seq(Shard)]
        /\ \A g \in Gid, k \in Nat, s \in Shard :
              Held(g2shard', g, k, s) <=> Held(g2shard, g, k, s) \/ (g = gid /\ k = len + 1 /\ s = x)
    BY <2>1, <2>2, PushFacts
  <2>4. Len(g2shard'[gid]) = len + 1 /\ \A g \in Gid \ {gid} : g2shard'[g] = g2shard[g]
    BY SMTT(30), <2>1, <2>2, PushFacts
  <2> QED
    BY <2>3, <2>4
<1>7. /\ configs' \in Seq(Config) /\ configs' # <<>>
      /\ shards \in [Shard -> Owner] /\ shards' = [shards EXCEPT ![x] = gid]
  <2> HIDE DEF gid, x
  <2> QED
    BY <1>0, <1>1, <1>3, <1>5, AssignFacts
<1>8. share' = share
  BY <1>1 DEF share
<1>9. \A g \in Gid, k \in Nat : ~Held(g2shard, g, k, x)
  BY SMTT(30), <1>0, <1>5 DEF PendingFree
<1>10. Moved(gid, len + 1)
  <2>0. {"tless", "tok", "tplus"} \subseteq Class
    BY <1>2
  <2>1. CASE less /\ len + 1 = share
    <3>1. groupMap' = Relist(groupMap, "tless", "tok") /\ gid = groupMap["tless"][1]
      BY <1>1, <2>1 DEF Relist
    <3>2. Fits(len + 1, "tok")
      BY <2>1 DEF Fits
    <3> QED
      <4> HIDE DEF gid, len
      <4> QED BY <1>0, <2>0, <2>1, <3>1, <3>2, RelistMoved
  <2>2. CASE less /\ len + 1 # share
    <3>1. groupMap' = groupMap /\ gid = groupMap["tless"][1]
      BY <1>1, <2>2
    <3>2. Fits(len + 1, "tless")
      <4> HIDE DEF len, gid
      <4> QED BY SMTT(30), <1>0, <1>4, <2>2 DEF Fits
    <3> QED
      <4> HIDE DEF gid, len
      <4> QED BY <1>0, <2>0, <2>2, <3>1, <3>2, StayMoved
  <2>3. CASE ~less
    <3>1. groupMap' = Relist(groupMap, "tok", "tplus") /\ gid = groupMap["tok"][1]
      BY <1>1, <2>3 DEF Relist
    <3>2. Fits(len + 1, "tplus") /\ groupMap["tok"] # <<>>
      BY <1>1, <1>4, <2>3 DEF Fits
    <3> QED
      <4> HIDE DEF gid, len
      <4> QED BY <1>0, <2>0, <3>1, <3>2, RelistMoved
  <2> QED
    BY <2>1, <2>2, <2>3
<1> HIDE DEF gid, from, x, len
<1>11. TypeOK'
  <2>1. \A g \in Gid \ known : g2shard'[g] = <<>>
    BY <1>0, <1>3, <1>6 DEF TypeOK
  <2> QED
    BY <1>0, <1>1, <1>5, <1>6, <1>7, <1>10, <2>1 DEF TypeOK, Moved
<1>12. Disjoint(g2shard')
  <2> SUFFICES ASSUME NEW s \in Shard, NEW g \in Gid, NEW h \in Gid, NEW k \in Nat, NEW l \in Nat,
                      Held(g2shard', g, k, s), Held(g2shard', h, l, s)
               PROVE  g = h /\ k = l
    BY DEF Disjoint
  <2>1. CASE s = x
    <3>1. (g = gid /\ k = len + 1) /\ (h = gid /\ l = len + 1)
      BY <1>6, <1>9, <2>1
    <3> QED
      BY <3>1
  <2>2. CASE s # x
    <3>1. Held(g2shard, g, k, s) /\ Held(g2shard, h, l, s)
      BY <1>6, <2>2
    <3> QED
      BY <1>0, <3>1 DEF Disjoint
  <2> QED
    BY <2>1, <2>2
<1>13. PendingFree'
  <2>1. \A p \in 1 .. Len(shardToAssign) - 1 : shardToAssign[p + 1] # x /\ shardToAssign[p + 1] \in Shard
    <3> SUFFICES ASSUME NEW p \in 1 .. Len(shardToAssign) - 1
                 PROVE  shardToAssign[p + 1] # shardToAssign[1] /\ shardToAssign[p + 1] \in Shard
      BY DEF x
    <3>1. p + 1 \in DOMAIN shardToAssign /\ 1 \in DOMAIN shardToAssign /\ p + 1 # 1
      BY SMTT(30), <1>5
    <3> QED
      BY SMTT(30), <1>0, <1>2, <3>1 DEF PendingFree
  <2>2. ASSUME NEW p \in DOMAIN shardToAssign', NEW q \in DOMAIN shardToAssign',
               shardToAssign'[p] = shardToAssign'[q]
        PROVE  p = q
    <3>1. p + 1 \in DOMAIN shardToAssign /\ q + 1 \in DOMAIN shardToAssign
      BY SMTT(30), <1>5
    <3>2. shardToAssign[p + 1] = shardToAssign[q + 1]
      BY <1>5, <2>2
    <3>3. p + 1 = q + 1
      BY <1>0, <3>1, <3>2 DEF PendingFree
    <3> QED
      BY SMTT(30), <1>5, <3>3
  <2>3. ASSUME NEW p \in DOMAIN shardToAssign', NEW g \in Gid, NEW k \in Nat
        PROVE  ~Held(g2shard', g, k, shardToAssign'[p])
    <3>1. p + 1 \in DOMAIN shardToAssign /\ shardToAssign'[p] = shardToAssign[p + 1]
      BY SMTT(30), <1>5
    <3>2. shardToAssign[p + 1] # x /\ shardToAssign[p + 1] \in Shard
      BY <1>5, <2>1
    <3> QED
      BY <1>0, <1>6, <3>1, <3>2 DEF PendingFree
  <2> QED
    BY <2>2, <2>3 DEF PendingFree
<1>14. Agree'
  <2> SUFFICES ASSUME NEW s \in Shard, NEW g \in Gid, NEW k \in Nat, Held(g2shard', g, k, s)
               PROVE  shards'[s] = g
    BY DEF Agree
  <2>1. CASE s = x
    BY <1>6, <1>7, <1>9, <2>1
  <2>2. CASE s # x
    BY SMTT(30), <1>0, <1>6, <1>7, <2>2 DEF Agree
  <2> QED
    BY <2>1, <2>2
<1>15. Cover'
  <2> SUFFICES ASSUME NEW s \in Shard
               PROVE  \/ \E g \in Gid, k \in Nat : Held(g2shard', g, k, s)
                      \/ \E p \in DOMAIN shardToAssign' : shardToAssign'[p] = s
    BY <1>0 DEF Cover
  <2>1. CASE s = x
    <3>1. len + 1 \in Nat
      BY SMTT(30), <1>4
    <3> QED
      BY <1>3, <1>5, <1>6, <2>1, <3>1
  <2>2. CASE s # x
    <3>1. CASE \E p \in DOMAIN shardToAssign : shardToAssign[p] = s
      <4>1. PICK p \in DOMAIN shardToAssign : shardToAssign[p] = s
        BY <3>1
      <4>2. p # 1
        BY <2>2, <4>1 DEF x
      <4>3. p - 1 \in DOMAIN shardToAssign' /\ (p - 1) + 1 = p
        BY SMTT(30), <1>5, <4>2
      <4>4. shardToAssign'[p - 1] = s
        BY <1>5, <4>1, <4>3
      <4> QED
        BY <4>3, <4>4
    <3>2. CASE \E g \in Gid, k \in Nat : Held(g2shard, g, k, s)
      BY <1>6, <3>2
    <3> QED
      BY <1>0, <3>1, <3>2 DEF Cover
  <2> QED
    BY <2>1, <2>2
<1>16. Sorted'
  <2> SUFFICES ASSUME NEW g \in Gid, NEW c \in Class, NEW a \in Nat, In(groupMap', c, a, g)
               PROVE  Fits(Len(g2shard'[g]), c)
    BY <1>8 DEF Sorted, Fits
  <2>1. CASE g = gid
    BY <1>6, <1>10, <2>1 DEF Moved
  <2>2. CASE g # gid
    <3>1. PICK b \in Nat : In(groupMap, c, b, g)
      BY <1>10, <2>2 DEF Moved
    <3> QED
      BY <1>0, <1>6, <2>2, <3>1 DEF Sorted
  <2> QED
    BY <2>1, <2>2
<1>17. Listed'
  <2> SUFFICES ASSUME NEW g \in known PROVE \E c \in Class, a \in Nat : In(groupMap', c, a, g)
    BY <1>1 DEF Listed
  <2>1. CASE g = gid
    BY <1>10, <2>1 DEF Moved
  <2>2. CASE g # gid
    <3>1. PICK c \in Class, a \in Nat : In(groupMap, c, a, g)
      BY <1>0 DEF Listed
    <3> QED
      BY <1>2, <1>10, <2>2, <3>1 DEF Moved
  <2> QED
    BY <2>1, <2>2
<1> QED
  BY <1>0, <1>1, <1>10, <1>11, <1>12, <1>13, <1>14, <1>15, <1>16, <1>17 DEF IInv, Moved

\* The third loop keeps the invariant.
LEMMA InvFillLess == ASSUME IInv, FillLess PROVE IInv'
<1> DEFINE from == groupMap["tplus"][1]
           to == groupMap["tless"][1]
           x == Last(g2shard[from])
           lf == Len(g2shard[from])
           lt == Len(g2shard[to])
           full == lt + 1 = share
<1>0. /\ TypeOK /\ Disjoint(g2shard) /\ PendingFree /\ Agree /\ Cover /\ Once(groupMap) /\ Sorted
      /\ assigning /\ Listed /\ known # {} /\ share \in Nat
      /\ groupMap["tmore"] = <<>> /\ shardToAssign = <<>>
      /\ groupMap["tless"] # <<>> /\ groupMap["tplus"] # <<>>
  BY ShareFacts DEF IInv, FillLess
<1>1. /\ Assign(x, to)
      /\ g2shard' = [g2shard EXCEPT ![from] = Front(@), ![to] = Append(@, x)]
      /\ groupMap' = [groupMap EXCEPT !["tplus"] = Tail(@), !["tless"] = Filled(@, full)]
      /\ known' = known /\ assigning' = assigning /\ shardToAssign' = shardToAssign
  BY DEF FillLess
<1>2. /\ groupMap \in [Class -> Seq(known)] /\ known \in SUBSET Gid
      /\ {"tless", "tok", "tplus", "tmore"} = Class /\ g2shard \in [Gid -> Seq(Shard)]
  BY <1>0 DEF TypeOK, Class
<1>3. /\ from \in known /\ from \in Gid /\ In(groupMap, "tplus", 1, from)
      /\ to \in known /\ to \in Gid /\ In(groupMap, "tless", 1, to)
  <2>1. groupMap["tplus"] \in Seq(known) /\ groupMap["tless"] \in Seq(known)
    BY <1>2
  <2>2. 1 \in DOMAIN groupMap["tplus"] /\ 1 \in DOMAIN groupMap["tless"]
    BY SMTT(30), <1>0, <2>1
  <2>3. from \in known /\ to \in known
    BY SMTT(30), <2>1, <2>2
  <2> QED
    BY <1>2, <2>2, <2>3 DEF In
<1>4. lf \in Nat /\ lf = share + 1 /\ lt \in Nat /\ lt < share
  <2>1. Fits(lf, "tplus") /\ Fits(lt, "tless")
    BY <1>0, <1>2, <1>3 DEF Sorted
  <2> QED
    BY SMTT(30), <1>2, <1>3, <2>1 DEF Fits
<1>5. from # to /\ g2shard[from] # <<>>
  BY SMTT(30), <1>0, <1>4
<1> DEFINE mid == Cut(g2shard, from)
<1> HIDE DEF from, to
<1>6. g2shard' = Push(mid, to, x)
  BY <1>1, <1>2, <1>3, <1>5 DEF Cut, Push
<1>7. /\ mid \in [Gid -> Seq(Shard)]
      /\ \A g \in Gid, k \in Nat, s \in Shard :
            Held(mid, g, k, s) <=> Held(g2shard, g, k, s) /\ ~(g = from /\ k = lf)
      /\ Len(mid[from]) = lf - 1 /\ \A g \in Gid \ {from} : mid[g] = g2shard[g]
      /\ x \in Shard /\ Held(g2shard, from, lf, x)
  <2>1. g2shard \in [Gid -> Seq(Shard)] /\ from \in Gid /\ g2shard[from] # <<>>
    BY <1>2, <1>3, <1>5
  <2>2. mid \in [Gid -> Seq(Shard)] /\ \A g \in Gid, k \in Nat, s \in Shard :
            Held(mid, g, k, s) <=> Held(g2shard, g, k, s) /\ ~(g = from /\ k = lf)
    BY <2>1, CutFacts
  <2>3. Len(mid[from]) = lf - 1 /\ \A g \in Gid \ {from} : mid[g] = g2shard[g]
    BY <2>1, CutFacts
  <2>4. x \in Shard /\ Held(g2shard, from, lf, x)
    BY <2>1, CutFacts
  <2> QED
    BY <2>2, <2>3, <2>4
<1> HIDE DEF x, mid
<1>8. Len(mid[to]) = lt
  BY <1>3, <1>5, <1>7
<1>9. /\ g2shard' \in [Gid -> Seq(Shard)]
      /\ \A g \in Gid, k \in Nat, s \in Shard :
            Held(g2shard', g, k, s) <=> Held(mid, g, k, s) \/ (g = to /\ k = lt + 1 /\ s = x)
      /\ Len(g2shard'[to]) = lt + 1 /\ Len(g2shard'[from]) = lf - 1
      /\ \A g \in Gid \ {from, to} : g2shard'[g] = g2shard[g]
  <2>1. mid \in [Gid -> Seq(Shard)] /\ to \in Gid /\ x \in Shard
    BY <1>3, <1>7
  <2>2. g2shard' \in [Gid -> Seq(Shard)] /\ \A g \in Gid, k \in Nat, s \in Shard :
            Held(g2shard', g, k, s) <=> Held(mid, g, k, s) \/ (g = to /\ k = lt + 1 /\ s = x)
    <3>1. \A g \in Gid, k \in Nat, s \in Shard :
            Held(Push(mid, to, x), g, k, s)
              <=> Held(mid, g, k, s) \/ (g = to /\ k = Len(mid[to]) + 1 /\ s = x)
      BY <2>1, PushFacts
    <3>2. Push(mid, to, x) \in [Gid -> Seq(Shard)]
      BY <2>1, PushFacts
    <3> QED
      BY <1>6, <1>8, <3>1, <3>2
  <2>3. Len(g2shard'[to]) = lt + 1 /\ \A g \in Gid \ {to} : g2shard'[g] = mid[g]
    BY SMTT(30), <1>6, <1>8, <2>1, PushFacts
  <2> QED
    BY <1>3, <1>5, <1>7, <2>2, <2>3
<1> HIDE DEF lf, lt
<1>10. \A g \in Gid, k \in Nat : ~Held(mid, g, k, x)
  BY SMTT(30), <1>0, <1>3, <1>4, <1>7 DEF Disjoint
<1>11. /\ configs' \in Seq(Config) /\ configs' # <<>>
       /\ shards \in [Shard -> Owner] /\ shards' = [shards EXCEPT ![x] = to]
  BY <1>0, <1>1, <1>3, <1>7, AssignFacts
<1>12. share' = share
  BY <1>1 DEF share
<1> DEFINE half == Drop(groupMap, "tplus")
<1>13. /\ half \in [Class -> Seq(known)] /\ Once(half)
       /\ \A c \in Class, a \in Nat : ~In(half, c, a, from)
       /\ \A g \in Gid \ {from}, c \in Class :
             (\E a \in Nat : In(half, c, a, g)) <=> (\E a \in Nat : In(groupMap, c, a, g))
       /\ half["tless"] = groupMap["tless"]
  <2>1. "tplus" \in Class /\ groupMap["tplus"] # <<>> /\ Once(groupMap)
        /\ "tless" \in Class \ {"tplus"} /\ groupMap \in [Class -> Seq(known)] /\ known \in SUBSET Gid
    BY <1>0, <1>2
  <2>2. half \in [Class -> Seq(known)] /\ Once(half) /\ half["tless"] = groupMap["tless"]
    <3>1. half \in [Class -> Seq(known)] /\ Once(half)
      BY <2>1, DropFacts
    <3>2. half["tless"] = groupMap["tless"]
      BY <1>2 DEF Drop
    <3> QED
      BY <3>1, <3>2
  <2>3. \A c \in Class, a \in Nat : ~In(half, c, a, from)
    BY <2>1, DropFacts DEF from
  <2>4. \A g \in Gid \ {from}, c \in Class :
          (\E a \in Nat : In(half, c, a, g)) <=> (\E a \in Nat : In(groupMap, c, a, g))
    BY <2>1, DropFacts DEF from
  <2> QED
    BY <2>2, <2>3, <2>4
<1>14. groupMap' = IF full THEN Drop(half, "tless") ELSE half
  BY <1>1, <1>2 DEF Drop, Filled
<1> HIDE DEF half
<1>15. /\ groupMap' \in [Class -> Seq(known)] /\ Once(groupMap')
       /\ \A c \in Class, a \in Nat : ~In(groupMap', c, a, from)
       /\ \A c \in Class, a \in Nat : In(groupMap', c, a, to) => c = "tless" /\ ~full
       /\ ~full => \E c \in Class, a \in Nat : In(groupMap', c, a, to)
       /\ \A g \in Gid \ {from, to}, c \in Class :
             (\E a \in Nat : In(groupMap', c, a, g)) <=> (\E a \in Nat : In(groupMap, c, a, g))
  <2>0. /\ half \in [Class -> Seq(known)] /\ Once(half) /\ half["tless"] # <<>> /\ half["tless"][1] = to
        /\ "tless" \in Class /\ known \in SUBSET Gid
    BY <1>0, <1>2, <1>13 DEF to
  <2>1. CASE full
    <3>1. groupMap' = Drop(half, "tless")
      BY <1>14, <2>1
    <3>2. groupMap' \in [Class -> Seq(known)] /\ Once(groupMap')
      BY <2>0, <3>1, DropFacts
    <3>3. \A c \in Class, a \in Nat : ~In(groupMap', c, a, to)
      BY <2>0, <3>1, DropFacts
    <3>4. \A g \in Gid \ {to}, c \in Class :
            (\E a \in Nat : In(groupMap', c, a, g)) <=> (\E a \in Nat : In(half, c, a, g))
      BY <2>0, <3>1, DropFacts
    <3>5. \A c \in Class, a \in Nat : ~In(groupMap', c, a, from)
      BY <1>3, <1>5, <1>13, <3>4
    <3>6. \A g \in Gid \ {from, to}, c \in Class :
            (\E a \in Nat : In(groupMap', c, a, g)) <=> (\E a \in Nat : In(groupMap, c, a, g))
      BY <1>13, <3>4
    <3> QED
      BY <2>1, <3>2, <3>3, <3>5, <3>6
  <2>2. CASE ~full
    <3>1. groupMap' = half
      BY <1>14, <2>2
    <3>2. \A c \in Class, a \in Nat : In(half, c, a, to) => c = "tless"
      <4>1. \A c \in Class, a \in Nat : In(groupMap, c, a, to) => c = "tless"
        BY <1>0, <1>2, <1>3 DEF Once
      <4> QED
        BY <1>3, <1>5, <1>13, <4>1
    <3>3. \E c \in Class, a \in Nat : In(half, c, a, to)
      <4>1. \E a \in Nat : In(half, "tless", a, to)
        BY <1>2, <1>3, <1>5, <1>13
      <4> QED
        BY <1>2, <4>1
    <3> QED
      BY <1>13, <2>2, <3>1, <3>2, <3>3
  <2> QED
    BY <2>1, <2>2
<1>16. TypeOK'
  <2>1. \A g \in Gid \ known : g2shard'[g] = <<>>
    BY <1>0, <1>3, <1>9 DEF TypeOK
  <2> QED
    BY <1>0, <1>1, <1>9, <1>11, <1>15, <2>1 DEF TypeOK
<1>17. Disjoint(g2shard')
  <2> SUFFICES ASSUME NEW s \in Shard, NEW g \in Gid, NEW h \in Gid, NEW k \in Nat, NEW l \in Nat,
                      Held(g2shard', g, k, s), Held(g2shard', h, l, s)
               PROVE  g = h /\ k = l
    BY DEF Disjoint
  <2>1. CASE s = x
    <3>1. (g = to /\ k = lt + 1) /\ (h = to /\ l = lt + 1)
      BY <1>9, <1>10, <2>1
    <3> QED
      BY <3>1
  <2>2. CASE s # x
    <3>1. Held(mid, g, k, s) /\ Held(mid, h, l, s)
      BY <1>9, <2>2
    <3>2. Held(g2shard, g, k, s) /\ Held(g2shard, h, l, s)
      BY <1>7, <3>1
    <3> QED
      BY <1>0, <3>2 DEF Disjoint
  <2> QED
    BY <2>1, <2>2
<1>18. PendingFree'
  <2>1. DOMAIN shardToAssign' = {}
    BY SMTT(30), <1>0, <1>1
  <2> QED
    BY <2>1 DEF PendingFree
<1>19. Agree'
  <2> SUFFICES ASSUME NEW s \in Shard, NEW g \in Gid, NEW k \in Nat, Held(g2shard', g, k, s)
               PROVE  shards'[s] = g
    BY DEF Agree
  <2>1. CASE s = x
    BY <1>9, <1>10, <1>11, <2>1
  <2>2. CASE s # x
    <3>1. Held(g2shard, g, k, s)
      BY <1>7, <1>9, <2>2
    <3> QED
      BY <1>0, <1>11, <2>2, <3>1 DEF Agree
  <2> QED
    BY <2>1, <2>2
<1>20. Cover'
  <2> SUFFICES ASSUME NEW s \in Shard
               PROVE  \E g \in Gid, k \in Nat : Held(g2shard', g, k, s)
    BY DEF Cover
  <2>1. CASE s = x
    <3>1. lt + 1 \in Nat
      BY SMTT(30), <1>4
    <3> QED
      BY <1>3, <1>7, <1>9, <2>1, <3>1
  <2>2. CASE s # x
    <3>1. PICK g \in Gid, k \in Nat : Held(g2shard, g, k, s)
      <4>1. DOMAIN shardToAssign = {}
        BY SMTT(30), <1>0
      <4> QED
        BY <1>0, <4>1 DEF Cover
    <3>2. ~(g = from /\ k = lf)
      BY <1>7, <2>2, <3>1 DEF Held
    <3> QED
      BY <1>7, <1>9, <3>1, <3>2
  <2> QED
    BY <2>1, <2>2
<1>21. Sorted'
  <2> SUFFICES ASSUME NEW g \in Gid, NEW c \in Class, NEW a \in Nat, In(groupMap', c, a, g)
               PROVE  Fits(Len(g2shard'[g]), c)
    BY <1>12 DEF Sorted, Fits
  <2>1. CASE g = to
    <3>1. c = "tless" /\ lt + 1 # share
      BY <1>15, <2>1
    <3> QED
      BY SMTT(30), <1>0, <1>4, <1>9, <2>1, <3>1 DEF Fits
  <2>2. CASE g # to
    <3>0. g # from
      BY <1>15
    <3>1. PICK b \in Nat : In(groupMap, c, b, g)
      BY <1>15, <2>2, <3>0
    <3> QED
      BY <1>0, <1>9, <2>2, <3>0, <3>1 DEF Sorted
  <2> QED
    BY <2>1, <2>2
<1>22. Listed'
  <2>0. shardToAssign' = <<>> /\ groupMap'["tmore"] = <<>>
    BY <1>0, <1>1, <1>2
  <2> SUFFICES ASSUME NEW g \in known
               PROVE  (\E c \in Class, a \in Nat : In(groupMap', c, a, g)) \/ Len(g2shard'[g]) = share
    BY <1>1, <1>12, <2>0 DEF Listed
  <2>1. CASE g = from
    BY SMTT(30), <1>0, <1>4, <1>9, <2>1
  <2>2. CASE g = to
    BY <1>9, <1>15, <2>2
  <2>3. CASE g # from /\ g # to
    <3>1. g \in Gid \ {from, to}
      BY <1>2, <2>3
    <3>2. CASE Len(g2shard[g]) = share
      BY <1>9, <3>1, <3>2
    <3>3. CASE \E c \in Class, a \in Nat : In(groupMap, c, a, g)
      BY <1>15, <3>1, <3>3
    <3> QED
      BY <1>0, <3>2, <3>3 DEF Listed
  <2> QED
    BY <2>1, <2>2, <2>3
<1> QED
  BY <1>0, <1>1, <1>15, <1>16, <1>17, <1>18, <1>19, <1>20, <1>21, <1>22 DEF IInv

\* navieAssign returns with the invariant.
LEMMA InvEndAssign == ASSUME IInv, EndAssign PROVE IInv'
<1>0. /\ TypeOK /\ Disjoint(g2shard) /\ PendingFree /\ Agree /\ Cover
      /\ assigning /\ shardToAssign = <<>>
  BY DEF IInv, EndAssign
<1>1. /\ assigning' = FALSE /\ groupMap' = NoLists /\ configs' = configs /\ known' = known
      /\ g2shard' = g2shard /\ shardToAssign' = shardToAssign
  BY DEF EndAssign
<1>2. TypeOK'
  <2>1. groupMap' \in [Class -> Seq(known')]
    BY SMTT(30), <1>1 DEF NoLists
  <2> QED
    BY <1>0, <1>1, <2>1 DEF TypeOK
<1>3. \A c \in Class, a \in Nat, g \in Gid : ~In(groupMap', c, a, g)
  BY SMTT(30), <1>1 DEF In, NoLists
<1>4. Once(groupMap') /\ Sorted'
  BY <1>3 DEF Once, Sorted
<1>5. PendingFree' /\ Disjoint(g2shard')
  BY <1>0, <1>1 DEF PendingFree
<1>6. Agree'
  BY <1>0, <1>1 DEF Agree, shards, getLastCfg
<1>7. Cover'
  <2>1. DOMAIN shardToAssign = {}
    BY SMTT(30), <1>0
  <2> QED
    BY <1>0, <1>1, <2>1 DEF Cover
<1> QED
  BY <1>0, <1>1, <1>2, <1>4, <1>5, <1>6, <1>7 DEF IInv

\* An operation that leaves every shard with the group that holds it, or with
\* nobody, establishes the invariant, with navieAssign or without.
LEMMA InvOperation ==
  ASSUME IInv, ~assigning,
         configs' \in Seq(Config), configs' # <<>>, known' \subseteq Gid,
         g2shard' \in [Gid -> Seq(Shard)], \A g \in Gid \ known' : g2shard'[g] = <<>>,
         Disjoint(g2shard'),
         \A s \in Shard, g \in Gid, k \in Nat : Held(g2shard', g, k, s) => shards'[s] = g,
         \A s \in Shard : (\E g \in Gid, k \in Nat : Held(g2shard', g, k, s)) \/ shards'[s] = NoGroup,
         BeginAssign \/ UNCHANGED <<assigning, groupMap, shardToAssign>>
  PROVE  IInv'
<1>0. groupMap = NoLists /\ shardToAssign = <<>>
  BY DEF IInv
<1>1. CASE UNCHANGED <<assigning, groupMap, shardToAssign>>
  <2>1. groupMap' = NoLists /\ shardToAssign' = <<>> /\ ~assigning' /\ assigning' \in BOOLEAN
    BY <1>0, <1>1 DEF IInv, TypeOK
  <2>2. TypeOK'
    BY SMTT(30), <2>1 DEF TypeOK, NoLists
  <2>3. \A c \in Class, a \in Nat, g \in Gid : ~In(groupMap', c, a, g)
    BY SMTT(30), <2>1 DEF In, NoLists
  <2>4. Once(groupMap') /\ Sorted'
    BY <2>3 DEF Once, Sorted
  <2>5. DOMAIN shardToAssign' = {}
    BY SMTT(30), <2>1
  <2>6. PendingFree' /\ Agree' /\ Cover'
    BY <2>1, <2>5 DEF PendingFree, Agree, Cover
  <2> QED
    BY <2>1, <2>2, <2>4, <2>6 DEF IInv
<1>2. CASE BeginAssign /\ known' # {}
  <2> DEFINE free == {s \in Shard : shards'[s] = NoGroup}
             of(c) == Classified(known', g2shard', c)
  <2>1. /\ assigning' = TRUE
        /\ shardToAssign' \in Listings(free)
    BY <1>2 DEF BeginAssign, Ascending, shards, getLastCfg
  <2>2. IsFiniteSet(known') /\ Cardinality(known') \in Nat \ {0}
    <3>1. IsFiniteSet(known')
      BY GidAssumption, FS_Subset
    <3> QED
      BY <1>2, <3>1, FS_CardinalityType, FS_EmptySet
  <2>3. share' \in Nat /\ share' = Share(Cardinality(known'))
    BY <2>2, ShareBounds DEF share
  <2>4. groupMap' \in [Class -> UNION {Listings(of(c)) : c \in Class}]
        /\ \A c \in Class : groupMap'[c] \in Listings(of(c))
    <3>1. PICK l \in Listings(of("tless")), o \in Listings(of("tok")),
               p \in Listings(of("tplus")), m \in Listings(of("tmore")) :
               groupMap' = [tless |-> l, tok |-> o, tplus |-> p, tmore |-> m]
      BY <1>2 DEF BeginAssign
    <3> HIDE DEF of
    <3>2. \A c \in Class : groupMap'[c] \in Listings(of(c))
      BY SMTT(30), <3>1 DEF Class
    <3>3. DOMAIN groupMap' = Class /\ groupMap' = [c \in Class |-> groupMap'[c]]
      BY <3>1 DEF Class
    <3> QED
      BY <3>2, <3>3
  <2>5. ASSUME NEW c \in Class
        PROVE  /\ groupMap'[c] \in Seq(known')
               /\ \A a, b \in DOMAIN groupMap'[c] : groupMap'[c][a] = groupMap'[c][b] => a = b
               /\ \A g \in of(c) : \E a \in DOMAIN groupMap'[c] : groupMap'[c][a] = g
               /\ \A a \in DOMAIN groupMap'[c] : groupMap'[c][a] \in of(c)
    <3>1. of(c) \in SUBSET known'
      BY DEF Classified
    <3> HIDE DEF of
    <3>2. IsFiniteSet(of(c))
      BY <2>2, <3>1, FS_Subset
    <3>3. groupMap'[c] \in Listings(of(c))
      BY <2>4
    <3>4. /\ groupMap'[c] \in Seq(of(c))
          /\ \A a, b \in DOMAIN groupMap'[c] : groupMap'[c][a] = groupMap'[c][b] => a = b
          /\ \A g \in of(c) : \E a \in DOMAIN groupMap'[c] : groupMap'[c][a] = g
          /\ \A a \in DOMAIN groupMap'[c] : groupMap'[c][a] \in of(c)
      BY <3>2, <3>3, ListingFacts
    <3>5. groupMap'[c] \in Seq(known')
      BY SMTT(30), <3>1, <3>4
    <3> QED
      BY <3>4, <3>5
  <2>6. ASSUME NEW g \in known', NEW c \in Class
        PROVE  g \in of(c) <=> Fits(Len(g2shard[g]), c)'
    <3> DEFINE n == Len(g2shard'[g])
    <3>1. n \in Nat
      BY SMTT(30)
    <3>2. g \in of(c) <=> ClassOf(n, share') = c
      BY <2>3 DEF Classified
    <3> HIDE DEF n, of
    <3>3. ClassOf(n, share') = c <=> /\ c = "tless" => n < share'
                                     /\ c = "tok"   => n = share'
                                     /\ c = "tplus" => n = share' + 1
                                     /\ c = "tmore" => n > share' + 1
      BY SMTT(30), <2>3, <3>1 DEF ClassOf, Class
    <3> QED
      BY <3>2, <3>3 DEF Fits, n
  <2>7. \A g \in known' : \E c \in Class : g \in of(c)
    <3> SUFFICES ASSUME NEW g \in known' PROVE \E c \in Class : g \in of(c)
      OBVIOUS
    <3> DEFINE n == Len(g2shard'[g])
    <3>1. n \in Nat
      BY SMTT(30)
    <3>2. \A c \in Class : g \in of(c) <=> ClassOf(n, share') = c
      BY <2>3 DEF Classified
    <3> HIDE DEF n, of
    <3>3. ClassOf(n, share') \in Class
      BY SMTT(30), <2>3, <3>1 DEF ClassOf, Class
    <3> QED
      BY <3>2, <3>3
  <2>8. \A c \in Class, a \in Nat, g \in Gid : In(groupMap', c, a, g) => g \in of(c) /\ g \in known'
    <3>1. \A c \in Class : of(c) \subseteq known'
      BY DEF Classified
    <3> HIDE DEF of
    <3> QED
      BY SMTT(30), <2>5, <3>1 DEF In
  <2>9. \A c, d \in Class, g \in Gid : g \in of(c) /\ g \in of(d) => c = d
    BY DEF Classified
  <2> HIDE DEF of
  <2>10. Once(groupMap')
    <3> SUFFICES ASSUME NEW g \in Gid, NEW c \in Class, NEW d \in Class, NEW a \in Nat, NEW b \in Nat,
                        In(groupMap', c, a, g), In(groupMap', d, b, g)
                 PROVE  c = d /\ a = b
      BY DEF Once
    <3>1. c = d
      BY <2>8, <2>9
    <3>2. \A i, j \in DOMAIN groupMap'[c] : groupMap'[c][i] = groupMap'[c][j] => i = j
      BY <2>5
    <3>3. /\ a \in DOMAIN groupMap'[c] /\ groupMap'[c][a] = g
          /\ b \in DOMAIN groupMap'[c] /\ groupMap'[c][b] = g
      BY <3>1 DEF In
    <3>4. a = b
      BY <3>2, <3>3
    <3> QED
      BY <3>1, <3>4
  <2>11. Sorted'
    BY <2>6, <2>8 DEF Sorted
  <2>12. Listed'
    <3> SUFFICES ASSUME NEW g \in known' PROVE \E c \in Class, a \in Nat : In(groupMap', c, a, g)
      BY DEF Listed
    <3>1. PICK c \in Class : g \in of(c)
      BY <2>7
    <3>2. PICK a \in DOMAIN groupMap'[c] : groupMap'[c][a] = g
      BY <2>5, <3>1
    <3>3. a \in Nat
      BY SMTT(30), <2>5
    <3> QED
      BY <3>2, <3>3 DEF In
  <2>13. /\ shardToAssign' \in Seq(Shard)
         /\ \A a, b \in DOMAIN shardToAssign' : shardToAssign'[a] = shardToAssign'[b] => a = b
         /\ \A s \in free : \E a \in DOMAIN shardToAssign' : shardToAssign'[a] = s
         /\ \A a \in DOMAIN shardToAssign' : shardToAssign'[a] \in free
    <3>1. free \in SUBSET Shard
      OBVIOUS
    <3> HIDE DEF free
    <3>2. IsFiniteSet(free)
      BY <3>1, ShardCount, FS_Subset
    <3>3. /\ shardToAssign' \in Seq(free)
          /\ \A a, b \in DOMAIN shardToAssign' : shardToAssign'[a] = shardToAssign'[b] => a = b
          /\ \A s \in free : \E a \in DOMAIN shardToAssign' : shardToAssign'[a] = s
          /\ \A a \in DOMAIN shardToAssign' : shardToAssign'[a] \in free
      BY <2>1, <3>2, ListingFacts
    <3> QED
      BY SMTT(30), <3>1, <3>3
  <2>14. TypeOK'
    <3>1. groupMap' \in [Class -> Seq(known')]
      BY <2>4, <2>5
    <3> QED
      BY <2>1, <2>13, <3>1 DEF TypeOK
  <2>15. PendingFree'
    BY <2>13, GidAssumption DEF PendingFree
  <2>16. Agree' /\ Cover'
    BY <2>13 DEF Agree, Cover
  <2> QED
    BY <1>2, <2>1, <2>10, <2>11, <2>12, <2>14, <2>15, <2>16 DEF IInv
<1>3. CASE BeginAssign /\ known' = {}
  BY <1>1, <1>3 DEF BeginAssign
<1> QED
  BY <1>1, <1>2, <1>3

\* Join keeps the invariant.
LEMMA InvJoin == ASSUME IInv, NEW gids \in SUBSET Gid, Join(gids) PROVE IInv'
<1> DEFINE new == gids \ known
           c == [getLastCfg EXCEPT !.groups = @ \cup new]
<1>0. TypeOK /\ Disjoint(g2shard) /\ Agree /\ Cover /\ shardToAssign = <<>>
  BY DEF IInv, Join
<1>1. /\ ~assigning /\ AddConfig(c) /\ known' = known \cup new /\ g2shard' = g2shard
      /\ BeginAssign \/ UNCHANGED <<assigning, groupMap, shardToAssign>>
  BY DEF Join
<1>2. getLastCfg \in Config
  BY SMTT(30), <1>0 DEF TypeOK, getLastCfg
<1>3. c \in Config /\ c.shards = shards
  BY <1>0, <1>2 DEF Config, TypeOK, shards
<1> HIDE DEF c
<1>4. configs' \in Seq(Config) /\ configs' # <<>> /\ shards' = shards
  BY <1>0, <1>1, <1>3, AddFacts DEF shards
<1>5. /\ known' \subseteq Gid /\ g2shard' \in [Gid -> Seq(Shard)]
      /\ \A g \in Gid \ known' : g2shard'[g] = <<>>
  BY <1>0, <1>1 DEF TypeOK
<1>6. \A s \in Shard, g \in Gid, k \in Nat : Held(g2shard', g, k, s) => shards'[s] = g
  BY <1>0, <1>1, <1>4 DEF Agree
<1>7. \A s \in Shard : (\E g \in Gid, k \in Nat : Held(g2shard', g, k, s)) \/ shards'[s] = NoGroup
  <2>1. DOMAIN shardToAssign = {}
    BY SMTT(30), <1>0
  <2> QED
    BY <1>0, <1>1, <1>4, <2>1 DEF Cover
<1>8. Disjoint(g2shard')
  BY <1>0, <1>1
<1> QED
  BY <1>1, <1>4, <1>5, <1>6, <1>7, <1>8, InvOperation

\* Leave keeps the invariant.
LEMMA InvLeave == ASSUME IInv, NEW gids \in SUBSET Gid, Leave(gids) PROVE IInv'
<1> DEFINE gone == gids \cap known
           free(s) == \E g \in gone : \E k \in DOMAIN g2shard[g] : g2shard[g][k] = s
           c == [shards |-> [s \in Shard |-> IF free(s) THEN NoGroup ELSE getLastCfg.shards[s]],
                 groups |-> getLastCfg.groups \ gone]
<1>0. TypeOK /\ Disjoint(g2shard) /\ Agree /\ Cover /\ shardToAssign = <<>> /\ known \subseteq Gid
  BY DEF IInv, Leave, LeaveFreeing, TypeOK
<1>1. /\ ~assigning /\ AddConfig(c) /\ known' = known \ gone
      /\ g2shard' = [g \in Gid |-> IF g \in gone THEN <<>> ELSE g2shard[g]]
      /\ BeginAssign \/ UNCHANGED <<assigning, groupMap, shardToAssign>>
  BY DEF Leave, LeaveFreeing
<1>2. getLastCfg \in Config
  BY SMTT(30), <1>0 DEF TypeOK, getLastCfg
<1>3. /\ c \in Config
      /\ \A s \in Shard : c.shards[s] = IF free(s) THEN NoGroup ELSE shards[s]
  <2> HIDE DEF free
  <2> QED
    BY <1>2 DEF Config, Owner, shards
<1> HIDE DEF c
<1>4. /\ configs' \in Seq(Config) /\ configs' # <<>>
      /\ \A s \in Shard : shards'[s] = IF free(s) THEN NoGroup ELSE shards[s]
  <2> HIDE DEF free
  <2>1. configs' \in Seq(Config) /\ configs' # <<>> /\ getLastCfg' = c
    BY <1>0, <1>1, <1>3, AddFacts
  <2> QED
    BY <1>3, <2>1 DEF shards
<1>5. /\ known' \subseteq Gid /\ g2shard' \in [Gid -> Seq(Shard)]
      /\ \A g \in Gid \ known' : g2shard'[g] = <<>>
  BY <1>0, <1>1 DEF TypeOK
<1>6. \A s \in Shard : free(s) <=> \E g \in gone, k \in Nat : Held(g2shard, g, k, s)
  <2>1. \A g \in Gid : DOMAIN g2shard[g] \subseteq Nat
    BY SMTT(30), <1>0 DEF TypeOK
  <2>2. gone \subseteq Gid
    BY <1>0
  <2> HIDE DEF gone
  <2> QED
    BY <2>1, <2>2 DEF Held
<1> HIDE DEF free
<1>7. \A g \in Gid, k \in Nat, s \in Shard :
         Held(g2shard', g, k, s) <=> Held(g2shard, g, k, s) /\ g \notin gone
  BY SMTT(30), <1>1 DEF Held
<1>8. Disjoint(g2shard')
  BY <1>0, <1>7 DEF Disjoint
<1>9. ASSUME NEW s \in Shard, NEW g \in Gid, NEW k \in Nat, Held(g2shard', g, k, s)
      PROVE  shards'[s] = g
  <2>1. Held(g2shard, g, k, s) /\ g \notin gone
    BY <1>7, <1>9
  <2>2. ~free(s)
    <3> SUFFICES ASSUME free(s) PROVE FALSE
      OBVIOUS
    <3>1. PICK h \in gone, l \in Nat : Held(g2shard, h, l, s)
      BY <1>6
    <3>2. g = h
      BY <1>0, <2>1, <3>1 DEF Disjoint
    <3> QED
      BY <2>1, <3>2
  <2> QED
    BY <1>0, <1>4, <2>1, <2>2 DEF Agree
<1>10. ASSUME NEW s \in Shard
       PROVE  (\E g \in Gid, k \in Nat : Held(g2shard', g, k, s)) \/ shards'[s] = NoGroup
  <2>1. CASE free(s)
    BY <1>4, <2>1
  <2>2. CASE ~free(s)
    <3>1. CASE shards[s] = NoGroup
      BY <1>4, <2>2, <3>1
    <3>2. CASE \E g \in Gid, k \in Nat : Held(g2shard, g, k, s)
      BY <1>6, <1>7, <2>2, <3>2
    <3>3. DOMAIN shardToAssign = {}
      BY SMTT(30), <1>0
    <3> QED
      BY <1>0, <3>1, <3>2, <3>3 DEF Cover
  <2> QED
    BY <2>1, <2>2
<1> QED
  BY <1>1, <1>4, <1>5, <1>8, <1>9, <1>10, InvOperation

\* Move keeps the invariant.
LEMMA InvMove == ASSUME IInv, NEW x \in Shard, NEW gid \in Gid, Move(x, gid) PROVE IInv'
<1> DEFINE old == shards[x]
           cut == [g \in Gid |-> IF g = old THEN Without(g2shard[g], x) ELSE g2shard[g]]
           c == [getLastCfg EXCEPT !.shards[x] = gid]
<1>0. TypeOK /\ Disjoint(g2shard) /\ Agree /\ Cover /\ shardToAssign = <<>> /\ known \subseteq Gid
      /\ g2shard \in [Gid -> Seq(Shard)]
  BY DEF IInv, Move, TypeOK
<1>1. /\ ~assigning /\ AddConfig(c) /\ known' = known \cup {gid}
      /\ g2shard' = [cut EXCEPT ![gid] = Append(@, x)]
      /\ UNCHANGED <<assigning, groupMap, shardToAssign>>
  BY DEF Move, shards
<1>2. getLastCfg \in Config
  BY SMTT(30), <1>0 DEF TypeOK, getLastCfg
<1>3. /\ c \in Config
      /\ \A s \in Shard : c.shards[s] = IF s = x THEN gid ELSE shards[s]
  BY <1>2 DEF Config, Owner, shards
<1> HIDE DEF c
<1>4. /\ configs' \in Seq(Config) /\ configs' # <<>>
      /\ \A s \in Shard : shards'[s] = IF s = x THEN gid ELSE shards[s]
  <2>1. configs' \in Seq(Config) /\ configs' # <<>> /\ getLastCfg' = c
    BY <1>0, <1>1, <1>3, AddFacts
  <2> QED
    BY <1>3, <2>1 DEF shards
<1>5. ASSUME NEW g \in Gid
      PROVE  /\ Without(g2shard[g], x) \in Seq(Shard)
             /\ \A k \in DOMAIN Without(g2shard[g], x) :
                   /\ Without(g2shard[g], x)[k] # x
                   /\ \E l \in DOMAIN g2shard[g] : g2shard[g][l] = Without(g2shard[g], x)[k]
             /\ \A a, b \in DOMAIN Without(g2shard[g], x) :
                   Without(g2shard[g], x)[a] = Without(g2shard[g], x)[b] => a = b
             /\ \A l \in DOMAIN g2shard[g] : g2shard[g][l] # x =>
                   \E k \in DOMAIN Without(g2shard[g], x) : Without(g2shard[g], x)[k] = g2shard[g][l]
  <2>1. g2shard[g] \in Seq(Shard)
    BY <1>0
  <2>2. \A a, b \in DOMAIN g2shard[g] : g2shard[g][a] = g2shard[g][b] => a = b
    <3> SUFFICES ASSUME NEW a \in DOMAIN g2shard[g], NEW b \in DOMAIN g2shard[g],
                        g2shard[g][a] = g2shard[g][b]
                 PROVE  a = b
      OBVIOUS
    <3>1. a \in Nat /\ b \in Nat /\ g2shard[g][a] \in Shard
      BY SMTT(30), <2>1
    <3>2. Held(g2shard, g, a, g2shard[g][a]) /\ Held(g2shard, g, b, g2shard[g][a])
      BY DEF Held
    <3> QED
      BY <1>0, <3>1, <3>2 DEF Disjoint
  <2> QED
    BY <2>1, <2>2, WithoutFacts
<1>6. cut \in [Gid -> Seq(Shard)]
  BY <1>0, <1>5
<1>7. \A g \in Gid, k \in Nat, s \in Shard : Held(cut, g, k, s) =>
         s # x /\ \E l \in Nat : Held(g2shard, g, l, s)
  <2> SUFFICES ASSUME NEW g \in Gid, NEW k \in Nat, NEW s \in Shard, Held(cut, g, k, s)
               PROVE  s # x /\ \E l \in Nat : Held(g2shard, g, l, s)
    OBVIOUS
  <2>1. CASE g = old
    <3> DEFINE w == Without(g2shard[g], x)
    <3>1. k \in DOMAIN w /\ w[k] = s
      BY <2>1 DEF Held
    <3>2. \A n \in DOMAIN w : w[n] # x /\ \E l \in DOMAIN g2shard[g] : g2shard[g][l] = w[n]
      BY <1>5
    <3> HIDE DEF w
    <3>3. PICK l \in DOMAIN g2shard[g] : g2shard[g][l] = s
      BY <3>1, <3>2
    <3>4. l \in Nat
      BY SMTT(30), <1>0
    <3> QED
      BY <3>1, <3>2, <3>3, <3>4 DEF Held
  <2>2. CASE g # old
    <3>1. Held(g2shard, g, k, s)
      BY <2>2 DEF Held
    <3>2. s # x
      BY <1>0, <2>2, <3>1 DEF Agree
    <3> QED
      BY <3>1, <3>2
  <2> QED
    BY <2>1, <2>2
<1>8. \A g \in Gid, l \in Nat, s \in Shard : Held(g2shard, g, l, s) /\ s # x =>
         \E k \in Nat : Held(cut, g, k, s)
  <2> SUFFICES ASSUME NEW g \in Gid, NEW l \in Nat, NEW s \in Shard, Held(g2shard, g, l, s), s # x
               PROVE  \E k \in Nat : Held(cut, g, k, s)
    OBVIOUS
  <2>1. CASE g = old
    <3>1. PICK k \in DOMAIN Without(g2shard[g], x) : Without(g2shard[g], x)[k] = s
      BY SMTT(30), <1>5 DEF Held
    <3>2. k \in Nat
      BY SMTT(30), <1>5
    <3> QED
      BY <2>1, <3>1, <3>2 DEF Held
  <2>2. CASE g # old
    BY <2>2 DEF Held
  <2> QED
    BY <2>1, <2>2
<1>9. Disjoint(cut)
  <2> SUFFICES ASSUME NEW s \in Shard, NEW g \in Gid, NEW h \in Gid, NEW k \in Nat, NEW l \in Nat,
                      Held(cut, g, k, s), Held(cut, h, l, s)
               PROVE  g = h /\ k = l
    BY DEF Disjoint
  <2>1. g = h
    BY <1>0, <1>7 DEF Disjoint
  <2>2. CASE g = old
    <3> DEFINE w == Without(g2shard[g], x)
    <3>1. k \in DOMAIN w /\ w[k] = s /\ l \in DOMAIN w /\ w[l] = s
      BY <2>1, <2>2 DEF Held
    <3>2. \A a, b \in DOMAIN w : w[a] = w[b] => a = b
      BY <1>5
    <3> HIDE DEF w
    <3> QED
      BY <2>1, <3>1, <3>2
  <2>3. CASE g # old
    <3>1. Held(g2shard, g, k, s) /\ Held(g2shard, g, l, s)
      BY <2>1, <2>3 DEF Held
    <3> QED
      BY <1>0, <2>1, <3>1 DEF Disjoint
  <2> QED
    BY <2>1, <2>2, <2>3
<1>10. g2shard' = Push(cut, gid, x)
  BY <1>1, <1>6 DEF Push
<1>11. \A g \in Gid \ known : cut[g] = <<>>
  <2> SUFFICES ASSUME NEW g \in Gid \ known PROVE cut[g] = <<>>
    OBVIOUS
  <2>1. g2shard[g] = <<>>
    BY <1>0 DEF TypeOK
  <2>2. Without(<<>>, x) = <<>>
    BY SMTT(30) DEF Without
  <2> QED
    BY <2>1, <2>2
<1> HIDE DEF cut, old
<1> DEFINE len == Len(cut[gid])
<1>12. /\ g2shard' \in [Gid -> Seq(Shard)]
       /\ \A g \in Gid, k \in Nat, s \in Shard :
             Held(g2shard', g, k, s) <=> Held(cut, g, k, s) \/ (g = gid /\ k = len + 1 /\ s = x)
       /\ \A g \in Gid \ {gid} : g2shard'[g] = cut[g]
       /\ len + 1 \in Nat
  <2>1. \A g \in Gid, k \in Nat, s \in Shard :
             Held(Push(cut, gid, x), g, k, s) <=> Held(cut, g, k, s) \/ (g = gid /\ k = len + 1 /\ s = x)
    BY <1>6, PushFacts
  <2>2. Push(cut, gid, x) \in [Gid -> Seq(Shard)]
    BY <1>6, PushFacts
  <2>3. \A g \in Gid \ {gid} : Push(cut, gid, x)[g] = cut[g]
    BY <1>6, PushFacts
  <2>4. len + 1 \in Nat
    BY SMTT(30), <1>6
  <2> QED
    BY <1>10, <2>1, <2>2, <2>3, <2>4
<1> HIDE DEF len
<1>13. known' \subseteq Gid /\ \A g \in Gid \ known' : g2shard'[g] = <<>>
  BY <1>0, <1>1, <1>11, <1>12
<1>14. Disjoint(g2shard')
  <2> SUFFICES ASSUME NEW s \in Shard, NEW g \in Gid, NEW h \in Gid, NEW k \in Nat, NEW l \in Nat,
                      Held(g2shard', g, k, s), Held(g2shard', h, l, s)
               PROVE  g = h /\ k = l
    BY DEF Disjoint
  <2>1. CASE s = x
    <3>1. (g = gid /\ k = len + 1) /\ (h = gid /\ l = len + 1)
      BY <1>7, <1>12, <2>1
    <3> QED
      BY <3>1
  <2>2. CASE s # x
    <3>1. Held(cut, g, k, s) /\ Held(cut, h, l, s)
      BY <1>12, <2>2
    <3> QED
      BY <1>9, <3>1 DEF Disjoint
  <2> QED
    BY <2>1, <2>2
<1>15. ASSUME NEW s \in Shard, NEW g \in Gid, NEW k \in Nat, Held(g2shard', g, k, s)
       PROVE  shards'[s] = g
  <2>1. CASE s = x
    BY <1>4, <1>7, <1>12, <1>15, <2>1
  <2>2. CASE s # x
    <3>1. PICK l \in Nat : Held(g2shard, g, l, s)
      BY <1>7, <1>12, <1>15, <2>2
    <3> QED
      BY <1>0, <1>4, <2>2, <3>1 DEF Agree
  <2> QED
    BY <2>1, <2>2
<1>16. ASSUME NEW s \in Shard
       PROVE  (\E g \in Gid, k \in Nat : Held(g2shard', g, k, s)) \/ shards'[s] = NoGroup
  <2>1. CASE s = x
    BY <1>12, <2>1
  <2>2. CASE s # x
    <3>1. CASE shards[s] = NoGroup
      BY <1>4, <2>2, <3>1
    <3>2. CASE \E g \in Gid, k \in Nat : Held(g2shard, g, k, s)
      BY <1>8, <1>12, <2>2, <3>2
    <3>3. DOMAIN shardToAssign = {}
      BY SMTT(30), <1>0
    <3> QED
      BY <1>0, <3>1, <3>2, <3>3 DEF Cover
  <2> QED
    BY <2>1, <2>2
<1> QED
  BY <1>1, <1>4, <1>12, <1>13, <1>14, <1>15, <1>16, InvOperation

-----------------------------------------------------------------------------
(* The theorems.                                                           *)

\* StartServer leaves a state with the invariant: no groups, all shards with group 0.
LEMMA InvInit == Init => IInv
<1> SUFFICES ASSUME Init PROVE IInv
  OBVIOUS
<1>1. /\ configs = <<[shards |-> [s \in Shard |-> NoGroup], groups |-> {}]>>
      /\ known = {} /\ g2shard = [g \in Gid |-> <<>>] /\ assigning = FALSE
      /\ groupMap = NoLists /\ shardToAssign = <<>>
  BY DEF Init
<1> DEFINE c == [shards |-> [s \in Shard |-> NoGroup], groups |-> {}]
<1>2. c \in Config
  BY DEF Config, Owner
<1>3. configs \in Seq(Config) /\ configs # <<>> /\ getLastCfg = c
  BY SMTT(30), <1>1, <1>2 DEF getLastCfg
<1>4. shards = [s \in Shard |-> NoGroup]
  BY <1>3 DEF shards
<1>5. TypeOK
  <2>1. groupMap \in [Class -> Seq(known)]
    BY SMTT(30), <1>1 DEF NoLists
  <2>2. g2shard \in [Gid -> Seq(Shard)] /\ \A g \in Gid : g2shard[g] = <<>>
    BY SMTT(30), <1>1
  <2>3. known \subseteq Gid /\ shardToAssign \in Seq(Shard)
    BY SMTT(30), <1>1
  <2>4. assigning \in BOOLEAN
    BY <1>1
  <2> QED
    BY <1>3, <2>1, <2>2, <2>3, <2>4 DEF TypeOK
<1>6. \A g \in Gid, k \in Nat, s \in Shard : ~Held(g2shard, g, k, s)
  BY SMTT(30), <1>1 DEF Held
<1>7. \A k \in Class, a \in Nat, g \in Gid : ~In(groupMap, k, a, g)
  BY SMTT(30), <1>1 DEF In, NoLists
<1>8. Disjoint(g2shard) /\ Agree
  BY <1>6 DEF Disjoint, Agree
<1>9. DOMAIN shardToAssign = {}
  BY SMTT(30), <1>1
<1>10. PendingFree /\ Cover
  BY <1>1, <1>4, <1>9 DEF PendingFree, Cover
<1>11. Once(groupMap) /\ Sorted
  BY <1>7 DEF Once, Sorted
<1> QED
  BY <1>1, <1>5, <1>8, <1>10, <1>11 DEF IInv

\* A step that changes nothing keeps the invariant.
LEMMA InvStutter == ASSUME IInv, UNCHANGED vars PROVE IInv'
<1>1. /\ configs' = configs /\ known' = known /\ g2shard' = g2shard
      /\ assigning' = assigning /\ groupMap' = groupMap /\ shardToAssign' = shardToAssign
  BY DEF vars
<1>2. TypeOK' /\ Disjoint(g2shard)' /\ PendingFree' /\ Once(groupMap)'
  BY <1>1 DEF IInv, TypeOK, PendingFree
<1>3. shards' = shards /\ share' = share
  BY <1>1 DEF shards, getLastCfg, share
<1>4. Agree' /\ Cover'
  BY <1>1, <1>3 DEF IInv, Agree, Cover
<1>5. Sorted' /\ (Listed => Listed')
  BY <1>1, <1>3 DEF IInv, Sorted, Fits, Listed
<1> QED
  BY <1>1, <1>2, <1>4, <1>5 DEF IInv

\* Every operation and every iteration of navieAssign keeps the invariant.
LEMMA InvNext == IInv /\ [Next]_vars => IInv'
<1> SUFFICES ASSUME IInv, [Next]_vars PROVE IInv'
  OBVIOUS
<1>1. CASE UNCHANGED vars
  BY <1>1, InvStutter
<1>2. CASE Next
  BY <1>2, InvJoin, InvLeave, InvMove, InvCutMore, InvAssignNext, InvFillLess, InvEndAssign
     DEF Next, navieAssign
<1> QED
  BY <1>1, <1>2

\* The inductive invariant always holds.
THEOREM Invariant == Spec => []IInv
BY InvInit, InvNext, PTL DEF Spec

\* Whatever the number of shards and the groups, the configurations, g2shard
\* and navieAssign's lists keep their types.
THEOREM TypeCorrect == Spec => []TypeOK
<1>1. IInv => TypeOK
  BY DEF IInv
<1> QED
  BY <1>1, Invariant, PTL

\* navieAssign never indexes an empty slice: not groupMap[tok][0], not
\* groupMap[tplus][0], not the last shard of the group it takes one from.
THEOREM NeverPanics == Spec => []NoIndexPanic
BY IInvNoPanic, Invariant, PTL

\* Between two operations g2shard and the newest configuration agree.
THEOREM AlwaysConsistent == Spec => []Consistent
<1>1. IInv => Consistent
  <2> SUFFICES ASSUME IInv, ~assigning, NEW s \in Shard
               PROVE  LET owner == getLastCfg.shards[s] IN
                      /\ \A g \in Gid, k \in 1 .. NShards : At(g, k, s) => g = owner
                      /\ owner # NoGroup =>
                           \E k \in 1 .. NShards : At(owner, k, s)
                              /\ \A l \in 1 .. Len(g2shard[owner]) : At(owner, l, s) => l = k
    BY DEF Consistent
  <2> DEFINE owner == getLastCfg.shards[s]
  <2>0. TypeOK /\ Disjoint(g2shard) /\ Agree /\ Cover /\ shardToAssign = <<>>
    BY DEF IInv
  <2>1. \A g \in Gid, k \in 1 .. NShards : At(g, k, s) => g = owner
    BY SMTT(30), <2>0, NShardsAssumption DEF Agree, At, Held, shards
  <2>2. ASSUME owner # NoGroup
        PROVE  \E k \in 1 .. NShards : At(owner, k, s)
                  /\ \A l \in 1 .. Len(g2shard[owner]) : At(owner, l, s) => l = k
    <3>1. PICK g \in Gid, k \in Nat : Held(g2shard, g, k, s)
      <4>1. DOMAIN shardToAssign = {}
        BY SMTT(30), <2>0
      <4> QED
        BY <2>0, <2>2, <4>1 DEF Cover, shards
    <3>2. g = owner
      BY <2>0, <3>1 DEF Agree, shards
    <3>3. k \in 1 .. Len(g2shard[g]) /\ g2shard[g] \in Seq(Shard)
      BY <2>0, <3>1, HolderFacts DEF TypeOK
    <3>4. \A l \in 1 .. Len(g2shard[g]) : At(g, l, s) => l = k
      BY SMTT(30), <2>0, <3>1, <3>3 DEF Disjoint, At, Held
    <3>5. k <= NShards
      <4>1. Len(g2shard[g]) <= NShards
        <5> SUFFICES ASSUME ~(Len(g2shard[g]) <= NShards) PROVE FALSE
          OBVIOUS
        <5> DEFINE n == Len(g2shard[g])
        <5>0. n \in Nat /\ n > NShards
          BY SMTT(30), <3>3, NShardsAssumption
        <5>1. IsFiniteSet(1 .. n) /\ Cardinality(1 .. n) = n
          <6>1. 1 \in Int /\ n \in Int /\ ~(1 > n)
            BY SMTT(30), <5>0, NShardsAssumption
          <6> HIDE DEF n
          <6>2. IsFiniteSet(1 .. n) /\ Cardinality(1 .. n) = n - 1 + 1
            BY <6>1, FS_Interval
          <6> QED
            BY SMTT(30), <6>2, <5>0
        <5>2. g2shard[g] \in [1 .. n -> Shard]
          BY SMTT(30), <3>3
        <5> HIDE DEF n
        <5>3. PICK a \in 1 .. n, b \in 1 .. n : a # b /\ g2shard[g][a] = g2shard[g][b]
          BY <5>0, <5>1, <5>2, ShardCount, FS_PigeonHole
        <5>4. Held(g2shard, g, a, g2shard[g][a]) /\ Held(g2shard, g, b, g2shard[g][a])
          BY <5>2, <5>3 DEF Held
        <5>5. a \in Nat /\ b \in Nat /\ g2shard[g][a] \in Shard
          BY SMTT(30), <5>0, <5>2
        <5> QED
          BY <2>0, <5>3, <5>4, <5>5 DEF Disjoint
      <4> QED
        BY SMTT(30), <3>3, <4>1, NShardsAssumption
    <3>6. k \in 1 .. NShards /\ At(g, k, s)
      BY SMTT(30), <3>1, <3>3, <3>5, NShardsAssumption DEF At, Held
    <3> QED
      BY <3>2, <3>4, <3>6
  <2> QED
    BY <2>1, <2>2
<1> QED
  BY <1>1, Invariant, PTL

\* A group whose slice the newest configuration agrees with has as many shards
\* in the one as in the other.
LEMMA LoadIsLength ==
  ASSUME IInv, assigning, shardToAssign = <<>>, NEW g \in known
  PROVE  Load(getLastCfg, g) = Len(g2shard[g])
<1> DEFINE n == Len(g2shard[g])
           S == {s \in Shard : shards[s] = g}
<1>0. TypeOK /\ Disjoint(g2shard) /\ Agree /\ Cover
  BY DEF IInv
<1>1. g \in Gid /\ g2shard[g] \in Seq(Shard) /\ n \in Nat
  BY SMTT(30), <1>0 DEF TypeOK
<1>2. g2shard[g] \in [1 .. n -> S]
  <2> SUFFICES ASSUME NEW k \in 1 .. n PROVE g2shard[g][k] \in Shard /\ shards[g2shard[g][k]] = g
    BY SMTT(30), <1>1
  <2>1. g2shard[g][k] \in Shard /\ k \in Nat
    BY SMTT(30), <1>1
  <2>2. Held(g2shard, g, k, g2shard[g][k])
    BY SMTT(30), <1>1 DEF Held
  <2> QED
    BY <1>0, <1>1, <2>1, <2>2 DEF Agree
<1>3. \A a, b \in 1 .. n : g2shard[g][a] = g2shard[g][b] => a = b
  <2> SUFFICES ASSUME NEW a \in 1 .. n, NEW b \in 1 .. n, g2shard[g][a] = g2shard[g][b] PROVE a = b
    OBVIOUS
  <2>1. a \in Nat /\ b \in Nat /\ g2shard[g][a] \in Shard
    BY SMTT(30), <1>1
  <2>2. Held(g2shard, g, a, g2shard[g][a]) /\ Held(g2shard, g, b, g2shard[g][a])
    BY SMTT(30), <1>1 DEF Held
  <2> QED
    BY <1>0, <1>1, <2>1, <2>2 DEF Disjoint
<1>4. \A s \in S : \E k \in 1 .. n : g2shard[g][k] = s
  <2> SUFFICES ASSUME NEW s \in Shard, shards[s] = g PROVE \E k \in 1 .. n : g2shard[g][k] = s
    OBVIOUS
  <2>1. PICK h \in Gid, k \in Nat : Held(g2shard, h, k, s)
    <3>1. DOMAIN shardToAssign = {}
      BY SMTT(30)
    <3> QED
      BY <1>0, <3>1 DEF Cover
  <2>2. h = g
    BY <1>0, <2>1 DEF Agree
  <2> QED
    BY SMTT(30), <1>1, <2>1, <2>2 DEF Held
<1> HIDE DEF S
<1>5. g2shard[g] \in Bijection(1 .. n, S)
  BY <1>2, <1>3, <1>4 DEF Bijection, Injection, Surjection, IsInjective
<1>6. Cardinality(S) = n
  <2>1. IsFiniteSet(1 .. n) /\ Cardinality(1 .. n) = n
    <3> HIDE DEF n
    <3>1. 1 \in Int /\ n \in Int
      BY SMTT(30), <1>1
    <3>2. IsFiniteSet(1 .. n) /\ Cardinality(1 .. n) = IF 1 > n THEN 0 ELSE n - 1 + 1
      BY <3>1, FS_Interval
    <3> QED
      BY SMTT(30), <1>1, <3>2
  <2>2. ExistsBijection(1 .. n, S)
    BY <1>5 DEF ExistsBijection
  <2> HIDE DEF n
  <2> QED
    BY <2>1, <2>2, FS_Bijection
<1> QED
  BY <1>6 DEF S, Load, shards

\* When navieAssign returns, every shard has a known group and every known
\* group NShards / groups shards or one more.
LEMMA EndsBalanced ==
  ASSUME IInv, EndAssign
  PROVE  /\ \A s \in Shard : getLastCfg.shards[s] \in known
         /\ \A g \in known : Load(getLastCfg, g) \in {share, share + 1}
<1>0. /\ TypeOK /\ Agree /\ Cover /\ Listed /\ Sorted /\ assigning
      /\ shardToAssign = <<>> /\ groupMap["tmore"] = <<>> /\ groupMap["tless"] = <<>>
  BY DEF IInv, EndAssign
<1>1. ASSUME NEW s \in Shard PROVE getLastCfg.shards[s] \in known
  <2>1. PICK g \in Gid, k \in Nat : Held(g2shard, g, k, s)
    <3>1. DOMAIN shardToAssign = {}
      BY SMTT(30), <1>0
    <3> QED
      BY <1>0, <3>1 DEF Cover
  <2>2. g \in known
    BY <1>0, <2>1, HolderFacts
  <2> QED
    BY <1>0, <2>1, <2>2 DEF Agree, shards
<1>2. ASSUME NEW g \in known PROVE Load(getLastCfg, g) \in {share, share + 1}
  <2>1. Load(getLastCfg, g) = Len(g2shard[g])
    BY <1>0, LoadIsLength
  <2>2. Len(g2shard[g]) \in {share, share + 1}
    <3>1. CASE Len(g2shard[g]) = share
      BY <3>1
    <3>2. CASE \E c \in Class, a \in Nat : In(groupMap, c, a, g)
      <4>1. PICK c \in Class, a \in Nat : In(groupMap, c, a, g)
        BY <3>2
      <4>2. c \in {"tok", "tplus"}
        BY SMTT(30), <1>0, <4>1 DEF In, Class
      <4>3. g \in Gid
        BY <1>0 DEF TypeOK
      <4>4. Fits(Len(g2shard[g]), c)
        BY <1>0, <4>1, <4>3 DEF Sorted
      <4> QED
        BY <4>2, <4>4 DEF Fits
    <3> QED
      BY <1>0, <3>1, <3>2 DEF Listed
  <2> QED
    BY <2>1, <2>2
<1> QED
  BY <1>1, <1>2

\* Whatever navieAssign returns from, the shards are spread evenly then.
THEOREM AlwaysBalanced == Spec => Balanced
<1>1. ASSUME IInv, [Next]_vars, assigning, ~assigning' PROVE EndAssign
  BY <1>1 DEF Next, navieAssign, vars, Join, Leave, LeaveFreeing, Move, CutMore, AssignNext,
              FillLess
<1>2. IInv /\ [Next]_vars =>
        [assigning /\ ~assigning' =>
           /\ \A s \in Shard : getLastCfg.shards[s] \in known
           /\ \A g \in known : Load(getLastCfg, g) \in {share, share + 1}]_vars
  BY <1>1, EndsBalanced
<1> QED
  BY <1>2, Invariant, PTL DEF Spec, Balanced
-----------------------------------------------------------------------------
(* The configurations the services query.                                 *)

\* What relates the newest configuration to the one before while navieAssign
\* runs: nothing of it but the groups is settled.
Growing ==
  LET before == configs[Len(configs) - 1].groups
      after == getLastCfg.groups
  IN  (before \subseteq after /\ before # after) \/ after \subseteq before

HInv ==
  /\ getLastCfg.groups \subseteq known
  /\ assigning => Len(configs) > 1 /\ Growing

\* Both modules count alike.
LEMMA SameCardinality == ASSUME NEW S PROVE History!Cardinality(S) = Cardinality(S)
BY DEF History!Cardinality, Cardinality

\* The initial configuration is all there is to see, and names no group.
LEMMA HistoryInit == Init => HInv /\ History!Init
<1> SUFFICES ASSUME Init PROVE HInv /\ History!Init
  OBVIOUS
<1>1. published = configs /\ configs = <<[shards |-> [s \in Shard |-> NoGroup], groups |-> {}]>>
  BY DEF Init, published
<1>2. getLastCfg.groups = {}
  BY <1>1 DEF getLastCfg
<1> QED
  BY <1>1, <1>2 DEF HInv, Init, History!Init, History!NoConfig, History!Shard, Shard

\* addConfig leaves the configurations there are, and the new one is the last.
LEMMA Appended ==
  ASSUME TypeOK, NEW c \in Config, AddConfig(c)
  PROVE  /\ configs \in Seq(Config) /\ Len(configs) \in Nat \ {0}
         /\ configs' = Append(configs, c) /\ Len(configs') = Len(configs) + 1
         /\ configs'[Len(configs')] = c /\ configs'[Len(configs') - 1] = configs[Len(configs)]
         /\ Front(configs') = configs
<1>1. /\ configs \in Seq(Config) /\ Len(configs) \in Nat \ {0} /\ configs' = Append(configs, c)
      /\ configs # <<>>
  BY SMTT(30) DEF TypeOK, AddConfig
<1>2. /\ configs' \in Seq(Config) /\ configs' # <<>> /\ Len(configs') = Len(configs) + 1
      /\ \A k \in 1 .. Len(configs) : configs'[k] = configs[k]
      /\ configs'[Len(configs) + 1] = c
  BY SMTT(30), <1>1, AppendFacts
<1>3. Front(configs') = configs
  BY SMTT(30), <1>1 DEF Front
<1>4. Len(configs') - 1 = Len(configs) /\ Len(configs) \in 1 .. Len(configs)
  BY SMTT(30), <1>1, <1>2
<1>5. configs'[Len(configs')] = c
  BY <1>2
<1>6. configs'[Len(configs') - 1] = configs[Len(configs)]
  BY <1>2, <1>4
<1> QED
  BY <1>1, <1>2, <1>3, <1>5, <1>6

\* An operation that ends without navieAssign publishes its configuration.
LEMMA Published ==
  ASSUME TypeOK, NEW c \in Config, AddConfig(c), ~assigning, ~assigning'
  PROVE  published' = Append(published, History!Newest') /\ History!Newest = getLastCfg
         /\ History!Newest' = c /\ getLastCfg' = c
<1>1. published = configs /\ published' = configs'
  BY DEF published
<1> QED
  BY <1>1, Appended DEF History!Newest, getLastCfg

\* One that goes on in navieAssign shows nothing yet.
LEMMA Unpublished ==
  ASSUME TypeOK, NEW c \in Config, AddConfig(c), ~assigning, assigning'
  PROVE  published' = published
BY Appended DEF published

LEMMA HistoryJoin ==
  ASSUME IInv, HInv, NEW gids \in SUBSET Gid, Join(gids)
  PROVE  HInv' /\ (History!Next \/ UNCHANGED published)
<1> DEFINE new == gids \ known
           old == getLastCfg
           c == [old EXCEPT !.groups = old.groups \cup new]
<1>0. TypeOK /\ ~assigning /\ AddConfig(c) /\ known' = known \cup new
  BY DEF IInv, Join
<1>1. old \in Config
  BY SMTT(30), <1>0 DEF TypeOK, getLastCfg
<1>2. c \in Config /\ c.groups = old.groups \cup new /\ c.shards = old.shards
  BY <1>1 DEF Config
<1>3. getLastCfg' = c
  BY <1>0, <1>2, AddFacts
<1>4. old.groups \subseteq known
  BY DEF HInv
<1>5. getLastCfg'.groups \subseteq known'
  BY <1>0, <1>2, <1>3, <1>4
<1>6. CASE new = {}
  <2>1. ~assigning'
    BY <1>0, <1>6 DEF Join
  <2>2. c = old
    BY <1>1, <1>6 DEF Config
  <2>3. History!Newest' = History!Newest /\ published' = Append(published, History!Newest')
    BY <1>0, <1>2, <2>1, <2>2, Published
  <2> QED
    BY <1>5, <2>1, <2>3 DEF HInv, History!Next, History!Join
<1>7. CASE new # {}
  <2>1. assigning'
    BY <1>0, <1>7 DEF Join, BeginAssign
  <2>2. published' = published
    BY <1>0, <1>2, <2>1, Unpublished
  <2>3. /\ Len(configs') = Len(configs) + 1 /\ Len(configs) \in Nat \ {0}
        /\ configs'[Len(configs') - 1] = old
    BY <1>0, <1>2, Appended DEF getLastCfg
  <2>4. old.groups \subseteq c.groups /\ old.groups # c.groups
    BY <1>2, <1>4, <1>7
  <2>5. Growing'
    BY <1>3, <2>3, <2>4 DEF Growing
  <2>6. Len(configs') > 1
    BY SMTT(30), <2>3
  <2> QED
    BY <1>5, <2>2, <2>5, <2>6 DEF HInv
<1> QED
  BY <1>6, <1>7

\* Leave, with the groups it finds
LEMMA HistoryLeave ==
  ASSUME IInv, HInv, NEW gids \in SUBSET Gid, Leave(gids)
  PROVE  HInv' /\ (History!Next \/ UNCHANGED published)
<1> DEFINE gone == gids \cap known
           old == getLastCfg
           free(s) == \E g \in gone : \E k \in DOMAIN g2shard[g] : g2shard[g][k] = s
           c == [shards |-> [s \in Shard |-> IF free(s) THEN NoGroup ELSE old.shards[s]],
                 groups |-> old.groups \ gone]
<1>0. TypeOK /\ ~assigning /\ AddConfig(c) /\ known' = known \ gone
  BY DEF IInv, Leave, LeaveFreeing
<1>1. old \in Config /\ old.shards \in [Shard -> Owner] /\ old.groups \in SUBSET Gid
  <2>1. old \in Config
    BY SMTT(30), <1>0 DEF TypeOK, getLastCfg
  <2> QED
    BY <2>1 DEF Config
<1>2. c \in Config
  BY <1>1 DEF Config, Owner
<1>3. getLastCfg' = c
  BY <1>0, <1>2, AddFacts
<1>4. old.groups \subseteq known /\ c.groups = old.groups \ gone
  BY DEF HInv
<1>5. getLastCfg'.groups \subseteq known'
  BY <1>0, <1>3, <1>4
<1>6. CASE gone = {}
  <2>1. ~assigning'
    BY <1>0, <1>6 DEF Leave, LeaveFreeing
  <2>2. c.shards = old.shards /\ c.groups = old.groups
    BY <1>1, <1>6
  <2>3. c = old
    BY <1>1, <1>2, <2>2 DEF Config
  <2>4. History!Newest' = History!Newest /\ published' = Append(published, History!Newest')
    BY <1>0, <1>2, <2>1, <2>3, Published
  <2> QED
    BY <1>5, <2>1, <2>4 DEF HInv, History!Next, History!Leave
<1>7. CASE gone # {} /\ known' = {}
  <2>1. ~assigning'
    BY <1>0, <1>7 DEF Leave, LeaveFreeing, BeginAssign
  <2>2. c.groups = {}
    BY <1>0, <1>4, <1>7
  <2>3. ASSUME NEW s \in Shard PROVE c.shards[s] = NoGroup
    <3>1. CASE \E g \in Gid, k \in Nat : Held(g2shard, g, k, s)
      <4>1. PICK g \in Gid, k \in Nat : Held(g2shard, g, k, s)
        BY <3>1
      <4>2. g \in gone
        BY <1>0, <1>7, <4>1, HolderFacts
      <4>3. free(s)
        BY <4>1, <4>2 DEF Held
      <4> QED
        BY <4>3
    <3>2. CASE old.shards[s] = NoGroup
      BY <3>2
    <3>3. shardToAssign = <<>> /\ Cover
      BY <1>0 DEF IInv
    <3> QED
      BY SMTT(30), <3>1, <3>2, <3>3 DEF Cover, shards
  <2>4. c.shards = [s \in Shard |-> NoGroup]
    BY <2>3
  <2>5. c = History!NoConfig
    BY <2>2, <2>4 DEF History!NoConfig, History!Shard, Shard
  <2> HIDE DEF c
  <2>6. /\ History!Newest' = c /\ History!Newest = old
        /\ published' = Append(published, History!Newest')
    BY <1>0, <1>2, <2>1, Published
  <2>7. History!Leave
    BY <2>2, <2>5, <2>6 DEF History!Leave
  <2> QED
    BY <1>5, <2>1, <2>6, <2>7 DEF HInv, History!Next
<1>8. CASE gone # {} /\ known' # {}
  <2>1. assigning'
    BY <1>0, <1>8 DEF Leave, LeaveFreeing, BeginAssign
  <2>2. /\ Len(configs') = Len(configs) + 1 /\ Len(configs) \in Nat \ {0}
        /\ configs'[Len(configs') - 1] = old
    BY <1>0, <1>2, Appended DEF getLastCfg
  <2>3. c.groups \subseteq old.groups
    BY <1>4
  <2> HIDE DEF c
  <2>4. published' = published
    BY <1>0, <1>2, <2>1, Unpublished
  <2>5. Growing' /\ Len(configs') > 1
    BY SMTT(30), <1>3, <2>2, <2>3 DEF Growing
  <2> QED
    BY <1>5, <2>4, <2>5 DEF HInv
<1> QED
  BY <1>6, <1>7, <1>8

LEMMA HistoryMove ==
  ASSUME IInv, HInv, NEW s \in Shard, NEW gid \in Gid, Move(s, gid)
  PROVE  HInv' /\ (History!Next \/ UNCHANGED published)
<1> DEFINE old == getLastCfg
           c == [old EXCEPT !.shards[s] = gid]
<1>0. TypeOK /\ ~assigning /\ ~assigning' /\ AddConfig(c) /\ known' = known \cup {gid}
  BY DEF IInv, Move
<1>1. old \in Config /\ old.shards \in [Shard -> Owner] /\ old.groups \in SUBSET Gid
  <2>1. old \in Config
    BY SMTT(30), <1>0 DEF TypeOK, getLastCfg
  <2> QED
    BY <2>1 DEF Config
<1>2. c \in Config /\ c.groups = old.groups
  BY <1>1 DEF Config, Owner
<1>3. /\ History!Newest' = c /\ History!Newest = old /\ getLastCfg' = c
      /\ published' = Append(published, History!Newest')
  BY <1>0, <1>2, Published
<1>4. History!Move
  BY <1>3 DEF History!Move, History!Shard, Shard
<1> QED
  BY <1>0, <1>2, <1>3, <1>4 DEF HInv, History!Next

\* config.Shards[s] = gid touches neither the groups nor an older configuration.
LEMMA HistoryAssign ==
  ASSUME TypeOK, HInv, NEW s \in Shard, NEW gid \in Gid, Assign(s, gid),
         assigning, assigning', known' = known
  PROVE  HInv' /\ UNCHANGED published
<1> DEFINE n == Len(configs)
           c == [configs[n] EXCEPT !.shards[s] = gid]
<1>1. configs \in Seq(Config) /\ n \in Nat /\ n > 1 /\ configs[n] \in Config
  BY SMTT(30) DEF TypeOK, HInv
<1>2. c.groups = configs[n].groups /\ c \in Config
  BY <1>1 DEF Config, Owner
<1>3. configs' = [configs EXCEPT ![n] = c]
  BY DEF Assign
<1> HIDE DEF c
<1>4. /\ configs' \in Seq(Config) /\ Len(configs') = n /\ configs'[n] = c
      /\ \A k \in 1 .. n - 1 : configs'[k] = configs[k]
  BY SMTT(30), <1>1, <1>2, <1>3
<1>5. Front(configs') = Front(configs)
  <2>1. configs # <<>> /\ configs' # <<>>
    BY SMTT(30), <1>1, <1>4
  <2>2. /\ Front(configs) \in Seq(Config) /\ Len(Front(configs)) = n - 1
        /\ \A k \in 1 .. n - 1 : Front(configs)[k] = configs[k]
    BY <1>1, <2>1, FrontFacts
  <2>3. /\ Front(configs') \in Seq(Config) /\ Len(Front(configs')) = n - 1
        /\ \A k \in 1 .. n - 1 : Front(configs')[k] = configs'[k]
    BY <1>4, <2>1, FrontFacts
  <2> QED
    BY SMTT(30), <1>1, <1>4, <2>2, <2>3
<1>6. configs'[n - 1] = configs[n - 1]
  BY SMTT(30), <1>1, <1>4
<1>7. Growing' /\ getLastCfg'.groups = getLastCfg.groups
  BY <1>2, <1>4, <1>6 DEF Growing, HInv, getLastCfg
<1> QED
  BY <1>1, <1>4, <1>5, <1>7 DEF HInv, published

\* navieAssign's loops are not seen, and its return publishes a configuration
\* in which the shards are spread evenly.
LEMMA HistoryEnd ==
  ASSUME IInv, HInv, EndAssign
  PROVE  HInv' /\ History!Next
<1> DEFINE n == Len(configs)
           c == getLastCfg
<1>0. TypeOK /\ assigning /\ ~assigning' /\ configs' = configs /\ known' = known /\ known # {}
  BY DEF IInv, EndAssign
<1>1. configs \in Seq(Config) /\ n \in Nat /\ n > 1 /\ configs # <<>>
  BY SMTT(30), <1>0 DEF TypeOK, HInv
<1>2. /\ published = Front(configs) /\ published' = configs
      /\ published \in Seq(Config) /\ Len(published) = n - 1
      /\ \A k \in 1 .. n - 1 : published[k] = configs[k]
  BY <1>0, <1>1, FrontFacts DEF published
<1>3. History!Newest = configs[n - 1] /\ History!Newest' = c
  BY SMTT(30), <1>1, <1>2 DEF History!Newest, getLastCfg
<1>4. published' = Append(published, c)
  <2>1. c \in Config /\ c = configs[n]
    BY SMTT(30), <1>1 DEF getLastCfg
  <2>2. /\ Append(published, c) \in Seq(Config) /\ Len(Append(published, c)) = n
        /\ \A k \in 1 .. n - 1 : Append(published, c)[k] = configs[k]
        /\ Append(published, c)[n] = configs[n]
    BY SMTT(30), <1>1, <1>2, <2>1, AppendFacts
  <2> HIDE DEF c
  <2> QED
    BY SMTT(30), <1>1, <1>2, <2>2
<1>5. History!Spread(c)
  <2>1. /\ \A s \in Shard : c.shards[s] \in known
        /\ \A g \in known : Load(c, g) \in {share, share + 1}
    BY EndsBalanced
  <2>2. known \in SUBSET Gid /\ c.groups \subseteq known
    BY <1>0 DEF TypeOK, HInv
  <2>3. History!Shard = Shard /\ share = NShards \div Cardinality(known)
    BY DEF History!Shard, Shard, share, Share
  <2>4. \A g \in known : History!Load(c, g) = Load(c, g)
    BY <2>3, SameCardinality DEF History!Load, Load
  <2>5. \A g \in known : History!Load(c, g) \in {NShards \div History!Cardinality(known),
                                                NShards \div History!Cardinality(known) + 1}
    BY <2>1, <2>3, <2>4, SameCardinality
  <2>6. \A s \in History!Shard : c.shards[s] \in known
    BY <2>1, <2>3
  <2> HIDE DEF c
  <2> QED
    BY <2>2, <2>5, <2>6 DEF History!Spread
<1>6. Growing
  BY <1>0 DEF HInv
<1>7. History!Join \/ History!Leave
  BY <1>3, <1>5, <1>6 DEF Growing, History!Join, History!Leave
<1>8. HInv'
  BY <1>0 DEF HInv, getLastCfg
<1> QED
  BY <1>3, <1>4, <1>7, <1>8 DEF History!Next

LEMMA HistoryLoops ==
  ASSUME IInv, HInv, CutMore \/ AssignNext \/ FillLess
  PROVE  HInv' /\ UNCHANGED published
<1>0. TypeOK /\ assigning
  BY DEF IInv, CutMore, AssignNext, FillLess
<1>1. CASE CutMore
  BY <1>1 DEF CutMore, HInv, Growing, getLastCfg, published
<1>2. CASE AssignNext
  <2> DEFINE s == shardToAssign[1]
             gid == IF groupMap["tless"] # <<>> THEN groupMap["tless"][1] ELSE groupMap["tok"][1]
  <2>1. s \in Shard /\ gid \in Gid
    <3>1. shardToAssign \in Seq(Shard) /\ shardToAssign # <<>>
      BY <1>0, <1>2 DEF AssignNext, TypeOK
    <3>2. groupMap["tless"] \in Seq(known) /\ groupMap["tok"] \in Seq(known) /\ known \subseteq Gid
      BY <1>0 DEF TypeOK, Class
    <3>3. groupMap["tless"] # <<>> \/ groupMap["tok"] # <<>>
      BY <1>2 DEF AssignNext
    <3> QED
      BY <3>1, <3>2, <3>3, TailFacts
  <2>2. Assign(s, gid) /\ known' = known /\ assigning' = assigning
    BY <1>2 DEF AssignNext
  <2> HIDE DEF s, gid
  <2> QED
    BY <1>0, <2>1, <2>2, HistoryAssign
<1>3. CASE FillLess
  <2> DEFINE s == Last(g2shard[groupMap["tplus"][1]])
             gid == groupMap["tless"][1]
  <2>1. s \in Shard /\ gid \in Gid
    <3>1. /\ groupMap["tless"] \in Seq(known) /\ groupMap["tplus"] \in Seq(known)
          /\ groupMap["tless"] # <<>> /\ groupMap["tplus"] # <<>> /\ known \subseteq Gid
      BY <1>0, <1>3 DEF TypeOK, Class, FillLess
    <3>2. groupMap["tplus"][1] \in known /\ gid \in known
      BY <3>1, TailFacts
    <3>3. g2shard[groupMap["tplus"][1]] # <<>>
      BY <1>3, IInvNoPanic DEF FillLess, NoIndexPanic
    <3>4. g2shard[groupMap["tplus"][1]] \in Seq(Shard)
      BY <1>0, <3>1, <3>2 DEF TypeOK
    <3> QED
      BY <3>1, <3>2, <3>3, <3>4, FrontFacts
  <2>2. Assign(s, gid) /\ known' = known /\ assigning' = assigning
    BY <1>3 DEF FillLess
  <2> HIDE DEF s, gid
  <2> QED
    BY <1>0, <2>1, <2>2, HistoryAssign
<1> QED
  BY <1>1, <1>2, <1>3

\* What one replica's operations show a Query is a behaviour of ConfigHistory:
\* each Join, Leave and Move adds one configuration, at once and for good, and
\* spreads the shards as it should.
THEOREM Implements == Spec => ActsAsHistory
<1>1. Init => HInv /\ History!Init
  BY HistoryInit
<1>2. IInv /\ HInv /\ [Next]_vars => HInv' /\ [History!Next]_published
  <2> SUFFICES ASSUME IInv, HInv, [Next]_vars PROVE HInv' /\ [History!Next]_published
    OBVIOUS
  <2>1. CASE \E gids \in SUBSET Gid : Join(gids) \/ Leave(gids)
    BY <2>1, HistoryJoin, HistoryLeave
  <2>2. CASE \E s \in Shard, gid \in Gid : Move(s, gid)
    BY <2>2, HistoryMove
  <2>3. CASE EndAssign
    BY <2>3, HistoryEnd
  <2>4. CASE CutMore \/ AssignNext \/ FillLess
    BY <2>4, HistoryLoops
  <2>5. CASE UNCHANGED vars
    BY <2>5 DEF vars, HInv, Growing, getLastCfg, published
  <2> QED
    BY <2>1, <2>2, <2>3, <2>4, <2>5 DEF Next, navieAssign
<1> QED
  BY <1>1, <1>2, Invariant, PTL DEF Spec, ActsAsHistory, History!Spec
=============================================================================
