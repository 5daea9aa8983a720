----------------------- MODULE WorkspaceRangesProofs -----------------------
(* Proofs about WorkspaceRanges for every pool and every set of requests.   *)
EXTENDS WorkspaceRanges, TLAPS

Range == {r \in Nat \X (Nat \ {0}) : r[1] + r[2] <= Pool}

\* The inductive invariant: ranges inside the pool that cover it, do not
\* overlap, and have no free neighbours left to join.
RangesInv ==
    /\ free \subseteq Range /\ live \subseteq Range
    /\ Partition
    /\ \A r, q \in free : End(r) # q[1]

\* A range of the pool is a pair of numbers and ends behind its start.
LEMMA RangeFacts ==
    ASSUME PoolOk, NEW r \in Range
    PROVE  /\ r[1] \in Nat /\ r[2] \in Nat \ {0} /\ End(r) \in Nat
           /\ r = <<r[1], r[2]>> /\ End(r) = r[1] + r[2]
           /\ r[1] < End(r) /\ End(r) <= Pool
BY DEF PoolOk, Range, End

\* A range whose start and length are numbers inside the pool is one.
LEMMA RangeIntro ==
    ASSUME PoolOk, NEW x \in Nat, NEW n \in Nat \ {0}, x + n <= Pool
    PROVE  <<x, n>> \in Range /\ End(<<x, n>>) = x + n
BY DEF PoolOk, Range, End

\* The initial state, one free range, satisfies the invariant.
LEMMA InitInv ==
    ASSUME PoolOk
    PROVE  RangesInit => RangesInv
<1> SUFFICES ASSUME RangesInit PROVE RangesInv
  OBVIOUS
<1>1. <<0, Pool>> \in Range /\ End(<<0, Pool>>) = Pool
  BY RangeIntro DEF PoolOk
<1>2. Partition
  BY <1>1 DEF PoolOk, RangesInit, Partition
<1> QED
  BY <1>1, <1>2 DEF PoolOk, RangesInit, RangesInv

\* Two ranges that share a byte are one.
LEMMA Apart ==
    ASSUME PoolOk, RangesInv, NEW r \in free \cup live, NEW q \in free \cup live, NEW x \in Int,
           r[1] <= x, x < End(r), q[1] <= x, x < End(q)
    PROVE  r = q
<1>1. r \in Range /\ q \in Range
  BY DEF RangesInv
<1>2. r # q => End(r) <= q[1] \/ End(q) <= r[1]
  BY DEF RangesInv, Partition
<1> QED
  BY <1>1, <1>2, RangeFacts

\* Cutting a request from a free range.
LEMMA LendInv ==
    ASSUME PoolOk, RangesInv, NEW n \in Request, NEW r \in free, Lend(n, r)
    PROVE  RangesInv'
<1> DEFINE a == <<r[1], n>>
           b == <<r[1] + n, r[2] - n>>
           old == (free \ {r}) \cup live
<1>1. r \in Range /\ n \in Nat \ {0} /\ r[2] >= n
  BY DEF PoolOk, RangesInv, Lend
<1>2. /\ r[1] \in Nat /\ r[2] \in Nat \ {0} /\ End(r) = r[1] + r[2] /\ End(r) <= Pool
  BY <1>1, RangeFacts
<1>3. a \in Range /\ End(a) = r[1] + n /\ a[1] = r[1]
  BY <1>1, <1>2, RangeIntro DEF PoolOk
<1>4. ASSUME r[2] > n PROVE b \in Range /\ End(b) = End(r) /\ b[1] = r[1] + n
  BY <1>1, <1>2, <1>4, RangeIntro DEF PoolOk, End, Range
<1>5. free' = (free \ {r}) \cup Rest(r, n) /\ live' = live \cup {a}
  BY DEF Lend
<1>6. free' \cup live' \subseteq old \cup {a, b} /\ old \cup {a} \subseteq free' \cup live'
  BY <1>5 DEF Rest
<1>7. free' \subseteq Range /\ live' \subseteq Range
  BY <1>3, <1>4, <1>5 DEF RangesInv, Rest
<1>8. ASSUME NEW q \in old
      PROVE  q \in Range /\ (End(q) <= r[1] \/ End(r) <= q[1])
  <2>1. r \notin live
    BY DEF RangesInv, Partition
  <2>2. q # r /\ q \in free \cup live
    BY <2>1, <1>8
  <2> QED
    BY <2>2 DEF RangesInv, Partition
<1>9. ASSUME NEW q \in old PROVE q # a /\ q # b
  <2>1. q[1] \in Nat /\ q[1] < End(q) /\ (End(q) <= r[1] \/ End(r) <= q[1])
    BY <1>8, <1>9, RangeFacts
  <2>2. q # a
    BY <2>1, <1>1, <1>2, <1>3
  <2>3. ASSUME q = b PROVE FALSE
    <3>1. r[2] - n \in Nat \ {0} /\ q[1] = r[1] + n
      <4>1. q \in Range /\ q[2] = r[2] - n /\ q[1] = r[1] + n
        BY <1>8, <1>9, <2>3
      <4> QED
        BY <4>1, RangeFacts
    <3>2. End(q) = End(r)
      BY <3>1, <2>3, <1>1, <1>2 DEF End
    <3> QED
      BY <2>1, <3>1, <3>2, <1>1, <1>2
  <2> QED
    BY <2>2, <2>3
<1>10. a # b
  BY <1>1, <1>2
<1>11. ASSUME NEW x \in 0 .. (Pool - 1)
       PROVE  \E q \in free' \cup live' : q[1] <= x /\ x < End(q)
  <2>1. PICK q \in free \cup live : q[1] <= x /\ x < End(q)
    BY DEF RangesInv, Partition
  <2>2. CASE q # r
    <3>1. q \in old
      BY <2>1, <2>2
    <3> QED
      BY <3>1, <2>1, <1>6
  <2>3. CASE q = r /\ x < r[1] + n
    BY <2>1, <2>3, <1>3, <1>6
  <2>4. CASE q = r /\ ~ (x < r[1] + n)
    <3>1. r[2] > n
      BY <2>1, <2>4, <1>1, <1>2 DEF PoolOk
    <3>2. b \in free'
      BY <3>1, <1>5 DEF Rest
    <3>3. b[1] <= x /\ x < End(b)
      BY <3>1, <1>4, <2>1, <2>4, <1>1, <1>2 DEF PoolOk
    <3> QED
      BY <3>2, <3>3
  <2> QED
    BY <2>2, <2>3, <2>4
<1>12. b \in free' => r[2] > n
  <2>1. b \notin free \ {r}
    BY <1>9
  <2> QED
    BY <2>1, <1>5 DEF Rest
<1>13. b \notin live'
  BY <1>9, <1>10, <1>5
<1>14. free' \cap live' = {}
  <2>1. a \notin free'
    BY <1>9, <1>10, <1>5 DEF Rest
  <2>2. (free \ {r}) \cap live = {}
    BY DEF RangesInv, Partition
  <2> QED
    BY <2>1, <2>2, <1>5, <1>13 DEF Rest
<1>15. ASSUME NEW p \in free' \cup live', NEW q \in free' \cup live', p # q
       PROVE  End(p) <= q[1] \/ End(q) <= p[1]
  <2>1. ASSUME NEW u \in old, NEW v \in free' \cup live', v \in {a, b}
        PROVE  End(u) <= v[1] \/ End(v) <= u[1]
    <3>1. u[1] \in Nat /\ End(u) \in Nat /\ (End(u) <= r[1] \/ End(r) <= u[1])
      BY <1>8, <2>1, RangeFacts
    <3>2. CASE v = a
      BY <3>1, <3>2, <1>1, <1>2, <1>3
    <3>3. CASE v = b
      <4>1. r[2] > n
        BY <3>3, <1>12, <1>13, <2>1
      <4> QED
        BY <4>1, <3>1, <3>3, <1>1, <1>2, <1>4
    <3> QED
      BY <3>2, <3>3, <2>1
  <2>2. CASE p \in old /\ q \in old
    BY <2>2, <1>15 DEF RangesInv, Partition
  <2>3. CASE p \in old /\ q \notin old
    <3>1. q \in {a, b}
      BY <2>3, <1>6
    <3> QED
      BY <3>1, <2>1, <2>3
  <2>4. CASE p \notin old /\ q \in old
    <3>1. p \in {a, b}
      BY <2>4, <1>6
    <3> QED
      BY <3>1, <2>1, <2>4
  <2>5. CASE p \notin old /\ q \notin old
    <3>1. {p, q} = {a, b}
      BY <2>5, <1>6, <1>15
    <3>2. r[2] > n
      BY <3>1, <1>12, <1>13
    <3> QED
      BY <3>1, <3>2, <1>1, <1>2, <1>3, <1>4
  <2> QED
    BY <2>2, <2>3, <2>4, <2>5
<1>16. ASSUME NEW p \in free', NEW q \in free' PROVE End(p) # q[1]
  <2>1. \A u \in free : \A v \in free : End(u) # v[1]
    BY DEF RangesInv
  <2>2. CASE p # b /\ q # b
    <3>1. p \in free /\ q \in free
      BY <2>2, <1>5 DEF Rest
    <3> QED
      BY <3>1, <2>1
  <2>3. CASE p = b
    <3>1. r[2] > n
      BY <2>3, <1>12
    <3>2. CASE q = b
      BY <3>1, <3>2, <2>3, <1>1, <1>2, <1>4
    <3>3. CASE q # b
      <4>1. q \in free
        BY <3>3, <1>5 DEF Rest
      <4> QED
        BY <4>1, <2>1, <2>3, <3>1, <1>4
    <3> QED
      BY <3>2, <3>3
  <2>4. CASE p # b /\ q = b
    <3>1. r[2] > n
      BY <2>4, <1>12
    <3>2. p \in old
      BY <2>4, <1>5 DEF Rest
    <3>3. End(p) \in Nat /\ p[1] \in Nat /\ p[1] < End(p) /\ (End(p) <= r[1] \/ End(r) <= p[1])
      BY <3>2, <1>8, RangeFacts
    <3> QED
      BY <3>1, <3>3, <2>4, <1>1, <1>2, <1>4
  <2> QED
    BY <2>2, <2>3, <2>4
<1>17. Partition'
  BY <1>11, <1>14, <1>15 DEF Partition, End
<1> QED
  BY <1>7, <1>16, <1>17 DEF RangesInv, End

\* Joining a returned range with its free neighbours.
LEMMA ReturnInv ==
    ASSUME PoolOk, RangesInv, NEW a \in live, Return(a)
    PROVE  RangesInv'
<1> DEFINE first == IF Before(a) = {} THEN a ELSE CHOOSE r \in Before(a) : TRUE
           last == IF After(a) = {} THEN a ELSE CHOOSE r \in After(a) : TRUE
           J == Joined(a)
           old == (free \ (Before(a) \cup After(a))) \cup (live \ {a})
<1>1. /\ a \in Range /\ a[1] \in Nat /\ End(a) \in Nat /\ a[1] < End(a) /\ End(a) <= Pool
  BY RangeFacts DEF RangesInv
<1>2. /\ first \in free \cup live /\ first \in Range
      /\ (first = a /\ Before(a) = {}) \/ (first \in free /\ End(first) = a[1])
  BY DEF RangesInv, Before
<1>3. /\ last \in free \cup live /\ last \in Range
      /\ (last = a /\ After(a) = {}) \/ (last \in free /\ last[1] = End(a))
  BY DEF RangesInv, After
<1> HIDE DEF first, last
<1>4. /\ first[1] \in Nat /\ End(first) \in Nat /\ first[1] < End(first) /\ first[1] <= a[1]
      /\ last[1] \in Nat /\ End(last) \in Nat /\ last[1] < End(last) /\ End(last) <= Pool
      /\ End(a) <= End(last)
  BY <1>1, <1>2, <1>3, RangeFacts
<1>5. J \in Range /\ J[1] = first[1] /\ End(J) = End(last)
  <2>1. J = <<first[1], End(last) - first[1]>>
    BY DEF Joined, first, last
  <2>2. End(last) - first[1] \in Nat \ {0} /\ first[1] + (End(last) - first[1]) = End(last)
    BY <1>1, <1>4
  <2> QED
    BY <2>1, <2>2, <1>4, RangeIntro
<1> HIDE DEF J
<1>6. free' = (free \ (Before(a) \cup After(a))) \cup {J} /\ live' = live \ {a}
  BY DEF Return, J
<1>7. free' \cup live' = old \cup {J}
  BY <1>6
<1>8. ASSUME NEW q \in old PROVE q \in free \cup live /\ q # a /\ q # first /\ q # last
  <2>1. a \notin free /\ free \cap live = {}
    BY DEF RangesInv, Partition
  <2>2. first = a \/ first \in Before(a)
    BY <1>2 DEF Before
  <2>3. last = a \/ last \in After(a)
    BY <1>3 DEF After
  <2> QED
    BY <2>1, <2>2, <2>3 DEF Before, After
<1>9. ASSUME NEW q \in old
      PROVE  /\ q \in Range /\ q[1] \in Nat /\ End(q) \in Nat /\ q[1] < End(q)
             /\ End(q) <= J[1] \/ End(J) <= q[1]
  <2>1. q \in Range /\ q[1] \in Nat /\ End(q) \in Nat /\ q[1] < End(q)
    BY <1>8, RangeFacts DEF RangesInv
  <2>2. /\ End(q) <= a[1] \/ End(a) <= q[1]
        /\ End(q) <= first[1] \/ End(first) <= q[1]
        /\ End(q) <= last[1] \/ End(last) <= q[1]
    BY <1>2, <1>3, <1>8 DEF RangesInv, Partition
  <2>3. CASE End(q) <= a[1]
    BY <2>1, <2>2, <2>3, <1>1, <1>2, <1>4, <1>5
  <2>4. CASE End(a) <= q[1]
    BY <2>1, <2>2, <2>4, <1>1, <1>3, <1>4, <1>5
  <2> QED
    BY <2>1, <2>2, <2>3, <2>4
<1>10. J \notin old
  BY <1>4, <1>5, <1>9, <1>1
<1>11. free' \subseteq Range /\ live' \subseteq Range
  BY <1>5, <1>6 DEF RangesInv
<1>12. free' \cap live' = {}
  BY <1>6, <1>10 DEF RangesInv, Partition
<1>13. ASSUME NEW x \in 0 .. (Pool - 1)
       PROVE  \E q \in free' \cup live' : q[1] <= x /\ x < End(q)
  <2>1. PICK q \in free \cup live : q[1] <= x /\ x < End(q)
    BY DEF RangesInv, Partition
  <2>2. CASE q \in old
    BY <2>1, <2>2, <1>7
  <2>3. CASE q \notin old
    <3>1. q = a \/ q \in Before(a) \/ q \in After(a)
      BY <2>1, <2>3
    <3>2. x \in Int /\ q \in Range /\ q[1] \in Nat /\ End(q) \in Nat
      BY <2>1, RangeFacts DEF PoolOk, RangesInv
    <3>3. CASE q = a
      BY <3>2, <3>3, <2>1, <1>1, <1>4, <1>5, <1>7
    <3>4. CASE q \in Before(a)
      <4>1. first \in free /\ End(first) = a[1] /\ End(q) = a[1] /\ q \in free
        BY <3>4, <1>2 DEF Before
      <4>2. q = first
        <5>1. a[1] - 1 \in Int /\ q[1] <= a[1] - 1 /\ a[1] - 1 < End(q)
          BY <4>1, <3>2, <1>1, RangeFacts
        <5>2. first[1] <= a[1] - 1 /\ a[1] - 1 < End(first)
          BY <4>1, <1>1, <1>4
        <5> QED
          BY <5>1, <5>2, <4>1, Apart
      <4> QED
        BY <4>1, <4>2, <3>2, <2>1, <1>1, <1>4, <1>5, <1>7
    <3>5. CASE q \in After(a)
      <4>1. last \in free /\ last[1] = End(a) /\ q[1] = End(a) /\ q \in free
        BY <3>5, <1>3 DEF After
      <4>2. q = last
        <5>1. End(a) \in Int /\ q[1] <= End(a) /\ End(a) < End(q)
          BY <4>1, <3>2, <1>1, RangeFacts
        <5>2. last[1] <= End(a) /\ End(a) < End(last)
          BY <4>1, <1>1, <1>4
        <5> QED
          BY <5>1, <5>2, <4>1, Apart
      <4> QED
        BY <4>1, <4>2, <3>2, <2>1, <1>1, <1>4, <1>5, <1>7
    <3> QED
      BY <3>1, <3>3, <3>4, <3>5
  <2> QED
    BY <2>2, <2>3
<1>14. ASSUME NEW p \in free' \cup live', NEW q \in free' \cup live', p # q
       PROVE  End(p) <= q[1] \/ End(q) <= p[1]
  <2>1. CASE p \in old /\ q \in old
    BY <2>1, <1>8, <1>14 DEF RangesInv, Partition
  <2>2. CASE p = J \/ q = J
    BY <2>2, <1>7, <1>9, <1>14
  <2> QED
    BY <2>1, <2>2, <1>7
<1>15. ASSUME NEW p \in free', NEW q \in free' PROVE End(p) # q[1]
  <2>1. \A u \in free : \A v \in free : End(u) # v[1]
    BY DEF RangesInv
  <2>2. CASE p # J /\ q # J
    BY <2>1, <2>2, <1>6
  <2>3. CASE p = J /\ q = J
    BY <2>3, <1>1, <1>4, <1>5
  <2>4. CASE p = J /\ q # J
    <3>1. q \in free /\ q \notin After(a)
      BY <2>4, <1>6
    <3>2. q[1] # End(a)
      BY <3>1 DEF After
    <3> QED
      BY <3>1, <3>2, <2>1, <2>4, <1>3, <1>5
  <2>5. CASE p # J /\ q = J
    <3>1. p \in free /\ p \notin Before(a)
      BY <2>5, <1>6
    <3>2. End(p) # a[1]
      BY <3>1 DEF Before
    <3> QED
      BY <3>1, <3>2, <2>1, <2>5, <1>2, <1>5
  <2> QED
    BY <2>2, <2>3, <2>4, <2>5
<1>16. Partition'
  BY <1>12, <1>13, <1>14 DEF Partition, End
<1> QED
  BY <1>11, <1>15, <1>16 DEF RangesInv, End

\* With nothing lent the whole pool is one free range: the range of byte 0 has
\* no free neighbour, and there is nothing else behind it.
LEMMA AllReturned ==
    ASSUME PoolOk
    PROVE  RangesInv => Coalesced
<1> SUFFICES ASSUME RangesInv, live = {} PROVE free = {<<0, Pool>>}
  BY DEF RangesInv, Coalesced
<1>1. 0 \in 0 .. (Pool - 1)
  BY DEF PoolOk
<1>2. PICK r \in free : r[1] <= 0 /\ 0 < End(r)
  BY <1>1 DEF RangesInv, Partition
<1>3. r[1] = 0 /\ r[2] \in Nat /\ End(r) = r[2] /\ End(r) <= Pool /\ r = <<0, r[2]>>
  BY <1>2, RangeFacts DEF RangesInv
<1>4. ASSUME End(r) < Pool PROVE FALSE
  <2>1. End(r) \in 0 .. (Pool - 1)
    BY <1>3, <1>4 DEF PoolOk
  <2>2. PICK q \in free : q[1] <= End(r) /\ End(r) < End(q)
    BY <2>1 DEF RangesInv, Partition
  <2>3. q[1] \in Nat /\ q # r /\ (End(r) <= q[1] \/ End(q) <= r[1])
    BY <2>2, <1>3, RangeFacts DEF RangesInv, Partition
  <2>4. End(r) = q[1]
    BY <2>2, <2>3, <1>3, RangeFacts DEF RangesInv
  <2> QED
    BY <2>4 DEF RangesInv
<1>5. r = <<0, Pool>>
  BY <1>3, <1>4 DEF PoolOk
<1>6. ASSUME NEW q \in free PROVE q = r
  <2>1. q[1] \in Nat /\ q[1] < End(q) /\ End(q) <= Pool /\ End(q) \in Nat
    BY RangeFacts DEF RangesInv
  <2>2. q # r => End(q) <= r[1] \/ End(r) <= q[1]
    BY DEF RangesInv, Partition
  <2> QED
    BY <2>1, <2>2, <1>3, <1>5 DEF PoolOk
<1> QED
  BY <1>5, <1>6

\* The workspace of a codec stream is never lent twice and never lost: at every
\* moment each byte is in exactly one free or lent range, and once nvCOMP has
\* returned everything the pool is whole again, for any pool size, any requests
\* and any order of returns.
THEOREM WorkspaceNeverLost ==
    ASSUME PoolOk
    PROVE  RangesSpec => [](Partition /\ Coalesced)
<1>1. RangesInv /\ [RangesNext]_rangeVars => RangesInv'
  <2> SUFFICES ASSUME RangesInv, [RangesNext]_rangeVars PROVE RangesInv'
    OBVIOUS
  <2>1. CASE RangesNext
    BY <2>1, LendInv, ReturnInv DEF RangesNext
  <2>2. CASE UNCHANGED rangeVars
    BY <2>2 DEF rangeVars, RangesInv, Partition, End
  <2> QED
    BY <2>1, <2>2
<1>2. RangesInv => Partition /\ Coalesced
  BY AllReturned DEF RangesInv
<1> QED
  BY InitInv, <1>1, <1>2, PTL DEF RangesSpec
=============================================================================
