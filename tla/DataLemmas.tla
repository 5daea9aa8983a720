----------------------------- MODULE DataLemmas -----------------------------
(* Facts about data that the proofs of several modules rest on: queues kept   *)
(* as sequences, sums over finite sets, cardinalities.  What a sum or a       *)
(* cardinality is, for every finite set, is proved by taking a least set for  *)
(* which it would not hold.                                                   *)
EXTENDS Integers, Sequences, FiniteSets, Functions, WellFoundedInduction, TLAPS

\* The range of a sequence is the set of its elements.
LEMMA RangeSeq ==
    ASSUME NEW S, NEW s \in Seq(S)
    PROVE  Range(s) = {s[i] : i \in 1..Len(s)}
  BY DEF Range

\* A queue is a function on 1..Len(s) into its set of elements.
LEMMA SeqElements ==
    ASSUME NEW S, NEW s \in Seq(S)
    PROVE  /\ Len(s) \in Nat /\ DOMAIN s = 1..Len(s)
           /\ \A i \in 1..Len(s) : s[i] \in S
           /\ Range(s) \subseteq S
           /\ Len(s) = 0 <=> s = <<>>
  <1>1. /\ Len(s) \in Nat /\ DOMAIN s = 1..Len(s)
        /\ \A i \in 1..Len(s) : s[i] \in S
    OBVIOUS
  <1>2. Len(s) = 0 => s = <<>>
    OBVIOUS
  <1>3. Len(<<>>) = 0
    OBVIOUS
  <1>4. Range(s) \subseteq S
    BY <1>1, RangeSeq
  <1> QED
    BY <1>1, <1>2, <1>3, <1>4

\* A part of a queue.
LEMMA SubSeqElements ==
    ASSUME NEW S, NEW s \in Seq(S), NEW m \in 1..(Len(s) + 1), NEW n \in 0..Len(s)
    PROVE  /\ SubSeq(s, m, n) \in Seq(S)
           /\ DOMAIN SubSeq(s, m, n) = 1..(n - m + 1)
           /\ \A i \in 1..(n - m + 1) : SubSeq(s, m, n)[i] = s[m + i - 1]
  OBVIOUS

\* One queue after another.
LEMMA ConcatElements ==
    ASSUME NEW S, NEW s \in Seq(S), NEW t \in Seq(S)
    PROVE  /\ s \o t \in Seq(S)
           /\ DOMAIN (s \o t) = 1..(Len(s) + Len(t))
           /\ \A i \in 1..Len(s) : (s \o t)[i] = s[i]
           /\ \A i \in 1..Len(t) : (s \o t)[Len(s) + i] = t[i]
  OBVIOUS

\* What Append does to the elements of a queue.
LEMMA AppendRange ==
    ASSUME NEW S, NEW s \in Seq(S), NEW e \in S
    PROVE  /\ Append(s, e) \in Seq(S)
           /\ Append(s, e) # <<>>
           /\ Len(Append(s, e)) = Len(s) + 1
           /\ Range(Append(s, e)) = Range(s) \cup {e}
  <1>1. /\ Append(s, e) \in Seq(S)
        /\ Append(s, e) # <<>>
        /\ Len(Append(s, e)) = Len(s) + 1
    <2>1. Append(s, e) \in Seq(S) /\ Len(Append(s, e)) = Len(s) + 1 /\ Len(s) \in Nat
      OBVIOUS
    <2>2. Len(<<>>) = 0
      OBVIOUS
    <2> QED
      BY <2>1, <2>2
  <1>2. Range(s) = {s[i] : i \in 1..Len(s)}
    BY RangeSeq
  <1>3. Range(Append(s, e)) = {Append(s, e)[i] : i \in 1..(Len(s) + 1)}
    BY <1>1, RangeSeq
  <1>4. \A i \in 1..Len(s) : Append(s, e)[i] = s[i]
    OBVIOUS
  <1>5. Append(s, e)[Len(s) + 1] = e
    OBVIOUS
  <1>6. Len(s) \in Nat
    OBVIOUS
  <1>7. ASSUME NEW x \in Range(Append(s, e)) PROVE x \in Range(s) \cup {e}
    BY <1>2, <1>3, <1>4, <1>5, <1>6
  <1>8. ASSUME NEW x \in Range(s) PROVE x \in Range(Append(s, e))
    <2>1. PICK i \in 1..Len(s) : x = s[i]
      BY <1>2
    <2>2. i \in 1..(Len(s) + 1) /\ Append(s, e)[i] = x
      BY <2>1, <1>4, <1>6
    <2> QED
      BY <2>2, <1>3
  <1>9. e \in Range(Append(s, e))
    BY <1>3, <1>5, <1>6
  <1> QED
    BY <1>1, <1>7, <1>8, <1>9

\* What taking the head off a queue does to its elements.
LEMMA HeadTailRange ==
    ASSUME NEW S, NEW s \in Seq(S), s # <<>>
    PROVE  /\ Head(s) \in S
           /\ Tail(s) \in Seq(S)
           /\ Len(Tail(s)) = Len(s) - 1
           /\ Range(s) = {Head(s)} \cup Range(Tail(s))
  <1>1. /\ Head(s) \in S
        /\ Tail(s) \in Seq(S)
        /\ Len(Tail(s)) = Len(s) - 1
        /\ \A i \in 1..Len(Tail(s)) : Tail(s)[i] = s[i + 1]
    OBVIOUS
  <1>2. Range(s) = {s[i] : i \in 1..Len(s)}
    BY RangeSeq
  <1>3. Range(Tail(s)) = {Tail(s)[i] : i \in 1..Len(Tail(s))}
    BY <1>1, RangeSeq
  <1>4. Len(s) \in Nat \ {0} /\ Head(s) = s[1]
    OBVIOUS
  <1>5. ASSUME NEW x \in Range(s) PROVE x \in {Head(s)} \cup Range(Tail(s))
    <2>1. PICK i \in 1..Len(s) : x = s[i]
      BY <1>2
    <2>2. CASE i = 1
      BY <2>1, <2>2, <1>4
    <2>3. CASE i # 1
      <3>1. i - 1 \in 1..Len(Tail(s)) /\ (i - 1) + 1 = i
        BY <2>3, <1>1, <1>4
      <3>2. Tail(s)[i - 1] = x
        BY <3>1, <2>1, <1>1
      <3> QED
        BY <3>1, <3>2, <1>3
    <2> QED
      BY <2>2, <2>3
  <1>6. Head(s) \in Range(s)
    BY <1>2, <1>4
  <1>7. ASSUME NEW x \in Range(Tail(s)) PROVE x \in Range(s)
    <2>1. PICK i \in 1..Len(Tail(s)) : x = Tail(s)[i]
      BY <1>3
    <2>2. i + 1 \in 1..Len(s) /\ s[i + 1] = x
      BY <2>1, <1>1, <1>4
    <2> QED
      BY <2>2, <1>2
  <1> QED
    BY <1>1, <1>5, <1>6, <1>7

\* Head and tail of a queue with one more element at its end.
LEMMA AppendHeadTail ==
    ASSUME NEW S, NEW s \in Seq(S), s # <<>>, NEW e \in S
    PROVE  /\ Head(Append(s, e)) = Head(s)
           /\ Tail(Append(s, e)) = Append(Tail(s), e)
  OBVIOUS

\* Some element of a queue is one of M; at most one is.
Has(q, M) == \E i \in 1 .. Len(q) : q[i] \in M
Once(q, M) == \A i, k \in 1 .. Len(q) : q[i] \in M /\ q[k] \in M => i = k

\* What Append adds to the messages of a queue.
LEMMA HasAppend ==
    ASSUME NEW S, NEW q \in Seq(S), NEW e \in S, NEW M
    PROVE  /\ Append(q, e) \in Seq(S)
           /\ Has(Append(q, e), M) <=> Has(q, M) \/ e \in M
           /\ Once(q, M) /\ (e \in M => ~ Has(q, M)) => Once(Append(q, e), M)
  <1>1. /\ Append(q, e) \in Seq(S) /\ Len(q) \in Nat
        /\ Len(Append(q, e)) = Len(q) + 1
        /\ \A i \in 1 .. Len(q) : Append(q, e)[i] = q[i]
        /\ Append(q, e)[Len(q) + 1] = e
    OBVIOUS
  <1>2. \A i \in 1 .. (Len(q) + 1) : i \in 1 .. Len(q) \/ i = Len(q) + 1
    BY <1>1
  <1>3. 1 .. Len(q) \subseteq 1 .. (Len(q) + 1) /\ Len(q) + 1 \in 1 .. (Len(q) + 1)
    BY <1>1
  <1>4. Has(Append(q, e), M) <=> Has(q, M) \/ e \in M
    BY <1>1, <1>2, <1>3 DEF Has
  <1>5. Once(q, M) /\ (e \in M => ~ Has(q, M)) => Once(Append(q, e), M)
    BY <1>1, <1>2, <1>3 DEF Has, Once
  <1> QED
    BY <1>1, <1>4, <1>5

\* What taking the first message off a queue leaves of its messages.
LEMMA HasTail ==
    ASSUME NEW S, NEW q \in Seq(S), q # <<>>, NEW M
    PROVE  /\ Head(q) \in S /\ Tail(q) \in Seq(S)
           /\ Has(Tail(q), M) => Has(q, M)
           /\ Head(q) \in M => Has(q, M)
           /\ Once(q, M) => Once(Tail(q), M)
           /\ Once(q, M) /\ Head(q) \in M => ~ Has(Tail(q), M)
  <1>1. /\ Head(q) \in S /\ Tail(q) \in Seq(S)
        /\ Len(Tail(q)) = Len(q) - 1
        /\ \A i \in 1 .. Len(Tail(q)) : Tail(q)[i] = q[i + 1]
        /\ Len(q) \in Nat \ {0} /\ Head(q) = q[1]
    OBVIOUS
  <1>2. /\ \A i \in 1 .. Len(Tail(q)) : i \in Nat /\ i + 1 \in 1 .. Len(q) /\ i + 1 # 1
        /\ \A i, k \in 1 .. Len(Tail(q)) : i + 1 = k + 1 => i = k
        /\ 1 \in 1 .. Len(q)
    BY <1>1
  <1>3. Has(Tail(q), M) => Has(q, M)
    BY <1>1, <1>2 DEF Has
  <1>4. Head(q) \in M => Has(q, M)
    BY <1>1, <1>2 DEF Has
  <1>5. Once(q, M) => Once(Tail(q), M)
    BY <1>1, <1>2 DEF Once
  <1>6. Once(q, M) /\ Head(q) \in M => ~ Has(Tail(q), M)
    BY <1>1, <1>2 DEF Has, Once
  <1> QED
    BY <1>1, <1>3, <1>4, <1>5, <1>6

\* An empty queue has no message.
LEMMA HasEmpty ==
    ASSUME NEW M
    PROVE  ~ Has(<<>>, M) /\ Once(<<>>, M)
  BY DEF Has, Once

-----------------------------------------------------------------------------
\* A non-empty set of naturals has a least element.
LEMMA LeastNat ==
    ASSUME NEW T \in SUBSET Nat, T # {}
    PROVE  \E i \in T : \A j \in T : i <= j
  <1>1. PICK x \in T : \A y \in T : ~ (<<y, x>> \in OpToRel(<, Nat))
    BY Zenon, NatLessThanWellFounded, WFMin
  <1>2. \A y \in T : ~ (y < x)
    BY Zenon, <1>1 DEF OpToRel
  <1> QED
    BY SMTT(60), Z3T(60), <1>2

\* A set is listed when finitely many numbered items cover it.
Listed(S) == \E n \in Nat : \E q : S \subseteq {q[i] : i \in 1..n}

\* A part of a listed set is listed.
LEMMA ListedSubset ==
    ASSUME NEW S, Listed(S), NEW T \in SUBSET S
    PROVE  Listed(T)
  BY Zenon DEF Listed

\* So is a listed set with one element more.
LEMMA ListedAdd ==
    ASSUME NEW S, Listed(S), NEW e
    PROVE  Listed(S \cup {e})
  <1>1. PICK n \in Nat : \E q : S \subseteq {q[i] : i \in 1..n}
    BY Zenon DEF Listed
  <1>2. PICK q : S \subseteq {q[i] : i \in 1..n}
    BY Zenon, <1>1
  <1> DEFINE r == [i \in 1..(n + 1) |-> IF i = n + 1 THEN e ELSE q[i]]
  <1>3. /\ n + 1 \in Nat /\ n + 1 \in 1..(n + 1)
        /\ \A i \in 1..n : i \in 1..(n + 1) /\ i # n + 1
    BY SMTT(60), Z3T(60)
  <1>4. r[n + 1] = e /\ \A i \in 1..n : r[i] = q[i]
    BY Zenon, <1>3
  <1> HIDE DEF r
  <1>5. S \cup {e} \subseteq {r[i] : i \in 1..(n + 1)}
    BY Zenon, <1>2, <1>3, <1>4
  <1> QED
    BY Zenon, <1>3, <1>5 DEF Listed

\* A non-empty family of subsets of a listed set has a minimal member, by
\* induction on the number of items.
LEMMA LeastSet ==
    ASSUME NEW S, Listed(S), NEW T \in SUBSET (SUBSET S), T # {}
    PROVE  \E x \in T : \A y \in T : y \subseteq x => y = x
  <1>1. PICK n \in Nat : \E q : S \subseteq {q[i] : i \in 1..n}
    BY Zenon DEF Listed
  <1>2. PICK q : S \subseteq {q[i] : i \in 1..n}
    BY Zenon, <1>1
  <1> DEFINE items(m) == {q[i] : i \in 1..m}
             least(F) == \E x \in F : \A y \in F : y \subseteq x => y = x
             bad == {m \in Nat : \E F \in SUBSET (SUBSET items(m)) : F # {} /\ ~ least(F)}
  <1>3. ASSUME bad # {} PROVE FALSE
    <2>1. bad \in SUBSET Nat
      BY Zenon
    <2>2. PICK m \in bad : \A k \in bad : m <= k
      <3> HIDE DEF bad
      <3> QED
        BY <1>3, <2>1, LeastNat
    <2>3. m \in Nat /\ \E F \in SUBSET (SUBSET items(m)) : F # {} /\ ~ least(F)
      BY Zenon
    <2>4. PICK F \in SUBSET (SUBSET items(m)) : F # {} /\ ~ least(F)
      BY Zenon, <2>3
    <2>5. CASE m = 0
      <3>1. items(m) = {}
        <4>1. 1..m = {}
          BY SMTT(60), Z3T(60), <2>5
        <4>2. ASSUME NEW z \in items(m) PROVE FALSE
          BY Zenon, <4>1, <4>2
        <4> QED
          BY Zenon, <4>2
      <3> HIDE DEF items
      <3>2. \A t \in F : t = {}
        BY Zenon, <3>1
      <3>3. \A x \in F : \A y \in F : y \subseteq x => y = x
        BY Zenon, <3>2
      <3>4. PICK x : x \in F
        BY Zenon, <2>4
      <3>5. least(F)
        BY Zenon, <3>3, <3>4
      <3> QED
        BY Zenon, <2>4, <3>5
    <2>6. CASE m # 0
      <3> DEFINE e == q[m]
                 G == {t \in F : e \notin t}
      <3>1. /\ m - 1 \in Nat /\ ~ (m <= m - 1)
            /\ \A i \in 1..m : i = m \/ i \in 1..(m - 1)
        BY SMTT(60), Z3T(60), <2>3, <2>6
      <3>2. ASSUME NEW z \in items(m) PROVE z \in items(m - 1) \cup {e}
        <4>1. PICK i \in 1..m : z = q[i]
          BY Zenon, <3>2
        <4>2. CASE i = m
          BY Zenon, <4>1, <4>2
        <4>3. CASE i \in 1..(m - 1)
          <5>1. z \in {q[j] : j \in 1..(m - 1)}
            BY <4>1, <4>3
          <5> QED
            BY Zenon, <5>1
        <4> QED
          BY Zenon, <3>1, <4>2, <4>3
      <3>3. m - 1 \notin bad
        BY Zenon, <3>1, <2>2
      <3>4. \A H \in SUBSET (SUBSET items(m - 1)) : H # {} => least(H)
        BY Zenon, <3>1, <3>3
      <3> HIDE DEF items, bad, e
      <3>5. CASE G # {}
        <4>1. G \in SUBSET (SUBSET items(m - 1))
          BY Zenon, <3>2
        <4>2. least(G)
          <5> HIDE DEF G, least
          <5> QED
            BY Zenon, <3>4, <3>5, <4>1
        <4> QED
          BY Zenon, <4>2, <2>4
      <3>6. CASE G = {}
        <4> DEFINE H == {t \ {e} : t \in F}
        <4>0. ASSUME NEW t \in F PROVE t \ {e} \in SUBSET items(m - 1)
          BY Zenon, <3>2
        <4>1. H \in SUBSET (SUBSET items(m - 1)) /\ H # {}
          <5>1. ASSUME NEW h \in H PROVE h \in SUBSET items(m - 1)
            BY Zenon, <4>0
          <5>2. PICK t : t \in F
            BY Zenon, <2>4
          <5>3. t \ {e} \in H
            BY Zenon, <5>2
          <5> QED
            BY Zenon, <5>1, <5>3
        <4>2. least(H)
          <5> HIDE DEF H, least
          <5> QED
            BY Zenon, <3>4, <4>1
        <4>3. PICK u \in H : \A v \in H : v \subseteq u => v = u
          BY Zenon, <4>2
        <4>4. PICK x \in F : u = x \ {e}
          BY Zenon
        <4>5. ASSUME NEW y \in F, y \subseteq x PROVE y = x
          <5>1. e \in x /\ e \in y
            BY Zenon, <3>6
          <5>2. y \ {e} \in H /\ y \ {e} \subseteq u
            BY Zenon, <4>4, <4>5
          <5>3. y \ {e} = x \ {e}
            BY Zenon, <4>3, <4>4, <5>2
          <5>4. ASSUME NEW z \in x PROVE z \in y
            BY Zenon, <5>1, <5>3
          <5> QED
            BY Zenon, <4>5, <5>4
        <4> QED
          BY Zenon, <4>5, <2>4
      <3> QED
        BY Zenon, <3>5, <3>6
    <2> QED
      BY Zenon, <2>5, <2>6
  <1>4. n \notin bad
    BY Zenon, <1>3
  <1>5. T \in SUBSET (SUBSET items(n))
    BY Zenon, <1>2
  <1> QED
    BY Zenon, <1>4, <1>5

\* A sum over a set takes the elements off one at a time: the table of the sums
\* of all its subsets, and the entry of the set in it.
Pick(s) == CHOOSE x : x \in s
SumStep(f, g, s) == IF s = {} THEN 0 ELSE f[Pick(s)] + g[s \ {Pick(s)}]
Sums(f, S, g) == g = [s \in SUBSET S |-> SumStep(f, g, s)]

\* The two ways the libraries choose an element
LEMMA PickSame ==
    ASSUME NEW s
    PROVE  (CHOOSE x \in s : TRUE) = Pick(s)
  BY Zenon DEF Pick

\* The library's sum is the entry of S in the table it chooses.
LEMMA SumUnfold ==
    ASSUME NEW f, NEW S
    PROVE  SumFunctionOnSet(f, S) = (CHOOSE g : Sums(f, S, g))[S]
  <1> DEFINE Step(g, s) == IF s = {} THEN 0
                           ELSE f[CHOOSE x \in s : TRUE] + g[s \ {CHOOSE x \in s : TRUE}]
             Table(g) == g = [s \in SUBSET S |-> Step(g, s)]
  <1>1. SumFunctionOnSet(f, S) = (CHOOSE g : Table(g))[S]
    BY DEF SumFunctionOnSet, FoldFunctionOnSet, MapThenFoldSet
  <1>2. ASSUME NEW g, NEW s PROVE Step(g, s) = SumStep(f, g, s)
    <2>1. (CHOOSE x \in s : TRUE) = Pick(s)
      BY Zenon, PickSame
    <2> QED
      BY <2>1 DEF SumStep
  <1> HIDE DEF Step
  <1>3. \A g : Table(g) <=> Sums(f, S, g)
    BY Zenon, <1>2 DEF Sums
  <1> HIDE DEF Table
  <1>4. (CHOOSE g : Table(g)) = (CHOOSE g : Sums(f, S, g))
    BY Zenon, <1>3
  <1> QED
    BY Zenon, <1>1, <1>4

\* What is taken off was there, and leaves less.
LEMMA PickIn ==
    ASSUME NEW s, s # {}
    PROVE  Pick(s) \in s /\ s \ {Pick(s)} \subseteq s /\ s \ {Pick(s)} # s
  <1>1. \E x : x \in s
    OBVIOUS
  <1>2. Pick(s) \in s
    BY Zenon, <1>1 DEF Pick
  <1> QED
    BY Zenon, <1>2

\* Two tables of sums agree wherever both are defined.
LEMMA SumsAgree ==
    ASSUME NEW f, NEW S, NEW R, Listed(S), NEW g, NEW h,
           Sums(f, S, g), Sums(f, R, h), NEW s \in SUBSET S, s \in SUBSET R
    PROVE  g[s] = h[s]
  <1> DEFINE T == {t \in SUBSET S : t \in SUBSET R /\ g[t] # h[t]}
  <1>1. ASSUME T # {} PROVE FALSE
    <2>1. PICK t \in T : \A u \in T : u \subseteq t => u = t
      <3>1. T \in SUBSET (SUBSET S)
        BY Zenon
      <3> HIDE DEF T
      <3> QED
        BY <3>1, <1>1, LeastSet
    <2>2. t \in SUBSET S /\ t \in SUBSET R /\ g[t] # h[t]
      BY Zenon
    <2>3. g[t] = SumStep(f, g, t) /\ h[t] = SumStep(f, h, t)
      BY Zenon, <2>2 DEF Sums
    <2>4. t # {}
      BY Zenon, <2>2, <2>3 DEF SumStep
    <2>5. g[t \ {Pick(t)}] = h[t \ {Pick(t)}]
      BY Zenon, <2>1, <2>2, <2>4, PickIn
    <2> QED
      BY Zenon, <2>2, <2>3, <2>5 DEF SumStep
  <1> QED
    BY Zenon, <1>1

\* Every finite set has its table of sums.
LEMMA SumsExist ==
    ASSUME NEW f, NEW S, Listed(S)
    PROVE  \E g : Sums(f, S, g)
  <1> DEFINE T == {t \in SUBSET S : ~ \E g : Sums(f, t, g)}
  <1>1. ASSUME T # {} PROVE FALSE
    <2>1. PICK t \in T : \A u \in T : u \subseteq t => u = t
      <3>1. T \in SUBSET (SUBSET S)
        BY Zenon
      <3> HIDE DEF T
      <3> QED
        BY <3>1, <1>1, LeastSet
    <2>2. t \in SUBSET S /\ ~ \E g : Sums(f, t, g)
      BY Zenon
    <2>3. \A u \in SUBSET t : u # t => \E g : Sums(f, u, g)
      BY Zenon, <2>1, <2>2
    <2>4. \A u \in SUBSET t : Listed(u)
      BY Zenon, <2>2, ListedSubset
    <2> HIDE DEF T
    <2> DEFINE table(u) == CHOOSE g : Sums(f, u, g)
               val(u) == table(u)[u]
               new == [u \in SUBSET t |-> IF u = {} THEN 0
                         ELSE f[Pick(u)] + val(u \ {Pick(u)})]
    <2>5. \A u \in SUBSET t : u # t => Sums(f, u, table(u))
      BY Zenon, <2>3
    <2> HIDE DEF table
    <2>6. ASSUME NEW u \in SUBSET t, u # t PROVE val(u) = new[u]
      <3>1. Sums(f, u, table(u))
        BY Zenon, <2>5, <2>6
      <3>2. val(u) = SumStep(f, table(u), u)
        BY Zenon, <3>1 DEF Sums
      <3>3. CASE u = {}
        BY Zenon, <3>2, <3>3 DEF SumStep
      <3>4. CASE u # {}
        <4> DEFINE v == u \ {Pick(u)}
        <4>1. v \in SUBSET u /\ v \in SUBSET t /\ v # t
          BY Zenon, <3>4, <2>6, PickIn
        <4>2. Sums(f, v, table(v)) /\ Listed(u)
          BY Zenon, <4>1, <2>5, <2>4
        <4>3. table(u)[v] = table(v)[v]
          BY <3>1, <4>1, <4>2, SumsAgree
        <4> QED
          BY Zenon, <3>2, <3>4, <4>3 DEF SumStep
      <3> QED
        BY Zenon, <3>3, <3>4
    <2>7. ASSUME NEW u \in SUBSET t PROVE new[u] = SumStep(f, new, u)
      <3>1. CASE u = {}
        BY Zenon, <3>1 DEF SumStep
      <3>2. CASE u # {}
        <4> DEFINE v == u \ {Pick(u)}
        <4>1. v \in SUBSET t /\ v # t
          BY Zenon, <3>2, PickIn
        <4>2. val(v) = new[v]
          BY Zenon, <4>1, <2>6
        <4>3. new[u] = f[Pick(u)] + val(v)
          BY Zenon, <3>2
        <4> QED
          BY Zenon, <4>2, <4>3, <3>2 DEF SumStep
      <3> QED
        BY Zenon, <3>1, <3>2
    <2>8. new = [u \in SUBSET t |-> new[u]]
      BY Zenon
    <2>9. Sums(f, t, new)
      <3> HIDE DEF new
      <3> QED
        BY Zenon, <2>7, <2>8 DEF Sums
    <2> QED
      BY Zenon, <2>9, <2>2
  <1>2. S \notin T
    BY Zenon, <1>1
  <1> QED
    BY Zenon, <1>2

\* The table of S holds the sum of every subset of S.
LEMMA SumOfSubset ==
    ASSUME NEW f, NEW S, Listed(S), NEW g, Sums(f, S, g), NEW s \in SUBSET S
    PROVE  SumFunctionOnSet(f, s) = g[s]
  <1>1. Listed(s)
    BY Zenon, ListedSubset
  <1> DEFINE h == CHOOSE x : Sums(f, s, x)
  <1>2. Sums(f, s, h)
    BY Zenon, <1>1, SumsExist
  <1>3. SumFunctionOnSet(f, s) = h[s]
    BY Zenon, SumUnfold
  <1> HIDE DEF h
  <1>4. g[s] = h[s]
    BY <1>2, SumsAgree
  <1> QED
    BY Zenon, <1>3, <1>4

\* A sum over a finite set is a natural number, the empty one is zero, and any
\* element can be taken off it.
LEMMA SumRemove ==
    ASSUME NEW f, NEW S, Listed(S), \A x \in S : f[x] \in Nat
    PROVE  /\ SumFunctionOnSet(f, S) \in Nat
           /\ S = {} => SumFunctionOnSet(f, S) = 0
           /\ \A x \in S : SumFunctionOnSet(f, S)
                             = f[x] + SumFunctionOnSet(f, S \ {x})
  <1>1. PICK g : Sums(f, S, g)
    BY Zenon, SumsExist
  <1>2. \A s \in SUBSET S : g[s] = SumStep(f, g, s)
    BY Zenon, <1>1 DEF Sums
  <1>3. \A s \in SUBSET S : SumFunctionOnSet(f, s) = g[s]
    BY <1>1, SumOfSubset
  <1> DEFINE T == {t \in SUBSET S : ~ (/\ g[t] \in Nat
                                        /\ \A x \in t : g[t] = f[x] + g[t \ {x}])}
  <1>4. ASSUME T # {} PROVE FALSE
    <2>1. PICK t \in T : \A u \in T : u \subseteq t => u = t
      <3>1. T \in SUBSET (SUBSET S)
        BY Zenon
      <3> HIDE DEF T
      <3> QED
        BY <3>1, <1>4, LeastSet
    <2>2. t \in SUBSET S
      BY Zenon
    <2>3. \A u \in SUBSET t : u # t =>
              /\ g[u] \in Nat
              /\ \A x \in u : g[u] = f[x] + g[u \ {x}]
      BY Zenon, <2>1, <2>2
    <2>4. CASE t = {}
      <3>1. g[t] = 0
        BY Zenon, <2>2, <2>4, <1>2 DEF SumStep
      <3>2. g[t] \in Nat
        BY SMTT(60), Z3T(60), <3>1
      <3> QED
        BY Zenon, <3>2, <2>1, <2>4
    <2>5. CASE t # {}
      <3> DEFINE x == Pick(t)
      <3>1. x \in t /\ t \ {x} \in SUBSET t /\ t \ {x} # t
        BY Zenon, <2>5, PickIn
      <3>2. g[t] = f[x] + g[t \ {x}]
        BY Zenon, <2>2, <2>5, <1>2 DEF SumStep
      <3> HIDE DEF x
      <3>3. g[t \ {x}] \in Nat /\ f[x] \in Nat
        BY Zenon, <2>2, <2>3, <3>1
      <3>4. g[t] \in Nat
        BY ONLY <3>2, <3>3
      <3>5. ASSUME NEW y \in t, y # x PROVE g[t] = f[y] + g[t \ {y}]
        <4> DEFINE r == (t \ {x}) \ {y}
        <4>1. y \in t \ {x} /\ x \in t \ {y} /\ t \ {y} \in SUBSET t /\ t \ {y} # t
          BY Zenon, <3>1, <3>5
        <4>2. g[t \ {x}] = f[y] + g[r]
          BY Zenon, <2>3, <3>1, <4>1
        <4>3. (t \ {y}) \ {x} = r
          BY Zenon
        <4>4. g[t \ {y}] = f[x] + g[r]
          <5>1. g[t \ {y}] = f[x] + g[(t \ {y}) \ {x}]
            BY Zenon, <2>3, <4>1
          <5> QED
            BY Zenon, <5>1, <4>3
        <4>5. r \in SUBSET t /\ r # t
          BY Zenon, <4>1
        <4>6. g[r] \in Nat /\ f[y] \in Nat
          BY Zenon, <4>5, <2>2, <2>3
        <4> HIDE DEF r
        <4> QED
          BY ONLY <3>2, <3>3, <4>2, <4>4, <4>6
      <3> QED
        BY Zenon, <2>1, <3>2, <3>4, <3>5
    <2> QED
      BY Zenon, <2>4, <2>5
  <1>5. g[S] \in Nat /\ \A x \in S : g[S] = f[x] + g[S \ {x}]
    BY Zenon, <1>4
  <1>6. S = {} => g[S] = 0
    BY Zenon, <1>2 DEF SumStep
  <1>7. \A x \in S : S \ {x} \in SUBSET S
    BY Zenon
  <1> QED
    BY Zenon, <1>3, <1>5, <1>6, <1>7

-----------------------------------------------------------------------------
\* Cardinality is the sum of ones.
One(S) == [x \in S |-> 1]
CardTable(S, g) == g = [s \in SUBSET S |-> IF s = {} THEN 0 ELSE 1 + g[s \ {Pick(s)}]]

\* The cardinality is the entry of S in the table it chooses.
LEMMA CardinalityUnfold ==
    ASSUME NEW S, Listed(S)
    PROVE  Cardinality(S) = SumFunctionOnSet(One(S), S)
  <1> DEFINE h == CHOOSE g : CardTable(S, g)
  <1>1. Cardinality(S) = h[S]
    BY DEF Cardinality, CardTable, Pick
  <1>2. ASSUME NEW g, NEW s \in SUBSET S
        PROVE  SumStep(One(S), g, s) = IF s = {} THEN 0 ELSE 1 + g[s \ {Pick(s)}]
    <2>1. s # {} => One(S)[Pick(s)] = 1
      BY Zenon, PickIn DEF One
    <2> QED
      BY Zenon, <2>1 DEF SumStep
  <1>3. \A g : CardTable(S, g) <=> Sums(One(S), S, g)
    BY Zenon, <1>2 DEF CardTable, Sums
  <1>4. \E g : CardTable(S, g)
    BY Zenon, <1>3, SumsExist
  <1>5. CardTable(S, h)
    BY Zenon, <1>4
  <1> HIDE DEF h
  <1>6. SumFunctionOnSet(One(S), S) = h[S]
    <2>1. Sums(One(S), S, h) /\ S \in SUBSET S
      BY Zenon, <1>3, <1>5
    <2> QED
      BY <2>1, SumOfSubset
  <1> QED
    BY Zenon, <1>1, <1>6

\* Finite sets are those that are listed.
LEMMA FiniteIsListed ==
    ASSUME NEW S
    PROVE  IsFiniteSet(S) <=> Listed(S)
  <1>1. ASSUME IsFiniteSet(S) PROVE Listed(S)
    <2>1. PICK q \in Seq(S) : \A s \in S : \E n \in 1..Len(q) : q[n] = s
      BY Zenon, <1>1 DEF IsFiniteSet
    <2>2. Len(q) \in Nat
      BY Zenon, SeqElements
    <2> QED
      BY Zenon, <2>1, <2>2 DEF Listed
  <1>2. ASSUME Listed(S), S # {} PROVE IsFiniteSet(S)
    <2>1. PICK n \in Nat : \E q : S \subseteq {q[i] : i \in 1..n}
      BY Zenon, <1>2 DEF Listed
    <2>2. PICK q : S \subseteq {q[i] : i \in 1..n}
      BY Zenon, <2>1
    <2>3. PICK e \in S : TRUE
      BY Zenon, <1>2
    <2> DEFINE r == [i \in 1..n |-> IF q[i] \in S THEN q[i] ELSE e]
    <2>4. r \in [1..n -> S]
      BY Zenon
    <2>5. r \in Seq(S) /\ Len(r) = n
      <3> HIDE DEF r
      <3> QED
        BY SMTT(60), Z3T(60), <2>4
    <2>6. \A s \in S : \E i \in 1..n : r[i] = s
      BY Zenon, <2>2
    <2> QED
      BY Zenon, <2>5, <2>6 DEF IsFiniteSet
  <1>3. IsFiniteSet({})
    <2>1. <<>> \in Seq({})
      OBVIOUS
    <2> QED
      BY Zenon, <2>1 DEF IsFiniteSet
  <1> QED
    BY Zenon, <1>1, <1>2, <1>3

\* What taking one element off a finite set does to its cardinality
LEMMA CardinalityRemove ==
    ASSUME NEW S, IsFiniteSet(S)
    PROVE  /\ Cardinality(S) \in Nat
           /\ S = {} => Cardinality(S) = 0
           /\ \A x \in S : /\ IsFiniteSet(S \ {x})
                           /\ Cardinality(S) = 1 + Cardinality(S \ {x})
  <1>1. Listed(S)
    BY Zenon, FiniteIsListed
  <1>2. \A x \in S : One(S)[x] = 1 /\ One(S)[x] \in Nat
    <2>1. \A x \in S : One(S)[x] = 1
      BY Zenon DEF One
    <2> QED
      BY SMTT(60), Z3T(60), <2>1
  <1>3. /\ SumFunctionOnSet(One(S), S) \in Nat
        /\ S = {} => SumFunctionOnSet(One(S), S) = 0
        /\ \A x \in S : SumFunctionOnSet(One(S), S)
                          = One(S)[x] + SumFunctionOnSet(One(S), S \ {x})
    BY Zenon, <1>1, <1>2, SumRemove
  <1>4. Cardinality(S) = SumFunctionOnSet(One(S), S)
    BY Zenon, <1>1, CardinalityUnfold
  <1>5. ASSUME NEW x \in S
        PROVE  /\ IsFiniteSet(S \ {x})
               /\ Cardinality(S \ {x}) = SumFunctionOnSet(One(S), S \ {x})
    <2> DEFINE T == S \ {x}
    <2>1. T \in SUBSET S /\ Listed(T)
      <3>1. T \in SUBSET S
        BY Zenon
      <3> QED
        BY Zenon, <3>1, <1>1, ListedSubset
    <2>2. IsFiniteSet(T) /\ Cardinality(T) = SumFunctionOnSet(One(T), T)
      BY Zenon, <2>1, FiniteIsListed, CardinalityUnfold
    <2> HIDE DEF T
    <2>3. PICK g : Sums(One(S), S, g)
      BY Zenon, <1>1, SumsExist
    <2>4. PICK h : Sums(One(T), T, h)
      BY Zenon, <2>1, SumsExist
    <2>5. SumFunctionOnSet(One(S), T) = g[T] /\ SumFunctionOnSet(One(T), T) = h[T]
      <3>1. T \in SUBSET T
        BY Zenon
      <3>2. SumFunctionOnSet(One(S), T) = g[T]
        BY <1>1, <2>1, <2>3, SumOfSubset
      <3>3. SumFunctionOnSet(One(T), T) = h[T]
        BY <2>1, <2>4, <3>1, SumOfSubset
      <3> QED
        BY Zenon, <3>2, <3>3
    <2> DEFINE B == {t \in SUBSET T : g[t] # h[t]}
    <2>6. ASSUME B # {} PROVE FALSE
      <3>1. PICK t \in B : \A u \in B : u \subseteq t => u = t
        <4>1. B \in SUBSET (SUBSET T)
          BY Zenon
        <4> HIDE DEF B
        <4> QED
          BY <4>1, <2>1, <2>6, LeastSet
      <3>2. t \in SUBSET T /\ t \in SUBSET S /\ g[t] # h[t]
        BY Zenon, <2>1
      <3>3. g[t] = SumStep(One(S), g, t) /\ h[t] = SumStep(One(T), h, t)
        BY Zenon, <2>3, <2>4, <3>2 DEF Sums
      <3>4. t # {}
        BY Zenon, <3>2, <3>3 DEF SumStep
      <3>5. Pick(t) \in T /\ Pick(t) \in S /\ g[t \ {Pick(t)}] = h[t \ {Pick(t)}]
        BY Zenon, <3>1, <3>2, <3>4, PickIn
      <3>6. One(S)[Pick(t)] = 1 /\ One(T)[Pick(t)] = 1
        BY Zenon, <3>5 DEF One
      <3> QED
        BY Zenon, <3>2, <3>3, <3>5, <3>6 DEF SumStep
    <2>7. g[T] = h[T]
      BY Zenon, <2>6
    <2> QED
      BY Zenon, <2>2, <2>5, <2>7 DEF T
  <1> QED
    BY Zenon, <1>2, <1>3, <1>4, <1>5

\* What is used of finite sets and cardinality
Countable(S) ==
    /\ Cardinality(S) \in Nat
    /\ Cardinality(S) = 0 <=> S = {}
    /\ \A T \in SUBSET S : IsFiniteSet(T) /\ Cardinality(T) <= Cardinality(S)
    /\ \A T \in SUBSET S : Cardinality(T) = Cardinality(S) => T = S
    /\ \A x : x \notin S => /\ IsFiniteSet(S \cup {x})
                           /\ Cardinality(S \cup {x}) = Cardinality(S) + 1
    /\ \A x : x \in S => /\ IsFiniteSet(S \ {x})
                         /\ Cardinality(S \ {x}) = Cardinality(S) - 1
SetFacts ==
    /\ \A S : IsFiniteSet(S) => Countable(S)
    /\ \A n \in Nat : IsFiniteSet(0 .. (n - 1)) /\ Cardinality(0 .. (n - 1)) = n

\* One element more.
LEMMA CardinalityAdd ==
    ASSUME NEW S, IsFiniteSet(S), NEW x, x \notin S
    PROVE  IsFiniteSet(S \cup {x}) /\ Cardinality(S \cup {x}) = Cardinality(S) + 1
  <1> DEFINE T == S \cup {x}
  <1>1. IsFiniteSet(T) /\ x \in T /\ T \ {x} = S
    BY Zenon, FiniteIsListed, ListedAdd
  <1>2. Cardinality(T) = 1 + Cardinality(T \ {x}) /\ Cardinality(S) \in Nat
    BY Zenon, <1>1, CardinalityRemove
  <1>3. Cardinality(T) = 1 + Cardinality(S)
    BY Zenon, <1>1, <1>2
  <1> HIDE DEF T
  <1>4. Cardinality(T) = Cardinality(S) + 1
    BY ONLY <1>2, <1>3
  <1> QED
    BY Zenon, <1>1, <1>4 DEF T

\* Empty sets and singletons.
LEMMA CardinalitySmall ==
    /\ IsFiniteSet({}) /\ Cardinality({}) = 0
    /\ \A x : IsFiniteSet({x}) /\ Cardinality({x}) = 1
  <1>1. IsFiniteSet({}) /\ Cardinality({}) = 0
    <2>1. <<>> \in Seq({})
      OBVIOUS
    <2>2. IsFiniteSet({})
      BY Zenon, <2>1 DEF IsFiniteSet
    <2> QED
      BY Zenon, <2>2, CardinalityRemove
  <1>2. ASSUME NEW x PROVE IsFiniteSet({x}) /\ Cardinality({x}) = 1
    <2>1. IsFiniteSet({} \cup {x}) /\ Cardinality({} \cup {x}) = Cardinality({}) + 1
      BY Zenon, <1>1, CardinalityAdd
    <2>2. {} \cup {x} = {x} /\ Cardinality({}) + 1 = 1
      BY SMTT(60), Z3T(60), <1>1
    <2> QED
      BY Zenon, <2>1, <2>2
  <1> QED
    BY Zenon, <1>1, <1>2

\* A part of a finite set is finite and no larger.
LEMMA CardinalitySubset ==
    ASSUME NEW S, IsFiniteSet(S), NEW T \in SUBSET S
    PROVE  /\ IsFiniteSet(T) /\ Cardinality(T) <= Cardinality(S)
           /\ Cardinality(T) = Cardinality(S) => T = S
  <1>0. Listed(S)
    BY Zenon, FiniteIsListed
  <1>1. \A U \in SUBSET S : IsFiniteSet(U) /\ Cardinality(U) \in Nat
    <2> SUFFICES ASSUME NEW U \in SUBSET S PROVE IsFiniteSet(U) /\ Cardinality(U) \in Nat
      BY Zenon
    <2>1. Listed(U)
      BY Zenon, <1>0, ListedSubset
    <2>2. IsFiniteSet(U)
      BY Zenon, <2>1, FiniteIsListed
    <2> QED
      BY Zenon, <2>2, CardinalityRemove
  <1> DEFINE B == {U \in SUBSET S : T \subseteq U /\ T # U /\ ~ (Cardinality(T) < Cardinality(U))}
  <1>2. ASSUME B # {} PROVE FALSE
    <2>1. PICK U \in B : \A V \in B : V \subseteq U => V = U
      <3>1. B \in SUBSET (SUBSET S)
        BY Zenon
      <3> HIDE DEF B
      <3> QED
        BY <3>1, <1>0, <1>2, LeastSet
    <2>2. U \in SUBSET S /\ T \subseteq U /\ T # U /\ ~ (Cardinality(T) < Cardinality(U))
      BY Zenon
    <2>3. PICK x \in U : x \notin T
      BY Zenon, <2>2
    <2> DEFINE V == U \ {x}
    <2>4. V \in SUBSET S /\ T \subseteq V /\ V \subseteq U /\ V # U
      BY Zenon, <2>2, <2>3
    <2>5. Cardinality(U) = 1 + Cardinality(V)
      BY Zenon, <1>1, <2>2, CardinalityRemove
    <2>6. T = V \/ Cardinality(T) < Cardinality(V)
      BY Zenon, <2>1, <2>4
    <2>7. Cardinality(T) \in Nat /\ Cardinality(U) \in Nat /\ Cardinality(V) \in Nat
      BY Zenon, <1>1, <2>2, <2>4
    <2> HIDE DEF V, B
    <2>8. CASE T = V
      BY ONLY <2>2, <2>5, <2>7, <2>8
    <2>9. CASE Cardinality(T) < Cardinality(V)
      BY ONLY <2>2, <2>5, <2>7, <2>9
    <2> QED
      BY Zenon, <2>6, <2>8, <2>9
  <1>3. S \notin B
    BY Zenon, <1>2
  <1>4. T = S \/ Cardinality(T) < Cardinality(S)
    BY Zenon, <1>3
  <1>5. IsFiniteSet(T) /\ Cardinality(T) \in Nat /\ Cardinality(S) \in Nat
    BY Zenon, <1>1
  <1> HIDE DEF B
  <1>6. CASE T = S
    BY SMTT(60), Z3T(60), <1>5, <1>6
  <1>7. CASE Cardinality(T) < Cardinality(S)
    BY SMTT(60), Z3T(60), <1>5, <1>7
  <1> QED
    BY Zenon, <1>4, <1>6, <1>7

\* There are n numbers below n.
LEMMA CardinalityInterval ==
    ASSUME NEW n \in Nat
    PROVE  IsFiniteSet(0 .. (n - 1)) /\ Cardinality(0 .. (n - 1)) = n
  <1>1. \A m \in Nat : IsFiniteSet(0 .. (m - 1))
    <2> SUFFICES ASSUME NEW m \in Nat PROVE IsFiniteSet(0 .. (m - 1))
      BY Zenon
    <2> DEFINE q == [i \in 1 .. m |-> i - 1]
    <2>1. \A j \in 0 .. (m - 1) : j + 1 \in 1 .. m /\ q[j + 1] = j
      BY SMTT(60), Z3T(60)
    <2>2. 0 .. (m - 1) \subseteq {q[i] : i \in 1 .. m}
      BY Zenon, <2>1
    <2> HIDE DEF q
    <2>3. Listed(0 .. (m - 1))
      BY Zenon, <2>2 DEF Listed
    <2> QED
      BY Zenon, <2>3, FiniteIsListed
  <1> DEFINE B == {m \in Nat : Cardinality(0 .. (m - 1)) # m}
  <1>2. ASSUME B # {} PROVE FALSE
    <2>1. PICK m \in B : \A k \in B : m <= k
      <3>1. B \in SUBSET Nat
        BY Zenon
      <3> HIDE DEF B
      <3> QED
        BY Zenon, <3>1, <1>2, LeastNat
    <2>2. m \in Nat /\ Cardinality(0 .. (m - 1)) # m
      BY Zenon
    <2>3. CASE m = 0
      <3>1. 0 .. (m - 1) = {}
        BY SMTT(60), Z3T(60), <2>3
      <3>2. Cardinality(0 .. (m - 1)) = 0
        BY Zenon, <1>1, <2>2, <3>1, CardinalityRemove
      <3> QED
        BY Zenon, <2>2, <2>3, <3>2
    <2>4. CASE m # 0
      <3> DEFINE k == m - 1
                 I == 0 .. (m - 1)
                 J == 0 .. (k - 1)
      <3>1. k \in Nat /\ k \in I /\ I \ {k} = J /\ ~ (m <= k) /\ m = 1 + k
        BY SMTT(60), Z3T(60), <2>2, <2>4
      <3>2. k \notin B
        BY Zenon, <2>1, <3>1
      <3>3. Cardinality(J) = k
        BY Zenon, <3>1, <3>2
      <3>4. IsFiniteSet(I)
        BY Zenon, <1>1, <2>2
      <3> HIDE DEF k, I, J
      <3>5. Cardinality(I) = 1 + Cardinality(I \ {k})
        BY Zenon, <3>1, <3>4, CardinalityRemove
      <3>6. Cardinality(I) = m
        BY Zenon, <3>1, <3>3, <3>5
      <3> QED
        BY Zenon, <2>2, <3>6 DEF I
    <2> QED
      BY Zenon, <2>3, <2>4
  <1>3. n \notin B
    BY Zenon, <1>2
  <1> QED
    BY Zenon, <1>1, <1>3

\* What the session proofs assume of finite sets holds.
LEMMA SetFactsHold == SetFacts
  <1>1. ASSUME NEW S, IsFiniteSet(S) PROVE Countable(S)
    <2>1. /\ Cardinality(S) \in Nat /\ (S = {} => Cardinality(S) = 0)
          /\ \A x \in S : /\ IsFiniteSet(S \ {x}) /\ Cardinality(S) = 1 + Cardinality(S \ {x})
      BY Zenon, <1>1, CardinalityRemove
    <2>2. \A T \in SUBSET S : /\ IsFiniteSet(T) /\ Cardinality(T) <= Cardinality(S)
                              /\ Cardinality(T) = Cardinality(S) => T = S
      BY Zenon, <1>1, CardinalitySubset
    <2>3. ASSUME NEW x, x \in S PROVE IsFiniteSet(S \ {x}) /\ Cardinality(S \ {x}) = Cardinality(S) - 1
      <3>1. Cardinality(S \ {x}) \in Nat /\ IsFiniteSet(S \ {x}) /\ Cardinality(S) = 1 + Cardinality(S \ {x})
        BY Zenon, <2>1, <2>3, CardinalityRemove
      <3>2. Cardinality(S \ {x}) = Cardinality(S) - 1
        BY ONLY <3>1
      <3> QED
        BY Zenon, <3>1, <3>2
    <2>4. Cardinality(S) = 0 => S = {}
      <3> SUFFICES ASSUME Cardinality(S) = 0, NEW x \in S PROVE FALSE
        BY Zenon
      <3>1. Cardinality(S \ {x}) \in Nat /\ Cardinality(S) = 1 + Cardinality(S \ {x})
        BY Zenon, <2>1, CardinalityRemove
      <3> QED
        BY ONLY <3>1, Cardinality(S) = 0
    <2>5. \A x : x \notin S => /\ IsFiniteSet(S \cup {x})
                               /\ Cardinality(S \cup {x}) = Cardinality(S) + 1
      BY Zenon, <1>1, CardinalityAdd
    <2> QED
      BY Zenon, <2>1, <2>2, <2>3, <2>4, <2>5 DEF Countable
  <1> QED
    BY Zenon, <1>1, CardinalityInterval DEF SetFacts
=============================================================================
