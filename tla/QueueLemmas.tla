----------------------------- MODULE QueueLemmas -----------------------------
(* What the elements of a queue are, and how many of a kind there are, after *)
(* an event is pushed and after the first one is taken, for the proofs about *)
(* modules with queues.                                                      *)
EXTENDS Integers, Sequences, Functions, FunctionTheorems, FiniteSetTheorems, TLAPS

\* The elements of an extended sequence.
LEMMA RangeAppend ==
    ASSUME NEW S, NEW s \in Seq(S), NEW e \in S
    PROVE  /\ Append(s, e) \in Seq(S)
           /\ Range(Append(s, e)) = Range(s) \cup {e}
<1> DEFINE t == Append(s, e)
<1>1. /\ t \in Seq(S)
      /\ Len(t) = Len(s) + 1
      /\ \A k \in 1..Len(s) : t[k] = s[k]
      /\ t[Len(s) + 1] = e
  OBVIOUS
<1>2. DOMAIN t = 1..(Len(s) + 1) /\ DOMAIN s = 1..Len(s) /\ Len(s) \in Nat
  BY <1>1
<1> HIDE DEF t
<1>3. Range(t) \subseteq Range(s) \cup {e}
  BY <1>1, <1>2 DEF Range
<1>4. Range(s) \subseteq Range(t)
  BY <1>1, <1>2 DEF Range
<1>5. e \in Range(t)
  <2>1. Len(s) + 1 \in DOMAIN t
    BY <1>2
  <2> QED
    BY <2>1, <1>1 DEF Range
<1> QED
  BY <1>1, <1>3, <1>4, <1>5 DEF t

\* The elements of a sequence are its head and those of its tail.
LEMMA RangeTail ==
    ASSUME NEW S, NEW s \in Seq(S), s # <<>>
    PROVE  /\ Head(s) \in S
           /\ Tail(s) \in Seq(S)
           /\ Range(s) = {Head(s)} \cup Range(Tail(s))
<1>1. Head(s) \in S /\ Tail(s) \in Seq(S)
  OBVIOUS
<1>2. ASSUME NEW k \in DOMAIN s
      PROVE  s[k] \in {Head(s)} \cup Range(Tail(s))
  <2>1. CASE k = 1
    BY <2>1
  <2>2. CASE k # 1
    <3>1. k - 1 \in DOMAIN Tail(s) /\ Tail(s)[k - 1] = s[k]
      BY <2>2
    <3> QED
      BY <3>1 DEF Range
  <2> QED
    BY <2>1, <2>2
<1>3. ASSUME NEW k \in DOMAIN Tail(s)
      PROVE  Tail(s)[k] \in Range(s)
  <2>1. k + 1 \in DOMAIN s /\ Tail(s)[k] = s[k + 1]
    OBVIOUS
  <2> QED
    BY <2>1 DEF Range
<1>4. Head(s) \in Range(s)
  <2>1. 1 \in DOMAIN s /\ s[1] = Head(s)
    OBVIOUS
  <2> QED
    BY <2>1 DEF Range
<1> QED
  BY <1>1, <1>2, <1>3, <1>4 DEF Range

\* Every element of a sequence over S is in S.
LEMMA RangeType ==
    ASSUME NEW S, NEW s \in Seq(S)
    PROVE  Range(s) \subseteq S
BY DEF Range

-----------------------------------------------------------------------------
(* Counting                                                                 *)

\* How many of the first n elements of s are in E.
Hits(s, n, E) == Cardinality({k \in 1..n : s[k] \in E})

LEMMA HitsFinite ==
    ASSUME NEW s, NEW n \in Nat, NEW E
    PROVE  /\ IsFiniteSet({k \in 1..n : s[k] \in E})
           /\ Hits(s, n, E) \in Nat
           /\ n = 0 => Hits(s, n, E) = 0
<1>1. IsFiniteSet(1..n)
  BY FS_Interval
<1>2. IsFiniteSet({k \in 1..n : s[k] \in E})
  BY <1>1, FS_Subset
<1>3. n = 0 => {k \in 1..n : s[k] \in E} = {}
  OBVIOUS
<1> QED
  BY <1>2, <1>3, FS_CardinalityType, FS_EmptySet DEF Hits

\* One element more.
LEMMA HitsNext ==
    ASSUME NEW s, NEW n \in Nat, NEW E
    PROVE  Hits(s, n + 1, E) = Hits(s, n, E) + IF s[n + 1] \in E THEN 1 ELSE 0
<1> DEFINE A == {k \in 1..n : s[k] \in E}
           B == {k \in 1..(n + 1) : s[k] \in E}
<1>1. IsFiniteSet(A) /\ n + 1 \notin A /\ Hits(s, n, E) \in Nat
  BY HitsFinite
<1>2. CASE s[n + 1] \in E
  <2>1. B = A \cup {n + 1}
    BY <1>2
  <2> QED
    BY <1>1, <1>2, <2>1, FS_AddElement DEF Hits
<1>3. CASE s[n + 1] \notin E
  <2>1. B = A
    BY <1>3
  <2> QED
    BY <1>1, <1>3, <2>1 DEF Hits
<1> QED
  BY <1>2, <1>3

\* Only the elements themselves matter.
LEMMA HitsSame ==
    ASSUME NEW s, NEW t, NEW n \in Nat, NEW E, \A k \in 1..n : s[k] = t[k]
    PROVE  Hits(s, n, E) = Hits(t, n, E)
<1>1. {k \in 1..n : s[k] \in E} = {k \in 1..n : t[k] \in E}
  OBVIOUS
<1> QED
  BY <1>1 DEF Hits

\* Pushing an element leaves the counts before it and may add one.
LEMMA HitsAppend ==
    ASSUME NEW S, NEW s \in Seq(S), NEW e \in S, NEW E
    PROVE  /\ \A n \in 0..Len(s) : Hits(Append(s, e), n, E) = Hits(s, n, E)
           /\ Hits(Append(s, e), Len(Append(s, e)), E)
                 = Hits(s, Len(s), E) + IF e \in E THEN 1 ELSE 0
<1> DEFINE t == Append(s, e)
<1>1. /\ Len(s) \in Nat /\ Len(t) = Len(s) + 1 /\ t[Len(s) + 1] = e
      /\ \A k \in 1..Len(s) : t[k] = s[k]
  OBVIOUS
<1> HIDE DEF t
<1>2. \A n \in 0..Len(s) : Hits(t, n, E) = Hits(s, n, E)
  <2> SUFFICES ASSUME NEW n \in 0..Len(s) PROVE Hits(t, n, E) = Hits(s, n, E)
    OBVIOUS
  <2>1. n \in Nat /\ \A k \in 1..n : t[k] = s[k]
    BY <1>1
  <2> QED
    BY <2>1, HitsSame
<1>3. Hits(t, Len(t), E) = Hits(s, Len(s), E) + IF e \in E THEN 1 ELSE 0
  BY <1>1, <1>2, HitsNext
<1> QED
  BY <1>2, <1>3 DEF t

\* Taking the first element moves the others up by one.
LEMMA HitsTail ==
    ASSUME NEW S, NEW s \in Seq(S), s # <<>>, NEW n \in 1..Len(s), NEW E
    PROVE  Hits(s, n, E)
              = Hits(Tail(s), n - 1, E) + IF Head(s) \in E THEN 1 ELSE 0
<1> DEFINE t == Tail(s)
           A == {k \in 1..(n - 1) : t[k] \in E}
           B == {k \in 2..n : s[k] \in E}
           up == [k \in A |-> k + 1]
<1>1. /\ n \in Nat /\ n - 1 \in Nat /\ n <= Len(s) /\ Len(t) = Len(s) - 1
      /\ \A k \in 1..(n - 1) : t[k] = s[k + 1]
      /\ Head(s) = s[1]
  OBVIOUS
<1> HIDE DEF t
<1>2. IsFiniteSet(A) /\ Cardinality(A) = Hits(t, n - 1, E)
  BY <1>1, HitsFinite DEF Hits
<1>3. up \in Bijection(A, B)
  <2>1. up \in [A -> B]
    BY <1>1
  <2>2. \A j, k \in A : up[j] = up[k] => j = k
    OBVIOUS
  <2>3. \A k \in B : \E j \in A : up[j] = k
    <3> SUFFICES ASSUME NEW k \in B PROVE k - 1 \in A /\ up[k - 1] = k
      OBVIOUS
    <3> QED
      BY <1>1
  <2> QED
    BY <2>1, <2>2, <2>3, Fun_IsBij
<1>4. IsFiniteSet(B) /\ Cardinality(B) = Cardinality(A)
  BY <1>2, <1>3, FS_Bijection DEF ExistsBijection
<1>5. CASE Head(s) \in E
  <2>1. {k \in 1..n : s[k] \in E} = B \cup {1} /\ 1 \notin B
    BY <1>1, <1>5
  <2>2. Cardinality(B \cup {1}) = Cardinality(B) + 1
    BY <1>4, <2>1, FS_AddElement
  <2> QED
    BY <1>2, <1>4, <1>5, <2>1, <2>2 DEF Hits, t
<1>6. CASE Head(s) \notin E
  <2>1. {k \in 1..n : s[k] \in E} = B
    BY <1>1, <1>6
  <2>2. Cardinality(A) \in Nat
    BY <1>2, FS_CardinalityType
  <2>3. Hits(s, n, E) = Hits(Tail(s), n - 1, E) /\ Hits(s, n, E) \in Nat
    BY <1>2, <1>4, <2>1, <2>2 DEF Hits, t
  <2> QED
    BY <1>6, <2>3
<1> QED
  BY <1>5, <1>6
=============================================================================
