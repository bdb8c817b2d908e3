---------------------------- MODULE SublistProofs ----------------------------
(***************************************************************************)
(* What erasing entries does to a list.                                    *)
(***************************************************************************)
EXTENDS Sublists, FiniteSetTheorems, SequenceTheorems, TLAPS

\* What is left of a list after erasing entries is a list, not longer, whose
\* entries are entries of the old list that were kept, in the same order.
LEMMA SublistType ==
    ASSUME NEW S, NEW s \in Seq(S), NEW K \in SUBSET DOMAIN s, NEW t \in Sublist(s, K)
    PROVE  /\ t \in Seq(S)
           /\ Len(t) <= Len(s)
           /\ \E f \in [DOMAIN t -> K] :
                  /\ \A i \in DOMAIN t : t[i] = s[f[i]]
                  /\ \A i, j \in DOMAIN t : i < j => f[i] < f[j]
<1>1. IsFiniteSet(1 .. Len(s)) /\ Cardinality(1 .. Len(s)) = Len(s)
  <2>1. Len(s) \in Nat
    OBVIOUS
  <2>2. IsFiniteSet(1 .. Len(s))
    BY <2>1, FS_Interval
  <2>3. Cardinality(1 .. Len(s)) = IF 1 > Len(s) THEN 0 ELSE Len(s) - 1 + 1
    BY <2>1, FS_Interval
  <2> QED BY <2>1, <2>2, <2>3
<1>2. IsFiniteSet(K) /\ Cardinality(K) <= Len(s)
  BY <1>1, FS_Subset
<1>3. Cardinality(K) \in Nat
  BY <1>2, FS_CardinalityType
<1>4. PICK f \in Ascending(K) : t = [i \in 1 .. Cardinality(K) |-> s[f[i]]]
  BY DEF Sublist
<1>5. \A i \in 1 .. Cardinality(K) : s[f[i]] \in S
  BY <1>4 DEF Ascending
<1>6. t \in Seq(S) /\ Len(t) <= Len(s) /\ DOMAIN t = 1 .. Cardinality(K)
  BY <1>2, <1>3, <1>4, <1>5
<1>7. /\ f \in [DOMAIN t -> K]
      /\ \A i \in DOMAIN t : t[i] = s[f[i]]
      /\ \A i, j \in DOMAIN t : i < j => f[i] < f[j]
  BY <1>4, <1>6 DEF Ascending
<1> QED BY <1>6, <1>7

\* The numbers up to a bound, and the subsets of a list's domain, are finite.
LEMMA UpTo ==
    ASSUME NEW n \in Nat
    PROVE  IsFiniteSet(1 .. n) /\ Cardinality(1 .. n) = n
<1>1. IsFiniteSet(1 .. n)
  BY FS_Interval
<1>2. Cardinality(1 .. n) = IF 1 > n THEN 0 ELSE n - 1 + 1
  BY FS_Interval
<1> QED BY <1>1, <1>2

\* The entries that were kept are all there.
LEMMA SublistKeeps ==
    ASSUME NEW S, NEW s \in Seq(S), NEW K \in SUBSET DOMAIN s, NEW t \in Sublist(s, K)
    PROVE  \E f \in [1 .. Len(t) -> K] :
               /\ \A i \in 1 .. Len(t) : t[i] = s[f[i]]
               /\ \A i, j \in 1 .. Len(t) : i < j => f[i] < f[j]
               /\ \A k \in K : \E i \in 1 .. Len(t) : f[i] = k
<1>1. IsFiniteSet(K) /\ Cardinality(K) \in Nat
  <2>1. IsFiniteSet(1 .. Len(s)) /\ DOMAIN s = 1 .. Len(s)
    BY UpTo
  <2> QED BY <2>1, FS_Subset, FS_CardinalityType
<1> DEFINE c == Cardinality(K)
<1>2. PICK f \in Ascending(K) : t = [i \in 1 .. c |-> s[f[i]]]
  BY DEF Sublist
<1>3. f \in [1 .. c -> K] /\ \A i, j \in 1 .. c : i < j => f[i] < f[j]
  BY DEF Ascending
<1>4. t \in Seq(S) /\ Len(t) = c
  <2>1. \A i \in 1 .. c : s[f[i]] \in S
    BY <1>3
  <2> HIDE DEF c
  <2> QED BY <1>1, <1>2, <2>1 DEF c
<1>5. f \in Injection(1 .. c, K)
  <2>1. \A i, j \in 1 .. c : f[i] = f[j] => i = j
    <3>1. ASSUME NEW i \in 1 .. c, NEW j \in 1 .. c, f[i] = f[j], i # j
          PROVE  FALSE
      <4>1. f[i] \in Int /\ f[j] \in Int /\ i \in Int /\ j \in Int
        BY <1>3
      <4> QED BY <1>3, <3>1, <4>1
    <3> QED BY <3>1
  <2> QED BY <1>3, <2>1 DEF Injection, IsInjective
<1>6. Cardinality(1 .. c) = c
  BY <1>1, UpTo
<1>7. f \in Surjection(1 .. c, K)
  BY <1>1, <1>5, <1>6, FS_Injection
<1>8. \A k \in K : \E i \in 1 .. c : f[i] = k
  BY <1>7 DEF Surjection
<1> QED BY <1>2, <1>3, <1>4, <1>8

\* Counting out entries in ascending order gives what is left of the others.
LEMMA SublistCounted ==
    ASSUME NEW s, NEW K \in SUBSET Nat, NEW n \in Nat, NEW f \in [1 .. n -> K],
           \A i, j \in 1 .. n : i < j => f[i] < f[j],
           \A k \in K : \E i \in 1 .. n : f[i] = k
    PROVE  [i \in 1 .. n |-> s[f[i]]] \in Sublist(s, K)
<1>1. \A i, j \in 1 .. n : f[i] = f[j] => i = j
  <2>1. ASSUME NEW i \in 1 .. n, NEW j \in 1 .. n, f[i] = f[j], i # j
        PROVE  FALSE
    <3>1. f[i] \in Nat /\ f[j] \in Nat
      <4>1. f[i] \in K /\ f[j] \in K
        OBVIOUS
      <4> QED BY <4>1
    <3> QED BY <2>1, <3>1
  <2> QED BY <2>1
<1>2. f \in Bijection(1 .. n, K)
  BY <1>1 DEF Bijection, Injection, Surjection, IsInjective
<1>3. Cardinality(K) = n
  BY <1>2, FS_CountingElements DEF ExistsBijection
<1>4. f \in Ascending(K)
  BY <1>3 DEF Ascending
<1> QED BY <1>3, <1>4 DEF Sublist

\* Nothing is erased.
LEMMA SublistWhole ==
    ASSUME NEW S, NEW s \in Seq(S)
    PROVE  s \in Sublist(s, DOMAIN s)
<1> DEFINE n == Len(s)
           f == [i \in 1 .. n |-> i]
<1>1. n \in Nat /\ DOMAIN s = 1 .. n /\ 1 .. n \in SUBSET Nat
  OBVIOUS
<1>2. /\ f \in [1 .. n -> 1 .. n]
      /\ \A i, j \in 1 .. n : i < j => f[i] < f[j]
      /\ \A k \in 1 .. n : \E i \in 1 .. n : f[i] = k
  OBVIOUS
<1>3. [i \in 1 .. n |-> s[f[i]]] \in Sublist(s, 1 .. n)
  <2> HIDE DEF f, n
  <2> QED BY <1>1, <1>2, SublistCounted
<1>4. [i \in 1 .. n |-> s[f[i]]] = s
  BY <1>1
<1> QED BY <1>1, <1>3, <1>4

\* The first entry is erased.
LEMMA SublistTail ==
    ASSUME NEW S, NEW s \in Seq(S), s # <<>>
    PROVE  Tail(s) \in Sublist(s, DOMAIN s \ {1})
<1> DEFINE n == Len(s) - 1
           K == DOMAIN s \ {1}
           f == [i \in 1 .. n |-> i + 1]
<1>1. n \in Nat /\ DOMAIN s = 1 .. n + 1 /\ K \in SUBSET Nat /\ K = 2 .. n + 1
  OBVIOUS
<1>2. /\ f \in [1 .. n -> K]
      /\ \A i, j \in 1 .. n : i < j => f[i] < f[j]
  BY <1>1
<1>3. \A k \in K : \E i \in 1 .. n : f[i] = k
  <2> SUFFICES ASSUME NEW k \in K PROVE \E i \in 1 .. n : f[i] = k
    OBVIOUS
  <2>1. k - 1 \in 1 .. n /\ f[k - 1] = k
    BY <1>1
  <2> QED BY <2>1
<1>4. [i \in 1 .. n |-> s[f[i]]] \in Sublist(s, K)
  <2> HIDE DEF f, n, K
  <2> QED BY <1>1, <1>2, <1>3, SublistCounted
<1>5. [i \in 1 .. n |-> s[f[i]]] = Tail(s)
  <2>1. /\ Tail(s) \in Seq(S) /\ Len(Tail(s)) = n
        /\ \A i \in 1 .. n : Tail(s)[i] = s[i + 1]
    BY HeadTailProperties
  <2>2. Tail(s) \in [1 .. n -> S]
    BY <2>1, LenProperties
  <2> HIDE DEF n
  <2> QED BY <2>1, <2>2
<1> QED BY <1>4, <1>5

\* Numbers that include everything below them are the ones up to a bound.
LEMMA InitialPart ==
    ASSUME NEW c \in Nat, NEW P \in SUBSET (1 .. c),
           \A i \in P : \A j \in 1 .. i : j \in P
    PROVE  \E p \in 0 .. c : P = 1 .. p
<1> DEFINE p == Cardinality(P)
<1>1. IsFiniteSet(P) /\ p \in Nat /\ p <= c
  <2>1. IsFiniteSet(1 .. c) /\ Cardinality(1 .. c) = c
    BY UpTo
  <2>2. IsFiniteSet(P) /\ Cardinality(P) <= c
    <3>1. P \in SUBSET (1 .. c)
      OBVIOUS
    <3>2. IsFiniteSet(P) /\ Cardinality(P) <= Cardinality(1 .. c)
      BY <2>1, <3>1, FS_Subset, Zenon
    <3> QED BY <2>1, <3>2
  <2> QED BY <2>2, FS_CardinalityType
<1>2. ASSUME NEW i \in P
      PROVE  i \in 1 .. p
  <2>1. 1 .. i \in SUBSET P /\ i \in Nat
    OBVIOUS
  <2>2. Cardinality(1 .. i) = i
    BY <2>1, UpTo
  <2>3. Cardinality(1 .. i) <= p
    BY <1>1, <2>1, FS_Subset
  <2> HIDE DEF p
  <2> QED BY <1>1, <2>1, <2>2, <2>3
<1>3. P \in SUBSET (1 .. p)
  BY <1>2
<1>4. P = 1 .. p
  <2>1. IsFiniteSet(1 .. p) /\ Cardinality(1 .. p) = p
    BY <1>1, UpTo
  <2> QED BY <1>3, <2>1, FS_Subset
<1> HIDE DEF p
<1> QED BY <1>1, <1>4
=============================================================================
