----------------------------- MODULE ItemSyncProofs -----------------------------
(***************************************************************************)
(* Proofs about ItemSync, for any items, modes, chunks and failures.       *)
(*                                                                         *)
(* An item is followed from its delivery through the queue to the store.   *)
(* The queue is seen as a set of places, each with a job: an operation     *)
(* adds some (Adds), takes some out (Moved) or leaves them as they are     *)
(* (Same), whatever the transactions are that the jobs are put in.  Each   *)
(* invariant builds on the one before:                                     *)
(*   CountInv   the counters are the sizes of the queue;                   *)
(*   LostInv    a deletion that is queued is one the resource asked for;   *)
(*   DoneInv    an item that is not stored yet has a job in the queue;     *)
(*   AtomicInv  a single transaction is begun before it changes anything;  *)
(*   WaitInv    (on CountInv) a transaction that is let go of has a job.   *)
(***************************************************************************)
EXTENDS ItemSync, FiniteSetTheorems, TLAPS

----------------------------------------------------------------------------
(* Counting                                                                *)

\* A bijection keeps the number of elements.
LEMMA Count ==
    ASSUME NEW S, IsFiniteSet(S), NEW T, NEW f \in [S -> T],
           \A x \in S, y \in S : f[x] = f[y] => x = y,
           \A y \in T : \E x \in S : f[x] = y
    PROVE  IsFiniteSet(T) /\ Cardinality(T) = Cardinality(S)
<1>1. f \in Bijection(S, T)
  BY DEF Bijection, Injection, Surjection, IsInjective
<1>2. ExistsBijection(S, T)
  BY <1>1 DEF ExistsBijection
<1> QED
  BY <1>2, FS_Bijection

\* Disjoint sets add up, and a part can be taken out.
LEMMA CountApart ==
    ASSUME NEW S, IsFiniteSet(S), NEW T, IsFiniteSet(T), S \cap T = {}
    PROVE  /\ IsFiniteSet(S \cup T)
           /\ Cardinality(S \cup T) = Cardinality(S) + Cardinality(T)
           /\ Cardinality(S) \in Nat /\ Cardinality(T) \in Nat
<1>1. /\ IsFiniteSet(S \cup T)
      /\ Cardinality(S \cup T) = Cardinality(S) + Cardinality(T) - Cardinality(S \cap T)
      /\ Cardinality(S) \in Nat /\ Cardinality(T) \in Nat
  BY FS_Union, FS_CardinalityType
<1>2. Cardinality(S \cap T) = 0
  BY FS_EmptySet
<1> QED BY <1>1, <1>2

\* A part is taken out.
LEMMA CountLess ==
    ASSUME NEW S, IsFiniteSet(S), NEW T, T \subseteq S
    PROVE  IsFiniteSet(S \ T) /\ Cardinality(S \ T) = Cardinality(S) - Cardinality(T)
<1>1. /\ IsFiniteSet(S \ T)
      /\ Cardinality(S \ T) = Cardinality(S) - Cardinality(S \cap T)
  BY FS_Difference
<1>2. S \cap T = T
  OBVIOUS
<1> QED BY <1>1, <1>2

\* The jobs that change something are finitely many.
LEMMA ChangesFinite ==
    ASSUME NEW jobs \in Seq(JobType)
    PROVE  /\ IsFiniteSet(Changes(jobs)) /\ Changes(jobs) \subseteq 1 .. Len(jobs)
           /\ Cardinality(Changes(jobs)) \in Nat
<1>1. Changes(jobs) \subseteq 1 .. Len(jobs)
  BY DEF Changes
<1>2. IsFiniteSet(1 .. Len(jobs))
  BY FS_Interval
<1> QED BY <1>1, <1>2, FS_Subset, FS_CardinalityType

\* What jobs of no or of one element count.
LEMMA ChangesOfNone ==
    /\ Changes(<<>>) = {} /\ Cardinality(Changes(<<>>)) = 0
    /\ \A job : ~IsChange(job) => Changes(<<job>>) = {} /\ Cardinality(Changes(<<job>>)) = 0
    /\ \A job : IsChange(job) => Changes(<<job>>) = {1} /\ Cardinality(Changes(<<job>>)) = 1
<1>1. Changes(<<>>) = {}
  BY DEF Changes
<1>2. \A job : ~IsChange(job) => Changes(<<job>>) = {}
  BY DEF Changes
<1>3. \A job : IsChange(job) => Changes(<<job>>) = {1}
  BY DEF Changes
<1>4. Cardinality({}) = 0 /\ Cardinality({1}) = 1
  BY FS_EmptySet, FS_Singleton
<1> QED BY <1>1, <1>2, <1>3, <1>4

\* Jobs that are put after others count in addition.
LEMMA ChangesOfBoth ==
    ASSUME NEW a \in Seq(JobType), NEW b \in Seq(JobType)
    PROVE  Cardinality(Changes(a \o b)) = Cardinality(Changes(a)) + Cardinality(Changes(b))
<1> DEFINE S == {Len(a) + k : k \in Changes(b)}
           f == [k \in Changes(b) |-> Len(a) + k]
<1>1. /\ a \o b \in Seq(JobType) /\ Len(a) \in Nat /\ Len(b) \in Nat
      /\ Len(a \o b) = Len(a) + Len(b)
      /\ \A k \in 1 .. Len(a) : (a \o b)[k] = a[k]
      /\ \A k \in 1 .. Len(b) : (a \o b)[Len(a) + k] = b[k]
  OBVIOUS
<1>2. Changes(a) \cup S = Changes(a \o b)
  <2>1. \A k \in 1 .. Len(a) + Len(b) : k \in 1 .. Len(a) \/ k - Len(a) \in 1 .. Len(b)
    BY <1>1
  <2>2. \A k \in 1 .. Len(a) + Len(b) : k \notin 1 .. Len(a) => Len(a) + (k - Len(a)) = k
    BY <1>1
  <2>3. Changes(a \o b) \subseteq Changes(a) \cup S
    BY <1>1, <2>1, <2>2 DEF Changes
  <2>4. Changes(a) \cup S \subseteq Changes(a \o b)
    BY <1>1 DEF Changes
  <2> QED BY <2>3, <2>4
<1>3. IsFiniteSet(S) /\ Cardinality(S) = Cardinality(Changes(b))
  <2>1. f \in [Changes(b) -> S]
    OBVIOUS
  <2>2. \A x \in Changes(b), y \in Changes(b) : f[x] = f[y] => x = y
    BY <1>1, ChangesFinite
  <2>3. \A y \in S : \E x \in Changes(b) : f[x] = y
    OBVIOUS
  <2> HIDE DEF f, S
  <2> QED BY <2>1, <2>2, <2>3, Count, ChangesFinite
<1>4. Changes(a) \cap S = {}
  BY <1>1, ChangesFinite
<1> HIDE DEF S
<1> QED BY <1>2, <1>3, <1>4, CountApart, ChangesFinite

\* The first job leaves, and counts no more.
LEMMA ChangesOfTail ==
    ASSUME NEW jobs \in Seq(JobType), jobs # <<>>
    PROVE  Cardinality(Changes(Tail(jobs))) =
               Cardinality(Changes(jobs)) - IF IsChange(Head(jobs)) THEN 1 ELSE 0
<1>1. /\ Tail(jobs) \in Seq(JobType) /\ <<Head(jobs)>> \in Seq(JobType)
      /\ jobs = <<Head(jobs)>> \o Tail(jobs)
  OBVIOUS
<1>2. Cardinality(Changes(jobs)) =
          Cardinality(Changes(<<Head(jobs)>>)) + Cardinality(Changes(Tail(jobs)))
  BY <1>1, ChangesOfBoth
<1>3. Cardinality(Changes(<<Head(jobs)>>)) = IF IsChange(Head(jobs)) THEN 1 ELSE 0
  BY ChangesOfNone
<1>4. Cardinality(Changes(Tail(jobs))) \in Nat /\ Cardinality(Changes(jobs)) \in Nat
  BY <1>1, ChangesFinite
<1> QED BY <1>2, <1>3, <1>4

----------------------------------------------------------------------------
(* The queue                                                               *)

\* The entries of a queue have their types.
LEMMA EntryTyped ==
    ASSUME NEW q \in Seq(EntryType), NEW k \in DOMAIN q
    PROVE  /\ q[k] \in EntryType /\ q[k].jobs \in Seq(JobType) /\ q[k].tx \in BOOLEAN
           /\ q[k].failed \in BOOLEAN /\ q[k].state \in {"none", "Idle", "Running", "Waiting"}
           /\ k \in 1 .. Len(q) /\ Len(q) \in Nat
<1>1. q[k] \in EntryType /\ k \in 1 .. Len(q) /\ Len(q) \in Nat
  OBVIOUS
<1>2. \A e \in EntryType : /\ e.jobs \in Seq(JobType) /\ e.tx \in BOOLEAN
                          /\ e.failed \in BOOLEAN
                          /\ e.state \in {"none", "Idle", "Running", "Waiting"}
  BY DEF EntryType
<1> QED BY <1>1, <1>2

\* What a place is.
LEMMA InPlaces ==
    ASSUME NEW q
    PROVE  /\ \A p \in Places(q) : p = <<p[1], p[2]>>
           /\ \A k, j : <<k, j>> \in Places(q) <=> k \in DOMAIN q /\ j \in Changes(q[k].jobs)
  BY DEF Places

\* One entry of the queue has as many places as changes.
LEMMA PlacesOfEntry ==
    ASSUME NEW k, NEW jobs \in Seq(JobType)
    PROVE  /\ IsFiniteSet({k} \X Changes(jobs))
           /\ Cardinality({k} \X Changes(jobs)) = Cardinality(Changes(jobs))
<1> DEFINE C == Changes(jobs)
           f == [j \in C |-> <<k, j>>]
<1>1. IsFiniteSet(C)
  BY ChangesFinite
<1>2. /\ f \in [C -> {k} \X C]
      /\ \A x \in C, y \in C : f[x] = f[y] => x = y
      /\ \A y \in {k} \X C : \E x \in C : f[x] = y
  OBVIOUS
<1> HIDE DEF f, C
<1>3. IsFiniteSet({k} \X C) /\ Cardinality({k} \X C) = Cardinality(C)
  BY <1>1, <1>2, Count
<1> QED BY <1>3 DEF C

\* The places and the transactions are finitely many.
LEMMA PlacesFinite ==
    ASSUME NEW q \in Seq(EntryType)
    PROVE  /\ IsFiniteSet(Places(q)) /\ IsFiniteSet(Transactions(q))
           /\ Cardinality(Places(q)) \in Nat /\ Cardinality(Transactions(q)) \in Nat
           /\ Transactions(q) \subseteq 1 .. Len(q)
<1> DEFINE D == 1 .. Len(q)
           P == {{k} \X Changes(q[k].jobs) : k \in D}
           f == [k \in D |-> {k} \X Changes(q[k].jobs)]
<1>1. IsFiniteSet(D) /\ D = DOMAIN q
  BY FS_Interval
<1>2. f \in Surjection(D, P)
  BY DEF Surjection
<1>3. \A T \in P : IsFiniteSet(T)
  <2>1. \A k \in D : IsFiniteSet({k} \X Changes(q[k].jobs))
    BY <1>1, PlacesOfEntry, EntryTyped
  <2> QED BY <2>1
<1>4. Places(q) = UNION P
  BY <1>1 DEF Places
<1>5. Transactions(q) \subseteq D
  BY <1>1 DEF Transactions
<1> HIDE DEF f, P
<1>6. IsFiniteSet(P)
  BY <1>1, <1>2, FS_Surjection
<1>7. IsFiniteSet(Places(q)) /\ IsFiniteSet(Transactions(q))
  BY <1>1, <1>3, <1>4, <1>5, <1>6, FS_UNION, FS_Subset
<1> QED BY <1>5, <1>7, FS_CardinalityType

\* An entry is exchanged for another one.
LEMMA EntryExchanged ==
    ASSUME NEW q \in Seq(EntryType), NEW n \in DOMAIN q, NEW e \in EntryType, e.tx = q[n].tx
    PROVE  LET r == [q EXCEPT ![n] = e] IN
           /\ r \in Seq(EntryType) /\ Len(r) = Len(q)
           /\ Cardinality(Places(r)) = Cardinality(Places(q)) - Cardinality(Changes(q[n].jobs))
                                       + Cardinality(Changes(e.jobs))
           /\ Transactions(r) = Transactions(q)
<1> DEFINE r == [q EXCEPT ![n] = e]
           old == {n} \X Changes(q[n].jobs)
           new == {n} \X Changes(e.jobs)
           rest == Places(q) \ old
<1>1. /\ r \in Seq(EntryType) /\ Len(r) = Len(q) /\ DOMAIN r = DOMAIN q
      /\ \A k \in DOMAIN q : r[k] = IF k = n THEN e ELSE q[k]
  OBVIOUS
<1>2. Transactions(r) = Transactions(q)
  BY <1>1 DEF Transactions
<1>3. Places(r) = rest \cup new /\ rest \cap new = {}
  BY <1>1, InPlaces DEF Places
<1>4. old \subseteq Places(q)
  BY DEF Places
<1>5. e.jobs \in Seq(JobType) /\ q[n].jobs \in Seq(JobType)
  BY EntryTyped DEF EntryType
<1> HIDE DEF r, old, new, rest
<1>6. /\ IsFiniteSet(old) /\ Cardinality(old) = Cardinality(Changes(q[n].jobs))
      /\ IsFiniteSet(new) /\ Cardinality(new) = Cardinality(Changes(e.jobs))
  BY <1>5, PlacesOfEntry DEF old, new
<1>7. IsFiniteSet(rest) /\ Cardinality(rest) = Cardinality(Places(q)) - Cardinality(old)
  <2>1. IsFiniteSet(Places(q))
    BY PlacesFinite
  <2> HIDE DEF old
  <2> QED BY <1>4, <2>1, CountLess DEF rest
<1>8. Cardinality(Places(r)) = Cardinality(rest) + Cardinality(new)
  BY <1>3, <1>6, <1>7, CountApart
<1> QED BY <1>1, <1>2, <1>6, <1>7, <1>8 DEF r

\* An entry is appended.
LEMMA EntryAppended ==
    ASSUME NEW q \in Seq(EntryType), NEW e \in EntryType
    PROVE  LET r == Append(q, e) IN
           /\ r \in Seq(EntryType) /\ Len(r) = Len(q) + 1
           /\ \A k \in 1 .. Len(q) : r[k] = q[k]
           /\ r[Len(q) + 1] = e
           /\ Places(r) = Places(q) \cup ({Len(q) + 1} \X Changes(e.jobs))
           /\ Cardinality(Places(r)) = Cardinality(Places(q)) + Cardinality(Changes(e.jobs))
           /\ Cardinality(Transactions(r)) =
                  Cardinality(Transactions(q)) + IF e.tx THEN 1 ELSE 0
<1> DEFINE r == Append(q, e)
           n == Len(q) + 1
           new == {n} \X Changes(e.jobs)
           T == IF e.tx THEN {n} ELSE {}
<1>1. /\ r \in Seq(EntryType) /\ Len(r) = n /\ DOMAIN r = 1 .. n /\ Len(q) \in Nat
      /\ DOMAIN q = 1 .. Len(q)
      /\ \A k \in 1 .. Len(q) : r[k] = q[k]
      /\ r[n] = e
  OBVIOUS
<1>2. \A k : k \in 1 .. n <=> k \in 1 .. Len(q) \/ k = n
  BY <1>1
<1>3. n \notin 1 .. Len(q)
  BY <1>1
<1>4. Transactions(r) = Transactions(q) \cup T /\ Transactions(q) \cap T = {}
  BY <1>1, <1>2, <1>3 DEF Transactions
<1>5. Places(r) = Places(q) \cup new /\ Places(q) \cap new = {}
  BY <1>1, <1>2, <1>3, InPlaces DEF Places
<1>6. IsFiniteSet(new) /\ Cardinality(new) = Cardinality(Changes(e.jobs))
  BY PlacesOfEntry DEF EntryType
<1>7. IsFiniteSet(T) /\ Cardinality(T) = IF e.tx THEN 1 ELSE 0
  BY FS_Singleton, FS_EmptySet
<1> HIDE DEF r, n, new, T
<1>8. /\ Cardinality(Places(r)) = Cardinality(Places(q)) + Cardinality(new)
      /\ Cardinality(Transactions(r)) = Cardinality(Transactions(q)) + Cardinality(T)
  BY <1>4, <1>5, <1>6, <1>7, CountApart, PlacesFinite
<1> QED BY <1>1, <1>5, <1>6, <1>7, <1>8 DEF r, n, new

\* The last entry is removed.
LEMMA LastRemoved ==
    ASSUME NEW q \in Seq(EntryType), q # <<>>
    PROVE  LET n == Len(q)
               r == RemoveAt(q, n) IN
           /\ n \in DOMAIN q
           /\ r \in Seq(EntryType) /\ Len(r) = n - 1
           /\ \A k \in 1 .. n - 1 : r[k] = q[k]
           /\ Places(q) = Places(r) \cup ({n} \X Changes(q[n].jobs))
           /\ Cardinality(Places(r)) = Cardinality(Places(q)) - Cardinality(Changes(q[n].jobs))
           /\ Cardinality(Transactions(r)) =
                  Cardinality(Transactions(q)) - IF q[n].tx THEN 1 ELSE 0
<1> DEFINE n == Len(q)
           r == RemoveAt(q, n)
<1>1. r = SubSeq(q, 1, n - 1) /\ n \in DOMAIN q /\ n \in Nat \ {0}
  BY DEF RemoveAt
<1>2. r \in Seq(EntryType) /\ Len(r) = n - 1 /\ \A k \in 1 .. n - 1 : r[k] = q[k]
  <2> DEFINE m == n - 1
  <2>1. m \in 0 .. Len(q) /\ r = SubSeq(q, 1, m)
    BY <1>1
  <2> HIDE DEF m, r
  <2>2. r \in Seq(EntryType) /\ Len(r) = m /\ \A k \in 1 .. m : r[k] = q[k]
    BY <2>1
  <2> QED BY <2>2 DEF m
<1>3. q = Append(r, q[n]) /\ q[n] \in EntryType
  BY <1>1, <1>2, EntryTyped
<1> HIDE DEF r
<1>4. /\ Places(q) = Places(r) \cup ({n} \X Changes(q[n].jobs))
      /\ Cardinality(Places(q)) = Cardinality(Places(r)) + Cardinality(Changes(q[n].jobs))
      /\ Cardinality(Transactions(q)) =
             Cardinality(Transactions(r)) + IF q[n].tx THEN 1 ELSE 0
  <2>1. Len(r) + 1 = n
    BY <1>1, <1>2
  <2> DEFINE e == q[n]
  <2>2. q = Append(r, e) /\ e \in EntryType
    BY <1>3
  <2> HIDE DEF e, n
  <2>3. /\ Places(q) = Places(r) \cup ({n} \X Changes(e.jobs))
        /\ Cardinality(Places(q)) = Cardinality(Places(r)) + Cardinality(Changes(e.jobs))
        /\ Cardinality(Transactions(q)) = Cardinality(Transactions(r)) + IF e.tx THEN 1 ELSE 0
    BY <1>2, <2>1, <2>2, EntryAppended
  <2> QED BY <2>3 DEF e
<1>5. /\ Cardinality(Places(r)) \in Nat /\ Cardinality(Transactions(r)) \in Nat
      /\ Cardinality(Changes(q[n].jobs)) \in Nat
  BY <1>1, <1>2, PlacesFinite, ChangesFinite, EntryTyped
<1> QED BY <1>1, <1>2, <1>4, <1>5 DEF r

\* The first entry is removed.
LEMMA FirstRemoved ==
    ASSUME NEW q \in Seq(EntryType), q # <<>>
    PROVE  LET r == Tail(q) IN
           /\ 1 \in DOMAIN q /\ Head(q) = q[1]
           /\ RemoveAt(q, 1) = r
           /\ r \in Seq(EntryType) /\ Len(r) = Len(q) - 1
           /\ \A k \in 1 .. Len(q) - 1 : r[k] = q[k + 1]
           /\ Cardinality(Places(r)) = Cardinality(Places(q)) - Cardinality(Changes(q[1].jobs))
           /\ Cardinality(Transactions(r)) =
                  Cardinality(Transactions(q)) - IF q[1].tx THEN 1 ELSE 0
<1> DEFINE r == Tail(q)
           n == Len(q) - 1
           first == {1} \X Changes(q[1].jobs)
           rest == Places(q) \ first
           T == IF q[1].tx THEN {1} ELSE {}
           U == Transactions(q) \ T
           f == [p \in rest |-> <<p[1] - 1, p[2]>>]
           g == [k \in U |-> k - 1]
<1>1. /\ 1 \in DOMAIN q /\ Head(q) = q[1] /\ RemoveAt(q, 1) = r
      /\ r \in Seq(EntryType) /\ Len(r) = n /\ n \in Nat /\ DOMAIN q = 1 .. n + 1
      /\ DOMAIN r = 1 .. n
      /\ \A k \in 1 .. n : r[k] = q[k + 1]
  BY DEF RemoveAt
<1>2. /\ \A k \in 1 .. n : k + 1 \in 1 .. n + 1 /\ k + 1 # 1 /\ (k + 1) - 1 = k
      /\ \A k \in 1 .. n + 1 : k # 1 => k - 1 \in 1 .. n /\ (k - 1) + 1 = k
  BY <1>1
<1>3. IsFiniteSet(Places(r)) /\ Cardinality(Places(r)) = Cardinality(rest)
  <2>1. \A p \in rest : p = <<p[1], p[2]>> /\ p[1] \in 1 .. n + 1 /\ p[1] # 1
                        /\ p[2] \in Changes(q[p[1]].jobs)
    BY <1>1, InPlaces DEF Places
  <2>2. f \in [rest -> Places(r)]
    BY <1>1, <1>2, <2>1 DEF Places
  <2>3. \A x \in rest, y \in rest : f[x] = f[y] => x = y
    BY <1>1, <2>1
  <2>4. \A y \in Places(r) : \E x \in rest : f[x] = y
    <3> SUFFICES ASSUME NEW y \in Places(r) PROVE \E x \in rest : f[x] = y
      OBVIOUS
    <3>1. PICK k \in 1 .. n : \E j \in Changes(q[k + 1].jobs) : y = <<k, j>>
      BY <1>1 DEF Places
    <3>4. PICK j \in Changes(q[k + 1].jobs) : y = <<k, j>>
      BY <3>1
    <3>2. <<k + 1, j>> \in rest
      BY <1>1, <1>2 DEF Places
    <3>3. f[<<k + 1, j>>] = y
      BY <3>4, <3>2, <1>2
    <3> QED BY <3>2, <3>3
  <2>5. IsFiniteSet(rest)
    BY PlacesFinite, FS_Difference
  <2> HIDE DEF f, rest, r
  <2> QED BY <2>2, <2>3, <2>4, <2>5, Count
<1>4. IsFiniteSet(Transactions(r)) /\ Cardinality(Transactions(r)) = Cardinality(U)
  <2>1. \A k \in U : k \in 1 .. n + 1 /\ k # 1 /\ q[k].tx
    BY <1>1 DEF Transactions
  <2>2. g \in [U -> Transactions(r)]
    BY <1>1, <1>2, <2>1 DEF Transactions
  <2>3. \A x \in U, y \in U : g[x] = g[y] => x = y
    BY <1>1, <2>1
  <2>4. \A y \in Transactions(r) : \E x \in U : g[x] = y
    <3> SUFFICES ASSUME NEW y \in Transactions(r) PROVE \E x \in U : g[x] = y
      OBVIOUS
    <3>1. y \in 1 .. n /\ q[y + 1].tx
      BY <1>1 DEF Transactions
    <3>2. y + 1 \in U /\ g[y + 1] = y
      BY <1>1, <1>2, <3>1 DEF Transactions
    <3> QED BY <3>2
  <2>5. IsFiniteSet(U)
    BY PlacesFinite, FS_Difference
  <2> HIDE DEF g, U, r
  <2> QED BY <2>2, <2>3, <2>4, <2>5, Count
<1>5. first \subseteq Places(q) /\ T \subseteq Transactions(q)
  BY <1>1 DEF Places, Transactions
<1>6. /\ Cardinality(rest) = Cardinality(Places(q)) - Cardinality(first)
      /\ Cardinality(U) = Cardinality(Transactions(q)) - Cardinality(T)
  <2>2. IsFiniteSet(Places(q)) /\ IsFiniteSet(Transactions(q))
    BY PlacesFinite
  <2> HIDE DEF first, T
  <2>3. Cardinality(Places(q) \ first) = Cardinality(Places(q)) - Cardinality(first)
    BY <1>5, <2>2, CountLess
  <2>4. Cardinality(Transactions(q) \ T) = Cardinality(Transactions(q)) - Cardinality(T)
    BY <1>5, <2>2, CountLess
  <2> QED BY <2>3, <2>4
<1>7. /\ Cardinality(first) = Cardinality(Changes(q[1].jobs))
      /\ Cardinality(T) = IF q[1].tx THEN 1 ELSE 0
  <2>1. q[1].jobs \in Seq(JobType)
    BY <1>1, EntryTyped
  <2>2. Cardinality(first) = Cardinality(Changes(q[1].jobs))
    BY <2>1, PlacesOfEntry
  <2>3. Cardinality(T) = IF q[1].tx THEN 1 ELSE 0
    BY FS_Singleton, FS_EmptySet
  <2> QED BY <2>2, <2>3
<1> QED BY <1>1, <1>3, <1>4, <1>6, <1>7

----------------------------------------------------------------------------
(* What becomes of the jobs                                                *)

JobAt(q, p) == q[p[1]].jobs[p[2]]

\* The changes of a queue that are at the places S are the changes of another.
Moved(q, r, S) ==
    \E f \in [S -> Places(r)] :
        /\ \A x \in S, y \in S : f[x] = f[y] => x = y
        /\ \A y \in Places(r) : \E x \in S : f[x] = y
        /\ \A x \in S : JobAt(r, f[x]) = JobAt(q, x)

\* Some changes are added to those of a queue, which stay where they are.
Adds(q, r, jobs) ==
    /\ \A p \in Places(q) : p \in Places(r) /\ JobAt(r, p) = JobAt(q, p)
    /\ \E g \in [DOMAIN jobs -> Places(r) \ Places(q)] :
           /\ \A x \in DOMAIN jobs, y \in DOMAIN jobs : g[x] = g[y] => x = y
           /\ \A y \in Places(r) \ Places(q) : \E x \in DOMAIN jobs : g[x] = y
           /\ \A x \in DOMAIN jobs : JobAt(r, g[x]) = jobs[x]

\* Jobs that were added count in addition.
LEMMA AddsCount ==
    ASSUME NEW q \in Seq(EntryType), NEW r, NEW jobs \in Seq(JobType), Adds(q, r, jobs)
    PROVE  Cardinality(Places(r)) = Cardinality(Places(q)) + Len(jobs)
<1> DEFINE new == Places(r) \ Places(q)
           D == DOMAIN jobs
<1>1. PICK g \in [D -> new] :
           /\ \A x \in D, y \in D : g[x] = g[y] => x = y
           /\ \A y \in new : \E x \in D : g[x] = y
  BY DEF Adds
<1>2. IsFiniteSet(D) /\ Cardinality(D) = Len(jobs)
  <2>1. D = 1 .. Len(jobs) /\ Len(jobs) \in Nat
    OBVIOUS
  <2> HIDE DEF D
  <2>3. 1 \in Int /\ Len(jobs) \in Int
    BY <2>1
  <2>2. /\ IsFiniteSet(1 .. Len(jobs))
        /\ Cardinality(1 .. Len(jobs)) = IF 1 > Len(jobs) THEN 0 ELSE Len(jobs) - 1 + 1
    BY ONLY <2>3, FS_Interval
  <2> QED BY <2>1, <2>2
<1>3. Places(r) = Places(q) \cup new /\ Places(q) \cap new = {}
  BY DEF Adds
<1> HIDE DEF new, D
<1>4. IsFiniteSet(new) /\ Cardinality(new) = Len(jobs)
  BY <1>1, <1>2, Count
<1> QED BY <1>3, <1>4, CountApart, PlacesFinite

\* Nothing is added.
LEMMA Stays ==
    ASSUME NEW q, NEW r, Places(r) = Places(q), \A p \in Places(q) : JobAt(r, p) = JobAt(q, p)
    PROVE  Moved(q, r, Places(q)) /\ Adds(q, r, <<>>)
<1> DEFINE S == Places(q)
           f == [p \in S |-> p]
           g == [x \in {} |-> x]
<1>1. /\ f \in [S -> Places(r)]
      /\ \A x \in S, y \in S : f[x] = f[y] => x = y
      /\ \A y \in Places(r) : \E x \in S : f[x] = y
      /\ \A x \in S : JobAt(r, f[x]) = JobAt(q, x)
  OBVIOUS
<1> HIDE DEF f
<1>2. Moved(q, r, S)
  BY <1>1 DEF Moved
<1>3. g \in [DOMAIN <<>> -> Places(r) \ Places(q)]
  OBVIOUS
<1>4. Adds(q, r, <<>>)
  BY <1>3 DEF Adds
<1> QED BY <1>2, <1>4

\* The last entry gets more jobs, all of them changes; or one that is none.
LEMMA LastAdds ==
    ASSUME NEW q \in Seq(EntryType), NEW n \in DOMAIN q, NEW e \in EntryType,
           NEW j0 \in Seq(JobType), NEW jobs \in Seq(JobType),
           e.jobs = j0 \o jobs, Changes(j0) = Changes(q[n].jobs),
           \A j \in Changes(j0) : j0[j] = q[n].jobs[j],
           \A j \in DOMAIN jobs : IsChange(jobs[j])
    PROVE  Adds(q, [q EXCEPT ![n] = e], jobs)
<1> DEFINE r == [q EXCEPT ![n] = e]
           m == Len(j0)
           D == DOMAIN jobs
           g == [j \in D |-> <<n, m + j>>]
<1>1. /\ DOMAIN r = DOMAIN q
      /\ \A k \in DOMAIN q : r[k] = IF k = n THEN e ELSE q[k]
  OBVIOUS
<1>2. /\ m \in Nat /\ D = 1 .. Len(jobs) /\ Len(jobs) \in Nat
      /\ DOMAIN e.jobs = 1 .. m + Len(jobs) /\ DOMAIN j0 = 1 .. m
      /\ \A j \in 1 .. m : e.jobs[j] = j0[j]
      /\ \A j \in D : m + j \in 1 .. m + Len(jobs) /\ m + j \notin 1 .. m /\ e.jobs[m + j] = jobs[j]
      /\ \A j \in 1 .. m + Len(jobs) : j \notin 1 .. m => j - m \in D /\ m + (j - m) = j
  OBVIOUS
<1>3. Changes(e.jobs) = Changes(j0) \cup {m + j : j \in D}
  BY <1>2 DEF Changes
<1>4. Changes(j0) \subseteq 1 .. m
  BY <1>2 DEF Changes
<1> HIDE DEF r, m
<1>5. \A p \in Places(q) : p \in Places(r) /\ JobAt(r, p) = JobAt(q, p)
  <2> SUFFICES ASSUME NEW p \in Places(q) PROVE p \in Places(r) /\ JobAt(r, p) = JobAt(q, p)
    OBVIOUS
  <2>1. p = <<p[1], p[2]>> /\ p[1] \in DOMAIN q /\ p[2] \in Changes(q[p[1]].jobs)
    BY InPlaces
  <2>2. CASE p[1] # n
    BY <1>1, <2>1, <2>2, InPlaces DEF JobAt
  <2>3. CASE p[1] = n
    <3>1. p[2] \in Changes(j0) /\ p[2] \in 1 .. m
      BY <2>1, <2>3, <1>4
    <3>2. r[p[1]] = e
      BY <1>1, <2>3
    <3>3. p[2] \in Changes(e.jobs) /\ e.jobs[p[2]] = q[n].jobs[p[2]]
      BY <3>1, <1>2, <1>3
    <3>4. <<p[1], p[2]>> \in Places(r)
      BY <3>2, <3>3, <1>1, <2>3, InPlaces
    <3> QED BY <2>1, <2>3, <3>2, <3>3, <3>4 DEF JobAt
  <2> QED BY <2>2, <2>3
<1>6. \A j \in D : g[j] \in Places(r) \ Places(q) /\ JobAt(r, g[j]) = jobs[j]
  <2> SUFFICES ASSUME NEW j \in D PROVE g[j] \in Places(r) \ Places(q) /\ JobAt(r, g[j]) = jobs[j]
    OBVIOUS
  <2>1. m + j \in Changes(e.jobs) /\ m + j \notin Changes(q[n].jobs) /\ e.jobs[m + j] = jobs[j]
    BY <1>2, <1>3, <1>4
  <2>2. r[n] = e /\ n \in DOMAIN r
    BY <1>1
  <2> QED BY <2>1, <2>2, InPlaces DEF JobAt
<1>7. \A x \in D, y \in D : g[x] = g[y] => x = y
  BY <1>2
<1>8. \A y \in Places(r) \ Places(q) : \E x \in D : g[x] = y
  <2> SUFFICES ASSUME NEW y \in Places(r) \ Places(q) PROVE \E x \in D : g[x] = y
    OBVIOUS
  <2>1. y = <<y[1], y[2]>> /\ y[1] \in DOMAIN r /\ y[2] \in Changes(r[y[1]].jobs)
    BY InPlaces
  <2>2. y[1] = n
    BY <1>1, <2>1, InPlaces
  <2>3. y[2] \in Changes(e.jobs) /\ y[2] \notin Changes(j0)
    <3>1. y = <<n, y[2]>> /\ r[n] = e
      BY <1>1, <2>1, <2>2
    <3>2. y[2] \in Changes(e.jobs) /\ <<n, y[2]>> \notin Places(q)
      BY <3>1, <2>1, <2>2
    <3> QED BY <3>2, InPlaces
  <2>4. PICK j \in D : y[2] = m + j
    BY <2>3, <1>3
  <2>5. g[j] = y
    BY <2>1, <2>2, <2>4
  <2> QED BY <2>5
<1>9. g \in [D -> Places(r) \ Places(q)]
  BY <1>6
<1> HIDE DEF g
<1>10. Adds(q, r, jobs)
  BY <1>5, <1>6, <1>7, <1>8, <1>9 DEF Adds
<1> QED BY <1>10 DEF r

\* Jobs are appended each as an entry of its own.
LEMMA PlainAdds ==
    ASSUME NEW q \in Seq(EntryType), NEW jobs \in Seq(JobType),
           \A j \in DOMAIN jobs : IsChange(jobs[j])
    PROVE  LET new == [k \in DOMAIN jobs |-> Plain(jobs[k])]
               r == q \o new IN
           /\ r \in Seq(EntryType) /\ Len(r) = Len(q) + Len(jobs)
           /\ \A k \in 1 .. Len(q) : r[k] = q[k]
           /\ \A k \in 1 .. Len(r) : k \in 1 .. Len(q)
                                     \/ \E j \in DOMAIN jobs : r[k] = Plain(jobs[j])
           /\ Adds(q, r, jobs)
           /\ Transactions(r) = Transactions(q)
<1> DEFINE D == DOMAIN jobs
           new == [k \in D |-> Plain(jobs[k])]
           r == q \o new
           m == Len(q)
           g == [j \in D |-> <<m + j, 1>>]
<1>1. \A job \in JobType : Plain(job) \in EntryType
  BY DEF Plain, EntryType
<1>2. new \in Seq(EntryType) /\ Len(new) = Len(jobs)
  <2>1. new \in [1 .. Len(jobs) -> EntryType] /\ Len(jobs) \in Nat
    BY <1>1
  <2> QED BY <2>1
<1>3. /\ r \in Seq(EntryType) /\ Len(r) = m + Len(jobs) /\ m \in Nat /\ Len(jobs) \in Nat
      /\ D = 1 .. Len(jobs) /\ DOMAIN q = 1 .. m /\ DOMAIN r = 1 .. m + Len(jobs)
      /\ \A k \in 1 .. m : r[k] = q[k]
      /\ \A k \in D : r[m + k] = new[k]
  <2> HIDE DEF new
  <2>1. r \in Seq(EntryType) /\ DOMAIN q = 1 .. m /\ m \in Nat
    BY <1>2
  <2>2. Len(r) = m + Len(jobs) /\ Len(jobs) \in Nat /\ D = 1 .. Len(jobs)
    BY <1>2
  <2>3. DOMAIN r = 1 .. m + Len(jobs)
    BY <2>1, <2>2
  <2>4. \A k \in 1 .. m : r[k] = q[k]
    BY <1>2
  <2>5. \A k \in D : r[m + k] = new[k]
    BY <1>2
  <2> QED BY <2>1, <2>2, <2>3, <2>4, <2>5
<1>4. /\ \A k \in D : m + k \in 1 .. m + Len(jobs) /\ m + k \notin 1 .. m
      /\ \A k \in 1 .. m + Len(jobs) : k \notin 1 .. m => k - m \in D /\ m + (k - m) = k
      /\ \A k \in 1 .. m : k \in 1 .. m + Len(jobs)
  BY <1>3
<1>5. \A k \in D : r[m + k] = Plain(jobs[k])
  BY <1>3
<1> HIDE DEF r, m, new
<1>6. \A k \in D : Changes(Plain(jobs[k]).jobs) = {1} /\ Plain(jobs[k]).jobs[1] = jobs[k]
                   /\ ~Plain(jobs[k]).tx
  BY ChangesOfNone DEF Plain
<1>7. \A p \in Places(q) : p \in Places(r) /\ JobAt(r, p) = JobAt(q, p)
  <2> SUFFICES ASSUME NEW p \in Places(q) PROVE p \in Places(r) /\ JobAt(r, p) = JobAt(q, p)
    OBVIOUS
  <2>1. p = <<p[1], p[2]>> /\ p[1] \in 1 .. m /\ p[2] \in Changes(q[p[1]].jobs)
    BY <1>3, InPlaces
  <2>2. r[p[1]] = q[p[1]] /\ p[1] \in DOMAIN r
    BY <1>3, <1>4, <2>1
  <2>3. <<p[1], p[2]>> \in Places(r)
    BY <2>1, <2>2, InPlaces
  <2> QED BY <2>1, <2>2, <2>3 DEF JobAt
<1>8. \A j \in D : g[j] \in Places(r) \ Places(q) /\ JobAt(r, g[j]) = jobs[j]
  <2> SUFFICES ASSUME NEW j \in D PROVE g[j] \in Places(r) \ Places(q) /\ JobAt(r, g[j]) = jobs[j]
    OBVIOUS
  <2>1. m + j \in DOMAIN r /\ m + j \notin DOMAIN q
    BY <1>3, <1>4
  <2>2. 1 \in Changes(r[m + j].jobs) /\ r[m + j].jobs[1] = jobs[j]
    BY <1>5, <1>6
  <2>3. <<m + j, 1>> \in Places(r) \ Places(q)
    BY <2>1, <2>2, InPlaces
  <2> QED BY <2>2, <2>3 DEF JobAt
<1>9. \A x \in D, y \in D : g[x] = g[y] => x = y
  BY <1>3
<1>10. \A y \in Places(r) \ Places(q) : \E x \in D : g[x] = y
  <2> SUFFICES ASSUME NEW y \in Places(r) \ Places(q) PROVE \E x \in D : g[x] = y
    OBVIOUS
  <2>1. y = <<y[1], y[2]>> /\ y[1] \in DOMAIN r /\ y[2] \in Changes(r[y[1]].jobs)
    BY InPlaces
  <2>2. y[1] \notin 1 .. m
    BY <1>3, <2>1, InPlaces
  <2>3. y[1] - m \in D /\ y[1] = m + (y[1] - m)
    BY <1>3, <1>4, <2>1, <2>2
  <2>4. y[2] = 1
    <3>1. r[y[1]] = Plain(jobs[y[1] - m])
      BY <2>3, <1>5
    <3> QED BY <2>1, <2>3, <3>1, <1>6
  <2>5. g[y[1] - m] = y
    BY <2>1, <2>3, <2>4
  <2> QED BY <2>3, <2>5
<1>11. g \in [D -> Places(r) \ Places(q)]
  BY <1>8
<1> HIDE DEF g
<1>12. Adds(q, r, jobs)
  BY <1>7, <1>8, <1>9, <1>10, <1>11 DEF Adds
<1>13. Transactions(r) = Transactions(q)
  <2>1. \A k \in DOMAIN r : k \notin DOMAIN q => ~r[k].tx
    <3> SUFFICES ASSUME NEW k \in DOMAIN r, k \notin DOMAIN q PROVE ~r[k].tx
      OBVIOUS
    <3>1. k - m \in D /\ r[k] = Plain(jobs[k - m])
      BY <1>3, <1>4, <1>5
    <3> QED BY <3>1, <1>6
  <2>2. \A k \in DOMAIN q : k \in DOMAIN r /\ r[k] = q[k]
    BY <1>3, <1>4
  <2> QED BY <2>1, <2>2 DEF Transactions
<1>14. \A k \in 1 .. Len(r) : k \in 1 .. m \/ \E j \in D : r[k] = Plain(jobs[j])
  BY <1>3, <1>4, <1>5
<1> QED BY <1>3, <1>12, <1>13, <1>14 DEF r, m, new

\* The first entry is removed: the changes in the others move up.
LEMMA RestMoves ==
    ASSUME NEW q \in Seq(EntryType), q # <<>>
    PROVE  Moved(q, Tail(q), Places(q) \ ({1} \X Changes(q[1].jobs)))
<1> DEFINE r == Tail(q)
           n == Len(q) - 1
           rest == Places(q) \ ({1} \X Changes(q[1].jobs))
           f == [p \in rest |-> <<p[1] - 1, p[2]>>]
<1>1. /\ r \in Seq(EntryType) /\ Len(r) = n /\ n \in Nat /\ DOMAIN q = 1 .. n + 1
      /\ DOMAIN r = 1 .. n
      /\ \A k \in 1 .. n : r[k] = q[k + 1]
  OBVIOUS
<1>2. /\ \A k \in 1 .. n : k + 1 \in 1 .. n + 1 /\ k + 1 # 1 /\ (k + 1) - 1 = k
      /\ \A k \in 1 .. n + 1 : k # 1 => k - 1 \in 1 .. n /\ (k - 1) + 1 = k
  BY <1>1
<1>3. \A p \in rest : p = <<p[1], p[2]>> /\ p[1] \in 1 .. n + 1 /\ p[1] # 1
                      /\ p[2] \in Changes(q[p[1]].jobs)
  BY <1>1, InPlaces DEF Places
<1>4. f \in [rest -> Places(r)]
  BY <1>1, <1>2, <1>3 DEF Places
<1>5. \A x \in rest, y \in rest : f[x] = f[y] => x = y
  BY <1>1, <1>3
<1>6. \A y \in Places(r) : \E x \in rest : f[x] = y
  <2> SUFFICES ASSUME NEW y \in Places(r) PROVE \E x \in rest : f[x] = y
    OBVIOUS
  <2>1. PICK k \in 1 .. n : \E j \in Changes(q[k + 1].jobs) : y = <<k, j>>
    BY <1>1 DEF Places
  <2>2. PICK j \in Changes(q[k + 1].jobs) : y = <<k, j>>
    BY <2>1
  <2>3. <<k + 1, j>> \in rest
    BY <1>1, <1>2 DEF Places
  <2>4. f[<<k + 1, j>>] = y
    BY <2>2, <2>3, <1>2
  <2> QED BY <2>3, <2>4
<1>7. \A x \in rest : JobAt(r, f[x]) = JobAt(q, x)
  BY <1>1, <1>2, <1>3 DEF JobAt
<1> HIDE DEF f, rest, r
<1>8. Moved(q, r, rest)
  BY <1>4, <1>5, <1>6, <1>7 DEF Moved
<1> QED BY <1>8 DEF rest, r

\* The first job is removed from the first entry.
LEMMA FirstMoves ==
    ASSUME NEW q \in Seq(EntryType), q # <<>>, q[1].jobs # <<>>, NEW e \in EntryType,
           Changes(e.jobs) = Changes(Tail(q[1].jobs)),
           \A j \in Changes(e.jobs) : e.jobs[j] = Tail(q[1].jobs)[j]
    PROVE  Moved(q, [q EXCEPT ![1] = e], Places(q) \ {<<1, 1>>})
<1> DEFINE r == [q EXCEPT ![1] = e]
           old == q[1].jobs
           m == Len(old) - 1
           rest == Places(q) \ {<<1, 1>>}
           f == [p \in rest |-> IF p[1] = 1 THEN <<1, p[2] - 1>> ELSE p]
<1>1. /\ 1 \in DOMAIN q /\ DOMAIN r = DOMAIN q
      /\ \A k \in DOMAIN q : r[k] = IF k = 1 THEN e ELSE q[k]
  OBVIOUS
<1>2. old \in Seq(JobType)
  BY <1>1, EntryTyped
<1>3. /\ m \in Nat /\ DOMAIN old = 1 .. m + 1 /\ DOMAIN Tail(old) = 1 .. m
      /\ \A j \in 1 .. m : Tail(old)[j] = old[j + 1]
  BY <1>2
<1>4. /\ \A j : j \in Changes(e.jobs) => j \in 1 .. m /\ j + 1 \in Changes(old) /\ j + 1 # 1
                                         /\ (j + 1) - 1 = j /\ e.jobs[j] = old[j + 1]
      /\ \A j : j \in Changes(old) /\ j # 1 => j \in 1 .. m + 1 /\ j - 1 \in Changes(e.jobs)
                                               /\ (j - 1) + 1 = j /\ e.jobs[j - 1] = old[j]
  <2>1. \A j : j \in Changes(e.jobs) <=> j \in 1 .. m /\ IsChange(old[j + 1])
    BY <1>3 DEF Changes
  <2>2. \A j : j \in Changes(old) <=> j \in 1 .. m + 1 /\ IsChange(old[j])
    BY <1>3 DEF Changes
  <2>3. /\ \A j \in 1 .. m : j + 1 \in 1 .. m + 1 /\ j + 1 # 1 /\ (j + 1) - 1 = j
        /\ \A j \in 1 .. m + 1 : j # 1 => j - 1 \in 1 .. m /\ (j - 1) + 1 = j
    BY <1>3
  <2>4. \A j \in Changes(e.jobs) : e.jobs[j] = old[j + 1]
    BY <1>3, <2>1
  <2> QED BY <2>1, <2>2, <2>3, <2>4
<1> HIDE DEF r, m
<1>5. /\ \A p \in rest : p = <<p[1], p[2]>> /\ p[1] \in DOMAIN q /\ p[2] \in Changes(q[p[1]].jobs)
      /\ \A p \in rest : p[1] = 1 => p[2] # 1
  BY InPlaces
<1>6. \A p \in rest : f[p] \in Places(r) /\ JobAt(r, f[p]) = JobAt(q, p)
  <2> SUFFICES ASSUME NEW p \in rest PROVE f[p] \in Places(r) /\ JobAt(r, f[p]) = JobAt(q, p)
    OBVIOUS
  <2>1. CASE p[1] # 1
    BY <1>1, <1>5, <2>1, InPlaces DEF JobAt
  <2>2. CASE p[1] = 1
    <3>1. p[2] \in Changes(old) /\ p[2] # 1
      BY <1>5, <2>2
    <3>2. p[2] - 1 \in Changes(e.jobs) /\ e.jobs[p[2] - 1] = old[p[2]]
      BY <1>4, <3>1
    <3>3. f[p] = <<1, p[2] - 1>>
      BY <2>2
    <3>4. r[1] = e /\ 1 \in DOMAIN r
      BY <1>1
    <3> QED BY <3>2, <3>3, <3>4, <2>2, InPlaces DEF JobAt
  <2> QED BY <2>1, <2>2
<1>7. \A x \in rest, y \in rest : f[x] = f[y] => x = y
  <2> SUFFICES ASSUME NEW x \in rest, NEW y \in rest, f[x] = f[y] PROVE x = y
    OBVIOUS
  <2>1. f[x] = (IF x[1] = 1 THEN <<1, x[2] - 1>> ELSE x) /\ f[y] = (IF y[1] = 1 THEN <<1, y[2] - 1>> ELSE y)
    OBVIOUS
  <2>2. x = <<x[1], x[2]>> /\ y = <<y[1], y[2]>>
    BY <1>5
  <2>3. CASE x[1] = 1 /\ y[1] = 1
    <3>1. x[2] \in 1 .. m + 1 /\ y[2] \in 1 .. m + 1 /\ m \in Nat
      BY <1>3, <1>4, <1>5, <2>3
    <3>2. x[2] - 1 = y[2] - 1
      BY <2>1, <2>3
    <3> QED BY <2>2, <2>3, <3>1, <3>2
  <2>4. CASE x[1] # 1 /\ y[1] # 1
    BY <2>1, <2>4
  <2>5. CASE (x[1] = 1) # (y[1] = 1)
    BY <2>1, <2>2, <2>5
  <2> QED BY <2>3, <2>4, <2>5
<1>8. \A y \in Places(r) : \E x \in rest : f[x] = y
  <2> SUFFICES ASSUME NEW y \in Places(r) PROVE \E x \in rest : f[x] = y
    OBVIOUS
  <2>1. y = <<y[1], y[2]>> /\ y[1] \in DOMAIN r /\ y[2] \in Changes(r[y[1]].jobs)
    BY InPlaces
  <2>2. CASE y[1] # 1
    <3>1. y \in rest
      BY <1>1, <2>1, <2>2, InPlaces
    <3> QED BY <3>1, <2>2
  <2>3. CASE y[1] = 1
    <3>1. y[2] \in Changes(e.jobs)
      BY <1>1, <2>1, <2>3
    <3>2. y[2] + 1 \in Changes(old) /\ y[2] + 1 # 1 /\ (y[2] + 1) - 1 = y[2]
      BY <1>4, <3>1
    <3>3. <<1, y[2] + 1>> \in rest
      BY <1>1, <3>2, InPlaces
    <3>4. f[<<1, y[2] + 1>>] = y
      BY <2>1, <2>3, <3>2, <3>3
    <3> QED BY <3>3, <3>4
  <2> QED BY <2>2, <2>3
<1>9. f \in [rest -> Places(r)]
  BY <1>6
<1> HIDE DEF f, rest
<1>10. Moved(q, r, rest)
  BY <1>6, <1>7, <1>8, <1>9 DEF Moved
<1> QED BY <1>10 DEF r, rest

----------------------------------------------------------------------------
(* What ItemSync counts                                                    *)

HasKind(jobs, kind) == \E k \in DOMAIN jobs : jobs[k].kind = kind

\* A transaction has no job before it is used.  It has failed when it is to be
\* rolled back; if not, nothing precedes or follows a commit.  A job of ItemSync
\* is one change.
EntryOK(e) ==
    /\ e.tx => /\ e.state # "none" /\ (e.state = "Idle" => e.jobs = <<>>)
               /\ ~HasKind(e.jobs, "list")
               /\ e.failed <=> HasKind(e.jobs, "rollback")
               /\ HasKind(e.jobs, "commit") =>
                      ~e.failed /\ e.jobs = <<Commit>> /\ e.state = "Running"
    /\ ~e.tx => ~e.failed /\ Len(e.jobs) = 1 /\ IsChange(e.jobs[1])

\* Jobs can be added to the last transaction.
Usable(e) == e.tx /\ e.state # "Waiting" /\ ~HasKind(e.jobs, "commit")

LastUsable(q) == q # <<>> /\ Usable(q[Len(q)])

\* ItemSync once the local items are listed.
Sound(s) ==
    /\ s \in SyncType /\ s.listed
    /\ \A k \in DOMAIN s.queue : EntryOK(s.queue[k])
    /\ Cardinality(Places(s.queue)) <= s.pending
    /\ s.transactions = Cardinality(Transactions(s.queue))
    /\ s.current => LastUsable(s.queue)
    /\ s.results > 0 => s.queue = <<>> /\ s.delivered

\* Two queues have the same changes.
Same(q, r) == Places(r) = Places(q) /\ \A p \in Places(q) : JobAt(r, p) = JobAt(q, p)

\* The fields of ItemSync have their types.
LEMMA SyncFields ==
    ASSUME NEW s \in SyncType
    PROVE  /\ s.listed \in BOOLEAN /\ s.current \in BOOLEAN /\ s.delivered \in BOOLEAN
           /\ s.error \in BOOLEAN /\ s.pending \in Nat /\ s.transactions \in Nat
           /\ s.results \in {0, 1} /\ s.queue \in Seq(EntryType)
           /\ s.local \subseteq Item /\ s.unprocessed \subseteq Item
           /\ s.arrived \subseteq Item /\ s.removed \subseteq Item
  BY DEF SyncType

\* checkDone() emits the result, or does nothing.
LEMMA CheckDoneSound ==
    ASSUME NEW s, Sound(s)
    PROVE  /\ Sound(CheckDone(s))
           /\ \/ CheckDone(s) = s
              \/ /\ CheckDone(s) = [s EXCEPT !.results = 1]
                 /\ s.results = 0 /\ s.delivered /\ s.queue = <<>> /\ ~s.current
<1>1. s \in SyncType /\ s.queue \in Seq(EntryType)
  BY SyncFields DEF Sound
<1>2. CASE CheckDone(s) = s
  BY <1>2
<1>3. CASE CheckDone(s) # s
  <2>1. /\ s.pending = 0 /\ s.delivered /\ s.transactions = 0 /\ s.results = 0
        /\ CheckDone(s) = [s EXCEPT !.results = 1]
    BY <1>1, <1>3, SyncFields DEF CheckDone
  <2>2. Cardinality(Places(s.queue)) = 0 /\ Cardinality(Transactions(s.queue)) = 0
    BY <1>1, <2>1, PlacesFinite DEF Sound
  <2>3. Places(s.queue) = {} /\ Transactions(s.queue) = {}
    BY <1>1, <2>2, PlacesFinite, FS_EmptySet
  <2>4. s.queue = <<>>
    <3> SUFFICES ASSUME s.queue # <<>> PROVE FALSE
      OBVIOUS
    <3>1. 1 \in DOMAIN s.queue
      BY <1>1
    <3>2. EntryOK(s.queue[1]) /\ s.queue[1].jobs \in Seq(JobType) /\ s.queue[1].tx \in BOOLEAN
      BY <1>1, <3>1, EntryTyped DEF Sound
    <3>3. ~s.queue[1].tx
      BY <2>3, <3>1 DEF Transactions
    <3>4. 1 \in Changes(s.queue[1].jobs)
      BY <3>2, <3>3 DEF EntryOK, Changes
    <3>5. <<1, 1>> \in Places(s.queue)
      BY <3>1, <3>4, InPlaces
    <3> QED BY <2>3, <3>5
  <2>5. ~s.current
    BY <1>1, <2>4, SyncFields DEF Sound, LastUsable
  <2>6. Sound([s EXCEPT !.results = 1])
    BY <2>1, <2>4, <1>1 DEF Sound, SyncType
  <2> QED BY <2>1, <2>4, <2>5, <2>6
<1> QED BY <1>2, <1>3

\* What slotTransactionResult() counts, before it asks whether all is done.
Settled(s, k) ==
    [s EXCEPT !.queue = RemoveAt(@, k), !.error = @ \/ s.queue[k].failed,
              !.transactions = @ - 1, !.current = @ /\ k # Len(s.queue)]

\* The result of a transaction: it is taken out, and checkDone() is called.
LEMMA ResultSettles ==
    ASSUME NEW s, NEW k
    PROVE  TransactionResult(s, k) = CheckDone(Settled(s, k))
  BY DEF TransactionResult, Settled

\* The last transaction has its result.
LEMMA LastSettled ==
    ASSUME NEW s, Sound(s), s.queue # <<>>, s.queue[Len(s.queue)].tx
    PROVE  LET n == Len(s.queue)
               r == Settled(s, n) IN
           /\ Sound(r) /\ ~r.current /\ r.queue = RemoveAt(s.queue, n)
           /\ r.error = (s.error \/ s.queue[n].failed)
           /\ \A f \in DOMAIN s \ {"queue", "error", "transactions", "current"} : r[f] = s[f]
<1> DEFINE n == Len(s.queue)
           r == Settled(s, n)
           q == RemoveAt(s.queue, n)
<1>1. s \in SyncType /\ s.queue \in Seq(EntryType) /\ n \in DOMAIN s.queue
  BY SyncFields DEF Sound
<1>2. /\ q \in Seq(EntryType) /\ Len(q) = n - 1
      /\ \A k \in 1 .. n - 1 : q[k] = s.queue[k]
      /\ Cardinality(Places(q)) <= s.pending
      /\ Cardinality(Transactions(q)) = s.transactions - 1 /\ s.transactions - 1 \in Nat
  <2>1. /\ q \in Seq(EntryType) /\ Len(q) = n - 1
        /\ \A k \in 1 .. n - 1 : q[k] = s.queue[k]
        /\ Cardinality(Places(q)) =
               Cardinality(Places(s.queue)) - Cardinality(Changes(s.queue[n].jobs))
        /\ Cardinality(Transactions(q)) = Cardinality(Transactions(s.queue)) - 1
    BY <1>1, LastRemoved
  <2>2. /\ Cardinality(Changes(s.queue[n].jobs)) \in Nat
        /\ Cardinality(Places(s.queue)) \in Nat /\ Cardinality(Transactions(s.queue)) \in Nat
    BY <1>1, EntryTyped, ChangesFinite, PlacesFinite
  <2>3. Cardinality(Transactions(q)) \in Nat /\ Cardinality(Places(q)) \in Nat
    BY <2>1, PlacesFinite
  <2>4. s.pending \in Nat /\ Cardinality(Places(s.queue)) <= s.pending
        /\ s.transactions = Cardinality(Transactions(s.queue))
    BY <1>1, SyncFields DEF Sound
  <2> QED BY <2>1, <2>2, <2>3, <2>4
<1> DEFINE err == s.error \/ s.queue[n].failed
<1>3. err \in BOOLEAN
  OBVIOUS
<1> HIDE DEF q, err
<1>4. r = [s EXCEPT !.queue = q, !.error = err,
                    !.transactions = s.transactions - 1, !.current = FALSE]
  BY <1>1 DEF Settled, q, SyncType, err
<1>5. r \in SyncType
  BY <1>1, <1>2, <1>3, <1>4 DEF SyncType
<1>6. /\ r.queue = q /\ r.error = err /\ ~r.current
      /\ r.transactions = s.transactions - 1
      /\ \A f \in DOMAIN s \ {"queue", "error", "transactions", "current"} : r[f] = s[f]
      /\ r.listed = s.listed /\ r.pending = s.pending /\ r.results = s.results
      /\ r.delivered = s.delivered
  BY <1>1, <1>4 DEF SyncType
<1>7. \A k \in DOMAIN q : EntryOK(q[k])
  BY <1>1, <1>2 DEF Sound
<1>8. s.results > 0 => FALSE
  BY DEF Sound
<1> HIDE DEF r
<1>9. Sound(r)
  BY <1>2, <1>5, <1>6, <1>7, <1>8 DEF Sound
<1> QED BY <1>6, <1>9 DEF r, q, err

\* The first transaction has its result.
LEMMA FirstSettled ==
    ASSUME NEW s, Sound(s), s.queue # <<>>, s.queue[1].tx
    PROVE  LET r == Settled(s, 1) IN
           /\ Sound(r) /\ r.queue = Tail(s.queue)
           /\ r.error = (s.error \/ s.queue[1].failed)
           /\ r.current = (s.current /\ Len(s.queue) # 1)
           /\ \A f \in DOMAIN s \ {"queue", "error", "transactions", "current"} : r[f] = s[f]
           /\ Cardinality(Places(r.queue)) =
                  Cardinality(Places(s.queue)) - Cardinality(Changes(s.queue[1].jobs))
<1> DEFINE r == Settled(s, 1)
           q == Tail(s.queue)
           n == Len(s.queue)
<1>1. s \in SyncType /\ s.queue \in Seq(EntryType) /\ 1 \in DOMAIN s.queue
  BY SyncFields DEF Sound
<1>2. /\ q \in Seq(EntryType) /\ Len(q) = n - 1 /\ n \in Nat \ {0}
      /\ RemoveAt(s.queue, 1) = q
      /\ \A k \in 1 .. n - 1 : q[k] = s.queue[k + 1]
      /\ Cardinality(Places(q)) =
             Cardinality(Places(s.queue)) - Cardinality(Changes(s.queue[1].jobs))
      /\ Cardinality(Transactions(q)) = s.transactions - 1 /\ s.transactions - 1 \in Nat
      /\ Cardinality(Places(q)) <= s.pending
  <2>1. /\ q \in Seq(EntryType) /\ Len(q) = n - 1
        /\ RemoveAt(s.queue, 1) = q
        /\ \A k \in 1 .. n - 1 : q[k] = s.queue[k + 1]
        /\ Cardinality(Places(q)) =
               Cardinality(Places(s.queue)) - Cardinality(Changes(s.queue[1].jobs))
        /\ Cardinality(Transactions(q)) = Cardinality(Transactions(s.queue)) - 1
    BY <1>1, FirstRemoved
  <2>2. /\ Cardinality(Changes(s.queue[1].jobs)) \in Nat
        /\ Cardinality(Places(s.queue)) \in Nat
    BY <1>1, EntryTyped, ChangesFinite, PlacesFinite
  <2>3. Cardinality(Transactions(q)) \in Nat /\ Cardinality(Places(q)) \in Nat
    BY <2>1, PlacesFinite
  <2>4. n \in Nat \ {0}
    BY <1>1
  <2>5. s.pending \in Nat /\ Cardinality(Places(s.queue)) <= s.pending
        /\ s.transactions = Cardinality(Transactions(s.queue))
    BY <1>1, SyncFields DEF Sound
  <2> QED BY <2>1, <2>2, <2>3, <2>4, <2>5
<1> DEFINE err == s.error \/ s.queue[1].failed
           cur == s.current /\ n # 1
<1>3. err \in BOOLEAN /\ cur \in BOOLEAN
  OBVIOUS
<1> HIDE DEF q, err, cur
<1>4. r = [s EXCEPT !.queue = q, !.error = err,
                    !.transactions = s.transactions - 1, !.current = cur]
  BY <1>1, <1>2 DEF Settled, SyncType, err, cur
<1> HIDE DEF r
<1>5. r \in SyncType
  BY <1>1, <1>2, <1>3, <1>4 DEF SyncType
<1>6. /\ r.queue = q /\ r.error = err
      /\ r.current = cur
      /\ r.transactions = s.transactions - 1
      /\ \A f \in DOMAIN s \ {"queue", "error", "transactions", "current"} : r[f] = s[f]
      /\ r.listed = s.listed /\ r.pending = s.pending /\ r.results = s.results
      /\ r.delivered = s.delivered
  BY <1>1, <1>4 DEF SyncType
<1>7. \A k \in DOMAIN q : EntryOK(q[k])
  BY <1>1, <1>2 DEF Sound
<1>8. s.results > 0 => FALSE
  BY DEF Sound
<1>9. s.current /\ n # 1 => LastUsable(q)
  <2> SUFFICES ASSUME s.current, n # 1 PROVE LastUsable(q)
    OBVIOUS
  <2>1. Len(q) = n - 1 /\ n - 1 \in 1 .. n - 1 /\ (n - 1) + 1 = n
    <3> HIDE DEF n
    <3> QED BY <1>2
  <2>2. q[Len(q)] = s.queue[n] /\ q # <<>>
    BY <1>2, <2>1
  <2> QED BY <2>2 DEF Sound, LastUsable
<1> HIDE DEF n
<1>10. Sound(r)
  BY <1>2, <1>5, <1>6, <1>7, <1>8, <1>9 DEF Sound, cur
<1> QED BY <1>2, <1>6, <1>10 DEF r, q, n, err, cur

\* Two sequences, one after the other.
LEMMA BothParts ==
    ASSUME NEW S, NEW a \in Seq(S), NEW b \in Seq(S)
    PROVE  LET both == a \o b IN
           /\ both \in Seq(S)
           /\ \A k \in DOMAIN both : \/ k \in DOMAIN a /\ both[k] = a[k]
                                   \/ \E j \in DOMAIN b : both[k] = b[j]
           /\ \A k \in DOMAIN a : k \in DOMAIN both /\ both[k] = a[k]
           /\ \A k \in DOMAIN b : Len(a) + k \in DOMAIN both /\ both[Len(a) + k] = b[k]
<1> DEFINE m == Len(a)
           n == Len(b)
           both == a \o b
<1>1. /\ m \in Nat /\ n \in Nat /\ DOMAIN a = 1 .. m /\ DOMAIN b = 1 .. n
      /\ both \in Seq(S) /\ DOMAIN both = 1 .. m + n
  OBVIOUS
<1>2. \A k \in 1 .. m : both[k] = a[k]
  OBVIOUS
<1>3. \A k \in 1 .. n : both[m + k] = b[k]
  OBVIOUS
<1> HIDE DEF m, n, both
<1>4. ASSUME NEW k \in 1 .. m + n, k \notin 1 .. m
      PROVE  \E j \in 1 .. n : both[k] = b[j]
  <2>1. PICK j \in 1 .. n : k = m + j
    BY <1>1, <1>4
  <2> QED BY <1>3, <2>1
<1>5. \A k \in 1 .. n : m + k \in 1 .. m + n
  BY <1>1
<1>6. \A k \in 1 .. m : k \in 1 .. m + n
  BY <1>1
<1> QED BY <1>1, <1>2, <1>3, <1>4, <1>5, <1>6 DEF m, both

\* What addSubjob() of some jobs makes of a transaction.
LEMMA AddedJobs ==
    ASSUME NEW t \in EntryType, t.tx, EntryOK(t), NEW jobs \in Seq(JobType), jobs # <<>>
    PROVE  LET e == Added(t, jobs)
               j0 == IF t.state = "Idle" THEN <<Begin>> ELSE t.jobs IN
           /\ e \in EntryType /\ e.tx /\ e.state = "Running" /\ e.failed = t.failed
           /\ j0 \in Seq(JobType) /\ e.jobs = j0 \o jobs /\ Changes(j0) = Changes(t.jobs)
           /\ \A j \in Changes(j0) : j0[j] = t.jobs[j]
           /\ \A kind \in {"list", "commit", "rollback"} :
                  HasKind(e.jobs, kind) <=> HasKind(t.jobs, kind) \/ HasKind(jobs, kind)
<1> DEFINE e == Added(t, jobs)
           j0 == IF t.state = "Idle" THEN <<Begin>> ELSE t.jobs
<1>1. Begin \in JobType /\ ~IsChange(Begin) /\ Begin.kind = "begin"
  BY DEF Begin, Job, JobType, IsChange
<1>2. t.jobs \in Seq(JobType) /\ (t.state = "Idle" => t.jobs = <<>>)
  BY DEF EntryType, EntryOK
<1>3. /\ j0 \in Seq(JobType)
      /\ \A kind \in {"list", "commit", "rollback"} : HasKind(j0, kind) <=> HasKind(t.jobs, kind)
  <2>1. CASE t.state = "Idle"
    BY <1>1, <1>2, <2>1 DEF HasKind
  <2>2. CASE t.state # "Idle"
    BY <1>2, <2>2
  <2> QED BY <2>1, <2>2
<1>4. Changes(j0) = Changes(t.jobs) /\ \A j \in Changes(j0) : j0[j] = t.jobs[j]
  BY <1>1, <1>2, ChangesOfNone
<1>5. (IF t.state = "Idle" THEN Append(t.jobs, Begin) ELSE t.jobs) = j0
  <2>1. Append(<<>>, Begin) = <<Begin>>
    OBVIOUS
  <2> QED BY <1>2, <2>1
<1> HIDE DEF j0
<1>6. e = [t EXCEPT !.state = "Running", !.jobs = j0 \o jobs]
  BY <1>5 DEF Added
<1>7. /\ j0 \o jobs \in Seq(JobType)
      /\ \A kind : HasKind(j0 \o jobs, kind) <=> HasKind(j0, kind) \/ HasKind(jobs, kind)
  <2> DEFINE both == j0 \o jobs
  <2>1. /\ both \in Seq(JobType)
        /\ \A k \in DOMAIN both : \/ k \in DOMAIN j0 /\ both[k] = j0[k]
                                \/ \E j \in DOMAIN jobs : both[k] = jobs[j]
        /\ \A k \in DOMAIN j0 : k \in DOMAIN both /\ both[k] = j0[k]
        /\ \A k \in DOMAIN jobs : Len(j0) + k \in DOMAIN both /\ both[Len(j0) + k] = jobs[k]
    <3>1. j0 \in Seq(JobType)
      BY <1>3
    <3> QED BY <3>1, BothParts
  <2> HIDE DEF HasKind, both
  <2> QED
    <3> SUFFICES ASSUME NEW kind
                 PROVE  HasKind(both, kind) <=> HasKind(j0, kind) \/ HasKind(jobs, kind)
      BY <2>1 DEF both
    <3>1. HasKind(both, kind) => HasKind(j0, kind) \/ HasKind(jobs, kind)
      BY <2>1 DEF HasKind
    <3>2. HasKind(j0, kind) => HasKind(both, kind)
      BY <2>1 DEF HasKind
    <3>3. HasKind(jobs, kind) => HasKind(both, kind)
      BY <2>1 DEF HasKind
    <3> QED BY <3>1, <3>2, <3>3
<1>8. e \in EntryType /\ e.tx /\ e.state = "Running" /\ e.failed = t.failed /\ e.jobs = j0 \o jobs
  BY <1>6, <1>7 DEF EntryType
<1>9. \A kind \in {"list", "commit", "rollback"} :
          HasKind(e.jobs, kind) <=> HasKind(t.jobs, kind) \/ HasKind(jobs, kind)
  BY <1>3, <1>7, <1>8
<1> QED BY <1>3, <1>4, <1>8, <1>9 DEF j0

\* Changes are added.
LEMMA AddedChanges ==
    ASSUME NEW t \in EntryType, EntryOK(t), Usable(t), NEW jobs \in Seq(JobType), jobs # <<>>,
           \A k \in DOMAIN jobs : IsChange(jobs[k])
    PROVE  EntryOK(Added(t, jobs)) /\ Usable(Added(t, jobs))
<1> DEFINE e == Added(t, jobs)
<1>1. t.tx
  BY DEF Usable
<1>2. /\ e \in EntryType /\ e.tx /\ e.state = "Running" /\ e.failed = t.failed
      /\ \A kind \in {"list", "commit", "rollback"} :
             HasKind(e.jobs, kind) <=> HasKind(t.jobs, kind) \/ HasKind(jobs, kind)
  BY <1>1, AddedJobs
<1>3. ~HasKind(jobs, "list") /\ ~HasKind(jobs, "commit") /\ ~HasKind(jobs, "rollback")
  BY DEF HasKind, IsChange
<1> HIDE DEF e
<1>4. EntryOK(e) /\ Usable(e)
  BY <1>1, <1>2, <1>3 DEF EntryOK, Usable
<1> QED BY <1>4 DEF e

\* A job that is no change is added.
LEMMA AddedNone ==
    ASSUME NEW t \in EntryType, t.tx, EntryOK(t), NEW job \in {Commit, Rollback}
    PROVE  LET e == Added(t, <<job>>) IN
           /\ e \in EntryType /\ e.tx /\ e.state = "Running" /\ e.failed = t.failed
           /\ e.jobs = IF t.state = "Idle" THEN <<Begin, job>> ELSE Append(t.jobs, job)
           /\ Changes(e.jobs) = Changes(t.jobs)
           /\ \A j \in Changes(e.jobs) : e.jobs[j] = t.jobs[j]
           /\ \A kind \in {"list", "commit", "rollback"} :
                  HasKind(e.jobs, kind) <=> HasKind(t.jobs, kind) \/ kind = job.kind
<1> DEFINE e == Added(t, <<job>>)
           j0 == IF t.state = "Idle" THEN <<Begin>> ELSE t.jobs
<1>1. job \in JobType /\ job.kind \in {"commit", "rollback"} /\ ~IsChange(job)
  BY DEF Commit, Rollback, Job, JobType, IsChange
<1>2. <<job>> \in Seq(JobType) /\ <<job>> # <<>>
      /\ \A kind : HasKind(<<job>>, kind) <=> kind = job.kind
  BY <1>1 DEF HasKind
<1>3. /\ e \in EntryType /\ e.tx /\ e.state = "Running" /\ e.failed = t.failed
      /\ j0 \in Seq(JobType) /\ e.jobs = j0 \o <<job>> /\ Changes(j0) = Changes(t.jobs)
      /\ \A j \in Changes(j0) : j0[j] = t.jobs[j]
      /\ \A kind \in {"list", "commit", "rollback"} :
             HasKind(e.jobs, kind) <=> HasKind(t.jobs, kind) \/ HasKind(<<job>>, kind)
  BY <1>2, AddedJobs
<1> HIDE DEF e
<1>4. /\ Len(j0) \in Nat /\ DOMAIN j0 = 1 .. Len(j0) /\ DOMAIN e.jobs = 1 .. Len(j0) + 1
      /\ \A j \in 1 .. Len(j0) : e.jobs[j] = j0[j]
      /\ e.jobs[Len(j0) + 1] = job
  <2> HIDE DEF j0
  <2> QED BY <1>1, <1>3
<1>5. Changes(e.jobs) = Changes(j0) /\ \A j \in Changes(e.jobs) : e.jobs[j] = j0[j]
  <2> HIDE DEF j0
  <2>1. \A j : j \in 1 .. Len(j0) + 1 <=> j \in 1 .. Len(j0) \/ j = Len(j0) + 1
    BY <1>4
  <2> QED BY <1>1, <1>4, <2>1 DEF Changes
<1>6. j0 \o <<job>> = IF t.state = "Idle" THEN <<Begin, job>> ELSE Append(t.jobs, job)
  BY <1>1, <1>3
<1>7. \A kind \in {"list", "commit", "rollback"} :
          HasKind(e.jobs, kind) <=> HasKind(t.jobs, kind) \/ kind = job.kind
  BY <1>2, <1>3
<1> QED BY <1>3, <1>5, <1>6, <1>7 DEF e

\* Another last entry, with the same changes.
LEMMA LastChanged ==
    ASSUME NEW s, Sound(s), s.queue # <<>>, NEW n, n = Len(s.queue), s.queue[n].tx,
           NEW e \in EntryType, e.tx, EntryOK(e),
           Changes(e.jobs) = Changes(s.queue[n].jobs),
           \A j \in Changes(e.jobs) : e.jobs[j] = s.queue[n].jobs[j],
           NEW r \in SyncType, r.queue = [s.queue EXCEPT ![n] = e], r.current => Usable(e),
           r.listed = s.listed, r.pending = s.pending, r.transactions = s.transactions,
           r.results = s.results, r.delivered = s.delivered
    PROVE  Sound(r) /\ Same(s.queue, r.queue)
<1> DEFINE q == [s.queue EXCEPT ![n] = e]
<1>1. s \in SyncType /\ s.queue \in Seq(EntryType) /\ n \in DOMAIN s.queue
  BY SyncFields DEF Sound
<1>2. /\ q \in Seq(EntryType) /\ Len(q) = n /\ DOMAIN q = DOMAIN s.queue
      /\ \A k \in DOMAIN q : q[k] = IF k = n THEN e ELSE s.queue[k]
  BY <1>1
<1>3. Transactions(q) = Transactions(s.queue)
  BY <1>2 DEF Transactions
<1>4. Places(q) = Places(s.queue)
  BY <1>2 DEF Places
<1>5. Same(s.queue, q)
  <2> SUFFICES ASSUME NEW p \in Places(s.queue) PROVE JobAt(q, p) = JobAt(s.queue, p)
    BY <1>4 DEF Same
  <2>1. p[1] \in DOMAIN s.queue /\ p[2] \in Changes(s.queue[p[1]].jobs)
    BY InPlaces
  <2> QED BY <1>2, <2>1 DEF JobAt
<1>6. \A k \in DOMAIN q : EntryOK(q[k])
  BY <1>2 DEF Sound
<1>7. r.current => LastUsable(q)
  BY <1>1, <1>2 DEF LastUsable
<1>8. r.queue = q
  OBVIOUS
<1> HIDE DEF q
<1>9. Sound(r)
  BY <1>3, <1>4, <1>6, <1>7, <1>8 DEF Sound
<1> QED BY <1>5, <1>8, <1>9

\* What Opened() does: nothing, or a transaction that has no job yet is the last one.
LEMMA OpenedSound ==
    ASSUME NEW s, Sound(s), s.results = 0
    PROVE  LET r == Opened(s) IN
           /\ Sound(r) /\ Same(s.queue, r.queue)
           /\ \A f \in DOMAIN s \ {"queue", "transactions", "current"} : r[f] = s[f]
           /\ IF mode = "None" \/ (mode = "Single" /\ s.current) THEN r = s
              ELSE r.current /\ r.queue = Append(s.queue, NewTransaction)
<1> DEFINE r == Opened(s)
           q == Append(s.queue, NewTransaction)
<1>1. s \in SyncType /\ s.queue \in Seq(EntryType) /\ s.transactions \in Nat
  BY SyncFields DEF Sound
<1>2. CASE mode = "None" \/ (mode = "Single" /\ s.current)
  BY <1>2 DEF Opened, Same
<1>3. CASE ~(mode = "None" \/ (mode = "Single" /\ s.current))
  <2>1. NewTransaction \in EntryType /\ NewTransaction.tx /\ NewTransaction.jobs = <<>>
        /\ EntryOK(NewTransaction) /\ Usable(NewTransaction)
    BY DEF NewTransaction, EntryType, EntryOK, Usable, HasKind
  <2>2. Changes(<<>>) = {} /\ Cardinality(Changes(<<>>)) = 0
    BY ChangesOfNone
  <2>3. /\ q \in Seq(EntryType) /\ Len(q) = Len(s.queue) + 1
        /\ \A k \in 1 .. Len(s.queue) : q[k] = s.queue[k]
        /\ q[Len(s.queue) + 1] = NewTransaction
        /\ Places(q) = Places(s.queue)
        /\ Cardinality(Transactions(q)) = s.transactions + 1
    <3> DEFINE e == NewTransaction
               new == {Len(s.queue) + 1} \X Changes(e.jobs)
    <3>1. e \in EntryType /\ e.tx /\ new = {}
      BY <2>1, <2>2
    <3> HIDE DEF e
    <3>2. LET x == Append(s.queue, e) IN
          /\ x \in Seq(EntryType) /\ Len(x) = Len(s.queue) + 1
          /\ \A k \in 1 .. Len(s.queue) : x[k] = s.queue[k]
          /\ x[Len(s.queue) + 1] = e
          /\ Places(x) = Places(s.queue) \cup new
          /\ Cardinality(Transactions(x)) =
                 Cardinality(Transactions(s.queue)) + IF e.tx THEN 1 ELSE 0
      BY <1>1, <3>1, EntryAppended
    <3> HIDE DEF new
    <3> QED BY <3>1, <3>2 DEF e, Sound
  <2>4. Same(s.queue, q)
    <3> SUFFICES ASSUME NEW p \in Places(s.queue) PROVE JobAt(q, p) = JobAt(s.queue, p)
      BY <2>3 DEF Same
    <3>1. p[1] \in 1 .. Len(s.queue)
      BY <1>1, InPlaces
    <3> QED BY <2>3, <3>1 DEF JobAt
  <2>5. Len(s.queue) \in Nat /\ DOMAIN q = 1 .. Len(s.queue) + 1
        /\ \A k \in DOMAIN q : k \in 1 .. Len(s.queue) \/ k = Len(s.queue) + 1
    BY <1>1, <2>3
  <2> HIDE DEF q
  <2>6. (\A k \in DOMAIN q : EntryOK(q[k])) /\ LastUsable(q)
    <3>1. \A k \in 1 .. Len(s.queue) : EntryOK(s.queue[k])
      BY <1>1 DEF Sound
    <3>2. \A k \in DOMAIN q : EntryOK(q[k])
      BY <2>1, <2>3, <2>5, <3>1
    <3>3. q # <<>> /\ q[Len(q)] = NewTransaction
      BY <2>3, <2>5
    <3> QED BY <2>1, <3>2, <3>3 DEF LastUsable
  <2>7. r = [s EXCEPT !.transactions = s.transactions + 1, !.current = TRUE, !.queue = q]
    BY <1>1, <1>3 DEF Opened, q
  <2> HIDE DEF r
  <2>8. /\ r \in SyncType /\ r.queue = q /\ r.current /\ r.transactions = s.transactions + 1
        /\ \A f \in DOMAIN s \ {"queue", "transactions", "current"} : r[f] = s[f]
        /\ r.listed = s.listed /\ r.pending = s.pending /\ r.results = 0
    <3>1. s.transactions + 1 \in Nat
      BY <1>1
    <3>2. r \in SyncType
      BY <1>1, <2>3, <2>7, <3>1 DEF SyncType
    <3>3. /\ r.queue = q /\ r.current /\ r.transactions = s.transactions + 1
          /\ \A f \in DOMAIN s \ {"queue", "transactions", "current"} : r[f] = s[f]
          /\ r.listed = s.listed /\ r.pending = s.pending /\ r.results = s.results
      BY <1>1, <2>7 DEF SyncType
    <3> QED BY <3>2, <3>3
  <2>9. Sound(r)
    BY <2>3, <2>6, <2>8 DEF Sound
  <2> QED BY <1>3, <2>4, <2>8, <2>9 DEF r, q
<1> QED BY <1>2, <1>3

\* What JobsAdded() does with changes.
LEMMA JobsAddedSound ==
    ASSUME NEW s, Sound(s), s.results = 0, NEW jobs \in Seq(JobType),
           \A k \in DOMAIN jobs : IsChange(jobs[k])
    PROVE  LET r == JobsAdded(s, jobs)
               n == Len(s.queue) IN
           /\ Sound(r) /\ Adds(s.queue, r.queue, jobs)
           /\ r.pending = s.pending + Len(jobs)
           /\ \A f \in DOMAIN s \ {"queue", "pending"} : r[f] = s[f]
           /\ s.current => /\ r.queue = [s.queue EXCEPT ![n] = Added(s.queue[n], jobs)]
                           /\ n \in DOMAIN s.queue
                           /\ Added(s.queue[n], jobs) \in EntryType
           /\ ~s.current => r.queue = s.queue \o [k \in DOMAIN jobs |-> Plain(jobs[k])]
<1> DEFINE r == JobsAdded(s, jobs)
           n == Len(s.queue)
           q == IF s.current THEN [s.queue EXCEPT ![n] = Added(s.queue[n], jobs)]
                ELSE s.queue \o [k \in DOMAIN jobs |-> Plain(jobs[k])]
<1>1. s \in SyncType /\ s.queue \in Seq(EntryType) /\ s.pending \in Nat
  BY SyncFields DEF Sound
<1>2. /\ q \in Seq(EntryType) /\ Adds(s.queue, q, jobs) /\ Transactions(q) = Transactions(s.queue)
      /\ \A k \in DOMAIN q : EntryOK(q[k])
      /\ s.current => LastUsable(q)
      /\ s.current => n \in DOMAIN s.queue /\ Added(s.queue[n], jobs) \in EntryType
  <2>1. CASE s.current
    <3> DEFINE t == s.queue[n]
               e == Added(t, jobs)
               x == [s.queue EXCEPT ![n] = e]
    <3>1. n \in DOMAIN s.queue /\ t \in EntryType /\ EntryOK(t) /\ Usable(t)
      BY <1>1, <2>1, EntryTyped DEF Sound, LastUsable
    <3>2. /\ e \in EntryType /\ e.tx /\ EntryOK(e) /\ Usable(e)
          /\ jobs = <<>> => e = t
      <4>1. CASE jobs = <<>>
        BY <3>1, <4>1 DEF Added, Usable
      <4>2. CASE jobs # <<>>
        BY <3>1, <4>2, AddedChanges, AddedJobs DEF Usable
      <4> QED BY <4>1, <4>2
    <3>3. Adds(s.queue, x, jobs)
      <4>1. CASE jobs = <<>>
        <5>1. x = s.queue
          BY <1>1, <3>1, <3>2, <4>1
        <5> QED BY <5>1, <4>1, Stays
      <4>2. CASE jobs # <<>>
        <5> DEFINE j0 == IF t.state = "Idle" THEN <<Begin>> ELSE t.jobs
        <5>1. /\ j0 \in Seq(JobType) /\ e.jobs = j0 \o jobs /\ Changes(j0) = Changes(t.jobs)
              /\ \A j \in Changes(j0) : j0[j] = t.jobs[j]
          <6>1. t \in EntryType /\ t.tx /\ EntryOK(t)
            BY <3>1 DEF Usable
          <6> HIDE DEF t
          <6> QED BY <4>2, <6>1, AddedJobs
        <5> HIDE DEF j0, e
        <5> QED BY <1>1, <3>1, <3>2, <5>1, LastAdds
      <4> QED BY <4>1, <4>2
    <3>4. t.tx
      BY <3>1 DEF Usable
    <3> HIDE DEF e
    <3>5. /\ x \in Seq(EntryType) /\ Len(x) = n /\ DOMAIN x = DOMAIN s.queue
          /\ \A k \in DOMAIN x : x[k] = IF k = n THEN e ELSE s.queue[k]
      BY <1>1, <3>1, <3>2
    <3>6. Transactions(x) = Transactions(s.queue)
      BY <3>1, <3>2, <3>4, <3>5 DEF Transactions
    <3>7. (\A k \in DOMAIN x : EntryOK(x[k])) /\ LastUsable(x)
      BY <3>1, <3>2, <3>5 DEF Sound, LastUsable
    <3>8. q = x
      BY <2>1 DEF e
    <3> HIDE DEF q, x, t
    <3> QED BY <3>1, <3>2, <3>3, <3>5, <3>6, <3>7, <3>8 DEF e, t
  <2>2. CASE ~s.current
    <3> DEFINE x == s.queue \o [k \in DOMAIN jobs |-> Plain(jobs[k])]
    <3>1. /\ x \in Seq(EntryType) /\ Len(x) = Len(s.queue) + Len(jobs)
          /\ \A k \in 1 .. Len(s.queue) : x[k] = s.queue[k]
          /\ \A k \in 1 .. Len(x) : k \in 1 .. Len(s.queue)
                                     \/ \E j \in DOMAIN jobs : x[k] = Plain(jobs[j])
          /\ Adds(s.queue, x, jobs)
          /\ Transactions(x) = Transactions(s.queue)
      BY <1>1, PlainAdds
    <3>2. \A j \in DOMAIN jobs : EntryOK(Plain(jobs[j]))
      BY DEF EntryOK, Plain
    <3> HIDE DEF x
    <3>3. \A k \in DOMAIN x : EntryOK(x[k])
      <4> SUFFICES ASSUME NEW k \in DOMAIN x PROVE EntryOK(x[k])
        OBVIOUS
      <4>1. k \in 1 .. Len(x)
        BY <3>1
      <4>2. CASE k \in 1 .. Len(s.queue)
        <5>1. EntryOK(s.queue[k]) /\ x[k] = s.queue[k]
          BY <1>1, <3>1, <4>2 DEF Sound
        <5> QED BY <5>1
      <4>3. CASE k \notin 1 .. Len(s.queue)
        <5>1. PICK j \in DOMAIN jobs : x[k] = Plain(jobs[j])
          BY <3>1, <4>1, <4>3
        <5> QED BY <3>2, <5>1
      <4> QED BY <4>2, <4>3
    <3> QED BY <2>2, <3>1, <3>3 DEF x
  <2> QED BY <1>1, <2>1, <2>2, SyncFields
<1>3. r = [s EXCEPT !.pending = s.pending + Len(jobs), !.queue = q]
  BY DEF JobsAdded
<1>4. Cardinality(Places(q)) = Cardinality(Places(s.queue)) + Len(jobs) /\ Len(jobs) \in Nat
  BY <1>1, <1>2, AddsCount
<1> HIDE DEF r
<1>5. /\ r \in SyncType /\ r.queue = q /\ r.pending = s.pending + Len(jobs)
      /\ \A f \in DOMAIN s \ {"queue", "pending"} : r[f] = s[f]
      /\ r.listed = s.listed /\ r.current = s.current /\ r.results = 0
      /\ r.transactions = s.transactions
  <2> HIDE DEF q
  <2>1. s.pending + Len(jobs) \in Nat
    BY <1>1, <1>4
  <2>2. r \in SyncType
    BY <1>1, <1>2, <1>3, <2>1 DEF SyncType
  <2>3. /\ r.queue = q /\ r.pending = s.pending + Len(jobs)
        /\ \A f \in DOMAIN s \ {"queue", "pending"} : r[f] = s[f]
        /\ r.listed = s.listed /\ r.current = s.current /\ r.results = s.results
        /\ r.transactions = s.transactions
    BY <1>1, <1>3 DEF SyncType
  <2> QED BY <2>2, <2>3
<1>6. Sound(r)
  <2>1. Cardinality(Places(s.queue)) \in Nat
    BY <1>1, PlacesFinite
  <2> HIDE DEF q
  <2> QED BY <1>1, <1>2, <1>4, <1>5, <2>1 DEF Sound
<1> QED BY <1>2, <1>5, <1>6 DEF r

\* The last transaction is committed: jobs may still be in the way, or it may
\* never have been used.
CommitLast(s) ==
    LET n == Len(s.queue)
        t == s.queue[n]
    IN  [s EXCEPT !.queue[n] = IF t.jobs # <<>> THEN [t EXCEPT !.state = "Waiting"]
                               ELSE Added(t, <<Commit>>),
                  !.current = FALSE]

\* commit() adds nothing that changes items, and lets go of the transaction.
LEMMA CommittedSound ==
    ASSUME NEW s, Sound(s)
    PROVE  LET r == Committed(s)
               n == Len(s.queue)
               t == s.queue[n] IN
           /\ Sound(r) /\ ~r.current
           /\ \A f \in DOMAIN s \ {"queue", "transactions", "current", "error", "results"} :
                  r[f] = s[f]
           /\ Same(s.queue, r.queue)
           /\ r.error = s.error
           /\ ~s.current => r = s
           /\ s.current => n \in DOMAIN s.queue /\ t \in EntryType /\ EntryOK(t) /\ Usable(t)
           /\ s.current /\ t.state = "Idle" => r.queue = RemoveAt(s.queue, n)
           /\ s.current /\ t.state # "Idle" => r = CommitLast(s)
<1> DEFINE r == Committed(s)
           n == Len(s.queue)
           t == s.queue[n]
<1>1. s \in SyncType /\ s.queue \in Seq(EntryType)
  BY SyncFields DEF Sound
<1>2. CASE ~s.current
  BY <1>2 DEF Committed, Same
<1>3. CASE s.current
  <2>1. n \in DOMAIN s.queue /\ t \in EntryType /\ EntryOK(t) /\ Usable(t) /\ s.queue # <<>>
    BY <1>1, <1>3, EntryTyped DEF Sound, LastUsable
  <2>2. CASE t.state = "Idle"
    <3> DEFINE u == Settled(s, n)
    <3>1. r = CheckDone(u)
      BY <1>3, <2>2, ResultSettles DEF Committed
    <3>2. t.jobs = <<>> /\ ~t.failed /\ t.tx
      BY <2>1, <2>2 DEF EntryOK, Usable, HasKind, EntryType
    <3>3. /\ Sound(u) /\ ~u.current /\ u.queue = RemoveAt(s.queue, n)
          /\ u.error = (s.error \/ s.queue[n].failed)
          /\ \A f \in DOMAIN s \ {"queue", "error", "transactions", "current"} : u[f] = s[f]
      BY <2>1, <3>2, LastSettled
    <3>4. Same(s.queue, u.queue)
      <4> DEFINE x == RemoveAt(s.queue, n)
      <4>1. /\ \A k \in 1 .. n - 1 : x[k] = s.queue[k]
            /\ x \in Seq(EntryType) /\ Len(x) = n - 1
            /\ Places(s.queue) = Places(x) \cup ({n} \X Changes(t.jobs))
        BY <1>1, <2>1, LastRemoved
      <4>2. {n} \X Changes(t.jobs) = {}
        BY <3>2, ChangesOfNone
      <4>3. Places(x) = Places(s.queue)
        BY <4>1, <4>2
      <4> HIDE DEF x
      <4> SUFFICES ASSUME NEW p \in Places(s.queue) PROVE JobAt(x, p) = JobAt(s.queue, p)
        BY <4>3, <3>3 DEF Same, x
      <4>4. p \in Places(x)
        BY <4>3
      <4>5. p[1] \in DOMAIN x
        BY <4>4, InPlaces
      <4>6. p[1] \in 1 .. n - 1
        BY <4>1, <4>5
      <4> QED BY <4>1, <4>6 DEF JobAt
    <3>5. u.error = s.error /\ s.error \in BOOLEAN
      BY <1>1, <3>2, <3>3, SyncFields
    <3> HIDE DEF u, t, n
    <3>6. Sound(r) /\ (r = u \/ r = [u EXCEPT !.results = 1])
      BY <3>1, <3>3, CheckDoneSound
    <3>7. u \in SyncType /\ s \in SyncType
      BY <3>3, <1>1 DEF Sound
    <3> HIDE DEF r
    <3>8. /\ r.queue = u.queue /\ r.current = u.current /\ r.error = u.error
          /\ \A f \in DOMAIN s \ {"queue", "transactions", "current", "error", "results"} :
                 r[f] = u[f]
      BY <3>6, <3>7 DEF SyncType
    <3>9. \A f \in DOMAIN s \ {"queue", "transactions", "current", "error", "results"} : r[f] = s[f]
      BY <3>3, <3>8
    <3> QED BY <1>3, <2>1, <2>2, <3>3, <3>4, <3>5, <3>6, <3>8, <3>9 DEF r, t, n
  <2>3. CASE t.state # "Idle"
    <3> DEFINE e == IF t.jobs # <<>> THEN [t EXCEPT !.state = "Waiting"] ELSE Added(t, <<Commit>>)
    <3>1. t.jobs = <<>> => ~t.failed
      BY <2>1, <2>3 DEF EntryOK, Usable, HasKind, EntryType
    <3>2. r = [s EXCEPT !.current = FALSE, !.queue[n] = e]
      BY <1>3, <2>3, <3>1 DEF Committed
    <3>3. /\ e \in EntryType /\ e.tx /\ EntryOK(e)
          /\ Changes(e.jobs) = Changes(t.jobs)
          /\ \A j \in Changes(e.jobs) : e.jobs[j] = t.jobs[j]
      <4>1. CASE t.jobs # <<>>
        <5>1. e = [t EXCEPT !.state = "Waiting"]
          BY <4>1
        <5>2. /\ e \in EntryType /\ e.tx = t.tx /\ e.jobs = t.jobs /\ e.failed = t.failed
              /\ e.state = "Waiting"
          BY <2>1, <5>1 DEF EntryType
        <5> HIDE DEF e, t
        <5> QED BY <2>1, <5>2 DEF EntryOK, Usable
      <4>2. CASE t.jobs = <<>>
        <5>1. e = Added(t, <<Commit>>)
          BY <4>2
        <5>2. /\ e \in EntryType /\ e.tx /\ e.state = "Running" /\ e.failed = t.failed
              /\ e.jobs = Append(t.jobs, Commit)
              /\ Changes(e.jobs) = Changes(t.jobs)
              /\ \A j \in Changes(e.jobs) : e.jobs[j] = t.jobs[j]
              /\ \A kind \in {"list", "commit", "rollback"} :
                     HasKind(e.jobs, kind) <=> HasKind(t.jobs, kind) \/ kind = Commit.kind
          <6>1. t.tx /\ t.state # "Idle" /\ Commit \in {Commit, Rollback}
            BY <2>1, <2>3 DEF Usable
          <6> DEFINE x == Added(t, <<Commit>>)
          <6>2. t \in EntryType /\ EntryOK(t)
            BY <2>1
          <6> HIDE DEF t
          <6>3. /\ x \in EntryType /\ x.tx /\ x.state = "Running" /\ x.failed = t.failed
                /\ x.jobs = (IF t.state = "Idle" THEN <<Begin, Commit>> ELSE Append(t.jobs, Commit))
                /\ Changes(x.jobs) = Changes(t.jobs)
                /\ \A j \in Changes(x.jobs) : x.jobs[j] = t.jobs[j]
                /\ \A kind \in {"list", "commit", "rollback"} :
                       HasKind(x.jobs, kind) <=> HasKind(t.jobs, kind) \/ kind = Commit.kind
            BY <6>1, <6>2, AddedNone
          <6> HIDE DEF e
          <6>4. e = x
            BY <5>1
          <6> HIDE DEF x
          <6> QED BY <6>1, <6>3, <6>4
        <5>3. Commit.kind = "commit" /\ Append(<<>>, Commit) = <<Commit>>
          BY DEF Commit, Job
        <5>4. ~HasKind(t.jobs, "list") /\ ~HasKind(t.jobs, "rollback")
          BY <4>2 DEF HasKind
        <5> HIDE DEF e, t
        <5> QED BY <4>2, <5>2, <5>3, <5>4, <3>1 DEF EntryOK
      <4> QED BY <4>1, <4>2
    <3> HIDE DEF e
    <3>4. r = [s EXCEPT !.queue[n] = e, !.current = FALSE]
      BY <1>1, <3>2 DEF SyncType
    <3>5. t.tx
      BY <2>1 DEF Usable
    <3>9. [s.queue EXCEPT ![n] = e] \in Seq(EntryType)
      <4>1. n \in DOMAIN s.queue /\ e \in EntryType /\ s.queue \in Seq(EntryType)
        BY <1>1, <2>1, <3>3
      <4> HIDE DEF n
      <4> QED BY <4>1
    <3>10. /\ r \in SyncType /\ r.queue = [s.queue EXCEPT ![n] = e] /\ ~r.current
           /\ \A f \in DOMAIN s \ {"queue", "current"} : r[f] = s[f]
           /\ r.listed = s.listed /\ r.pending = s.pending /\ r.transactions = s.transactions
           /\ r.results = s.results /\ r.delivered = s.delivered
      <4> HIDE DEF n, t, r
      <4> QED BY <1>1, <3>4, <3>9 DEF SyncType
    <3>6. Sound(r) /\ Same(s.queue, r.queue)
      <4>1. /\ s.queue # <<>> /\ n = Len(s.queue) /\ s.queue[n].tx
            /\ Changes(e.jobs) = Changes(s.queue[n].jobs)
            /\ \A j \in Changes(e.jobs) : e.jobs[j] = s.queue[n].jobs[j]
        BY <2>1, <3>3, <3>5
      <4> HIDE DEF n, t, r
      <4> QED BY <3>3, <3>10, <4>1, LastChanged
    <3>7. r = CommitLast(s)
      BY <3>4 DEF CommitLast, e
    <3>8. r.error = s.error
      BY <1>1, <3>10 DEF SyncType
    <3> QED BY <1>3, <2>1, <2>3, <3>6, <3>7, <3>8, <3>10
  <2> QED BY <2>2, <2>3
<1> QED BY <1>2, <1>3

\* SetToSeq() lists each element once.
LEMMA Listing ==
    ASSUME NEW S, IsFiniteSet(S)
    PROVE  /\ SetToSeq(S) \in Seq(S)
           /\ \A k, l \in DOMAIN SetToSeq(S) : SetToSeq(S)[k] = SetToSeq(S)[l] => k = l
           /\ \A x \in S : \E k \in DOMAIN SetToSeq(S) : SetToSeq(S)[k] = x
<1> DEFINE n == Cardinality(S)
           f == SetToSeq(S)
<1>1. n \in Nat /\ ExistsBijection(1 .. n, S)
  BY FS_CardinalityType
<1>2. \E g \in [1 .. n -> S] : IsInjective(g)
  BY <1>1 DEF ExistsBijection, Bijection, Injection
<1>3. f \in [1 .. n -> S] /\ IsInjective(f)
  BY <1>2 DEF SetToSeq
<1>4. IsFiniteSet(1 .. n) /\ Cardinality(1 .. n) = n
  <2>1. 1 \in Int /\ n \in Int
    BY <1>1
  <2> HIDE DEF n
  <2>2. IsFiniteSet(1 .. n) /\ Cardinality(1 .. n) = IF 1 > n THEN 0 ELSE n - 1 + 1
    BY ONLY <2>1, FS_Interval
  <2> QED BY <1>1, <2>2
<1> HIDE DEF f
<1>5. f \in Injection(1 .. n, S)
  BY <1>3 DEF Injection
<1>6. f \in Surjection(1 .. n, S)
  BY <1>4, <1>5, FS_Injection
<1>7. \A x \in S : \E k \in 1 .. n : f[k] = x
  BY <1>6 DEF Surjection
<1>8. f \in Seq(S)
  BY <1>1, <1>3
<1>9. DOMAIN f = 1 .. n
  BY <1>3
<1> QED BY <1>3, <1>7, <1>8, <1>9 DEF f, IsInjective

Needed(s) == IF s.error THEN {} ELSE {i \in s.arrived : i \notin s.local \/ UpdateItem(i)}

JobFor(s, i) == Job(IF i \in s.local THEN "modify" ELSE "create", {i})

\* the jobs that processItems() creates
ProcessJobs(s) ==
    LET items == SetToSeq(Needed(s)) IN [k \in DOMAIN items |-> JobFor(s, items[k])]

ToDelete(s) ==
    IF s.error THEN {} ELSE s.local \cap (IF form = "full" THEN s.unprocessed ELSE s.removed)

\* and deleteItems()
DeleteJobs(s) == IF ToDelete(s) = {} THEN <<>> ELSE <<Job("delete", ToDelete(s))>>

\* The jobs of processItems(): one for each item that needs one.
LEMMA ProcessJobsOK ==
    ASSUME NEW s \in SyncType
    PROVE  LET jobs == ProcessJobs(s) IN
           /\ jobs \in Seq(JobType)
           /\ \A k \in DOMAIN jobs : /\ IsChange(jobs[k])
                                     /\ \E i \in Needed(s) : jobs[k] = JobFor(s, i)
           /\ \A k, l \in DOMAIN jobs : \A i : i \in jobs[k].items /\ i \in jobs[l].items => k = l
           /\ \A i \in Needed(s) : \E k \in DOMAIN jobs : jobs[k] = JobFor(s, i)
<1> DEFINE S == Needed(s)
           items == SetToSeq(S)
           jobs == ProcessJobs(s)
<1>1. S \subseteq Item /\ IsFiniteSet(S)
  <2>1. S \subseteq Item
    BY SyncFields DEF Needed
  <2> QED BY <2>1, ItemSyncAssumption, FS_Subset
<1>2. /\ items \in Seq(S)
      /\ \A k, l \in DOMAIN items : items[k] = items[l] => k = l
      /\ \A x \in S : \E k \in DOMAIN items : items[k] = x
  BY <1>1, Listing
<1>3. jobs = [k \in DOMAIN items |-> JobFor(s, items[k])]
  BY DEF ProcessJobs
<1> HIDE DEF items, S, jobs
<1>4. \A i \in S : JobFor(s, i) \in JobType /\ IsChange(JobFor(s, i)) /\ JobFor(s, i).items = {i}
  BY <1>1 DEF JobFor, Job, JobType, IsChange
<1>5. \A k \in DOMAIN items : items[k] \in S
  BY <1>2
<1>6. jobs \in Seq(JobType) /\ DOMAIN jobs = DOMAIN items
  <2>1. DOMAIN items = 1 .. Len(items) /\ Len(items) \in Nat
    BY <1>2
  <2>2. jobs \in [1 .. Len(items) -> JobType]
    BY <2>1, <1>3, <1>4, <1>5
  <2> QED BY <2>1, <2>2
<1>7. \A k \in DOMAIN jobs : jobs[k] = JobFor(s, items[k]) /\ items[k] \in S
  BY <1>3, <1>5, <1>6
<1>8. \A k, l \in DOMAIN jobs : \A i : i \in jobs[k].items /\ i \in jobs[l].items => k = l
  <2> SUFFICES ASSUME NEW k \in DOMAIN jobs, NEW l \in DOMAIN jobs, NEW i,
                      i \in jobs[k].items, i \in jobs[l].items
               PROVE  k = l
    OBVIOUS
  <2>1. i = items[k] /\ i = items[l]
    BY <1>4, <1>7
  <2> QED BY <2>1, <1>2, <1>6
<1>9. \A i \in S : \E k \in DOMAIN jobs : jobs[k] = JobFor(s, i)
  BY <1>2, <1>6, <1>7
<1>10. \A k \in DOMAIN jobs : IsChange(jobs[k]) /\ \E i \in S : jobs[k] = JobFor(s, i)
  BY <1>4, <1>7
<1> QED BY <1>6, <1>8, <1>9, <1>10 DEF jobs, S

\* processItems() adds these jobs.
LEMMA ProcessedSound ==
    ASSUME NEW s, Sound(s), s.results = 0
    PROVE  LET r == Processed(s) IN
           /\ Sound(r) /\ Adds(s.queue, r.queue, ProcessJobs(s))
           /\ r.pending = s.pending + Len(ProcessJobs(s))
           /\ r.arrived = {} /\ r.unprocessed = s.unprocessed \ s.arrived
           /\ \A f \in DOMAIN s \ {"queue", "pending", "arrived", "unprocessed"} : r[f] = s[f]
           /\ r.queue = JobsAdded(s, ProcessJobs(s)).queue
<1> DEFINE r == Processed(s)
           jobs == ProcessJobs(s)
           u == JobsAdded(s, jobs)
<1>1. s \in SyncType
  BY DEF Sound
<1>2. jobs \in Seq(JobType) /\ \A k \in DOMAIN jobs : IsChange(jobs[k])
  BY <1>1, ProcessJobsOK
<1>3. r = [u EXCEPT !.arrived = {}, !.unprocessed = @ \ s.arrived]
  BY DEF Processed, ProcessJobs, Needed, JobFor
<1> HIDE DEF jobs, r
<1>4. /\ Sound(u) /\ Adds(s.queue, u.queue, jobs)
      /\ u.pending = s.pending + Len(jobs)
      /\ \A f \in DOMAIN s \ {"queue", "pending"} : u[f] = s[f]
  BY <1>2, JobsAddedSound
<1> HIDE DEF u
<1>5. u \in SyncType
  BY <1>4 DEF Sound
<1>6. u.unprocessed = s.unprocessed
  BY <1>1, <1>4 DEF SyncType
<1>7. /\ r \in SyncType /\ r.arrived = {} /\ r.unprocessed = s.unprocessed \ s.arrived
      /\ \A f \in DOMAIN s \ {"arrived", "unprocessed"} : r[f] = u[f]
      /\ r.queue = u.queue /\ r.pending = u.pending /\ r.listed = u.listed
      /\ r.transactions = u.transactions /\ r.current = u.current /\ r.results = u.results
      /\ r.delivered = u.delivered
  BY <1>1, <1>3, <1>5, <1>6 DEF SyncType
<1>8. Sound(r)
  BY <1>4, <1>7 DEF Sound
<1>9. \A f \in DOMAIN s \ {"queue", "pending", "arrived", "unprocessed"} : r[f] = s[f]
  BY <1>4, <1>7
<1> QED BY <1>4, <1>7, <1>8, <1>9 DEF r, jobs, u

\* The jobs of deleteItems(): one, if there is anything to be deleted.
LEMMA DeleteJobsOK ==
    ASSUME NEW s \in SyncType
    PROVE  /\ DeleteJobs(s) \in Seq(JobType)
           /\ \A k \in DOMAIN DeleteJobs(s) :
                  /\ IsChange(DeleteJobs(s)[k])
                  /\ k = 1 /\ DeleteJobs(s)[k] = Job("delete", ToDelete(s))
           /\ \A i \in ToDelete(s) : DOMAIN DeleteJobs(s) = {1}
<1>1. ToDelete(s) \subseteq Item
  BY SyncFields DEF ToDelete
<1>2. Job("delete", ToDelete(s)) \in JobType /\ IsChange(Job("delete", ToDelete(s)))
  BY <1>1 DEF Job, JobType, IsChange
<1>3. CASE ToDelete(s) = {}
  BY <1>3 DEF DeleteJobs
<1>4. CASE ToDelete(s) # {}
  <2>1. DeleteJobs(s) = <<Job("delete", ToDelete(s))>>
    BY <1>4 DEF DeleteJobs
  <2> QED BY <1>2, <2>1
<1> QED BY <1>3, <1>4

\* deleteItems() adds this job.
LEMMA DeletedSound ==
    ASSUME NEW s, Sound(s), s.results = 0
    PROVE  LET r == Deleted(s) IN
           /\ Sound(r) /\ Adds(s.queue, r.queue, DeleteJobs(s))
           /\ r.pending = s.pending + Len(DeleteJobs(s))
           /\ r.local = {} /\ r.removed = {}
           /\ r.unprocessed = IF form = "full" THEN {} ELSE s.unprocessed
           /\ \A f \in DOMAIN s \ {"queue", "pending", "local", "removed", "unprocessed"} :
                  r[f] = s[f]
           /\ IF ToDelete(s) = {} THEN r.queue = s.queue
              ELSE r.queue = JobsAdded(s, DeleteJobs(s)).queue
<1> DEFINE r == Deleted(s)
           jobs == DeleteJobs(s)
           u == IF jobs = <<>> THEN s ELSE JobsAdded(s, jobs)
<1>1. s \in SyncType /\ s.queue \in Seq(EntryType)
  BY SyncFields DEF Sound
<1>2. jobs \in Seq(JobType) /\ \A k \in DOMAIN jobs : IsChange(jobs[k])
  BY <1>1, DeleteJobsOK
<1>3. r = [u EXCEPT !.local = {}, !.removed = {},
                    !.unprocessed = IF form = "full" THEN {} ELSE u.unprocessed]
  <2> DEFINE items == s.local \cap (IF form = "full" THEN s.unprocessed ELSE s.removed)
             v == IF s.error \/ items = {} THEN s ELSE JobsAdded(s, <<Job("delete", items)>>)
  <2>1. r = [v EXCEPT !.local = {}, !.removed = {},
                      !.unprocessed = IF form = "full" THEN {} ELSE v.unprocessed]
    BY DEF Deleted
  <2>2. CASE s.error \/ items = {}
    BY <2>1, <2>2 DEF DeleteJobs, ToDelete
  <2>3. CASE ~(s.error \/ items = {})
    <3>1. ToDelete(s) = items /\ ToDelete(s) # {}
      BY <2>3 DEF ToDelete
    <3>2. jobs = <<Job("delete", items)>> /\ jobs # <<>>
      BY <3>1 DEF DeleteJobs
    <3>3. u = v
      <4> HIDE DEF items, jobs
      <4> QED BY <2>3, <3>2
    <3> HIDE DEF u, v, r
    <3> QED BY <2>1, <3>3
  <2> QED BY <2>2, <2>3
<1>4. /\ Sound(u) /\ Adds(s.queue, u.queue, jobs)
      /\ u.pending = s.pending + Len(jobs)
      /\ \A f \in DOMAIN s \ {"queue", "pending"} : u[f] = s[f]
  <2> HIDE DEF jobs
  <2>1. CASE jobs = <<>>
    <3>1. u = s /\ Len(jobs) = 0 /\ s.pending \in Nat
      BY <1>1, <2>1, SyncFields
    <3> HIDE DEF u
    <3> QED BY <2>1, <3>1, Stays
  <2>2. CASE jobs # <<>>
    BY <1>2, <2>2, JobsAddedSound
  <2> QED BY <2>1, <2>2
<1>5. u.queue = IF ToDelete(s) = {} THEN s.queue ELSE JobsAdded(s, jobs).queue
  BY DEF DeleteJobs
<1> HIDE DEF u, r, jobs
<1>6. u \in SyncType /\ u.unprocessed = s.unprocessed
  BY <1>1, <1>4 DEF Sound, SyncType
<1>7. /\ r \in SyncType /\ r.local = {} /\ r.removed = {}
      /\ r.unprocessed = (IF form = "full" THEN {} ELSE s.unprocessed)
      /\ \A f \in DOMAIN s \ {"local", "removed", "unprocessed"} : r[f] = u[f]
      /\ r.queue = u.queue /\ r.pending = u.pending /\ r.listed = u.listed
      /\ r.transactions = u.transactions /\ r.current = u.current /\ r.results = u.results
      /\ r.delivered = u.delivered
  BY <1>1, <1>3, <1>6 DEF SyncType
<1>8. Sound(r)
  BY <1>4, <1>7 DEF Sound
<1>9. \A f \in DOMAIN s \ {"queue", "pending", "local", "removed", "unprocessed"} : r[f] = s[f]
  BY <1>4, <1>7
<1> QED BY <1>4, <1>5, <1>7, <1>8, <1>9 DEF r, jobs

\* What execute() does, step by step.
Begun(s)  == Processed(Opened(s))
Swept(s)  == Deleted(Begun(s))

\* execute(), call by call, goes from sound states to sound states.
LEMMA ExecuteSteps ==
    ASSUME NEW s, Sound(s), s.results = 0
    PROVE  LET o == Opened(s)
               p == Begun(s)
               d == Swept(s)
               r == Execute(s) IN
           /\ Sound(o) /\ o.results = 0 /\ Sound(p) /\ p.results = 0 /\ Sound(d) /\ Sound(r)
           /\ IF ~s.delivered /\ s.arrived = {} THEN r = s
              ELSE IF s.delivered THEN r = CheckDone(Committed(d))
              ELSE IF mode = "Multiple" THEN r = Committed(p) ELSE r = p
           /\ ProcessJobs(o) = ProcessJobs(s) /\ ToDelete(o) = ToDelete(s)
           /\ Adds(s.queue, p.queue, ProcessJobs(s))
           /\ p.pending = s.pending + Len(ProcessJobs(s))
           /\ Adds(p.queue, d.queue, DeleteJobs(p))
           /\ d.pending = p.pending + Len(DeleteJobs(p))
           /\ p.delivered = s.delivered /\ d.delivered = s.delivered
           /\ p.error = s.error /\ d.error = s.error
           /\ p.local = s.local /\ p.removed = s.removed
           /\ p.arrived = {} /\ d.arrived = {}
           /\ p.unprocessed = s.unprocessed \ s.arrived
           /\ d.local = {} /\ d.removed = {}
           /\ d.unprocessed = IF form = "full" THEN {} ELSE p.unprocessed
<1> DEFINE o == Opened(s)
           p == Begun(s)
           d == Swept(s)
           r == Execute(s)
<1>1. /\ Sound(o) /\ Same(s.queue, o.queue)
      /\ \A f \in DOMAIN s \ {"queue", "transactions", "current"} : o[f] = s[f]
  BY OpenedSound
<1>2. s \in SyncType /\ s.listed
  BY DEF Sound
<1> HIDE DEF o
<1>3. /\ o.results = 0 /\ o.delivered = s.delivered /\ o.error = s.error /\ o.local = s.local
      /\ o.removed = s.removed /\ o.arrived = s.arrived /\ o.unprocessed = s.unprocessed
      /\ o.pending = s.pending
  BY <1>1, <1>2 DEF SyncType
<1>4. ProcessJobs(o) = ProcessJobs(s) /\ ToDelete(o) = ToDelete(s)
  <2>1. Needed(o) = Needed(s)
    BY <1>3 DEF Needed
  <2>2. \A i : JobFor(o, i) = JobFor(s, i)
    BY <1>3 DEF JobFor
  <2> QED BY <1>3, <2>1, <2>2 DEF ProcessJobs, ToDelete
<1>5. p = Processed(o)
  BY DEF Begun, o
<1> HIDE DEF p
<1>6. /\ Sound(p) /\ Adds(o.queue, p.queue, ProcessJobs(o))
      /\ p.pending = o.pending + Len(ProcessJobs(o))
      /\ p.arrived = {} /\ p.unprocessed = o.unprocessed \ o.arrived
      /\ \A f \in DOMAIN o \ {"queue", "pending", "arrived", "unprocessed"} : p[f] = o[f]
  BY <1>1, <1>3, <1>5, ProcessedSound
<1>7. o \in SyncType
  BY <1>1 DEF Sound
<1>8. /\ p.results = 0 /\ p.delivered = o.delivered /\ p.error = o.error /\ p.local = o.local
      /\ p.removed = o.removed
  BY <1>3, <1>6, <1>7 DEF SyncType
<1>9. Adds(s.queue, p.queue, ProcessJobs(s))
  BY <1>1, <1>4, <1>6 DEF Adds, Same
<1>10. d = Deleted(p)
  BY DEF Swept, p
<1> HIDE DEF d
<1>11. /\ Sound(d) /\ Adds(p.queue, d.queue, DeleteJobs(p))
       /\ d.pending = p.pending + Len(DeleteJobs(p))
       /\ d.local = {} /\ d.removed = {}
       /\ d.unprocessed = (IF form = "full" THEN {} ELSE p.unprocessed)
       /\ \A f \in DOMAIN p \ {"queue", "pending", "local", "removed", "unprocessed"} :
              d[f] = p[f]
  BY <1>6, <1>8, <1>10, DeletedSound
<1>12. p \in SyncType
  BY <1>6 DEF Sound
<1>13. d.delivered = p.delivered /\ d.error = p.error /\ d.arrived = {}
  BY <1>6, <1>11, <1>12 DEF SyncType
<1>14. IF ~s.delivered /\ s.arrived = {} THEN r = s
       ELSE IF s.delivered THEN r = CheckDone(Committed(d))
       ELSE IF mode = "Multiple" THEN r = Committed(p) ELSE r = p
  BY <1>2, <1>5, <1>10 DEF Execute, o
<1>15. Sound(r)
  <2>1. Sound(Committed(d)) /\ Sound(Committed(p))
    BY <1>6, <1>11, CommittedSound
  <2>2. Sound(CheckDone(Committed(d)))
    BY <2>1, CheckDoneSound
  <2> HIDE DEF r
  <2> QED BY <1>6, <1>14, <2>1, <2>2
<1> HIDE DEF r
<1>16. p.unprocessed = s.unprocessed \ s.arrived /\ p.pending = s.pending + Len(ProcessJobs(s))
  BY <1>3, <1>4, <1>6
<1> QED BY <1>1, <1>3, <1>4, <1>6, <1>8, <1>9, <1>11, <1>13, <1>14, <1>15, <1>16 DEF o, p, d, r

\* ItemSync waits for exactly the changes in the queue.
Exact(s) == s.pending = Cardinality(Places(s.queue))

\* execute() counts what it adds.
LEMMA ExecuteExact ==
    ASSUME NEW s, Sound(s), s.results = 0, Exact(s)
    PROVE  Exact(Execute(s))
<1> DEFINE o == Opened(s)
           p == Begun(s)
           d == Swept(s)
           r == Execute(s)
<1>1. s \in SyncType /\ s.queue \in Seq(EntryType)
  BY SyncFields DEF Sound
<1>2. /\ Sound(p) /\ Sound(d) /\ p.results = 0
      /\ IF ~s.delivered /\ s.arrived = {} THEN r = s
         ELSE IF s.delivered THEN r = CheckDone(Committed(d))
         ELSE IF mode = "Multiple" THEN r = Committed(p) ELSE r = p
      /\ Adds(s.queue, p.queue, ProcessJobs(s))
      /\ p.pending = s.pending + Len(ProcessJobs(s))
      /\ Adds(p.queue, d.queue, DeleteJobs(p))
      /\ d.pending = p.pending + Len(DeleteJobs(p))
  BY ExecuteSteps
<1> HIDE DEF o, p, d, r
<1>3. p \in SyncType /\ p.queue \in Seq(EntryType) /\ d \in SyncType /\ d.queue \in Seq(EntryType)
  BY <1>2, SyncFields DEF Sound
<1>4. Exact(p)
  BY <1>1, <1>2, ProcessJobsOK, AddsCount DEF Exact
<1>5. Exact(d)
  BY <1>2, <1>3, <1>4, DeleteJobsOK, AddsCount DEF Exact
<1>6. ASSUME NEW x, Sound(x), Exact(x) PROVE Exact(Committed(x)) /\ Sound(Committed(x))
  <2>1. x \in SyncType
    BY <1>6 DEF Sound
  <2> DEFINE c == Committed(x)
  <2>2. /\ \A f \in DOMAIN x \ {"queue", "transactions", "current", "error", "results"} :
               c[f] = x[f]
        /\ Same(x.queue, c.queue) /\ Sound(c)
    BY <1>6, CommittedSound
  <2> HIDE DEF c
  <2>3. c.pending = x.pending
    BY <2>1, <2>2 DEF SyncType
  <2> QED BY <1>6, <2>2, <2>3 DEF Exact, Same, c
<1>7. ASSUME NEW x, Sound(x), Exact(x) PROVE Exact(CheckDone(x))
  <2>1. x \in SyncType
    BY <1>7 DEF Sound
  <2>2. CheckDone(x) = x \/ CheckDone(x) = [x EXCEPT !.results = 1]
    BY <1>7, CheckDoneSound
  <2> QED BY <1>7, <2>1, <2>2 DEF Exact, SyncType
<1> QED BY <1>2, <1>4, <1>5, <1>6, <1>7 DEF r

\* rollback() of the current transaction.
LEMMA RolledBackSound ==
    ASSUME NEW s, Sound(s), s.results = 0, s.error, s.delivered => ~s.current
    PROVE  LET r == RolledBack(s)
               n == Len(s.queue)
               t == s.queue[n] IN
           /\ Sound(r) /\ r.results = 0 /\ Same(s.queue, r.queue) /\ r.error
           /\ \A f \in DOMAIN s \ {"queue", "transactions", "current", "error"} : r[f] = s[f]
           /\ s.current => n \in DOMAIN s.queue /\ t \in EntryType /\ EntryOK(t) /\ Usable(t)
           /\ ~s.current => r = s
           /\ s.current /\ t.state = "Idle" => r.queue = RemoveAt(s.queue, n) /\ ~r.current
           /\ s.current /\ t.state # "Idle" =>
                  /\ r.current
                  /\ r.queue = [s.queue EXCEPT
                                  ![n] = [Added(t, <<Rollback>>) EXCEPT !.failed = TRUE]]
<1> DEFINE r == RolledBack(s)
           n == Len(s.queue)
           t == s.queue[n]
<1>1. s \in SyncType /\ s.queue \in Seq(EntryType)
  BY SyncFields DEF Sound
<1>2. CASE ~s.current
  BY <1>2 DEF RolledBack, Same
<1>3. CASE s.current
  <2>1. n \in DOMAIN s.queue /\ t \in EntryType /\ EntryOK(t) /\ Usable(t) /\ s.queue # <<>> /\ t.tx
    BY <1>1, <1>3, EntryTyped DEF Sound, LastUsable, Usable
  <2>2. CASE t.state = "Idle"
    <3> DEFINE u == [s EXCEPT !.queue[n].failed = TRUE]
               v == Settled(u, n)
               w == Settled(s, n)
    <3>1. r = CheckDone(v)
      BY <1>3, <2>2, ResultSettles DEF RolledBack
    <3>2. /\ Sound(w) /\ ~w.current /\ w.queue = RemoveAt(s.queue, n)
          /\ w.error = (s.error \/ s.queue[n].failed)
          /\ \A f \in DOMAIN s \ {"queue", "error", "transactions", "current"} : w[f] = s[f]
      BY <2>1, LastSettled
    <3>3. v = w
      <4> DEFINE e == [t EXCEPT !.failed = TRUE]
                 q == [s.queue EXCEPT ![n] = e]
      <4>1. e \in EntryType /\ e.failed
        BY <2>1 DEF EntryType
      <4>2. /\ q \in Seq(EntryType) /\ Len(q) = n /\ n \in Nat \ {0} /\ q[n] = e
            /\ \A k \in 1 .. n : k # n => q[k] = s.queue[k]
        <5> HIDE DEF e
        <5> QED BY <1>1, <2>1, <4>1
      <4>3. u = [s EXCEPT !.queue = q]
        BY <1>1 DEF SyncType
      <4>4. RemoveAt(q, n) = RemoveAt(s.queue, n)
        <5> DEFINE a == RemoveAt(q, n)
                   b == RemoveAt(s.queue, n)
        <5>1. /\ a \in Seq(EntryType) /\ Len(a) = n - 1 /\ \A k \in 1 .. n - 1 : a[k] = q[k]
          <6> HIDE DEF q
          <6> QED BY <4>2, LastRemoved
        <5>2. /\ b \in Seq(EntryType) /\ Len(b) = n - 1
              /\ \A k \in 1 .. n - 1 : b[k] = s.queue[k]
          BY <1>1, <2>1, LastRemoved
        <5>3. \A k \in 1 .. n - 1 : k \in 1 .. n /\ k # n
          BY <4>2
        <5>4. \A k \in 1 .. n - 1 : a[k] = b[k]
          <6> HIDE DEF a, b, q
          <6> QED BY <4>2, <5>1, <5>2, <5>3
        <5> HIDE DEF a, b
        <5>5. a = [k \in 1 .. n - 1 |-> a[k]] /\ b = [k \in 1 .. n - 1 |-> b[k]]
          BY <5>1, <5>2
        <5>6. a = b
          BY <5>4, <5>5
        <5> QED BY <5>6 DEF a, b
      <4> HIDE DEF q, e
      <4>5. /\ u.queue = q /\ u.error = s.error /\ u.transactions = s.transactions
            /\ u.current = s.current
        BY <1>1, <4>3 DEF SyncType
      <4>6. v = [u EXCEPT !.queue = RemoveAt(q, n), !.error = TRUE,
                          !.transactions = s.transactions - 1, !.current = FALSE]
        <5> HIDE DEF u
        <5> QED BY <4>2, <4>5, <4>1 DEF Settled
      <4>7. w = [s EXCEPT !.queue = RemoveAt(s.queue, n), !.error = TRUE,
                          !.transactions = s.transactions - 1, !.current = FALSE]
        BY DEF Settled
      <4> HIDE DEF u, v, w
      <4> QED BY <1>1, <4>3, <4>4, <4>6, <4>7 DEF SyncType
    <3>4. w.results = 0 /\ ~w.delivered
      BY <1>1, <1>3, <3>2 DEF SyncType
    <3>5. r = w
      <4> HIDE DEF r, v, w
      <4> QED BY <3>1, <3>3, <3>4 DEF CheckDone
    <3>6. t.jobs = <<>> /\ ~t.failed
      <4>1. t.tx /\ t.state = "Idle" /\ EntryOK(t) /\ t.failed \in BOOLEAN
        BY <2>1, <2>2 DEF Usable, EntryType
      <4>2. t.jobs = <<>> /\ (t.failed <=> HasKind(t.jobs, "rollback"))
        BY <4>1 DEF EntryOK
      <4>3. ~HasKind(<<>>, "rollback")
        BY DEF HasKind
      <4> QED BY <4>1, <4>2, <4>3
    <3>7. Same(s.queue, w.queue)
      <4> DEFINE x == RemoveAt(s.queue, n)
      <4>1. /\ \A k \in 1 .. n - 1 : x[k] = s.queue[k]
            /\ x \in Seq(EntryType) /\ Len(x) = n - 1
            /\ Places(s.queue) = Places(x) \cup ({n} \X Changes(t.jobs))
        BY <1>1, <2>1, LastRemoved
      <4>2. {n} \X Changes(t.jobs) = {}
        BY <3>6, ChangesOfNone
      <4>3. Places(x) = Places(s.queue)
        BY <4>1, <4>2
      <4> HIDE DEF x
      <4> SUFFICES ASSUME NEW p \in Places(s.queue) PROVE JobAt(x, p) = JobAt(s.queue, p)
        BY <4>3, <3>2 DEF Same, x
      <4>4. p \in Places(x)
        BY <4>3
      <4>5. p[1] \in DOMAIN x
        BY <4>4, InPlaces
      <4>6. p[1] \in 1 .. n - 1
        BY <4>1, <4>5
      <4> QED BY <4>1, <4>6 DEF JobAt
    <3>8. w.error
      BY <3>2
    <3> HIDE DEF r, v, w, u
    <3> QED BY <1>3, <2>1, <2>2, <3>2, <3>4, <3>5, <3>7, <3>8 DEF r
  <2>3. CASE t.state # "Idle"
    <3> DEFINE a == Added(t, <<Rollback>>)
               e == [a EXCEPT !.failed = TRUE]
               q == [s.queue EXCEPT ![n] = e]
    <3>1. r = [s EXCEPT !.queue[n] = e]
      BY <1>3, <2>3 DEF RolledBack
    <3>2. Rollback \in {Commit, Rollback} /\ Rollback.kind = "rollback"
      BY DEF Rollback, Job
    <3>3. /\ a \in EntryType /\ a.tx /\ a.state = "Running"
          /\ Changes(a.jobs) = Changes(t.jobs)
          /\ \A j \in Changes(a.jobs) : a.jobs[j] = t.jobs[j]
          /\ \A kind \in {"list", "commit", "rollback"} :
                 HasKind(a.jobs, kind) <=> HasKind(t.jobs, kind) \/ kind = Rollback.kind
      <4>1. t \in EntryType /\ t.tx /\ EntryOK(t)
        BY <2>1
      <4> HIDE DEF t
      <4> QED BY <3>2, <4>1, AddedNone
    <3> HIDE DEF a
    <3>4. e \in EntryType /\ e.tx /\ e.failed /\ e.state = "Running" /\ e.jobs = a.jobs
      BY <3>3 DEF EntryType
    <3>5. ~HasKind(t.jobs, "list") /\ ~HasKind(t.jobs, "commit")
      BY <2>1 DEF EntryOK, Usable
    <3> HIDE DEF e
    <3>6. EntryOK(e) /\ Usable(e)
      <4>1. /\ HasKind(e.jobs, "rollback") /\ ~HasKind(e.jobs, "list")
            /\ ~HasKind(e.jobs, "commit")
        BY <3>2, <3>3, <3>4, <3>5
      <4> QED BY <3>4, <4>1 DEF EntryOK, Usable
    <3>7. q \in Seq(EntryType)
      BY <1>1, <2>1, <3>4
    <3> HIDE DEF q
    <3>8. r = [s EXCEPT !.queue = q]
      BY <1>1, <3>1 DEF SyncType, q
    <3>9. /\ r \in SyncType /\ r.queue = q
          /\ \A f \in DOMAIN s \ {"queue"} : r[f] = s[f]
          /\ r.listed = s.listed /\ r.pending = s.pending /\ r.transactions = s.transactions
          /\ r.results = s.results /\ r.delivered = s.delivered /\ r.current = s.current
          /\ r.error = s.error
      <4> HIDE DEF r
      <4> QED BY <1>1, <3>7, <3>8 DEF SyncType
    <3>10. Sound(r) /\ Same(s.queue, r.queue)
      <4>1. /\ s.queue # <<>> /\ n = Len(s.queue) /\ s.queue[n].tx
            /\ Changes(e.jobs) = Changes(s.queue[n].jobs)
            /\ \A j \in Changes(e.jobs) : e.jobs[j] = s.queue[n].jobs[j]
            /\ r.queue = [s.queue EXCEPT ![n] = e]
        BY <2>1, <3>3, <3>4, <3>9 DEF q
      <4> HIDE DEF n, t, r
      <4> QED BY <3>4, <3>6, <3>9, <4>1, LastChanged
    <3> HIDE DEF r
    <3> QED BY <1>3, <2>1, <2>3, <3>9, <3>10 DEF r, q, e, a
  <2> QED BY <2>2, <2>3
<1> QED BY <1>2, <1>3

\* The first entry is exchanged for another one of the same kind, and the changes
\* that are in it no more were counted.
LEMMA FirstChanged ==
    ASSUME NEW s, Sound(s), s.queue # <<>>, s.queue[1].tx,
           NEW e \in EntryType, e.tx, EntryOK(e),
           s.queue[1].state # "Waiting" /\ Usable(s.queue[1]) => Usable(e),
           NEW c \in Nat,
           c + Cardinality(Changes(e.jobs)) = Cardinality(Changes(s.queue[1].jobs)),
           NEW r, r = [s EXCEPT !.queue = [s.queue EXCEPT ![1] = e], !.pending = s.pending - c]
    PROVE  /\ Sound(r) /\ (Exact(s) => Exact(r))
           /\ r.queue = [s.queue EXCEPT ![1] = e]
           /\ \A f \in DOMAIN s \ {"queue", "pending"} : r[f] = s[f]
<1> DEFINE q == [s.queue EXCEPT ![1] = e]
           a == Cardinality(Changes(s.queue[1].jobs))
           b == Cardinality(Changes(e.jobs))
<1>1. s \in SyncType /\ s.queue \in Seq(EntryType) /\ 1 \in DOMAIN s.queue /\ s.pending \in Nat
  BY SyncFields DEF Sound
<1>2. /\ q \in Seq(EntryType) /\ Len(q) = Len(s.queue) /\ DOMAIN q = DOMAIN s.queue
      /\ \A k \in DOMAIN q : q[k] = IF k = 1 THEN e ELSE s.queue[k]
  BY <1>1
<1>3. /\ Cardinality(Places(q)) = Cardinality(Places(s.queue)) - a + b
      /\ Transactions(q) = Transactions(s.queue)
  BY <1>1, EntryExchanged
<1>4. a \in Nat /\ b \in Nat /\ Cardinality(Places(q)) \in Nat /\ Cardinality(Places(s.queue)) \in Nat
  BY <1>1, <1>2, EntryTyped, ChangesFinite, PlacesFinite DEF EntryType
<1>5. \A k \in DOMAIN q : EntryOK(q[k])
  BY <1>2 DEF Sound
<1>6. s.current => LastUsable(q)
  BY <1>1, <1>2 DEF LastUsable, Sound, Usable
<1> HIDE DEF q, a, b
<1>7. c + b = a /\ Cardinality(Places(s.queue)) <= s.pending
  BY DEF a, b, Sound
<1>8. /\ Cardinality(Places(q)) <= s.pending - c /\ s.pending - c \in Nat
      /\ Exact(s) => s.pending - c = Cardinality(Places(q))
  <2> DEFINE x == Cardinality(Places(q))
             y == Cardinality(Places(s.queue))
  <2>1. /\ x = y - a + b /\ x \in Nat /\ y \in Nat /\ y <= s.pending
        /\ Exact(s) => s.pending = y
    BY <1>3, <1>4, <1>7 DEF Exact
  <2> HIDE DEF x, y
  <2>2. /\ x <= s.pending - c /\ s.pending - c \in Nat
        /\ s.pending = y => s.pending - c = x
    <3> DEFINE z == s.pending
    <3>1. /\ z \in Nat /\ y <= z /\ a \in Nat /\ b \in Nat /\ x = y - a + b /\ c + b = a
          /\ x \in Nat /\ y \in Nat
      BY <1>1, <1>4, <1>7, <2>1
    <3> HIDE DEF z
    <3>2. x = y - c
      BY <3>1
    <3> QED BY <3>1, <3>2 DEF z
  <2> QED BY <2>1, <2>2 DEF x
<1>9. r = [s EXCEPT !.queue = q, !.pending = s.pending - c]
  BY DEF q
<1>10. /\ r \in SyncType /\ r.queue = q /\ r.pending = s.pending - c
       /\ \A f \in DOMAIN s \ {"queue", "pending"} : r[f] = s[f]
       /\ r.listed = s.listed /\ r.transactions = s.transactions
       /\ r.results = s.results /\ r.delivered = s.delivered /\ r.current = s.current
  BY <1>1, <1>2, <1>8, <1>9 DEF SyncType
<1>11. s.results > 0 => FALSE
  BY DEF Sound
<1>12. Sound(r)
  BY <1>3, <1>5, <1>6, <1>8, <1>10, <1>11 DEF Sound
<1> QED BY <1>8, <1>10, <1>12 DEF Exact, q

\* A job without transaction has its answer.
LEMMA PlainAnswered ==
    ASSUME NEW s, Sound(s), s.queue # <<>>, ~s.queue[1].tx, NEW err \in BOOLEAN,
           NEW r, r = [s EXCEPT !.queue = Tail(s.queue), !.error = err, !.pending = s.pending - 1]
    PROVE  /\ Sound(r) /\ (Exact(s) => Exact(r)) /\ r.queue = Tail(s.queue)
           /\ \A f \in DOMAIN s \ {"queue", "pending", "error"} : r[f] = s[f]
<1> DEFINE q == Tail(s.queue)
           n == Len(s.queue)
<1>1. s \in SyncType /\ s.queue \in Seq(EntryType) /\ 1 \in DOMAIN s.queue /\ s.pending \in Nat
  BY SyncFields DEF Sound
<1>2. Cardinality(Changes(s.queue[1].jobs)) = 1
  <2>1. s.queue[1].jobs \in Seq(JobType) /\ Len(s.queue[1].jobs) = 1 /\ IsChange(s.queue[1].jobs[1])
    BY <1>1, EntryTyped DEF Sound, EntryOK
  <2>2. Changes(s.queue[1].jobs) = {1}
    BY <2>1 DEF Changes
  <2> QED BY <2>2, FS_Singleton
<1>3. /\ q \in Seq(EntryType) /\ Len(q) = n - 1 /\ n \in Nat \ {0}
      /\ \A k \in 1 .. n - 1 : q[k] = s.queue[k + 1]
      /\ Cardinality(Places(q)) = Cardinality(Places(s.queue)) - 1
      /\ Cardinality(Transactions(q)) = Cardinality(Transactions(s.queue))
  <2>1. /\ q \in Seq(EntryType) /\ Len(q) = n - 1
        /\ \A k \in 1 .. n - 1 : q[k] = s.queue[k + 1]
        /\ Cardinality(Places(q)) =
               Cardinality(Places(s.queue)) - Cardinality(Changes(s.queue[1].jobs))
        /\ Cardinality(Transactions(q)) = Cardinality(Transactions(s.queue)) - 0
    BY <1>1, FirstRemoved
  <2>2. n \in Nat \ {0} /\ Cardinality(Transactions(s.queue)) \in Nat
    BY <1>1, PlacesFinite
  <2> QED BY <1>2, <2>1, <2>2
<1>4. Cardinality(Places(q)) \in Nat /\ Cardinality(Places(s.queue)) \in Nat
  BY <1>1, <1>3, PlacesFinite
<1> HIDE DEF q, n
<1>5. /\ s.pending - 1 \in Nat /\ Cardinality(Places(q)) <= s.pending - 1
      /\ Exact(s) => s.pending - 1 = Cardinality(Places(q))
  <2>1. Cardinality(Places(s.queue)) <= s.pending
    BY DEF Sound
  <2> QED BY <1>1, <1>3, <1>4, <2>1 DEF Exact
<1>6. \A k \in DOMAIN q : EntryOK(q[k])
  <2>1. \A k \in 1 .. n - 1 : k + 1 \in DOMAIN s.queue
    BY <1>1, <1>3 DEF n
  <2> QED BY <1>3, <2>1 DEF Sound
<1>7. s.current => LastUsable(q)
  <2> SUFFICES ASSUME s.current PROVE LastUsable(q)
    OBVIOUS
  <2>1. Usable(s.queue[n])
    BY DEF Sound, LastUsable, n
  <2>2. n # 1
    BY <2>1 DEF Usable
  <2>3. n - 1 \in 1 .. n - 1 /\ (n - 1) + 1 = n
    BY <1>3, <2>2
  <2>4. q # <<>> /\ q[Len(q)] = s.queue[n]
    BY <1>3, <2>3
  <2> QED BY <2>1, <2>4 DEF LastUsable
<1>8. r = [s EXCEPT !.queue = q, !.error = err, !.pending = s.pending - 1]
  BY DEF q
<1>9. /\ r \in SyncType /\ r.queue = q /\ r.pending = s.pending - 1
      /\ \A f \in DOMAIN s \ {"queue", "pending", "error"} : r[f] = s[f]
      /\ r.listed = s.listed /\ r.transactions = s.transactions
      /\ r.results = s.results /\ r.delivered = s.delivered /\ r.current = s.current
  BY <1>1, <1>3, <1>5, <1>8 DEF SyncType
<1>10. s.results > 0 => FALSE
  BY DEF Sound
<1>11. Sound(r)
  BY <1>3, <1>5, <1>6, <1>7, <1>9, <1>10 DEF Sound
<1> QED BY <1>5, <1>9, <1>11 DEF Exact, q

\* What is left of the fields after execute().
LEMMA ExecuteFields ==
    ASSUME NEW s, Sound(s), s.results = 0
    PROVE  LET r == Execute(s) IN
           /\ Sound(r)
           /\ r.delivered = s.delivered /\ r.error = s.error /\ r.arrived = {}
           /\ s.delivered => ~r.current /\ r.local = {} /\ r.removed = {}
           /\ ~s.delivered => /\ r.local = s.local /\ r.removed = s.removed
                              /\ r.unprocessed = s.unprocessed \ s.arrived
                              /\ r.results = 0
           /\ r.unprocessed \subseteq s.unprocessed \ s.arrived
<1> DEFINE p == Begun(s)
           d == Swept(s)
           r == Execute(s)
<1>1. /\ Sound(p) /\ p.results = 0 /\ Sound(d) /\ Sound(r)
      /\ IF ~s.delivered /\ s.arrived = {} THEN r = s
         ELSE IF s.delivered THEN r = CheckDone(Committed(d))
         ELSE IF mode = "Multiple" THEN r = Committed(p) ELSE r = p
      /\ p.delivered = s.delivered /\ d.delivered = s.delivered
      /\ p.error = s.error /\ d.error = s.error
      /\ p.local = s.local /\ p.removed = s.removed
      /\ p.arrived = {} /\ d.arrived = {}
      /\ p.unprocessed = s.unprocessed \ s.arrived
      /\ d.local = {} /\ d.removed = {}
      /\ d.unprocessed = IF form = "full" THEN {} ELSE p.unprocessed
  BY ExecuteSteps
<1> HIDE DEF p, d, r
<1>2. ASSUME NEW x, Sound(x)
      PROVE  LET c == Committed(x) IN
             /\ Sound(c) /\ ~c.current /\ c.error = x.error /\ c.arrived = x.arrived
             /\ c.delivered = x.delivered /\ c.local = x.local /\ c.removed = x.removed
             /\ c.unprocessed = x.unprocessed
             /\ x.results = 0 /\ ~x.delivered => c.results = 0
  <2> DEFINE c == Committed(x)
  <2>1. /\ Sound(c) /\ ~c.current /\ c.error = x.error
        /\ \A f \in DOMAIN x \ {"queue", "transactions", "current", "error", "results"} :
               c[f] = x[f]
    BY <1>2, CommittedSound
  <2>2. x \in SyncType /\ c \in SyncType
    BY <1>2, <2>1 DEF Sound
  <2> HIDE DEF c
  <2>3. /\ c.arrived = x.arrived
        /\ c.delivered = x.delivered /\ c.local = x.local /\ c.removed = x.removed
        /\ c.unprocessed = x.unprocessed
    BY <2>1, <2>2 DEF SyncType
  <2>4. ~x.delivered => c.results = 0
    BY <2>1, <2>2, <2>3, SyncFields DEF Sound
  <2> QED BY <2>1, <2>3, <2>4 DEF c
<1>3. ASSUME NEW x, Sound(x)
      PROVE  LET c == CheckDone(x) IN
             /\ Sound(c) /\ c.current = x.current /\ c.error = x.error /\ c.arrived = x.arrived
             /\ c.delivered = x.delivered /\ c.local = x.local /\ c.removed = x.removed
             /\ c.unprocessed = x.unprocessed
  <2>1. /\ Sound(CheckDone(x)) /\ x \in SyncType
        /\ CheckDone(x) = x \/ CheckDone(x) = [x EXCEPT !.results = 1]
    BY <1>3, CheckDoneSound DEF Sound
  <2> QED BY <2>1 DEF SyncType
<1>4. CASE ~s.delivered /\ s.arrived = {}
  <2>1. r = s /\ Sound(s) /\ s.unprocessed = s.unprocessed \ s.arrived
    BY <1>1, <1>4
  <2>2. Execute(s) = s
    BY <2>1 DEF r
  <2> QED BY <1>4, <2>1, <2>2
<1>5. CASE s.delivered
  <2> DEFINE c == Committed(d)
  <2>1. /\ Sound(c) /\ ~c.current /\ c.error = d.error /\ c.arrived = d.arrived
        /\ c.delivered = d.delivered /\ c.local = d.local /\ c.removed = d.removed
        /\ c.unprocessed = d.unprocessed
    BY <1>1, <1>2
  <2>2. r = CheckDone(c)
    BY <1>1, <1>5
  <2> HIDE DEF c
  <2>3. /\ Sound(r) /\ r.current = c.current /\ r.error = c.error /\ r.arrived = c.arrived
        /\ r.delivered = c.delivered /\ r.local = c.local /\ r.removed = c.removed
        /\ r.unprocessed = c.unprocessed
    BY <1>3, <2>1, <2>2
  <2>4. r.unprocessed \subseteq s.unprocessed \ s.arrived
    BY <1>1, <2>1, <2>3
  <2> QED BY <1>1, <1>5, <2>1, <2>3, <2>4 DEF r
<1>6. CASE ~s.delivered /\ s.arrived # {}
  <2>1. r = Committed(p) \/ r = p
    BY <1>1, <1>6
  <2>2. /\ r.error = p.error /\ r.arrived = p.arrived
        /\ r.delivered = p.delivered /\ r.local = p.local /\ r.removed = p.removed
        /\ r.unprocessed = p.unprocessed /\ r.results = 0
    BY <1>1, <1>2, <1>6, <2>1
  <2> QED BY <1>1, <1>6, <2>2 DEF r
<1> QED BY <1>4, <1>5, <1>6

----------------------------------------------------------------------------
(* The invariant of the counters                                           *)

\* nothing but the list is waited for
Unlisted(s) ==
    /\ s \in SyncType /\ ~s.listed /\ s.queue = <<Plain(Job("list", {}))>>
    /\ s.pending = 0 /\ s.transactions = 0 /\ ~s.current /\ s.results = 0

\* ItemSync at any time: nothing is added to after the delivery.
Kept(s) == (IF s.listed THEN Sound(s) ELSE Unlisted(s)) /\ (s.delivered => ~s.current)

CountInv == TypeOK /\ Kept(sync) /\ (~orphaned => Exact(sync))

\* Before the local items are listed, no change is queued.
LEMMA UnlistedExact ==
    ASSUME NEW s, Unlisted(s)
    PROVE  Exact(s)
<1>1. s.queue = <<Plain(Job("list", {}))>> /\ s.pending = 0
  BY DEF Unlisted
<1>2. DOMAIN s.queue = {1} /\ Changes(s.queue[1].jobs) = {}
  BY <1>1 DEF Plain, Job, Changes, IsChange
<1>3. Places(s.queue) = {}
  BY <1>2 DEF Places
<1> QED BY <1>1, <1>3, FS_EmptySet DEF Exact

\* Other fields than those of the queue are set, as long as there is no result.
LEMMA OthersSet ==
    ASSUME NEW s, Kept(s), s.results = 0, NEW u \in SyncType,
           u.queue = s.queue, u.pending = s.pending, u.transactions = s.transactions,
           u.current = s.current, u.listed = s.listed, u.results = s.results
    PROVE  /\ s.listed => Sound(s) /\ Sound(u)
           /\ ~s.listed => Unlisted(s) /\ Unlisted(u)
           /\ Exact(s) <=> Exact(u)
  BY DEF Kept, Sound, Unlisted, Exact

\* execute(), before or after the list has come.
LEMMA ExecuteKept ==
    ASSUME NEW s, (s.listed /\ Sound(s)) \/ Unlisted(s), s.results = 0
    PROVE  Kept(Execute(s)) /\ (Exact(s) => Exact(Execute(s)))
<1>1. CASE s.listed
  <2>1. Sound(s)
    BY <1>1 DEF Unlisted
  <2>2. Sound(Execute(s)) /\ (s.delivered => ~Execute(s).current) /\ Execute(s).delivered = s.delivered
    BY <2>1, ExecuteFields
  <2>3. Execute(s).listed
    BY <2>2 DEF Sound
  <2> QED BY <2>1, <2>2, <2>3, ExecuteExact DEF Kept
<1>2. CASE ~s.listed
  <2>1. Unlisted(s) /\ Execute(s) = s
    BY <1>2 DEF Execute
  <2> QED BY <1>2, <2>1 DEF Kept, Unlisted
<1> QED BY <1>1, <1>2

\* checkDone() where nothing is current once everything is delivered.
LEMMA CheckDoneKept ==
    ASSUME NEW s, Sound(s), s.delivered => ~s.current
    PROVE  LET r == CheckDone(s) IN
           /\ Kept(r) /\ (Exact(s) => Exact(r)) /\ Sound(r)
           /\ r.queue = s.queue
           /\ \A f \in DOMAIN s \ {"results"} : r[f] = s[f]
<1>1. /\ Sound(CheckDone(s)) /\ s \in SyncType
      /\ CheckDone(s) = s \/ CheckDone(s) = [s EXCEPT !.results = 1]
  BY CheckDoneSound DEF Sound
<1>2. /\ CheckDone(s).queue = s.queue /\ CheckDone(s).pending = s.pending
      /\ CheckDone(s).delivered = s.delivered /\ CheckDone(s).current = s.current
      /\ \A f \in DOMAIN s \ {"results"} : CheckDone(s)[f] = s[f]
  BY <1>1 DEF SyncType
<1>3. CheckDone(s).listed
  BY <1>1 DEF Sound
<1> QED BY <1>1, <1>2, <1>3 DEF Kept, Exact

\* What Deliver does before it calls execute().
Delivering(s, chunk, removed, last) ==
    [s EXCEPT !.arrived = s.arrived \cup chunk, !.removed = s.removed \cup removed,
              !.delivered = s.delivered \/ last]

\* Deliver hands the items over to execute().
LEMMA DeliverKept ==
    ASSUME CountInv, NEW chunk \in Chunk, NEW removed \in SUBSET Item, NEW last \in BOOLEAN,
           Deliver(chunk, removed, last)
    PROVE  /\ Kept(sync') /\ (Exact(sync) => Exact(sync'))
           /\ LET u == Delivering(sync, chunk, removed, last)
              IN  /\ sync' = Execute(u) /\ u.results = 0
                  /\ sync.listed => Sound(u)
                  /\ ~sync.listed => sync' = u
<1> DEFINE del == sync.delivered \/ last
           arr == sync.arrived \cup chunk
           rem == sync.removed \cup removed
           u == [sync EXCEPT !.arrived = arr, !.removed = rem, !.delivered = del]
<1>1. Kept(sync) /\ sync \in SyncType /\ sync.results = 0 /\ sync' = Execute(u) /\ chunk \subseteq Item
  BY DEF CountInv, TypeOK, Deliver, Chunk
<1>2. del \in BOOLEAN /\ arr \subseteq Item /\ rem \subseteq Item
  BY <1>1, SyncFields
<1> HIDE DEF del, arr, rem
<1>3. /\ u \in SyncType
      /\ u.queue = sync.queue /\ u.pending = sync.pending /\ u.transactions = sync.transactions
      /\ u.current = sync.current /\ u.listed = sync.listed /\ u.results = sync.results
  BY <1>1, <1>2 DEF SyncType
<1> HIDE DEF u
<1>4. /\ sync.listed => Sound(u)
      /\ ~sync.listed => Unlisted(u)
      /\ Exact(sync) <=> Exact(u)
  BY <1>1, <1>3, OthersSet
<1>5. Kept(sync') /\ (Exact(sync) => Exact(sync'))
  BY <1>1, <1>3, <1>4, ExecuteKept
<1>6. ~sync.listed => sync' = u
  BY <1>1, <1>3 DEF Execute
<1> QED BY <1>1, <1>3, <1>4, <1>5, <1>6 DEF u, del, arr, rem, Delivering

\* DeliveryDone does so without items.
LEMMA DeliveryDoneKept ==
    ASSUME CountInv, DeliveryDone
    PROVE  /\ Kept(sync') /\ (Exact(sync) => Exact(sync'))
           /\ LET u == [sync EXCEPT !.delivered = TRUE]
              IN  /\ sync' = Execute(u) /\ u.results = 0
                  /\ sync.listed => Sound(u)
                  /\ ~sync.listed => sync' = u
<1> DEFINE u == [sync EXCEPT !.delivered = TRUE]
<1>1. Kept(sync) /\ sync \in SyncType /\ sync.results = 0 /\ sync' = Execute(u)
  BY DEF CountInv, TypeOK, DeliveryDone
<1>3. /\ u \in SyncType
      /\ u.queue = sync.queue /\ u.pending = sync.pending /\ u.transactions = sync.transactions
      /\ u.current = sync.current /\ u.listed = sync.listed /\ u.results = sync.results
  BY <1>1 DEF SyncType
<1> HIDE DEF u
<1>4. /\ sync.listed => Sound(u)
      /\ ~sync.listed => Unlisted(u)
      /\ Exact(sync) <=> Exact(u)
  BY <1>1, <1>3, OthersSet
<1>5. Kept(sync') /\ (Exact(sync) => Exact(sync'))
  BY <1>1, <1>3, <1>4, ExecuteKept
<1>6. ~sync.listed => sync' = u
  BY <1>1, <1>3 DEF Execute
<1> QED BY <1>1, <1>3, <1>4, <1>5, <1>6 DEF u

\* What Cancel does before it calls execute().
Failing(s)  == [s EXCEPT !.error = TRUE]
Cancelling(s) == [RolledBack(Failing(s)) EXCEPT !.delivered = TRUE]

\* Cancel sets the error and rolls back before execute() is called.
LEMMA CancelKept ==
    ASSUME CountInv, Cancel
    PROVE  /\ Kept(sync') /\ (Exact(sync) => Exact(sync'))
           /\ LET a == Failing(sync)
                  u == Cancelling(sync)
              IN  /\ sync' = Execute(u) /\ u.results = 0
                  /\ a \in SyncType /\ u \in SyncType
                  /\ \A f \in DOMAIN sync \ {"error"} : a[f] = sync[f]
                  /\ a.error /\ a.results = 0 /\ (a.delivered => ~a.current)
                  /\ u.delivered /\ u.error
                  /\ sync.listed => Sound(a) /\ Sound(u) /\ Same(sync.queue, u.queue)
                                    /\ \A f \in DOMAIN sync \ {"delivered"} : u[f] = RolledBack(a)[f]
                  /\ ~sync.listed => sync' = u /\ u = [a EXCEPT !.delivered = TRUE]
<1> DEFINE a == Failing(sync)
           b == RolledBack(a)
           u == Cancelling(sync)
<1>1. /\ Kept(sync) /\ sync \in SyncType /\ sync.results = 0 /\ sync' = Execute(u)
      /\ sync.delivered => ~sync.current
  BY DEF CountInv, TypeOK, Cancel, Failing, Cancelling, Kept
<1>2. /\ a \in SyncType /\ a.error
      /\ a.queue = sync.queue /\ a.pending = sync.pending /\ a.transactions = sync.transactions
      /\ a.current = sync.current /\ a.listed = sync.listed /\ a.results = sync.results
      /\ a.delivered = sync.delivered
      /\ \A f \in DOMAIN sync \ {"error"} : a[f] = sync[f]
  BY <1>1 DEF SyncType, Failing
<1>3. u = [b EXCEPT !.delivered = TRUE]
  BY DEF Cancelling
<1> HIDE DEF a, u
<1>4. /\ sync.listed => Sound(a)
      /\ ~sync.listed => Unlisted(a)
      /\ Exact(sync) <=> Exact(a)
  BY <1>1, <1>2, OthersSet
<1>5. CASE ~sync.listed
  <2>1. ~a.current
    BY <1>4, <1>5 DEF Unlisted
  <2>2. b = a
    BY <2>1 DEF RolledBack
  <2> HIDE DEF b
  <2>3. /\ u \in SyncType
        /\ u.queue = sync.queue /\ u.pending = sync.pending /\ u.transactions = sync.transactions
        /\ u.current = sync.current /\ u.listed = sync.listed /\ u.results = sync.results
        /\ u.delivered /\ u.error
    BY <1>2, <1>3, <2>2 DEF SyncType
  <2>4. Unlisted(u) /\ (Exact(sync) <=> Exact(u))
    BY <1>1, <1>5, <2>3, OthersSet
  <2>5. Kept(sync') /\ (Exact(sync) => Exact(sync')) /\ sync' = u
    BY <1>1, <1>5, <2>3, <2>4, ExecuteKept DEF Execute
  <2> QED BY <1>1, <1>2, <1>3, <1>5, <2>2, <2>3, <2>5 DEF a, u
<1>6. CASE sync.listed
  <2>1. /\ Sound(b) /\ b.results = 0 /\ Same(a.queue, b.queue) /\ b.error
        /\ \A f \in DOMAIN a \ {"queue", "transactions", "current", "error"} : b[f] = a[f]
    BY <1>1, <1>2, <1>4, <1>6, RolledBackSound
  <2>2. b \in SyncType /\ b.listed
    BY <2>1 DEF Sound
  <2> HIDE DEF b
  <2>3. b.pending = a.pending
    BY <1>2, <2>1 DEF SyncType
  <2>4. /\ u \in SyncType /\ u.queue = b.queue /\ u.pending = b.pending
        /\ u.transactions = b.transactions /\ u.current = b.current /\ u.listed = b.listed
        /\ u.results = b.results /\ u.delivered /\ u.error = b.error
        /\ \A f \in DOMAIN sync \ {"delivered"} : u[f] = b[f]
    BY <1>1, <1>3, <2>2 DEF SyncType
  <2>5. Sound(u)
    BY <2>1, <2>4 DEF Sound
  <2>6. Exact(sync) => Exact(u)
    BY <1>2, <2>1, <2>3, <2>4 DEF Exact, Same
  <2>7. Kept(sync') /\ (Exact(sync) => Exact(sync'))
    BY <1>1, <2>1, <2>2, <2>4, <2>5, <2>6, ExecuteKept
  <2> QED BY <1>1, <1>2, <1>4, <1>6, <2>1, <2>4, <2>5, <2>7 DEF a, u, b
<1> QED BY <1>5, <1>6

\* The server answers the first job of the first entry: the list at first, what
\* is in a transaction, or a change.
LEMMA Answered ==
    ASSUME CountInv, Waits
    PROVE  /\ sync \in SyncType /\ sync.queue \in Seq(EntryType) /\ sync.queue # <<>>
           /\ 1 \in DOMAIN sync.queue /\ sync.results = 0
           /\ Entry = sync.queue[1] /\ Entry \in EntryType
           /\ Entry.jobs \in Seq(JobType) /\ Entry.jobs # <<>> /\ 1 \in DOMAIN Entry.jobs
           /\ Current = Entry.jobs[1] /\ Current \in JobType
           /\ sync.delivered => ~sync.current
           /\ sync.listed => Sound(sync) /\ EntryOK(Entry) /\ Current.kind # "list"
           /\ ~sync.listed => Unlisted(sync) /\ ~Entry.tx /\ Current.kind = "list"
<1>1. Kept(sync) /\ sync \in SyncType /\ sync.queue \in Seq(EntryType) /\ sync.queue # <<>>
  BY SyncFields DEF CountInv, TypeOK, Waits
<1>2. 1 \in DOMAIN sync.queue /\ Entry = sync.queue[1]
  BY <1>1 DEF Entry
<1>3. Entry \in EntryType /\ Entry.jobs \in Seq(JobType)
  BY <1>1, <1>2, EntryTyped
<1>4. Entry.jobs # <<>>
  BY DEF Entry, Waits
<1>5. 1 \in DOMAIN Entry.jobs /\ Current = Entry.jobs[1] /\ Current \in JobType
  BY <1>3, <1>4 DEF Current
<1>6. sync.results = 0
  BY <1>1, SyncFields DEF Kept, Sound, Unlisted
<1>7. CASE sync.listed
  <2>1. Sound(sync) /\ EntryOK(Entry)
    BY <1>1, <1>2, <1>7 DEF Kept, Sound
  <2>2. Current.kind # "list"
    BY <2>1, <1>3, <1>5 DEF EntryOK, HasKind, IsChange, EntryType
  <2> QED BY <1>1, <1>2, <1>3, <1>4, <1>5, <1>6, <1>7, <2>1, <2>2 DEF Kept
<1>8. CASE ~sync.listed
  <2>1. Unlisted(sync)
    BY <1>1, <1>8 DEF Kept
  <2>2. Entry = Plain(Job("list", {}))
    BY <2>1, <1>2 DEF Unlisted
  <2>3. ~Entry.tx /\ Current.kind = "list"
    BY <2>2, <1>5 DEF Plain, Job
  <2> QED BY <1>1, <1>2, <1>3, <1>4, <1>5, <1>6, <1>8, <2>1, <2>3 DEF Kept
<1> QED BY <1>7, <1>8, SyncFields, <1>1

\* The list has come.
LEMMA ListKept ==
    ASSUME CountInv, NEW ok \in BOOLEAN, LocalListDone(ok)
    PROVE  /\ Kept(sync') /\ Exact(sync')
           /\ ~sync.listed
           /\ LET items == IF ok THEN {i \in Item : store[i] # 0} ELSE {}
                  u == [sync EXCEPT !.queue = Tail(@), !.error = @ \/ ~ok, !.listed = TRUE,
                                    !.local = items, !.unprocessed = items] IN
              /\ sync' = Execute(u) /\ Sound(u) /\ Exact(u) /\ u.results = 0
              /\ u.queue = <<>>
<1> DEFINE items == IF ok THEN {i \in Item : store[i] # 0} ELSE {}
           err == sync.error \/ ~ok
           rest == Tail(sync.queue)
           u == [sync EXCEPT !.queue = rest, !.error = err, !.listed = TRUE,
                             !.local = items, !.unprocessed = items]
<1>1. Waits /\ Current.kind = "list" /\ sync' = Execute(u)
  BY DEF LocalListDone, Answer
<1>2. /\ sync \in SyncType /\ ~sync.listed /\ Unlisted(sync) /\ sync.results = 0
      /\ sync.queue \in Seq(EntryType)
  BY <1>1, Answered
<1>3. /\ items \subseteq Item /\ err \in BOOLEAN /\ rest = <<>>
  BY <1>2, SyncFields DEF Unlisted
<1>4. rest \in Seq(EntryType)
  <2>1. <<>> \in Seq(EntryType)
    OBVIOUS
  <2> QED BY <1>3, <2>1
<1> HIDE DEF items, err, rest
<1>5. /\ u \in SyncType /\ u.queue = <<>> /\ u.listed /\ u.pending = sync.pending
      /\ u.transactions = sync.transactions /\ u.current = sync.current /\ u.results = 0
  BY <1>2, <1>3, <1>4 DEF SyncType
<1> HIDE DEF u
<1>6. Places(u.queue) = {} /\ Transactions(u.queue) = {}
  BY <1>5 DEF Places, Transactions
<1>7. u.pending = 0 /\ u.transactions = 0 /\ ~u.current /\ Cardinality({}) = 0
  BY <1>2, <1>5, FS_EmptySet DEF Unlisted
<1>8. Sound(u) /\ Exact(u)
  <2>1. DOMAIN u.queue = {}
    BY <1>5
  <2>2. u.pending = Cardinality(Places(u.queue)) /\ u.transactions = Cardinality(Transactions(u.queue))
    BY <1>6, <1>7
  <2> QED BY <1>5, <1>6, <1>7, <2>1, <2>2 DEF Sound, Exact
<1>9. Kept(sync') /\ Exact(sync')
  BY <1>1, <1>5, <1>8, ExecuteKept
<1> QED BY <1>1, <1>2, <1>5, <1>8, <1>9 DEF u, items, err, rest

\* A change of ItemSync itself was answered.
LEMMA ChangeKept ==
    ASSUME CountInv, NEW ok \in BOOLEAN, ChangeDone(ok)
    PROVE  /\ Kept(sync') /\ (Exact(sync) => Exact(sync'))
           /\ sync.listed /\ Sound(sync)
           /\ sync'.queue = Tail(sync.queue) /\ sync'.error = (sync.error \/ ~ok)
           /\ \A f \in DOMAIN sync \ {"queue", "pending", "error", "results"} :
                  sync'[f] = sync[f]
<1> DEFINE err == sync.error \/ ~ok
           r == [sync EXCEPT !.queue = Tail(sync.queue), !.error = err,
                             !.pending = sync.pending - 1]
<1>1. Waits /\ Current.kind # "list" /\ ~Entry.tx /\ sync' = CheckDone(r)
  BY DEF ChangeDone, Answer
<1>2. /\ sync \in SyncType /\ sync.listed /\ Sound(sync) /\ sync.queue # <<>>
      /\ ~sync.queue[1].tx /\ (sync.delivered => ~sync.current)
  BY <1>1, Answered
<1>3. err \in BOOLEAN
  BY <1>2, SyncFields
<1> HIDE DEF err
<1>4. /\ Sound(r) /\ (Exact(sync) => Exact(r)) /\ r.queue = Tail(sync.queue)
      /\ \A f \in DOMAIN sync \ {"queue", "pending", "error"} : r[f] = sync[f]
  BY <1>2, <1>3, PlainAnswered
<1>5. /\ r.error = err /\ r.delivered = sync.delivered /\ r.current = sync.current
      /\ DOMAIN r = DOMAIN sync
  BY <1>2 DEF SyncType
<1> HIDE DEF r
<1>6. /\ Kept(sync') /\ (Exact(r) => Exact(sync')) /\ sync'.queue = r.queue
      /\ \A f \in DOMAIN r \ {"results"} : sync'[f] = r[f]
  BY <1>1, <1>2, <1>4, <1>5, CheckDoneKept
<1>7. sync'.error = r.error
  <2>1. "error" \in DOMAIN r \ {"results"}
    BY <1>2, <1>5 DEF SyncType
  <2> QED BY <1>6, <2>1
<1>8. \A f \in DOMAIN sync \ {"queue", "pending", "error", "results"} : sync'[f] = sync[f]
  BY <1>4, <1>5, <1>6
<1> QED BY <1>2, <1>4, <1>5, <1>6, <1>7, <1>8 DEF err

\* A sequence without its first element.
LEMMA TailShifts ==
    ASSUME NEW S, NEW q \in Seq(S), q # <<>>
    PROVE  /\ Tail(q) \in Seq(S) /\ Len(Tail(q)) = Len(q) - 1 /\ 1 \in DOMAIN q
           /\ \A k \in DOMAIN Tail(q) : k + 1 \in DOMAIN q /\ Tail(q)[k] = q[k + 1]
           /\ \A k \in DOMAIN q : k # 1 => k - 1 \in DOMAIN Tail(q) /\ Tail(q)[k - 1] = q[k]
<1>1. /\ Tail(q) \in Seq(S) /\ Len(Tail(q)) = Len(q) - 1 /\ Len(q) \in Nat \ {0}
      /\ DOMAIN q = 1 .. Len(q) /\ DOMAIN Tail(q) = 1 .. Len(q) - 1
  OBVIOUS
<1>2. \A k \in 1 .. Len(q) - 1 : Tail(q)[k] = q[k + 1]
  BY <1>1
<1>3. \A k \in 1 .. Len(q) : k # 1 => k - 1 \in 1 .. Len(q) - 1 /\ (k - 1) + 1 = k
  BY <1>1
<1>4. \A k \in DOMAIN q : k # 1 => k - 1 \in DOMAIN Tail(q) /\ Tail(q)[k - 1] = q[k]
  <2>1. SUFFICES ASSUME NEW k \in DOMAIN q, k # 1
                 PROVE  k - 1 \in DOMAIN Tail(q) /\ Tail(q)[k - 1] = q[k]
    OBVIOUS
  <2>2. k - 1 \in 1 .. Len(q) - 1 /\ (k - 1) + 1 = k
    BY <1>1, <1>3, <2>1
  <2>3. Tail(q)[k - 1] = q[(k - 1) + 1]
    BY <1>2, <2>2
  <2> QED BY <1>1, <2>2, <2>3
<1>5. \A k \in 1 .. Len(q) - 1 : k + 1 \in 1 .. Len(q)
  BY <1>1
<1> QED BY <1>1, <1>2, <1>4, <1>5

\* The first entry of the queue after a job of it was answered.
Remaining(t) == [t EXCEPT !.jobs = Tail(@)]

GoneOn(t) == IF Tail(t.jobs) = <<>> /\ t.state = "Waiting" THEN Added(Remaining(t), <<Commit>>)
             ELSE Remaining(t)

\* A transaction that goes on with its next job.
LEMMA GoneOnSound ==
    ASSUME NEW t \in EntryType, t.tx, EntryOK(t), t.jobs # <<>>,
           t.jobs[1].kind \notin {"commit", "rollback"}
    PROVE  LET e == GoneOn(t)
               c == IF IsChange(t.jobs[1]) THEN 1 ELSE 0 IN
           /\ e \in EntryType /\ e.tx /\ EntryOK(e) /\ e.failed = t.failed
           /\ t.state # "Waiting" /\ Usable(t) => Usable(e)
           /\ e.jobs = IF Tail(t.jobs) = <<>> /\ t.state = "Waiting" THEN <<Commit>>
                       ELSE Tail(t.jobs)
           /\ e.state = IF Tail(t.jobs) = <<>> /\ t.state = "Waiting" THEN "Running"
                        ELSE t.state
           /\ Changes(e.jobs) = Changes(Tail(t.jobs))
           /\ \A j \in Changes(e.jobs) : e.jobs[j] = Tail(t.jobs)[j]
           /\ c + Cardinality(Changes(e.jobs)) = Cardinality(Changes(t.jobs))
<1> DEFINE e == GoneOn(t)
           r == Remaining(t)
           rest == Tail(t.jobs)
           c == IF IsChange(t.jobs[1]) THEN 1 ELSE 0
<1>1. /\ t.jobs \in Seq(JobType) /\ rest \in Seq(JobType) /\ 1 \in DOMAIN t.jobs
      /\ Head(t.jobs) = t.jobs[1] /\ t.tx \in BOOLEAN /\ t.failed \in BOOLEAN
      /\ \A k \in DOMAIN rest : k + 1 \in DOMAIN t.jobs /\ rest[k] = t.jobs[k + 1]
      /\ \A k \in DOMAIN t.jobs : k # 1 => k - 1 \in DOMAIN rest /\ rest[k - 1] = t.jobs[k]
  <2>1. t.jobs \in Seq(JobType) /\ t.tx \in BOOLEAN /\ t.failed \in BOOLEAN
    BY DEF EntryType
  <2>2. Head(t.jobs) = t.jobs[1]
    BY <2>1
  <2> QED BY <2>1, <2>2, TailShifts
<1>2. /\ r \in EntryType /\ r.jobs = rest /\ r.tx /\ r.state = t.state /\ r.failed = t.failed
  BY <1>1 DEF Remaining, EntryType
<1> HIDE DEF r, rest, e
<1>3. \A kind \in {"commit", "rollback"} : HasKind(rest, kind) <=> HasKind(t.jobs, kind)
  <2>1. SUFFICES ASSUME NEW kind, t.jobs[1].kind # kind
                 PROVE  HasKind(rest, kind) <=> HasKind(t.jobs, kind)
    OBVIOUS
  <2>2. HasKind(rest, kind) => HasKind(t.jobs, kind)
    BY <1>1 DEF HasKind
  <2>3. HasKind(t.jobs, kind) => HasKind(rest, kind)
    BY <1>1, <2>1 DEF HasKind
  <2> QED BY <2>2, <2>3
<1>4. ~HasKind(rest, "list") /\ t.state # "Idle"
  BY <1>1 DEF EntryOK, HasKind
<1>5. ~HasKind(t.jobs, "commit")
  <2>1. SUFFICES ASSUME HasKind(t.jobs, "commit") PROVE FALSE
    OBVIOUS
  <2>2. t.jobs = <<Commit>>
    BY <2>1 DEF EntryOK
  <2> QED BY <2>2 DEF Commit, Job
<1>6. EntryOK(r) /\ (t.state # "Waiting" /\ Usable(t) => Usable(r))
  BY <1>2, <1>3, <1>4, <1>5 DEF EntryOK, Usable
<1>7. c + Cardinality(Changes(rest)) = Cardinality(Changes(t.jobs))
  <2>1. /\ Cardinality(Changes(rest)) = Cardinality(Changes(t.jobs)) - IF IsChange(t.jobs[1]) THEN 1 ELSE 0
        /\ Cardinality(Changes(t.jobs)) \in Nat /\ Cardinality(Changes(rest)) \in Nat
    BY <1>1, ChangesOfTail, ChangesFinite DEF rest
  <2> QED BY <2>1
<1>8. CASE rest = <<>> /\ t.state = "Waiting"
  <2>1. e = Added(r, <<Commit>>)
    BY <1>8 DEF e, GoneOn, r, rest
  <2>2. /\ e \in EntryType /\ e.tx /\ e.state = "Running" /\ e.failed = r.failed
        /\ e.jobs = Append(r.jobs, Commit)
        /\ Changes(e.jobs) = Changes(r.jobs)
        /\ \A j \in Changes(e.jobs) : e.jobs[j] = r.jobs[j]
        /\ \A kind \in {"list", "commit", "rollback"} :
                  HasKind(e.jobs, kind) <=> HasKind(r.jobs, kind) \/ kind = Commit.kind
    BY <1>2, <1>6, <1>8, <2>1, AddedNone
  <2>3. e.jobs = <<Commit>>
    BY <1>2, <1>8, <2>2
  <2>4. EntryOK(e)
    <3>1. ~HasKind(rest, "rollback")
      BY <1>8 DEF HasKind
    <3>2. ~r.failed
      BY <1>2, <1>3, <3>1 DEF EntryOK
    <3> QED BY <1>2, <1>4, <2>2, <2>3, <3>1, <3>2 DEF EntryOK, Commit, Job
  <2> QED BY <1>2, <1>7, <1>8, <2>2, <2>3, <2>4 DEF e, rest
<1>9. CASE ~(rest = <<>> /\ t.state = "Waiting")
  <2>1. e = r
    BY <1>9 DEF e, GoneOn, r, rest
  <2> QED BY <1>2, <1>6, <1>7, <1>9, <2>1 DEF e, rest
<1> QED BY <1>8, <1>9

\* A transaction goes on after an answer.
LEMMA GoesOnKept ==
    ASSUME CountInv, NEW ok \in BOOLEAN, TransactionGoesOn(ok)
    PROVE  /\ Kept(sync') /\ (Exact(sync) => Exact(sync'))
           /\ sync.listed /\ Sound(sync)
           /\ sync'.queue = [sync.queue EXCEPT ![1] = GoneOn(Entry)]
           /\ \A f \in DOMAIN sync \ {"queue", "pending", "results"} : sync'[f] = sync[f]
<1> DEFINE e == GoneOn(Entry)
           c == IF IsChange(Current) THEN 1 ELSE 0
           r == [sync EXCEPT !.queue = [sync.queue EXCEPT ![1] = e],
                             !.pending = sync.pending - c]
<1>1. /\ Waits /\ Current.kind \notin {"commit", "rollback"} /\ Entry.tx
      /\ sync' = CheckDone([sync EXCEPT
             !.queue[1] = IF [Entry EXCEPT !.jobs = Tail(@)].jobs = <<>>
                             /\ [Entry EXCEPT !.jobs = Tail(@)].state = "Waiting"
                          THEN Added([Entry EXCEPT !.jobs = Tail(@)], <<Commit>>)
                          ELSE [Entry EXCEPT !.jobs = Tail(@)],
             !.pending = @ - IF IsChange(Current) THEN 1 ELSE 0])
  BY DEF TransactionGoesOn, Answer
<1>2. /\ sync \in SyncType /\ sync.listed /\ Sound(sync) /\ sync.queue # <<>>
      /\ sync.queue[1] = Entry /\ Entry \in EntryType /\ EntryOK(Entry)
      /\ Entry.jobs # <<>> /\ Current = Entry.jobs[1]
      /\ (sync.delivered => ~sync.current)
  BY <1>1, Answered
<1>3. /\ [Entry EXCEPT !.jobs = Tail(@)].jobs = Tail(Entry.jobs)
      /\ [Entry EXCEPT !.jobs = Tail(@)].state = Entry.state
  BY <1>2 DEF EntryType
<1>4. sync' = CheckDone(r)
  BY <1>1, <1>3 DEF GoneOn, Remaining
<1>5. /\ e \in EntryType /\ e.tx /\ EntryOK(e)
      /\ Entry.state # "Waiting" /\ Usable(Entry) => Usable(e)
      /\ c + Cardinality(Changes(e.jobs)) = Cardinality(Changes(Entry.jobs))
  BY <1>1, <1>2, GoneOnSound
<1>6. c \in Nat
  OBVIOUS
<1> HIDE DEF e, c
<1>7. /\ Sound(r) /\ (Exact(sync) => Exact(r))
      /\ r.queue = [sync.queue EXCEPT ![1] = e]
      /\ \A f \in DOMAIN sync \ {"queue", "pending"} : r[f] = sync[f]
  BY <1>1, <1>2, <1>5, <1>6, FirstChanged
<1>8. r.delivered = sync.delivered /\ r.current = sync.current /\ DOMAIN r = DOMAIN sync
  BY <1>2 DEF SyncType
<1> HIDE DEF r
<1>9. /\ Kept(sync') /\ (Exact(r) => Exact(sync')) /\ sync'.queue = r.queue
      /\ \A f \in DOMAIN r \ {"results"} : sync'[f] = r[f]
  BY <1>2, <1>4, <1>7, <1>8, CheckDoneKept
<1>10. \A f \in DOMAIN sync \ {"queue", "pending", "results"} : sync'[f] = sync[f]
  BY <1>7, <1>8, <1>9
<1> QED BY <1>2, <1>7, <1>9, <1>10 DEF e

\* The first transaction has its result.
LEMMA EndKept ==
    ASSUME NEW s, Sound(s), s.queue # <<>>, s.queue[1].tx, s.delivered => ~s.current
    PROVE  LET r == TransactionResult(s, 1) IN
           /\ Kept(r) /\ r.queue = Tail(s.queue)
           /\ Exact(s) /\ Changes(s.queue[1].jobs) = {} => Exact(r)
           /\ r.error = (s.error \/ s.queue[1].failed)
           /\ r.current = (s.current /\ Len(s.queue) # 1)
           /\ \A f \in DOMAIN s \ {"queue", "error", "transactions", "current", "results"} :
                  r[f] = s[f]
<1> DEFINE d == Settled(s, 1)
           r == TransactionResult(s, 1)
<1>1. /\ Sound(d) /\ d.queue = Tail(s.queue)
      /\ d.error = (s.error \/ s.queue[1].failed)
      /\ d.current = (s.current /\ Len(s.queue) # 1)
      /\ \A f \in DOMAIN s \ {"queue", "error", "transactions", "current"} : d[f] = s[f]
      /\ Cardinality(Places(d.queue)) =
             Cardinality(Places(s.queue)) - Cardinality(Changes(s.queue[1].jobs))
  BY FirstSettled
<1>2. r = CheckDone(d)
  BY ResultSettles
<1> HIDE DEF d, r
<1>3. s \in SyncType /\ d \in SyncType /\ DOMAIN d = DOMAIN s
  BY <1>1 DEF Sound, SyncType
<1>4. d.delivered = s.delivered /\ d.pending = s.pending
  BY <1>1, <1>3 DEF SyncType
<1>5. Exact(s) /\ Changes(s.queue[1].jobs) = {} => Exact(d)
  <2>1. Cardinality(Places(s.queue)) \in Nat /\ Cardinality({}) = 0
    BY <1>3, SyncFields, PlacesFinite, FS_EmptySet
  <2> QED BY <1>1, <1>4, <2>1 DEF Exact
<1>6. /\ Kept(r) /\ (Exact(d) => Exact(r)) /\ r.queue = d.queue
      /\ \A f \in DOMAIN d \ {"results"} : r[f] = d[f]
  BY <1>1, <1>2, <1>4, CheckDoneKept
<1>7. r.error = d.error /\ r.current = d.current
  <2>1. {"error", "current"} \subseteq DOMAIN d \ {"results"}
    BY <1>3 DEF SyncType
  <2> QED BY <1>6, <2>1
<1>8. \A f \in DOMAIN s \ {"queue", "error", "transactions", "current", "results"} : r[f] = s[f]
  BY <1>1, <1>3, <1>6
<1> QED BY <1>1, <1>5, <1>6, <1>7, <1>8 DEF r

\* TransactionDone takes the first transaction out of the queue.
LEMMA DoneKept ==
    ASSUME CountInv, TransactionDone
    PROVE  /\ Kept(sync') /\ (~orphaned' /\ Exact(sync) => Exact(sync'))
           /\ sync.listed /\ Sound(sync)
           /\ orphaned' = (orphaned \/ Changes(Tail(Entry.jobs)) # {})
           /\ Changes(Tail(Entry.jobs)) = {} => Changes(Entry.jobs) = {}
           /\ sync'.queue = Tail(sync.queue)
           /\ sync'.error = (sync.error \/ Entry.failed)
           /\ sync'.current = (sync.current /\ Len(sync.queue) # 1)
           /\ \A f \in DOMAIN sync \ {"queue", "error", "transactions", "current", "results"} :
                  sync'[f] = sync[f]
<1>1. /\ Waits /\ Current.kind \in {"commit", "rollback"} /\ Entry.tx
      /\ sync' = TransactionResult([sync EXCEPT !.queue[1] = Entry], 1)
      /\ orphaned' = (orphaned \/ Changes(Tail(Entry.jobs)) # {})
  BY DEF TransactionDone, TransactionEnds, Answer
<1>2. /\ sync \in SyncType /\ sync.listed /\ Sound(sync) /\ sync.queue # <<>>
      /\ sync.queue \in Seq(EntryType) /\ 1 \in DOMAIN sync.queue
      /\ sync.queue[1] = Entry /\ Entry \in EntryType
      /\ Entry.jobs \in Seq(JobType) /\ Entry.jobs # <<>> /\ Current = Entry.jobs[1]
      /\ (sync.delivered => ~sync.current)
  BY <1>1, Answered
<1>3. [sync EXCEPT !.queue[1] = Entry] = sync
  <2>1. [sync.queue EXCEPT ![1] = Entry] = sync.queue
    BY <1>2
  <2> QED BY <1>2, <2>1 DEF SyncType
<1>4. Changes(Tail(Entry.jobs)) = {} => Changes(Entry.jobs) = {}
  <2>1. \A k \in DOMAIN Entry.jobs :
            k # 1 => k - 1 \in DOMAIN Tail(Entry.jobs) /\ Tail(Entry.jobs)[k - 1] = Entry.jobs[k]
    BY <1>2, TailShifts
  <2>2. ~IsChange(Entry.jobs[1])
    BY <1>1, <1>2 DEF IsChange
  <2> QED BY <2>1, <2>2 DEF Changes
<1>5. sync' = TransactionResult(sync, 1)
  BY <1>1, <1>3
<1>6. /\ Kept(sync') /\ sync'.queue = Tail(sync.queue)
      /\ Exact(sync) /\ Changes(sync.queue[1].jobs) = {} => Exact(sync')
      /\ sync'.error = (sync.error \/ sync.queue[1].failed)
      /\ sync'.current = (sync.current /\ Len(sync.queue) # 1)
      /\ \A f \in DOMAIN sync \ {"queue", "error", "transactions", "current", "results"} :
             sync'[f] = sync[f]
  <2> DEFINE r == TransactionResult(sync, 1)
  <2>1. /\ Kept(r) /\ r.queue = Tail(sync.queue)
        /\ Exact(sync) /\ Changes(sync.queue[1].jobs) = {} => Exact(r)
        /\ r.error = (sync.error \/ sync.queue[1].failed)
        /\ r.current = (sync.current /\ Len(sync.queue) # 1)
        /\ \A f \in DOMAIN sync \ {"queue", "error", "transactions", "current", "results"} :
               r[f] = sync[f]
    BY <1>1, <1>2, EndKept
  <2>2. sync' = r
    BY <1>5
  <2> HIDE DEF r
  <2> QED BY <2>1, <2>2
<1> QED BY <1>1, <1>2, <1>4, <1>6

\* A transaction one of whose jobs has failed.
FailedEntry(t) == [t EXCEPT !.failed = TRUE, !.state = "Running", !.jobs = <<Rollback>>]

FailedAtOnce == Current.kind = "commit" \/ Rollback \in ToSet(Tail(Entry.jobs))

\* A transaction that failed has nothing left but its rollback.
LEMMA FailedEntrySound ==
    ASSUME NEW t \in EntryType, t.tx
    PROVE  LET e == FailedEntry(t) IN
           /\ e \in EntryType /\ e.tx /\ EntryOK(e) /\ Usable(e) /\ e.failed
           /\ e.jobs = <<Rollback>> /\ e.state = "Running"
           /\ Changes(e.jobs) = {} /\ Cardinality(Changes(e.jobs)) = 0
<1> DEFINE e == FailedEntry(t)
<1>1. Rollback \in JobType /\ Rollback.kind = "rollback" /\ ~IsChange(Rollback)
  BY DEF Rollback, Job, JobType, IsChange
<1>2. <<Rollback>> \in Seq(JobType)
  BY <1>1
<1>3. /\ e \in EntryType /\ e.tx /\ e.failed /\ e.state = "Running" /\ e.jobs = <<Rollback>>
  BY <1>2 DEF FailedEntry, EntryType
<1> HIDE DEF e
<1>4. \A kind : HasKind(e.jobs, kind) <=> kind = "rollback"
  BY <1>1, <1>3 DEF HasKind
<1>5. EntryOK(e) /\ Usable(e)
  BY <1>3, <1>4 DEF EntryOK, Usable
<1>6. Changes(e.jobs) = {} /\ Cardinality(Changes(e.jobs)) = 0
  BY <1>1, <1>3, ChangesOfNone
<1> QED BY <1>3, <1>5, <1>6 DEF e

\* A queue whose first entry is exchanged.
LEMMA FirstExchanged ==
    ASSUME NEW q \in Seq(EntryType), q # <<>>, NEW e \in EntryType
    PROVE  LET r == [q EXCEPT ![1] = e] IN
           /\ r \in Seq(EntryType) /\ r # <<>> /\ r[1] = e /\ Len(r) = Len(q)
           /\ \A k \in DOMAIN q : k # 1 => r[k] = q[k]
           /\ Tail(r) = Tail(q)
<1> DEFINE r == [q EXCEPT ![1] = e]
<1>1. /\ 1 \in DOMAIN q /\ r \in Seq(EntryType) /\ Len(r) = Len(q) /\ r[1] = e
      /\ \A k \in DOMAIN q : k # 1 => r[k] = q[k]
  OBVIOUS
<1> HIDE DEF r
<1>2. r # <<>>
  BY <1>1
<1>3. /\ Tail(r) \in Seq(EntryType) /\ Tail(q) \in Seq(EntryType)
      /\ Len(Tail(r)) = Len(q) - 1 /\ Len(Tail(q)) = Len(q) - 1
  BY <1>1, <1>2
<1>4. \A k \in 1 .. Len(q) - 1 : Tail(r)[k] = r[k + 1] /\ Tail(q)[k] = q[k + 1]
  BY <1>1, <1>2
<1>5. \A k \in 1 .. Len(q) - 1 : Tail(r)[k] = Tail(q)[k]
  <2>1. \A k \in 1 .. Len(q) - 1 : k + 1 \in DOMAIN q /\ k + 1 # 1
    OBVIOUS
  <2> QED BY <1>1, <1>4, <2>1
<1>6. Tail(r) = Tail(q)
  BY <1>3, <1>5
<1> QED BY <1>1, <1>2, <1>6 DEF r

\* A transaction fails: it is rolled back, or has its result at once.
LEMMA FailsKept ==
    ASSUME CountInv, TransactionFails
    PROVE  /\ Kept(sync') /\ (Exact(sync) => Exact(sync')) /\ orphaned' = orphaned
           /\ sync.listed /\ Sound(sync)
           /\ \A f \in {"listed", "local", "unprocessed", "arrived", "removed", "delivered"} :
                  sync'[f] = sync[f]
           /\ FailedAtOnce => /\ sync'.queue = Tail(sync.queue) /\ sync'.error
                              /\ sync'.current = (sync.current /\ Len(sync.queue) # 1)
           /\ ~FailedAtOnce => /\ sync'.queue = [sync.queue EXCEPT ![1] = FailedEntry(Entry)]
                               /\ sync'.error = sync.error /\ sync'.current = sync.current
<1> DEFINE e == FailedEntry(Entry)
           c == Killed(Entry)
           r == [sync EXCEPT !.queue = [sync.queue EXCEPT ![1] = e],
                             !.pending = sync.pending - c]
           other == {"listed", "local", "unprocessed", "arrived", "removed", "delivered"}
<1>1. /\ Waits /\ Entry.tx
      /\ IF FailedAtOnce
         THEN TransactionEnds(e, <<Rollback>>, [sync EXCEPT !.pending = @ - c])
         ELSE /\ sync' = CheckDone([[sync EXCEPT !.pending = @ - c] EXCEPT !.queue[1] = e])
              /\ UNCHANGED orphaned
  BY DEF TransactionFails, Answer, FailedAtOnce, FailedEntry
<1>2. /\ sync \in SyncType /\ sync.listed /\ Sound(sync) /\ sync.queue # <<>>
      /\ sync.queue \in Seq(EntryType) /\ 1 \in DOMAIN sync.queue
      /\ sync.queue[1] = Entry /\ Entry \in EntryType /\ EntryOK(Entry)
      /\ Entry.jobs \in Seq(JobType)
      /\ (sync.delivered => ~sync.current)
  BY <1>1, Answered
<1>3. /\ e \in EntryType /\ e.tx /\ EntryOK(e) /\ Usable(e) /\ e.failed
      /\ Changes(e.jobs) = {} /\ Cardinality(Changes(e.jobs)) = 0
  BY <1>1, <1>2, FailedEntrySound
<1>4. c \in Nat /\ c = Cardinality(Changes(Entry.jobs))
  BY <1>2, ChangesFinite DEF Killed
<1>5. Changes(<<Rollback>>) = {}
  BY ChangesOfNone DEF Rollback, Job, IsChange
<1> HIDE DEF e, c
<1>6. [[sync EXCEPT !.pending = @ - c] EXCEPT !.queue[1] = e] = r
  BY <1>2 DEF SyncType
<1>7. /\ Sound(r) /\ (Exact(sync) => Exact(r))
      /\ r.queue = [sync.queue EXCEPT ![1] = e]
      /\ \A f \in DOMAIN sync \ {"queue", "pending"} : r[f] = sync[f]
  <2>1. c + Cardinality(Changes(e.jobs)) = Cardinality(Changes(sync.queue[1].jobs))
    BY <1>2, <1>3, <1>4
  <2> QED BY <1>1, <1>2, <1>3, <1>4, <2>1, FirstChanged
<1>8. /\ DOMAIN r = DOMAIN sync /\ other \subseteq DOMAIN sync \ {"queue", "pending"}
      /\ other \subseteq DOMAIN sync \ {"results"}
      /\ r.delivered = sync.delivered /\ r.current = sync.current /\ r.error = sync.error
      /\ {"error", "current"} \subseteq DOMAIN r \ {"results"}
  BY <1>2 DEF SyncType
<1> HIDE DEF r
<1>9. CASE ~FailedAtOnce
  <2>1. sync' = CheckDone(r) /\ orphaned' = orphaned
    BY <1>1, <1>6, <1>9
  <2> DEFINE d == CheckDone(r)
  <2>2. /\ Kept(d) /\ (Exact(r) => Exact(d)) /\ d.queue = r.queue
        /\ \A f \in DOMAIN r \ {"results"} : d[f] = r[f]
    BY <1>2, <1>7, <1>8, CheckDoneKept
  <2> HIDE DEF d
  <2>3. d.error = sync.error /\ d.current = sync.current /\ \A f \in other : d[f] = sync[f]
    BY <1>7, <1>8, <2>2
  <2>4. sync' = d
    BY <2>1 DEF d
  <2> QED BY <1>2, <1>7, <1>9, <2>1, <2>2, <2>3, <2>4 DEF e
<1>10. CASE FailedAtOnce
  <2>1. sync' = TransactionResult(r, 1) /\ orphaned' = (orphaned \/ Changes(<<Rollback>>) # {})
    BY <1>1, <1>6, <1>10 DEF TransactionEnds
  <2>2. /\ r.queue # <<>> /\ r.queue[1] = e /\ Tail(r.queue) = Tail(sync.queue)
        /\ Len(r.queue) = Len(sync.queue)
    BY <1>2, <1>3, <1>7, FirstExchanged
  <2> DEFINE d == TransactionResult(r, 1)
  <2>3. /\ Kept(d) /\ d.queue = Tail(r.queue)
        /\ Exact(r) /\ Changes(r.queue[1].jobs) = {} => Exact(d)
        /\ d.error = (r.error \/ r.queue[1].failed)
        /\ d.current = (r.current /\ Len(r.queue) # 1)
        /\ \A f \in DOMAIN r \ {"queue", "error", "transactions", "current", "results"} :
               d[f] = r[f]
    <3>1. Sound(r) /\ r.queue # <<>> /\ r.queue[1].tx /\ (r.delivered => ~r.current)
      BY <1>2, <1>3, <1>7, <1>8, <2>2
    <3> QED BY <3>1, EndKept
  <2> HIDE DEF d
  <2>4. \A f \in other : d[f] = sync[f]
    <3>1. other \subseteq DOMAIN r \ {"queue", "error", "transactions", "current", "results"}
      BY <1>8
    <3> QED BY <1>7, <1>8, <2>3, <3>1
  <2>5. sync' = d
    BY <2>1 DEF d
  <2> HIDE DEF other
  <2>6. orphaned' = orphaned
    <3>1. orphaned \in BOOLEAN
      BY DEF CountInv, TypeOK
    <3> QED BY <1>5, <2>1, <3>1
  <2>7. (Exact(r) => Exact(d)) /\ d.error /\ d.current = (sync.current /\ Len(sync.queue) # 1)
    BY <1>3, <1>8, <2>2, <2>3
  <2>8. Kept(sync') /\ (Exact(sync) => Exact(sync')) /\ sync'.queue = Tail(sync.queue)
    BY <1>7, <2>2, <2>3, <2>5, <2>7
  <2>9. \A f \in other : sync'[f] = sync[f]
    BY <2>4, <2>5
  <2> QED BY <1>2, <1>10, <2>5, <2>6, <2>7, <2>8, <2>9 DEF other
<1> QED BY <1>9, <1>10

----------------------------------------------------------------------------
(* Type correctness and the counters                                       *)

\* A job leaves versions of the items behind.
LEMMA EffectTyped ==
    ASSUME NEW items \in [Item -> 0 .. 2], NEW job
    PROVE  Effect(job, items) \in [Item -> 0 .. 2]
<1>1. \A i \in Item : Version(i) \in 0 .. 2
  BY DEF Version
<1> QED BY <1>1 DEF Effect

\* So does the server.
LEMMA ServeTyped ==
    ASSUME TypeOK, NEW job, NEW ok, Serve(job, ok)
    PROVE  {store, saved}' \subseteq [Item -> 0 .. 2] /\ open' \in BOOLEAN
<1>1. store \in [Item -> 0 .. 2] /\ saved \in [Item -> 0 .. 2] /\ open \in BOOLEAN
  BY DEF TypeOK
<1>2. Effect(job, store) \in [Item -> 0 .. 2]
  BY <1>1, EffectTyped
<1>3. \/ open' = TRUE /\ saved' = (IF open THEN saved ELSE store) /\ UNCHANGED store
      \/ open' = FALSE /\ UNCHANGED <<store, saved>>
      \/ open' = FALSE /\ store' = (IF open THEN saved ELSE store) /\ UNCHANGED saved
      \/ store' = Effect(job, store) /\ UNCHANGED <<saved, open>>
      \/ UNCHANGED <<store, saved, open>>
  BY Zenon DEF Serve, serverVars
<1> QED BY <1>1, <1>2, <1>3

\* Every variable but sync keeps its type.
OthersTyped ==
    /\ mode \in Modes /\ form \in Forms
    /\ {store, saved, before} \subseteq [Item -> 0 .. 2] /\ open \in BOOLEAN
    /\ told \subseteq Item /\ gone \subseteq Item
    /\ {cancelled, orphaned, undeleted} \subseteq BOOLEAN
    /\ failures \in 0 .. MaxFailures

\* An answer keeps the types of what is not in the queue.
LEMMA AnswerTyped ==
    ASSUME TypeOK, NEW ok \in BOOLEAN, Answer(ok),
           {store, saved}' \subseteq [Item -> 0 .. 2], open' \in BOOLEAN, orphaned' \in BOOLEAN
    PROVE  OthersTyped'
<1>1. failures' \in 0 .. MaxFailures
  <2>1. failures \in 0 .. MaxFailures /\ MaxFailures \in Nat
    BY ItemSyncAssumption DEF TypeOK
  <2>2. CASE ok
    BY <2>1, <2>2 DEF Answer
  <2>3. CASE ~ok
    BY <2>1, <2>3 DEF Answer
  <2> QED BY <2>2, <2>3
<1>2. undeleted' \in BOOLEAN
  BY DEF Answer
<1>3. /\ UNCHANGED <<mode, form, before, told, gone, cancelled>>
  BY DEF Answer, callVars
<1> QED BY <1>1, <1>2, <1>3 DEF TypeOK, OthersTyped

\* A call of the resource keeps the types of what is not in the queue.
LEMMA CallTyped ==
    ASSUME CountInv, NEW chunk \in Chunk, NEW removed \in SUBSET Item, NEW last \in BOOLEAN,
           Deliver(chunk, removed, last) \/ DeliveryDone \/ Cancel
    PROVE  OthersTyped' /\ orphaned' = orphaned
<1>1. OthersTyped /\ chunk \subseteq Item
  BY DEF CountInv, TypeOK, OthersTyped, Chunk
<1>2. CASE Deliver(chunk, removed, last)
  <2>1. told' \subseteq Item /\ gone' \subseteq Item
    BY <1>1, <1>2 DEF Deliver, OthersTyped
  <2>2. UNCHANGED <<mode, form, store, saved, open, before, cancelled, orphaned, undeleted, failures>>
    BY <1>2 DEF Deliver, serverVars
  <2> QED BY <1>1, <2>1, <2>2 DEF OthersTyped
<1>3. CASE DeliveryDone
  <2>1. UNCHANGED <<mode, form, store, saved, open, before, told, gone, cancelled, orphaned,
                    undeleted, failures>>
    BY <1>3 DEF DeliveryDone, serverVars, callVars
  <2> QED BY <1>1, <2>1 DEF OthersTyped
<1>4. CASE Cancel
  <2>1. /\ cancelled' = TRUE
        /\ UNCHANGED <<mode, form, store, saved, open, before, told, gone, orphaned, undeleted, failures>>
    BY <1>4 DEF Cancel, serverVars
  <2> QED BY <1>1, <2>1 DEF OthersTyped
<1> QED BY <1>2, <1>3, <1>4

\* What the server does when a transaction ends.
LEMMA DoneServes ==
    ASSUME CountInv, TransactionDone
    PROVE  {store, saved}' \subseteq [Item -> 0 .. 2] /\ open' \in BOOLEAN
<1>1. /\ TypeOK /\ store \in [Item -> 0 .. 2] /\ saved \in [Item -> 0 .. 2]
      /\ open \in BOOLEAN
  BY DEF CountInv, TypeOK
<1>2. CASE Serve(Current, TRUE)
  BY <1>1, <1>2, ServeTyped
<1>3. CASE \E job : /\ store' = Effect(job, IF open THEN saved ELSE store)
                    /\ open' = FALSE /\ UNCHANGED saved
  BY <1>1, <1>3, EffectTyped
<1>4. Serve(Current, TRUE)
      \/ \E job : /\ store' = Effect(job, IF open THEN saved ELSE store)
                  /\ open' = FALSE /\ UNCHANGED saved
  BY DEF TransactionDone
<1> QED BY <1>2, <1>3, <1>4

\* What the server does when a job fails.
LEMMA FailsServes ==
    ASSUME CountInv, TransactionFails
    PROVE  {store, saved}' \subseteq [Item -> 0 .. 2] /\ open' \in BOOLEAN
<1>1. TypeOK /\ (Serve(Current, FALSE) \/ Serve(Rollback, TRUE))
  BY Zenon DEF CountInv, TransactionFails
<1> QED BY <1>1, ServeTyped

\* The parts of CountInv.
LEMMA CountInvMade ==
    ASSUME Kept(sync'), ~orphaned' => Exact(sync'), OthersTyped'
    PROVE  CountInv'
<1>1. sync' \in SyncType
  BY DEF Kept, Sound, Unlisted
<1> QED BY <1>1 DEF CountInv, TypeOK, OthersTyped, Kept, Exact, Sound, Unlisted

\* Every step keeps CountInv.
LEMMA CountInvStep ==
    ASSUME CountInv, [Next]_vars
    PROVE  CountInv'
<1>1. TypeOK /\ orphaned \in BOOLEAN /\ (~orphaned => Exact(sync))
  BY DEF CountInv, TypeOK
<1>2. ASSUME NEW chunk \in Chunk, NEW removed \in SUBSET Item, NEW last \in BOOLEAN,
             Deliver(chunk, removed, last)
      PROVE  CountInv'
  <2>1. Kept(sync') /\ (Exact(sync) => Exact(sync'))
    BY <1>2, DeliverKept
  <2>2. OthersTyped' /\ orphaned' = orphaned
    BY <1>2, CallTyped
  <2> QED BY <1>1, <2>1, <2>2, CountInvMade
<1>3. CASE DeliveryDone
  <2>1. Kept(sync') /\ (Exact(sync) => Exact(sync'))
    BY <1>3, DeliveryDoneKept
  <2>2. OthersTyped' /\ orphaned' = orphaned
    <3>1. {} \in Chunk
      BY FS_EmptySet, ItemSyncAssumption DEF Chunk
    <3> QED BY <1>3, <3>1, CallTyped
  <2> QED BY <1>1, <2>1, <2>2, CountInvMade
<1>4. CASE Cancel
  <2>1. Kept(sync') /\ (Exact(sync) => Exact(sync'))
    BY <1>4, CancelKept
  <2>2. OthersTyped' /\ orphaned' = orphaned
    <3>1. {} \in Chunk
      BY FS_EmptySet, ItemSyncAssumption DEF Chunk
    <3> QED BY <1>4, <3>1, CallTyped
  <2> QED BY <1>1, <2>1, <2>2, CountInvMade
<1>5. ASSUME NEW ok \in BOOLEAN, LocalListDone(ok)
      PROVE  CountInv'
  <2>1. Kept(sync') /\ Exact(sync')
    BY <1>5, ListKept
  <2>2. /\ Answer(ok) /\ orphaned' = orphaned
        /\ UNCHANGED <<store, saved, open>>
    BY <1>5 DEF LocalListDone, serverVars
  <2>3. {store, saved}' \subseteq [Item -> 0 .. 2] /\ open' \in BOOLEAN
    BY <1>1, <2>2 DEF TypeOK
  <2>4. OthersTyped'
    BY <1>1, <2>2, <2>3, AnswerTyped
  <2> QED BY <2>1, <2>4, CountInvMade
<1>6. ASSUME NEW ok \in BOOLEAN, ChangeDone(ok)
      PROVE  CountInv'
  <2>1. Kept(sync') /\ (Exact(sync) => Exact(sync'))
    BY <1>6, ChangeKept
  <2>2. Answer(ok) /\ orphaned' = orphaned /\ Serve(Current, ok)
    BY <1>6 DEF ChangeDone
  <2>3. OthersTyped'
    BY <1>1, <2>2, ServeTyped, AnswerTyped
  <2> QED BY <1>1, <2>1, <2>2, <2>3, CountInvMade
<1>7. ASSUME NEW ok \in BOOLEAN, TransactionGoesOn(ok)
      PROVE  CountInv'
  <2>1. Kept(sync') /\ (Exact(sync) => Exact(sync'))
    BY <1>7, GoesOnKept
  <2>2. Answer(ok) /\ orphaned' = orphaned /\ Serve(Current, ok)
    BY <1>7 DEF TransactionGoesOn
  <2>3. OthersTyped'
    BY <1>1, <2>2, ServeTyped, AnswerTyped
  <2> QED BY <1>1, <2>1, <2>2, <2>3, CountInvMade
<1>8. CASE TransactionDone
  <2>1. /\ Kept(sync') /\ (~orphaned' /\ Exact(sync) => Exact(sync'))
        /\ orphaned' = (orphaned \/ Changes(Tail(Entry.jobs)) # {})
    BY <1>8, DoneKept
  <2>2. Answer(TRUE)
    BY <1>8 DEF TransactionDone
  <2>3. orphaned' \in BOOLEAN /\ (~orphaned' => ~orphaned)
    BY <1>1, <2>1
  <2>4. OthersTyped'
    BY <1>1, <1>8, <2>2, <2>3, DoneServes, AnswerTyped
  <2> QED BY <1>1, <2>1, <2>3, <2>4, CountInvMade
<1>9. CASE TransactionFails
  <2>1. Kept(sync') /\ (Exact(sync) => Exact(sync')) /\ orphaned' = orphaned
    BY <1>9, FailsKept
  <2>2. Answer(FALSE)
    BY <1>9 DEF TransactionFails
  <2>3. OthersTyped'
    BY <1>1, <1>9, <2>1, <2>2, FailsServes, AnswerTyped
  <2> QED BY <1>1, <2>1, <2>3, CountInvMade
<1>10. CASE UNCHANGED vars
  BY <1>10 DEF vars, CountInv, TypeOK
<1> QED BY <1>2, <1>3, <1>4, <1>5, <1>6, <1>7, <1>8, <1>9, <1>10 DEF Next, Answers

\* CountInv holds at first.
LEMMA CountInvInit ==
    ASSUME Init
    PROVE  CountInv
<1> DEFINE list == Job("list", {})
<1>1. list \in JobType
  BY DEF Job, JobType
<1>2. Plain(list) \in EntryType
  <2>1. <<list>> \in Seq(JobType)
    BY <1>1
  <2> QED BY <2>1 DEF Plain, EntryType
<1>3. <<Plain(list)>> \in Seq(EntryType)
  BY <1>2
<1>4. Unlisted(sync)
  BY <1>3 DEF Init, Unlisted, SyncType
<1>5. OthersTyped
  <2>1. store \in [Item -> 0 .. 2] /\ saved = store /\ before = store
    <3>1. PICK items \in SUBSET Item : store = [i \in Item |-> IF i \in items THEN 1 ELSE 0]
      BY DEF Init
    <3> QED BY <3>1 DEF Init
  <2>2. failures \in 0 .. MaxFailures
    BY ItemSyncAssumption DEF Init
  <2> QED BY <2>1, <2>2 DEF Init, OthersTyped
<1>6. ~sync.listed /\ ~sync.delivered /\ sync \in SyncType
  BY <1>4 DEF Init, Unlisted
<1> QED BY <1>4, <1>5, <1>6, UnlistedExact DEF CountInv, Kept, TypeOK, OthersTyped

\* CountInv is an invariant.
LEMMA CountInvAlways == Spec => []CountInv
<1>1. Init => CountInv
  BY CountInvInit
<1>2. CountInv /\ [Next]_vars => CountInv'
  BY CountInvStep
<1> QED BY <1>1, <1>2, PTL DEF Spec

\* Every variable keeps its type; pending and transactions do not fall below zero, and
\* checkDone(), wherever it is called from, emits one result at most.
THEOREM TypeCorrect == Spec => []TypeOK
<1>1. CountInv => TypeOK
  BY DEF CountInv
<1> QED BY <1>1, CountInvAlways, PTL

\* CountInv implies Accounted.
LEMMA CountInvAccounts ==
    ASSUME CountInv
    PROVE  Accounted
<1>1. sync \in SyncType /\ sync.queue \in Seq(EntryType) /\ Kept(sync)
  BY SyncFields DEF CountInv, TypeOK
<1>2. ~orphaned => sync.pending = Cardinality(Places(sync.queue))
  BY DEF CountInv, Exact
<1>3. CASE sync.listed
  <2>1. Sound(sync)
    BY <1>1, <1>3 DEF Kept
  <2>2. sync.current => sync.queue # <<>> /\ Usable(sync.queue[Len(sync.queue)])
    BY <2>1 DEF Sound, LastUsable
  <2>3. sync.current => sync.queue # <<>> /\ Last(sync.queue).tx /\ Last(sync.queue).state # "Waiting"
    BY <2>2 DEF Usable, Last
  <2> QED BY <1>2, <2>1, <2>3 DEF Accounted, Sound
<1>4. CASE ~sync.listed
  <2>1. Unlisted(sync)
    BY <1>1, <1>4 DEF Kept
  <2>2. Transactions(sync.queue) = {}
    BY <2>1 DEF Unlisted, Transactions, Plain
  <2> QED BY <1>2, <2>1, <2>2, FS_EmptySet DEF Accounted, Unlisted
<1> QED BY <1>3, <1>4

\* mPendingJobs and mTransactionJobs are the changes and transactions that are still in
\* the queue, whatever fails or is killed, unless a transaction was deleted with changes
\* left in it; mCurrentTransaction is the last transaction, and not yet committed.
THEOREM CountersAccount == Spec => []Accounted
<1>1. CountInv => Accounted
  BY CountInvAccounts
<1> QED BY <1>1, CountInvAlways, PTL

----------------------------------------------------------------------------
(* What may be deleted                                                     *)

\* What the resource has said is no more.
Lost == gone \cup (IF form = "full" /\ sync.delivered THEN Item \ told ELSE {})

\* What waits to be deleted is among some items.
Deletes(q, L) ==
    \A p \in Places(q) : JobAt(q, p).kind = "delete" => JobAt(q, p).items \subseteq L

\* What was stored at first is stored, except for some items.
Keeps(items, L) == \A i \in Item : before[i] # 0 => items[i] # 0 \/ i \in L

\* ItemSync takes for removed, and for not delivered, what is so.
Knows(s, T, G) ==
    ~s.error => /\ s.removed \subseteq G
                /\ T \cap (IF s.listed THEN s.unprocessed ELSE Item \ s.arrived) = {}

LostInv ==
    /\ CountInv
    /\ Deletes(sync.queue, Lost) /\ Keeps(store, Lost) /\ Keeps(saved, Lost)
    /\ Knows(sync, told, gone)
    /\ cancelled => sync.error /\ sync.delivered

\* A queue that lost jobs deletes nothing new,
LEMMA DeletesMoved ==
    ASSUME NEW q, NEW r, NEW L, Deletes(q, L),
           Same(q, r) \/ \E S \in SUBSET Places(q) : Moved(q, r, S)
    PROVE  Deletes(r, L)
<1>1. CASE Same(q, r)
  BY <1>1 DEF Deletes, Same
<1>2. ASSUME NEW S \in SUBSET Places(q), Moved(q, r, S)
      PROVE  Deletes(r, L)
  <2>1. PICK f \in [S -> Places(r)] :
            /\ \A y \in Places(r) : \E x \in S : f[x] = y
            /\ \A x \in S : JobAt(r, f[x]) = JobAt(q, x)
    BY <1>2 DEF Moved
  <2>2. ASSUME NEW y \in Places(r), JobAt(r, y).kind = "delete"
        PROVE  JobAt(r, y).items \subseteq L
    <3>1. PICK x \in S : f[x] = y
      BY <2>1
    <3>2. JobAt(r, y) = JobAt(q, x) /\ x \in Places(q)
      BY <2>1, <3>1
    <3> QED BY <2>2, <3>2 DEF Deletes
  <2> QED BY <2>2 DEF Deletes
<1> QED BY <1>1, <1>2

\* nor does one to which harmless jobs were added.
LEMMA DeletesAdded ==
    ASSUME NEW q, NEW r, NEW jobs, NEW L, Deletes(q, L), Adds(q, r, jobs),
           \A k \in DOMAIN jobs : jobs[k].kind = "delete" => jobs[k].items \subseteq L
    PROVE  Deletes(r, L)
<1>1. PICK g \in [DOMAIN jobs -> Places(r) \ Places(q)] :
          /\ \A y \in Places(r) \ Places(q) : \E x \in DOMAIN jobs : g[x] = y
          /\ \A x \in DOMAIN jobs : JobAt(r, g[x]) = jobs[x]
  BY DEF Adds
<1>2. ASSUME NEW y \in Places(r), JobAt(r, y).kind = "delete"
      PROVE  JobAt(r, y).items \subseteq L
  <2>1. CASE y \in Places(q)
    BY <1>2, <2>1 DEF Adds, Deletes
  <2>2. CASE y \notin Places(q)
    <3>1. PICK x \in DOMAIN jobs : g[x] = y
      BY <1>1, <2>2
    <3>2. JobAt(r, y) = jobs[x]
      BY <1>1, <3>1
    <3> QED BY <1>2, <3>2
  <2> QED BY <2>1, <2>2
<1> QED BY <1>2 DEF Deletes

\* execute() asks for nothing else to be deleted.
LEMMA ExecuteDeletes ==
    ASSUME NEW s, Sound(s), s.results = 0, NEW T, NEW G, NEW L, Deletes(s.queue, L),
           G \subseteq L, s.delivered /\ form = "full" => Item \ T \subseteq L,
           ~s.error => s.removed \subseteq G /\ T \cap (s.unprocessed \ s.arrived) = {}
    PROVE  LET r == Execute(s) IN Deletes(r.queue, L) /\ Knows(r, T, G)
<1> DEFINE p == Begun(s)
           d == Swept(s)
           r == Execute(s)
<1>1. /\ Sound(p) /\ Sound(d) /\ Sound(r)
      /\ IF ~s.delivered /\ s.arrived = {} THEN r = s
         ELSE IF s.delivered THEN r = CheckDone(Committed(d))
         ELSE IF mode = "Multiple" THEN r = Committed(p) ELSE r = p
      /\ Adds(s.queue, p.queue, ProcessJobs(s))
      /\ Adds(p.queue, d.queue, DeleteJobs(p))
      /\ p.error = s.error
      /\ p.local = s.local /\ p.removed = s.removed
      /\ p.unprocessed = s.unprocessed \ s.arrived
  BY ExecuteSteps
<1>2. /\ r.error = s.error /\ r.unprocessed \subseteq s.unprocessed \ s.arrived
      /\ r.removed = s.removed \/ r.removed = {}
  BY ExecuteFields
<1> HIDE DEF p, d, r
<1>3. s \in SyncType /\ p \in SyncType /\ r.listed
  BY <1>1 DEF Sound
<1>4. Deletes(p.queue, L)
  <2>1. \A k \in DOMAIN ProcessJobs(s) : ProcessJobs(s)[k].kind # "delete"
    BY <1>3, ProcessJobsOK DEF JobFor, Job
  <2> QED BY <1>1, <2>1, DeletesAdded
<1>5. s.delivered => Deletes(d.queue, L)
  <2>1. SUFFICES ASSUME s.delivered PROVE Deletes(d.queue, L)
    OBVIOUS
  <2>2. ToDelete(p) \subseteq L
    <3>1. CASE p.error
      BY <3>1 DEF ToDelete
    <3>2. CASE ~p.error
      <4>1. ToDelete(p) \subseteq (IF form = "full" THEN p.unprocessed ELSE p.removed)
        BY DEF ToDelete
      <4>2. p.unprocessed \subseteq Item
        BY <1>3, SyncFields
      <4>3. p.unprocessed \cap T = {} /\ p.removed \subseteq G
        BY <1>1, <3>2
      <4> QED BY <2>1, <4>1, <4>2, <4>3
    <3> QED BY <3>1, <3>2
  <2>3. \A k \in DOMAIN DeleteJobs(p) : DeleteJobs(p)[k].items = ToDelete(p)
    BY <1>3, DeleteJobsOK DEF Job
  <2> QED BY <1>1, <1>4, <2>2, <2>3, DeletesAdded
<1>6. \A x : Sound(x) /\ Deletes(x.queue, L) => /\ Sound(Committed(x))
                                                 /\ Deletes(Committed(x).queue, L)
  BY CommittedSound, DeletesMoved
<1>7. \A x : Sound(x) => CheckDone(x).queue = x.queue
  <2>1. SUFFICES ASSUME NEW x, Sound(x) PROVE CheckDone(x).queue = x.queue
    OBVIOUS
  <2>2. x \in SyncType /\ (CheckDone(x) = x \/ CheckDone(x) = [x EXCEPT !.results = 1])
    BY <2>1, CheckDoneSound DEF Sound
  <2> QED BY <2>2 DEF SyncType
<1>8. Deletes(r.queue, L)
  BY <1>1, <1>4, <1>5, <1>6, <1>7
<1>9. Knows(r, T, G)
  <2>1. CASE r.error
    BY <2>1 DEF Knows
  <2>2. CASE ~r.error
    BY <1>2, <1>3, <2>2 DEF Knows
  <2> QED BY <2>1, <2>2
<1> QED BY <1>8, <1>9 DEF r

\* What the server does keeps what is to be kept.
LEMMA EffectKeeps ==
    ASSUME NEW items, NEW L, Keeps(items, L), NEW job,
           job.kind = "delete" => job.items \subseteq L
    PROVE  Keeps(Effect(job, items), L)
<1>1. \A i \in Item : Version(i) # 0
  BY DEF Version
<1> QED BY <1>1 DEF Effect, Keeps

\* Nor does the server, at the first job.
LEMMA ServeKeeps ==
    ASSUME NEW L, Keeps(store, L), Keeps(saved, L), NEW job, NEW ok, Serve(job, ok),
           IsChange(job) /\ job.kind = "delete" => job.items \subseteq L
    PROVE  Keeps(store', L) /\ Keeps(saved', L)
<1>1. \/ saved' = (IF open THEN saved ELSE store) /\ UNCHANGED store
      \/ UNCHANGED <<store, saved>>
      \/ store' = (IF open THEN saved ELSE store) /\ UNCHANGED saved
      \/ store' = Effect(job, store) /\ UNCHANGED saved
  BY Zenon DEF Serve, serverVars
<1>2. Keeps(Effect(job, store), L)
  BY EffectKeeps DEF IsChange
<1> QED BY <1>1, <1>2

\* The job that the server works on, and the next one, as jobs of the queue.
LEMMA FirstJobs ==
    ASSUME CountInv, Waits, NEW L, Deletes(sync.queue, L)
    PROVE  /\ Current.kind = "delete" => Current.items \subseteq L
           /\ LET left == Tail(Entry.jobs) IN
              left # <<>> /\ Head(left).kind = "delete" => Head(left).items \subseteq L
<1>1. /\ sync.queue \in Seq(EntryType) /\ 1 \in DOMAIN sync.queue /\ Entry = sync.queue[1]
      /\ Entry.jobs \in Seq(JobType) /\ Entry.jobs # <<>> /\ 1 \in DOMAIN Entry.jobs
      /\ Current = Entry.jobs[1]
  BY Answered
<1>2. ASSUME NEW k \in DOMAIN Entry.jobs, Entry.jobs[k].kind = "delete"
      PROVE  Entry.jobs[k].items \subseteq L
  <2>1. <<1, k>> \in Places(sync.queue)
    BY <1>1, <1>2, InPlaces DEF Changes, IsChange
  <2>2. JobAt(sync.queue, <<1, k>>) = Entry.jobs[k]
    BY <1>1 DEF JobAt
  <2> QED BY <1>2, <2>1, <2>2 DEF Deletes
<1>3. ASSUME Tail(Entry.jobs) # <<>>
      PROVE  2 \in DOMAIN Entry.jobs /\ Head(Tail(Entry.jobs)) = Entry.jobs[2]
  BY <1>1, <1>3
<1> QED BY <1>1, <1>2, <1>3

\* The parts of LostInv.
LEMMA LostMade ==
    ASSUME CountInv', Deletes(sync'.queue, Lost'), Keeps(store', Lost'), Keeps(saved', Lost'),
           before' = before, Knows(sync', told', gone'),
           cancelled' => sync'.error /\ sync'.delivered
    PROVE  LostInv'
  BY DEF LostInv, Deletes, Keeps, Knows, JobAt, Places, Changes, IsChange

\* What an answer leaves as it is.
LEMMA AnswerLost ==
    ASSUME LostInv, NEW ok, Answer(ok), CountInv',
           sync'.delivered = sync.delivered, sync.error => sync'.error,
           Deletes(sync'.queue, Lost), Keeps(store', Lost), Keeps(saved', Lost),
           Knows(sync', told, gone)
    PROVE  LostInv'
<1>1. UNCHANGED <<mode, form, before, told, gone, cancelled>>
  BY DEF Answer, callVars
<1>2. Lost' = Lost
  BY <1>1 DEF Lost
<1>3. cancelled' => sync'.error /\ sync'.delivered
  BY <1>1 DEF LostInv
<1> QED BY <1>1, <1>2, <1>3, LostMade

\* The fields that Knows looks at stay as they are in an answer.
LEMMA KnowsStill ==
    ASSUME LostInv, sync.error => sync'.error,
           sync'.removed = sync.removed, sync'.listed = sync.listed,
           sync'.unprocessed = sync.unprocessed, sync'.arrived = sync.arrived
    PROVE  Knows(sync', told, gone)
  BY DEF LostInv, Knows

\* A call: nothing but the sync and the history changes.
LEMMA CallLost ==
    ASSUME LostInv, CountInv', UNCHANGED <<mode, form, store, saved, before>>,
           sync.delivered => sync'.delivered,
           gone \subseteq gone', sync.delivered => told' = told,
           sync.listed => Deletes(sync'.queue, Lost'),
           ~sync.listed => sync'.queue = sync.queue,
           Knows(sync', told', gone'), cancelled' => sync'.error /\ sync'.delivered
    PROVE  LostInv'
<1>1. Lost \subseteq Lost'
  BY DEF Lost
<1>2. Keeps(store', Lost') /\ Keeps(saved', Lost')
  BY <1>1 DEF LostInv, Keeps
<1>3. ASSUME ~sync.listed PROVE Deletes(sync'.queue, Lost')
  BY <1>1, <1>3 DEF LostInv, Deletes
<1> QED BY <1>2, <1>3, LostMade

\* Every step keeps LostInv.
LEMMA LostInvStep ==
    ASSUME LostInv, [Next]_vars
    PROVE  LostInv'
<1>1. /\ CountInv /\ CountInv' /\ sync \in SyncType /\ sync' \in SyncType
      /\ Kept(sync) /\ Kept(sync')
      /\ Deletes(sync.queue, Lost) /\ Keeps(store, Lost) /\ Keeps(saved, Lost)
      /\ Knows(sync, told, gone)
      /\ cancelled => sync.error /\ sync.delivered
      /\ sync.listed => sync.unprocessed \subseteq Item
  <2>1. CountInv /\ CountInv'
    BY CountInvStep DEF LostInv
  <2> QED BY <2>1, SyncFields DEF LostInv, CountInv, TypeOK, Kept, Sound, Exact, Unlisted
<1>2. ASSUME NEW chunk \in Chunk, NEW removed \in SUBSET Item, NEW last \in BOOLEAN,
             Deliver(chunk, removed, last)
      PROVE  LostInv'
  <2> DEFINE u == Delivering(sync, chunk, removed, last)
  <2>1. /\ sync' = Execute(u) /\ u.results = 0
        /\ sync.listed => Sound(u)
        /\ ~sync.listed => sync' = u
    BY <1>1, <1>2, DeliverKept
  <2>2. /\ u.arrived = sync.arrived \cup chunk /\ u.removed = sync.removed \cup removed
        /\ u.delivered = (sync.delivered \/ last)
        /\ u.error = sync.error /\ u.unprocessed = sync.unprocessed /\ u.listed = sync.listed
        /\ u.queue = sync.queue
    BY <1>1 DEF SyncType, Delivering
  <2>3. /\ UNCHANGED <<mode, form, store, saved, before, cancelled>>
        /\ sync.delivered => cancelled
        /\ told' = IF cancelled THEN told ELSE told \cup chunk
        /\ gone' = IF cancelled THEN gone ELSE gone \cup removed
    BY <1>2 DEF Deliver, serverVars
  <2> HIDE DEF u
  <2>4. ~u.error =>
            /\ u.removed \subseteq gone'
            /\ told' \cap (IF u.listed THEN u.unprocessed \ u.arrived ELSE Item \ u.arrived) = {}
    <3>1. SUFFICES ASSUME ~u.error
                   PROVE  /\ u.removed \subseteq gone'
                          /\ told' \cap (IF u.listed THEN u.unprocessed \ u.arrived
                                         ELSE Item \ u.arrived) = {}
      OBVIOUS
    <3>2. /\ told' = told \cup chunk /\ gone' = gone \cup removed
          /\ sync.removed \subseteq gone
          /\ told \cap (IF sync.listed THEN sync.unprocessed ELSE Item \ sync.arrived) = {}
      BY <1>1, <2>2, <2>3, <3>1 DEF Knows
    <3> QED BY <2>2, <3>2
  <2>5. gone \subseteq gone' /\ (sync.delivered => told' = told)
    BY <2>3
  <2>6. CASE sync.listed
    <3> DEFINE L == gone' \cup (IF form = "full" /\ u.delivered THEN Item \ told' ELSE {})
    <3>1. Sound(u)
      BY <2>1, <2>6
    <3>2. Deletes(u.queue, L)
      <4>1. Lost \subseteq L
        BY <2>2, <2>5 DEF Lost
      <4> QED BY <1>1, <2>2, <4>1 DEF Deletes
    <3>3. ~u.error => u.removed \subseteq gone' /\ told' \cap (u.unprocessed \ u.arrived) = {}
      BY <2>2, <2>4, <2>6
    <3>4. gone' \subseteq L /\ (u.delivered /\ form = "full" => Item \ told' \subseteq L)
      OBVIOUS
    <3> HIDE DEF L
    <3>5. Deletes(sync'.queue, L) /\ Knows(sync', told', gone')
      BY <2>1, <3>1, <3>2, <3>3, <3>4, ExecuteDeletes
    <3>6. sync'.delivered = u.delivered /\ sync'.error = u.error
      BY <2>1, <3>1, ExecuteFields
    <3>7. Lost' = L
      BY <2>3, <3>6 DEF Lost, L
    <3>8. (sync.delivered => sync'.delivered) /\ (cancelled' => sync'.error /\ sync'.delivered)
      BY <1>1, <2>2, <2>3, <3>6
    <3> QED BY <1>1, <2>3, <2>5, <2>6, <3>5, <3>7, <3>8, CallLost
  <2>7. CASE ~sync.listed
    <3>1. Knows(sync', told', gone')
      BY <2>1, <2>2, <2>4, <2>7 DEF Knows
    <3>2. /\ sync.delivered => sync'.delivered
          /\ cancelled' => sync'.error /\ sync'.delivered
          /\ sync'.queue = sync.queue
      BY <1>1, <2>1, <2>2, <2>3, <2>7
    <3> QED BY <1>1, <2>3, <2>5, <2>7, <3>1, <3>2, CallLost
  <2> QED BY <2>6, <2>7
<1>3. CASE DeliveryDone
  <2> DEFINE u == [sync EXCEPT !.delivered = TRUE]
  <2>1. /\ sync' = Execute(u) /\ u.results = 0
        /\ sync.listed => Sound(u)
        /\ ~sync.listed => sync' = u
    BY <1>1, <1>3, DeliveryDoneKept
  <2>2. /\ u.arrived = sync.arrived /\ u.removed = sync.removed /\ u.delivered
        /\ u.error = sync.error /\ u.unprocessed = sync.unprocessed /\ u.listed = sync.listed
        /\ u.queue = sync.queue
    BY <1>1 DEF SyncType
  <2>3. /\ UNCHANGED <<mode, form, store, saved, before, told, gone, cancelled>>
        /\ ~sync.delivered
    BY <1>3 DEF DeliveryDone, serverVars, callVars
  <2> HIDE DEF u
  <2>6. CASE sync.listed
    <3> DEFINE L == gone \cup (IF form = "full" THEN Item \ told ELSE {})
    <3>1. Sound(u)
      BY <2>1, <2>6
    <3>2. Deletes(u.queue, L)
      <4>1. Lost \subseteq L
        BY DEF Lost
      <4> QED BY <1>1, <2>2, <4>1 DEF Deletes
    <3>3. ~u.error => u.removed \subseteq gone /\ told \cap (u.unprocessed \ u.arrived) = {}
      BY <1>1, <2>2, <2>6 DEF Knows
    <3>4. gone \subseteq L /\ (u.delivered /\ form = "full" => Item \ told \subseteq L)
      OBVIOUS
    <3> HIDE DEF L
    <3>5. Deletes(sync'.queue, L) /\ Knows(sync', told, gone)
      BY <2>1, <3>1, <3>2, <3>3, <3>4, ExecuteDeletes
    <3>6. sync'.delivered = u.delivered /\ sync'.error = u.error
      BY <2>1, <3>1, ExecuteFields
    <3>7. Lost' = L
      BY <2>2, <2>3, <3>6 DEF Lost, L
    <3>8. /\ sync'.delivered /\ (cancelled' => sync'.error)
          /\ gone' = gone /\ told' = told
      BY <1>1, <2>2, <2>3, <3>6
    <3>9. Deletes(sync'.queue, Lost') /\ Knows(sync', told', gone')
      BY <3>5, <3>7, <3>8
    <3> QED BY <1>1, <2>3, <2>6, <3>8, <3>9, CallLost
  <2>7. CASE ~sync.listed
    <3>1. Knows(sync', told', gone')
      BY <1>1, <2>1, <2>2, <2>3, <2>7 DEF Knows
    <3>2. /\ sync'.delivered
          /\ cancelled' => sync'.error
          /\ sync'.queue = sync.queue
          /\ gone' = gone /\ told' = told
      BY <1>1, <2>1, <2>2, <2>3, <2>7
    <3> QED BY <1>1, <2>3, <2>7, <3>1, <3>2, CallLost
  <2> QED BY <2>6, <2>7
<1>4. CASE Cancel
  <2> DEFINE a == Failing(sync)
             u == Cancelling(sync)
  <2>1. /\ sync' = Execute(u) /\ u.results = 0
        /\ a \in SyncType /\ u \in SyncType
        /\ u.delivered /\ u.error
        /\ \A f \in DOMAIN sync \ {"error"} : a[f] = sync[f]
        /\ sync.listed => Sound(u) /\ Same(sync.queue, u.queue)
        /\ ~sync.listed => sync' = u /\ u = [a EXCEPT !.delivered = TRUE]
    BY <1>1, <1>4, CancelKept
  <2>2. UNCHANGED <<mode, form, store, saved, before, told, gone>>
    BY <1>4 DEF Cancel, serverVars
  <2>3. ~sync.listed => u.queue = sync.queue
    BY <1>1, <2>1 DEF SyncType
  <2> HIDE DEF a, u
  <2>4. CASE sync.listed
    <3> DEFINE L == gone \cup (IF form = "full" THEN Item \ told ELSE {})
    <3>1. Sound(u)
      BY <2>1, <2>4
    <3>2. Deletes(u.queue, L)
      <4>1. Lost \subseteq L
        BY DEF Lost
      <4>2. Deletes(u.queue, Lost)
        BY <1>1, <2>1, <2>4, DeletesMoved
      <4> QED BY <4>1, <4>2 DEF Deletes
    <3>4. gone \subseteq L /\ (u.delivered /\ form = "full" => Item \ told \subseteq L)
      OBVIOUS
    <3> HIDE DEF L
    <3>5. Deletes(sync'.queue, L) /\ Knows(sync', told, gone)
      BY <2>1, <3>1, <3>2, <3>4, ExecuteDeletes
    <3>6. sync'.delivered = u.delivered /\ sync'.error = u.error
      BY <2>1, <3>1, ExecuteFields
    <3>7. Lost' = L
      BY <2>1, <2>2, <3>6 DEF Lost, L
    <3>8. sync'.delivered /\ sync'.error /\ gone' = gone /\ told' = told
      BY <2>1, <2>2, <3>6
    <3>9. Deletes(sync'.queue, Lost') /\ Knows(sync', told', gone')
      BY <3>5, <3>7, <3>8
    <3> QED BY <1>1, <2>2, <2>4, <3>8, <3>9, CallLost
  <2>5. CASE ~sync.listed
    <3>1. /\ sync'.delivered /\ sync'.error /\ sync'.queue = sync.queue
          /\ gone' = gone /\ told' = told
      BY <2>1, <2>2, <2>3, <2>5
    <3>2. Knows(sync', told', gone')
      BY <3>1 DEF Knows
    <3> QED BY <1>1, <2>2, <2>5, <3>1, <3>2, CallLost
  <2> QED BY <2>4, <2>5
<1>5. ASSUME NEW ok \in BOOLEAN, LocalListDone(ok)
      PROVE  LostInv'
  <2> DEFINE items == IF ok THEN {i \in Item : store[i] # 0} ELSE {}
             u == [sync EXCEPT !.queue = Tail(@), !.error = @ \/ ~ok, !.listed = TRUE,
                               !.local = items, !.unprocessed = items]
  <2>1. ~sync.listed /\ sync' = Execute(u) /\ Sound(u) /\ u.results = 0 /\ u.queue = <<>>
    BY <1>1, <1>5, ListKept
  <2>2. /\ u.error = (sync.error \/ ~ok) /\ u.unprocessed = items /\ u.arrived = sync.arrived
        /\ u.delivered = sync.delivered /\ u.removed = sync.removed /\ items \subseteq Item
    BY <1>1 DEF SyncType
  <2> HIDE DEF u, items
  <2>3. Deletes(u.queue, Lost)
    BY <2>1 DEF Deletes, Places
  <2>4. ~u.error => u.removed \subseteq gone /\ told \cap (u.unprocessed \ u.arrived) = {}
    BY <1>1, <2>1, <2>2 DEF Knows
  <2>5. gone \subseteq Lost /\ (u.delivered /\ form = "full" => Item \ told \subseteq Lost)
    BY <2>2 DEF Lost
  <2>6. Deletes(sync'.queue, Lost) /\ Knows(sync', told, gone)
    BY <2>1, <2>3, <2>4, <2>5, ExecuteDeletes
  <2>7. sync'.delivered = sync.delivered /\ (sync.error => sync'.error)
    BY <2>1, <2>2, ExecuteFields
  <2>8. Answer(ok) /\ store' = store /\ saved' = saved
    BY <1>5 DEF LocalListDone, serverVars
  <2> QED BY <1>1, <2>6, <2>7, <2>8, AnswerLost
<1>6. ASSUME NEW ok \in BOOLEAN, ChangeDone(ok)
      PROVE  LostInv'
  <2>1. /\ sync'.queue = Tail(sync.queue) /\ sync'.error = (sync.error \/ ~ok)
        /\ \A f \in DOMAIN sync \ {"queue", "pending", "error", "results"} : sync'[f] = sync[f]
    BY <1>1, <1>6, ChangeKept
  <2>2. /\ sync'.removed = sync.removed /\ sync'.listed = sync.listed
        /\ sync'.unprocessed = sync.unprocessed /\ sync'.arrived = sync.arrived
        /\ sync'.delivered = sync.delivered
    BY <1>1, <2>1 DEF SyncType
  <2>3. Answer(ok) /\ Waits /\ Serve(Current, ok)
    BY <1>6 DEF ChangeDone, Answer
  <2>4. Deletes(sync'.queue, Lost)
    <3>1. sync.queue \in Seq(EntryType) /\ sync.queue # <<>>
      BY <1>1, <2>3, Answered
    <3>2. \E S \in SUBSET Places(sync.queue) : Moved(sync.queue, Tail(sync.queue), S)
      BY <3>1, RestMoves
    <3> QED BY <1>1, <2>1, <3>2, DeletesMoved
  <2>5. Keeps(store', Lost) /\ Keeps(saved', Lost)
    BY <1>1, <2>3, FirstJobs, ServeKeeps
  <2> QED BY <1>1, <2>1, <2>2, <2>3, <2>4, <2>5, KnowsStill, AnswerLost
<1>7. ASSUME NEW ok \in BOOLEAN, TransactionGoesOn(ok)
      PROVE  LostInv'
  <2>1. /\ sync'.queue = [sync.queue EXCEPT ![1] = GoneOn(Entry)] /\ Sound(sync) /\ sync.listed
        /\ \A f \in DOMAIN sync \ {"queue", "pending", "results"} : sync'[f] = sync[f]
    BY <1>1, <1>7, GoesOnKept
  <2>2. /\ sync'.removed = sync.removed /\ sync'.listed = sync.listed
        /\ sync'.unprocessed = sync.unprocessed /\ sync'.arrived = sync.arrived
        /\ sync'.delivered = sync.delivered /\ sync'.error = sync.error
    BY <1>1, <2>1 DEF SyncType
  <2>3. Answer(ok) /\ Waits /\ Serve(Current, ok) /\ Entry.tx
        /\ Current.kind \notin {"commit", "rollback"}
    BY <1>7 DEF TransactionGoesOn, Answer
  <2>4. Deletes(sync'.queue, Lost)
    <3>1. /\ sync.queue \in Seq(EntryType) /\ sync.queue # <<>> /\ Entry = sync.queue[1]
          /\ Entry \in EntryType /\ EntryOK(Entry) /\ Entry.jobs # <<>>
          /\ Current = Entry.jobs[1]
      BY <1>1, <2>1, <2>3, Answered
    <3> DEFINE e == GoneOn(Entry)
    <3>2. /\ e \in EntryType
          /\ Changes(e.jobs) = Changes(Tail(Entry.jobs))
          /\ \A j \in Changes(e.jobs) : e.jobs[j] = Tail(Entry.jobs)[j]
      BY <2>3, <3>1, GoneOnSound
    <3> HIDE DEF e
    <3>3. Moved(sync.queue, sync'.queue, Places(sync.queue) \ {<<1, 1>>})
      <4>1. Moved(sync.queue, [sync.queue EXCEPT ![1] = e], Places(sync.queue) \ {<<1, 1>>})
        BY <3>1, <3>2, FirstMoves
      <4> QED BY <2>1, <4>1 DEF e
    <3>4. \E S \in SUBSET Places(sync.queue) : Moved(sync.queue, sync'.queue, S)
      BY <3>3
    <3> QED BY <1>1, <3>4, DeletesMoved
  <2>5. Keeps(store', Lost) /\ Keeps(saved', Lost)
    BY <1>1, <2>3, FirstJobs, ServeKeeps
  <2> QED BY <1>1, <2>2, <2>3, <2>4, <2>5, KnowsStill, AnswerLost
<1>8. CASE TransactionDone
  <2>1. /\ sync'.queue = Tail(sync.queue) /\ sync'.error = (sync.error \/ Entry.failed)
        /\ \A f \in DOMAIN sync \ {"queue", "error", "transactions", "current", "results"} :
               sync'[f] = sync[f]
    BY <1>1, <1>8, DoneKept
  <2>2. /\ sync'.removed = sync.removed /\ sync'.listed = sync.listed
        /\ sync'.unprocessed = sync.unprocessed /\ sync'.arrived = sync.arrived
        /\ sync'.delivered = sync.delivered
    BY <1>1, <2>1 DEF SyncType
  <2>3. Answer(TRUE) /\ Waits
    BY <1>8 DEF TransactionDone, Answer
  <2>4. Deletes(sync'.queue, Lost)
    <3>1. sync.queue \in Seq(EntryType) /\ sync.queue # <<>>
      BY <1>1, <2>3, Answered
    <3>2. \E S \in SUBSET Places(sync.queue) : Moved(sync.queue, Tail(sync.queue), S)
      BY <3>1, RestMoves
    <3> QED BY <1>1, <2>1, <3>2, DeletesMoved
  <2>5. Keeps(store', Lost) /\ Keeps(saved', Lost)
    <3> DEFINE left == Tail(Entry.jobs)
    <3>1. \/ Serve(Current, TRUE)
          \/ /\ left # <<>>
             /\ store' = Effect(Head(left), IF open THEN saved ELSE store) /\ saved' = saved
      BY <1>8 DEF TransactionDone
    <3>2. CASE Serve(Current, TRUE)
      BY <1>1, <2>3, <3>2, FirstJobs, ServeKeeps
    <3>3. CASE /\ left # <<>>
               /\ store' = Effect(Head(left), IF open THEN saved ELSE store) /\ saved' = saved
      <4>1. Head(left).kind = "delete" => Head(left).items \subseteq Lost
        BY <1>1, <2>3, <3>3, FirstJobs
      <4>2. Keeps(IF open THEN saved ELSE store, Lost)
        BY <1>1
      <4> QED BY <1>1, <3>3, <4>1, <4>2, EffectKeeps
    <3> QED BY <3>1, <3>2, <3>3
  <2> QED BY <1>1, <2>1, <2>2, <2>3, <2>4, <2>5, KnowsStill, AnswerLost
<1>9. CASE TransactionFails
  <2>1. /\ sync.listed /\ Sound(sync)
        /\ \A f \in {"listed", "local", "unprocessed", "arrived", "removed", "delivered"} :
               sync'[f] = sync[f]
        /\ FailedAtOnce => sync'.queue = Tail(sync.queue) /\ sync'.error
        /\ ~FailedAtOnce => /\ sync'.queue = [sync.queue EXCEPT ![1] = FailedEntry(Entry)]
                            /\ sync'.error = sync.error
    BY <1>1, <1>9, FailsKept
  <2>2. /\ sync'.removed = sync.removed /\ sync'.listed = sync.listed
        /\ sync'.unprocessed = sync.unprocessed /\ sync'.arrived = sync.arrived
        /\ sync'.delivered = sync.delivered
    BY <2>1
  <2>3. /\ Answer(FALSE) /\ Waits /\ Entry.tx
        /\ Serve(Current, FALSE) \/ Serve(Rollback, TRUE)
    BY Zenon, <1>9 DEF TransactionFails, Answer
  <2>4. Deletes(sync'.queue, Lost)
    <3>1. /\ sync.queue \in Seq(EntryType) /\ sync.queue # <<>> /\ Entry = sync.queue[1]
          /\ Entry \in EntryType /\ 1 \in DOMAIN sync.queue
      BY <1>1, <2>3, Answered
    <3>2. CASE FailedAtOnce
      <4>1. \E S \in SUBSET Places(sync.queue) : Moved(sync.queue, Tail(sync.queue), S)
        BY <3>1, RestMoves
      <4> QED BY <1>1, <2>1, <3>2, <4>1, DeletesMoved
    <3>3. CASE ~FailedAtOnce
      <4> DEFINE e == FailedEntry(Entry)
      <4>1. Changes(e.jobs) = {}
        BY <2>3, <3>1, FailedEntrySound
      <4> HIDE DEF e
      <4>2. /\ DOMAIN sync'.queue = DOMAIN sync.queue
            /\ \A k \in DOMAIN sync.queue : sync'.queue[k] = IF k = 1 THEN e ELSE sync.queue[k]
        BY <2>1, <3>1, <3>3 DEF e
      <4>3. \A p \in Places(sync'.queue) : /\ p \in Places(sync.queue)
                                           /\ JobAt(sync'.queue, p) = JobAt(sync.queue, p)
        <5>1. SUFFICES ASSUME NEW p \in Places(sync'.queue)
                       PROVE  /\ p \in Places(sync.queue)
                              /\ JobAt(sync'.queue, p) = JobAt(sync.queue, p)
          OBVIOUS
        <5>2. /\ p = <<p[1], p[2]>> /\ p[1] \in DOMAIN sync.queue
              /\ p[2] \in Changes(sync'.queue[p[1]].jobs)
          BY <4>2, <5>1, InPlaces
        <5>3. sync'.queue[p[1]] = sync.queue[p[1]]
          BY <4>1, <4>2, <5>2
        <5> QED BY <5>2, <5>3, InPlaces DEF JobAt
      <4> QED BY <1>1, <4>3 DEF Deletes
    <3> QED BY <3>2, <3>3
  <2>5. Keeps(store', Lost) /\ Keeps(saved', Lost)
    <3>1. CASE Serve(Current, FALSE)
      BY <1>1, <2>3, <3>1, FirstJobs, ServeKeeps
    <3>2. CASE Serve(Rollback, TRUE)
      <4>1. ~IsChange(Rollback)
        BY DEF Rollback, Job, IsChange
      <4> QED BY <1>1, <3>2, <4>1, ServeKeeps
    <3> QED BY <2>3, <3>1, <3>2
  <2>6. sync.error => sync'.error
    BY <2>1
  <2> QED BY <1>1, <2>2, <2>3, <2>4, <2>5, <2>6, KnowsStill, AnswerLost
<1>10. CASE UNCHANGED vars
  BY <1>1, <1>10, LostMade DEF vars, Lost, LostInv
<1> QED BY <1>2, <1>3, <1>4, <1>5, <1>6, <1>7, <1>8, <1>9, <1>10 DEF Next, Answers

\* LostInv holds at first.
LEMMA LostInvInit ==
    ASSUME Init
    PROVE  LostInv
<1>1. CountInv
  BY CountInvInit
<1>2. Unlisted(sync) /\ sync.arrived = {} /\ sync.removed = {} /\ ~sync.delivered /\ ~sync.listed
      /\ told = {} /\ gone = {} /\ ~cancelled
  BY <1>1 DEF Init, CountInv, Kept
<1>3. store = before /\ saved = before
  BY DEF Init
<1>4. Places(sync.queue) = {}
  <2>1. sync.queue = <<Plain(Job("list", {}))>>
    BY <1>2 DEF Unlisted
  <2>2. DOMAIN sync.queue = {1} /\ Changes(sync.queue[1].jobs) = {}
    BY <2>1 DEF Plain, Job, Changes, IsChange
  <2> QED BY <2>2 DEF Places
<1> QED BY <1>1, <1>2, <1>3, <1>4 DEF LostInv, Deletes, Keeps, Knows

\* LostInv is an invariant.
LEMMA LostInvAlways == Spec => []LostInv
<1>1. Init => LostInv
  BY LostInvInit
<1>2. LostInv /\ [Next]_vars => LostInv'
  BY LostInvStep
<1> QED BY <1>1, <1>2, PTL DEF Spec

\* An item that was stored is missing only because the resource reported it as removed,
\* or left it out of a full listing that is complete: deleteItems() is never early.
THEOREM NothingIsLost == Spec => []NothingLost
<1>1. LostInv => NothingLost
  BY DEF LostInv, Keeps, Lost, NothingLost
<1> QED BY <1>1, LostInvAlways, PTL

----------------------------------------------------------------------------
(* What becomes of an item                                                 *)

\* the places of the changes that concern an item
Queued(q, i) == {p \in Places(q) : i \in JobAt(q, p).items}

\* the target of an item, when T was delivered and G reported as removed
Aim(T, G, i) ==
    IF i \in T THEN IF form = "full" /\ before[i] # 0 /\ i \notin Changed
                    THEN before[i] ELSE Version(i)
    ELSE IF form = "full" \/ i \in G THEN 0 ELSE before[i]

\* An item has become what it is to be; or its deletion (un) has failed.
Reached(T, G, st, un, i) ==
    \/ st[i] = Aim(T, G, i)
    \/ un /\ Aim(T, G, i) = 0 /\ st[i] = before[i]

\* Nothing has been done about an item that has just arrived (A), is queued, or
\* may still be delivered; what is queued for it is right.
ItemProgress(q, A, swept, T, G, st, un, i) ==
    /\ \A x \in Queued(q, i), y \in Queued(q, i) : x = y
    /\ i \in A => Queued(q, i) = {}
    /\ \A x \in Queued(q, i) :
           IF JobAt(q, x).kind = "delete" THEN swept /\ Aim(T, G, i) = 0 /\ i \notin T
           ELSE i \in T /\ Aim(T, G, i) = Version(i)
    /\ IF i \in A \/ Queued(q, i) # {} \/ (i \notin T /\ ~swept) THEN st[i] = before[i]
       ELSE Reached(T, G, st, un, i)

Progress(q, A, swept, T, G, st, un) ==
    /\ A \subseteq T
    /\ \A i \in Item : ItemProgress(q, A, swept, T, G, st, un, i)

\* What is queued for an item when jobs were taken out,
LEMMA QueuedMoved ==
    ASSUME NEW q, NEW r, NEW S \in SUBSET Places(q), Moved(q, r, S), NEW i
    PROVE  /\ \A y \in Queued(r, i) :
                  \E x \in S : x \in Queued(q, i) /\ JobAt(r, y) = JobAt(q, x)
           /\ Queued(r, i) = {} => S \cap Queued(q, i) = {}
           /\ (\A x \in Queued(q, i), y \in Queued(q, i) : x = y)
                  => \A x \in Queued(r, i), y \in Queued(r, i) : x = y
<1>1. PICK f \in [S -> Places(r)] :
          /\ \A x \in S, y \in S : f[x] = f[y] => x = y
          /\ \A y \in Places(r) : \E x \in S : f[x] = y
          /\ \A x \in S : JobAt(r, f[x]) = JobAt(q, x)
  BY DEF Moved
<1>2. ASSUME NEW y \in Queued(r, i)
      PROVE  \E x \in S : x \in Queued(q, i) /\ JobAt(r, y) = JobAt(q, x) /\ f[x] = y
  <2>1. y \in Places(r) /\ i \in JobAt(r, y).items
    BY DEF Queued
  <2>2. PICK x \in S : f[x] = y
    BY <1>1, <2>1
  <2>3. JobAt(r, y) = JobAt(q, x)
    BY <1>1, <2>2
  <2>4. x \in Queued(q, i)
    BY <2>1, <2>3 DEF Queued
  <2> QED BY <2>2, <2>3, <2>4
<1>3. ASSUME NEW x \in S, x \in Queued(q, i) PROVE f[x] \in Queued(r, i)
  <2>1. JobAt(r, f[x]) = JobAt(q, x) /\ f[x] \in Places(r)
    BY <1>1
  <2> QED BY <1>3, <2>1 DEF Queued
<1> QED BY <1>2, <1>3

\* when they are the same,
LEMMA QueuedSame ==
    ASSUME NEW q, NEW r, Same(q, r), NEW i
    PROVE  /\ Queued(r, i) = Queued(q, i)
           /\ \A x \in Queued(q, i) : JobAt(r, x) = JobAt(q, x)
  BY DEF Same, Queued

\* and when jobs were added.
LEMMA QueuedAdded ==
    ASSUME NEW q, NEW r, NEW jobs, Adds(q, r, jobs), NEW i
    PROVE  /\ \A x \in Queued(q, i) : x \in Queued(r, i) /\ JobAt(r, x) = JobAt(q, x)
           /\ \A y \in Queued(r, i) :
                  y \in Queued(q, i)
                  \/ \E x \in DOMAIN jobs : i \in jobs[x].items /\ JobAt(r, y) = jobs[x]
           /\ \A x \in DOMAIN jobs : i \in jobs[x].items => Queued(r, i) # {}
           /\ /\ \A x \in Queued(q, i), y \in Queued(q, i) : x = y
              /\ \A x \in DOMAIN jobs, y \in DOMAIN jobs :
                     i \in jobs[x].items /\ i \in jobs[y].items => x = y
              /\ Queued(q, i) = {} \/ \A x \in DOMAIN jobs : i \notin jobs[x].items
              => \A x \in Queued(r, i), y \in Queued(r, i) : x = y
<1>1. PICK g \in [DOMAIN jobs -> Places(r) \ Places(q)] :
          /\ \A y \in Places(r) \ Places(q) : \E x \in DOMAIN jobs : g[x] = y
          /\ \A x \in DOMAIN jobs : JobAt(r, g[x]) = jobs[x]
  BY DEF Adds
<1>2. \A x \in Queued(q, i) : x \in Queued(r, i) /\ JobAt(r, x) = JobAt(q, x)
  BY DEF Adds, Queued
<1>3. ASSUME NEW y \in Queued(r, i), y \notin Queued(q, i)
      PROVE  \E x \in DOMAIN jobs :
                 i \in jobs[x].items /\ JobAt(r, y) = jobs[x] /\ g[x] = y
  <2>1. y \in Places(r) /\ i \in JobAt(r, y).items
    BY DEF Queued
  <2>2. y \notin Places(q)
    BY <1>3, <2>1 DEF Adds, Queued
  <2>3. PICK x \in DOMAIN jobs : g[x] = y
    BY <1>1, <2>1, <2>2
  <2> QED BY <1>1, <2>1, <2>3
<1>4. ASSUME NEW x \in DOMAIN jobs, i \in jobs[x].items PROVE g[x] \in Queued(r, i)
  BY <1>1, <1>4 DEF Queued
<1>5. ASSUME \A x \in Queued(q, i), y \in Queued(q, i) : x = y,
             \A x \in DOMAIN jobs, y \in DOMAIN jobs :
                 i \in jobs[x].items /\ i \in jobs[y].items => x = y,
             Queued(q, i) = {} \/ \A x \in DOMAIN jobs : i \notin jobs[x].items,
             NEW x \in Queued(r, i), NEW y \in Queued(r, i)
      PROVE  x = y
  <2>1. CASE Queued(q, i) = {}
    <3>1. PICK a \in DOMAIN jobs : i \in jobs[a].items /\ g[a] = x
      BY <1>3, <2>1
    <3>2. PICK b \in DOMAIN jobs : i \in jobs[b].items /\ g[b] = y
      BY <1>3, <2>1
    <3> QED BY <1>5, <3>1, <3>2
  <2>2. CASE \A a \in DOMAIN jobs : i \notin jobs[a].items
    <3>1. x \in Queued(q, i) /\ y \in Queued(q, i)
      BY <1>3, <2>2
    <3> QED BY <1>5, <3>1
  <2> QED BY <1>5, <2>1, <2>2
<1> QED BY <1>2, <1>3, <1>4, <1>5

\* Jobs that are no changes come and go.
LEMMA ProgressSame ==
    ASSUME NEW q, NEW r, Same(q, r) \/ Moved(q, r, Places(q)),
           NEW A, NEW swept, NEW T, NEW G, NEW st, NEW un, Progress(q, A, swept, T, G, st, un)
    PROVE  Progress(r, A, swept, T, G, st, un)
<1>1. ASSUME NEW i \in Item PROVE ItemProgress(r, A, swept, T, G, st, un, i)
  <2>1. ItemProgress(q, A, swept, T, G, st, un, i)
    BY DEF Progress
  <2>2. CASE Same(q, r)
    BY <2>1, <2>2, QueuedSame DEF ItemProgress
  <2>3. CASE Moved(q, r, Places(q))
    <3>1. /\ \A y \in Queued(r, i) :
                 \E x \in Places(q) : x \in Queued(q, i) /\ JobAt(r, y) = JobAt(q, x)
          /\ Queued(r, i) = {} => Places(q) \cap Queued(q, i) = {}
          /\ \A x \in Queued(r, i), y \in Queued(r, i) : x = y
      <4>1. \A x \in Queued(q, i), y \in Queued(q, i) : x = y
        BY <2>1 DEF ItemProgress
      <4> QED BY <2>3, <4>1, QueuedMoved
    <3>2. Queued(r, i) = {} <=> Queued(q, i) = {}
      BY <3>1 DEF Queued
    <3> QED BY <2>1, <3>1, <3>2 DEF ItemProgress
  <2> QED BY <2>2, <2>3
<1> QED BY <1>1 DEF Progress

\* A change is answered: it was carried out, or a deletion has failed.
LEMMA ProgressServed ==
    ASSUME NEW q, NEW r, NEW pl \in Places(q), Moved(q, r, Places(q) \ {pl}),
           NEW A, NEW swept, NEW T, NEW G, NEW st \in [Item -> 0 .. 2], NEW un,
           Progress(q, A, swept, T, G, st, un),
           NEW st2, NEW un2, un => un2,
           \/ st2 = Effect(JobAt(q, pl), st)
           \/ st2 = st /\ JobAt(q, pl).kind = "delete" /\ un2
    PROVE  Progress(r, A, swept, T, G, st2, un2)
<1> DEFINE job == JobAt(q, pl)
<1>1. ASSUME NEW i \in Item PROVE ItemProgress(r, A, swept, T, G, st2, un2, i)
  <2>1. ItemProgress(q, A, swept, T, G, st, un, i)
    BY DEF Progress
  <2>2. /\ \A y \in Queued(r, i) :
               \E x \in Places(q) \ {pl} : x \in Queued(q, i) /\ JobAt(r, y) = JobAt(q, x)
        /\ Queued(r, i) = {} => (Places(q) \ {pl}) \cap Queued(q, i) = {}
        /\ \A x \in Queued(r, i), y \in Queued(r, i) : x = y
    <3>1. \A x \in Queued(q, i), y \in Queued(q, i) : x = y
      BY <2>1 DEF ItemProgress
    <3> QED BY <3>1, QueuedMoved
  <2>3. CASE i \notin job.items
    <3>1. pl \notin Queued(q, i)
      BY <2>3 DEF Queued
    <3>2. Queued(r, i) = {} <=> Queued(q, i) = {}
      BY <2>2, <3>1 DEF Queued
    <3>3. st2[i] = st[i]
      BY <2>3 DEF Effect
    <3>4. Reached(T, G, st, un, i) => Reached(T, G, st2, un2, i)
      BY <3>3 DEF Reached
    <3> QED BY <2>1, <2>2, <3>2, <3>3, <3>4 DEF ItemProgress
  <2>4. CASE i \in job.items
    <3>1. pl \in Queued(q, i)
      BY <2>4 DEF Queued
    <3>2. \A x \in Queued(q, i) : x = pl
      BY <2>1, <3>1 DEF ItemProgress
    <3>3. Queued(r, i) = {}
      BY <2>2, <3>2
    <3>4. /\ i \notin A /\ st[i] = before[i]
          /\ IF job.kind = "delete" THEN swept /\ Aim(T, G, i) = 0 /\ i \notin T
             ELSE i \in T /\ Aim(T, G, i) = Version(i)
      BY <2>1, <3>1 DEF ItemProgress
    <3>5. \/ st2[i] = IF job.kind = "delete" THEN 0 ELSE Version(i)
          \/ st2[i] = st[i] /\ job.kind = "delete" /\ un2
      BY <2>4 DEF Effect
    <3>6. Reached(T, G, st2, un2, i)
      BY <3>4, <3>5 DEF Reached
    <3> QED BY <3>3, <3>4, <3>6 DEF ItemProgress
  <2> QED BY <2>3, <2>4
<1> QED BY <1>1 DEF Progress

Had == {i \in Item : before[i] # 0}

\* ItemSync knows what is stored, delivered and removed, as long as it can use it.
Lists(s, T, G) ==
    /\ s.removed = G
    /\ IF s.listed THEN s.local = Had /\ s.unprocessed = Had \ (T \ s.arrived)
       ELSE s.arrived = T

\* What has arrived is queued, or left as it is.
LEMMA ArrivedQueued ==
    ASSUME NEW s \in SyncType, s.listed, ~s.error, NEW T, NEW G, Lists(s, T, G),
           form \in {"full", "incremental"},
           NEW st, NEW un, Progress(s.queue, s.arrived, FALSE, T, G, st, un),
           NEW r, Adds(s.queue, r, ProcessJobs(s))
    PROVE  Progress(r, {}, FALSE, T, G, st, un)
<1> DEFINE q == s.queue
           A == s.arrived
           jobs == ProcessJobs(s)
           N == Needed(s)
<1>1. /\ \A k \in DOMAIN jobs : \E i \in N : jobs[k] = JobFor(s, i)
      /\ \A k, l \in DOMAIN jobs : \A i : i \in jobs[k].items /\ i \in jobs[l].items => k = l
      /\ \A i \in N : \E k \in DOMAIN jobs : jobs[k] = JobFor(s, i)
  BY ProcessJobsOK
<1>2. /\ A \subseteq T /\ s.local = Had
      /\ N = {i \in A : i \notin s.local \/ UpdateItem(i)}
  BY DEF Progress, Lists, Needed
<1>3. \A i : JobFor(s, i).items = {i} /\ JobFor(s, i).kind \in {"create", "modify"}
  BY DEF JobFor, Job
<1> HIDE DEF q, A, jobs, N
<1>4. \A k \in DOMAIN jobs : \A i :
          i \in jobs[k].items => i \in N /\ jobs[k].kind \in {"create", "modify"}
  <2>1. SUFFICES ASSUME NEW k \in DOMAIN jobs, NEW i, i \in jobs[k].items
                 PROVE  i \in N /\ jobs[k].kind \in {"create", "modify"}
    OBVIOUS
  <2>2. PICK j \in N : jobs[k] = JobFor(s, j)
    BY <1>1
  <2> QED BY <1>3, <2>1, <2>2
<1>5. ASSUME NEW i \in Item PROVE ItemProgress(r, {}, FALSE, T, G, st, un, i)
  <2>1. ItemProgress(q, A, FALSE, T, G, st, un, i)
    BY DEF Progress, q, A
  <2>2. Adds(q, r, jobs)
    BY DEF q, jobs
  <2>3. /\ \A x \in Queued(q, i) : x \in Queued(r, i) /\ JobAt(r, x) = JobAt(q, x)
        /\ \A y \in Queued(r, i) :
               y \in Queued(q, i)
               \/ \E x \in DOMAIN jobs : i \in jobs[x].items /\ JobAt(r, y) = jobs[x]
        /\ \A x \in DOMAIN jobs : i \in jobs[x].items => Queued(r, i) # {}
    BY <2>2, QueuedAdded
  <2>4. \A x \in Queued(r, i), y \in Queued(r, i) : x = y
    <3>1. \A x \in Queued(q, i), y \in Queued(q, i) : x = y
      BY <2>1 DEF ItemProgress
    <3>2. Queued(q, i) = {} \/ \A x \in DOMAIN jobs : i \notin jobs[x].items
      BY <1>2, <1>4, <2>1 DEF ItemProgress
    <3>3. \A x \in DOMAIN jobs, y \in DOMAIN jobs :
              i \in jobs[x].items /\ i \in jobs[y].items => x = y
      BY <1>1
    <3> QED BY <2>2, <3>1, <3>2, <3>3, QueuedAdded
  <2>5. CASE i \in N
    <3>1. i \in A /\ i \in T /\ st[i] = before[i] /\ Queued(q, i) = {}
      BY <1>2, <2>1, <2>5 DEF ItemProgress
    <3>2. Aim(T, G, i) = Version(i)
      <4>1. before[i] = 0 \/ form = "incremental" \/ i \in Changed
        BY <1>2, <2>5 DEF Had, UpdateItem
      <4> QED BY <3>1, <4>1 DEF Aim
    <3>3. Queued(r, i) # {}
      BY <1>1, <1>3, <2>3, <2>5
    <3>4. \A y \in Queued(r, i) : JobAt(r, y).kind # "delete"
      BY <1>4, <2>3, <3>1
    <3> QED BY <2>4, <3>1, <3>2, <3>3, <3>4 DEF ItemProgress
  <2>6. CASE i \notin N
    <3>1. \A x \in DOMAIN jobs : i \notin jobs[x].items
      BY <1>4, <2>6
    <3>2. Queued(r, i) = Queued(q, i) /\ \A x \in Queued(q, i) : JobAt(r, x) = JobAt(q, x)
      BY <2>3, <3>1
    <3>3. CASE i \in A
      <4>1. i \in T /\ st[i] = before[i] /\ Queued(q, i) = {}
        BY <1>2, <2>1, <3>3 DEF ItemProgress
      <4>2. i \in Had /\ ~UpdateItem(i)
        BY <1>2, <2>6, <3>3
      <4>3. Aim(T, G, i) = before[i]
        BY <4>1, <4>2 DEF Had, UpdateItem, Aim
      <4> QED BY <2>4, <3>2, <4>1, <4>3 DEF ItemProgress, Reached
    <3>4. CASE i \notin A
      BY <2>1, <2>4, <3>2, <3>4 DEF ItemProgress
    <3> QED BY <3>3, <3>4
  <2> QED BY <2>5, <2>6
<1> QED BY <1>5 DEF Progress

\* What is to be deleted is queued.
LEMMA RestQueued ==
    ASSUME NEW s \in SyncType, s.listed, ~s.error, s.arrived = {}, NEW T, NEW G, Lists(s, T, G),
           T \cap G = {}, form \in {"full", "incremental"},
           NEW st, NEW un, Progress(s.queue, {}, FALSE, T, G, st, un),
           NEW r, Adds(s.queue, r, DeleteJobs(s))
    PROVE  Progress(r, {}, TRUE, T, G, st, un)
<1> DEFINE q == s.queue
           jobs == DeleteJobs(s)
           D == ToDelete(s)
<1>1. /\ \A k \in DOMAIN jobs : k = 1 /\ jobs[k] = Job("delete", D)
      /\ \A i \in D : DOMAIN jobs = {1}
  BY DeleteJobsOK
<1>2. \A k \in DOMAIN jobs : jobs[k].items = D /\ jobs[k].kind = "delete"
  BY <1>1 DEF Job
<1>3. D = Had \cap (IF form = "full" THEN Had \ T ELSE G)
  BY DEF Lists, ToDelete
<1> HIDE DEF q, jobs, D
<1>4. ASSUME NEW i \in Item PROVE ItemProgress(r, {}, TRUE, T, G, st, un, i)
  <2>1. ItemProgress(q, {}, FALSE, T, G, st, un, i)
    BY DEF Progress, q
  <2>2. Adds(q, r, jobs)
    BY DEF q, jobs
  <2>3. /\ \A x \in Queued(q, i) : x \in Queued(r, i) /\ JobAt(r, x) = JobAt(q, x)
        /\ \A y \in Queued(r, i) :
               y \in Queued(q, i)
               \/ \E x \in DOMAIN jobs : i \in jobs[x].items /\ JobAt(r, y) = jobs[x]
        /\ \A x \in DOMAIN jobs : i \in jobs[x].items => Queued(r, i) # {}
    BY <2>2, QueuedAdded
  <2>4. i \notin T => Queued(q, i) = {} /\ st[i] = before[i]
    BY <2>1 DEF ItemProgress
  <2>5. i \in D => i \notin T
    BY <1>3
  <2>6. \A x \in Queued(r, i), y \in Queued(r, i) : x = y
    <3>1. \A x \in Queued(q, i), y \in Queued(q, i) : x = y
      BY <2>1 DEF ItemProgress
    <3>2. Queued(q, i) = {} \/ \A x \in DOMAIN jobs : i \notin jobs[x].items
      BY <1>2, <2>4, <2>5
    <3>3. \A x \in DOMAIN jobs, y \in DOMAIN jobs :
              i \in jobs[x].items /\ i \in jobs[y].items => x = y
      BY <1>1
    <3> QED BY <2>2, <3>1, <3>2, <3>3, QueuedAdded
  <2>7. CASE i \in D
    <3>1. i \notin T /\ Queued(q, i) = {} /\ st[i] = before[i]
      BY <2>4, <2>5, <2>7
    <3>2. Aim(T, G, i) = 0
      BY <1>3, <2>7, <3>1 DEF Aim
    <3>3. Queued(r, i) # {} /\ \A y \in Queued(r, i) : JobAt(r, y).kind = "delete"
      BY <1>1, <1>2, <2>3, <2>7, <3>1
    <3> QED BY <2>6, <3>1, <3>2, <3>3 DEF ItemProgress
  <2>8. CASE i \notin D
    <3>1. \A x \in DOMAIN jobs : i \notin jobs[x].items
      BY <1>2, <2>8
    <3>2. Queued(r, i) = Queued(q, i) /\ \A x \in Queued(q, i) : JobAt(r, x) = JobAt(q, x)
      BY <2>3, <3>1
    <3>3. CASE i \in T
      BY <2>1, <2>6, <3>2, <3>3 DEF ItemProgress
    <3>4. CASE i \notin T
      <4>1. Aim(T, G, i) = before[i]
        BY <1>3, <2>8, <3>4 DEF Aim, Had
      <4> QED BY <2>4, <2>6, <3>2, <3>4, <4>1 DEF ItemProgress, Reached
    <3> QED BY <3>3, <3>4
  <2> QED BY <2>7, <2>8
<1> QED BY <1>4 DEF Progress

\* checkDone() leaves the queue alone.
LEMMA CheckDoneQueue ==
    ASSUME NEW s, Sound(s)
    PROVE  CheckDone(s).queue = s.queue
<1>1. s \in SyncType /\ (CheckDone(s) = s \/ CheckDone(s) = [s EXCEPT !.results = 1])
  BY CheckDoneSound DEF Sound
<1> QED BY <1>1 DEF SyncType

\* execute() without an error.
LEMMA ExecuteProgress ==
    ASSUME NEW s, Sound(s), s.results = 0, ~s.error, form \in {"full", "incremental"},
           NEW T, NEW G, T \cap G = {}, Lists(s, T, G),
           NEW st, NEW un, Progress(s.queue, s.arrived, FALSE, T, G, st, un)
    PROVE  LET r == Execute(s) IN
           /\ Progress(r.queue, {}, s.delivered, T, G, st, un)
           /\ ~s.delivered => Lists(r, T, G)
<1> DEFINE p == Begun(s)
           d == Swept(s)
           r == Execute(s)
<1>1. /\ Sound(p) /\ Sound(d) /\ Sound(r)
      /\ IF ~s.delivered /\ s.arrived = {} THEN r = s
         ELSE IF s.delivered THEN r = CheckDone(Committed(d))
         ELSE IF mode = "Multiple" THEN r = Committed(p) ELSE r = p
      /\ Adds(s.queue, p.queue, ProcessJobs(s))
      /\ Adds(p.queue, d.queue, DeleteJobs(p))
      /\ p.error = s.error /\ p.arrived = {}
      /\ p.local = s.local /\ p.removed = s.removed
      /\ p.unprocessed = s.unprocessed \ s.arrived
  BY ExecuteSteps
<1>2. /\ r.arrived = {}
      /\ ~s.delivered => /\ r.local = s.local /\ r.removed = s.removed
                         /\ r.unprocessed = s.unprocessed \ s.arrived
  BY ExecuteFields
<1> HIDE DEF p, d, r
<1>3. /\ s \in SyncType /\ p \in SyncType /\ s.listed /\ p.listed /\ r.listed
      /\ s.delivered \in BOOLEAN
  BY <1>1, SyncFields DEF Sound
<1>4. s.arrived \subseteq T
  BY DEF Progress
<1>5. Progress(p.queue, {}, FALSE, T, G, st, un)
  BY <1>1, <1>3, ArrivedQueued
<1>6. s.unprocessed \ s.arrived = Had \ T
  BY <1>3, <1>4 DEF Lists
<1>7. Lists(p, T, G)
  BY <1>1, <1>3, <1>6 DEF Lists
<1>8. Progress(d.queue, {}, TRUE, T, G, st, un)
  BY <1>1, <1>3, <1>5, <1>7, RestQueued
<1>9. \A x : Sound(x) => Sound(Committed(x)) /\ Same(x.queue, Committed(x).queue)
  BY CommittedSound
<1>10. Progress(r.queue, {}, s.delivered, T, G, st, un)
  <2>1. CASE ~s.delivered /\ s.arrived = {}
    BY <1>1, <1>3, <2>1
  <2>2. CASE s.delivered
    <3>1. Sound(Committed(d)) /\ r = CheckDone(Committed(d)) /\ Same(d.queue, Committed(d).queue)
      BY <1>1, <1>9, <2>2
    <3>2. r.queue = Committed(d).queue
      BY <3>1, CheckDoneQueue
    <3>3. Progress(Committed(d).queue, {}, TRUE, T, G, st, un)
      BY <1>8, <3>1, ProgressSame
    <3>4. s.delivered = TRUE
      BY <1>3, <2>2
    <3> QED BY <3>2, <3>3, <3>4
  <2>3. CASE ~s.delivered /\ s.arrived # {}
    <3>1. r = Committed(p) \/ r = p
      BY <1>1, <2>3
    <3>2. Progress(Committed(p).queue, {}, FALSE, T, G, st, un)
      BY <1>1, <1>5, <1>9, ProgressSame
    <3>3. s.delivered = FALSE
      BY <1>3, <2>3
    <3> QED BY <1>5, <3>1, <3>2, <3>3
  <2> QED BY <2>1, <2>2, <2>3
<1>11. ~s.delivered => Lists(r, T, G)
  BY <1>2, <1>3, <1>6 DEF Lists
<1> QED BY <1>10, <1>11 DEF r

\* What is in the queue of execute(), and used, is still there afterwards.
Grows(q, r) ==
    \A k \in DOMAIN q : q[k].state # "Idle" =>
        /\ k \in DOMAIN r /\ r[k].tx = q[k].tx /\ r[k].state # "Idle"
        /\ q[k].failed => r[k].failed

\* A new transaction is put at the end of the queue.
LEMMA OpenedGrows ==
    ASSUME NEW s, Sound(s), s.results = 0
    PROVE  Grows(s.queue, Opened(s).queue)
<1>1. s \in SyncType /\ s.queue \in Seq(EntryType)
  BY SyncFields DEF Sound
<1>2. Opened(s) = s \/ Opened(s).queue = Append(s.queue, NewTransaction)
  BY OpenedSound
<1>3. NewTransaction \in EntryType
  BY DEF NewTransaction, EntryType
<1>4. CASE Opened(s).queue = Append(s.queue, NewTransaction)
  <2>1. \A k \in DOMAIN s.queue : /\ k \in DOMAIN Append(s.queue, NewTransaction)
                                  /\ Append(s.queue, NewTransaction)[k] = s.queue[k]
    BY <1>1, <1>3
  <2> QED BY <1>4, <2>1 DEF Grows
<1> QED BY <1>2, <1>4 DEF Grows

\* Jobs are added to the last transaction, or at the end of the queue.
LEMMA JobsAddedGrows ==
    ASSUME NEW s, Sound(s), s.results = 0, NEW jobs \in Seq(JobType),
           \A k \in DOMAIN jobs : IsChange(jobs[k])
    PROVE  Grows(s.queue, JobsAdded(s, jobs).queue)
<1> DEFINE r == JobsAdded(s, jobs).queue
           n == Len(s.queue)
<1>1. s \in SyncType /\ s.queue \in Seq(EntryType)
  BY SyncFields DEF Sound
<1>2. /\ s.current => /\ r = [s.queue EXCEPT ![n] = Added(s.queue[n], jobs)]
                      /\ n \in DOMAIN s.queue
                      /\ Added(s.queue[n], jobs) \in EntryType
      /\ ~s.current => r = s.queue \o [k \in DOMAIN jobs |-> Plain(jobs[k])]
  BY JobsAddedSound
<1> HIDE DEF r
<1>3. CASE s.current
  <2> DEFINE e == Added(s.queue[n], jobs)
  <2>1. s.queue[n].tx /\ EntryOK(s.queue[n]) /\ s.queue[n] \in EntryType
    BY <1>1, <1>2, <1>3, EntryTyped DEF Sound, LastUsable, Usable
  <2>2. e.tx = s.queue[n].tx /\ e.failed = s.queue[n].failed
        /\ (e.state = s.queue[n].state \/ e.state = "Running")
    <3>1. CASE jobs = <<>>
      BY <2>1, <3>1 DEF Added
    <3>2. CASE jobs # <<>>
      <4>1. e \in EntryType /\ e.tx /\ e.state = "Running" /\ e.failed = s.queue[n].failed
        BY <2>1, <3>2, AddedJobs
      <4> HIDE DEF e
      <4>2. e.tx \in BOOLEAN /\ s.queue[n].tx \in BOOLEAN
        BY <2>1, <4>1 DEF EntryType
      <4> QED BY <2>1, <4>1, <4>2
    <3> QED BY <3>1, <3>2
  <2>3. \A k \in DOMAIN s.queue : k \in DOMAIN r /\ r[k] = IF k = n THEN e ELSE s.queue[k]
    BY <1>1, <1>2, <1>3
  <2> HIDE DEF e, n
  <2>4. \A k \in DOMAIN s.queue : s.queue[k].state # "Idle" =>
            /\ k \in DOMAIN r /\ r[k].tx = s.queue[k].tx /\ r[k].state # "Idle"
            /\ s.queue[k].failed => r[k].failed
    <3>1. SUFFICES ASSUME NEW k \in DOMAIN s.queue, s.queue[k].state # "Idle"
                   PROVE  /\ k \in DOMAIN r /\ r[k].tx = s.queue[k].tx /\ r[k].state # "Idle"
                          /\ s.queue[k].failed => r[k].failed
      OBVIOUS
    <3>2. CASE k = n
      BY <2>2, <2>3, <3>1, <3>2
    <3>3. CASE k # n
      BY <2>3, <3>1, <3>3
    <3> QED BY <3>2, <3>3
  <2> QED BY <2>4 DEF Grows, r
<1>4. CASE ~s.current
  <2>1. \A k \in 1 .. Len(s.queue) : r[k] = s.queue[k]
    BY <1>1, <1>2, <1>4, PlainAdds
  <2>2. /\ r \in Seq(EntryType) /\ Len(r) = Len(s.queue) + Len(jobs)
        /\ Len(jobs) \in Nat /\ Len(s.queue) \in Nat
    <3> DEFINE x == s.queue \o [k \in DOMAIN jobs |-> Plain(jobs[k])]
    <3>1. x \in Seq(EntryType) /\ Len(x) = Len(s.queue) + Len(jobs)
      BY <1>1, PlainAdds
    <3>2. Len(jobs) \in Nat /\ Len(s.queue) \in Nat
      BY <1>1
    <3> QED BY <1>2, <1>4, <3>1, <3>2
  <2>3. DOMAIN s.queue = 1 .. Len(s.queue) /\ DOMAIN r = 1 .. Len(r)
    BY <1>1, <2>2
  <2>4. DOMAIN s.queue \subseteq DOMAIN r
    BY <2>2, <2>3
  <2> QED BY <2>1, <2>3, <2>4 DEF Grows, r
<1> QED BY <1>3, <1>4

\* commit() takes nothing away but a transaction without jobs.
LEMMA CommittedGrows ==
    ASSUME NEW s, Sound(s)
    PROVE  Grows(s.queue, Committed(s).queue)
<1> DEFINE r == Committed(s)
           n == Len(s.queue)
           t == s.queue[n]
<1>1. s \in SyncType /\ s.queue \in Seq(EntryType)
  BY SyncFields DEF Sound
<1>2. /\ ~s.current => r = s
      /\ s.current => n \in DOMAIN s.queue /\ t \in EntryType /\ EntryOK(t) /\ Usable(t)
      /\ s.current /\ t.state = "Idle" => r.queue = RemoveAt(s.queue, n)
      /\ s.current /\ t.state # "Idle" => r = CommitLast(s)
  BY CommittedSound
<1> HIDE DEF r
<1>3. CASE ~s.current
  BY <1>2, <1>3 DEF Grows, r
<1>4. CASE s.current /\ t.state = "Idle"
  <2>1. /\ RemoveAt(s.queue, n) \in Seq(EntryType) /\ Len(RemoveAt(s.queue, n)) = n - 1
        /\ \A k \in 1 .. n - 1 : RemoveAt(s.queue, n)[k] = s.queue[k]
    BY <1>1, <1>2, <1>4, LastRemoved
  <2>2. \A k \in DOMAIN s.queue : k # n => k \in 1 .. n - 1
    BY <1>1
  <2>3. \A k \in DOMAIN s.queue :
            k # n => k \in DOMAIN r.queue /\ r.queue[k] = s.queue[k]
    BY <1>2, <1>4, <2>1, <2>2
  <2> QED BY <1>4, <2>3 DEF Grows, r
<1>5. CASE s.current /\ t.state # "Idle"
  <2> DEFINE e == IF t.jobs # <<>> THEN [t EXCEPT !.state = "Waiting"] ELSE Added(t, <<Commit>>)
  <2>1. r.queue = [s.queue EXCEPT ![n] = e]
    BY <1>1, <1>2, <1>5 DEF CommitLast, SyncType
  <2>2. e.tx = t.tx /\ e.failed = t.failed /\ e.state \in {"Waiting", "Running"}
    <3>1. t \in EntryType /\ t.tx /\ EntryOK(t) /\ t.state # "Idle"
      BY <1>2, <1>5 DEF Usable
    <3>2. CASE t.jobs # <<>>
      BY <3>1, <3>2 DEF EntryType
    <3>3. CASE t.jobs = <<>>
      <4>1. /\ Added(t, <<Commit>>).tx /\ Added(t, <<Commit>>).state = "Running"
            /\ Added(t, <<Commit>>).failed = t.failed
        BY <3>1, AddedNone
      <4> QED BY <3>1, <3>3, <4>1
    <3> QED BY <3>2, <3>3
  <2>3. \A k \in DOMAIN s.queue :
            k \in DOMAIN r.queue /\ r.queue[k] = IF k = n THEN e ELSE s.queue[k]
    BY <1>1, <2>1
  <2> HIDE DEF e
  <2> QED BY <2>2, <2>3 DEF Grows, r
<1> QED BY <1>3, <1>4, <1>5

\* Nor does execute().
LEMMA ExecuteGrows ==
    ASSUME NEW s, Sound(s), s.results = 0
    PROVE  Grows(s.queue, Execute(s).queue)
<1> DEFINE o == Opened(s)
           p == Begun(s)
           d == Swept(s)
           r == Execute(s)
<1>1. /\ Sound(o) /\ o.results = 0 /\ Sound(p) /\ p.results = 0 /\ Sound(d)
      /\ IF ~s.delivered /\ s.arrived = {} THEN r = s
         ELSE IF s.delivered THEN r = CheckDone(Committed(d))
         ELSE IF mode = "Multiple" THEN r = Committed(p) ELSE r = p
  BY ExecuteSteps
<1>2. p.queue = JobsAdded(o, ProcessJobs(o)).queue
  BY <1>1, ProcessedSound DEF Begun
<1>3. d.queue = p.queue \/ d.queue = JobsAdded(p, DeleteJobs(p)).queue
  BY <1>1, DeletedSound DEF Swept
<1> HIDE DEF o, p, d, r
<1>4. Grows(s.queue, o.queue)
  BY OpenedGrows DEF o
<1>5. Grows(o.queue, p.queue)
  <2>1. /\ ProcessJobs(o) \in Seq(JobType)
        /\ \A k \in DOMAIN ProcessJobs(o) : IsChange(ProcessJobs(o)[k])
    BY <1>1, ProcessJobsOK DEF Sound
  <2> QED BY <1>1, <1>2, <2>1, JobsAddedGrows
<1>6. \A q : Grows(q, q)
  BY DEF Grows
<1>7. Grows(p.queue, d.queue)
  <2>1. /\ DeleteJobs(p) \in Seq(JobType)
        /\ \A k \in DOMAIN DeleteJobs(p) : IsChange(DeleteJobs(p)[k])
    BY <1>1, DeleteJobsOK DEF Sound
  <2> QED BY <1>1, <1>3, <1>6, <2>1, JobsAddedGrows
<1>8. \A x, y, z : Grows(x, y) /\ Grows(y, z) => Grows(x, z)
  BY DEF Grows
<1>9. \A x : Sound(x) => /\ Grows(x.queue, Committed(x).queue)
                          /\ CheckDone(Committed(x)).queue = Committed(x).queue
  BY CommittedGrows, CommittedSound, CheckDoneQueue
<1>10. CASE s.delivered
  <2>1. r.queue = Committed(d).queue
    BY <1>1, <1>9, <1>10
  <2> QED BY <1>1, <1>4, <1>5, <1>7, <1>8, <1>9, <2>1 DEF r
<1>11. CASE ~s.delivered
  <2>1. r = s \/ r = Committed(p) \/ r = p
    BY <1>1, <1>11
  <2>2. Grows(s.queue, p.queue)
    BY <1>4, <1>5, <1>8
  <2>3. Grows(s.queue, r.queue)
    BY <1>1, <1>6, <1>8, <1>9, <2>1, <2>2
  <2> QED BY <2>3 DEF r
<1> QED BY <1>10, <1>11

(* A single transaction                                                    *)

\* The server works on nothing before the transaction has begun.
Starts(e) ==
    e.state = "Idle" \/ (e.jobs # <<>> /\ e.jobs[1].kind \in {"begin", "rollback"})

\* Jobs are added behind the begin.
LEMMA AddedStarts ==
    ASSUME NEW t \in EntryType, t.tx, EntryOK(t), Starts(t), NEW jobs \in Seq(JobType)
    PROVE  Starts(Added(t, jobs))
<1> DEFINE e == Added(t, jobs)
           j0 == IF t.state = "Idle" THEN <<Begin>> ELSE t.jobs
<1>1. CASE jobs = <<>>
  BY <1>1 DEF Added
<1>2. CASE jobs # <<>>
  <2>1. j0 \in Seq(JobType) /\ e.jobs = j0 \o jobs
    BY <1>2, AddedJobs
  <2>2. j0 # <<>> /\ j0[1].kind \in {"begin", "rollback"}
    BY DEF Starts, Begin, Job
  <2> HIDE DEF j0, e
  <2>3. e.jobs # <<>> /\ e.jobs[1] = j0[1]
    BY <2>1, <2>2
  <2> QED BY <2>2, <2>3 DEF Starts, e
<1> QED BY <1>1, <1>2

\* The entry that execute() works with, in mode Single.
Used(s) == IF s.current THEN s.queue[1] ELSE NewTransaction

\* The transaction that is used is the only one.
Alone(s) == IF s.current THEN Len(s.queue) = 1 ELSE s.queue = <<>>

\* What is let go of.
LetGo(t) == IF t.jobs # <<>> THEN [t EXCEPT !.state = "Waiting"] ELSE Added(t, <<Commit>>)

\* Jobs are added to the n-th entry of a queue.
AddedAt(q, n, jobs) == [q EXCEPT ![n] = Added(q[n], jobs)]

\* Jobs are added to the current transaction.
LEMMA LastAdded ==
    ASSUME NEW s, Sound(s), s.results = 0, s.current, NEW jobs \in Seq(JobType),
           \A k \in DOMAIN jobs : IsChange(jobs[k]), NEW n, n = Len(s.queue)
    PROVE  /\ JobsAdded(s, jobs).queue = AddedAt(s.queue, n, jobs)
           /\ Added(s.queue[n], jobs) \in EntryType
<1> DEFINE r == JobsAdded(s, jobs)
           m == Len(s.queue)
<1>1. /\ r.queue = [s.queue EXCEPT ![m] = Added(s.queue[m], jobs)]
      /\ Added(s.queue[m], jobs) \in EntryType
  BY JobsAddedSound
<1> QED BY <1>1 DEF AddedAt

\* execute() with a single transaction: what becomes of its entry.
LEMMA SingleSteps ==
    ASSUME NEW s, Sound(s), s.results = 0, mode = "Single", Alone(s)
    PROVE  LET r  == Execute(s)
               e0 == Used(s)
               e1 == Added(e0, ProcessJobs(s))
               e2 == Added(e1, DeleteJobs(Begun(s))) IN
           /\ e0 \in EntryType /\ e0.tx /\ EntryOK(e0)
           /\ e1 \in EntryType /\ e1.tx /\ EntryOK(e1)
           /\ e2 \in EntryType /\ e2.tx /\ EntryOK(e2)
           /\ ~s.delivered =>
                  r = s \/ (r.current /\ Len(r.queue) = 1 /\ r.queue[1] = e1)
           /\ s.delivered =>
                  IF e2.state = "Idle" THEN r.queue = <<>>
                  ELSE Len(r.queue) = 1 /\ r.queue[1] = LetGo(e2) /\ LetGo(e2).tx
<1> DEFINE o == Opened(s)
           p == Begun(s)
           d == Swept(s)
           r == Execute(s)
           e0 == Used(s)
           e1 == Added(e0, ProcessJobs(s))
           e2 == Added(e1, DeleteJobs(p))
<1>1. /\ Sound(o) /\ o.results = 0 /\ Sound(p) /\ p.results = 0 /\ Sound(d)
      /\ IF ~s.delivered /\ s.arrived = {} THEN r = s
         ELSE IF s.delivered THEN r = CheckDone(Committed(d))
         ELSE IF mode = "Multiple" THEN r = Committed(p) ELSE r = p
      /\ ProcessJobs(o) = ProcessJobs(s)
  BY ExecuteSteps
<1>2. s \in SyncType /\ s.queue \in Seq(EntryType)
      /\ o \in SyncType /\ o.queue \in Seq(EntryType)
      /\ p \in SyncType /\ p.queue \in Seq(EntryType)
      /\ d \in SyncType /\ d.queue \in Seq(EntryType)
  BY <1>1, SyncFields DEF Sound
<1>3. o.current /\ Len(o.queue) = 1 /\ o.queue[1] = e0
  <2>1. CASE s.current
    BY <2>1, OpenedSound DEF Used, Alone
  <2>2. CASE ~s.current
    <3>1. o.current /\ o.queue = Append(s.queue, NewTransaction) /\ s.queue = <<>>
      BY <2>2, OpenedSound DEF Alone
    <3> QED BY <2>2, <3>1 DEF Used
  <2> QED BY <2>1, <2>2
<1>4. /\ p.queue = JobsAdded(o, ProcessJobs(o)).queue /\ p.current = o.current
  <2>1. /\ p.queue = JobsAdded(o, ProcessJobs(o)).queue
        /\ \A f \in DOMAIN o \ {"queue", "pending", "arrived", "unprocessed"} : p[f] = o[f]
    BY <1>1, ProcessedSound DEF Begun
  <2> HIDE DEF o, p
  <2> QED BY <1>2, <2>1 DEF SyncType
<1>5. /\ IF ToDelete(p) = {} THEN d.queue = p.queue
         ELSE d.queue = JobsAdded(p, DeleteJobs(p)).queue
      /\ d.current = p.current
  <2>1. /\ IF ToDelete(p) = {} THEN d.queue = p.queue
           ELSE d.queue = JobsAdded(p, DeleteJobs(p)).queue
        /\ \A f \in DOMAIN p \ {"queue", "pending", "local", "removed", "unprocessed"} :
               d[f] = p[f]
    BY <1>1, DeletedSound DEF Swept
  <2> HIDE DEF d, p
  <2> QED BY <1>2, <2>1 DEF SyncType
<1> HIDE DEF o, p, d, r, e0
<1>6. 1 \in DOMAIN o.queue /\ e0 \in EntryType /\ e0.tx /\ EntryOK(e0)
  <2>1. 1 \in DOMAIN o.queue /\ e0 \in EntryType
    BY <1>2, <1>3
  <2> QED BY <1>1, <1>3, <2>1 DEF Sound, LastUsable, Usable
<1>7. /\ ProcessJobs(o) \in Seq(JobType) /\ DeleteJobs(p) \in Seq(JobType)
      /\ \A k \in DOMAIN ProcessJobs(o) : IsChange(ProcessJobs(o)[k])
      /\ \A k \in DOMAIN DeleteJobs(p) : IsChange(DeleteJobs(p)[k])
  BY <1>2, ProcessJobsOK, DeleteJobsOK
<1>8. p.current /\ Len(p.queue) = 1 /\ p.queue[1] = e1 /\ e1 \in EntryType
  <2>1. /\ p.queue = AddedAt(o.queue, 1, ProcessJobs(o))
        /\ Added(o.queue[1], ProcessJobs(o)) \in EntryType
    BY <1>1, <1>3, <1>4, <1>7, LastAdded
  <2>2. Len(p.queue) = 1 /\ p.queue[1] = Added(o.queue[1], ProcessJobs(o))
    BY <1>2, <1>3, <1>6, <2>1 DEF AddedAt
  <2> QED BY <1>1, <1>3, <1>4, <2>1, <2>2
<1> HIDE DEF e1
<1>9. 1 \in DOMAIN p.queue /\ e1.tx /\ EntryOK(e1)
  <2>1. 1 \in DOMAIN p.queue
    BY <1>2, <1>8
  <2> QED BY <1>1, <1>8, <2>1 DEF Sound, LastUsable, Usable
<1>10. d.current /\ Len(d.queue) = 1 /\ d.queue[1] = e2 /\ e2 \in EntryType
  <2>1. CASE ToDelete(p) = {}
    <3>1. DeleteJobs(p) = <<>>
      BY <2>1 DEF DeleteJobs
    <3>2. e2 = e1
      BY <3>1 DEF Added
    <3> QED BY <1>5, <1>8, <2>1, <3>2
  <2>2. CASE ToDelete(p) # {}
    <3>1. /\ d.queue = AddedAt(p.queue, 1, DeleteJobs(p))
          /\ Added(p.queue[1], DeleteJobs(p)) \in EntryType
      <4> DEFINE jobs == DeleteJobs(p)
      <4>1. /\ Sound(p) /\ p.results = 0 /\ p.current /\ 1 = Len(p.queue)
            /\ jobs \in Seq(JobType) /\ \A k \in DOMAIN jobs : IsChange(jobs[k])
            /\ d.queue = JobsAdded(p, jobs).queue
        BY <1>1, <1>5, <1>7, <1>8, <2>2
      <4> HIDE DEF jobs
      <4>2. /\ JobsAdded(p, jobs).queue = AddedAt(p.queue, 1, jobs)
            /\ Added(p.queue[1], jobs) \in EntryType
        BY <4>1, LastAdded
      <4> QED BY <4>1, <4>2 DEF jobs
    <3>2. Len(d.queue) = 1 /\ d.queue[1] = Added(p.queue[1], DeleteJobs(p))
      BY <1>2, <1>8, <1>9, <3>1 DEF AddedAt
    <3> QED BY <1>5, <1>8, <3>1, <3>2
  <2> QED BY <2>1, <2>2
<1> HIDE DEF e2
<1>11. 1 \in DOMAIN d.queue /\ e2.tx /\ EntryOK(e2)
  <2>1. 1 \in DOMAIN d.queue
    BY <1>2, <1>10
  <2> QED BY <1>1, <1>10, <2>1 DEF Sound, LastUsable, Usable
<1>12. ~s.delivered => r = s \/ (r.current /\ Len(r.queue) = 1 /\ r.queue[1] = e1)
  BY <1>1, <1>8
<1>13. ASSUME s.delivered
       PROVE  IF e2.state = "Idle" THEN r.queue = <<>>
              ELSE Len(r.queue) = 1 /\ r.queue[1] = LetGo(e2) /\ LetGo(e2).tx
  <2> DEFINE c == Committed(d)
  <2>1. /\ Sound(c)
        /\ e2.state = "Idle" => c.queue = RemoveAt(d.queue, 1)
        /\ e2.state # "Idle" => c = CommitLast(d)
    BY <1>1, <1>10, CommittedSound
  <2>2. r.queue = c.queue
    BY <1>1, <1>13, <2>1, CheckDoneQueue
  <2> HIDE DEF c
  <2>3. CASE e2.state = "Idle"
    <3>1. d.queue # <<>> /\ Len(d.queue) = 1
      BY <1>2, <1>10
    <3>2. RemoveAt(d.queue, 1) \in Seq(EntryType) /\ Len(RemoveAt(d.queue, 1)) = 1 - 1
      BY <1>2, <3>1, LastRemoved
    <3>3. RemoveAt(d.queue, 1) = <<>>
      BY <3>2
    <3> QED BY <2>1, <2>2, <2>3, <3>3
  <2>4. CASE e2.state # "Idle"
    <3>1. c.queue = [d.queue EXCEPT ![1] = LetGo(e2)]
      <4>1. c = CommitLast(d) /\ Len(d.queue) = 1 /\ d.queue[1] = e2 /\ d.current
        BY <1>10, <2>1, <2>4
      <4>2. CommitLast(d) = [d EXCEPT !.current = FALSE, !.queue[1] = LetGo(e2)]
        BY <1>2, <4>1 DEF CommitLast, LetGo
      <4> QED BY <1>2, <4>1, <4>2 DEF SyncType
    <3>2. LetGo(e2).tx
      <4>1. CASE e2.jobs # <<>>
        BY <1>10, <1>11, <4>1 DEF LetGo, EntryType
      <4>2. CASE e2.jobs = <<>>
        BY <1>10, <1>11, <4>2, AddedNone DEF LetGo
      <4> QED BY <4>1, <4>2
    <3>3. Len(c.queue) = 1 /\ c.queue[1] = LetGo(e2)
      BY <1>2, <1>10, <1>11, <3>1
    <3> QED BY <2>2, <2>4, <3>2, <3>3
  <2> QED BY <2>3, <2>4
<1> QED BY <1>6, <1>8, <1>9, <1>10, <1>11, <1>12, <1>13 DEF r, e0, e1, e2, p

\* After an error nothing is added.
LEMMA NothingAdded ==
    ASSUME NEW s, Sound(s), s.results = 0, s.error
    PROVE  ProcessJobs(s) = <<>> /\ DeleteJobs(Begun(s)) = <<>>
<1> DEFINE p == Begun(s)
<1>1. s \in SyncType
  BY DEF Sound
<1>2. p.error = s.error
  BY ExecuteSteps
<1> HIDE DEF p
<1>3. DeleteJobs(p) = <<>>
  BY <1>2 DEF DeleteJobs, ToDelete
<1>4. ProcessJobs(s) \in Seq(JobType) /\ DOMAIN ProcessJobs(s) = {}
  BY <1>1, ProcessJobsOK DEF Needed
<1> QED BY <1>3, <1>4 DEF p

\* There is one transaction, which execute() uses, if it is not to be ended.
LEMMA SingleExecute ==
    ASSUME NEW s, Sound(s), s.results = 0, mode = "Single", Alone(s)
    PROVE  LET r == Execute(s) IN
           /\ Len(r.queue) <= 1 /\ \A k \in DOMAIN r.queue : r.queue[k].tx
           /\ ~s.delivered /\ r.queue # <<>> => r.current
           /\ Starts(Used(s)) /\ r.queue # <<>> => Starts(r.queue[1])
           /\ s.error /\ Used(s).state = "Idle" =>
                  IF s.delivered THEN r.queue = <<>>
                  ELSE \A k \in DOMAIN r.queue : r.queue[k].state = "Idle"
<1> DEFINE r  == Execute(s)
           j1 == ProcessJobs(s)
           j2 == DeleteJobs(Begun(s))
           e0 == Used(s)
           e1 == Added(e0, j1)
           e2 == Added(e1, j2)
<1>1. /\ e0 \in EntryType /\ e0.tx /\ EntryOK(e0)
      /\ e1 \in EntryType /\ e1.tx /\ EntryOK(e1)
      /\ e2 \in EntryType /\ e2.tx /\ EntryOK(e2)
      /\ ~s.delivered => r = s \/ (r.current /\ Len(r.queue) = 1 /\ r.queue[1] = e1)
      /\ s.delivered => IF e2.state = "Idle" THEN r.queue = <<>>
                        ELSE Len(r.queue) = 1 /\ r.queue[1] = LetGo(e2) /\ LetGo(e2).tx
  BY SingleSteps
<1>2. s \in SyncType /\ s.queue \in Seq(EntryType) /\ Sound(r) /\ r.queue \in Seq(EntryType)
  BY ExecuteFields, SyncFields DEF Sound
<1>3. j1 \in Seq(JobType) /\ j2 \in Seq(JobType)
  <2>1. Begun(s) \in SyncType
    <3>1. Sound(Begun(s))
      BY ExecuteSteps
    <3> QED BY <3>1 DEF Sound
  <2> QED BY <1>2, <2>1, ProcessJobsOK, DeleteJobsOK
<1>4. s.error => j1 = <<>> /\ j2 = <<>>
  BY NothingAdded
<1> HIDE DEF r, j1, j2, e0
<1>5. Starts(e0) => Starts(e1) /\ Starts(e2)
  <2>1. Starts(e0) => Starts(e1)
    BY <1>1, <1>3, AddedStarts
  <2> HIDE DEF e1
  <2>2. Starts(e1) => Starts(e2)
    BY <1>1, <1>3, AddedStarts
  <2> QED BY <2>1, <2>2
<1>6. s.error => e1 = e0 /\ e2 = e0
  BY <1>4 DEF Added
<1> HIDE DEF e1, e2
<1>7. CASE r = s /\ ~s.delivered
  <2>1. CASE s.current
    <3>1. Len(s.queue) = 1 /\ e0 = s.queue[1] /\ DOMAIN s.queue = {1}
      BY <1>2, <2>1 DEF Alone, Used, e0
    <3>2. s.queue[1].tx
      BY <1>1, <3>1
    <3> QED BY <1>7, <2>1, <3>1, <3>2 DEF r, e0
  <2>2. CASE ~s.current
    <3>1. s.queue = <<>> /\ Len(s.queue) = 0 /\ DOMAIN s.queue = {}
      BY <2>2 DEF Alone
    <3> QED BY <1>7, <3>1 DEF r
  <2> QED BY <2>1, <2>2
<1>8. CASE r.current /\ Len(r.queue) = 1 /\ r.queue[1] = e1 /\ ~s.delivered
  <2>1. DOMAIN r.queue = {1}
    BY <1>2, <1>8
  <2>2. /\ \A k \in DOMAIN r.queue : r.queue[k].tx
        /\ Starts(e0) => Starts(r.queue[1])
        /\ s.error /\ e0.state = "Idle" => \A k \in DOMAIN r.queue : r.queue[k].state = "Idle"
    BY <1>1, <1>5, <1>6, <1>8, <2>1
  <2> QED BY <1>8, <2>2 DEF r, e0
<1>9. CASE s.delivered /\ e2.state = "Idle"
  <2>1. r.queue = <<>> /\ Len(r.queue) = 0 /\ DOMAIN r.queue = {}
    BY <1>1, <1>9
  <2> QED BY <1>9, <2>1 DEF r
<1>10. CASE s.delivered /\ e2.state # "Idle"
  <2>1. Len(r.queue) = 1 /\ r.queue[1] = LetGo(e2) /\ LetGo(e2).tx
    BY <1>1, <1>10
  <2>2. DOMAIN r.queue = {1}
    BY <1>2, <2>1
  <2>3. Starts(e0) => Starts(r.queue[1])
    <3>1. SUFFICES ASSUME Starts(e0) PROVE Starts(LetGo(e2))
      BY <2>1
    <3>2. e2.jobs # <<>> /\ e2.jobs[1].kind \in {"begin", "rollback"}
      BY <1>5, <1>10, <3>1 DEF Starts
    <3>3. LetGo(e2).jobs = e2.jobs
      BY <1>1, <3>2 DEF LetGo, EntryType
    <3> QED BY <3>2, <3>3 DEF Starts
  <2>4. ~(s.error /\ e0.state = "Idle")
    BY <1>6, <1>10
  <2> QED BY <1>10, <2>1, <2>2, <2>3, <2>4 DEF r, e0
<1> QED BY <1>1, <1>7, <1>8, <1>9, <1>10

\* The single transaction was let go of, and something arrives late.
LEMMA SingleLate ==
    ASSUME NEW s, Sound(s), s.results = 0, mode = "Single", s.error, s.delivered, ~s.current
    PROVE  Execute(s).queue = s.queue
<1> DEFINE o == Opened(s)
           p == Begun(s)
           d == Swept(s)
           c == Committed(d)
           m == Len(s.queue) + 1
<1>1. /\ Sound(o) /\ o.results = 0 /\ Sound(p) /\ p.results = 0 /\ Sound(d)
      /\ IF ~s.delivered /\ s.arrived = {} THEN Execute(s) = s
         ELSE IF s.delivered THEN Execute(s) = CheckDone(c)
         ELSE IF mode = "Multiple" THEN Execute(s) = Committed(p) ELSE Execute(s) = p
      /\ ProcessJobs(o) = ProcessJobs(s)
      /\ p.error = s.error
  BY ExecuteSteps
<1>2. /\ s.queue \in Seq(EntryType) /\ Len(s.queue) \in Nat
      /\ o \in SyncType /\ o.queue \in Seq(EntryType)
      /\ p \in SyncType /\ d \in SyncType
  BY <1>1, SyncFields DEF Sound
<1>3. o.current /\ o.queue = Append(s.queue, NewTransaction)
  BY OpenedSound
<1>4. NewTransaction \in EntryType /\ NewTransaction.state = "Idle"
  BY DEF NewTransaction, EntryType
<1>5. /\ p.queue = JobsAdded(o, ProcessJobs(o)).queue
      /\ \A f \in DOMAIN o \ {"queue", "pending", "arrived", "unprocessed"} : p[f] = o[f]
  BY <1>1, ProcessedSound DEF Begun
<1>6. /\ ToDelete(p) = {} => d.queue = p.queue
      /\ \A f \in DOMAIN p \ {"queue", "pending", "local", "removed", "unprocessed"} :
             d[f] = p[f]
  BY <1>1, DeletedSound DEF Swept
<1>7. Sound(c) /\ (d.current /\ d.queue[Len(d.queue)].state = "Idle" =>
                       c.queue = RemoveAt(d.queue, Len(d.queue)))
  BY <1>1, CommittedSound
<1>8. ProcessJobs(o) = <<>>
  BY <1>1, NothingAdded
<1>9. ToDelete(p) = {}
  BY <1>1 DEF ToDelete
<1> HIDE DEF o, p, d, c
<1>10. p.current /\ d.current
  BY <1>2, <1>3, <1>5, <1>6 DEF SyncType
<1>11. /\ Len(o.queue) = m /\ o.queue[m] = NewTransaction
       /\ \A k \in 1 .. Len(s.queue) : o.queue[k] = s.queue[k]
  BY <1>2, <1>3, <1>4
<1>12. p.queue = o.queue
  <2>1. p.queue = [o.queue EXCEPT ![m] = o.queue[m]]
    <3> DEFINE jobs == <<>>
    <3>1. jobs \in Seq(JobType) /\ DOMAIN jobs = {}
      OBVIOUS
    <3>2. /\ Sound(o) /\ o.results = 0 /\ o.current /\ m = Len(o.queue)
          /\ p.queue = JobsAdded(o, jobs).queue
      BY <1>1, <1>3, <1>5, <1>8, <1>11
    <3>3. \A k \in DOMAIN jobs : IsChange(jobs[k])
      BY <3>1
    <3> HIDE DEF m, jobs
    <3>4. /\ Sound(o) /\ o.results = 0 /\ o.current /\ m = Len(o.queue)
          /\ jobs \in Seq(JobType) /\ \A k \in DOMAIN jobs : IsChange(jobs[k])
      BY <3>1, <3>2, <3>3
    <3>5. JobsAdded(o, jobs).queue = AddedAt(o.queue, m, jobs)
      BY <3>4, LastAdded
    <3>6. Added(o.queue[m], jobs) = o.queue[m]
      BY DEF Added, jobs
    <3> QED BY <3>2, <3>5, <3>6 DEF AddedAt
  <2> QED BY <1>2, <2>1
<1>13. c.queue = RemoveAt(o.queue, m)
  BY <1>4, <1>6, <1>7, <1>9, <1>10, <1>11, <1>12
<1>14. RemoveAt(o.queue, m) = s.queue
  <2>1. o.queue # <<>>
    BY <1>2, <1>11
  <2>2. /\ RemoveAt(o.queue, m) \in Seq(EntryType) /\ Len(RemoveAt(o.queue, m)) = m - 1
        /\ \A k \in 1 .. m - 1 : RemoveAt(o.queue, m)[k] = o.queue[k]
    BY <1>2, <1>11, <2>1, LastRemoved
  <2>3. m - 1 = Len(s.queue)
    BY <1>2
  <2> HIDE DEF m
  <2> QED BY <1>2, <1>11, <2>2, <2>3
<1>15. Execute(s) = CheckDone(c)
  BY <1>1
<1> QED BY <1>7, <1>13, <1>14, <1>15, CheckDoneQueue

----------------------------------------------------------------------------
(* What a sync that goes well comes to                                     *)

NoFailed(q) == \A k \in DOMAIN q : ~q[k].failed

\* Nothing has failed so far; or only after all that there is to do was handed
\* to the single transaction.
Intact(s) ==
    /\ NoFailed(s.queue)
    /\ ~s.error \/ (mode = "Single" /\ s.delivered /\ s.listed /\ s.queue # <<>>)

\* The server works on a transaction.
First(q) == q # <<>> /\ q[1].tx /\ q[1].state # "Idle"

\* In mode Single there is one transaction, which is used until all is delivered.
\* It does not get a job any more after an error.
Shape(s) ==
    /\ Len(s.queue) <= 1 /\ \A k \in DOMAIN s.queue : s.queue[k].tx
    /\ ~s.delivered /\ s.queue # <<>> => s.current
    /\ s.error /\ ~s.delivered => \A k \in DOMAIN s.queue : s.queue[k].state = "Idle"

DoneInv ==
    /\ LostInv
    /\ told \cap gone = {}
    /\ sync.listed => sync.arrived = {}
    /\ ~sync.error /\ ~(sync.delivered /\ sync.listed) => Lists(sync, told, gone)
    /\ Intact(sync) =>
           /\ Progress(sync.queue, sync.arrived, sync.delivered /\ sync.listed, told, gone,
                       store, undeleted)
           /\ open => First(sync.queue)
    /\ mode = "Single" /\ sync.listed => Shape(sync)

\* A transaction that failed stays in the queue.
LEMMA NoFailedBefore ==
    ASSUME NEW q \in Seq(EntryType), \A k \in DOMAIN q : EntryOK(q[k]),
           NEW r, Grows(q, r), NoFailed(r)
    PROVE  NoFailed(q)
<1>1. SUFFICES ASSUME NEW k \in DOMAIN q, q[k].failed PROVE FALSE
  BY DEF NoFailed
<1>2. q[k] \in EntryType /\ q[k].tx \in BOOLEAN /\ EntryOK(q[k])
  BY EntryTyped
<1>3. q[k].tx /\ HasKind(q[k].jobs, "rollback")
  BY <1>1, <1>2 DEF EntryOK
<1>4. q[k].jobs # <<>>
  <2>1. DOMAIN <<>> = {}
    OBVIOUS
  <2> QED BY <1>3, <2>1 DEF HasKind
<1>5. q[k].state # "Idle"
  BY <1>2, <1>3, <1>4 DEF EntryOK
<1> QED BY <1>1, <1>5 DEF Grows, NoFailed

\* The transaction at the head of the queue stays there.
LEMMA FirstStill ==
    ASSUME NEW q \in Seq(EntryType), First(q), NEW r \in Seq(EntryType), Grows(q, r)
    PROVE  First(r)
<1>1. 1 \in DOMAIN q
  BY DEF First
<1>2. 1 \in DOMAIN r /\ r[1].tx = q[1].tx /\ r[1].state # "Idle"
  BY <1>1 DEF First, Grows
<1> QED BY <1>2 DEF First

\* More is delivered, of which nothing was heard before.
LEMMA ProgressTold ==
    ASSUME NEW q, NEW A, NEW T, NEW G, NEW st, NEW un, Progress(q, A, FALSE, T, G, st, un),
           NEW C, NEW R, (C \cup R) \cap (T \cup G) = {}, C \cap R = {}
    PROVE  Progress(q, A \cup C, FALSE, T \cup C, G \cup R, st, un)
<1>1. A \subseteq T
  BY DEF Progress
<1>2. ASSUME NEW i \in Item PROVE ItemProgress(q, A \cup C, FALSE, T \cup C, G \cup R, st, un, i)
  <2>1. ItemProgress(q, A, FALSE, T, G, st, un, i)
    BY DEF Progress
  <2>2. CASE i \in T
    <3>1. i \notin C /\ i \notin R
      BY <2>2
    <3>2. Aim(T \cup C, G \cup R, i) = Aim(T, G, i)
      BY <2>2 DEF Aim
    <3>3. Reached(T, G, st, un, i) => Reached(T \cup C, G \cup R, st, un, i)
      BY <3>2 DEF Reached
    <3> QED BY <2>1, <2>2, <3>1, <3>2, <3>3 DEF ItemProgress
  <2>3. CASE i \notin T
    <3>1. Queued(q, i) = {} /\ st[i] = before[i] /\ i \notin A
      BY <1>1, <2>1, <2>3 DEF ItemProgress
    <3> QED BY <2>3, <3>1 DEF ItemProgress
  <2> QED BY <2>2, <2>3
<1> QED BY <1>1, <1>2 DEF Progress

\* What has to be shown of a step.
LEMMA DoneMade ==
    ASSUME LostInv', UNCHANGED <<mode, form, before>>, told' \cap gone' = {},
           sync'.listed => sync'.arrived = {},
           ~sync'.error /\ ~(sync'.delivered /\ sync'.listed) => Lists(sync', told', gone'),
           Intact(sync') =>
               /\ Progress(sync'.queue, sync'.arrived, sync'.delivered /\ sync'.listed,
                           told', gone', store', undeleted')
               /\ open' => First(sync'.queue),
           mode = "Single" /\ sync'.listed => Shape(sync')
    PROVE  DoneInv'
<1>1. Lists(sync', told', gone') => Lists(sync, told, gone)'
  BY DEF Lists, Had
<1>2. Intact(sync)' => Intact(sync')
  BY DEF Intact
<1>3. Progress(sync'.queue, sync'.arrived, sync'.delivered /\ sync'.listed,
               told', gone', store', undeleted')
      => Progress(sync.queue, sync.arrived, sync.delivered /\ sync.listed,
                  told, gone, store, undeleted)'
  BY DEF Progress, ItemProgress, Reached, Aim
<1> QED BY <1>1, <1>2, <1>3 DEF DoneInv

\* A change of the queue that leaves alone what ItemSync knows.
LEMMA ListsStill ==
    ASSUME NEW s, NEW r, NEW T, NEW G, Lists(s, T, G), r.removed = s.removed,
           r.listed = s.listed, r.local = s.local, r.unprocessed = s.unprocessed,
           r.arrived = s.arrived
    PROVE  Lists(r, T, G)
  BY DEF Lists

\* execute() in mode Single keeps the shape.
LEMMA SingleShape ==
    ASSUME NEW s, Sound(s), s.results = 0, mode = "Single", Alone(s),
           s.error /\ ~s.delivered => Used(s).state = "Idle"
    PROVE  LET r == Execute(s) IN
           /\ Shape(r)
           /\ s.error /\ s.delivered /\ Used(s).state = "Idle" => r.queue = <<>>
           /\ Starts(Used(s)) /\ r.queue # <<>> => Starts(r.queue[1])
<1> DEFINE r == Execute(s)
<1>1. /\ Len(r.queue) <= 1 /\ \A k \in DOMAIN r.queue : r.queue[k].tx
      /\ ~s.delivered /\ r.queue # <<>> => r.current
      /\ Starts(Used(s)) /\ r.queue # <<>> => Starts(r.queue[1])
      /\ s.error /\ Used(s).state = "Idle" =>
             IF s.delivered THEN r.queue = <<>>
             ELSE \A k \in DOMAIN r.queue : r.queue[k].state = "Idle"
  BY SingleExecute
<1>2. r.delivered = s.delivered /\ r.error = s.error
  BY ExecuteFields
<1> HIDE DEF r
<1>3. Shape(r)
  BY <1>1, <1>2 DEF Shape
<1> QED BY <1>1, <1>3 DEF r

\* In mode Single, the transaction is alone; or it was let go of already.
LEMMA SingleCases ==
    ASSUME NEW s, Sound(s), Len(s.queue) <= 1, s.delivered \/ s.queue = <<>> \/ s.current
    PROVE  Alone(s) \/ (s.delivered /\ ~s.current /\ s.queue # <<>>)
<1>1. s.queue \in Seq(EntryType)
  BY SyncFields DEF Sound
<1>2. s.current => s.queue # <<>>
  BY DEF Sound, LastUsable
<1>3. s.queue # <<>> => Len(s.queue) = 1
  <2>1. s.queue # <<>> => 1 \in DOMAIN s.queue
    BY <1>1, TailShifts
  <2> DEFINE n == Len(s.queue)
  <2>2. n \in Nat /\ DOMAIN s.queue = 1 .. n /\ n <= 1
    BY <1>1
  <2> HIDE DEF n
  <2>3. s.queue # <<>> => n = 1
    BY <2>1, <2>2
  <2> QED BY <2>3 DEF n
<1> QED BY <1>2, <1>3 DEF Alone

\* execute() adds something, or not, to what may still succeed.
LEMMA CallOnCourse ==
    ASSUME NEW s, Sound(s), s.results = 0, ~s.error, form \in {"full", "incremental"},
           NEW T, NEW G, T \cap G = {}, Lists(s, T, G), NEW st, NEW un,
           NoFailed(s.queue) => Progress(s.queue, s.arrived, FALSE, T, G, st, un)
                                /\ (open => First(s.queue))
    PROVE  LET r == Execute(s) IN
           NoFailed(r.queue) =>
               /\ Progress(r.queue, {}, s.delivered, T, G, st, un)
               /\ open => First(r.queue)
<1> DEFINE r == Execute(s)
<1> SUFFICES ASSUME NoFailed(r.queue)
             PROVE  /\ Progress(r.queue, {}, s.delivered, T, G, st, un)
                    /\ open => First(r.queue)
  OBVIOUS
<1>1. Grows(s.queue, r.queue)
  BY ExecuteGrows
<1>2. /\ s.queue \in Seq(EntryType) /\ \A k \in DOMAIN s.queue : EntryOK(s.queue[k])
      /\ r.queue \in Seq(EntryType)
  BY ExecuteFields, SyncFields DEF Sound
<1>3. NoFailed(s.queue)
  BY <1>1, <1>2, NoFailedBefore
<1>4. Progress(r.queue, {}, s.delivered, T, G, st, un)
  BY <1>3, ExecuteProgress
<1>5. open => First(r.queue)
  BY <1>1, <1>2, <1>3, FirstStill
<1> QED BY <1>4, <1>5

\* ItemSync knows what is delivered, too.
LEMMA ListsTold ==
    ASSUME NEW s, NEW T, NEW G, Lists(s, T, G), s.listed => s.arrived = {},
           NEW C, NEW R, (C \cup R) \cap (T \cup G) = {},
           NEW u, u.removed = s.removed \cup R, u.arrived = s.arrived \cup C,
           u.listed = s.listed, u.local = s.local, u.unprocessed = s.unprocessed
    PROVE  Lists(u, T \cup C, G \cup R)
<1>1. CASE s.listed
  <2>1. (T \cup C) \ u.arrived = T
    BY <1>1
  <2> QED BY <1>1, <2>1 DEF Lists
<1>2. CASE ~s.listed
  BY <1>2 DEF Lists
<1> QED BY <1>1, <1>2

\* A call that hands something over, in mode Single.
LEMMA SingleCall ==
    ASSUME NEW s, Shape(s), s.delivered => s.error /\ ~s.current,
           NEW u, Sound(u), u.results = 0, mode = "Single",
           u.queue = s.queue, u.current = s.current, u.error = s.error,
           s.delivered => u.delivered
    PROVE  LET r == Execute(u) IN
           /\ Shape(r)
           /\ s.error /\ u.delivered /\ r.queue # <<>> => r.queue = s.queue /\ s.delivered
           /\ (s.queue # <<>> => Starts(s.queue[1])) /\ r.queue # <<>> => Starts(r.queue[1])
<1> DEFINE r == Execute(u)
<1>1. u \in SyncType /\ u.queue \in Seq(EntryType) /\ u.current \in BOOLEAN
  BY SyncFields DEF Sound
<1>2. Alone(u) \/ (u.delivered /\ ~u.current /\ u.queue # <<>>)
  BY SingleCases DEF Shape
<1>3. ASSUME Alone(u)
      PROVE  /\ Shape(r)
             /\ s.error /\ u.delivered => r.queue = <<>>
             /\ (s.queue # <<>> => Starts(s.queue[1])) /\ r.queue # <<>> => Starts(r.queue[1])
  <2>1. s.error => Used(u).state = "Idle"
    <3>1. CASE ~u.current
      BY <3>1 DEF Used, NewTransaction
    <3>2. CASE u.current /\ s.error
      <4>1. ~s.delivered /\ \A k \in DOMAIN s.queue : s.queue[k].state = "Idle"
        BY <3>2 DEF Shape
      <4>2. 1 \in DOMAIN s.queue
        BY <1>1, <1>3, <3>2 DEF Alone
      <4> QED BY <3>2, <4>1, <4>2 DEF Used
    <3> QED BY <1>1, <3>1, <3>2
  <2>2. (s.queue # <<>> => Starts(s.queue[1])) => Starts(Used(u))
    <3>1. CASE ~u.current
      BY <3>1 DEF Used, NewTransaction, Starts
    <3>2. CASE u.current
      BY <3>2 DEF Used, Sound, LastUsable
    <3> QED BY <1>1, <3>1, <3>2
  <2> QED BY <1>3, <2>1, <2>2, SingleShape
<1>4. ASSUME u.delivered, ~u.current, u.queue # <<>>
      PROVE  Shape(r) /\ r.queue = s.queue /\ s.delivered
  <2>1. s.delivered /\ s.error
    BY <1>4 DEF Shape
  <2>2. r.queue = s.queue
    BY <1>4, <2>1, SingleLate
  <2>3. r.delivered = u.delivered
    BY ExecuteFields
  <2> QED BY <1>4, <2>1, <2>2, <2>3 DEF Shape
<1> QED BY <1>2, <1>3, <1>4

\* The resource delivers something, or nothing: Deliver and DeliveryDone.
LEMMA HandedOver ==
    ASSUME DoneInv, LostInv', NEW chunk \in SUBSET Item, NEW removed \in SUBSET Item,
           NEW last \in BOOLEAN,
           sync' = Execute(Delivering(sync, chunk, removed, last)), sync.results = 0,
           sync.listed => Sound(Delivering(sync, chunk, removed, last)),
           ~sync.listed => sync' = Delivering(sync, chunk, removed, last),
           sync.delivered => cancelled,
           (chunk \cup removed) \cap (told \cup gone) = {}, chunk \cap removed = {},
           told' = IF cancelled THEN told ELSE told \cup chunk,
           gone' = IF cancelled THEN gone ELSE gone \cup removed,
           UNCHANGED <<mode, form, store, open, before, undeleted>>
    PROVE  DoneInv'
<1> DEFINE u == Delivering(sync, chunk, removed, last)
<1>1. /\ sync \in SyncType /\ LostInv /\ CountInv /\ Kept(sync)
      /\ cancelled => sync.error /\ sync.delivered
      /\ told \cap gone = {}
      /\ sync.listed => sync.arrived = {}
      /\ ~sync.error /\ ~(sync.delivered /\ sync.listed) => Lists(sync, told, gone)
      /\ Intact(sync) =>
           /\ Progress(sync.queue, sync.arrived, sync.delivered /\ sync.listed, told, gone,
                       store, undeleted)
           /\ open => First(sync.queue)
      /\ mode = "Single" /\ sync.listed => Shape(sync)
      /\ form \in {"full", "incremental"}
      /\ sync.delivered => ~sync.current
  BY ItemSyncAssumption DEF DoneInv, LostInv, CountInv, TypeOK, Kept
<1>2. /\ u.arrived = sync.arrived \cup chunk /\ u.removed = sync.removed \cup removed
      /\ u.delivered = (sync.delivered \/ last) /\ u.error = sync.error
      /\ u.local = sync.local /\ u.unprocessed = sync.unprocessed /\ u.listed = sync.listed
      /\ u.queue = sync.queue /\ u.current = sync.current /\ u.results = sync.results
  BY <1>1 DEF SyncType, Delivering
<1>3. /\ sync' = Execute(u) /\ (sync.listed => Sound(u)) /\ (~sync.listed => sync' = u)
  OBVIOUS
<1> HIDE DEF u
<1>4. /\ sync.listed \in BOOLEAN /\ sync.delivered \in BOOLEAN /\ sync.error \in BOOLEAN
  BY <1>1, SyncFields
<1>5. ~sync.error => /\ ~sync.delivered /\ ~cancelled
                     /\ told' = told \cup chunk /\ gone' = gone \cup removed
                     /\ Lists(sync, told, gone)
  BY <1>1
<1>6. told' \cap gone' = {}
  BY <1>1
<1>7. CASE ~sync.listed
  <2>1. /\ sync' = u /\ ~u.listed /\ (u.delivered /\ u.listed) = FALSE
    BY <1>2, <1>3, <1>7
  <2>2. ASSUME ~u.error PROVE Lists(u, told', gone')
    <3>1. Lists(u, told \cup chunk, gone \cup removed)
      BY <1>2, <1>5, <1>7, <2>2, ListsTold
    <3> QED BY <1>2, <1>5, <2>2, <3>1
  <2>3. ASSUME Intact(u)
        PROVE  /\ Progress(u.queue, u.arrived, FALSE, told', gone', store, undeleted)
               /\ open => First(u.queue)
    <3>1. ~sync.error /\ Intact(sync)
      BY <1>2, <2>1, <2>3 DEF Intact
    <3>2. (sync.delivered /\ sync.listed) = FALSE
      BY <1>7
    <3>3. Progress(sync.queue, sync.arrived, FALSE, told, gone, store, undeleted)
      BY <1>1, <3>1, <3>2
    <3>4. Progress(sync.queue, sync.arrived \cup chunk, FALSE, told \cup chunk,
                   gone \cup removed, store, undeleted)
      BY <3>3, ProgressTold
    <3> QED BY <1>1, <1>2, <1>5, <3>1, <3>4
  <2> QED BY <1>6, <2>1, <2>2, <2>3, DoneMade
<1>8. CASE sync.listed
  <2> DEFINE r == Execute(u)
  <2>1. Sound(u) /\ u.results = 0 /\ sync.arrived = {} /\ sync' = r
    BY <1>1, <1>2, <1>3, <1>8
  <2>2. /\ r.listed /\ r.delivered = u.delivered /\ r.error = u.error
        /\ r.arrived = {} /\ r.delivered \in BOOLEAN
    BY <2>1, ExecuteFields, SyncFields DEF Sound
  <2>3. mode = "Single" =>
            /\ Shape(r)
            /\ sync.error /\ u.delivered /\ r.queue # <<>> =>
                   r.queue = sync.queue /\ sync.delivered
    <3>1. ASSUME mode = "Single" PROVE Shape(sync)
      BY <1>1, <1>8, <3>1
    <3> QED BY <1>1, <1>2, <2>1, <3>1, SingleCall
  <2> HIDE DEF r
  <2>4. CASE ~sync.error
    <3>1. Lists(u, told', gone')
      <4>1. Lists(u, told \cup chunk, gone \cup removed)
        BY <1>1, <1>2, <1>5, <2>4, ListsTold
      <4> QED BY <1>5, <2>4, <4>1
    <3>2. ASSUME NoFailed(u.queue)
          PROVE  /\ Progress(u.queue, u.arrived, FALSE, told', gone', store, undeleted)
                 /\ open => First(u.queue)
      <4>1. Intact(sync) /\ (sync.delivered /\ sync.listed) = FALSE
        BY <1>2, <1>4, <1>5, <2>4, <3>2 DEF Intact
      <4>2. Progress(sync.queue, sync.arrived, FALSE, told, gone, store, undeleted)
        BY <1>1, <4>1
      <4>3. Progress(sync.queue, sync.arrived \cup chunk, FALSE, told \cup chunk,
                     gone \cup removed, store, undeleted)
        BY <4>2, ProgressTold
      <4> QED BY <1>1, <1>2, <1>5, <2>4, <4>1, <4>3
    <3>3. ~u.error
      BY <1>2, <2>4
    <3>4. NoFailed(r.queue) =>
              /\ Progress(r.queue, {}, u.delivered, told', gone', store, undeleted)
              /\ open => First(r.queue)
      BY <1>1, <1>6, <2>1, <3>1, <3>2, <3>3, CallOnCourse DEF r
    <3>5. ~u.delivered => Lists(r, told', gone')
      <4>1. CASE ~u.delivered
        <5>1. /\ r.local = u.local /\ r.removed = u.removed
              /\ r.unprocessed = u.unprocessed \ u.arrived
          BY <2>1, <4>1, ExecuteFields DEF r
        <5>2. u.arrived \subseteq told'
          BY <1>2, <1>5, <2>1, <2>4
        <5> QED BY <1>2, <1>8, <2>2, <3>1, <5>1, <5>2 DEF Lists
      <4> QED BY <4>1
    <3>6. (r.delivered /\ r.listed) = u.delivered
      BY <2>2
    <3> QED BY <1>6, <2>1, <2>2, <2>3, <3>4, <3>5, <3>6, DoneMade DEF Intact
  <2>5. CASE sync.error
    <3>1. r.error
      BY <1>2, <2>2, <2>5
    <3>2. ASSUME Intact(r)
          PROVE  /\ Progress(r.queue, {}, r.delivered /\ r.listed, told', gone', store, undeleted)
                 /\ open => First(r.queue)
      <4>1. mode = "Single" /\ u.delivered /\ r.queue # <<>> /\ NoFailed(r.queue)
        BY <2>2, <3>1, <3>2 DEF Intact
      <4>2. r.queue = sync.queue /\ sync.delivered
        BY <2>3, <2>5, <4>1
      <4>3. Intact(sync) /\ told' = told /\ gone' = gone
        BY <1>8, <4>1, <4>2 DEF Intact
      <4>4. (sync.delivered /\ sync.listed) = TRUE /\ (r.delivered /\ r.listed) = TRUE
        BY <1>4, <1>8, <2>2, <4>1, <4>2
      <4> QED BY <1>1, <2>1, <4>2, <4>3, <4>4
    <3> QED BY <1>6, <2>1, <2>2, <2>3, <3>1, <3>2, DoneMade
  <2> QED BY <1>4, <2>4, <2>5
<1> QED BY <1>4, <1>7, <1>8

\* rollback() in mode Single.
LEMMA SingleCancel ==
    ASSUME NEW s \in SyncType, Shape(s), s.delivered => ~s.current, mode = "Single",
           Sound(Failing(s)), Failing(s).results = 0, Sound(Cancelling(s)),
           Cancelling(s).results = 0
    PROVE  LET r == Execute(Cancelling(s)) IN
           /\ Shape(r)
           /\ NoFailed(r.queue) /\ r.queue # <<>> => r.queue = s.queue /\ s.delivered
           /\ s.delivered /\ s.queue = <<>> => r.queue = <<>>
           /\ (s.queue # <<>> => Starts(s.queue[1])) /\ r.queue # <<>> => Starts(r.queue[1])
<1> DEFINE a == Failing(s)
           b == RolledBack(a)
           u == Cancelling(s)
           r == Execute(u)
           n == Len(s.queue)
           t == s.queue[n]
           e == [Added(t, <<Rollback>>) EXCEPT !.failed = TRUE]
<1>1. /\ a \in SyncType /\ a.error /\ a.queue = s.queue /\ a.current = s.current
      /\ a.delivered = s.delivered /\ a.results = 0 /\ Sound(a) /\ Sound(u) /\ u.results = 0
  BY DEF Failing, SyncType
<1> HIDE DEF a
<1>2. /\ Sound(b) /\ b.results = 0 /\ b.error
      /\ s.current => n \in DOMAIN s.queue /\ t \in EntryType /\ EntryOK(t) /\ Usable(t)
      /\ ~s.current => b = a
      /\ s.current /\ t.state = "Idle" => b.queue = RemoveAt(s.queue, n) /\ ~b.current
      /\ s.current /\ t.state # "Idle" => b.current /\ b.queue = [s.queue EXCEPT ![n] = e]
  BY <1>1, RolledBackSound
<1> HIDE DEF b
<1>3. u.queue = b.queue /\ u.current = b.current /\ u.delivered /\ u.error
  BY <1>2 DEF Cancelling, Sound, SyncType, a, b
<1> HIDE DEF u, t, e
<1>4. s.queue \in Seq(EntryType) /\ u.queue \in Seq(EntryType) /\ r.queue \in Seq(EntryType)
      /\ s.current \in BOOLEAN /\ s.delivered \in BOOLEAN
  BY <1>1, ExecuteFields, SyncFields DEF Sound
<1>5. r.delivered = TRUE
  BY <1>1, <1>3, ExecuteFields, SyncFields DEF Sound
<1> HIDE DEF r
<1>6. n \in {0, 1}
  <2>1. n <= 1
    BY DEF Shape
  <2>2. n \in Nat
    BY <1>4
  <2> HIDE DEF n
  <2> QED BY <2>1, <2>2
<1>7. CASE u.queue = <<>> /\ ~u.current
  <2>1. Alone(u) /\ Used(u) = NewTransaction /\ Used(u).state = "Idle"
    BY <1>7 DEF Alone, Used, NewTransaction
  <2>2. r.queue = <<>> /\ Shape(r)
    BY <1>1, <1>3, <2>1, SingleShape DEF r
  <2> QED BY <2>2 DEF r, u
<1>8. CASE s.current /\ t.state = "Idle"
  <2>1. RemoveAt(s.queue, n) = <<>>
    <3>1. s.queue # <<>>
      BY <1>2, <1>8
    <3>2. RemoveAt(s.queue, n) \in Seq(EntryType) /\ Len(RemoveAt(s.queue, n)) = n - 1
      BY <1>4, <3>1, LastRemoved
    <3>3. n = 1
      BY <1>2, <1>4, <1>6, <1>8
    <3> HIDE DEF n
    <3> QED BY <3>2, <3>3
  <2> QED BY <1>2, <1>3, <1>7, <1>8, <2>1
<1>9. CASE s.current /\ t.state # "Idle"
  <2>1. n = 1 /\ s.queue # <<>>
    BY <1>2, <1>4, <1>6, <1>9
  <2>2. /\ e \in EntryType /\ e.tx /\ e.failed /\ e.state = "Running" /\ e.jobs = Append(t.jobs, Rollback)
    <3> DEFINE e1 == Added(t, <<Rollback>>)
    <3>1. e1 \in EntryType /\ e1.tx /\ e1.state = "Running" /\ e1.jobs = Append(t.jobs, Rollback)
      BY <1>2, <1>9, AddedNone DEF Usable
    <3> HIDE DEF e1
    <3>2. e = [e1 EXCEPT !.failed = TRUE]
      BY DEF e, e1
    <3> QED BY <3>1, <3>2 DEF EntryType
  <2>3. u.current /\ Len(u.queue) = 1 /\ u.queue[1] = e /\ DOMAIN u.queue = {1}
    BY <1>2, <1>3, <1>4, <1>9, <2>1, <2>2
  <2>4. Alone(u) /\ Used(u) = e
    BY <2>3 DEF Alone, Used
  <2>5. Shape(r) /\ (Starts(e) /\ r.queue # <<>> => Starts(r.queue[1]))
    BY <1>1, <1>3, <2>4, SingleShape DEF r
  <2>6. ~NoFailed(r.queue)
    <3>1. Grows(u.queue, r.queue)
      BY <1>1, ExecuteGrows DEF r
    <3> QED BY <2>2, <2>3, <3>1 DEF Grows, NoFailed
  <2>7. Starts(s.queue[1]) => Starts(e)
    <3>1. t = s.queue[1] /\ t.jobs \in Seq(JobType)
      BY <1>2, <1>9, <2>1 DEF t, EntryType
    <3>2. Starts(t) => t.jobs # <<>> /\ t.jobs[1].kind \in {"begin", "rollback"}
      BY <1>9 DEF Starts
    <3>3. t.jobs # <<>> => e.jobs # <<>> /\ e.jobs[1] = t.jobs[1]
      <4>1. Rollback \in JobType
        BY DEF Rollback, Job, JobType
      <4> QED BY <2>2, <3>1, <4>1
    <3> QED BY <3>1, <3>2, <3>3 DEF Starts
  <2> QED BY <1>9, <2>1, <2>5, <2>6, <2>7 DEF r, u
<1>10. CASE ~s.current /\ s.queue # <<>>
  <2>1. s.delivered
    BY <1>10 DEF Shape
  <2>2. u.queue = s.queue /\ ~u.current
    BY <1>1, <1>2, <1>3, <1>10
  <2>3. r.queue = s.queue
    BY <1>1, <1>3, <2>2, SingleLate DEF r
  <2>4. Shape(r)
    BY <1>5, <2>3 DEF Shape
  <2> QED BY <1>10, <2>1, <2>3, <2>4 DEF r, u
<1>11. CASE ~s.current /\ s.queue = <<>>
  BY <1>1, <1>2, <1>3, <1>7, <1>11
<1> QED BY <1>4, <1>8, <1>9, <1>10, <1>11

\* Cancel keeps DoneInv.
LEMMA CancelDone ==
    ASSUME DoneInv, LostInv', Cancel
    PROVE  DoneInv'
<1> DEFINE u == Cancelling(sync)
           r == Execute(u)
<1>1. /\ sync \in SyncType /\ CountInv /\ told \cap gone = {}
      /\ Intact(sync) =>
           /\ Progress(sync.queue, sync.arrived, sync.delivered /\ sync.listed, told, gone,
                       store, undeleted)
           /\ open => First(sync.queue)
      /\ mode = "Single" /\ sync.listed => Shape(sync)
      /\ sync.delivered => ~sync.current
      /\ sync.listed => sync.arrived = {}
      /\ sync.listed \in BOOLEAN /\ sync.delivered \in BOOLEAN
  BY SyncFields DEF DoneInv, LostInv, CountInv, TypeOK, Kept
<1>2. /\ sync' = r /\ u.results = 0 /\ u.delivered /\ u.error
      /\ Failing(sync).results = 0
      /\ sync.listed => Sound(Failing(sync)) /\ Sound(u)
      /\ ~sync.listed => sync' = u /\ u = [Failing(sync) EXCEPT !.delivered = TRUE]
  BY <1>1, CancelKept
<1>3. UNCHANGED <<mode, form, store, open, before, told, gone, undeleted>>
  BY DEF Cancel, serverVars
<1>4. CASE ~sync.listed
  <2>1. ~u.listed /\ u.error
    BY <1>1, <1>2, <1>4 DEF Failing, SyncType
  <2> HIDE DEF u, r
  <2>2. ~Intact(sync')
    BY <1>2, <1>4, <2>1 DEF Intact
  <2> QED BY <1>1, <1>2, <1>3, <1>4, <2>1, <2>2, DoneMade
<1>5. CASE sync.listed
  <2>1. mode = "Single" => /\ Shape(r)
                           /\ NoFailed(r.queue) /\ r.queue # <<>> =>
                                  r.queue = sync.queue /\ sync.delivered
    BY <1>1, <1>2, <1>5, SingleCancel
  <2>2. r.error /\ r.delivered /\ r.arrived = {} /\ r.listed
    BY <1>2, <1>5, ExecuteFields DEF Sound
  <2> HIDE DEF u, r
  <2>3. ASSUME Intact(r)
        PROVE  /\ Progress(r.queue, r.arrived, r.delivered /\ r.listed, told, gone, store, undeleted)
               /\ open => First(r.queue)
    <3>1. mode = "Single" /\ r.queue # <<>> /\ NoFailed(r.queue)
      BY <2>2, <2>3 DEF Intact
    <3>2. r.queue = sync.queue /\ sync.delivered
      BY <2>1, <3>1
    <3>3. Intact(sync) /\ sync.arrived = {}
      BY <1>1, <1>5, <3>1, <3>2 DEF Intact
    <3>4. (r.delivered /\ r.listed) = (sync.delivered /\ sync.listed)
      BY <1>5, <2>2, <3>2
    <3> QED BY <1>1, <2>2, <3>2, <3>3, <3>4
  <2> QED BY <1>1, <1>2, <1>3, <2>1, <2>2, <2>3, DoneMade
<1> QED BY <1>1, <1>4, <1>5

\* The list has come.
LEMMA ListDone ==
    ASSUME DoneInv, LostInv', NEW ok \in BOOLEAN, LocalListDone(ok)
    PROVE  /\ DoneInv'
           /\ mode = "Single" /\ sync'.queue # <<>> => Starts(sync'.queue[1])
<1> DEFINE items == IF ok THEN {i \in Item : store[i] # 0} ELSE {}
           u == [sync EXCEPT !.queue = Tail(@), !.error = @ \/ ~ok, !.listed = TRUE,
                             !.local = items, !.unprocessed = items]
           r == Execute(u)
<1>1. /\ sync \in SyncType /\ CountInv /\ told \cap gone = {} /\ Kept(sync)
      /\ Intact(sync) =>
           /\ Progress(sync.queue, sync.arrived, sync.delivered /\ sync.listed, told, gone,
                       store, undeleted)
           /\ open => First(sync.queue)
      /\ ~sync.error /\ ~(sync.delivered /\ sync.listed) => Lists(sync, told, gone)
      /\ form \in {"full", "incremental"} /\ store \in [Item -> 0 .. 2]
  BY ItemSyncAssumption DEF DoneInv, LostInv, CountInv, TypeOK
<1>2. ~sync.listed /\ sync' = r /\ Sound(u) /\ u.results = 0 /\ u.queue = <<>>
  BY <1>1, ListKept
<1>3. /\ u.error = (sync.error \/ ~ok) /\ u.unprocessed = items /\ u.local = items
      /\ u.arrived = sync.arrived /\ u.listed /\ u.removed = sync.removed
      /\ u.current = sync.current /\ u.delivered = sync.delivered
  BY <1>1 DEF SyncType
<1>4. Unlisted(sync) /\ sync.queue = <<Plain(Job("list", {}))>> /\ ~sync.current
  BY <1>1, <1>2 DEF Kept, Unlisted
<1>5. /\ UNCHANGED <<mode, form, store, open, before, told, gone>>
      /\ undeleted' = undeleted
  <2>1. Current.kind = "list" /\ Answer(ok)
    BY DEF LocalListDone
  <2>2. undeleted \in BOOLEAN
    BY <1>1 DEF CountInv, TypeOK
  <2> QED BY <2>1, <2>2 DEF LocalListDone, Answer, serverVars, callVars
<1> HIDE DEF u, items
<1>6. /\ Sound(r) /\ r.listed /\ r.delivered = u.delivered /\ r.error = u.error /\ r.arrived = {}
      /\ r.delivered \in BOOLEAN
  BY <1>2, ExecuteFields, SyncFields DEF Sound
<1>7. Alone(u) /\ Used(u).state = "Idle" /\ Starts(Used(u))
  BY <1>2, <1>3, <1>4 DEF Alone, Used, NewTransaction, Starts
<1>8. mode = "Single" => /\ Shape(r)
                         /\ u.error /\ u.delivered => r.queue = <<>>
                         /\ r.queue # <<>> => Starts(r.queue[1])
  BY <1>2, <1>7, SingleShape
<1>9. ASSUME ~u.error
      PROVE  /\ Lists(u, told, gone)
             /\ Progress(u.queue, u.arrived, FALSE, told, gone, store, undeleted)
             /\ ~open
  <2>1. ~sync.error /\ ok
    BY <1>3, <1>9
  <2>2. Lists(sync, told, gone) /\ sync.arrived = told /\ sync.removed = gone
    BY <1>1, <1>2, <2>1 DEF Lists
  <2>3. DOMAIN sync.queue = {1} /\ ~sync.queue[1].failed /\ ~sync.queue[1].tx
    BY <1>4 DEF Plain
  <2>4. Intact(sync)
    BY <2>1, <2>3 DEF Intact, NoFailed
  <2>5. Progress(sync.queue, told, FALSE, told, gone, store, undeleted) /\ ~open
    <3>1. (sync.delivered /\ sync.listed) = FALSE
      BY <1>2
    <3> QED BY <1>1, <2>2, <2>3, <2>4, <3>1 DEF First
  <2>6. \A i \in Item : store[i] = before[i]
    BY <2>5 DEF Progress, ItemProgress
  <2>7. \A i : Queued(<<>>, i) = {}
    BY DEF Queued, Places
  <2>8. ASSUME NEW i \in Item
        PROVE  ItemProgress(<<>>, told, FALSE, told, gone, store, undeleted, i)
    BY <2>6, <2>7 DEF ItemProgress
  <2>9. items = Had
    BY <2>1, <2>6 DEF items, Had
  <2> QED BY <1>2, <1>3, <2>2, <2>5, <2>8, <2>9 DEF Progress, Lists
<1>10. ASSUME ~u.error
       PROVE  /\ NoFailed(r.queue) => Progress(r.queue, {}, u.delivered, told, gone, store, undeleted)
              /\ ~u.delivered => Lists(r, told, gone)
  BY <1>1, <1>2, <1>9, <1>10, ExecuteProgress
<1> HIDE DEF r
<1>11. CASE ~u.error
  <2>1. (r.delivered /\ r.listed) = u.delivered
    BY <1>6
  <2> QED BY <1>1, <1>2, <1>5, <1>6, <1>8, <1>9, <1>10, <1>11, <2>1, DoneMade DEF Intact
<1>12. CASE u.error
  <2>1. ~Intact(r)
    BY <1>6, <1>8, <1>12 DEF Intact
  <2> QED BY <1>1, <1>2, <1>5, <1>6, <1>8, <1>12, <2>1, DoneMade
<1> QED BY <1>11, <1>12

\* An answer leaves what ItemSync knows as it is.
LEMMA AnswerDone ==
    ASSUME DoneInv, LostInv', NEW ok, Answer(ok), sync.listed, sync.error => sync'.error,
           sync'.removed = sync.removed, sync'.listed = sync.listed,
           sync'.local = sync.local, sync'.unprocessed = sync.unprocessed,
           sync'.arrived = sync.arrived, sync'.delivered = sync.delivered,
           Intact(sync') =>
               /\ Progress(sync'.queue, {}, sync.delivered, told, gone, store', undeleted')
               /\ open' => First(sync'.queue),
           mode = "Single" => Shape(sync')
    PROVE  DoneInv'
<1>1. /\ UNCHANGED <<mode, form, before, told, gone>> /\ sync.delivered \in BOOLEAN
      /\ told \cap gone = {} /\ sync.arrived = {}
      /\ ~sync.error /\ ~(sync.delivered /\ sync.listed) => Lists(sync, told, gone)
  BY SyncFields DEF Answer, callVars, DoneInv, LostInv, CountInv, TypeOK
<1>2. ~sync'.error /\ ~(sync'.delivered /\ sync'.listed) => Lists(sync', told', gone')
  BY <1>1, ListsStill
<1>3. (sync'.delivered /\ sync'.listed) = sync.delivered
  BY <1>1
<1> QED BY <1>1, <1>2, <1>3, DoneMade

\* What an answer finds.
LEMMA AnswerFinds ==
    ASSUME DoneInv, Waits, sync.listed
    PROVE  /\ sync \in SyncType /\ sync.queue \in Seq(EntryType) /\ sync.queue # <<>>
           /\ 1 \in DOMAIN sync.queue /\ Entry = sync.queue[1] /\ Entry \in EntryType
           /\ EntryOK(Entry) /\ Entry.jobs \in Seq(JobType) /\ Entry.jobs # <<>>
           /\ Entry.failed \in BOOLEAN /\ Entry.tx \in BOOLEAN
           /\ 1 \in DOMAIN Entry.jobs /\ Current = Entry.jobs[1] /\ Current.kind # "list"
           /\ Entry.tx => Entry.state # "Idle"
           /\ Sound(sync) /\ sync.error \in BOOLEAN
           /\ undeleted \in BOOLEAN /\ store \in [Item -> 0 .. 2]
           /\ Intact(sync) => /\ Progress(sync.queue, {}, sync.delivered, told, gone, store, undeleted)
                              /\ open => First(sync.queue)
           /\ mode = "Single" => /\ Shape(sync) /\ Len(sync.queue) = 1 /\ Tail(sync.queue) = <<>>
                                 /\ Entry.tx /\ (~sync.delivered => Usable(Entry) /\ ~sync.error)
<1>1. CountInv
  BY DEF DoneInv, LostInv
<1>2. /\ sync \in SyncType /\ sync.queue \in Seq(EntryType) /\ sync.queue # <<>>
      /\ 1 \in DOMAIN sync.queue /\ Entry = sync.queue[1] /\ Entry \in EntryType
      /\ EntryOK(Entry) /\ Entry.jobs \in Seq(JobType) /\ Entry.jobs # <<>>
      /\ 1 \in DOMAIN Entry.jobs /\ Current = Entry.jobs[1] /\ Current.kind # "list"
      /\ Sound(sync)
  BY <1>1, Answered
<1>3. Entry.failed \in BOOLEAN /\ Entry.tx \in BOOLEAN /\ (Entry.tx => Entry.state # "Idle")
  BY <1>2, EntryTyped DEF EntryOK
<1>4. /\ sync.error \in BOOLEAN /\ sync.delivered \in BOOLEAN
      /\ undeleted \in BOOLEAN /\ store \in [Item -> 0 .. 2]
  BY <1>1, SyncFields DEF CountInv, TypeOK
<1>5. /\ sync.arrived = {} /\ (sync.delivered /\ sync.listed) = sync.delivered
  BY <1>4 DEF DoneInv
<1>6. Intact(sync) => /\ Progress(sync.queue, {}, sync.delivered, told, gone, store, undeleted)
                      /\ open => First(sync.queue)
  BY <1>5 DEF DoneInv
<1>7. ASSUME mode = "Single"
      PROVE  /\ Shape(sync) /\ Len(sync.queue) = 1 /\ Tail(sync.queue) = <<>>
             /\ Entry.tx /\ (~sync.delivered => Usable(Entry) /\ ~sync.error)
  <2>1. Shape(sync)
    BY <1>7 DEF DoneInv
  <2>2. Len(sync.queue) = 1
    <3> DEFINE n == Len(sync.queue)
    <3>1. n \in Nat /\ DOMAIN sync.queue = 1 .. n
      BY <1>2
    <3>2. n <= 1
      BY <2>1 DEF Shape
    <3> HIDE DEF n
    <3>3. n = 1
      BY <1>2, <3>1, <3>2
    <3> QED BY <3>3 DEF n
  <2>3. Tail(sync.queue) = <<>>
    <3> DEFINE rest == Tail(sync.queue)
    <3>1. rest \in Seq(EntryType) /\ Len(rest) = 1 - 1
      BY <1>2, <2>2, TailShifts
    <3> HIDE DEF rest
    <3>2. rest = <<>>
      BY <3>1
    <3> QED BY <3>2 DEF rest
  <2>4. Entry.tx
    BY <1>2, <2>1 DEF Shape
  <2>5. ASSUME ~sync.delivered PROVE Usable(Entry) /\ ~sync.error
    <3>1. sync.current
      BY <1>2, <2>1, <2>5 DEF Shape
    <3>2. Usable(Entry)
      BY <1>2, <2>2, <3>1 DEF Sound, LastUsable
    <3>3. ~sync.error
      BY <1>2, <1>3, <2>1, <2>4, <2>5 DEF Shape
    <3> QED BY <3>2, <3>3
  <2> QED BY <2>1, <2>2, <2>3, <2>4, <2>5
<1> QED BY <1>2, <1>3, <1>4, <1>6, <1>7

\* ChangeDone keeps DoneInv; with a single transaction it does not happen.
LEMMA ChangeDoneDone ==
    ASSUME DoneInv, LostInv', NEW ok \in BOOLEAN, ChangeDone(ok)
    PROVE  DoneInv' /\ mode # "Single"
<1>1. CountInv
  BY DEF DoneInv, LostInv
<1>2. /\ sync.listed /\ sync'.queue = Tail(sync.queue) /\ sync'.error = (sync.error \/ ~ok)
      /\ \A f \in DOMAIN sync \ {"queue", "pending", "error", "results"} : sync'[f] = sync[f]
  BY <1>1, ChangeKept
<1>3. Answer(ok) /\ Waits /\ ~Entry.tx /\ Serve(Current, ok)
  BY DEF ChangeDone, Answer
<1>4. /\ sync \in SyncType /\ sync.queue \in Seq(EntryType) /\ sync.queue # <<>>
      /\ 1 \in DOMAIN sync.queue /\ Entry = sync.queue[1] /\ EntryOK(Entry)
      /\ Current = Entry.jobs[1] /\ mode # "Single"
      /\ Entry.jobs \in Seq(JobType)
      /\ undeleted \in BOOLEAN /\ store \in [Item -> 0 .. 2]
      /\ Intact(sync) => /\ Progress(sync.queue, {}, sync.delivered, told, gone, store, undeleted)
                         /\ open => First(sync.queue)
  BY <1>2, <1>3, AnswerFinds
<1>5. /\ sync'.removed = sync.removed /\ sync'.listed = sync.listed
      /\ sync'.local = sync.local /\ sync'.unprocessed = sync.unprocessed
      /\ sync'.arrived = sync.arrived /\ sync'.delivered = sync.delivered
  BY <1>2, <1>4 DEF SyncType
<1>6. ~Entry.failed /\ Len(Entry.jobs) = 1 /\ IsChange(Current) /\ Changes(Entry.jobs) = {1}
  <2>1. ~Entry.failed /\ Len(Entry.jobs) = 1 /\ IsChange(Current)
    BY <1>3, <1>4 DEF EntryOK
  <2>2. DOMAIN Entry.jobs = {1}
    BY <1>4, <2>1
  <2> QED BY <1>4, <2>1, <2>2 DEF Changes
<1>7. ASSUME Intact(sync')
      PROVE  /\ Progress(sync'.queue, {}, sync.delivered, told, gone, store', undeleted')
             /\ open' => First(sync'.queue)
  <2>1. ~sync.error /\ ok
    BY <1>2, <1>3, <1>4, <1>7 DEF Intact, Answer, callVars
  <2>2. NoFailed(sync.queue)
    <3>1. SUFFICES ASSUME NEW k \in DOMAIN sync.queue PROVE ~sync.queue[k].failed
      BY DEF NoFailed
    <3>2. CASE k = 1
      BY <1>4, <1>6, <3>2
    <3>3. CASE k # 1
      <4>1. k - 1 \in DOMAIN sync'.queue /\ sync'.queue[k - 1] = sync.queue[k]
        BY <1>2, <1>4, <3>3, TailShifts
      <4> QED BY <1>7, <4>1 DEF Intact, NoFailed
    <3> QED BY <3>2, <3>3
  <2>3. /\ Progress(sync.queue, {}, sync.delivered, told, gone, store, undeleted)
        /\ ~open
    BY <1>3, <1>4, <2>1, <2>2 DEF Intact, First
  <2>4. <<1, 1>> \in Places(sync.queue) /\ JobAt(sync.queue, <<1, 1>>) = Current
    BY <1>4, <1>6, InPlaces DEF JobAt
  <2>5. Moved(sync.queue, sync'.queue, Places(sync.queue) \ {<<1, 1>>})
    <3>1. Moved(sync.queue, Tail(sync.queue), Places(sync.queue) \ ({1} \X Changes(sync.queue[1].jobs)))
      BY <1>4, RestMoves
    <3>2. {1} \X Changes(sync.queue[1].jobs) = {<<1, 1>>}
      BY <1>4, <1>6
    <3> QED BY <1>2, <3>1, <3>2
  <2>6. store' = Effect(Current, store) /\ open' = open
    BY <1>3, <1>6, <2>1 DEF Serve, IsChange
  <2>7. undeleted => undeleted'
    BY <1>3 DEF Answer
  <2>8. Progress(sync'.queue, {}, sync.delivered, told, gone, store', undeleted')
    BY <1>4, <2>3, <2>4, <2>5, <2>6, <2>7, ProgressServed
  <2> QED BY <2>3, <2>6, <2>8
<1> QED BY <1>2, <1>3, <1>4, <1>5, <1>7, AnswerDone

\* TransactionGoesOn keeps DoneInv.
LEMMA GoesOnDone ==
    ASSUME DoneInv, LostInv', NEW ok \in BOOLEAN, TransactionGoesOn(ok)
    PROVE  DoneInv'
<1>1. CountInv
  BY DEF DoneInv, LostInv
<1> DEFINE e == GoneOn(Entry)
<1>2. /\ sync.listed /\ sync'.queue = [sync.queue EXCEPT ![1] = e]
      /\ \A f \in DOMAIN sync \ {"queue", "pending", "results"} : sync'[f] = sync[f]
  BY <1>1, GoesOnKept
<1>3. /\ Answer(ok) /\ Waits /\ Entry.tx /\ Serve(Current, ok)
      /\ Current.kind \notin {"commit", "rollback"} /\ (ok \/ Current.kind = "delete")
  BY DEF TransactionGoesOn, Answer
<1>4. /\ sync \in SyncType /\ sync.queue \in Seq(EntryType) /\ sync.queue # <<>>
      /\ 1 \in DOMAIN sync.queue /\ Entry = sync.queue[1] /\ Entry \in EntryType /\ EntryOK(Entry)
      /\ Entry.jobs \in Seq(JobType) /\ Entry.jobs # <<>> /\ 1 \in DOMAIN Entry.jobs
      /\ Current = Entry.jobs[1] /\ Entry.state # "Idle" /\ Current.kind # "list"
      /\ undeleted \in BOOLEAN /\ store \in [Item -> 0 .. 2]
      /\ Intact(sync) => Progress(sync.queue, {}, sync.delivered, told, gone, store, undeleted)
      /\ mode = "Single" => Shape(sync)
  BY <1>2, <1>3, AnswerFinds
<1>5. /\ sync'.removed = sync.removed /\ sync'.listed = sync.listed
      /\ sync'.local = sync.local /\ sync'.unprocessed = sync.unprocessed
      /\ sync'.arrived = sync.arrived /\ sync'.delivered = sync.delivered
      /\ sync'.error = sync.error /\ sync'.current = sync.current
  BY <1>2, <1>4 DEF SyncType
<1>6. /\ e \in EntryType /\ e.tx /\ e.failed = Entry.failed /\ e.state # "Idle"
      /\ Changes(e.jobs) = Changes(Tail(Entry.jobs))
      /\ \A j \in Changes(e.jobs) : e.jobs[j] = Tail(Entry.jobs)[j]
  BY <1>3, <1>4, GoneOnSound
<1> HIDE DEF e
<1>7. /\ sync'.queue \in Seq(EntryType) /\ sync'.queue # <<>> /\ sync'.queue[1] = e
      /\ Len(sync'.queue) = Len(sync.queue)
      /\ \A k \in DOMAIN sync.queue : k # 1 => sync'.queue[k] = sync.queue[k]
  BY <1>2, <1>4, <1>6, FirstExchanged
<1>8. Len(sync.queue) \in Nat /\ DOMAIN sync'.queue = DOMAIN sync.queue
  BY <1>2, <1>4
<1>9. ASSUME Intact(sync')
      PROVE  Progress(sync'.queue, {}, sync.delivered, told, gone, store', undeleted')
  <2>1. NoFailed(sync.queue)
    BY <1>4, <1>6, <1>7, <1>8, <1>9 DEF Intact, NoFailed
  <2>2. Intact(sync)
    BY <1>3, <1>4, <1>5, <1>9, <2>1 DEF Intact, Answer, callVars
  <2>3. Progress(sync.queue, {}, sync.delivered, told, gone, store, undeleted)
    BY <1>4, <2>2
  <2>4. Moved(sync.queue, sync'.queue, Places(sync.queue) \ {<<1, 1>>})
    <3>1. Moved(sync.queue, [sync.queue EXCEPT ![1] = e], Places(sync.queue) \ {<<1, 1>>})
      BY <1>4, <1>6, FirstMoves
    <3> QED BY <1>2, <3>1
  <2>5. undeleted' = (undeleted \/ (Current.kind = "delete" /\ ~ok))
    BY <1>3 DEF Answer
  <2>6. CASE IsChange(Current)
    <3>1. <<1, 1>> \in Places(sync.queue) /\ JobAt(sync.queue, <<1, 1>>) = Current
      BY <1>4, <2>6, InPlaces DEF JobAt, Changes
    <3>2. CASE ok
      <4>1. store' = Effect(Current, store)
        BY <1>3, <2>6, <3>2 DEF Serve, IsChange
      <4> QED BY <1>4, <2>3, <2>4, <2>5, <3>1, <4>1, ProgressServed
    <3>3. CASE ~ok
      <4>1. store' = store /\ Current.kind = "delete" /\ undeleted'
        BY <1>3, <2>5, <2>6, <3>3 DEF Serve, IsChange, serverVars
      <4> QED BY <1>4, <2>3, <2>4, <3>1, <4>1, ProgressServed
    <3> QED BY <3>2, <3>3
  <2>7. CASE ~IsChange(Current)
    <3>1. <<1, 1>> \notin Places(sync.queue)
      BY <1>4, <2>7, InPlaces DEF Changes
    <3>2. Moved(sync.queue, sync'.queue, Places(sync.queue))
      <4>1. Places(sync.queue) \ {<<1, 1>>} = Places(sync.queue)
        BY <3>1
      <4> QED BY <2>4, <4>1
    <3>3. Current.kind # "delete"
      BY <2>7 DEF IsChange
    <3>4. store' = store
      BY <1>3, <1>4, <2>7, <3>3 DEF Serve, serverVars
    <3>5. undeleted' = undeleted
      BY <1>4, <2>5, <3>3
    <3> QED BY <2>3, <3>2, <3>4, <3>5, ProgressSame
  <2> QED BY <2>6, <2>7
<1>10. First(sync'.queue)
  BY <1>6, <1>7 DEF First
<1>11. ASSUME mode = "Single" PROVE Shape(sync')
  <2>1. Shape(sync)
    BY <1>4, <1>11
  <2>2. \A k \in DOMAIN sync'.queue : sync'.queue[k].tx
    BY <1>6, <1>7, <1>8, <2>1 DEF Shape
  <2>3. ~(sync.error /\ ~sync.delivered)
    BY <1>4, <2>1 DEF Shape
  <2> QED BY <1>4, <1>5, <1>7, <2>1, <2>2, <2>3 DEF Shape
<1> QED BY <1>2, <1>3, <1>5, <1>9, <1>10, <1>11, AnswerDone

\* TransactionDone keeps DoneInv.
LEMMA TransactionDoneDone ==
    ASSUME DoneInv, LostInv', TransactionDone
    PROVE  DoneInv'
<1>1. CountInv
  BY DEF DoneInv, LostInv
<1>2. /\ sync.listed /\ sync'.queue = Tail(sync.queue)
      /\ sync'.error = (sync.error \/ Entry.failed)
      /\ \A f \in DOMAIN sync \ {"queue", "error", "transactions", "current", "results"} :
             sync'[f] = sync[f]
  BY <1>1, DoneKept
<1>3. Answer(TRUE) /\ Waits /\ Entry.tx /\ Current.kind \in {"commit", "rollback"}
  BY DEF TransactionDone, Answer
<1>4. /\ sync \in SyncType /\ sync.queue \in Seq(EntryType) /\ sync.queue # <<>>
      /\ 1 \in DOMAIN sync.queue /\ Entry = sync.queue[1] /\ EntryOK(Entry)
      /\ Entry.jobs \in Seq(JobType) /\ 1 \in DOMAIN Entry.jobs /\ Current = Entry.jobs[1]
      /\ undeleted \in BOOLEAN
      /\ Intact(sync) => Progress(sync.queue, {}, sync.delivered, told, gone, store, undeleted)
      /\ mode = "Single" => Tail(sync.queue) = <<>>
  BY <1>2, <1>3, AnswerFinds
<1>5. /\ sync'.removed = sync.removed /\ sync'.listed = sync.listed
      /\ sync'.local = sync.local /\ sync'.unprocessed = sync.unprocessed
      /\ sync'.arrived = sync.arrived /\ sync'.delivered = sync.delivered
  BY <1>2, <1>4 DEF SyncType
<1>6. mode' = mode
  BY <1>3 DEF Answer, callVars
<1>7. ASSUME mode = "Single" PROVE sync'.queue = <<>> /\ Shape(sync')
  <2>1. sync'.queue = <<>>
    BY <1>2, <1>4, <1>7
  <2>2. Len(<<>>) = 0 /\ DOMAIN <<>> = {}
    OBVIOUS
  <2> QED BY <2>1, <2>2 DEF Shape
<1>8. CASE Current.kind = "rollback"
  <2>1. Entry.failed
    BY <1>3, <1>4, <1>8 DEF EntryOK, HasKind
  <2>2. ~Intact(sync')
    BY <1>2, <1>6, <1>7, <2>1 DEF Intact
  <2> QED BY <1>2, <1>3, <1>5, <1>7, <2>2, AnswerDone
<1>9. CASE Current.kind = "commit"
  <2>1. ~Entry.failed /\ Entry.jobs = <<Commit>>
    BY <1>3, <1>4, <1>9 DEF EntryOK, HasKind
  <2>2. Changes(Entry.jobs) = {}
    <3>1. ~IsChange(Commit)
      BY DEF Commit, Job, IsChange
    <3> QED BY <2>1, <3>1, ChangesOfNone
  <2>3. store' = store /\ open' = FALSE
    <3>1. Tail(Entry.jobs) = <<>>
      BY <2>1
    <3>2. Serve(Current, TRUE)
      BY <3>1 DEF TransactionDone
    <3> QED BY <1>9, <3>2 DEF Serve, IsChange
  <2>4. ASSUME Intact(sync')
        PROVE  Progress(sync'.queue, {}, sync.delivered, told, gone, store', undeleted')
    <3>1. NoFailed(sync.queue)
      <4>1. SUFFICES ASSUME NEW k \in DOMAIN sync.queue PROVE ~sync.queue[k].failed
        BY DEF NoFailed
      <4>2. CASE k = 1
        BY <1>4, <2>1, <4>2
      <4>3. CASE k # 1
        <5>1. k - 1 \in DOMAIN sync'.queue /\ sync'.queue[k - 1] = sync.queue[k]
          BY <1>2, <1>4, <4>3, TailShifts
        <5> QED BY <2>4, <5>1 DEF Intact, NoFailed
      <4> QED BY <4>2, <4>3
    <3>2. Intact(sync)
      BY <1>2, <1>6, <1>7, <2>1, <2>4, <3>1 DEF Intact
    <3>3. Moved(sync.queue, sync'.queue, Places(sync.queue))
      <4>1. Moved(sync.queue, Tail(sync.queue),
                  Places(sync.queue) \ ({1} \X Changes(sync.queue[1].jobs)))
        BY <1>4, RestMoves
      <4>2. Places(sync.queue) \ ({1} \X Changes(sync.queue[1].jobs)) = Places(sync.queue)
        BY <1>4, <2>2
      <4> QED BY <1>2, <4>1, <4>2
    <3>4. undeleted' = undeleted
      BY <1>3, <1>4 DEF Answer
    <3> QED BY <1>4, <2>3, <3>2, <3>3, <3>4, ProgressSame
  <2> QED BY <1>2, <1>3, <1>5, <1>7, <2>3, <2>4, AnswerDone
<1> QED BY <1>3, <1>8, <1>9

\* TransactionFails keeps DoneInv.
LEMMA FailsDone ==
    ASSUME DoneInv, LostInv', TransactionFails
    PROVE  DoneInv'
<1>1. CountInv
  BY DEF DoneInv, LostInv
<1>2. /\ sync.listed
      /\ \A f \in {"listed", "local", "unprocessed", "arrived", "removed", "delivered"} :
             sync'[f] = sync[f]
      /\ FailedAtOnce => sync'.queue = Tail(sync.queue) /\ sync'.error
      /\ ~FailedAtOnce => /\ sync'.queue = [sync.queue EXCEPT ![1] = FailedEntry(Entry)]
                          /\ sync'.error = sync.error /\ sync'.current = sync.current
  BY <1>1, FailsKept
<1>3. Answer(FALSE) /\ Waits /\ Entry.tx
  BY DEF TransactionFails, Answer
<1>4. /\ sync.queue \in Seq(EntryType) /\ sync.queue # <<>> /\ 1 \in DOMAIN sync.queue
      /\ Entry = sync.queue[1] /\ Entry \in EntryType /\ Entry.state # "Idle"
      /\ mode = "Single" => /\ Shape(sync) /\ Tail(sync.queue) = <<>>
                            /\ (~sync.delivered => ~sync.error)
  BY <1>2, <1>3, AnswerFinds
<1>5. /\ sync'.removed = sync.removed /\ sync'.listed = sync.listed
      /\ sync'.local = sync.local /\ sync'.unprocessed = sync.unprocessed
      /\ sync'.arrived = sync.arrived /\ sync'.delivered = sync.delivered
  BY <1>2
<1>6. mode' = mode
  BY <1>3 DEF Answer, callVars
<1>7. CASE FailedAtOnce
  <2>1. ASSUME mode = "Single" PROVE sync'.queue = <<>> /\ Shape(sync')
    <3>1. sync'.queue = <<>>
      BY <1>2, <1>4, <1>7, <2>1
    <3>2. Len(<<>>) = 0 /\ DOMAIN <<>> = {}
      OBVIOUS
    <3> QED BY <3>1, <3>2 DEF Shape
  <2>2. ~Intact(sync')
    BY <1>2, <1>6, <1>7, <2>1 DEF Intact
  <2> QED BY <1>2, <1>3, <1>5, <1>7, <2>1, <2>2, AnswerDone
<1>8. CASE ~FailedAtOnce
  <2> DEFINE e == FailedEntry(Entry)
  <2>1. e \in EntryType /\ e.tx /\ e.failed
    BY <1>3, <1>4, FailedEntrySound
  <2>2. sync'.queue = [sync.queue EXCEPT ![1] = e] /\ sync'.error = sync.error
        /\ sync'.current = sync.current
    BY <1>2, <1>8
  <2> HIDE DEF e
  <2>3. /\ sync'.queue \in Seq(EntryType) /\ sync'.queue # <<>> /\ sync'.queue[1] = e
        /\ Len(sync'.queue) = Len(sync.queue)
        /\ \A k \in DOMAIN sync.queue : k # 1 => sync'.queue[k] = sync.queue[k]
    BY <1>4, <2>1, <2>2, FirstExchanged
  <2>4. DOMAIN sync'.queue = DOMAIN sync.queue
    BY <1>4, <2>2
  <2>5. ~Intact(sync')
    BY <1>4, <2>1, <2>3, <2>4 DEF Intact, NoFailed
  <2>6. ASSUME mode = "Single" PROVE Shape(sync')
    <3>1. Shape(sync) /\ ~(sync.error /\ ~sync.delivered)
      BY <1>4, <2>6
    <3>2. \A k \in DOMAIN sync'.queue : sync'.queue[k].tx
      BY <2>1, <2>3, <2>4, <3>1 DEF Shape
    <3> QED BY <1>4, <1>5, <2>2, <2>3, <3>1, <3>2 DEF Shape
  <2> QED BY <1>2, <1>3, <1>5, <2>2, <2>5, <2>6, AnswerDone
<1> QED BY <1>7, <1>8

\* Deliver and DeliveryDone hand something over, in the sense of HandedOver.
LEMMA DeliverDone ==
    ASSUME DoneInv, LostInv', NEW chunk \in Chunk, NEW removed \in SUBSET Item,
           NEW last \in BOOLEAN, Deliver(chunk, removed, last)
    PROVE  DoneInv'
<1>1. CountInv
  BY DEF DoneInv, LostInv
<1>2. /\ sync' = Execute(Delivering(sync, chunk, removed, last))
      /\ sync.listed => Sound(Delivering(sync, chunk, removed, last))
      /\ ~sync.listed => sync' = Delivering(sync, chunk, removed, last)
  BY <1>1, DeliverKept
<1>3. /\ chunk \in SUBSET Item /\ sync.results = 0 /\ (sync.delivered => cancelled)
      /\ (chunk \cup removed) \cap (told \cup gone) = {} /\ chunk \cap removed = {}
      /\ told' = IF cancelled THEN told ELSE told \cup chunk
      /\ gone' = IF cancelled THEN gone ELSE gone \cup removed
      /\ UNCHANGED <<mode, form, store, open, before, undeleted>>
  BY DEF Deliver, Chunk, serverVars
<1> QED BY <1>2, <1>3, HandedOver

\* DeliveryDone keeps DoneInv.
LEMMA DeliveryDoneDone ==
    ASSUME DoneInv, LostInv', DeliveryDone
    PROVE  DoneInv'
<1> DEFINE u == [sync EXCEPT !.delivered = TRUE]
<1>1. CountInv /\ sync \in SyncType
  BY DEF DoneInv, LostInv, CountInv, TypeOK
<1>2. /\ sync' = Execute(u)
      /\ sync.listed => Sound(u)
      /\ ~sync.listed => sync' = u
  BY <1>1, DeliveryDoneKept
<1>3. u = Delivering(sync, {}, {}, TRUE)
  BY <1>1 DEF SyncType, Delivering
<1>4. /\ sync.results = 0 /\ (sync.delivered => cancelled)
      /\ told' = told /\ gone' = gone
      /\ UNCHANGED <<mode, form, store, open, before, undeleted>>
  BY DEF DeliveryDone, serverVars, callVars
<1> HIDE DEF u
<1> DEFINE none == {}
           t == TRUE
<1>5. /\ told' = IF cancelled THEN told ELSE told \cup none
      /\ gone' = IF cancelled THEN gone ELSE gone \cup none
      /\ none \in SUBSET Item /\ t \in BOOLEAN
      /\ (none \cup none) \cap (told \cup gone) = {} /\ none \cap none = {}
      /\ u = Delivering(sync, none, none, t)
  BY <1>3, <1>4
<1> HIDE DEF none, t
<1> QED BY <1>2, <1>4, <1>5, HandedOver

\* Every step keeps DoneInv.
LEMMA DoneInvStep ==
    ASSUME DoneInv, [Next]_vars
    PROVE  DoneInv'
<1>1. LostInv'
  BY LostInvStep DEF DoneInv
<1>2. CASE UNCHANGED vars
  <2>1. UNCHANGED <<mode, form, sync, store, before, told, gone, undeleted, open>>
    BY <1>2 DEF vars
  <2> QED BY <1>1, <2>1, DoneMade DEF DoneInv
<1> QED BY <1>1, <1>2, DeliverDone, DeliveryDoneDone, CancelDone, ListDone, ChangeDoneDone,
           GoesOnDone, TransactionDoneDone, FailsDone DEF Next, Answers

\* DoneInv holds at first.
LEMMA DoneInvInit ==
    ASSUME Init
    PROVE  DoneInv
<1>1. LostInv /\ CountInv
  BY LostInvInit, CountInvInit
<1>2. /\ ~sync.listed /\ ~sync.delivered /\ sync.arrived = {} /\ sync.removed = {}
      /\ told = {} /\ gone = {} /\ store = before /\ ~open
      /\ sync.queue = <<Plain(Job("list", {}))>>
  BY DEF Init
<1>3. \A i : Queued(sync.queue, i) = {}
  <2>1. DOMAIN sync.queue = {1} /\ Changes(sync.queue[1].jobs) = {}
    BY <1>2 DEF Plain, Job, Changes, IsChange
  <2> QED BY <2>1 DEF Places, Queued
<1>4. ASSUME NEW i \in Item
      PROVE  ItemProgress(sync.queue, {}, FALSE, {}, {}, store, undeleted, i)
  BY <1>2, <1>3 DEF ItemProgress
<1>5. Progress(sync.queue, {}, FALSE, {}, {}, store, undeleted)
  BY <1>4 DEF Progress
<1>6. (sync.delivered /\ sync.listed) = FALSE
  BY <1>2
<1>7. Lists(sync, told, gone)
  BY <1>2 DEF Lists
<1> QED BY <1>1, <1>2, <1>5, <1>6, <1>7 DEF DoneInv

\* DoneInv is an invariant.
LEMMA DoneInvAlways == Spec => []DoneInv
<1>1. Init => DoneInv
  BY DoneInvInit
<1>2. DoneInv /\ [Next]_vars => DoneInv'
  BY DoneInvStep
<1> QED BY <1>1, <1>2, PTL DEF Spec

\* With nothing left in the queue, everything has become what it is to be.
LEMMA NothingLeft ==
    ASSUME DoneInv, sync.listed, sync.delivered, Intact(sync), Places(sync.queue) = {}
    PROVE  \A i \in Item : store[i] = Target(i)
                           \/ (undeleted /\ Target(i) = 0 /\ store[i] = before[i])
<1>1. Progress(sync.queue, {}, TRUE, told, gone, store, undeleted)
  <2>1. (sync.delivered /\ sync.listed) = TRUE /\ sync.arrived = {}
    BY DEF DoneInv
  <2> QED BY <2>1 DEF DoneInv
<1>2. \A i \in Item : Reached(told, gone, store, undeleted, i)
  BY <1>1 DEF Progress, ItemProgress, Queued
<1>3. \A i : Aim(told, gone, i) = Target(i)
  BY DEF Aim, Target
<1> QED BY <1>2, <1>3 DEF Reached

\* A result without an error means, in any mode, that everything delivered is stored,
\* and that no transaction is left open.
THEOREM ResultIsComplete == Spec => []Complete
<1>1. DoneInv => Complete
  <2>1. SUFFICES ASSUME DoneInv, sync.results > 0, ~sync.error
                 PROVE  AllStored /\ ~open
    BY DEF Complete
  <2>2. Kept(sync) /\ sync \in SyncType
    BY <2>1 DEF DoneInv, LostInv, CountInv, TypeOK
  <2>3. sync.listed
    BY <2>1, <2>2 DEF Kept, Unlisted
  <2>4. sync.queue = <<>> /\ sync.delivered
    BY <2>1, <2>2, <2>3 DEF Kept, Sound
  <2>5. Intact(sync) /\ Places(sync.queue) = {}
    BY <2>1, <2>4 DEF Intact, NoFailed, Places
  <2>6. ~open
    BY <2>1, <2>4, <2>5 DEF DoneInv, First
  <2> QED BY <2>1, <2>3, <2>4, <2>5, <2>6, NothingLeft DEF AllStored, Stored
<1> QED BY <1>1, DoneInvAlways, PTL

----------------------------------------------------------------------------
(* All or nothing                                                          *)

\* While the transaction is open, nothing is stored without it; before it is
\* begun, nothing is stored at all.
Atomic ==
    /\ open => saved = before
    /\ ~open => store = before \/ AllStored
    /\ ~open /\ sync.queue # <<>> =>
           store = before /\ (sync.listed => Starts(sync.queue[1]))

AtomicInv == DoneInv /\ (mode = "Single" /\ ~orphaned => Atomic)

\* What is stored is looked at from outside of the step.
LEMMA AllStoredStill ==
    ASSUME AllStored, UNCHANGED <<form, store, saved, open, before, undeleted, told, gone>>,
           sync'.delivered
    PROVE  AllStored'
  BY DEF AllStored, Stored, Target

\* A call does not reach the server.
LEMMA CallAtomic ==
    ASSUME AtomicInv, DoneInv',
           UNCHANGED <<mode, form, store, saved, open, before, undeleted, orphaned>>,
           sync.delivered => sync'.delivered /\ told' = told /\ gone' = gone,
           mode = "Single" =>
               /\ sync.delivered /\ sync.queue = <<>> => sync'.queue = <<>>
               /\ /\ sync'.queue # <<>> /\ sync'.listed
                  /\ sync.listed /\ sync.queue # <<>> => Starts(sync.queue[1])
                  => Starts(sync'.queue[1])
    PROVE  AtomicInv'
<1>1. ASSUME mode = "Single", ~orphaned
      PROVE  Atomic'
  <2>1. Atomic
    BY <1>1 DEF AtomicInv
  <2>2. open' => saved' = before'
    BY <2>1 DEF Atomic
  <2>3. ~open' => store' = before' \/ AllStored'
    <3>1. AllStored => AllStored'
      BY AllStoredStill DEF AllStored
    <3> QED BY <2>1, <3>1 DEF Atomic
  <2>4. ASSUME ~open', sync'.queue # <<>>
        PROVE  store' = before' /\ (sync'.listed => Starts(sync'.queue[1]))
    <3>1. CASE sync.queue # <<>>
      BY <1>1, <2>1, <2>4, <3>1 DEF Atomic
    <3>2. CASE sync.queue = <<>>
      <4>1. ~sync.delivered
        BY <1>1, <2>4, <3>2
      <4>2. store = before
        BY <2>1, <2>4, <4>1 DEF Atomic, AllStored
      <4> QED BY <1>1, <2>4, <3>2, <4>2
    <3> QED BY <3>1, <3>2
  <2> QED BY <2>2, <2>3, <2>4 DEF Atomic
<1> QED BY <1>1 DEF AtomicInv

\* What is handed over to execute() keeps AtomicInv.
LEMMA HandedOverAtomic ==
    ASSUME AtomicInv, DoneInv', NEW chunk, NEW removed, NEW last \in BOOLEAN,
           sync' = Execute(Delivering(sync, chunk, removed, last)), sync.results = 0,
           sync.listed => Sound(Delivering(sync, chunk, removed, last)),
           ~sync.listed => sync' = Delivering(sync, chunk, removed, last),
           sync.delivered => cancelled,
           sync.delivered => told' = told /\ gone' = gone,
           UNCHANGED <<mode, form, store, saved, open, before, undeleted, orphaned>>
    PROVE  AtomicInv'
<1> DEFINE u == Delivering(sync, chunk, removed, last)
           r == Execute(u)
<1>1. /\ sync \in SyncType
      /\ sync.listed \in BOOLEAN
      /\ sync.delivered => sync.error /\ ~sync.current
      /\ mode = "Single" /\ sync.listed => Shape(sync)
  BY SyncFields DEF AtomicInv, DoneInv, LostInv, CountInv, TypeOK, Kept
<1>2. /\ u.delivered = (sync.delivered \/ last) /\ u.error = sync.error
      /\ u.listed = sync.listed
      /\ u.queue = sync.queue /\ u.current = sync.current /\ u.results = sync.results
  BY <1>1 DEF SyncType, Delivering
<1>3. /\ sync' = r /\ (sync.listed => Sound(u)) /\ (~sync.listed => sync' = u)
  OBVIOUS
<1> HIDE DEF u
<1>4. CASE ~sync.listed
  BY <1>2, <1>3, <1>4, CallAtomic
<1>5. CASE sync.listed
  <2>1. r.delivered = u.delivered /\ r.listed
    BY <1>2, <1>3, <1>5, ExecuteFields DEF Sound
  <2>2. mode = "Single" =>
           /\ sync.error /\ u.delivered /\ r.queue # <<>> => r.queue = sync.queue /\ sync.delivered
           /\ (sync.queue # <<>> => Starts(sync.queue[1])) /\ r.queue # <<>>
              => Starts(r.queue[1])
    BY <1>1, <1>2, <1>3, <1>5, SingleCall
  <2> HIDE DEF r
  <2> QED BY <1>1, <1>2, <1>3, <1>5, <2>1, <2>2, CallAtomic
<1> QED BY <1>1, <1>4, <1>5

\* Cancel keeps AtomicInv.
LEMMA CancelAtomic ==
    ASSUME AtomicInv, DoneInv', Cancel
    PROVE  AtomicInv'
<1> DEFINE u == Cancelling(sync)
           r == Execute(u)
<1>1. /\ sync \in SyncType /\ CountInv
      /\ sync.listed \in BOOLEAN
      /\ sync.delivered => ~sync.current
      /\ mode = "Single" /\ sync.listed => Shape(sync)
  BY SyncFields DEF AtomicInv, DoneInv, LostInv, CountInv, TypeOK, Kept
<1>2. /\ sync' = r /\ u.results = 0 /\ u.delivered
      /\ Failing(sync).results = 0
      /\ sync.listed => Sound(Failing(sync)) /\ Sound(u)
      /\ ~sync.listed => sync' = u /\ u = [Failing(sync) EXCEPT !.delivered = TRUE]
  BY <1>1, CancelKept
<1>3. /\ UNCHANGED <<mode, form, store, saved, open, before, undeleted, orphaned>>
      /\ told' = told /\ gone' = gone
  BY DEF Cancel, serverVars
<1>4. CASE ~sync.listed
  <2>1. u.queue = sync.queue /\ ~u.listed
    BY <1>1, <1>2, <1>4 DEF Failing, SyncType
  <2> HIDE DEF u, r
  <2> QED BY <1>2, <1>3, <1>4, <2>1, CallAtomic
<1>5. CASE sync.listed
  <2>1. mode = "Single" =>
           /\ sync.delivered /\ sync.queue = <<>> => r.queue = <<>>
           /\ (sync.queue # <<>> => Starts(sync.queue[1])) /\ r.queue # <<>>
              => Starts(r.queue[1])
    BY <1>1, <1>2, <1>5, SingleCancel
  <2>2. r.delivered
    BY <1>2, <1>5, ExecuteFields
  <2> HIDE DEF u, r
  <2> QED BY <1>2, <1>3, <1>5, <2>1, <2>2, CallAtomic
<1> QED BY <1>1, <1>4, <1>5

\* What an answer finds, with a single transaction.
LEMMA AtomicFinds ==
    ASSUME AtomicInv, Waits, mode = "Single", ~orphaned
    PROVE  /\ open => saved = before
           /\ ~open => store = before /\ (sync.listed => Starts(sync.queue[1]))
           /\ sync.queue # <<>>
  BY Answered DEF AtomicInv, Atomic, DoneInv, LostInv

\* The single transaction has a result.
LEMMA SingleEnds ==
    ASSUME DoneInv', sync'.queue = <<>>, mode' = "Single", open' = FALSE,
           store' = before' \/ AllStored'
    PROVE  Atomic'
  BY DEF Atomic

\* Nothing, or everything, is kept of what was done in the transaction.
LEMMA DoneAtomic ==
    ASSUME AtomicInv, DoneInv', TransactionDone, mode = "Single", ~orphaned'
    PROVE  Atomic'
<1>1. CountInv /\ DoneInv
  BY DEF AtomicInv, DoneInv, LostInv
<1>2. /\ sync.listed /\ sync'.queue = Tail(sync.queue) /\ Sound(sync)
      /\ orphaned' = (orphaned \/ Changes(Tail(Entry.jobs)) # {})
      /\ \A f \in DOMAIN sync \ {"queue", "error", "transactions", "current", "results"} :
             sync'[f] = sync[f]
  BY <1>1, DoneKept
<1>3. /\ Answer(TRUE) /\ Waits /\ Entry.tx /\ Current.kind \in {"commit", "rollback"}
      /\ UNCHANGED <<mode, form, before, told, gone, cancelled>>
  BY DEF TransactionDone, Answer, callVars
<1>4. /\ sync \in SyncType /\ sync.queue \in Seq(EntryType) /\ sync.queue # <<>>
      /\ 1 \in DOMAIN sync.queue /\ Entry = sync.queue[1] /\ EntryOK(Entry)
      /\ Entry.jobs \in Seq(JobType) /\ 1 \in DOMAIN Entry.jobs /\ Current = Entry.jobs[1]
      /\ undeleted \in BOOLEAN /\ sync.error \in BOOLEAN
      /\ Tail(sync.queue) = <<>> /\ Len(sync.queue) = 1
      /\ ~sync.delivered => Usable(Entry)
  BY <1>1, <1>2, <1>3, AnswerFinds
<1>5. /\ ~orphaned /\ Changes(Tail(Entry.jobs)) = {}
      /\ undeleted' = undeleted /\ sync'.delivered = sync.delivered
  <2>1. orphaned \in BOOLEAN
    BY <1>1 DEF CountInv, TypeOK
  <2>2. sync'.delivered = sync.delivered
    BY <1>2, <1>4 DEF SyncType
  <2> QED BY <1>2, <1>3, <1>4, <2>1, <2>2 DEF Answer
<1>6. /\ open => saved = before
      /\ ~open => store = before
  BY <1>3, <1>5, AtomicFinds
<1>7. Serve(Current, TRUE)
  <2>1. ASSUME Tail(Entry.jobs) # <<>> PROVE ~IsChange(Head(Tail(Entry.jobs)))
    <3> DEFINE left == Tail(Entry.jobs)
    <3>1. left \in Seq(JobType) /\ Entry.jobs # <<>>
      BY <1>3, <1>4 DEF Waits
    <3>2. Changes(left) = {} /\ left # <<>>
      BY <1>5, <2>1
    <3> HIDE DEF left
    <3>3. 1 \in DOMAIN left /\ Head(left) = left[1]
      BY <3>1, <3>2
    <3>4. ~IsChange(Head(left))
      BY <3>2, <3>3 DEF Changes
    <3> QED BY <3>4 DEF left
  <2> QED BY <2>1 DEF TransactionDone
<1>8. CASE Current.kind = "rollback"
  <2>1. open' = FALSE /\ store' = (IF open THEN saved ELSE store)
    BY <1>7, <1>8 DEF Serve, IsChange
  <2>2. store' = before'
    BY <1>3, <1>6, <2>1
  <2> QED BY <1>2, <1>3, <1>4, <2>1, <2>2, SingleEnds
<1>9. CASE Current.kind = "commit"
  <2>1. open' = FALSE /\ store' = store
    BY <1>7, <1>9 DEF Serve, IsChange
  <2>2. ~Entry.failed /\ Entry.jobs = <<Commit>> /\ HasKind(Entry.jobs, "commit")
    BY <1>3, <1>4, <1>9 DEF EntryOK, HasKind
  <2>3. sync.delivered
    BY <1>4, <2>2 DEF Usable
  <2>4. DOMAIN sync.queue = {1}
    BY <1>4
  <2>5. Intact(sync)
    BY <1>2, <1>4, <2>2, <2>3, <2>4 DEF Intact, NoFailed
  <2>6. Places(sync.queue) = {}
    <3>1. ~IsChange(Commit)
      BY DEF Commit, Job, IsChange
    <3>2. Changes(sync.queue[1].jobs) = {}
      BY <1>4, <2>2, <3>1, ChangesOfNone
    <3> QED BY <2>4, <3>2 DEF Places
  <2>7. \A i \in Item : store[i] = Target(i)
                        \/ (undeleted /\ Target(i) = 0 /\ store[i] = before[i])
    BY <1>1, <1>2, <2>3, <2>5, <2>6, NothingLeft
  <2>8. AllStored'
    <3>1. \A i : Target(i)' = Target(i)
      BY <1>3 DEF Target
    <3>2. Stored' = store
      BY <2>1 DEF Stored
    <3> QED BY <1>3, <1>5, <2>3, <2>7, <3>1, <3>2 DEF AllStored
  <2> QED BY <1>2, <1>3, <1>4, <2>1, <2>8, SingleEnds
<1> QED BY <1>3, <1>8, <1>9

\* TransactionFails keeps AtomicInv.
LEMMA FailsAtomic ==
    ASSUME AtomicInv, DoneInv', TransactionFails, mode = "Single", ~orphaned
    PROVE  Atomic'
<1>1. CountInv /\ DoneInv
  BY DEF AtomicInv, DoneInv, LostInv
<1>2. /\ sync.listed
      /\ FailedAtOnce => sync'.queue = Tail(sync.queue)
      /\ ~FailedAtOnce => sync'.queue = [sync.queue EXCEPT ![1] = FailedEntry(Entry)]
  BY <1>1, FailsKept
<1>3. /\ Answer(FALSE) /\ Waits /\ Entry.tx /\ Current.kind \notin {"delete", "rollback"}
      /\ UNCHANGED <<mode, form, before, told, gone, cancelled>>
      /\ Serve(Current, FALSE) \/ (FailedAtOnce /\ Serve(Rollback, TRUE))
  BY Zenon DEF TransactionFails, Answer, callVars, FailedAtOnce
<1>4. /\ sync.queue \in Seq(EntryType) /\ sync.queue # <<>>
      /\ Entry = sync.queue[1] /\ Entry \in EntryType
      /\ Tail(sync.queue) = <<>> /\ Current.kind # "list"
  BY <1>1, <1>2, <1>3, AnswerFinds
<1>5. /\ open => saved = before
      /\ ~open => store = before
  BY <1>3, AtomicFinds
<1>6. \/ UNCHANGED <<store, saved, open>>
      \/ FailedAtOnce /\ open' = FALSE /\ store' = (IF open THEN saved ELSE store)
  <2>1. CASE Serve(Current, FALSE)
    <3>1. Current.kind = "commit" => FailedAtOnce
      BY DEF FailedAtOnce
    <3> QED BY <1>3, <2>1, <3>1 DEF Serve, serverVars
  <2>2. CASE FailedAtOnce /\ Serve(Rollback, TRUE)
    BY <2>2 DEF Serve, Rollback, Job, IsChange
  <2> QED BY <1>3, <2>1, <2>2
<1>7. /\ open' => saved' = before'
      /\ ~open' => store' = before'
  BY <1>3, <1>5, <1>6
<1>8. ASSUME sync'.queue # <<>>
      PROVE  Starts(sync'.queue[1])
  <2>1. sync'.queue = [sync.queue EXCEPT ![1] = FailedEntry(Entry)]
    BY <1>2, <1>4, <1>8
  <2>2. FailedEntry(Entry) \in EntryType /\ FailedEntry(Entry).jobs = <<Rollback>>
    BY <1>3, <1>4, FailedEntrySound
  <2>3. sync'.queue[1] = FailedEntry(Entry)
    BY <1>4, <2>1, <2>2, FirstExchanged
  <2>4. <<Rollback>> # <<>> /\ <<Rollback>>[1].kind = "rollback"
    BY DEF Rollback, Job
  <2> QED BY <2>2, <2>3, <2>4 DEF Starts
<1> QED BY <1>7, <1>8 DEF Atomic

\* TransactionGoesOn keeps AtomicInv.
LEMMA GoesOnAtomic ==
    ASSUME AtomicInv, DoneInv', NEW ok \in BOOLEAN, TransactionGoesOn(ok), mode = "Single",
           ~orphaned
    PROVE  Atomic'
<1>1. CountInv /\ DoneInv
  BY DEF AtomicInv, DoneInv, LostInv
<1>2. sync.listed
  BY <1>1, GoesOnKept
<1>3. /\ Answer(ok) /\ Waits /\ Entry.tx /\ Serve(Current, ok)
      /\ Current.kind \notin {"commit", "rollback"} /\ (ok \/ Current.kind = "delete")
      /\ before' = before
  BY DEF TransactionGoesOn, Answer, callVars
<1>4. /\ Entry = sync.queue[1] /\ Current = Entry.jobs[1] /\ Current.kind # "list"
      /\ Entry.state # "Idle"
  BY <1>1, <1>2, <1>3, AnswerFinds
<1>5. /\ open => saved = before
      /\ ~open => store = before /\ Starts(Entry)
      /\ open \in BOOLEAN
  BY <1>1, <1>2, <1>3, <1>4, AtomicFinds DEF CountInv, TypeOK
<1>6. CASE IsChange(Current)
  <2>1. open
    BY <1>4, <1>5, <1>6 DEF Starts, IsChange
  <2>2. saved' = saved /\ open' = open
    BY <1>3, <1>6 DEF Serve, IsChange, serverVars
  <2> QED BY <1>3, <1>5, <2>1, <2>2 DEF Atomic
<1>7. CASE ~IsChange(Current)
  <2>1. Current.kind # "delete" /\ ok
    BY <1>3, <1>7 DEF IsChange
  <2>2. Current.kind = "begin"
    <3>1. Current \in JobType
      BY <1>1, <1>3, Answered
    <3> QED BY <1>3, <1>4, <1>7, <3>1 DEF IsChange, JobType
  <2>3. open' = TRUE /\ saved' = (IF open THEN saved ELSE store)
    BY <1>3, <2>1, <2>2 DEF Serve, IsChange
  <2> QED BY <1>3, <1>5, <2>3 DEF Atomic
<1> QED BY <1>6, <1>7

\* Every step keeps AtomicInv.
LEMMA AtomicInvStep ==
    ASSUME AtomicInv, [Next]_vars
    PROVE  AtomicInv'
<1>1. /\ DoneInv /\ CountInv
      /\ mode = "Single" /\ ~orphaned => Atomic
  BY DEF AtomicInv, DoneInv, LostInv
<1>2. DoneInv'
  BY <1>1, DoneInvStep
<1>3. ASSUME NEW chunk \in Chunk, NEW removed \in SUBSET Item, NEW last \in BOOLEAN,
             Deliver(chunk, removed, last)
      PROVE  AtomicInv'
  <2>1. /\ sync' = Execute(Delivering(sync, chunk, removed, last))
        /\ sync.listed => Sound(Delivering(sync, chunk, removed, last))
        /\ ~sync.listed => sync' = Delivering(sync, chunk, removed, last)
    BY <1>1, <1>3, DeliverKept
  <2>2. /\ sync.results = 0 /\ (sync.delivered => cancelled)
        /\ cancelled => told' = told /\ gone' = gone
        /\ UNCHANGED <<mode, form, store, saved, open, before, undeleted, orphaned>>
    BY <1>3 DEF Deliver, serverVars
  <2> QED BY <1>2, <2>1, <2>2, HandedOverAtomic
<1>4. CASE DeliveryDone
  <2> DEFINE u == [sync EXCEPT !.delivered = TRUE]
             none == {}
             t == TRUE
  <2>1. /\ sync' = Execute(u)
        /\ sync.listed => Sound(u)
        /\ ~sync.listed => sync' = u
    BY <1>1, <1>4, DeliveryDoneKept
  <2>2. u = Delivering(sync, none, none, t)
    BY <1>1 DEF SyncType, Delivering, CountInv, TypeOK
  <2>3. /\ sync.results = 0 /\ ~sync.delivered /\ t \in BOOLEAN
        /\ UNCHANGED <<mode, form, store, saved, open, before, undeleted, orphaned>>
    BY <1>4 DEF DeliveryDone, serverVars, callVars
  <2> HIDE DEF u, none, t
  <2> QED BY <1>2, <2>1, <2>2, <2>3, HandedOverAtomic
<1>5. CASE Cancel
  BY <1>2, <1>5, CancelAtomic
<1>6. ASSUME NEW ok \in BOOLEAN, LocalListDone(ok)
      PROVE  AtomicInv'
  <2>1. /\ Waits /\ Answer(ok)
        /\ UNCHANGED <<mode, before, store, saved, open, orphaned>>
    BY <1>6 DEF LocalListDone, Answer, callVars, serverVars
  <2>2. mode = "Single" /\ sync'.queue # <<>> => Starts(sync'.queue[1])
    <3>1. LostInv'
      BY <1>2 DEF DoneInv
    <3> QED BY <1>1, <1>6, <3>1, ListDone
  <2>3. ASSUME mode = "Single", ~orphaned
        PROVE  Atomic'
    <3>1. /\ open => saved = before
          /\ ~open => store = before
      BY <2>1, <2>3, AtomicFinds
    <3> QED BY <2>1, <2>2, <2>3, <3>1 DEF Atomic
  <2> QED BY <1>2, <2>1, <2>3 DEF AtomicInv
<1>7. ASSUME NEW ok \in BOOLEAN, ChangeDone(ok)
      PROVE  AtomicInv'
  <2>1. mode # "Single"
    <3>1. LostInv'
      BY <1>2 DEF DoneInv
    <3> QED BY <1>1, <1>7, <3>1, ChangeDoneDone
  <2>2. mode' = mode
    BY <1>7 DEF ChangeDone, Answer, callVars
  <2> QED BY <1>2, <2>1, <2>2 DEF AtomicInv
<1>8. ASSUME NEW ok \in BOOLEAN, TransactionGoesOn(ok)
      PROVE  AtomicInv'
  <2>1. mode' = mode /\ orphaned' = orphaned
    BY <1>8 DEF TransactionGoesOn, Answer, callVars
  <2> QED BY <1>2, <1>8, <2>1, GoesOnAtomic DEF AtomicInv
<1>9. CASE TransactionDone
  <2>1. mode' = mode
    BY <1>9 DEF TransactionDone, Answer, callVars
  <2> QED BY <1>2, <1>9, <2>1, DoneAtomic DEF AtomicInv
<1>10. CASE TransactionFails
  <2>1. mode' = mode
    BY <1>10 DEF TransactionFails, Answer, callVars
  <2>2. orphaned' = orphaned
    BY <1>1, <1>10, FailsKept
  <2> QED BY <1>2, <1>10, <2>1, <2>2, FailsAtomic DEF AtomicInv
<1>11. CASE UNCHANGED vars
  BY <1>1, <1>2, <1>11 DEF vars, AtomicInv, Atomic, AllStored, Stored, Target
<1> QED BY <1>3, <1>4, <1>5, <1>6, <1>7, <1>8, <1>9, <1>10, <1>11 DEF Next, Answers

\* AtomicInv is an invariant.
LEMMA AtomicInvAlways == Spec => []AtomicInv
<1>1. Init => AtomicInv
  <2>1. SUFFICES ASSUME Init PROVE AtomicInv
    OBVIOUS
  <2>2. store = before /\ ~open /\ ~sync.listed
    BY <2>1 DEF Init
  <2>3. Atomic
    BY <2>2 DEF Atomic
  <2> QED BY <2>1, <2>3, DoneInvInit DEF AtomicInv
<1>2. AtomicInv /\ [Next]_vars => AtomicInv'
  BY AtomicInvStep
<1> QED BY <1>1, <1>2, PTL DEF Spec

\* With a single transaction, whatever arrives late, fails or is cancelled, others see
\* what was stored before or all of the sync, unless changes were left in a transaction
\* that was deleted.
THEOREM SingleIsAtomic == Spec => []AllOrNothing
<1>1. AtomicInv => AllOrNothing
  <2>1. SUFFICES ASSUME AtomicInv, mode = "Single", ~orphaned
                 PROVE  Stored = before \/ AllStored
    BY DEF AllOrNothing
  <2>2. Atomic
    BY <2>1 DEF AtomicInv
  <2> QED BY <2>2 DEF Atomic, Stored
<1> QED BY <1>1, AtomicInvAlways, PTL

----------------------------------------------------------------------------
(* Nothing is forgotten                                                    *)

\* A transaction that is let go of has a job, and one that ends it when the
\* others are answered: it is committed then, or was told to roll back.
OnItsWay(e) ==
    e.tx => e.jobs # <<>> /\ (e.state = "Waiting" \/ e.failed \/ e.jobs = <<Commit>>)

\* Only the current transaction may wait for more.
UnderWay(s) == \A k \in DOMAIN s.queue : (s.current /\ k = Len(s.queue)) \/ OnItsWay(s.queue[k])

\* A transaction stays current only when it is the only one.
Exclusive(s) == s.current => mode = "Single"

\* checkDone() was called since whatever it looks at has changed.
Watched(s) == s.listed /\ s.delivered => s.results > 0 \/ s.pending > 0 \/ s.transactions > 0

WaitInv == CountInv /\ UnderWay(sync) /\ Exclusive(sync) /\ Watched(sync)

\* Until there is a result of what was delivered, the server has a job of ItemSync
\* whose answer leads on - unless a transaction was deleted with changes left in it.
NotForgotten == (sync.delivered /\ sync.results = 0 /\ ~orphaned) => Waits

\* A job of ItemSync itself is on its way.
LEMMA PlainOnItsWay == \A job : OnItsWay(Plain(job))
  BY DEF OnItsWay, Plain

\* What is listed before the local items are is on its way, too.
LEMMA UnlistedUnderWay ==
    ASSUME NEW s, Unlisted(s)
    PROVE  UnderWay(s) /\ Exclusive(s) /\ Watched(s)
<1>1. s.queue = <<Plain(Job("list", {}))>> /\ ~s.current /\ ~s.listed
  BY DEF Unlisted
<1>2. \A k \in DOMAIN s.queue : s.queue[k] = Plain(Job("list", {}))
  BY <1>1
<1> QED BY <1>1, <1>2, PlainOnItsWay DEF UnderWay, Exclusive, Watched

\* Other fields do not matter.
LEMMA UnderWayStill ==
    ASSUME NEW s, UnderWay(s), NEW r, r.queue = s.queue, r.current = s.current
    PROVE  UnderWay(r) /\ (Exclusive(s) => Exclusive(r))
  BY DEF UnderWay, Exclusive

\* A new transaction is the current one, and there was none before.
LEMMA OpenedUnderWay ==
    ASSUME NEW s, Sound(s), s.results = 0, UnderWay(s), Exclusive(s), mode \in Modes
    PROVE  UnderWay(Opened(s)) /\ (mode # "Multiple" => Exclusive(Opened(s)))
<1> DEFINE r == Opened(s)
           n == Len(s.queue)
<1>1. IF mode = "None" \/ (mode = "Single" /\ s.current) THEN r = s
      ELSE r.current /\ r.queue = Append(s.queue, NewTransaction)
  BY OpenedSound
<1>2. s.queue \in Seq(EntryType)
  BY SyncFields DEF Sound
<1>3. CASE mode = "None" \/ (mode = "Single" /\ s.current)
  BY <1>1, <1>3
<1>4. CASE ~(mode = "None" \/ (mode = "Single" /\ s.current))
  <2>1. ~s.current
    BY <1>4 DEF Exclusive
  <2>2. r.current /\ r.queue = Append(s.queue, NewTransaction)
    BY <1>1, <1>4
  <2> HIDE DEF r
  <2>3. /\ Len(r.queue) = n + 1 /\ n \in Nat /\ DOMAIN s.queue = 1 .. n
        /\ DOMAIN r.queue = 1 .. n + 1
        /\ \A k \in 1 .. n : r.queue[k] = s.queue[k]
    BY <1>2, <2>2
  <2>4. \A k \in 1 .. n + 1 : k \in 1 .. n \/ k = n + 1
    BY <2>3
  <2>5. UnderWay(r)
    BY <2>1, <2>2, <2>3, <2>4 DEF UnderWay
  <2>6. mode # "Multiple" => mode = "Single"
    BY <1>4, ItemSyncAssumption
  <2> QED BY <2>5, <2>6 DEF Exclusive, r
<1> QED BY <1>3, <1>4

\* Jobs are added to the current transaction, or are on their way at once.
LEMMA JobsAddedUnderWay ==
    ASSUME NEW s, Sound(s), s.results = 0, UnderWay(s), NEW jobs \in Seq(JobType),
           \A k \in DOMAIN jobs : IsChange(jobs[k]),
           NEW r, r.queue = JobsAdded(s, jobs).queue, r.current = s.current
    PROVE  UnderWay(r)
<1> DEFINE n == Len(s.queue)
           e == Added(s.queue[n], jobs)
           plain == [k \in DOMAIN jobs |-> Plain(jobs[k])]
<1>1. /\ s.current => n \in DOMAIN s.queue /\ r.queue = [s.queue EXCEPT ![n] = e]
      /\ ~s.current => r.queue = s.queue \o plain
  BY JobsAddedSound
<1>2. s.queue \in Seq(EntryType)
  BY SyncFields DEF Sound
<1>3. CASE s.current
  <2>1. /\ DOMAIN r.queue = DOMAIN s.queue /\ Len(r.queue) = n
        /\ \A k \in DOMAIN s.queue : k # n => r.queue[k] = s.queue[k]
    <3> HIDE DEF e
    <3> QED BY <1>1, <1>2, <1>3
  <2> QED BY <1>3, <2>1 DEF UnderWay
<1>4. CASE ~s.current
  <2> DEFINE E == EntryType \cup {Plain(jobs[k]) : k \in DOMAIN jobs}
  <2>1. s.queue \in Seq(E) /\ plain \in Seq(E)
    <3>1. DOMAIN jobs = 1 .. Len(jobs) /\ Len(jobs) \in Nat
      OBVIOUS
    <3>2. plain \in [1 .. Len(jobs) -> E]
      BY <3>1
    <3> HIDE DEF plain
    <3>3. s.queue \in Seq(E)
      BY <1>2
    <3> HIDE DEF E
    <3> QED BY <3>1, <3>2, <3>3
  <2>2. \A k \in DOMAIN plain : OnItsWay(plain[k])
    BY PlainOnItsWay
  <2> HIDE DEF plain, E
  <2> DEFINE both == s.queue \o plain
  <2>4. \A k \in DOMAIN both : \/ k \in DOMAIN s.queue /\ both[k] = s.queue[k]
                               \/ \E j \in DOMAIN plain : both[k] = plain[j]
    BY <2>1, BothParts
  <2>5. r.queue = both
    BY <1>1, <1>4 DEF plain
  <2> HIDE DEF both
  <2>3. \A k \in DOMAIN r.queue : \/ k \in DOMAIN s.queue /\ r.queue[k] = s.queue[k]
                                  \/ \E j \in DOMAIN plain : r.queue[k] = plain[j]
    BY <2>4, <2>5
  <2> QED BY <1>4, <2>2, <2>3 DEF UnderWay
<1> QED BY <1>3, <1>4

\* The last transaction has left the queue.
LEMMA LastLeaves ==
    ASSUME NEW s, Sound(s), UnderWay(s), s.queue # <<>>, NEW r, ~r.current,
           r.queue = RemoveAt(s.queue, Len(s.queue))
    PROVE  UnderWay(r)
<1> DEFINE n == Len(s.queue)
<1>1. s.queue \in Seq(EntryType)
  BY SyncFields DEF Sound
<1>2. /\ r.queue \in Seq(EntryType) /\ Len(r.queue) = n - 1 /\ n \in DOMAIN s.queue
      /\ \A k \in 1 .. n - 1 : r.queue[k] = s.queue[k]
  BY <1>1, LastRemoved
<1>3. DOMAIN r.queue = 1 .. n - 1 /\ \A k \in 1 .. n - 1 : k \in DOMAIN s.queue /\ k # n
  BY <1>1, <1>2
<1> HIDE DEF n
<1> QED BY <1>2, <1>3 DEF UnderWay, n

\* commit() sets the current transaction on its way.
LEMMA CommittedUnderWay ==
    ASSUME NEW s, Sound(s), UnderWay(s)
    PROVE  UnderWay(Committed(s)) /\ ~Committed(s).current
<1> DEFINE r == Committed(s)
           n == Len(s.queue)
           t == s.queue[n]
<1>1. /\ ~r.current
      /\ ~s.current => r = s
      /\ s.current => n \in DOMAIN s.queue /\ t \in EntryType /\ EntryOK(t) /\ Usable(t)
      /\ s.current /\ t.state = "Idle" => r.queue = RemoveAt(s.queue, n)
      /\ s.current /\ t.state # "Idle" => r = CommitLast(s)
  BY CommittedSound
<1>2. s \in SyncType /\ s.queue \in Seq(EntryType)
  BY SyncFields DEF Sound
<1>3. CASE ~s.current
  BY <1>1, <1>3
<1>4. CASE s.current /\ t.state = "Idle"
  <2>1. s.queue # <<>>
    BY <1>1, <1>4
  <2> HIDE DEF r
  <2> QED BY <1>1, <1>4, <2>1, LastLeaves DEF r
<1>5. CASE s.current /\ t.state # "Idle"
  <2> DEFINE e == IF t.jobs # <<>> THEN [t EXCEPT !.state = "Waiting"]
                  ELSE Added(t, <<Commit>>)
  <2>1. t \in EntryType /\ t.tx /\ EntryOK(t) /\ t.jobs \in Seq(JobType) /\ n \in DOMAIN s.queue
    BY <1>1, <1>5 DEF Usable, EntryType
  <2>2. OnItsWay(e)
    <3>1. CASE t.jobs # <<>>
      <4>1. e.jobs = t.jobs /\ e.state = "Waiting"
        BY <2>1, <3>1 DEF EntryType
      <4> QED BY <3>1, <4>1 DEF OnItsWay
    <3>2. CASE t.jobs = <<>>
      <4>1. e = [t EXCEPT !.state = "Running", !.jobs = t.jobs \o <<Commit>>]
        BY <1>5, <3>2 DEF Added
      <4>2. e.jobs = t.jobs \o <<Commit>>
        BY <2>1, <4>1 DEF EntryType
      <4>3. <<>> \o <<Commit>> = <<Commit>>
        <5>1. <<Commit>> \in Seq({Commit})
          OBVIOUS
        <5> QED BY <5>1
      <4>4. e.jobs = <<Commit>>
        <5> HIDE DEF e, t
        <5> QED BY <3>2, <4>2, <4>3
      <4> QED BY <4>4 DEF OnItsWay
    <3> QED BY <3>1, <3>2
  <2>3. r.queue = [s.queue EXCEPT ![n] = e]
    BY <1>1, <1>2, <1>5 DEF CommitLast, SyncType
  <2> HIDE DEF e, r
  <2>4. /\ DOMAIN r.queue = DOMAIN s.queue
        /\ \A k \in DOMAIN s.queue : r.queue[k] = IF k = n THEN e ELSE s.queue[k]
    BY <1>2, <2>1, <2>3
  <2> HIDE DEF n
  <2>5. UnderWay(r)
    BY <2>2, <2>4 DEF UnderWay, n
  <2> QED BY <1>1, <2>5 DEF r, n
<1> QED BY <1>3, <1>4, <1>5

\* rollback() takes the current transaction out of the queue or lets it stay current.
LEMMA RolledBackUnderWay ==
    ASSUME NEW s, Sound(s), s.results = 0, s.error, s.delivered => ~s.current,
           UnderWay(s), Exclusive(s)
    PROVE  UnderWay(RolledBack(s)) /\ Exclusive(RolledBack(s))
<1> DEFINE r == RolledBack(s)
           n == Len(s.queue)
           t == s.queue[n]
           e == [Added(t, <<Rollback>>) EXCEPT !.failed = TRUE]
<1>1. /\ ~s.current => r = s
      /\ s.current => n \in DOMAIN s.queue
      /\ s.current /\ t.state = "Idle" => r.queue = RemoveAt(s.queue, n) /\ ~r.current
      /\ s.current /\ t.state # "Idle" => r.current /\ r.queue = [s.queue EXCEPT ![n] = e]
  BY RolledBackSound
<1>2. s.queue \in Seq(EntryType)
  BY SyncFields DEF Sound
<1> HIDE DEF r, e
<1>3. CASE ~s.current
  BY <1>1, <1>3 DEF r
<1>4. CASE s.current /\ t.state = "Idle"
  <2>1. s.queue # <<>>
    BY <1>1, <1>4
  <2> QED BY <1>1, <1>4, <2>1, LastLeaves DEF r, Exclusive
<1>5. CASE s.current /\ t.state # "Idle"
  <2>1. r.current /\ r.queue = [s.queue EXCEPT ![n] = e] /\ n \in DOMAIN s.queue
    BY <1>1, <1>5
  <2>2. /\ DOMAIN r.queue = DOMAIN s.queue /\ Len(r.queue) = n
        /\ \A k \in DOMAIN s.queue : k # n => r.queue[k] = s.queue[k]
    BY <1>2, <2>1
  <2> QED BY <1>5, <2>1, <2>2 DEF UnderWay, Exclusive, r
<1> QED BY <1>3, <1>4, <1>5

\* checkDone() leaves something to wait for, or a result.
LEMMA CheckDoneWatches ==
    ASSUME NEW s, s.results = 0, CheckDone(s) \in SyncType
    PROVE  Watched(CheckDone(s))
<1>1. CASE s.pending > 0 \/ ~s.delivered \/ s.transactions > 0
  BY <1>1 DEF CheckDone, Watched
<1>2. CASE ~(s.pending > 0 \/ ~s.delivered \/ s.transactions > 0)
  <2>1. CheckDone(s) = [s EXCEPT !.results = 1]
    BY <1>2 DEF CheckDone
  <2>2. CheckDone(s).results = 1
    BY <2>1 DEF SyncType
  <2> QED BY <2>2 DEF Watched
<1> QED BY <1>1, <1>2

\* execute() leaves everything on its way.
LEMMA ExecuteUnderWay ==
    ASSUME NEW s, Sound(s), s.results = 0, UnderWay(s), Exclusive(s), mode \in Modes,
           Watched(s) \/ s.delivered
    PROVE  UnderWay(Execute(s)) /\ Exclusive(Execute(s)) /\ Watched(Execute(s))
<1> DEFINE o == Opened(s)
           p == Begun(s)
           d == Swept(s)
           r == Execute(s)
<1>1. /\ Sound(o) /\ o.results = 0 /\ Sound(p) /\ p.results = 0 /\ Sound(d) /\ Sound(r)
      /\ IF ~s.delivered /\ s.arrived = {} THEN r = s
         ELSE IF s.delivered THEN r = CheckDone(Committed(d))
         ELSE IF mode = "Multiple" THEN r = Committed(p) ELSE r = p
      /\ p.delivered = s.delivered
  BY ExecuteSteps
<1>2. UnderWay(o) /\ (mode # "Multiple" => Exclusive(o))
  BY OpenedUnderWay
<1>3. p = Processed(o) /\ d = Deleted(p)
  BY DEF Begun, Swept
<1> HIDE DEF o, p, d, r
<1>4. o \in SyncType /\ p \in SyncType /\ d \in SyncType
  BY <1>1 DEF Sound
<1>5. UnderWay(p) /\ p.current = o.current
  <2>1. /\ p.queue = JobsAdded(o, ProcessJobs(o)).queue
        /\ \A f \in DOMAIN o \ {"queue", "pending", "arrived", "unprocessed"} : p[f] = o[f]
    BY <1>1, <1>3, ProcessedSound
  <2>2. p.current = o.current
    BY <1>4, <2>1 DEF SyncType
  <2>3. ProcessJobs(o) \in Seq(JobType)
        /\ \A k \in DOMAIN ProcessJobs(o) : IsChange(ProcessJobs(o)[k])
    BY <1>4, ProcessJobsOK
  <2> QED BY <1>1, <1>2, <2>1, <2>2, <2>3, JobsAddedUnderWay
<1>6. UnderWay(d)
  <2>1. /\ IF ToDelete(p) = {} THEN d.queue = p.queue
           ELSE d.queue = JobsAdded(p, DeleteJobs(p)).queue
        /\ \A f \in DOMAIN p \ {"queue", "pending", "local", "removed", "unprocessed"} :
               d[f] = p[f]
    BY <1>1, <1>3, DeletedSound
  <2>2. d.current = p.current
    BY <1>4, <2>1 DEF SyncType
  <2>3. DeleteJobs(p) \in Seq(JobType)
        /\ \A k \in DOMAIN DeleteJobs(p) : IsChange(DeleteJobs(p)[k])
    BY <1>4, DeleteJobsOK
  <2> QED BY <1>1, <1>5, <2>1, <2>2, <2>3, JobsAddedUnderWay, UnderWayStill
<1>7. CASE ~s.delivered /\ s.arrived = {}
  BY <1>1, <1>7 DEF r
<1>8. CASE s.delivered
  <2> DEFINE c == Committed(d)
  <2>1. Sound(c) /\ UnderWay(c) /\ ~c.current
    BY <1>1, <1>6, CommittedSound, CommittedUnderWay
  <2>2. r = CheckDone(c)
    BY <1>1, <1>8
  <2> HIDE DEF c
  <2>3. r.queue = c.queue /\ r.current = c.current /\ r \in SyncType /\ c \in SyncType
    <3>1. Sound(CheckDone(c)) /\ (CheckDone(c) = c \/ CheckDone(c) = [c EXCEPT !.results = 1])
      BY <2>1, CheckDoneSound
    <3> QED BY <2>1, <2>2, <3>1 DEF Sound, SyncType
  <2>4. UnderWay(r) /\ Exclusive(r)
    BY <2>1, <2>3, UnderWayStill DEF Exclusive
  <2>5. Watched(r)
    <3>1. CASE c.results = 0
      BY <2>2, <2>3, <3>1, CheckDoneWatches
    <3>2. CASE c.results # 0
      <4>1. c.results > 0
        BY <2>3, <3>2, SyncFields
      <4>2. r = c
        BY <2>2, <4>1 DEF CheckDone
      <4> QED BY <4>1, <4>2 DEF Watched
    <3> QED BY <3>1, <3>2
  <2> QED BY <2>4, <2>5 DEF r
<1>9. CASE ~s.delivered /\ s.arrived # {}
  <2>1. r = Committed(p) \/ (r = p /\ mode # "Multiple")
    BY <1>1, <1>9
  <2>2. UnderWay(r) /\ Exclusive(r)
    <3>1. CASE r = Committed(p)
      BY <1>1, <1>5, <3>1, CommittedUnderWay DEF Exclusive
    <3>2. CASE r = p /\ mode # "Multiple"
      BY <1>2, <1>5, <3>2 DEF Exclusive
    <3> QED BY <2>1, <3>1, <3>2
  <2>3. Execute(s).delivered = s.delivered
    BY ExecuteFields
  <2>4. Watched(r)
    BY <1>9, <2>3 DEF Watched, r
  <2> QED BY <2>2, <2>4 DEF r
<1> QED BY <1>7, <1>8, <1>9

\* The first entry has left the queue.
LEMMA FirstLeaves ==
    ASSUME NEW s, s.queue \in Seq(EntryType), s.queue # <<>>, UnderWay(s),
           NEW r, r.queue = Tail(s.queue), r.current => s.current,
           s.current /\ ~r.current => Len(s.queue) = 1
    PROVE  UnderWay(r)
<1>1. /\ Len(r.queue) = Len(s.queue) - 1
      /\ \A k \in DOMAIN r.queue : k + 1 \in DOMAIN s.queue /\ r.queue[k] = s.queue[k + 1]
      /\ Len(s.queue) \in Nat /\ DOMAIN r.queue = 1 .. Len(s.queue) - 1
  <2>1. r.queue \in Seq(EntryType) /\ Len(s.queue) \in Nat
    OBVIOUS
  <2>2. /\ Len(r.queue) = Len(s.queue) - 1
        /\ \A k \in DOMAIN r.queue : k + 1 \in DOMAIN s.queue /\ r.queue[k] = s.queue[k + 1]
    BY TailShifts
  <2> QED BY <2>1, <2>2
<1> SUFFICES ASSUME NEW k \in DOMAIN r.queue, ~(r.current /\ k = Len(r.queue))
             PROVE  OnItsWay(r.queue[k])
  BY DEF UnderWay
<1>2. k \in 1 .. Len(s.queue) - 1
  BY <1>1
<1>3. ~(s.current /\ k + 1 = Len(s.queue))
  BY <1>1, <1>2
<1> QED BY <1>1, <1>3 DEF UnderWay

\* The first entry is exchanged for one that is on its way if it was.
LEMMA FirstGoesOn ==
    ASSUME NEW s, s.queue \in Seq(EntryType), s.queue # <<>>, UnderWay(s),
           NEW e, OnItsWay(s.queue[1]) => OnItsWay(e),
           NEW r, r.queue = [s.queue EXCEPT ![1] = e], r.current = s.current
    PROVE  UnderWay(r)
<1>1. /\ DOMAIN r.queue = DOMAIN s.queue /\ Len(r.queue) = Len(s.queue)
      /\ \A k \in DOMAIN s.queue : r.queue[k] = IF k = 1 THEN e ELSE s.queue[k]
  OBVIOUS
<1> QED BY <1>1 DEF UnderWay

\* A transaction that was let go of ends some day: as long as it does not fail
\* it is committed after its last job, and if it does it is rolled back.
LEMMA GoneOnOnItsWay ==
    ASSUME NEW t \in EntryType, t.tx, EntryOK(t), t.jobs # <<>>,
           t.jobs[1].kind \notin {"commit", "rollback"}, OnItsWay(t)
    PROVE  OnItsWay(GoneOn(t))
<1> DEFINE e == GoneOn(t)
<1>1. /\ e.tx /\ EntryOK(e) /\ e.failed = t.failed
      /\ e.jobs = IF Tail(t.jobs) = <<>> /\ t.state = "Waiting" THEN <<Commit>>
                  ELSE Tail(t.jobs)
      /\ e.state = IF Tail(t.jobs) = <<>> /\ t.state = "Waiting" THEN "Running" ELSE t.state
  BY GoneOnSound
<1> HIDE DEF e
<1>2. t.jobs # <<Commit>>
  BY DEF Commit, Job
<1>3. CASE t.failed
  <2>1. HasKind(e.jobs, "rollback")
    BY <1>1, <1>3 DEF EntryOK
  <2>2. e.jobs # <<>>
    BY <2>1 DEF HasKind
  <2> QED BY <1>1, <1>3, <2>2 DEF OnItsWay, e
<1>4. CASE ~t.failed
  <2>1. t.state = "Waiting"
    BY <1>2, <1>4 DEF OnItsWay
  <2>2. CASE Tail(t.jobs) = <<>>
    BY <1>1, <2>1, <2>2 DEF OnItsWay, e
  <2>3. CASE Tail(t.jobs) # <<>>
    BY <1>1, <2>1, <2>3 DEF OnItsWay, e
  <2> QED BY <2>2, <2>3
<1> QED BY <1>3, <1>4

\* What a call of the resource, or the list, hands over to execute() is under way.
LEMMA ExecuteWaits ==
    ASSUME NEW s, s.results = 0, s.listed => Sound(s), UnderWay(s), Exclusive(s),
           mode \in Modes, Watched(s) \/ s.delivered
    PROVE  UnderWay(Execute(s)) /\ Exclusive(Execute(s)) /\ Watched(Execute(s))
<1>1. CASE s.listed
  BY <1>1, ExecuteUnderWay
<1>2. CASE ~s.listed
  <2>1. Execute(s) = s
    BY <1>2 DEF Execute
  <2> QED BY <1>2, <2>1 DEF Watched
<1> QED BY <1>1, <1>2

\* Every step keeps WaitInv.
LEMMA WaitInvStep ==
    ASSUME WaitInv, [Next]_vars
    PROVE  WaitInv'
<1>1. /\ CountInv /\ TypeOK /\ sync \in SyncType /\ mode \in Modes
      /\ UnderWay(sync) /\ Exclusive(sync) /\ Watched(sync)
  BY DEF WaitInv, CountInv, TypeOK
<1>2. CountInv'
  BY <1>1, CountInvStep
<1>3. sync.queue \in Seq(EntryType)
  BY <1>1, SyncFields
<1>4. SUFFICES UnderWay(sync') /\ Exclusive(sync)' /\ Watched(sync')
  BY <1>2 DEF WaitInv, UnderWay, OnItsWay, Exclusive, Watched
<1>5. ASSUME UNCHANGED mode, NEW u, sync' = Execute(u), u.results = 0, u.listed => Sound(u),
             UnderWay(u), Exclusive(u), Watched(u) \/ u.delivered
      PROVE  UnderWay(sync') /\ Exclusive(sync)' /\ Watched(sync')
  <2> DEFINE x == Execute(u)
  <2>1. UnderWay(x) /\ Exclusive(x) /\ Watched(x)
    BY <1>1, <1>5, ExecuteWaits
  <2> HIDE DEF x
  <2>2. sync' = x
    BY <1>5 DEF x
  <2> QED BY <1>5, <2>1, <2>2 DEF Exclusive
<1>6. ASSUME NEW chunk \in Chunk, NEW removed \in SUBSET Item, NEW last \in BOOLEAN,
             Deliver(chunk, removed, last)
      PROVE  UnderWay(sync') /\ Exclusive(sync)' /\ Watched(sync')
  <2> DEFINE u == Delivering(sync, chunk, removed, last)
  <2>1. sync' = Execute(u) /\ u.results = 0 /\ (sync.listed => Sound(u))
    BY <1>1, <1>6, DeliverKept
  <2>2. /\ u.queue = sync.queue /\ u.current = sync.current /\ u.listed = sync.listed
        /\ u.delivered = (sync.delivered \/ last)
    BY <1>1 DEF Delivering, SyncType
  <2>3. UNCHANGED mode
    BY <1>6 DEF Deliver
  <2> HIDE DEF u
  <2>4. UnderWay(u) /\ Exclusive(u)
    BY <1>1, <2>2, UnderWayStill
  <2>5. Watched(u) \/ u.delivered
    BY DEF Watched
  <2> QED BY <1>5, <2>1, <2>2, <2>3, <2>4, <2>5
<1>7. CASE DeliveryDone
  <2> DEFINE u == [sync EXCEPT !.delivered = TRUE]
  <2>1. sync' = Execute(u) /\ u.results = 0 /\ (sync.listed => Sound(u))
    BY <1>1, <1>7, DeliveryDoneKept
  <2>2. u.queue = sync.queue /\ u.current = sync.current /\ u.listed = sync.listed
    BY <1>1 DEF SyncType
  <2>3. UNCHANGED mode
    BY <1>7 DEF DeliveryDone, callVars
  <2> HIDE DEF u
  <2>4. UnderWay(u) /\ Exclusive(u)
    BY <1>1, <2>2, UnderWayStill
  <2>5. Watched(u) \/ u.delivered
    BY DEF Watched
  <2> QED BY <1>5, <2>1, <2>2, <2>3, <2>4, <2>5
<1>8. CASE Cancel
  <2> DEFINE a == Failing(sync)
             u == Cancelling(sync)
             b == RolledBack(a)
  <2>1. /\ sync' = Execute(u) /\ u.results = 0 /\ a \in SyncType /\ u \in SyncType
        /\ \A f \in DOMAIN sync \ {"error"} : a[f] = sync[f]
        /\ a.error /\ a.results = 0 /\ (a.delivered => ~a.current)
        /\ u.delivered
        /\ sync.listed => Sound(a) /\ Sound(u)
                          /\ \A f \in DOMAIN sync \ {"delivered"} : u[f] = b[f]
        /\ ~sync.listed => sync' = u /\ u = [a EXCEPT !.delivered = TRUE]
    BY <1>1, <1>8, CancelKept
  <2>2. UNCHANGED mode
    BY <1>8 DEF Cancel
  <2> HIDE DEF a, u, b
  <2>3. a.queue = sync.queue /\ a.current = sync.current /\ a.listed = sync.listed
    BY <1>1, <2>1 DEF SyncType
  <2>4. UnderWay(a) /\ Exclusive(a)
    BY <1>1, <2>3, UnderWayStill
  <2>5. UnderWay(u) /\ Exclusive(u)
    <3>1. CASE sync.listed
      <4>1. UnderWay(b) /\ Exclusive(b)
        BY <2>1, <2>4, <3>1, RolledBackUnderWay DEF b
      <4>2. u.queue = b.queue /\ u.current = b.current
        BY <1>1, <2>1, <3>1 DEF SyncType
      <4> QED BY <4>1, <4>2, UnderWayStill
    <3>2. CASE ~sync.listed
      <4>1. u.queue = a.queue /\ u.current = a.current
        BY <2>1, <3>2 DEF SyncType
      <4> QED BY <2>4, <4>1, UnderWayStill
    <3> QED BY <3>1, <3>2
  <2>6. u.listed => Sound(u)
    <3>1. CASE sync.listed
      BY <2>1, <3>1
    <3>2. CASE ~sync.listed
      BY <2>1, <2>3, <3>2 DEF SyncType
    <3> QED BY <3>1, <3>2
  <2> QED BY <1>5, <2>1, <2>2, <2>5, <2>6
<1>9. ASSUME NEW ok \in BOOLEAN, LocalListDone(ok)
      PROVE  UnderWay(sync') /\ Exclusive(sync)' /\ Watched(sync')
  <2> DEFINE items == IF ok THEN {i \in Item : store[i] # 0} ELSE {}
             u == [sync EXCEPT !.queue = Tail(@), !.error = @ \/ ~ok, !.listed = TRUE,
                               !.local = items, !.unprocessed = items]
  <2>1. /\ ~sync.listed /\ sync' = Execute(u) /\ Sound(u) /\ u.results = 0
        /\ u.queue = <<>>
    BY <1>1, <1>9, ListKept
  <2>2. UNCHANGED mode
    BY <1>9 DEF LocalListDone, Answer, callVars
  <2>3. u.current = sync.current /\ u \in SyncType
    BY <1>1, <2>1 DEF SyncType, Sound
  <2> HIDE DEF u
  <2>4. UnderWay(u) /\ Exclusive(u)
    BY <1>1, <2>1, <2>3 DEF UnderWay, Exclusive
  <2>5. Watched(u) \/ u.delivered
    BY DEF Watched
  <2> QED BY <1>5, <2>1, <2>2, <2>4, <2>5
<1>10. ASSUME NEW ok \in BOOLEAN, ChangeDone(ok)
       PROVE  UnderWay(sync') /\ Exclusive(sync)' /\ Watched(sync')
  <2> DEFINE x == [sync EXCEPT !.queue = Tail(@), !.error = @ \/ ~ok, !.pending = @ - 1]
  <2>1. /\ sync'.queue = Tail(sync.queue) /\ sync' \in SyncType
        /\ \A f \in DOMAIN sync \ {"queue", "pending", "error", "results"} :
               sync'[f] = sync[f]
    BY <1>1, <1>2, <1>10, ChangeKept DEF CountInv, TypeOK
  <2>2. sync'.current = sync.current
    BY <1>1, <2>1 DEF SyncType
  <2>3. Waits /\ UNCHANGED mode /\ sync' = CheckDone(x)
    BY <1>10 DEF ChangeDone, Answer, callVars
  <2>4. sync.queue # <<>> /\ sync.results = 0
    BY <1>1, <2>3, Answered
  <2>5. UnderWay(sync')
    BY <1>1, <1>3, <2>1, <2>2, <2>4, FirstLeaves
  <2>6. x.results = 0
    BY <1>1, <2>4 DEF SyncType
  <2> HIDE DEF x
  <2>7. Watched(sync')
    BY <2>1, <2>3, <2>6, CheckDoneWatches
  <2> QED BY <1>1, <2>2, <2>3, <2>5, <2>7 DEF Exclusive
<1>11. ASSUME NEW ok \in BOOLEAN, TransactionGoesOn(ok)
       PROVE  UnderWay(sync') /\ Exclusive(sync)' /\ Watched(sync')
  <2> DEFINE x == [sync EXCEPT
                     !.queue[1] = IF [Entry EXCEPT !.jobs = Tail(@)].jobs = <<>>
                                     /\ [Entry EXCEPT !.jobs = Tail(@)].state = "Waiting"
                                  THEN Added([Entry EXCEPT !.jobs = Tail(@)], <<Commit>>)
                                  ELSE [Entry EXCEPT !.jobs = Tail(@)],
                     !.pending = @ - IF IsChange(Current) THEN 1 ELSE 0]
  <2>1. /\ sync'.queue = [sync.queue EXCEPT ![1] = GoneOn(Entry)] /\ sync' \in SyncType
        /\ \A f \in DOMAIN sync \ {"queue", "pending", "results"} : sync'[f] = sync[f]
        /\ sync.listed
    BY <1>1, <1>2, <1>11, GoesOnKept DEF CountInv, TypeOK
  <2>2. sync'.current = sync.current
    BY <1>1, <2>1 DEF SyncType
  <2>3. /\ Waits /\ UNCHANGED mode /\ sync' = CheckDone(x)
        /\ Entry.tx /\ Current.kind \notin {"commit", "rollback"}
    BY <1>11 DEF TransactionGoesOn, Answer, callVars
  <2>4. /\ sync.queue # <<>> /\ sync.results = 0 /\ Entry = sync.queue[1] /\ Entry \in EntryType
        /\ EntryOK(Entry) /\ Entry.jobs # <<>> /\ Current = Entry.jobs[1]
    BY <1>1, <2>1, <2>3, Answered
  <2>5. OnItsWay(Entry) => OnItsWay(GoneOn(Entry))
    BY <2>3, <2>4, GoneOnOnItsWay
  <2>6. UnderWay(sync')
    BY <1>1, <1>3, <2>1, <2>2, <2>4, <2>5, FirstGoesOn
  <2>7. x.results = 0
    BY <1>1, <2>4 DEF SyncType
  <2> HIDE DEF x
  <2>8. Watched(sync')
    BY <2>1, <2>3, <2>7, CheckDoneWatches
  <2> QED BY <1>1, <2>2, <2>3, <2>6, <2>8 DEF Exclusive
<1>12. CASE TransactionDone
  <2> DEFINE y == [sync EXCEPT !.queue[1] = Entry]
             x == Settled(y, 1)
  <2>1. /\ sync'.queue = Tail(sync.queue) /\ sync' \in SyncType
        /\ sync'.current = (sync.current /\ Len(sync.queue) # 1)
    BY <1>1, <1>2, <1>12, DoneKept DEF CountInv, TypeOK
  <2>2. Waits /\ UNCHANGED mode /\ sync' = TransactionResult(y, 1)
    BY <1>12 DEF TransactionDone, TransactionEnds, Answer, callVars
  <2>3. sync.queue # <<>> /\ sync.results = 0
    BY <1>1, <2>2, Answered
  <2>4. UnderWay(sync')
    BY <1>1, <1>3, <2>1, <2>3, FirstLeaves
  <2>5. x.results = 0
    BY <1>1, <2>3 DEF SyncType, Settled
  <2>6. sync' = CheckDone(x)
    BY <2>2, ResultSettles
  <2> HIDE DEF x
  <2>7. Watched(sync')
    BY <2>1, <2>5, <2>6, CheckDoneWatches
  <2>8. sync'.current => sync.current
    BY <2>1
  <2> QED BY <1>1, <2>2, <2>4, <2>7, <2>8 DEF Exclusive
<1>13. CASE TransactionFails
  <2> DEFINE e == FailedEntry(Entry)
             y == [sync EXCEPT !.pending = @ - Killed(Entry)]
             z == [y EXCEPT !.queue[1] = e]
             x == IF FailedAtOnce THEN Settled(z, 1) ELSE z
  <2>1. /\ FailedAtOnce => /\ sync'.queue = Tail(sync.queue)
                           /\ sync'.current = (sync.current /\ Len(sync.queue) # 1)
        /\ ~FailedAtOnce => /\ sync'.queue = [sync.queue EXCEPT ![1] = e]
                            /\ sync'.current = sync.current
        /\ sync' \in SyncType
    BY <1>1, <1>2, <1>13, FailsKept DEF CountInv, TypeOK
  <2>2. /\ Waits /\ UNCHANGED mode /\ Entry.tx
        /\ IF FailedAtOnce THEN sync' = TransactionResult(z, 1) ELSE sync' = CheckDone(z)
    BY <1>13 DEF TransactionFails, TransactionEnds, Answer, callVars, FailedAtOnce, FailedEntry
  <2>3. /\ sync.queue # <<>> /\ sync.results = 0 /\ Entry = sync.queue[1]
        /\ Entry \in EntryType
    BY <1>1, <2>2, Answered
  <2>4. OnItsWay(e)
    <3>1. e.jobs = <<Rollback>> /\ e.failed
      BY <2>2, <2>3, FailedEntrySound
    <3> QED BY <3>1 DEF OnItsWay
  <2> HIDE DEF e
  <2>5. UnderWay(sync') /\ (sync'.current => sync.current)
    <3>1. CASE FailedAtOnce
      BY <1>1, <1>3, <2>1, <2>3, <3>1, FirstLeaves
    <3>2. CASE ~FailedAtOnce
      BY <1>1, <1>3, <2>1, <2>3, <2>4, <3>2, FirstGoesOn
    <3> QED BY <3>1, <3>2
  <2>6. x.results = 0
    BY <1>1, <2>3 DEF SyncType, Settled
  <2>7. sync' = CheckDone(x)
    BY <2>2, ResultSettles
  <2> HIDE DEF x
  <2>8. Watched(sync')
    BY <2>1, <2>6, <2>7, CheckDoneWatches
  <2> QED BY <1>1, <2>2, <2>5, <2>8 DEF Exclusive
<1>14. CASE UNCHANGED vars
  BY <1>1, <1>14 DEF vars, Exclusive
<1> QED BY <1>6, <1>7, <1>8, <1>9, <1>10, <1>11, <1>12, <1>13, <1>14 DEF Next, Answers

\* WaitInv holds at first.
LEMMA WaitInvInit ==
    ASSUME Init
    PROVE  WaitInv
<1>1. CountInv /\ ~sync.listed
  BY CountInvInit DEF Init
<1>2. Unlisted(sync)
  BY <1>1 DEF CountInv, Kept
<1> QED BY <1>1, <1>2, UnlistedUnderWay DEF WaitInv

\* What is counted is in the queue, and what is in the queue has a job.
LEMMA WaitInvWaits ==
    ASSUME WaitInv
    PROVE  NotForgotten
<1> SUFFICES ASSUME sync.delivered, sync.results = 0, ~orphaned
             PROVE  Waits
  BY DEF NotForgotten
<1>1. /\ sync \in SyncType /\ Kept(sync) /\ Exact(sync) /\ ~sync.current
      /\ UnderWay(sync) /\ Watched(sync)
  BY DEF WaitInv, CountInv, TypeOK, Kept
<1>2. sync.queue \in Seq(EntryType) /\ sync.pending \in Nat /\ sync.transactions \in Nat
  BY <1>1, SyncFields
<1>3. CASE ~sync.listed
  <2>1. sync.queue = <<Plain(Job("list", {}))>>
    BY <1>1, <1>3 DEF Kept, Unlisted
  <2> QED BY <2>1 DEF Waits, Plain
<1>4. CASE sync.listed
  <2>1. Sound(sync)
    BY <1>1, <1>4 DEF Kept
  <2>2. sync.queue # <<>>
    <3> SUFFICES ASSUME sync.queue = <<>> PROVE FALSE
      OBVIOUS
    <3>1. Places(sync.queue) = {} /\ Transactions(sync.queue) = {}
      BY DEF Places, Transactions
    <3>2. sync.pending = 0 /\ sync.transactions = 0
      BY <1>1, <2>1, <3>1, FS_EmptySet DEF Exact, Sound
    <3> QED BY <1>1, <1>4, <3>2 DEF Watched
  <2>3. 1 \in DOMAIN sync.queue /\ Head(sync.queue) = sync.queue[1]
    BY <1>2, <2>2
  <2>4. OnItsWay(sync.queue[1]) /\ EntryOK(sync.queue[1])
    BY <1>1, <2>1, <2>3 DEF UnderWay, Sound
  <2>5. sync.queue[1].jobs # <<>>
    BY <2>4 DEF OnItsWay, EntryOK
  <2> QED BY <2>2, <2>3, <2>5 DEF Waits
<1> QED BY <1>3, <1>4

\* What Ends rests on: a sync whose delivery is over, and which has no result yet, is
\* never forgotten.  The server has a job of it, in any mode and whatever fails or is
\* cancelled - unless a transaction was deleted with changes left in it.
THEOREM NeverForgotten == Spec => []NotForgotten
<1>1. Init => WaitInv
  BY WaitInvInit
<1>2. WaitInv /\ [Next]_vars => WaitInv'
  BY WaitInvStep
<1>3. WaitInv => NotForgotten
  BY WaitInvWaits
<1> QED BY <1>1, <1>2, <1>3, PTL DEF Spec
=================================================================================
