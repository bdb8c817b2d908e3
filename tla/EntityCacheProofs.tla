--------------------------- MODULE EntityCacheProofs ---------------------------
(***************************************************************************)
(* What the EntityCache owes the ChangeRecorder: an entity that is awaited *)
(* is being fetched, and an entry that is out of date is fetched again,    *)
(* for any capacity, and however updates and answers alternate.            *)
(***************************************************************************)
EXTENDS ChangeRecorderProofs

----------------------------------------------------------------------------
(* The cache                                                               *)

Node(Id) == [id : Id, pending : BOOLEAN, old : BOOLEAN]
Job(Id)  == [id : Id, old : BOOLEAN]

CacheType(c, Id) == c \in [nodes : Seq(Node(Id)), jobs : Seq(Job(Id))]

\* The assertion of request(): no entity has two entries.
Single(c) ==
    \A j, k \in DOMAIN c.nodes : c.nodes[j].id = c.nodes[k].id => j = k

\* An awaited entry has a job.
Awaited(c) ==
    \A k \in DOMAIN c.nodes :
        c.nodes[k].pending => \E j \in DOMAIN c.jobs : c.jobs[j].id = c.nodes[k].id

\* An entry that is out of date has a job that is not.
Refetched(c) ==
    \A k \in DOMAIN c.nodes :
        ~c.nodes[k].pending /\ c.nodes[k].old =>
            \E j \in DOMAIN c.jobs : c.jobs[j].id = c.nodes[k].id /\ ~c.jobs[j].old

\* A job that is out of date and finds an entry to fill has a later one that
\* is not.
Corrected(c) ==
    \A i \in DOMAIN c.jobs :
        c.jobs[i].old /\ IsRequested(c, c.jobs[i].id) =>
            \E j \in DOMAIN c.jobs : i < j /\ c.jobs[j].id = c.jobs[i].id /\ ~c.jobs[j].old

CacheOK(c, Id) ==
    CacheType(c, Id) /\ Single(c) /\ Awaited(c) /\ Refetched(c) /\ Corrected(c)

WaitsFor(c, id) == \E k \in DOMAIN c.nodes : c.nodes[k].id = id /\ c.nodes[k].pending

\* What is awaited is not cached, and a job for it is under way.
LEMMA WaitingIsFetched ==
    ASSUME NEW Id, NEW c, CacheOK(c, Id), NEW id, WaitsFor(c, id)
    PROVE  /\ IsRequested(c, id) /\ ~IsCached(c, id)
           /\ \E j \in DOMAIN c.jobs : c.jobs[j].id = id
BY DEF CacheOK, WaitsFor, IsRequested, IsCached, Single, Awaited

\* Shrinking drops entries from the front, and no awaited one.
LEMMA ShrunkDrops ==
    ASSUME NEW Id, NEW nodes \in Seq(Node(Id))
    PROVE  \E d \in 0 .. Len(nodes) :
               /\ Shrunk(nodes) \in Seq(Node(Id)) /\ Len(Shrunk(nodes)) = Len(nodes) - d
               /\ \A i \in 1 .. Len(nodes) - d : Shrunk(nodes)[i] = nodes[i + d]
               /\ \A i \in 1 .. d : ~nodes[i].pending
<1> DEFINE Fits(k) == Len(nodes) - k < Capacity \/ nodes[k + 1].pending
           P == {i \in 1 .. Len(nodes) + 1 : \A j \in 0 .. i - 1 : ~Fits(j)}
           First(k) == Fits(k) /\ \A j \in 0 .. k - 1 : ~Fits(j)
           d == CHOOSE k \in 0 .. Len(nodes) : First(k)
<1>1. Len(nodes) \in Nat /\ Len(nodes) + 1 \in Nat
  OBVIOUS
<1>2. Fits(Len(nodes))
  BY <1>1, CapacityAssumption
<1> HIDE DEF Fits
<1>3. \E k \in 0 .. Len(nodes) : First(k)
  <2>1. P \in SUBSET (1 .. Len(nodes) + 1)
    OBVIOUS
  <2>2. \A i \in P : \A j \in 1 .. i : j \in P
    BY <1>1
  <2> HIDE DEF P
  <2>3. PICK p \in 0 .. Len(nodes) + 1 : P = 1 .. p
    BY <1>1, <2>1, <2>2, InitialPart
  <2>4. p # Len(nodes) + 1
    <3>1. Len(nodes) + 1 \notin P
      BY <1>1, <1>2 DEF P
    <3> QED BY <1>1, <2>3, <3>1
  <2>5. p \in 0 .. Len(nodes) /\ p + 1 \notin P /\ p + 1 \in 1 .. Len(nodes) + 1
    BY <1>1, <2>3, <2>4
  <2>6. \A j \in 0 .. p - 1 : ~Fits(j)
    <3>1. CASE p = 0
      BY <3>1
    <3>2. CASE p # 0
      <4>1. p \in P
        BY <2>3, <2>5, <3>2
      <4> QED BY <4>1 DEF P
    <3> QED BY <3>1, <3>2
  <2>7. Fits(p)
    <3>1. PICK j \in 0 .. p + 1 - 1 : Fits(j)
      BY <2>5 DEF P
    <3>2. j = p
      BY <2>5, <2>6, <3>1
    <3> QED BY <3>1, <3>2
  <2> QED BY <2>5, <2>6, <2>7
<1>4. d \in 0 .. Len(nodes) /\ First(d)
  <2> HIDE DEF First
  <2> QED BY <1>3
<1>5. Shrunk(nodes) = SubSeq(nodes, d + 1, Len(nodes))
  BY DEF Shrunk, Fits
<1>6. \A i \in 1 .. d : ~nodes[i].pending
  <2>1. ASSUME NEW i \in 1 .. d PROVE ~nodes[i].pending
    <3>1. i - 1 \in 0 .. d - 1 /\ i - 1 + 1 = i
      BY <1>1, <1>4
    <3>2. ~Fits(i - 1)
      BY <1>4, <3>1
    <3> QED BY <3>1, <3>2 DEF Fits
  <2> QED BY <2>1
<1> HIDE DEF d
<1>7. /\ SubSeq(nodes, d + 1, Len(nodes)) \in Seq(Node(Id))
      /\ Len(SubSeq(nodes, d + 1, Len(nodes))) = Len(nodes) - d
      /\ \A i \in 1 .. Len(nodes) - d : SubSeq(nodes, d + 1, Len(nodes))[i] = nodes[i + d]
  BY <1>1, <1>4, SMTT(30)
<1> QED BY <1>4, <1>5, <1>6, <1>7

\* Taking an entity out leaves the others, in their order.
LEMMA WithoutOne ==
    ASSUME NEW Id, NEW c, CacheType(c, Id), Single(c), NEW id
    PROVE  LET w == Without(c, id) IN
           /\ CacheType(w, Id) /\ Single(w) /\ w.jobs = c.jobs
           /\ \A i \in DOMAIN w.nodes :
                  w.nodes[i].id # id /\ \E k \in DOMAIN c.nodes : w.nodes[i] = c.nodes[k]
           /\ \A k \in DOMAIN c.nodes :
                  c.nodes[k].id # id => \E i \in DOMAIN w.nodes : w.nodes[i] = c.nodes[k]
<1> DEFINE n == Len(c.nodes)
<1>1. c.nodes \in Seq(Node(Id)) /\ c.jobs \in Seq(Job(Id)) /\ n \in Nat /\ DOMAIN c.nodes = 1 .. n
      /\ c = [nodes |-> c.nodes, jobs |-> c.jobs]
  BY DEF CacheType
<1>2. CASE ~IsRequested(c, id)
  BY <1>2 DEF Without, IsRequested
<1>3. CASE IsRequested(c, id)
  <2> DEFINE First(k) == c.nodes[k].id = id /\ \A j \in 1 .. k - 1 : c.nodes[j].id # id
             k == CHOOSE k \in DOMAIN c.nodes : First(k)
             F(i) == c.nodes[IF i < k THEN i ELSE i + 1]
             nodes == [i \in 1 .. n - 1 |-> F(i)]
  <2>1. \E i \in DOMAIN c.nodes : First(i)
    <3>1. PICK i \in DOMAIN c.nodes : c.nodes[i].id = id
      BY <1>3 DEF IsRequested
    <3>2. \A j \in 1 .. i - 1 : j \in DOMAIN c.nodes /\ j # i
      BY <1>1
    <3> QED BY <3>1, <3>2 DEF Single
  <2>2. k \in 1 .. n /\ c.nodes[k].id = id
    <3> HIDE DEF First
    <3>1. k \in DOMAIN c.nodes /\ First(k)
      BY <2>1
    <3> QED BY <1>1, <3>1 DEF First
  <2>3. Without(c, id) = [c EXCEPT !.nodes = nodes]
    BY <1>3 DEF Without
  <2>4. Without(c, id) = [nodes |-> nodes, jobs |-> c.jobs]
    <3> HIDE DEF nodes
    <3> QED BY <1>1, <2>3
  <2> HIDE DEF k, n
  <2>5. n - 1 \in Nat
    BY <1>1, <2>2
  <2>6. \A i \in 1 .. n - 1 : (IF i < k THEN i ELSE i + 1) \in (1 .. n) \ {k}
    BY <1>1, <2>2
  <2>7. \A i \in 1 .. n - 1 : F(i) \in Node(Id)
    BY <1>1, <2>6 DEF n
  <2>8. nodes \in Seq(Node(Id)) /\ DOMAIN nodes = 1 .. n - 1
    <3> HIDE DEF F
    <3> QED BY <2>5, <2>7
  <2>9. \A i \in 1 .. n - 1 : nodes[i] = c.nodes[IF i < k THEN i ELSE i + 1]
    OBVIOUS
  <2>10. ASSUME NEW j \in 1 .. n, j # k
         PROVE  \E i \in 1 .. n - 1 : nodes[i] = c.nodes[j]
    <3>1. CASE j < k
      <4>1. j \in 1 .. n - 1
        BY <1>1, <2>2, <3>1
      <4> QED BY <2>9, <3>1, <4>1
    <3>2. CASE k < j
      <4>1. j - 1 \in 1 .. n - 1 /\ ~(j - 1 < k) /\ j - 1 + 1 = j
        BY <1>1, <2>2, <3>2
      <4> QED BY <2>9, <4>1
    <3> QED BY <1>1, <2>2, <2>10, <3>1, <3>2
  <2>11. ASSUME NEW i \in 1 .. n - 1, NEW j \in 1 .. n - 1, i # j
         PROVE  (IF i < k THEN i ELSE i + 1) # (IF j < k THEN j ELSE j + 1)
    BY <1>1, <2>2, <2>11
  <2> HIDE DEF nodes, First
  <2>12. \A i, j \in 1 .. n - 1 : nodes[i].id = nodes[j].id => i = j
    BY <1>1, <2>6, <2>9, <2>11 DEF Single
  <2>13. \A i \in 1 .. n - 1 :
             nodes[i].id # id /\ \E j \in DOMAIN c.nodes : nodes[i] = c.nodes[j]
    BY <1>1, <2>2, <2>6, <2>9 DEF Single
  <2>14. \A j \in DOMAIN c.nodes :
             c.nodes[j].id # id => \E i \in 1 .. n - 1 : nodes[i] = c.nodes[j]
    BY <1>1, <2>2, <2>10
  <2> DEFINE w == Without(c, id)
  <2>15. w.nodes = nodes /\ w.jobs = c.jobs /\ CacheType(w, Id)
    BY <1>1, <2>4, <2>8 DEF CacheType
  <2> HIDE DEF w
  <2>16. Single(w)
    BY <2>8, <2>12, <2>15 DEF Single
  <2>17. \A i \in DOMAIN w.nodes :
             w.nodes[i].id # id /\ \E j \in DOMAIN c.nodes : w.nodes[i] = c.nodes[j]
    BY <2>8, <2>13, <2>15
  <2>18. \A j \in DOMAIN c.nodes :
             c.nodes[j].id # id => \E i \in DOMAIN w.nodes : w.nodes[i] = c.nodes[j]
    BY <2>8, <2>14, <2>15
  <2> QED BY <2>15, <2>16, <2>17, <2>18 DEF w
<1> QED BY <1>2, <1>3

\* A request adds an entry and a job, and drops entries nobody waits for.
LEMMA RequestKeeps ==
    ASSUME NEW Id, NEW c, CacheOK(c, Id), NEW id \in Id, ~IsRequested(c, id)
    PROVE  /\ CacheOK(Request(c, id), Id)
           /\ WaitsFor(Request(c, id), id)
           /\ \A x : WaitsFor(c, x) => WaitsFor(Request(c, id), x)
<1> DEFINE s == Shrunk(c.nodes)
           node == [id |-> id, pending |-> TRUE, old |-> FALSE]
           job == [id |-> id, old |-> FALSE]
           r == [nodes |-> Append(s, node), jobs |-> Append(c.jobs, job)]
           n == Len(c.nodes)
           l == Len(c.jobs)
<1>1. c.nodes \in Seq(Node(Id)) /\ c.jobs \in Seq(Job(Id)) /\ n \in Nat /\ l \in Nat
      /\ DOMAIN c.nodes = 1 .. n /\ DOMAIN c.jobs = 1 .. l
  BY DEF CacheOK, CacheType
<1>2. node \in Node(Id) /\ job \in Job(Id)
  BY DEF Node, Job
<1>3. PICK d \in 0 .. n :
          /\ s \in Seq(Node(Id)) /\ Len(s) = n - d
          /\ \A i \in 1 .. n - d : s[i] = c.nodes[i + d]
          /\ \A i \in 1 .. d : ~c.nodes[i].pending
  BY <1>1, ShrunkDrops
<1>4. Request(c, id) = r
  BY DEF Request
<1> HIDE DEF s, node, job, n, l
<1>5. /\ r.nodes \in Seq(Node(Id)) /\ DOMAIN r.nodes = 1 .. n - d + 1
      /\ \A i \in 1 .. n - d : r.nodes[i] = c.nodes[i + d] /\ i + d \in 1 .. n
      /\ r.nodes[n - d + 1] = node
  <2>1. /\ Append(s, node) \in Seq(Node(Id)) /\ Len(Append(s, node)) = n - d + 1
        /\ \A i \in 1 .. n - d : Append(s, node)[i] = s[i]
        /\ Append(s, node)[n - d + 1] = node
    BY <1>1, <1>2, <1>3, AppendProperties
  <2>2. \A i \in 1 .. n - d : i + d \in 1 .. n
    BY <1>1
  <2> QED BY <1>1, <1>3, <2>1, <2>2
<1>6. /\ r.jobs \in Seq(Job(Id)) /\ DOMAIN r.jobs = 1 .. l + 1
      /\ \A i \in 1 .. l : r.jobs[i] = c.jobs[i]
      /\ r.jobs[l + 1] = job
  <2>1. /\ Append(c.jobs, job) \in Seq(Job(Id)) /\ Len(Append(c.jobs, job)) = l + 1
        /\ \A i \in 1 .. l : Append(c.jobs, job)[i] = c.jobs[i]
        /\ Append(c.jobs, job)[l + 1] = job
    BY <1>1, <1>2, AppendProperties DEF l
  <2> QED BY <1>1, <2>1
<1>7. CacheType(r, Id)
  BY <1>5, <1>6 DEF CacheType
<1> HIDE DEF r
<1>8. /\ node.id = id /\ node.pending /\ ~node.old /\ job.id = id /\ ~job.old
      /\ \A k \in 1 .. n : c.nodes[k].id # id
  BY <1>1 DEF node, job, IsRequested
<1>9. \A i \in 1 .. n - d + 1 : i = n - d + 1 \/ i \in 1 .. n - d
  BY <1>1
<1>10. \A i \in 1 .. l + 1 : i = l + 1 \/ (i \in 1 .. l /\ i < l + 1)
  BY <1>1
<1>11. n - d + 1 \in 1 .. n - d + 1 /\ l + 1 \in 1 .. l + 1 /\ \A i \in 1 .. l : i \in 1 .. l + 1
  BY <1>1
<1>12. Single(r)
  <2>1. ASSUME NEW i \in 1 .. n - d + 1, NEW j \in 1 .. n - d + 1, r.nodes[i].id = r.nodes[j].id
        PROVE  i = j
    <3>1. CASE i \in 1 .. n - d /\ j \in 1 .. n - d
      <4>1. i + d = j + d
        <5>1. i + d \in DOMAIN c.nodes /\ j + d \in DOMAIN c.nodes
          BY <1>1, <1>5, <3>1
        <5>2. c.nodes[i + d].id = c.nodes[j + d].id
          BY <1>5, <2>1, <3>1
        <5> QED BY <5>1, <5>2 DEF Single, CacheOK
      <4> QED BY <1>1, <4>1
    <3>2. CASE i = n - d + 1 /\ j \in 1 .. n - d
      BY <1>5, <1>8, <2>1, <3>2
    <3>3. CASE i \in 1 .. n - d /\ j = n - d + 1
      BY <1>5, <1>8, <2>1, <3>3
    <3> QED BY <1>9, <3>1, <3>2, <3>3
  <2> QED BY <1>5, <2>1 DEF Single
<1>13. Awaited(r)
  <2>1. ASSUME NEW i \in 1 .. n - d, r.nodes[i].pending
        PROVE  \E j \in 1 .. l + 1 : r.jobs[j].id = r.nodes[i].id
    <3>1. PICK j \in 1 .. l : c.jobs[j].id = c.nodes[i + d].id
      BY <1>1, <1>5, <2>1 DEF Awaited, CacheOK
    <3> QED BY <1>5, <1>6, <1>11, <3>1
  <2>2. \E j \in 1 .. l + 1 : r.jobs[j].id = r.nodes[n - d + 1].id
    BY <1>5, <1>6, <1>8, <1>11
  <2> QED BY <1>5, <1>6, <1>9, <2>1, <2>2 DEF Awaited
<1>14. Refetched(r)
  <2>1. ASSUME NEW i \in 1 .. n - d, ~r.nodes[i].pending, r.nodes[i].old
        PROVE  \E j \in 1 .. l + 1 : r.jobs[j].id = r.nodes[i].id /\ ~r.jobs[j].old
    <3>1. PICK j \in 1 .. l : c.jobs[j].id = c.nodes[i + d].id /\ ~c.jobs[j].old
      BY <1>1, <1>5, <2>1 DEF Refetched, CacheOK
    <3> QED BY <1>5, <1>6, <1>11, <3>1
  <2>2. r.nodes[n - d + 1].pending
    BY <1>5, <1>8
  <2> QED BY <1>5, <1>6, <1>9, <2>1, <2>2 DEF Refetched
<1>15. \A x : IsRequested(r, x) => x = id \/ IsRequested(c, x)
  BY <1>1, <1>5, <1>8, <1>9 DEF IsRequested
<1>16. Corrected(r)
  BY <1>1, <1>6, <1>8, <1>10, <1>11, <1>15 DEF Corrected, CacheOK
<1>17. WaitsFor(r, id)
  BY <1>5, <1>8, <1>11 DEF WaitsFor
<1>18. ASSUME NEW x, WaitsFor(c, x)
       PROVE  WaitsFor(r, x)
  <2>1. PICK k \in 1 .. n : c.nodes[k].id = x /\ c.nodes[k].pending
    BY <1>1, <1>18 DEF WaitsFor
  <2>2. k \notin 1 .. d
    BY <1>3, <2>1
  <2>3. k - d \in 1 .. n - d /\ k - d + d = k /\ k - d \in 1 .. n - d + 1
    BY <1>1, <2>2
  <2> QED BY <1>5, <2>1, <2>3 DEF WaitsFor
<1> QED BY <1>4, <1>7, <1>12, <1>13, <1>14, <1>16, <1>17, <1>18 DEF CacheOK

\* Once an entity has changed, its jobs are out of date, and its entry goes.
LEMMA AgedWithout ==
    ASSUME NEW Id, NEW c, CacheOK(c, Id), NEW id \in Id
    PROVE  LET w == Without(Aged(c, id), id) IN
           /\ CacheOK(w, Id)
           /\ ~IsRequested(w, id)
           /\ \A x : x # id /\ WaitsFor(c, x) => WaitsFor(w, x)
<1> DEFINE a == Aged(c, id)
           w == Without(a, id)
           l == Len(c.jobs)
           jobs == [k \in DOMAIN c.jobs |-> IF c.jobs[k].id = id
                                            THEN [c.jobs[k] EXCEPT !.old = TRUE]
                                            ELSE c.jobs[k]]
<1>1. c.nodes \in Seq(Node(Id)) /\ c.jobs \in Seq(Job(Id)) /\ l \in Nat /\ DOMAIN c.jobs = 1 .. l
      /\ c = [nodes |-> c.nodes, jobs |-> c.jobs]
  BY DEF CacheOK, CacheType
<1>2. a = [nodes |-> c.nodes, jobs |-> jobs]
  <2>1. a = [c EXCEPT !.jobs = jobs]
    BY Zenon DEF Aged
  <2> HIDE DEF jobs, a
  <2> QED BY <1>1, <2>1
<1>3. \A k \in 1 .. l : /\ jobs[k] \in Job(Id) /\ jobs[k].id = c.jobs[k].id
                        /\ c.jobs[k].id # id => jobs[k] = c.jobs[k]
  <2>1. ASSUME NEW k \in 1 .. l
        PROVE  jobs[k] \in Job(Id) /\ jobs[k].id = c.jobs[k].id
               /\ (c.jobs[k].id # id => jobs[k] = c.jobs[k])
    <3>1. c.jobs[k] \in Job(Id)
      BY <1>1
    <3>2. jobs[k] = IF c.jobs[k].id = id THEN [c.jobs[k] EXCEPT !.old = TRUE] ELSE c.jobs[k]
      BY <1>1
    <3> HIDE DEF jobs
    <3> QED BY <3>1, <3>2 DEF Job
  <2> QED BY <2>1
<1>4. jobs \in Seq(Job(Id)) /\ DOMAIN jobs = 1 .. l
  <2>1. jobs \in [1 .. l -> Job(Id)]
    <3>1. jobs = [k \in 1 .. l |-> jobs[k]]
      BY <1>1
    <3> HIDE DEF jobs
    <3> QED BY <1>3, <3>1
  <2> HIDE DEF jobs, l
  <2> QED BY <1>1, <2>1
<1> HIDE DEF jobs, l
<1>5. CacheType(a, Id) /\ Single(a)
  BY <1>1, <1>2, <1>4 DEF CacheType, Single, CacheOK
<1>6. /\ CacheType(w, Id) /\ Single(w) /\ w.jobs = jobs
      /\ \A i \in DOMAIN w.nodes :
             w.nodes[i].id # id /\ \E k \in DOMAIN c.nodes : w.nodes[i] = c.nodes[k]
      /\ \A k \in DOMAIN c.nodes :
             c.nodes[k].id # id => \E i \in DOMAIN w.nodes : w.nodes[i] = c.nodes[k]
  <2>1. a.nodes = c.nodes /\ a.jobs = jobs
    BY <1>2
  <2> HIDE DEF a
  <2> QED BY <1>5, <2>1, WithoutOne
<1> HIDE DEF a, w
<1>7. Awaited(w)
  BY <1>1, <1>3, <1>4, <1>6 DEF Awaited, CacheOK
<1>8. Refetched(w)
  <2>1. ASSUME NEW i \in DOMAIN w.nodes, ~w.nodes[i].pending, w.nodes[i].old
        PROVE  \E j \in 1 .. l : jobs[j].id = w.nodes[i].id /\ ~jobs[j].old
    <3>1. PICK k \in DOMAIN c.nodes : w.nodes[i] = c.nodes[k] /\ c.nodes[k].id # id
      BY <1>6
    <3>2. PICK j \in 1 .. l : c.jobs[j].id = c.nodes[k].id /\ ~c.jobs[j].old
      BY <1>1, <2>1, <3>1 DEF Refetched, CacheOK
    <3> QED BY <1>3, <3>1, <3>2
  <2> QED BY <1>4, <1>6, <2>1 DEF Refetched
<1>9. ~IsRequested(w, id) /\ \A x : IsRequested(w, x) => IsRequested(c, x)
  BY <1>6 DEF IsRequested
<1>10. Corrected(w)
  <2>1. ASSUME NEW i \in 1 .. l, jobs[i].old, IsRequested(w, jobs[i].id)
        PROVE  \E j \in 1 .. l : i < j /\ jobs[j].id = jobs[i].id /\ ~jobs[j].old
    <3>1. jobs[i] = c.jobs[i] /\ jobs[i].id # id
      BY <1>3, <1>9, <2>1
    <3>2. PICK j \in 1 .. l : i < j /\ c.jobs[j].id = c.jobs[i].id /\ ~c.jobs[j].old
      BY <1>1, <1>9, <2>1, <3>1 DEF Corrected, CacheOK
    <3> QED BY <1>3, <3>1, <3>2
  <2> QED BY <1>4, <1>6, <2>1 DEF Corrected
<1>11. ASSUME NEW x, x # id, WaitsFor(c, x)
       PROVE  WaitsFor(w, x)
  BY <1>6, <1>11 DEF WaitsFor
<1> QED BY <1>6, <1>7, <1>8, <1>9, <1>10, <1>11 DEF CacheOK, a, w

\* update() keeps the cache right, and forgets nothing that is awaited.
LEMMA UpdateKeeps ==
    ASSUME NEW Id, NEW c, CacheOK(c, Id), NEW id \in Id
    PROVE  /\ CacheOK(Update(c, id), Id)
           /\ \A x : WaitsFor(c, x) => WaitsFor(Update(c, id), x)
<1> DEFINE w == Without(Aged(c, id), id)
<1>1. /\ CacheOK(w, Id) /\ ~IsRequested(w, id)
      /\ \A x : x # id /\ WaitsFor(c, x) => WaitsFor(w, x)
  BY AgedWithout
<1>2. Update(c, id) = IF IsRequested(c, id) /\ ~IsCached(c, id) THEN Request(w, id) ELSE w
  BY DEF Update
<1> HIDE DEF w
<1>3. CASE IsRequested(c, id) /\ ~IsCached(c, id)
  BY <1>1, <1>2, <1>3, RequestKeeps
<1>4. CASE ~(IsRequested(c, id) /\ ~IsCached(c, id))
  <2>1. ~WaitsFor(c, id)
    BY <1>4, WaitingIsFetched
  <2> QED BY <1>1, <1>2, <1>4, <2>1
<1> QED BY <1>3, <1>4

\* ensureCached() keeps it right, and what is not there is awaited.
LEMMA EnsuredKeeps ==
    ASSUME NEW Id, NEW c, CacheOK(c, Id), NEW id \in Id
    PROVE  /\ CacheOK(Ensured(c, id), Id)
           /\ ~IsCached(c, id) => WaitsFor(Ensured(c, id), id)
<1>1. CASE IsRequested(c, id)
  BY <1>1 DEF Ensured, IsRequested, IsCached, WaitsFor
<1>2. CASE ~IsRequested(c, id)
  BY <1>2, RequestKeeps DEF Ensured
<1> QED BY <1>1, <1>2

\* A job that is answered keeps it right, and what is awaited stays awaited
\* unless its own job is answered.
LEMMA AnsweredKeeps ==
    ASSUME NEW Id, NEW c, CacheOK(c, Id), c.jobs # <<>>
    PROVE  /\ CacheOK(Answered(c), Id)
           /\ \A x : WaitsFor(c, x) /\ x # Head(c.jobs).id => WaitsFor(Answered(c), x)
<1> DEFINE job == Head(c.jobs)
           n == Len(c.nodes)
           l == Len(c.jobs) - 1
           Filled(m) == IF m.id = job.id THEN [m EXCEPT !.pending = FALSE, !.old = job.old] ELSE m
           nodes == [k \in DOMAIN c.nodes |-> Filled(c.nodes[k])]
           r == [nodes |-> nodes, jobs |-> Tail(c.jobs)]
<1>1. c.nodes \in Seq(Node(Id)) /\ c.jobs \in Seq(Job(Id)) /\ n \in Nat /\ DOMAIN c.nodes = 1 .. n
  BY DEF CacheOK, CacheType
<1>2. /\ job = c.jobs[1] /\ job \in Job(Id) /\ l \in Nat /\ DOMAIN c.jobs = 1 .. l + 1
      /\ Tail(c.jobs) \in Seq(Job(Id)) /\ DOMAIN Tail(c.jobs) = 1 .. l
      /\ \A i \in 1 .. l : Tail(c.jobs)[i] = c.jobs[i + 1]
  <2>1. Len(c.jobs) \in Nat /\ Len(c.jobs) # 0 /\ DOMAIN c.jobs = 1 .. Len(c.jobs)
    BY <1>1
  <2>2. /\ Head(c.jobs) \in Job(Id) /\ Head(c.jobs) = c.jobs[1] /\ Tail(c.jobs) \in Seq(Job(Id))
        /\ Len(Tail(c.jobs)) = Len(c.jobs) - 1
        /\ \A i \in 1 .. Len(Tail(c.jobs)) : Tail(c.jobs)[i] = c.jobs[i + 1]
    BY <1>1, HeadTailProperties
  <2> QED BY <2>1, <2>2
<1>3. Answered(c) = r
  BY DEF Answered
<1> HIDE DEF job, l
<1>4. ASSUME NEW k \in 1 .. n
      PROVE  /\ nodes[k] \in Node(Id) /\ nodes[k].id = c.nodes[k].id
             /\ c.nodes[k].id = job.id => ~nodes[k].pending /\ nodes[k].old = job.old
             /\ c.nodes[k].id # job.id => nodes[k] = c.nodes[k]
  <2>1. c.nodes[k] \in Node(Id) /\ job \in Job(Id)
    BY <1>1, <1>2
  <2>2. nodes[k] = IF c.nodes[k].id = job.id
                   THEN [c.nodes[k] EXCEPT !.pending = FALSE, !.old = job.old]
                   ELSE c.nodes[k]
    BY <1>1
  <2> HIDE DEF nodes
  <2> QED BY <2>1, <2>2 DEF Node, Job
<1>5. nodes \in Seq(Node(Id)) /\ DOMAIN nodes = 1 .. n
  <2>1. nodes = [k \in 1 .. n |-> nodes[k]]
    BY <1>1
  <2> HIDE DEF nodes
  <2>2. nodes \in [1 .. n -> Node(Id)]
    BY <1>4, <2>1
  <2> HIDE DEF n
  <2> QED BY <1>1, <2>2
<1>6. r.nodes = nodes /\ r.jobs = Tail(c.jobs) /\ CacheType(r, Id)
  BY <1>2, <1>5 DEF CacheType
<1> HIDE DEF nodes, r, n
<1>7. \A i \in 1 .. l + 1 : i = 1 \/ (i - 1 \in 1 .. l /\ i - 1 + 1 = i)
  BY <1>2
<1>8. \A i \in 1 .. l : i + 1 \in 1 .. l + 1
  BY <1>2
<1>9. Single(r)
  BY <1>1, <1>4, <1>5, <1>6 DEF Single, CacheOK
<1>10. ASSUME NEW j \in 1 .. l + 1, c.jobs[j].id # job.id \/ j # 1
       PROVE  j - 1 \in 1 .. l /\ r.jobs[j - 1] = c.jobs[j]
  <2>1. j # 1
    BY <1>2, <1>10
  <2> QED BY <1>2, <1>6, <1>7, <2>1
<1>11. Awaited(r)
  <2>1. ASSUME NEW k \in 1 .. n, nodes[k].pending
        PROVE  \E j \in 1 .. l : r.jobs[j].id = nodes[k].id
    <3>1. c.nodes[k].id # job.id /\ nodes[k] = c.nodes[k]
      BY <1>4, <2>1
    <3>2. PICK j \in 1 .. l + 1 : c.jobs[j].id = c.nodes[k].id
      BY <1>1, <1>2, <2>1, <3>1 DEF Awaited, CacheOK
    <3> QED BY <1>10, <3>1, <3>2
  <2> QED BY <1>2, <1>5, <1>6, <2>1 DEF Awaited
<1>12. \A x : IsRequested(r, x) <=> IsRequested(c, x)
  BY <1>1, <1>4, <1>5, <1>6 DEF IsRequested
<1>13. Refetched(r)
  <2>1. ASSUME NEW k \in 1 .. n, ~nodes[k].pending, nodes[k].old
        PROVE  \E j \in 1 .. l : r.jobs[j].id = nodes[k].id /\ ~r.jobs[j].old
    <3>1. CASE c.nodes[k].id = job.id
      <4>1. job.old /\ IsRequested(c, job.id)
        BY <1>1, <1>4, <2>1, <3>1 DEF IsRequested
      <4>2. PICK j \in 1 .. l + 1 : 1 < j /\ c.jobs[j].id = job.id /\ ~c.jobs[j].old
        BY <1>2, <1>8, <4>1 DEF Corrected, CacheOK
      <4> QED BY <1>4, <1>10, <3>1, <4>2
    <3>2. CASE c.nodes[k].id # job.id
      <4>1. PICK j \in 1 .. l + 1 : c.jobs[j].id = c.nodes[k].id /\ ~c.jobs[j].old
        BY <1>1, <1>2, <1>4, <2>1, <3>2 DEF Refetched, CacheOK
      <4> QED BY <1>4, <1>10, <3>2, <4>1
    <3> QED BY <3>1, <3>2
  <2> QED BY <1>2, <1>5, <1>6, <2>1 DEF Refetched
<1>14. Corrected(r)
  <2>1. ASSUME NEW i \in 1 .. l, r.jobs[i].old, IsRequested(r, r.jobs[i].id)
        PROVE  \E j \in 1 .. l : i < j /\ r.jobs[j].id = r.jobs[i].id /\ ~r.jobs[j].old
    <3>1. PICK j \in 1 .. l + 1 :
              i + 1 < j /\ c.jobs[j].id = c.jobs[i + 1].id /\ ~c.jobs[j].old
      BY <1>2, <1>6, <1>8, <1>12, <2>1 DEF Corrected, CacheOK
    <3>2. i < j - 1 /\ j # 1
      BY <3>1
    <3> QED BY <1>2, <1>6, <1>10, <3>1, <3>2
  <2> QED BY <1>2, <1>6, <2>1 DEF Corrected
<1>15. ASSUME NEW x, WaitsFor(c, x), x # job.id
       PROVE  WaitsFor(r, x)
  BY <1>1, <1>4, <1>5, <1>6, <1>15 DEF WaitsFor
<1> QED BY <1>3, <1>6, <1>9, <1>11, <1>13, <1>14, <1>15 DEF CacheOK, job

----------------------------------------------------------------------------
(* The recorder                                                            *)

\* The change in the pipeline is waited for.
PipelineWaits ==
    pipeline # <<>> /\ call # "flush" => WaitsFor(cache, Head(pipeline).uid)

CInv == IInv /\ CacheOK(cache, Item) /\ PipelineWaits

\* A message makes the cache fetch again what it has or waits for.
LEMMA NotifyOneWaits ==
    ASSUME CInv, NEW m \in Message, NotifyOne(m)
    PROVE  CacheOK(cache, Item)' /\ PipelineWaits'
<1>1. /\ call # "flush" /\ pipeline' = pipeline /\ cache' = Invalidated(m)
  BY DEF NotifyOne
<1>2. m.uid \in Item
  BY DEF Message
<1>3. cache' = cache \/ cache' = Update(cache, m.uid)
  BY <1>1 DEF Invalidated
<1>4. /\ CacheOK(cache', Item)
      /\ \A x : WaitsFor(cache, x) => WaitsFor(cache', x)
  BY <1>2, <1>3, UpdateKeeps DEF CInv
<1> QED BY <1>1, <1>4 DEF CInv, PipelineWaits

\* The head that waits has its item requested.
LEMMA ReplayLaterWaits ==
    ASSUME CInv, ReplayLater
    PROVE  CacheOK(cache, Item)' /\ PipelineWaits'
<1>1. /\ pending # <<>> /\ ~HasData(Head(pending)) /\ cache' = Ensured(cache, Head(pending).uid)
      /\ IInv /\ CacheOK(cache, Item)
  BY DEF ReplayLater, CInv
<1>2. Head(pending).uid \in Item
  <2>1. pending \in Seq(Message)
    BY <1>1 DEF IInv, RecordsTypeOK
  <2>2. Head(pending) \in Message
    BY <1>1, <2>1
  <2> QED BY <2>2 DEF Message
<1>3. CacheOK(cache', Item) /\ WaitsFor(cache', Head(pending).uid)
  BY <1>1, <1>2, EnsuredKeeps DEF HasData
<1>4. pipeline' # <<>> => Head(pipeline').uid = Head(pending).uid
  BY <1>1, ReplayLaterHolds DEF Stands
<1> QED BY <1>3, <1>4 DEF PipelineWaits

\* The answer of a fetch job leaves the others under way.
LEMMA FetchDoneWaits ==
    ASSUME CInv, FetchDone
    PROVE  CacheOK(cache, Item)' /\ PipelineWaits'
<1>1. /\ call = "none" /\ cache.jobs # <<>> /\ cache' = Answered(cache) /\ pipeline' = pipeline
      /\ call' = IF IsRequested(cache, Head(cache.jobs).id) THEN "flush" ELSE "none"
  BY DEF FetchDone, Idle
<1>2. /\ CacheOK(cache', Item)
      /\ \A x : WaitsFor(cache, x) /\ x # Head(cache.jobs).id => WaitsFor(cache', x)
  BY <1>1, AnsweredKeeps DEF CInv
<1>3. \A x : WaitsFor(cache, x) => IsRequested(cache, x)
  BY DEF WaitsFor, IsRequested
<1> QED BY <1>1, <1>2, <1>3 DEF CInv, PipelineWaits

\* A flush that stops leaves only changes that still wait for their item.
LEMMA FlushEndWaits ==
    ASSUME CInv, FlushEnd
    PROVE  CacheOK(cache, Item)' /\ PipelineWaits'
<1>1. /\ pipeline # <<>> => ~HasData(Head(pipeline))
      /\ cache' = IF pipeline = <<>> THEN cache ELSE Ensured(cache, Head(pipeline).uid)
      /\ pipeline' = pipeline
      /\ IInv /\ CacheOK(cache, Item)
  BY DEF FlushEnd, CInv
<1>2. CASE pipeline = <<>>
  BY <1>1, <1>2 DEF PipelineWaits
<1>3. CASE pipeline # <<>>
  <2>1. Head(pipeline).uid \in Item
    <3>1. pipeline \in Seq(Message)
      BY <1>1 DEF IInv, RecordsTypeOK
    <3>2. Head(pipeline) \in Message
      BY <1>3, <3>1
    <3> QED BY <3>2 DEF Message
  <2>2. CacheOK(cache', Item) /\ WaitsFor(cache', Head(pipeline).uid)
    BY <1>1, <1>3, <2>1, EnsuredKeeps DEF HasData
  <2> QED BY <1>1, <2>2 DEF PipelineWaits
<1> QED BY <1>2, <1>3

\* A replay that is under way has nothing in the pipeline, and puts nothing
\* there if it emits.
LEMMA ReplayCachedWaits ==
    ASSUME CInv, ReplayCached
    PROVE  CacheOK(cache, Item)' /\ PipelineWaits'
<1>1. /\ call = "replay" /\ ~saving /\ pending # <<>> /\ Emit(Head(pending), pipeline)
      /\ cache' = cache /\ configured' = configured /\ IInv
  BY DEF ReplayCached, CInv
<1>2. RecordsOK /\ configured \in BOOLEAN /\ pipeline = <<>> /\ pipeline \in Seq(Message)
  BY <1>1, RecordsKept, OtherTypesKept, ReplayAlone DEF OtherTypes
<1>3. Head(pending) \in Message
  <2>1. pending \in Seq(Message)
    BY <1>2 DEF RecordsOK
  <2> QED BY <1>1, <2>1
<1>4. pipeline' \in Seq(Message) /\ (pipeline' = pipeline \/ Len(pipeline') <= Len(pipeline))
  BY <1>1, <1>2, <1>3, EmitKeeps
<1>5. Len(pipeline) = 0
  BY <1>2
<1>6. pipeline' = <<>>
  BY <1>2, <1>4, <1>5
<1> QED BY <1>1, <1>6 DEF CInv, PipelineWaits

\* A change that is left in the pipeline is the one that was there.
LEMMA UnwatchWaits ==
    ASSUME CInv, NEW c \in Collection, Unwatch(c)
    PROVE  CacheOK(cache, Item)' /\ PipelineWaits'
<1>1. call = "none" /\ cache' = cache /\ CleanOld(pipeline, collections')
  BY DEF Unwatch, Idle
<1>2. pipeline \in Seq(Message) /\ (pipeline # <<>> => Len(pipeline) = 1)
  BY InHand DEF CInv, IInv, RecordsTypeOK
<1> DEFINE w == collections'
           K == {k \in DOMAIN pipeline : AcceptedBy(heard, w, pipeline[k])}
<1>3. PICK left \in Sublist(pipeline, K) : pipeline' = left
  BY <1>1, Zenon DEF CleanOld
<1> HIDE DEF w
<1>4. K \in SUBSET DOMAIN pipeline
  OBVIOUS
<1> HIDE DEF K
<1>5. /\ left \in Seq(Message) /\ Len(left) <= Len(pipeline)
      /\ \E f \in [DOMAIN left -> K] : \A i \in DOMAIN left : left[i] = pipeline[f[i]]
  BY <1>2, <1>4, SublistType
<1>6. ASSUME left # <<>>
      PROVE  pipeline # <<>> /\ Head(left) = Head(pipeline)
  <2>1. 1 \in DOMAIN left /\ Head(left) = left[1] /\ Len(left) > 0
    BY <1>5, <1>6
  <2>2. PICK k \in K : left[1] = pipeline[k]
    BY <1>5, <2>1
  <2>3. pipeline # <<>> /\ k = 1
    BY <1>2, <1>4, <1>5, <2>1, <2>2
  <2>4. Head(pipeline) = pipeline[1]
    BY <1>2, <2>3
  <2> QED BY <2>1, <2>2, <2>3, <2>4
<1> QED BY <1>1, <1>3, <1>6 DEF CInv, PipelineWaits

\* The empty cache is right.
LEMMA EmptyCacheOK == CacheOK(EmptyCache, Item)
<1>1. <<>> \in Seq(Node(Item)) /\ <<>> \in Seq(Job(Item)) /\ DOMAIN <<>> = {}
  OBVIOUS
<1> QED BY <1>1 DEF CacheOK, CacheType, Single, Awaited, Refetched, Corrected, EmptyCache

\* Every step keeps the cache and the pipeline together.
LEMMA StepWaits == CInv /\ [Next]_vars => CInv'
<1> SUFFICES ASSUME CInv, [Next]_vars PROVE CInv'
  OBVIOUS
<1>1. IInv'
  BY StepInv DEF CInv
<1> SUFFICES CacheOK(cache, Item)' /\ PipelineWaits'
  BY <1>1 DEF CInv
<1>2. ASSUME NEW m \in Message, NotifyOne(m) PROVE CacheOK(cache, Item)' /\ PipelineWaits'
  BY <1>2, NotifyOneWaits
<1>3. CASE ReplayCached \/ ReplayLater \/ FlushEnd \/ FetchDone
  BY <1>3, ReplayCachedWaits, ReplayLaterWaits, FlushEndWaits, FetchDoneWaits
<1>4. CASE FinishSave \/ NotifyEnd \/ NothingToReplay \/ StartReplay \/ PostedReplay \/ Quit
           \/ ChangeProcessed \/ UNCHANGED vars \/ \E op \in Fickle : Disconnect(op)
  <2>1. cache' = cache /\ pipeline' = pipeline /\ (call = "flush" => call' = "flush")
    BY <1>4 DEF FinishSave, NotifyEnd, NothingToReplay, StartReplay, PostedReplay, Quit,
                ChangeProcessed, Disconnect, Idle, vars
  <2> QED BY <2>1 DEF CInv, PipelineWaits
<1>5. CASE FlushOne
  BY <1>5 DEF FlushOne, CInv, PipelineWaits
<1>6. ASSUME NEW c \in Collection, Unwatch(c) PROVE CacheOK(cache, Item)' /\ PipelineWaits'
  BY <1>6, UnwatchWaits
<1>7. CASE Crash \/ Exit
  <2>1. cache' = EmptyCache /\ pipeline' = <<>>
    BY <1>7 DEF Crash, Exit, Restart
  <2> QED BY <2>1, EmptyCacheOK DEF PipelineWaits
<1> QED BY <1>2, <1>3, <1>4, <1>5, <1>6, <1>7 DEF Next, Slots

----------------------------------------------------------------------------
(* The other variables                                                     *)

\* An agent that has quit is restarted within the bound.
CrashesBounded ==
    /\ crashes \in 0 .. MaxCrashes
    /\ ~configured \/ call = "quit" => crashes < MaxCrashes

WorldTypeOK ==
    /\ collections \subseteq Collection /\ heard \subseteq Operation /\ rewired \in Nat
    /\ disturbed \subseteq {"compressed", "cleaned"}
    /\ at \in [Item -> Collection \cup {"new", "gone"}]
    /\ notified \in 0 .. MaxNotified
    /\ CrashesBounded

\* The server puts an item somewhere.
LEMMA PlaceType ==
    ASSUME NEW m \in Message, ServerChange(m)
    PROVE  Place(m) \in Collection \cup {"new", "gone"}
<1>1. m.from \in Collection
  BY DEF Message
<1>2. m.op = "Move" => m.to \in Collection
  BY DEF ServerChange
<1> QED BY <1>1, <1>2 DEF Place

\* Every step keeps the types of what is left: the filters, the server and the counters of the bounds.
LEMMA StepWorld == WorldTypeOK /\ IInv /\ [Next]_vars => WorldTypeOK'
<1> SUFFICES ASSUME WorldTypeOK, IInv, [Next]_vars PROVE WorldTypeOK'
  OBVIOUS
<1> USE DEF WorldTypeOK
<1>0. MaxNotified \in Nat /\ MaxCrashes \in Nat /\ MaxRewired \in Nat
  BY RecorderAssumption
<1>1. ASSUME NEW m \in Message, NotifyOne(m) PROVE WorldTypeOK'
  <2>1. /\ notified < MaxNotified /\ notified' = notified + 1
        /\ at' = [at EXCEPT ![m.uid] = Place(m)] /\ ServerChange(m)
        /\ call \in {"none", "notify"} /\ call' = "notify"
        /\ UNCHANGED <<collections, heard, rewired, crashes, configured>>
    BY <1>1 DEF NotifyOne, filterVars
  <2>2. disturbed' = disturbed \/ disturbed' = disturbed \cup {"compressed"}
    BY <1>1 DEF NotifyOne
  <2>3. at' \in [Item -> Collection \cup {"new", "gone"}]
    <3> DEFINE p == Place(m)
    <3>1. p \in Collection \cup {"new", "gone"}
      BY <2>1, PlaceType
    <3>2. at' = [at EXCEPT ![m.uid] = p]
      BY <2>1
    <3> HIDE DEF p
    <3> QED BY <3>1, <3>2
  <2>4. notified' \in 0 .. MaxNotified
    BY <1>0, <2>1
  <2>5. CrashesBounded'
    BY <2>1 DEF CrashesBounded
  <2> QED BY <2>1, <2>2, <2>3, <2>4, <2>5
<1>2. CASE FinishSave
  <2>1. UNCHANGED <<collections, heard, rewired, disturbed, at, notified, crashes>>
    BY <1>2 DEF FinishSave, filterVars, serverVars
  <2>2. CrashesBounded'
    BY <1>2, <2>1 DEF FinishSave, CrashesBounded
  <2> QED BY <2>1, <2>2
<1>3. CASE \/ NotifyEnd \/ NothingToReplay \/ ReplayCached \/ ReplayLater \/ FlushOne \/ FlushEnd
           \/ StartReplay \/ PostedReplay \/ FetchDone \/ ChangeProcessed \/ UNCHANGED vars
  <2>1. /\ UNCHANGED <<collections, heard, rewired, at, notified, crashes, configured>>
        /\ disturbed' = disturbed \/ disturbed' = {}
        /\ call' = "quit" => call = "quit"
    BY <1>3 DEF NotifyEnd, NothingToReplay, ReplayCached, ReplayLater, FlushOne, FlushEnd,
                StartReplay, PostedReplay, FetchDone, ChangeProcessed, vars, filterVars, serverVars
  <2>2. CrashesBounded'
    BY <2>1 DEF CrashesBounded
  <2> QED BY <2>1, <2>2
<1>4. ASSUME NEW c \in Collection, Unwatch(c) PROVE WorldTypeOK'
  <2>1. /\ collections' = collections \ {c} /\ rewired' = rewired + 1
        /\ disturbed' = disturbed \/ disturbed' = disturbed \cup {"cleaned"}
        /\ UNCHANGED <<heard, at, notified, crashes, configured, call>>
    BY <1>4 DEF Unwatch, serverVars
  <2>2. CrashesBounded'
    BY <2>1 DEF CrashesBounded
  <2>3. collections' \subseteq Collection /\ rewired' \in Nat
    BY <2>1
  <2>4. disturbed' \subseteq {"compressed", "cleaned"}
    BY <2>1
  <2>5. heard' \subseteq Operation /\ notified' \in 0 .. MaxNotified
    BY <2>1
  <2>6. at' \in [Item -> Collection \cup {"new", "gone"}]
    BY <2>1
  <2> QED BY <2>2, <2>3, <2>4, <2>5, <2>6
<1>5. ASSUME NEW op \in Fickle, Disconnect(op) PROVE WorldTypeOK'
  <2>1. /\ heard' = heard \ {op} /\ rewired' = rewired + 1
        /\ UNCHANGED <<collections, disturbed, at, notified, crashes, configured, call>>
    BY <1>5 DEF Disconnect, serverVars
  <2>2. CrashesBounded'
    BY <2>1 DEF CrashesBounded
  <2> QED BY <2>1, <2>2
<1>6. CASE Quit
  <2>1. /\ crashes < MaxCrashes /\ crashes' = crashes
        /\ UNCHANGED <<collections, heard, rewired, disturbed, at, notified>>
    BY <1>6 DEF Quit, serverVars, filterVars
  <2>2. CrashesBounded'
    BY <2>1 DEF CrashesBounded
  <2> QED BY <2>1, <2>2
<1>7. CASE Crash \/ Exit
  <2>1. /\ crashes < MaxCrashes /\ crashes' = crashes + 1
        /\ call' = "none" /\ configured' /\ disturbed' = {}
        /\ UNCHANGED <<collections, heard, rewired, at, notified>>
    BY <1>7 DEF Crash, Exit, Restart, filterVars, CrashesBounded
  <2>2. CrashesBounded'
    BY <1>0, <2>1 DEF CrashesBounded
  <2> QED BY <2>1, <2>2
<1> QED BY <1>1, <1>2, <1>3, <1>4, <1>5, <1>6, <1>7 DEF Next, Slots

----------------------------------------------------------------------------
(* The theorems                                                            *)

\* The cache and the pipeline fit together.
THEOREM CacheInvariance == Spec => []CInv
<1>1. Init => CInv
  BY InitInv, EmptyCacheOK DEF Init, CInv, PipelineWaits
<1>2. CInv /\ [Next]_vars => CInv'
  BY StepWaits
<1> QED BY <1>1, <1>2, PTL DEF Spec

\* A change that waits for its item is not forgotten.
THEOREM FetchIsOnTheWay == Spec => []FetchOnTheWay
<1>1. CInv => FetchOnTheWay
  BY WaitingIsFetched DEF CInv, PipelineWaits, FetchOnTheWay
<1> QED BY <1>1, CacheInvariance, PTL

\* An entry filled with what no longer holds is corrected.
THEOREM StaleIsFetchedAgain == Spec => []StaleIsRefetched
<1>1. CInv => StaleIsRefetched
  BY DEF CInv, CacheOK, Refetched, StaleIsRefetched
<1> QED BY <1>1, CacheInvariance, PTL

\* Every variable of the recorder keeps its type, and the counters their bounds.
THEOREM RecorderTyped == Spec => []TypeOK
<1>1. Init => WorldTypeOK
  <2> SUFFICES ASSUME Init PROVE WorldTypeOK
    OBVIOUS
  <2>1. at \in [Item -> Collection \cup {"new", "gone"}]
    BY DEF Init
  <2>2. MaxNotified \in Nat /\ MaxCrashes \in Nat
    BY RecorderAssumption
  <2>3. notified \in 0 .. MaxNotified /\ CrashesBounded
    BY <2>2 DEF Init, CrashesBounded
  <2> QED BY <2>1, <2>3 DEF Init, WorldTypeOK
<1>2. WorldTypeOK /\ IInv /\ [Next]_vars => WorldTypeOK'
  BY StepWorld
<1>3. CInv /\ WorldTypeOK => TypeOK
  <2> SUFFICES ASSUME CInv, WorldTypeOK PROVE TypeOK
    OBVIOUS
  <2>1. /\ cache.nodes \in Seq([id : Item, pending : BOOLEAN, old : BOOLEAN])
        /\ cache.jobs \in Seq([id : Item, old : BOOLEAN])
    BY DEF CInv, CacheOK, CacheType, Node, Job
  <2>2. crashes \in 0 .. MaxCrashes + 1
    BY RecorderAssumption DEF WorldTypeOK, CrashesBounded
  <2> QED BY <2>1, <2>2 DEF TypeOK, WorldTypeOK, CInv, IInv
<1> QED BY <1>1, <1>2, <1>3, Invariance, CacheInvariance, PTL DEF Spec
=============================================================================
