------------------------ MODULE MemoryCalendarProofs ------------------------
(***************************************************************************)
(* The date index of MemoryCalendar stays exact for every incidence that   *)
(* is changed between update() and updated(), for any number of incidences,*)
(* uids, days and nested groups.                                           *)
(*                                                                         *)
(* And what it contains: an incidence that was never saved leaves the      *)
(* calendar modified, exceptions leave it with their parent, and a query   *)
(* for a day lists an event or a journal once.                             *)
(***************************************************************************)
EXTENDS MemoryCalendar, FiniteSetTheorems, TLAPS

(***************************************************************************)
(* What the index relies on: the calendar observes what it holds, keeps an *)
(* incidence it has not lost track of under a single key, the uid it       *)
(* carries, and counts only its own incidences as unsaved.                 *)
(***************************************************************************)
LiveObserved == Live \subseteq observed

OneKey ==
    \A i \in Incidence \ stray : \A u, v \in Uid :
        <<u, i>> \in held /\ <<v, i>> \in held => u = v

KeyCurrent ==
    \A i \in Live \ stray :
        level[i] = 0 => \A u \in Uid : <<u, i>> \in held <=> u = data[i].uid

UnsavedLive == unsaved \subseteq Live

IInv ==
    /\ TypeOK
    /\ GroupPending
    /\ LiveObserved
    /\ OneKey
    /\ KeyCurrent
    /\ UnsavedLive
    /\ IndexExact
    /\ ChangesFlagged

Index == [Incidence -> [Date -> 0 .. MaxCopies]]

----------------------------------------------------------------------------
(* The operators of the model                                              *)

\* The day an incidence is filed under is a day, or none.
LEMMA HashType ==
    ASSUME NEW x \in Fields
    PROVE  Hash(x) \in OptDate
BY DEF Hash, DtDue, Fields, OptDate

\* Taking an entry out of the index, or putting one in, leaves an index.
LEMMA FileType ==
    ASSUME NEW ix \in Index, NEW i, NEW d
    PROVE  Unfile(ix, i, d) \in Index /\ File(ix, i, d) \in Index
<1>1. CASE i \in Incidence /\ d \in Date
  <2>1. ix[i][d] \in 0 .. MaxCopies
    BY <1>1 DEF Index
  <2>2. 0 \in 0 .. MaxCopies /\ (ix[i][d] < MaxCopies => ix[i][d] + 1 \in 0 .. MaxCopies)
    BY <2>1, ConstantsAssumption
  <2>3. ASSUME NEW c \in 0 .. MaxCopies
        PROVE  [ix EXCEPT ![i][d] = c] \in Index
    BY <1>1 DEF Index
  <2> QED BY <1>1, <2>2, <2>3 DEF Unfile, File
<1>2. CASE ~(i \in Incidence /\ d \in Date)
  BY <1>2 DEF Unfile, File
<1> QED BY <1>1, <1>2

\* Filing j touches the entries of j only.
LEMMA FileOthers ==
    ASSUME NEW ix \in Index, NEW j, NEW d, NEW m \in Incidence, m # j
    PROVE  Unfile(ix, j, d)[m] = ix[m] /\ File(ix, j, d)[m] = ix[m]
BY DEF Unfile, File, Index

\* Unfiling and filing one incidence, day by day.
LEMMA FileOwn ==
    ASSUME NEW ix \in Index, NEW j \in Incidence, NEW h \in OptDate, NEW d \in Date
    PROVE  /\ Unfile(ix, j, h)[j][d] = IF d = h THEN 0 ELSE ix[j][d]
           /\ File(ix, j, h)[j][d] > 0 <=> (d = h \/ ix[j][d] > 0)
<1>1. NoDate \notin Date
  BY ConstantsAssumption
<1>2. Unfile(ix, j, h)[j][d] = IF d = h THEN 0 ELSE ix[j][d]
  BY <1>1 DEF Unfile, Index, OptDate
<1>3. File(ix, j, h)[j][d] > 0 <=> (d = h \/ ix[j][d] > 0)
  BY <1>1, ConstantsAssumption DEF File, Index, OptDate
<1> QED BY <1>2, <1>3

\* What the calendar's lookup returns is held under the uid looked up.
LEMMA FindHeld ==
    ASSUME NEW d, NEW i, Find(d, i) \in Incidence
    PROVE  <<d[i].uid, Find(d, i)>> \in held
BY ConstantsAssumption DEF Find, Lookup, IsFound

\* The records of all incidences after one of them changed.
LEMMA WithType ==
    ASSUME data \in [Incidence -> Fields], NEW i \in Incidence, NEW x \in Fields
    PROVE  With(i, x) \in [Incidence -> Fields] /\ With(i, x)[i] = x
BY DEF With

(***************************************************************************)
(* update() and updated() of an incidence: they touch the entries of the   *)
(* incidence found, which for the incidence itself is its entry of its day.*)
(***************************************************************************)
LEMMA OnUpdateEffect ==
    ASSUME NEW ix \in Index, NEW D \in [Incidence -> Fields], NEW i \in Incidence
    PROVE  /\ OnUpdate(ix, D, i) \in Index
           /\ \A m \in Incidence \ {Find(D, i)} : OnUpdate(ix, D, i)[m] = ix[m]
           /\ Find(D, i) = i =>
                \A d \in Date : OnUpdate(ix, D, i)[i][d] =
                                  IF d = Hash(D[i]) THEN 0 ELSE ix[i][d]
<1> DEFINE j == Find(D, i)
<1>1. OnUpdate(ix, D, i) = Unfile(ix, j, HashOf(D, j))
  BY DEF OnUpdate
<1>2. j = i => HashOf(D, j) = Hash(D[i]) /\ Hash(D[i]) \in OptDate
  BY HashType DEF HashOf
<1> HIDE DEF j
<1>3. OnUpdate(ix, D, i) \in Index
  BY <1>1, FileType
<1>4. \A m \in Incidence \ {j} : OnUpdate(ix, D, i)[m] = ix[m]
  BY <1>1, FileOthers
<1>5. j = i => \A d \in Date : OnUpdate(ix, D, i)[i][d] =
                                  IF d = Hash(D[i]) THEN 0 ELSE ix[i][d]
  BY <1>1, <1>2, FileOwn
<1> QED BY <1>3, <1>4, <1>5 DEF j

LEMMA OnUpdatedEffect ==
    ASSUME NEW ix \in Index, NEW D \in [Incidence -> Fields], NEW i \in Incidence
    PROVE  /\ OnUpdated(ix, D, i) \in Index
           /\ \A m \in Incidence \ {Find(D, i)} : OnUpdated(ix, D, i)[m] = ix[m]
           /\ Find(D, i) = i =>
                \A d \in Date : OnUpdated(ix, D, i)[i][d] > 0
                                  <=> (d = Hash(D[i]) \/ ix[i][d] > 0)
<1> DEFINE j == Find(D, i)
<1>1. OnUpdated(ix, D, i) = File(ix, j, HashOf(D, j))
  BY DEF OnUpdated
<1>2. j = i => HashOf(D, j) = Hash(D[i]) /\ Hash(D[i]) \in OptDate
  BY HashType DEF HashOf
<1> HIDE DEF j
<1>3. OnUpdated(ix, D, i) \in Index
  BY <1>1, FileType
<1>4. \A m \in Incidence \ {j} : OnUpdated(ix, D, i)[m] = ix[m]
  BY <1>1, FileOthers
<1>5. j = i => \A d \in Date : OnUpdated(ix, D, i)[i][d] > 0
                                  <=> (d = Hash(D[i]) \/ ix[i][d] > 0)
  BY <1>1, <1>2, FileOwn
<1> QED BY <1>3, <1>4, <1>5 DEF j

----------------------------------------------------------------------------
(* Steps of an incidence                                                   *)

(***************************************************************************)
(* A change announced to the calendar preserves the invariant, provided it *)
(* touches the entries of incidences that were found, and an incidence the *)
(* calendar keeps track of is found, keeps its key and ends up under its   *)
(* day.                                                                    *)
(***************************************************************************)
LEMMA AnnounceInv ==
    ASSUME IInv, NEW i \in Incidence, NEW new \in Fields, NEW ix \in Index,
           NEW j, NEW k, NEW kept \in BOOLEAN,
           Announce(i, new, ix, j, k, kept),
           \A m \in Incidence \ {j, k} : ix[m] = index[m],
           j \in Incidence => j \in Live,
           k \in Incidence => k \in Live,
           Notifies(i) /\ kept => j = i /\ k = i,
           Notifies(i) /\ kept /\ i \notin stray =>
                /\ <<new.uid, i>> \in held
                /\ \A d \in Date : ix[i][d] > 0 <=> d = Hash(new)
    PROVE  IInv'
<1>1. /\ data' = [data EXCEPT ![i] = new]
      /\ pending' = [pending EXCEPT ![i] = TRUE]
      /\ unsaved' = unsaved \cup ({i} \cap Live)
      /\ UNCHANGED <<level, observed, held, newer, deleted, onDisk>>
  BY DEF Announce, With, calendarVars
<1>2. Notifies(i) => /\ index' = ix
                     /\ modified' = (modified \/ k \in Incidence)
                     /\ stray' = IF kept THEN stray ELSE stray \cup ({i, j, k} \cap Live)
  BY DEF Announce
<1>3. ~Notifies(i) => UNCHANGED <<index, modified, stray>>
  BY DEF Announce
<1>4. stray \subseteq stray' /\ Live' = Live /\ Live \subseteq Incidence
  BY <1>1, <1>2, <1>3 DEF Live
<1>5. TypeOK'
  BY <1>1, <1>2, <1>3 DEF IInv, TypeOK, Live, Index
<1>6. GroupPending' /\ LiveObserved' /\ UnsavedLive'
  BY <1>1, <1>4 DEF IInv, TypeOK, GroupPending, LiveObserved, UnsavedLive
<1>7. OneKey'
  BY <1>1, <1>4 DEF IInv, OneKey
<1>8. ASSUME NEW m \in Incidence \ stray'
      PROVE  /\ m \in Live /\ level'[m] = 0 =>
                   \A u \in Uid : <<u, m>> \in held' <=> u = data'[m].uid
             /\ \A d \in Date : index'[m][d] > 0 <=>
                   (m \in Live' /\ level'[m] = 0 /\ d = Hash(data'[m]))
             /\ m \in unsaved' /\ level'[m] = 0 => modified'
  <2>0. m \in Incidence /\ m \notin stray /\ m \notin stray'
    BY <1>4
  <2>1. /\ m \in Live /\ level[m] = 0 =>
             \A u \in Uid : <<u, m>> \in held <=> u = data[m].uid
        /\ \A d \in Date : index[m][d] > 0 <=>
             (m \in Live /\ level[m] = 0 /\ d = Hash(data[m]))
        /\ m \in unsaved /\ level[m] = 0 => modified
    BY <2>0 DEF IInv, KeyCurrent, IndexExact, ChangesFlagged
  <2>2. CASE m # i
    <3>1. data'[m] = data[m] /\ level'[m] = level[m] /\ (m \in unsaved' <=> m \in unsaved)
      BY <1>1, <2>2, <2>0 DEF IInv, TypeOK
    <3>2. index'[m] = index[m]
      BY <1>2, <1>3, <2>0, <2>2
    <3>3. modified => modified'
      BY <1>2, <1>3
    <3> QED BY <2>1, <3>1, <3>2, <3>3, <1>1, <1>4
  <2>3. CASE m = i /\ ~Notifies(i)
    <3>1. CASE i \in Live
      <4>1. level[i] # 0
        BY <2>3, <3>1 DEF Notifies, IInv, LiveObserved
      <4> QED BY <4>1, <2>1, <2>3, <1>1, <1>3
    <3>2. CASE i \notin Live
      <4>1. i \notin unsaved'
        BY <3>2, <1>1 DEF IInv, UnsavedLive
      <4> QED BY <4>1, <3>2, <2>1, <2>3, <1>1, <1>3, <1>4
    <3> QED BY <3>1, <3>2
  <2>4. CASE m = i /\ Notifies(i) /\ kept
    <3>1. /\ j = i /\ k = i /\ <<new.uid, i>> \in held
          /\ \A d \in Date : ix[i][d] > 0 <=> d = Hash(new)
      BY <2>0, <2>4
    <3>2. i \in Live /\ level[i] = 0 /\ index' = ix /\ modified' = TRUE
      BY <2>4, <3>1, <1>2 DEF Notifies
    <3>3. data'[i] = new
      BY <1>1 DEF IInv, TypeOK
    <3>4. new.uid \in Uid
      BY DEF Fields
    <3>5. \A u \in Uid : <<u, i>> \in held <=> u = new.uid
      BY <3>1, <3>4, <2>0, <2>4 DEF IInv, OneKey
    <3> QED BY <3>1, <3>2, <3>3, <3>5, <2>4, <1>1, <1>4
  <2>5. CASE m = i /\ Notifies(i) /\ ~kept
    <3>1. i \notin Live
      BY <1>2, <2>0, <2>5
    <3>2. index'[i] = index[i]
      BY <1>2, <2>5, <3>1
    <3>3. i \notin unsaved'
      BY <3>1, <1>1 DEF IInv, UnsavedLive
    <3> QED BY <3>1, <3>2, <3>3, <2>1, <2>5, <1>4
  <2> QED BY <2>2, <2>3, <2>4, <2>5
<1>9. KeyCurrent'
  BY <1>8, <1>4 DEF KeyCurrent
<1>10. IndexExact'
  BY <1>8 DEF IndexExact
<1>11. ChangesFlagged'
  <2>1. unsaved' \subseteq Incidence
    BY <1>5 DEF TypeOK
  <2> QED BY <1>8, <2>1 DEF ChangesFlagged
<1> QED BY <1>5, <1>6, <1>7, <1>9, <1>10, <1>11 DEF IInv

(***************************************************************************)
(* A pair of calls around a change preserves the invariant, whatever the   *)
(* fields are when update() and updated() read them.                       *)
(***************************************************************************)
LEMMA ChangeInv ==
    ASSUME IInv, NEW i \in Incidence,
           NEW at \in Fields, NEW told \in Fields, NEW new \in Fields,
           new.uid = told.uid, Change(i, at, told, new)
    PROVE  IInv'
<1> DEFINE D0 == With(i, at)
           D1 == With(i, told)
           ix1 == OnUpdate(index, D0, i)
           ix2 == OnUpdated(ix1, D1, i)
<1>1. index \in Index /\ data \in [Incidence -> Fields]
  BY DEF IInv, TypeOK, Index
<1>2. /\ D0 \in [Incidence -> Fields] /\ D0[i] = at
      /\ D1 \in [Incidence -> Fields] /\ D1[i] = told
  BY <1>1, WithType
<1> HIDE DEF D0, D1
<1>3. /\ ix1 \in Index
      /\ \A m \in Incidence \ {Find(D0, i)} : ix1[m] = index[m]
      /\ Find(D0, i) = i => \A d \in Date : ix1[i][d] = IF d = Hash(at) THEN 0 ELSE index[i][d]
  <2>1. /\ ix1 \in Index
        /\ \A m \in Incidence \ {Find(D0, i)} : ix1[m] = index[m]
        /\ Find(D0, i) = i =>
             \A d \in Date : ix1[i][d] = IF d = Hash(D0[i]) THEN 0 ELSE index[i][d]
    BY <1>1, <1>2, OnUpdateEffect, Zenon
  <2> QED BY <1>2, <2>1
<1> HIDE DEF ix1
<1>4. /\ ix2 \in Index
      /\ \A m \in Incidence \ {Find(D1, i)} : ix2[m] = ix1[m]
      /\ Find(D1, i) = i => \A d \in Date : ix2[i][d] > 0 <=> (d = Hash(told) \/ ix1[i][d] > 0)
  BY <1>2, <1>3, OnUpdatedEffect
<1> HIDE DEF ix2
<1>5. /\ Find(D0, i) \in Incidence => Find(D0, i) \in Live
      /\ Find(D1, i) \in Incidence => Find(D1, i) \in Live /\ <<told.uid, Find(D1, i)>> \in held
  <2>1. at.uid \in Uid /\ told.uid \in Uid
    BY DEF Fields
  <2> QED BY <2>1, <1>2, FindHeld DEF Live
<1>6. Announce(i, new, ix2, Find(D0, i), Find(D1, i), KeepsTrack(i, at, told, new))
  BY DEF Change, D0, D1, ix1, ix2
<1>7. KeepsTrack(i, at, told, new) \in BOOLEAN
  BY DEF KeepsTrack
<1>8. ASSUME KeepsTrack(i, at, told, new)
      PROVE  /\ Find(D0, i) = i /\ Find(D1, i) = i
             /\ Hash(data[i]) \in {NoDate, Hash(at)} /\ Hash(told) = Hash(new)
  BY <1>8 DEF KeepsTrack, D0, D1
<1>9. ASSUME Notifies(i), KeepsTrack(i, at, told, new), i \notin stray
      PROVE  <<new.uid, i>> \in held /\ \A d \in Date : ix2[i][d] > 0 <=> d = Hash(new)
  <2>1. \A d \in Date : index[i][d] > 0 => d = Hash(data[i])
    BY <1>9 DEF IInv, IndexExact
  <2>2. \A d \in Date : d # NoDate /\ index[i][d] \in 0 .. MaxCopies
    BY <1>1, ConstantsAssumption DEF Index
  <2>3. \A d \in Date : ~(ix1[i][d] > 0)
    BY <2>1, <2>2, <1>3, <1>8, <1>9
  <2> QED BY <2>3, <1>4, <1>5, <1>8, <1>9
<1>10. \A m \in Incidence \ {Find(D0, i), Find(D1, i)} : ix2[m] = index[m]
  BY <1>3, <1>4
<1> HIDE DEF IInv
<1> QED BY <1>4, <1>5, <1>6, <1>7, <1>8, <1>9, <1>10, AnnounceInv

\* A setter that tells nobody costs the calendar the track of the incidence.
LEMMA SilentInv ==
    ASSUME IInv, NEW i \in Incidence, NEW new \in Fields, Silent(i, new)
    PROVE  IInv'
<1>1. /\ data' = [data EXCEPT ![i] = new]
      /\ unsaved' = unsaved \cup ({i} \cap Live)
      /\ stray' = IF level[i] = 0 THEN stray \cup ({i} \cap Live) ELSE stray
      /\ UNCHANGED <<level, pending, index, modified, observed, held, newer, deleted, onDisk>>
  BY DEF Silent, With, calendarVars
<1>2. stray \subseteq stray' /\ Live' = Live /\ Live \subseteq Incidence
  BY <1>1 DEF Live
<1>3. TypeOK'
  BY <1>1 DEF IInv, TypeOK, Live
<1>4. GroupPending' /\ LiveObserved' /\ UnsavedLive' /\ OneKey'
  BY <1>1, <1>2 DEF IInv, GroupPending, LiveObserved, UnsavedLive, OneKey
<1>5. ASSUME NEW m \in Incidence, m \notin stray'
      PROVE  \/ data'[m] = data[m] /\ (m \in unsaved' <=> m \in unsaved)
             \/ level[m] # 0
             \/ m \notin Live /\ m \notin unsaved'
  BY <1>1, <1>2, <1>5 DEF IInv, TypeOK, UnsavedLive
<1>6. KeyCurrent'
  BY <1>1, <1>2, <1>5 DEF IInv, KeyCurrent
<1>7. IndexExact'
  BY <1>1, <1>2, <1>5 DEF IInv, IndexExact
<1>8. ChangesFlagged'
  BY <1>1, <1>2, <1>3, <1>5 DEF IInv, ChangesFlagged, TypeOK
<1> QED BY <1>3, <1>4, <1>6, <1>7, <1>8 DEF IInv

\* startUpdates() takes the incidence out of the index until endUpdates().
LEMMA StartUpdatesInv ==
    ASSUME IInv, NEW i \in Incidence, StartUpdates(i)
    PROVE  IInv'
<1> DEFINE j == Find(data, i)
<1>1. /\ level[i] < MaxLevel
      /\ level' = [level EXCEPT ![i] = @ + 1]
      /\ pending' = [pending EXCEPT ![i] = @ \/ level[i] = 0]
      /\ UNCHANGED <<data, modified, unsaved, observed, held, newer, deleted, onDisk>>
  BY DEF StartUpdates, calendarVars
<1>2. index \in Index /\ data \in [Incidence -> Fields] /\ level[i] \in Nat /\ MaxLevel \in Nat
  BY ConstantsAssumption DEF IInv, TypeOK, Index
<1>3. /\ OnUpdate(index, data, i) \in Index
      /\ \A m \in Incidence \ {j} : OnUpdate(index, data, i)[m] = index[m]
      /\ j = i => \A d \in Date : OnUpdate(index, data, i)[i][d] =
                                    IF d = Hash(data[i]) THEN 0 ELSE index[i][d]
  BY <1>2, OnUpdateEffect
<1>4. j \in Incidence => j \in Live
  BY <1>2, FindHeld DEF Live, Fields
<1> HIDE DEF j
<1>5. IF Notifies(i)
      THEN /\ index' = OnUpdate(index, data, i)
           /\ stray' = IF j = i THEN stray ELSE stray \cup ({i, j} \cap Live)
      ELSE index' = index /\ stray' = stray
  BY DEF StartUpdates, j
<1>6. stray \subseteq stray' /\ Live' = Live /\ Live \subseteq Incidence
  BY <1>1, <1>5 DEF Live
<1>7. TypeOK'
  <2>1. level' \in [Incidence -> 0 .. MaxLevel]
    BY <1>1, <1>2 DEF IInv, TypeOK
  <2>2. pending' \in [Incidence -> BOOLEAN]
    BY <1>1 DEF IInv, TypeOK
  <2> QED BY <2>1, <2>2, <1>1, <1>3, <1>5 DEF IInv, TypeOK, Live, Index
<1>8. GroupPending' /\ LiveObserved' /\ UnsavedLive' /\ OneKey'
  <2>1. ASSUME NEW m \in Incidence, level'[m] > 0
        PROVE  pending'[m]
    <3>1. CASE m # i
      BY <1>1, <2>1, <3>1 DEF IInv, TypeOK, GroupPending
    <3>2. CASE m = i
      <4>1. pending[i] \/ level[i] = 0
        BY <1>2 DEF IInv, GroupPending
      <4>2. pending' = [pending EXCEPT ![i] = TRUE]
        BY <1>1, <4>1 DEF IInv, TypeOK
      <4> QED BY <3>2, <4>2 DEF IInv, TypeOK
    <3> QED BY <3>1, <3>2
  <2> QED BY <2>1, <1>1, <1>6 DEF IInv, GroupPending, LiveObserved, UnsavedLive, OneKey
<1>9. \A m \in Incidence : level'[m] = IF m = i THEN level[i] + 1 ELSE level[m]
  BY <1>1 DEF IInv, TypeOK
<1>10. KeyCurrent' /\ ChangesFlagged'
  BY <1>1, <1>2, <1>6, <1>9 DEF IInv, KeyCurrent, ChangesFlagged, TypeOK
<1>11. ASSUME NEW m \in Incidence, m \notin stray', NEW d \in Date
       PROVE  index'[m][d] > 0 <=> (m \in Live' /\ level'[m] = 0 /\ d = Hash(data'[m]))
  <2>1. index[m][d] > 0 <=> (m \in Live /\ level[m] = 0 /\ d = Hash(data[m]))
    BY <1>6, <1>11 DEF IInv, IndexExact
  <2>2. CASE m # i
    <3>1. index'[m] = index[m]
      BY <1>3, <1>4, <1>5, <1>11, <2>2
    <3> QED BY <3>1, <2>1, <2>2, <1>1, <1>6, <1>9
  <2>3. CASE m = i
    <3>1. level'[i] # 0
      BY <1>2, <1>9
    <3>2. ~(index'[i][d] > 0)
      <4>1. CASE ~Notifies(i)
        BY <4>1, <1>5, <2>1, <2>3 DEF Notifies, IInv, LiveObserved
      <4>2. CASE Notifies(i) /\ j = i
        <5>1. index'[i][d] = IF d = Hash(data[i]) THEN 0 ELSE index[i][d]
          BY <4>2, <1>3, <1>5
        <5> QED BY <5>1, <2>1, <2>3
      <4>3. CASE Notifies(i) /\ j # i
        <5>1. i \notin Live /\ index'[i] = index[i]
          BY <4>3, <1>3, <1>5, <1>11, <2>3
        <5> QED BY <5>1, <2>1, <2>3
      <4> QED BY <4>1, <4>2, <4>3
    <3> QED BY <3>1, <3>2, <2>3
  <2> QED BY <2>2, <2>3
<1>12. IndexExact'
  BY <1>11 DEF IndexExact
<1> QED BY <1>7, <1>8, <1>10, <1>12 DEF IInv

\* endUpdates() files the incidence under the day the group left it with.
LEMMA EndUpdatesInv ==
    ASSUME IInv, NEW i \in Incidence, EndUpdates(i)
    PROVE  IInv'
<1> DEFINE j == Find(data, i)
<1>1. /\ level[i] > 0
      /\ level' = [level EXCEPT ![i] = @ - 1]
      /\ UNCHANGED <<data, unsaved, observed, held, newer, deleted, onDisk>>
  BY DEF EndUpdates, calendarVars
<1>2. index \in Index /\ data \in [Incidence -> Fields] /\ level[i] \in Nat
  BY ConstantsAssumption DEF IInv, TypeOK, Index
<1>3. /\ OnUpdated(index, data, i) \in Index
      /\ \A m \in Incidence \ {j} : OnUpdated(index, data, i)[m] = index[m]
      /\ j = i => \A d \in Date : OnUpdated(index, data, i)[i][d] > 0
                                    <=> (d = Hash(data[i]) \/ index[i][d] > 0)
  BY <1>2, OnUpdatedEffect
<1>4. j \in Incidence => j \in Live /\ <<data[i].uid, j>> \in held
  BY <1>2, FindHeld DEF Live, Fields
<1> DEFINE tells == level[i] = 1 /\ i \in observed
<1>5. IF tells
      THEN /\ index' = OnUpdated(index, data, i)
           /\ modified' = (modified \/ j \in Incidence)
           /\ stray' = IF j = i THEN stray ELSE stray \cup ({i, j} \cap Live)
      ELSE UNCHANGED <<index, modified, stray>>
  BY <1>1 DEF EndUpdates, IInv, GroupPending
<1> HIDE DEF j
<1>6. stray \subseteq stray' /\ Live' = Live /\ Live \subseteq Incidence
  BY <1>1, <1>5 DEF Live
<1>7. \A m \in Incidence : level'[m] = IF m = i THEN level[i] - 1 ELSE level[m]
  BY <1>1 DEF IInv, TypeOK
<1>8. TypeOK'
  <2>1. level' \in [Incidence -> 0 .. MaxLevel]
    <3>1. level[i] - 1 \in 0 .. MaxLevel
      BY <1>1, ConstantsAssumption DEF IInv, TypeOK
    <3> QED BY <3>1, <1>1 DEF IInv, TypeOK
  <2>2. pending' \in [Incidence -> BOOLEAN]
    BY DEF EndUpdates, IInv, TypeOK
  <2>3. modified' \in BOOLEAN /\ stray' \subseteq Incidence /\ index' \in Index
    BY <1>2, <1>3, <1>5, <1>6 DEF IInv, TypeOK
  <2> QED BY <2>1, <2>2, <2>3, <1>1 DEF IInv, TypeOK, Index
<1>9. GroupPending'
  BY <1>1, <1>2, <1>7 DEF EndUpdates, IInv, TypeOK, GroupPending
<1>10. LiveObserved' /\ UnsavedLive' /\ OneKey'
  BY <1>1, <1>6 DEF IInv, LiveObserved, UnsavedLive, OneKey
<1>11. ASSUME NEW m \in Incidence, m \notin stray'
       PROVE  /\ m \in Live /\ level'[m] = 0 =>
                    \A u \in Uid : <<u, m>> \in held' <=> u = data'[m].uid
              /\ \A d \in Date : index'[m][d] > 0 <=>
                    (m \in Live' /\ level'[m] = 0 /\ d = Hash(data'[m]))
              /\ m \in unsaved' /\ level'[m] = 0 => modified'
  <2>0. m \notin stray
    BY <1>6, <1>11
  <2>1. /\ m \in Live /\ level[m] = 0 =>
              \A u \in Uid : <<u, m>> \in held <=> u = data[m].uid
        /\ \A d \in Date : index[m][d] > 0 <=>
              (m \in Live /\ level[m] = 0 /\ d = Hash(data[m]))
        /\ m \in unsaved /\ level[m] = 0 => modified
    BY <2>0 DEF IInv, KeyCurrent, IndexExact, ChangesFlagged
  <2>2. CASE m # i
    <3>1. index'[m] = index[m] /\ (modified => modified')
      BY <1>3, <1>4, <1>5, <1>11, <2>2
    <3> QED BY <3>1, <2>1, <2>2, <1>1, <1>6, <1>7
  <2>3. CASE m = i /\ i \notin Live
    <3>1. index'[i] = index[i] /\ i \notin unsaved
      BY <1>3, <1>4, <1>5, <2>3 DEF IInv, UnsavedLive
    <3> QED BY <3>1, <2>1, <2>3, <1>1, <1>6
  <2>4. CASE m = i /\ i \in Live /\ ~tells
    <3>1. level[i] # 1
      BY <2>4 DEF IInv, LiveObserved
    <3>2. level'[i] # 0
      BY <3>1, <1>2, <1>7
    <3> QED BY <3>2, <2>1, <2>4, <1>1, <1>2, <1>5
  <2>5. CASE m = i /\ i \in Live /\ tells
    <3>1. j = i /\ level'[i] = 0 /\ modified'
      <4>1. j = i
        BY <1>5, <1>11, <2>5
      <4>2. level'[i] = 0
        BY <1>7, <2>5
      <4> QED BY <4>1, <4>2, <1>5, <2>5
    <3>2. \A d \in Date : index'[i][d] > 0 <=> d = Hash(data[i])
      BY <3>1, <1>1, <1>3, <1>5, <2>1, <2>5
    <3>3. \A u \in Uid : <<u, i>> \in held <=> u = data[i].uid
      BY <3>1, <1>2, <1>4, <2>0, <2>5 DEF IInv, OneKey, Fields
    <3> QED BY <3>1, <3>2, <3>3, <2>5, <1>1, <1>6
  <2> QED BY <2>2, <2>3, <2>4, <2>5
<1>12. KeyCurrent'
  BY <1>6, <1>11 DEF KeyCurrent
<1>13. IndexExact'
  BY <1>11 DEF IndexExact
<1>14. ChangesFlagged'
  BY <1>8, <1>11 DEF ChangesFlagged, TypeOK
<1> QED BY <1>8, <1>9, <1>10, <1>12, <1>13, <1>14 DEF IInv

\* The inner setters of a completion leave the to-do under its new day.
LEMMA TodoCompleteInv ==
    ASSUME IInv, NEW i \in Incidence, NEW e \in Date, TodoComplete(i, e)
    PROVE  IInv'
<1> DEFINE new == [data[i] EXCEPT !.dtRec = e]
           after == With(i, new)
           x1 == OnUpdate(index, data, i)
           x2 == OnUpdate(x1, after, i)
           x3 == OnUpdated(x2, after, i)
           x4 == OnUpdated(x3, after, i)
           j == Find(data, i)
           k == Find(after, i)
<1>1. index \in Index /\ data \in [Incidence -> Fields]
  BY DEF IInv, TypeOK, Index
<1>2. new \in Fields
  BY <1>1 DEF Fields, OptDate
<1>3. new.uid = data[i].uid
  BY <1>1 DEF Fields
<1> HIDE DEF new
<1>4. after \in [Incidence -> Fields] /\ after[i] = new
  BY <1>1, <1>2, WithType
<1>5. Announce(i, new, x4, j, k, j = i /\ k = i)
  BY DEF TodoComplete, new, after, x1, x2, x3, x4, j, k
<1> HIDE DEF after
<1>6. /\ x1 \in Index
      /\ \A m \in Incidence \ {j} : x1[m] = index[m]
      /\ j = i => \A d \in Date : x1[i][d] = IF d = Hash(data[i]) THEN 0 ELSE index[i][d]
  BY <1>1, OnUpdateEffect
<1> HIDE DEF x1
<1>7. /\ x2 \in Index
      /\ \A m \in Incidence \ {k} : x2[m] = x1[m]
      /\ k = i => \A d \in Date : x2[i][d] = IF d = Hash(new) THEN 0 ELSE x1[i][d]
  BY <1>4, <1>6, OnUpdateEffect
<1> HIDE DEF x2
<1>8. /\ x3 \in Index
      /\ \A m \in Incidence \ {k} : x3[m] = x2[m]
      /\ k = i => \A d \in Date : x3[i][d] > 0 <=> (d = Hash(new) \/ x2[i][d] > 0)
  BY <1>4, <1>7, OnUpdatedEffect
<1> HIDE DEF x3
<1>9. /\ x4 \in Index
      /\ \A m \in Incidence \ {k} : x4[m] = x3[m]
      /\ k = i => \A d \in Date : x4[i][d] > 0 <=> (d = Hash(new) \/ x3[i][d] > 0)
  BY <1>4, <1>8, OnUpdatedEffect
<1> HIDE DEF x4
<1>10. /\ j \in Incidence => j \in Live
       /\ k \in Incidence => k \in Live /\ <<new.uid, k>> \in held
  BY <1>1, <1>2, <1>4, FindHeld DEF Live, Fields
<1> HIDE DEF j, k
<1>11. ASSUME j = i, k = i, i \notin stray, NEW d \in Date
       PROVE  x4[i][d] > 0 <=> d = Hash(new)
  <2>1. index[i][d] > 0 => d = Hash(data[i])
    BY <1>11 DEF IInv, IndexExact
  <2>2. index[i][d] \in 0 .. MaxCopies
    BY <1>1 DEF Index
  <2>3. ~(x1[i][d] > 0)
    BY <2>1, <2>2, <1>6, <1>11, ConstantsAssumption
  <2>4. ~(x2[i][d] > 0)
    BY <2>3, <1>7, <1>11
  <2> QED BY <2>4, <1>8, <1>9, <1>11
<1>12. \A m \in Incidence \ {j, k} : x4[m] = index[m]
  BY <1>6, <1>7, <1>8, <1>9
<1>13. (j = i /\ k = i) \in BOOLEAN
  OBVIOUS
<1> HIDE DEF IInv
<1> QED BY <1>2, <1>5, <1>9, <1>10, <1>11, <1>12, <1>13, AnnounceInv

(***************************************************************************)
(* A new recurrence type is announced twice, first without and then with   *)
(* the recurrence.                                                         *)
(***************************************************************************)
LEMMA SetNewRecurrenceInv ==
    ASSUME IInv, NEW i \in Incidence, SetNewRecurrence(i)
    PROVE  IInv'
<1> DEFINE cl == [data[i] EXCEPT !.recurs = FALSE]
           new == [data[i] EXCEPT !.recurs = TRUE]
           C == With(i, cl)
           N == With(i, new)
           x1 == OnUpdate(index, C, i)
           x2 == OnUpdated(x1, C, i)
           x3 == OnUpdate(x2, N, i)
           x4 == OnUpdated(x3, N, i)
           j == Find(C, i)
           k == Find(N, i)
           kept == /\ j = i /\ k = i
                   /\ Hash(data[i]) \in {NoDate, Hash(cl), Hash(new)}
                   /\ Hash(cl) \in {NoDate, Hash(new)}
<1>1. index \in Index /\ data \in [Incidence -> Fields]
  BY DEF IInv, TypeOK, Index
<1>2. cl \in Fields /\ new \in Fields
  BY <1>1 DEF Fields
<1> HIDE DEF cl, new
<1>3. /\ C \in [Incidence -> Fields] /\ C[i] = cl
      /\ N \in [Incidence -> Fields] /\ N[i] = new
  BY <1>1, <1>2, WithType
<1>4. Announce(i, new, x4, j, k, kept)
  BY <1>3 DEF SetNewRecurrence, cl, new
<1> HIDE DEF C, N
<1>5. /\ x1 \in Index
      /\ \A m \in Incidence \ {j} : x1[m] = index[m]
      /\ j = i => \A d \in Date : x1[i][d] = IF d = Hash(cl) THEN 0 ELSE index[i][d]
  BY <1>1, <1>3, OnUpdateEffect
<1> HIDE DEF x1
<1>6. /\ x2 \in Index
      /\ \A m \in Incidence \ {j} : x2[m] = x1[m]
      /\ j = i => \A d \in Date : x2[i][d] > 0 <=> (d = Hash(cl) \/ x1[i][d] > 0)
  BY <1>3, <1>5, OnUpdatedEffect
<1> HIDE DEF x2
<1>7. /\ x3 \in Index
      /\ \A m \in Incidence \ {k} : x3[m] = x2[m]
      /\ k = i => \A d \in Date : x3[i][d] = IF d = Hash(new) THEN 0 ELSE x2[i][d]
  BY <1>3, <1>6, OnUpdateEffect
<1> HIDE DEF x3
<1>8. /\ x4 \in Index
      /\ \A m \in Incidence \ {k} : x4[m] = x3[m]
      /\ k = i => \A d \in Date : x4[i][d] > 0 <=> (d = Hash(new) \/ x3[i][d] > 0)
  BY <1>3, <1>7, OnUpdatedEffect
<1> HIDE DEF x4
<1>9. /\ j \in Incidence => j \in Live
      /\ k \in Incidence => k \in Live /\ <<new.uid, k>> \in held
  BY <1>2, <1>3, FindHeld DEF Live, Fields
<1> HIDE DEF j, k
<1>10. ASSUME kept, i \notin stray, NEW d \in Date
       PROVE  x4[i][d] > 0 <=> d = Hash(new)
  <2>1. index[i][d] > 0 => d = Hash(data[i])
    BY <1>10 DEF IInv, IndexExact
  <2>2. index[i][d] \in 0 .. MaxCopies /\ d # NoDate
    BY <1>1, ConstantsAssumption DEF Index
  <2>3. x2[i][d] > 0 => d = Hash(cl) \/ d = Hash(new)
    BY <2>1, <2>2, <1>5, <1>6, <1>10, ConstantsAssumption
  <2>4. ~(x3[i][d] > 0)
    <3>1. x2[i][d] > 0 => d = Hash(new)
      BY <2>2, <2>3, <1>10
    <3> QED BY <3>1, <1>7, <1>10
  <2> QED BY <2>4, <1>8, <1>10
<1>11. \A m \in Incidence \ {j, k} : x4[m] = index[m]
  BY <1>5, <1>6, <1>7, <1>8
<1>12. kept \in BOOLEAN /\ (kept => j = i /\ k = i)
  OBVIOUS
<1>13. kept /\ i \notin stray =>
         <<new.uid, i>> \in held /\ \A d \in Date : x4[i][d] > 0 <=> d = Hash(new)
  BY <1>9, <1>10, <1>12
<1> HIDE DEF IInv, kept
<1> QED BY <1>2, <1>4, <1>8, <1>9, <1>11, <1>12, <1>13, AnnounceInv

\* The multi-day cache is no content, but it decides the day.
LEMMA IsMultiDayInv ==
    ASSUME IInv, NEW i \in Incidence, NEW answer \in {"single", "multi"},
           EventIsMultiDayIn(i, answer)
    PROVE  IInv'
<1> DEFINE new == [data[i] EXCEPT !.cache = answer]
<1>1. data[i] \in Fields
  BY DEF IInv, TypeOK
<1>2. new \in Fields /\ new.uid = data[i].uid
  BY <1>1 DEF Fields
<1> HIDE DEF new
<1>3. /\ data' = [data EXCEPT ![i] = new]
      /\ stray' = IF level[i] = 0 /\ Hash(data'[i]) # Hash(data[i])
                  THEN stray \cup ({i} \cap Live) ELSE stray
      /\ UNCHANGED <<level, pending, index, modified, unsaved, observed, held, newer,
                     deleted, onDisk>>
  BY DEF EventIsMultiDayIn, With, calendarVars, new
<1>4. stray \subseteq stray' /\ Live' = Live /\ Live \subseteq Incidence
  BY <1>3 DEF Live
<1>5. TypeOK'
  BY <1>2, <1>3, <1>4 DEF IInv, TypeOK
<1>6. ASSUME NEW m \in Incidence, m \notin stray'
      PROVE  /\ data'[m].uid = data[m].uid
             /\ level[m] # 0 \/ m \notin Live \/ Hash(data'[m]) = Hash(data[m])
  BY <1>2, <1>3, <1>4, <1>6 DEF IInv, TypeOK
<1>7. GroupPending' /\ LiveObserved' /\ UnsavedLive' /\ OneKey' /\ ChangesFlagged'
  BY <1>3, <1>4 DEF IInv, GroupPending, LiveObserved, UnsavedLive, OneKey, ChangesFlagged
<1>8. KeyCurrent'
  BY <1>3, <1>4, <1>6 DEF IInv, KeyCurrent
<1>9. IndexExact'
  BY <1>3, <1>4, <1>6 DEF IInv, IndexExact
<1> QED BY <1>5, <1>7, <1>8, <1>9 DEF IInv

----------------------------------------------------------------------------
(* Operations of the calendar                                              *)

LEMMA AddIncidenceInv ==
    ASSUME IInv, NEW i \in Incidence, AddIncidence(i)
    PROVE  IInv'
<1> DEFINE u0 == data[i].uid
<1>1. /\ observed' = observed \cup {i} /\ modified' = TRUE
      /\ UNCHANGED <<data, level, pending, deleted, onDisk>>
      /\ i \in Incidence /\ u0 \in Uid
  BY DEF InsertIncidence, AddIncidence, IInv, TypeOK, Fields
<1>2. CASE Key(i) \in held
  <2>1. UNCHANGED <<held, newer, index, unsaved, stray>>
    BY <1>2 DEF InsertIncidence, AddIncidence
  <2>2. TypeOK'
    BY <1>1, <2>1 DEF IInv, TypeOK
  <2> QED BY <1>1, <2>1, <2>2 DEF IInv, GroupPending, LiveObserved, OneKey, KeyCurrent,
              UnsavedLive, IndexExact, ChangesFlagged, Live
<1>3. CASE Key(i) \notin held
  <2>1. /\ held' = held \cup {<<u0, i>>}
        /\ newer' = newer \cup {<<u0, i, k>> : k \in {n \in Incidence : <<u0, n>> \in held}}
        /\ index' = File(index, i, Hash(data[i]))
        /\ unsaved' = unsaved \cup {i}
        /\ stray' = IF level[i] = 0 THEN stray ELSE stray \cup {i}
    BY <1>3 DEF InsertIncidence, AddIncidence, Key
  <2>2. /\ Hash(data[i]) \in OptDate /\ index \in Index
        /\ <<u0, i>> \notin held
    BY <1>3, HashType DEF IInv, TypeOK, Index, Key
  <2>3. Live' = Live \cup {i} /\ stray \subseteq stray'
    BY <1>1, <2>1 DEF Live
  <2>4. /\ index' \in Index
        /\ \A m \in Incidence \ {i} : index'[m] = index[m]
        /\ \A d \in Date : index'[i][d] > 0 <=> (d = Hash(data[i]) \/ index[i][d] > 0)
    BY <2>1, <2>2, FileType, FileOthers, FileOwn
  <2>5. newer' \subseteq Uid \X Incidence \X Incidence
    <3>1. newer \subseteq Uid \X Incidence \X Incidence
      BY DEF IInv, TypeOK
    <3>2. \A k \in Incidence : <<u0, i, k>> \in Uid \X Incidence \X Incidence
      BY <1>1
    <3> QED BY <2>1, <3>1, <3>2
  <2>6. TypeOK'
    <3>1. held' \subseteq Uid \X Incidence
      BY <1>1, <2>1 DEF IInv, TypeOK
    <3>2. observed' \subseteq Incidence /\ unsaved' \subseteq Incidence /\ stray' \subseteq Incidence
      BY <1>1, <2>1 DEF IInv, TypeOK
    <3>3. index' \in [Incidence -> [Date -> 0 .. MaxCopies]] /\ modified' \in BOOLEAN
      BY <1>1, <2>4 DEF Index
    <3> QED BY <1>1, <2>5, <3>1, <3>2, <3>3 DEF IInv, TypeOK
  <2>7. GroupPending' /\ LiveObserved' /\ UnsavedLive'
    BY <1>1, <2>1, <2>3 DEF IInv, GroupPending, LiveObserved, UnsavedLive
  <2>8. i \notin stray' => level[i] = 0 /\ i \notin Live
    <3>1. i \in Live /\ i \notin stray /\ level[i] = 0 => <<u0, i>> \in held
      BY <1>1 DEF IInv, KeyCurrent
    <3> QED BY <2>1, <2>2, <3>1
  <2>9. OneKey' /\ KeyCurrent'
    <3>1. ASSUME NEW m \in Incidence, m \notin stray', m # i, NEW u \in Uid
          PROVE  m \notin stray /\ (<<u, m>> \in held' <=> <<u, m>> \in held)
      BY <2>1, <2>3, <3>1
    <3>2. i \notin stray' => \A u \in Uid : <<u, i>> \in held' <=> u = u0
      BY <1>1, <2>1, <2>8 DEF Live
    <3>3. OneKey'
      BY <3>1, <3>2 DEF IInv, OneKey
    <3>4. ASSUME NEW m \in Live', m \notin stray', level'[m] = 0, NEW u \in Uid
          PROVE  <<u, m>> \in held' <=> u = data'[m].uid
      <4>1. CASE m = i
        BY <1>1, <3>2, <3>4, <4>1
      <4>2. CASE m # i
        <5>1. m \in Live /\ m \in Incidence /\ level[m] = 0
          BY <1>1, <2>3, <3>4, <4>2 DEF Live
        <5> QED BY <1>1, <5>1, <3>1, <3>4, <4>2 DEF IInv, KeyCurrent
      <4> QED BY <4>1, <4>2
    <3>5. KeyCurrent'
      BY <3>4 DEF KeyCurrent
    <3> QED BY <3>3, <3>5
  <2>10. ASSUME NEW m \in Incidence, m \notin stray', NEW d \in Date
         PROVE  index'[m][d] > 0 <=> (m \in Live' /\ level'[m] = 0 /\ d = Hash(data'[m]))
    <3>1. index[m][d] > 0 <=> (m \in Live /\ level[m] = 0 /\ d = Hash(data[m]))
      BY <2>3, <2>10 DEF IInv, IndexExact
    <3>2. CASE m # i
      BY <3>1, <3>2, <1>1, <2>3, <2>4
    <3>3. CASE m = i
      BY <3>1, <3>3, <1>1, <2>3, <2>4, <2>8, <2>10
    <3> QED BY <3>2, <3>3
  <2>11. IndexExact' /\ ChangesFlagged'
    BY <1>1, <2>10 DEF IndexExact, ChangesFlagged
  <2> QED BY <2>6, <2>7, <2>9, <2>11 DEF IInv
<1> QED BY <1>2, <1>3

\* The incidences a deletion takes out of the calendar leave nothing behind.
LEMMA DeleteIncidenceInv ==
    ASSUME IInv, NEW i \in Incidence, DeleteIncidence(i)
    PROVE  IInv'
<1>1. /\ Key(i) \in held
      /\ held' = held \ {Key(v) : v \in Victims(i)}
      /\ newer' \subseteq newer
      /\ index' = [m \in Incidence |->
                     IF m \in Victims(i)
                     THEN [d \in Date |-> IF d = Hash(data[m]) THEN 0 ELSE index[m][d]]
                     ELSE index[m]]
      /\ deleted' = deleted \cup Victims(i)
      /\ unsaved' = {m \in unsaved : \E u \in Uid : <<u, m>> \in held'}
      /\ modified' = TRUE
      /\ UNCHANGED <<data, level, pending, observed, onDisk, stray>>
  BY DEF DeleteIncidence
<1>2. Victims(i) \subseteq Incidence /\ \A v \in Victims(i) : Key(v) \in held
  BY <1>1 DEF Victims, Instances, Key
<1>3. held' \subseteq held /\ Live' \subseteq Live
  BY <1>1 DEF Live
<1>4. TypeOK'
  <2>1. index' \in [Incidence -> [Date -> 0 .. MaxCopies]]
    <3>1. \A m \in Incidence : index[m] \in [Date -> 0 .. MaxCopies] /\ 0 \in 0 .. MaxCopies
      BY ConstantsAssumption DEF IInv, TypeOK
    <3> QED BY <3>1, <1>1
  <2> QED BY <2>1, <1>1, <1>2, <1>3 DEF IInv, TypeOK
<1>5. GroupPending' /\ LiveObserved' /\ UnsavedLive' /\ OneKey' /\ ChangesFlagged'
  BY <1>1, <1>3 DEF IInv, TypeOK, GroupPending, LiveObserved, UnsavedLive, OneKey,
                    ChangesFlagged, Live
<1>6. ASSUME NEW m \in Incidence, m \notin Victims(i), NEW u
      PROVE  <<u, m>> \in held' <=> <<u, m>> \in held
  BY <1>1, <1>6 DEF Key
<1>7. ASSUME NEW m \in Victims(i), m \notin stray
      PROVE  m \notin Live'
  <2>1. data[m].uid \in Uid
    BY <1>2 DEF IInv, TypeOK, Fields
  <2>2. \A u \in Uid : <<u, m>> \in held => <<u, m>> = Key(m)
    BY <1>2, <1>7, <2>1 DEF IInv, OneKey, Key
  <2> QED BY <1>1, <1>3, <2>2 DEF Live
<1>8. KeyCurrent'
  <2>1. ASSUME NEW m \in Live', m \notin stray, level[m] = 0, NEW u \in Uid
        PROVE  <<u, m>> \in held' <=> u = data[m].uid
    <3>1. m \in Live /\ m \in Incidence /\ m \notin Victims(i)
      BY <1>3, <1>7, <2>1 DEF Live
    <3> QED BY <3>1, <1>6, <2>1 DEF IInv, KeyCurrent
  <2> QED BY <2>1, <1>1 DEF KeyCurrent
<1>9. ASSUME NEW m \in Incidence, m \notin stray, NEW d \in Date
      PROVE  index'[m][d] > 0 <=> (m \in Live' /\ level'[m] = 0 /\ d = Hash(data'[m]))
  <2>1. index[m][d] > 0 <=> (m \in Live /\ level[m] = 0 /\ d = Hash(data[m]))
    BY <1>9 DEF IInv, IndexExact
  <2>2. CASE m \notin Victims(i)
    <3>1. m \in Live' <=> m \in Live
      BY <1>6, <2>2 DEF Live
    <3> QED BY <3>1, <2>1, <2>2, <1>1
  <2>3. CASE m \in Victims(i)
    <3>1. index'[m][d] = IF d = Hash(data[m]) THEN 0 ELSE index[m][d]
      BY <1>1, <2>3
    <3> QED BY <3>1, <2>1, <2>3, <1>7, <1>9
  <2> QED BY <2>2, <2>3
<1>10. IndexExact'
  BY <1>1, <1>9 DEF IndexExact
<1> QED BY <1>4, <1>5, <1>8, <1>10 DEF IInv

\* An incidence is held under a number of uids.
LEMMA EntriesType ==
    ASSUME NEW i
    PROVE  Entries(i) \in Nat
<1>1. {u \in Uid : <<u, i>> \in held} \subseteq Uid
  OBVIOUS
<1> QED BY <1>1, FS_Subset, FS_CardinalityType, ConstantsAssumption DEF Entries

(***************************************************************************)
(* Emptying the calendar of some types: what is left of the index belongs  *)
(* to the other types, and of those only incidences found by mistake moved.*)
(***************************************************************************)
LEMMA WipeInv ==
    ASSUME IInv, NEW T, Wipe(T), modified' \in BOOLEAN,
           deleted' \subseteq Incidence, onDisk' \subseteq Incidence,
           (\E m \in Incidence : data[m].type \notin T) => modified' = modified
    PROVE  IInv'
<1>1. /\ \A m \in OfType(T) : level[m] + Entries(m) <= MaxLevel
      /\ level' = [m \in Incidence |-> IF m \in OfType(T) THEN level[m] + Entries(m)
                                        ELSE level[m]]
      /\ pending' = [m \in Incidence |-> pending[m] \/ (m \in OfType(T) /\ level[m] = 0)]
      /\ held' = {h \in held : data[h[2]].type \notin T}
      /\ newer' \subseteq newer
      /\ index' = [m \in Incidence |->
                     IF data[m].type \in T THEN Empty
                     ELSE IF m \in Misfiled(T)
                     THEN [d \in Date |-> IF d = Hash(data[m]) THEN 0 ELSE index[m][d]]
                     ELSE index[m]]
      /\ unsaved' = {m \in unsaved : data[m].type \notin T}
      /\ stray' = {m \in stray \cup Misfiled(T) : data[m].type \notin T}
      /\ UNCHANGED <<data, observed>>
  BY DEF Wipe
<1>2. \A m \in Incidence : \A u : <<u, m>> \in held' <=> <<u, m>> \in held /\ data[m].type \notin T
  BY <1>1
<1>3. \A m \in Incidence : /\ m \in Live' <=> m \in Live /\ data[m].type \notin T
                           /\ m \in OfType(T) <=> m \in Live /\ data[m].type \in T
  BY <1>2 DEF Live, OfType
<1>4. TypeOK'
  <2>1. level' \in [Incidence -> 0 .. MaxLevel]
    <3>1. \A m \in Incidence : level[m] \in 0 .. MaxLevel
      BY DEF IInv, TypeOK
    <3>2. \A m \in OfType(T) : level[m] + Entries(m) \in 0 .. MaxLevel
      BY <1>1, <3>1, EntriesType, ConstantsAssumption DEF OfType, Live
    <3> QED BY <1>1, <3>1, <3>2
  <2>2. index' \in [Incidence -> [Date -> 0 .. MaxCopies]]
    <3>1. \A m \in Incidence : index[m] \in [Date -> 0 .. MaxCopies] /\ 0 \in 0 .. MaxCopies
      BY ConstantsAssumption DEF IInv, TypeOK
    <3>2. Empty \in [Date -> 0 .. MaxCopies]
      BY ConstantsAssumption DEF Empty
    <3> QED BY <3>1, <3>2, <1>1
  <2>3. pending' \in [Incidence -> BOOLEAN]
    BY <1>1
  <2>4. Misfiled(T) \subseteq Incidence
    BY DEF Misfiled
  <2> QED BY <2>1, <2>2, <2>3, <2>4, <1>1 DEF IInv, TypeOK
<1>5. GroupPending'
  <2>1. ASSUME NEW m \in Incidence, level'[m] > 0
        PROVE  pending[m] \/ (m \in OfType(T) /\ level[m] = 0)
    <3>1. level[m] \in Nat
      BY DEF IInv, TypeOK
    <3> QED BY <1>1, <2>1, <3>1 DEF IInv, GroupPending
  <2> QED BY <2>1, <1>1 DEF GroupPending
<1>6. LiveObserved' /\ UnsavedLive'
  <2>1. unsaved \subseteq Incidence /\ Live' \subseteq Incidence
    BY DEF IInv, TypeOK, Live
  <2> QED BY <2>1, <1>1, <1>3 DEF IInv, LiveObserved, UnsavedLive
<1>7. ASSUME NEW m \in Incidence, m \notin stray', data[m].type \notin T
      PROVE  /\ m \notin stray /\ index'[m] = index[m] /\ level'[m] = level[m]
             /\ m \in Live' <=> m \in Live
  BY <1>1, <1>3, <1>7
<1>8. ASSUME NEW m \in Incidence, data[m].type \in T
      PROVE  m \notin Live' /\ m \notin unsaved' /\ \A d \in Date : index'[m][d] = 0
  BY <1>1, <1>3, <1>8 DEF Empty
<1>9. OneKey'
  BY <1>2, <1>7 DEF IInv, OneKey
<1>10. KeyCurrent'
  <2>1. Live' \subseteq Incidence
    BY DEF Live
  <2>2. ASSUME NEW m \in Live', m \notin stray', level'[m] = 0, NEW u \in Uid
        PROVE  <<u, m>> \in held' <=> u = data'[m].uid
    <3>1. m \in Incidence /\ data' = data /\ data[m].type \notin T
      BY <2>1, <2>2, <1>1, <1>8
    <3>2. m \in Live /\ m \notin stray /\ level[m] = 0
      BY <3>1, <2>2, <1>7
    <3>3. <<u, m>> \in held <=> u = data[m].uid
      BY <3>2 DEF IInv, KeyCurrent
    <3> QED BY <3>1, <3>3, <1>2
  <2> QED BY <2>2 DEF KeyCurrent
<1>11. IndexExact'
  <2>1. ASSUME NEW m \in Incidence, m \notin stray', NEW d \in Date
        PROVE  index'[m][d] > 0 <=> (m \in Live' /\ level'[m] = 0 /\ d = Hash(data'[m]))
    <3>1. CASE data[m].type \in T
      BY <3>1, <1>8
    <3>2. CASE data[m].type \notin T
      <4>1. m \notin stray
        BY <3>2, <2>1, <1>7
      <4>2. index[m][d] > 0 <=> (m \in Live /\ level[m] = 0 /\ d = Hash(data[m]))
        BY <4>1 DEF IInv, IndexExact
      <4>3. /\ index'[m] = index[m] /\ level'[m] = level[m] /\ data' = data
            /\ m \in Live' <=> m \in Live
        BY <3>2, <2>1, <1>1, <1>7
      <4> QED BY <4>2, <4>3
    <3> QED BY <3>1, <3>2
  <2> QED BY <2>1 DEF IndexExact
<1>12. ChangesFlagged'
  <2>1. unsaved' \subseteq unsaved /\ unsaved \subseteq Incidence
    BY <1>1 DEF IInv, TypeOK
  <2> QED BY <2>1, <1>7, <1>8 DEF IInv, ChangesFlagged
<1> QED BY <1>4, <1>5, <1>6, <1>9, <1>10, <1>11, <1>12 DEF IInv

----------------------------------------------------------------------------
(* The specification                                                       *)

LEMMA InitInv == Init => IInv
<1> SUFFICES ASSUME Init PROVE IInv
  OBVIOUS
<1>1. NewIncidence \subseteq Fields
  <2>1. ASSUME NEW x \in NewIncidence PROVE x \in Fields
    <3>1. PICK t \in Types, u \in Uid, r \in RecurrenceId \cup {NoRid} :
             x = [type |-> t, uid |-> u, rid |-> r, start |-> NoDate, end |-> NoDate,
                  hasEnd |-> FALSE, dur |-> "none", cache |-> "unset", due |-> NoDate,
                  hasDue |-> FALSE, dtRec |-> NoDate, recurs |-> FALSE]
      BY DEF NewIncidence
    <3>2. NoDate \in OptDate
      BY DEF OptDate
    <3> QED BY <3>1, <3>2 DEF Fields
  <2> QED BY <2>1
<1>2. Live = {}
  BY DEF Init, Live
<1>3. /\ data \in [Incidence -> Fields]
      /\ level = [i \in Incidence |-> 0]
      /\ pending \in [Incidence -> BOOLEAN]
      /\ observed = {} /\ held = {} /\ newer = {} /\ deleted = {}
      /\ index = [i \in Incidence |-> Empty]
      /\ modified = FALSE
      /\ onDisk = {} /\ unsaved = {} /\ stray = {}
  BY <1>1 DEF Init
<1>4. Empty \in [Date -> 0 .. MaxCopies] /\ \A d \in Date : Empty[d] = 0
  BY ConstantsAssumption DEF Empty
<1>5. level \in [Incidence -> 0 .. MaxLevel]
  BY <1>3, ConstantsAssumption
<1>6. TypeOK
  BY <1>3, <1>4, <1>5 DEF TypeOK
<1>7. GroupPending /\ LiveObserved /\ UnsavedLive /\ OneKey /\ KeyCurrent /\ ChangesFlagged
  BY <1>2, <1>3 DEF GroupPending, LiveObserved, UnsavedLive, OneKey, KeyCurrent, ChangesFlagged
<1>8. IndexExact
  BY <1>2, <1>3, <1>4 DEF IndexExact
<1> QED BY <1>6, <1>7, <1>8 DEF IInv

\* The setters whose fields stay the same after update() and updated().
LEMMA SetterInv ==
    ASSUME IInv, NEW i \in Incidence, NEW new \in Fields, Setter(i, new)
    PROVE  IInv'
<1>1. data[i] \in Fields
  BY DEF IInv, TypeOK
<1> QED BY <1>1, ChangeInv DEF Setter

LEMMA LateInv ==
    ASSUME IInv, NEW i \in Incidence, NEW new \in Fields, Late(i, new)
    PROVE  IInv'
BY ChangeInv DEF Late

LEMMA IdentifyInv ==
    ASSUME IInv, NEW i \in Incidence, SetOther(i) \/ Identify(i)
    PROVE  IInv'
<1>1. \A m \in Incidence : data[m] \in Fields
  BY DEF IInv, TypeOK
<1>2. CASE SetOther(i)
  BY <1>1, <1>2, SetterInv DEF SetOther
<1>3. CASE \E u \in Uid : SetUid(i, u)
  <2>1. PICK u \in Uid : SetUid(i, u)
    BY <1>3
  <2>2. [data[i] EXCEPT !.uid = u] \in Fields
    BY <1>1 DEF Fields
  <2> QED BY <2>1, <2>2, SetterInv DEF SetUid
<1>4. CASE \E r \in RecurrenceId \cup {NoRid} : SetRecurrenceId(i, r)
  <2>1. PICK r \in RecurrenceId \cup {NoRid} : SetRecurrenceId(i, r)
    BY <1>4
  <2>2. [data[i] EXCEPT !.rid = r] \in Fields
    BY <1>1 DEF Fields
  <2> QED BY <2>1, <2>2, SetterInv DEF SetRecurrenceId
<1>5. CASE \E j \in Incidence : Assign(i, j)
  BY <1>1, <1>5, SetterInv DEF Assign
<1> QED BY <1>2, <1>3, <1>4, <1>5 DEF Identify

LEMMA ChangeEventInv ==
    ASSUME IInv, NEW i \in Incidence, ChangeEvent(i)
    PROVE  IInv'
<1>1. data[i] \in Fields
  BY DEF IInv, TypeOK
<1>2. CASE \E d \in OptDate : EventSetDtStart(i, d)
  <2>1. PICK d \in OptDate : EventSetDtStart(i, d)
    BY <1>2
  <2> DEFINE at == [data[i] EXCEPT !.cache = "unset"]
             new == [at EXCEPT !.start = d]
  <2>2. at \in Fields /\ new \in Fields
    BY <1>1 DEF Fields
  <2>3. Change(i, at, new, new)
    BY <2>1 DEF EventSetDtStart
  <2> HIDE DEF at, new
  <2> QED BY <2>2, <2>3, ChangeInv
<1>3. CASE \E d \in OptDate : EventSetDtEnd(i, d)
  <2>1. PICK d \in OptDate : EventSetDtEnd(i, d)
    BY <1>3
  <2>2. [data[i] EXCEPT !.end = d, !.hasEnd = TRUE, !.dur = "none",
                        !.cache = "unset"] \in Fields
    BY <1>1 DEF Fields
  <2> QED BY <2>1, <2>2, SetterInv DEF EventSetDtEnd
<1>4. CASE \E dur \in {"short", "long"} : EventSetDuration(i, dur)
  <2>1. PICK dur \in {"short", "long"} : EventSetDuration(i, dur)
    BY <1>4
  <2> DEFINE at == [data[i] EXCEPT !.hasEnd = FALSE]
             new == [at EXCEPT !.dur = dur]
  <2>2. at \in Fields /\ new \in Fields
    BY <1>1 DEF Fields
  <2>3. Change(i, at, new, new)
    BY <2>1 DEF EventSetDuration
  <2> HIDE DEF at, new
  <2> QED BY <2>2, <2>3, ChangeInv
<1>5. CASE \E b \in BOOLEAN : EventSetHasEndDate(i, b)
  <2>1. PICK b \in BOOLEAN : EventSetHasEndDate(i, b)
    BY <1>5
  <2>2. [data[i] EXCEPT !.hasEnd = b] \in Fields
    BY <1>1 DEF Fields
  <2> QED BY <2>1, <2>2, SilentInv DEF EventSetHasEndDate
<1>6. CASE \E answer \in {"single", "multi"} : EventIsMultiDayIn(i, answer)
  BY <1>6, IsMultiDayInv
<1>7. CASE \E start, end \in Date : EventShiftTimes(i, start, end)
  <2>1. PICK start \in Date, end \in Date : EventShiftTimes(i, start, end)
    BY <1>7
  <2> DEFINE told == [data[i] EXCEPT !.start = start]
             new == IF data[i].hasEnd THEN [told EXCEPT !.end = end] ELSE told
  <2>2. told \in Fields /\ new \in Fields /\ new.uid = told.uid
    BY <1>1 DEF Fields, OptDate
  <2>3. Change(i, data[i], told, new)
    BY <2>1 DEF EventShiftTimes
  <2> HIDE DEF told, new
  <2> QED BY <1>1, <2>2, <2>3, ChangeInv
<1> QED BY <1>2, <1>3, <1>4, <1>5, <1>6, <1>7 DEF ChangeEvent

LEMMA ChangeTodoInv ==
    ASSUME IInv, NEW i \in Incidence, ChangeTodo(i)
    PROVE  IInv'
<1>1. data[i] \in Fields
  BY DEF IInv, TypeOK
<1>2. CASE \E d \in OptDate, first \in BOOLEAN : TodoSetDtDue(i, d, first)
  <2>1. PICK d \in OptDate, first \in BOOLEAN : TodoSetDtDue(i, d, first)
    BY <1>2
  <2>2. /\ [data[i] EXCEPT !.hasDue = (d # NoDate), !.dtRec = d] \in Fields
        /\ [data[i] EXCEPT !.hasDue = (d # NoDate), !.due = d] \in Fields
    BY <1>1 DEF Fields
  <2> QED BY <2>1, <2>2, SetterInv DEF TodoSetDtDue
<1>3. CASE \E b \in BOOLEAN : TodoSetHasDueDate(i, b)
  <2>1. PICK b \in BOOLEAN : TodoSetHasDueDate(i, b)
    BY <1>3
  <2>2. [data[i] EXCEPT !.hasDue = b] \in Fields
    BY <1>1 DEF Fields
  <2> QED BY <2>1, <2>2, SetterInv DEF TodoSetHasDueDate
<1>4. CASE \E d \in OptDate : TodoSetDtRecurrence(i, d)
  <2>1. PICK d \in OptDate : TodoSetDtRecurrence(i, d)
    BY <1>4
  <2>2. [data[i] EXCEPT !.dtRec = d] \in Fields
    BY <1>1 DEF Fields
  <2> QED BY <2>1, <2>2, SilentInv DEF TodoSetDtRecurrence
<1>5. CASE \E due \in Date, rec \in OptDate : TodoShiftTimes(i, due, rec)
  <2>1. PICK due \in Date, rec \in OptDate : TodoShiftTimes(i, due, rec)
    BY <1>5
  <2> DEFINE new == [data[i] EXCEPT !.due = due,
                                    !.dtRec = IF data[i].recurs THEN rec ELSE @]
  <2>2. new \in Fields /\ new.uid = data[i].uid
    BY <1>1 DEF Fields, OptDate
  <2>3. Change(i, data[i], data[i], new)
    BY <2>1 DEF TodoShiftTimes
  <2> HIDE DEF new
  <2> QED BY <1>1, <2>2, <2>3, ChangeInv
<1>6. CASE \E d \in Date : TodoComplete(i, d)
  BY <1>6, TodoCompleteInv
<1> QED BY <1>2, <1>3, <1>4, <1>5, <1>6 DEF ChangeTodo

LEMMA ChangeRecurrenceInv ==
    ASSUME IInv, NEW i \in Incidence, ChangeRecurrence(i)
    PROVE  IInv'
<1>1. \A b \in BOOLEAN : [data[i] EXCEPT !.recurs = b] \in Fields
  <2>1. \A x \in Fields, b \in BOOLEAN : [x EXCEPT !.recurs = b] \in Fields
    BY DEF Fields
  <2>2. data[i] \in Fields
    BY DEF IInv, TypeOK
  <2> QED BY <2>1, <2>2
<1>2. CASE StopRecurring(i)
  BY <1>1, <1>2, LateInv DEF StopRecurring
<1>3. CASE AddRecurrence(i)
  BY <1>1, <1>3, LateInv DEF AddRecurrence
<1>4. CASE SetNewRecurrence(i)
  BY <1>4, SetNewRecurrenceInv
<1>5. CASE ClearRecurrence(i)
  BY <1>1, <1>5, SilentInv DEF ClearRecurrence
<1> QED BY <1>2, <1>3, <1>4, <1>5 DEF ChangeRecurrence

LEMMA JournalInv ==
    ASSUME IInv, NEW i \in Incidence, NEW d \in OptDate, JournalSetDtStart(i, d)
    PROVE  IInv'
<1>1. data[i] \in Fields
  BY DEF IInv, TypeOK
<1>2. [data[i] EXCEPT !.start = d] \in Fields
  BY <1>1 DEF Fields
<1> QED BY <1>2, SetterInv DEF JournalSetDtStart

LEMMA SaveInv == IInv /\ Save => IInv'
<1> SUFFICES ASSUME IInv, Save PROVE IInv'
  OBVIOUS
<1>1. /\ modified' = FALSE /\ onDisk' = Live /\ unsaved' = {}
      /\ UNCHANGED <<data, level, pending, observed, held, newer, deleted, index, stray>>
  BY DEF Save
<1>2. Live \subseteq Incidence /\ Live' = Live
  BY <1>1 DEF Live
<1>3. TypeOK'
  BY <1>1, <1>2 DEF IInv, TypeOK
<1> QED BY <1>1, <1>2, <1>3 DEF IInv, GroupPending, LiveObserved, OneKey, KeyCurrent,
            UnsavedLive, IndexExact, ChangesFlagged

LEMMA NextInv == IInv /\ [Next]_vars => IInv'
<1> SUFFICES ASSUME IInv, [Next]_vars PROVE IInv'
  OBVIOUS
<1>1. ASSUME NEW i \in Incidence, IncidenceNext(i)
      PROVE  IInv'
  BY <1>1, IdentifyInv, ChangeEventInv, JournalInv, ChangeTodoInv, ChangeRecurrenceInv,
     StartUpdatesInv, EndUpdatesInv DEF IncidenceNext
<1>2. ASSUME NEW i \in Incidence, AddIncidence(i) \/ DeleteIncidence(i)
      PROVE  IInv'
  BY <1>2, AddIncidenceInv, DeleteIncidenceInv
<1>3. ASSUME NEW t \in Types, DeleteAll(t)
      PROVE  IInv'
  <2>1. Wipe({t}) /\ UNCHANGED <<deleted, modified, onDisk>>
    BY <1>3 DEF DeleteAll
  <2>2. modified' \in BOOLEAN /\ deleted' \subseteq Incidence /\ onDisk' \subseteq Incidence
    BY <2>1 DEF IInv, TypeOK
  <2> QED BY <2>1, <2>2, WipeInv
<1>4. CASE Close
  <2>1. \A m \in Incidence : data[m].type \in {"event", "todo", "journal"}
    BY ConstantsAssumption DEF IInv, TypeOK, Fields
  <2>2. /\ Wipe({"event", "todo", "journal"})
        /\ deleted' = {} /\ onDisk' = {} /\ modified' = FALSE
    BY <1>4 DEF Close
  <2> QED BY <2>1, <2>2, WipeInv
<1>5. CASE Save
  BY <1>5, SaveInv
<1>6. CASE UNCHANGED vars
  BY <1>6 DEF vars, IInv, TypeOK, GroupPending, LiveObserved, OneKey, KeyCurrent,
              UnsavedLive, IndexExact, ChangesFlagged, Live
<1> QED BY <1>1, <1>2, <1>3, <1>4, <1>5, <1>6 DEF Next

\* The inductive invariant holds of every behaviour.
THEOREM Invariance == Spec => []IInv
<1>1. Init => IInv
  BY InitInv
<1>2. IInv /\ [Next]_vars => IInv'
  BY NextInv
<1> QED BY <1>1, <1>2, PTL DEF Spec

\* Every variable keeps its type: the fields, group levels and index counts.
THEOREM TypeCorrect == Spec => []TypeOK
<1>1. IInv => TypeOK
  BY DEF IInv
<1> QED BY <1>1, Invariance, PTL

(***************************************************************************)
(* The date index agrees with the incidences that are changed between      *)
(* update() and updated().                                                 *)
(***************************************************************************)
THEOREM IndexIsExact == Spec => []IndexExact
<1>1. IInv => IndexExact
  BY DEF IInv
<1> QED BY <1>1, Invariance, PTL

\* Every change of an incidence in the calendar makes the calendar modified.
THEOREM ChangesAreFlagged == Spec => []ChangesFlagged
<1>1. IInv => ChangesFlagged
  BY DEF IInv
<1> QED BY <1>1, Invariance, PTL

\* An open update group always has an update to announce.
THEOREM GroupsArePending == Spec => []GroupPending
<1>1. IInv => GroupPending
  BY DEF IInv
<1> QED BY <1>1, Invariance, PTL

----------------------------------------------------------------------------
(* Steps of an incidence                                                   *)

\* A step of an incidence changes neither what the calendar holds nor what was
\* saved, and unmarks nothing.
Keeps == UNCHANGED <<held, onDisk>> /\ (modified => modified')

\* Every announced or silent change is such a step.
LEMMA ShapesKeep ==
    ASSUME NEW i, NEW new, NEW at, NEW told
    PROVE  /\ \A ix, j, k, kept : Announce(i, new, ix, j, k, kept) => Keeps
           /\ Change(i, at, told, new) => Keeps
           /\ Setter(i, new) => Keeps
           /\ Late(i, new) => Keeps
           /\ Silent(i, new) => Keeps
<1>1. ASSUME NEW ix, NEW j, NEW k, NEW kept, NEW x, Announce(i, x, ix, j, k, kept)
      PROVE  Keeps
  BY <1>1 DEF Announce, Keeps, calendarVars
<1>2. \A a, t, n : Change(i, a, t, n) => Keeps
  BY <1>1 DEF Change
<1>3. Silent(i, new) => Keeps
  BY DEF Silent, Keeps, calendarVars
<1> QED BY <1>1, <1>2, <1>3 DEF Setter, Late

\* No operation on an incidence does otherwise.
LEMMA IncidenceKeeps ==
    ASSUME NEW i \in Incidence, IncidenceNext(i)
    PROVE  Keeps
<1>1. CASE SetOther(i) \/ Identify(i)
  BY <1>1, ShapesKeep DEF SetOther, Identify, SetUid, SetRecurrenceId, Assign
<1>2. CASE ChangeEvent(i)
  <2>1. \A answer : EventIsMultiDayIn(i, answer) => Keeps
    BY DEF EventIsMultiDayIn, Keeps, calendarVars
  <2> QED BY <1>2, <2>1, ShapesKeep DEF ChangeEvent, EventSetDtStart, EventSetDtEnd,
             EventSetDuration, EventSetHasEndDate, EventShiftTimes
<1>3. CASE \E d \in OptDate : JournalSetDtStart(i, d)
  BY <1>3, ShapesKeep DEF JournalSetDtStart
<1>4. CASE ChangeTodo(i)
  BY <1>4, ShapesKeep DEF ChangeTodo, TodoSetDtDue, TodoSetHasDueDate,
     TodoSetDtRecurrence, TodoShiftTimes, TodoComplete
<1>5. CASE ChangeRecurrence(i)
  BY <1>5, ShapesKeep DEF ChangeRecurrence, StopRecurring, AddRecurrence,
     SetNewRecurrence, ClearRecurrence
<1>6. CASE StartUpdates(i)
  BY <1>6 DEF StartUpdates, Keeps, calendarVars
<1>7. CASE EndUpdates(i)
  BY <1>7 DEF EndUpdates, Keeps, calendarVars
<1> QED BY <1>1, <1>2, <1>3, <1>4, <1>5, <1>6, <1>7 DEF IncidenceNext

----------------------------------------------------------------------------
(* Additions                                                               *)

LEMMA AdditionsStep ==
    ASSUME IInv, AdditionsFlagged, [Next]_vars
    PROVE  AdditionsFlagged'
<1>1. ASSUME NEW i \in Incidence, IncidenceNext(i)
      PROVE  AdditionsFlagged'
  BY <1>1, IncidenceKeeps DEF Keeps, AdditionsFlagged, Live
<1>2. ASSUME NEW i \in Incidence, AddIncidence(i) \/ DeleteIncidence(i)
      PROVE  AdditionsFlagged'
  BY <1>2 DEF AddIncidence, DeleteIncidence, AdditionsFlagged
<1>3. ASSUME NEW T, Wipe(T)
      PROVE  Live' \subseteq Live /\ \A i \in Live' : data[i].type \notin T
  BY <1>3 DEF Wipe, Live
<1>4. ASSUME NEW t \in Types, DeleteAll(t)
      PROVE  AdditionsFlagged'
  BY <1>3, <1>4 DEF DeleteAll, AdditionsFlagged
<1>5. CASE Close
  <2>1. \A i \in Incidence : data[i].type \in {"event", "todo", "journal"}
    BY ConstantsAssumption DEF IInv, TypeOK, Fields
  <2>2. Live' = {}
    BY <1>3, <1>5, <2>1 DEF Close, Live
  <2> QED BY <2>2 DEF AdditionsFlagged
<1>6. CASE Save
  BY <1>6 DEF Save, AdditionsFlagged, Live
<1>7. CASE UNCHANGED vars
  BY <1>7 DEF vars, AdditionsFlagged, Live
<1> QED BY <1>1, <1>2, <1>4, <1>5, <1>6, <1>7 DEF Next

(***************************************************************************)
(* An incidence the storage has never seen makes the calendar modified     *)
(* (addIncidence, deleteIncidence, save).                                  *)
(***************************************************************************)
THEOREM AdditionsAreFlagged == Spec => []AdditionsFlagged
<1>1. Init => AdditionsFlagged
  BY DEF Init, AdditionsFlagged, Live
<1>2. IInv /\ AdditionsFlagged /\ [Next]_vars => AdditionsFlagged'
  BY AdditionsStep
<1> QED BY <1>1, <1>2, Invariance, PTL DEF Spec

----------------------------------------------------------------------------
(* Exceptions                                                              *)

\* deleteIncidence() of a parent finds every exception under its uid.
LEMMA DeleteTakesExceptions ==
    ASSUME IInv, NEW i \in Incidence, DeleteIncidence(i),
           NEW p \in Live \ Live', NEW e \in Live \ stray,
           data[p].rid = NoRid, data[e].rid # NoRid,
           data[e].uid = data[p].uid, data[e].type = data[p].type, level[e] = 0
    PROVE  e \notin Live'
<1>1. held' = held \ {Key(v) : v \in Victims(i)}
  BY DEF DeleteIncidence
<1>2. p \in Incidence /\ e \in Incidence
  BY DEF Live
<1>3. p \in Victims(i)
  <2>1. PICK u \in Uid : <<u, p>> \in held /\ <<u, p>> \notin held'
    BY DEF Live
  <2>2. PICK v \in Victims(i) : Key(v) = <<u, p>>
    BY <1>1, <2>1
  <2> QED BY <2>2 DEF Key
<1>4. p = i
  BY <1>3 DEF Victims, Instances
<1>5. data[e].uid \in Uid /\ \A u \in Uid : <<u, e>> \in held <=> u = data[e].uid
  BY <1>2 DEF IInv, TypeOK, Fields, KeyCurrent
<1>6. e \in Victims(i)
  BY <1>2, <1>4, <1>5 DEF Victims, Instances, Key
<1> QED BY <1>1, <1>5, <1>6 DEF Key, Live

(***************************************************************************)
(* No step removes a parent and leaves behind an exception of its type and *)
(* uid (deleteIncidence, deleteAllIncidences, close).                      *)
(***************************************************************************)
THEOREM ExceptionsFollow == Spec => ExceptionsFollowParent
<1> DEFINE Follow == \A p \in Live \ Live', e \in Live \ stray :
                        (/\ data[p].rid = NoRid /\ data[e].rid # NoRid
                         /\ data[e].uid = data[p].uid /\ data[e].type = data[p].type
                         /\ level[e] = 0)
                        => e \notin Live'
<1>1. IInv /\ [Next]_vars => [Follow]_vars
  <2> SUFFICES ASSUME IInv, Next PROVE Follow
    OBVIOUS
  <2>1. ASSUME NEW i \in Incidence, IncidenceNext(i)
        PROVE  Live' = Live
    BY <2>1, IncidenceKeeps DEF Keeps, Live
  <2>2. ASSUME NEW i \in Incidence, AddIncidence(i)
        PROVE  Live \subseteq Live'
    BY <2>2 DEF AddIncidence, InsertIncidence, Live
  <2>3. ASSUME NEW i \in Incidence, DeleteIncidence(i)
        PROVE  Follow
    BY <2>3, DeleteTakesExceptions
  <2>4. ASSUME NEW T, Wipe(T)
        PROVE  Follow
    BY <2>4 DEF Wipe, Live
  <2>5. (\E t \in Types : DeleteAll(t)) \/ Close => Follow
    BY <2>4 DEF DeleteAll, Close
  <2>6. Save => Live' = Live
    BY DEF Save, Live
  <2> QED BY <2>1, <2>2, <2>3, <2>5, <2>6 DEF Next
<1>2. Spec => [][Follow]_vars
  BY <1>1, Invariance, PTL DEF Spec
<1> QED BY <1>2 DEF ExceptionsFollowParent

----------------------------------------------------------------------------
(* Copies in the date index                                                *)

\* an incidence is filed at most once under each day
Once(ix, i) == \A d \in Date : ix[i][d] <= 1

Unfiled(ix, i) == \A d \in Date : ix[i][d] = 0

\* Filing an incidence that is not filed files it once.
LEMMA FileOnce ==
    ASSUME NEW ix \in Index, NEW j \in Incidence, NEW h \in OptDate, Unfiled(ix, j)
    PROVE  Once(File(ix, j, h), j)
BY ConstantsAssumption DEF Once, Unfiled, File, Index, OptDate

LEMMA OnUpdatedOnce ==
    ASSUME NEW ix \in Index, NEW D \in [Incidence -> Fields], NEW i \in Incidence,
           Find(D, i) = i, Unfiled(ix, i)
    PROVE  Once(OnUpdated(ix, D, i), i)
<1>1. OnUpdated(ix, D, i) = File(ix, i, Hash(D[i]))
  BY DEF OnUpdated, HashOf
<1> QED BY <1>1, FileOnce, HashType

\* An incidence the calendar has not lost track of is filed under its day only.
LEMMA FiledUnderItsDay ==
    ASSUME IInv, NEW i \in Incidence, i \notin stray, NEW d \in Date
    PROVE  /\ d # Hash(data[i]) \/ i \notin Live \/ level[i] # 0 => index[i][d] = 0
           /\ index[i][d] \in 0 .. MaxCopies
<1>1. index[i][d] > 0 <=> (i \in Live /\ level[i] = 0 /\ d = Hash(data[i]))
  BY DEF IInv, IndexExact
<1>2. index[i][d] \in 0 .. MaxCopies
  BY DEF IInv, TypeOK
<1> QED BY <1>1, <1>2, ConstantsAssumption

(***************************************************************************)
(* A change announced to the calendar files nothing twice if it files the  *)
(* incidence itself once when the calendar keeps track of it.              *)
(***************************************************************************)
LEMMA AnnounceOnce ==
    ASSUME IInv, ListedOnce, NEW i \in Incidence, NEW new \in Fields, NEW ix \in Index,
           NEW j, NEW k, NEW kept \in BOOLEAN,
           Announce(i, new, ix, j, k, kept),
           new.type = data[i].type,
           \A m \in Incidence \ {j, k} : ix[m] = index[m],
           j \in Incidence => j \in Live,
           k \in Incidence => k \in Live,
           kept => j = i /\ k = i,
           kept /\ i \notin stray /\ new.type # "todo" => Once(ix, i)
    PROVE  ListedOnce'
<1>1. data' = [data EXCEPT ![i] = new]
  BY DEF Announce, With
<1>2. Notifies(i) => /\ index' = ix
                     /\ stray' = IF kept THEN stray ELSE stray \cup ({i, j, k} \cap Live)
  BY DEF Announce
<1>3. ~Notifies(i) => UNCHANGED <<index, stray>>
  BY DEF Announce
<1>4. ASSUME NEW m \in Incidence, m \notin stray', data'[m].type # "todo", NEW d \in Date
      PROVE  index'[m][d] <= 1
  <2>1. m \notin stray /\ data[m].type # "todo" /\ (m = i => new.type # "todo")
    BY <1>1, <1>2, <1>3, <1>4 DEF IInv, TypeOK
  <2>2. index[m][d] <= 1
    BY <2>1 DEF ListedOnce, IsTodo
  <2>3. CASE ~Notifies(i)
    BY <1>3, <2>2, <2>3
  <2>4. CASE Notifies(i) /\ kept /\ m = i
    BY <1>2, <2>1, <2>4 DEF Once
  <2>5. CASE Notifies(i) /\ m \notin {j, k}
    BY <1>2, <2>2, <2>5
  <2>6. CASE Notifies(i) /\ ~kept /\ m \in {j, k}
    BY <1>2, <1>4, <2>6
  <2> QED BY <2>3, <2>4, <2>5, <2>6
<1> QED BY <1>4 DEF ListedOnce, IsTodo

\* A pair of calls around a change.
LEMMA ChangeOnce ==
    ASSUME IInv, ListedOnce, NEW i \in Incidence,
           NEW at \in Fields, NEW told \in Fields, NEW new \in Fields,
           new.type = data[i].type, Change(i, at, told, new)
    PROVE  ListedOnce'
<1> DEFINE D0 == With(i, at)
           D1 == With(i, told)
           ix1 == OnUpdate(index, D0, i)
           ix2 == OnUpdated(ix1, D1, i)
           kept == KeepsTrack(i, at, told, new)
<1>1. index \in Index /\ data \in [Incidence -> Fields]
  BY DEF IInv, TypeOK, Index
<1>2. /\ D0 \in [Incidence -> Fields] /\ D0[i] = at
      /\ D1 \in [Incidence -> Fields] /\ D1[i] = told
  BY <1>1, WithType
<1>3. Announce(i, new, ix2, Find(D0, i), Find(D1, i), kept)
  BY DEF Change
<1>4. kept \in BOOLEAN
  BY DEF KeepsTrack
<1>5. kept => /\ Find(D0, i) = i /\ Find(D1, i) = i
              /\ Hash(data[i]) \in {NoDate, Hash(at)}
  BY DEF KeepsTrack
<1> HIDE DEF D0, D1, kept
<1>6. /\ ix1 \in Index
      /\ \A m \in Incidence \ {Find(D0, i)} : ix1[m] = index[m]
      /\ Find(D0, i) = i => \A d \in Date : ix1[i][d] = IF d = Hash(at) THEN 0 ELSE index[i][d]
  <2>1. /\ ix1 \in Index
        /\ \A m \in Incidence \ {Find(D0, i)} : ix1[m] = index[m]
        /\ Find(D0, i) = i =>
             \A d \in Date : ix1[i][d] = IF d = Hash(D0[i]) THEN 0 ELSE index[i][d]
    BY <1>1, <1>2, OnUpdateEffect, Zenon
  <2> QED BY <1>2, <2>1
<1> HIDE DEF ix1
<1>7. /\ ix2 \in Index
      /\ \A m \in Incidence \ {Find(D1, i)} : ix2[m] = ix1[m]
  BY <1>2, <1>6, OnUpdatedEffect
<1>8. kept /\ i \notin stray => Once(ix2, i)
  <2> SUFFICES ASSUME kept, i \notin stray PROVE Once(ix2, i)
    OBVIOUS
  <2>1. ASSUME NEW d \in Date PROVE ix1[i][d] = 0
    <3>1. d # NoDate
      BY ConstantsAssumption
    <3> QED BY <3>1, <1>5, <1>6, FiledUnderItsDay
  <2> QED BY <2>1, <1>2, <1>5, <1>6, OnUpdatedOnce DEF Unfiled
<1> HIDE DEF ix2
<1>9. /\ Find(D0, i) \in Incidence => Find(D0, i) \in Live
      /\ Find(D1, i) \in Incidence => Find(D1, i) \in Live
  BY <1>2, FindHeld DEF Live, Fields
<1>10. \A m \in Incidence \ {Find(D0, i), Find(D1, i)} : ix2[m] = index[m]
  BY <1>6, <1>7
<1>11. kept => Find(D0, i) = i /\ Find(D1, i) = i
  BY <1>5
<1> HIDE DEF IInv, ListedOnce
<1> QED BY <1>3, <1>4, <1>7, <1>8, <1>9, <1>10, <1>11, AnnounceOnce

\* The three shapes of a change.
LEMMA ShapesOnce ==
    ASSUME IInv, ListedOnce, NEW i \in Incidence, NEW new \in Fields,
           new.type = data[i].type, Setter(i, new) \/ Late(i, new) \/ Silent(i, new)
    PROVE  ListedOnce'
<1>1. data[i] \in Fields
  BY DEF IInv, TypeOK
<1>2. CASE Setter(i, new)
  BY <1>1, <1>2, ChangeOnce DEF Setter
<1>3. CASE Late(i, new)
  BY <1>3, ChangeOnce DEF Late
<1>4. CASE Silent(i, new)
  <2>1. /\ data' = [data EXCEPT ![i] = new] /\ index' = index
        /\ stray \subseteq stray'
    BY <1>4 DEF Silent, With
  <2>2. \A m \in Incidence : data'[m].type = data[m].type
    BY <2>1 DEF IInv, TypeOK
  <2> QED BY <2>1, <2>2 DEF ListedOnce, IsTodo
<1> QED BY <1>2, <1>3, <1>4

\* Completing a recurring to-do files nothing but to-dos twice.
LEMMA TodoCompleteOnce ==
    ASSUME IInv, ListedOnce, NEW i \in Incidence, NEW e \in Date, TodoComplete(i, e)
    PROVE  ListedOnce'
<1> DEFINE new == [data[i] EXCEPT !.dtRec = e]
           after == With(i, new)
           x1 == OnUpdate(index, data, i)
           x2 == OnUpdate(x1, after, i)
           x3 == OnUpdated(x2, after, i)
           x4 == OnUpdated(x3, after, i)
           j == Find(data, i)
           k == Find(after, i)
<1>1. index \in Index /\ data \in [Incidence -> Fields]
  BY DEF IInv, TypeOK, Index
<1>2. new \in Fields /\ new.type = data[i].type /\ new.type = "todo"
  BY <1>1 DEF Fields, OptDate, TodoComplete, IsTodo
<1> HIDE DEF new
<1>3. after \in [Incidence -> Fields] /\ after[i] = new
  BY <1>1, <1>2, WithType
<1>4. Announce(i, new, x4, j, k, j = i /\ k = i)
  BY DEF TodoComplete, new, after, x1, x2, x3, x4, j, k
<1> HIDE DEF after
<1>5. x1 \in Index /\ \A m \in Incidence \ {j} : x1[m] = index[m]
  BY <1>1, OnUpdateEffect
<1> HIDE DEF x1
<1>6. x2 \in Index /\ \A m \in Incidence \ {k} : x2[m] = x1[m]
  BY <1>3, <1>5, OnUpdateEffect
<1> HIDE DEF x2
<1>7. x3 \in Index /\ \A m \in Incidence \ {k} : x3[m] = x2[m]
  BY <1>3, <1>6, OnUpdatedEffect
<1> HIDE DEF x3
<1>8. x4 \in Index /\ \A m \in Incidence \ {k} : x4[m] = x3[m]
  BY <1>3, <1>7, OnUpdatedEffect
<1> HIDE DEF x4
<1>9. (j \in Incidence => j \in Live) /\ (k \in Incidence => k \in Live)
  BY <1>1, <1>2, <1>3, FindHeld DEF Live, Fields
<1> HIDE DEF j, k
<1>10. \A m \in Incidence \ {j, k} : x4[m] = index[m]
  BY <1>5, <1>6, <1>7, <1>8
<1>11. (j = i /\ k = i) \in BOOLEAN
  OBVIOUS
<1> HIDE DEF IInv, ListedOnce
<1> QED BY <1>2, <1>4, <1>8, <1>9, <1>10, <1>11, AnnounceOnce

\* The second announcement of a new recurrence type finds the entry the first
\* one made.
LEMMA SetNewRecurrenceOnce ==
    ASSUME IInv, ListedOnce, NEW i \in Incidence, SetNewRecurrence(i)
    PROVE  ListedOnce'
<1> DEFINE cl == [data[i] EXCEPT !.recurs = FALSE]
           new == [data[i] EXCEPT !.recurs = TRUE]
           C == With(i, cl)
           N == With(i, new)
           x1 == OnUpdate(index, C, i)
           x2 == OnUpdated(x1, C, i)
           x3 == OnUpdate(x2, N, i)
           x4 == OnUpdated(x3, N, i)
           j == Find(C, i)
           k == Find(N, i)
           kept == /\ j = i /\ k = i
                   /\ Hash(data[i]) \in {NoDate, Hash(cl), Hash(new)}
                   /\ Hash(cl) \in {NoDate, Hash(new)}
<1>1. index \in Index /\ data \in [Incidence -> Fields]
  BY DEF IInv, TypeOK, Index
<1>2. cl \in Fields /\ new \in Fields /\ new.type = data[i].type
  BY <1>1 DEF Fields
<1> HIDE DEF cl, new
<1>3. /\ C \in [Incidence -> Fields] /\ C[i] = cl
      /\ N \in [Incidence -> Fields] /\ N[i] = new
  BY <1>1, <1>2, WithType
<1>4. Announce(i, new, x4, j, k, kept)
  BY <1>3 DEF SetNewRecurrence, cl, new
<1> HIDE DEF C, N
<1>5. /\ x1 \in Index
      /\ \A m \in Incidence \ {j} : x1[m] = index[m]
      /\ j = i => \A d \in Date : x1[i][d] = IF d = Hash(cl) THEN 0 ELSE index[i][d]
  BY <1>1, <1>3, OnUpdateEffect
<1> HIDE DEF x1
<1>6. /\ x2 \in Index
      /\ \A m \in Incidence \ {j} : x2[m] = x1[m]
      /\ j = i => \A d \in Date : x2[i][d] > 0 <=> (d = Hash(cl) \/ x1[i][d] > 0)
  BY <1>3, <1>5, OnUpdatedEffect
<1> HIDE DEF x2
<1>7. /\ x3 \in Index
      /\ \A m \in Incidence \ {k} : x3[m] = x2[m]
      /\ k = i => \A d \in Date : x3[i][d] = IF d = Hash(new) THEN 0 ELSE x2[i][d]
  BY <1>3, <1>6, OnUpdateEffect
<1> HIDE DEF x3
<1>8. k = i /\ Unfiled(x3, i) => Once(x4, i)
  BY <1>3, <1>7, OnUpdatedOnce
<1>9. x4 \in Index /\ \A m \in Incidence \ {k} : x4[m] = x3[m]
  BY <1>3, <1>7, OnUpdatedEffect
<1> HIDE DEF x4
<1>10. (j \in Incidence => j \in Live) /\ (k \in Incidence => k \in Live)
  BY <1>2, <1>3, FindHeld DEF Live, Fields
<1> HIDE DEF j, k
<1>11. ASSUME kept, i \notin stray
       PROVE  Once(x4, i)
  <2>1. ASSUME NEW d \in Date PROVE x3[i][d] = 0
    <3>1. d # Hash(data[i]) => index[i][d] = 0
      BY <1>11, FiledUnderItsDay
    <3>2. /\ index[i][d] \in 0 .. MaxCopies /\ x1[i][d] \in 0 .. MaxCopies
          /\ x2[i][d] \in 0 .. MaxCopies /\ d # NoDate
      BY <1>1, <1>5, <1>6, ConstantsAssumption DEF Index
    <3>3. x2[i][d] > 0 => d = Hash(cl) \/ d = Hash(new)
      BY <3>1, <3>2, <1>5, <1>6, <1>11, ConstantsAssumption
    <3>4. d # Hash(new) => x2[i][d] = 0
      BY <3>2, <3>3, <1>11, ConstantsAssumption
    <3> QED BY <3>4, <1>7, <1>11
  <2> QED BY <2>1, <1>8, <1>11 DEF Unfiled
<1>12. \A m \in Incidence \ {j, k} : x4[m] = index[m]
  BY <1>5, <1>6, <1>7, <1>9
<1>13. kept \in BOOLEAN /\ (kept => j = i /\ k = i)
  OBVIOUS
<1> HIDE DEF IInv, ListedOnce, kept
<1> QED BY <1>2, <1>4, <1>9, <1>10, <1>11, <1>12, <1>13, AnnounceOnce

----------------------------------------------------------------------------
(* Steps and copies                                                        *)

\* The type of an incidence never changes, and one that is listed once stays so
\* if its entries only go.
LEMMA FewerOnce ==
    ASSUME ListedOnce, NEW m \in Incidence, m \notin stray, ~IsTodo(m), NEW d \in Date,
           index'[m][d] = index[m][d] \/ index'[m][d] = 0
    PROVE  index'[m][d] <= 1
BY DEF ListedOnce

LEMMA IdentifyOnce ==
    ASSUME IInv, ListedOnce, NEW i \in Incidence, SetOther(i) \/ Identify(i)
    PROVE  ListedOnce'
<1>1. \A m \in Incidence : data[m] \in Fields
  BY DEF IInv, TypeOK
<1>2. ASSUME NEW new \in Fields, new.type = data[i].type, Setter(i, new)
      PROVE  ListedOnce'
  BY <1>2, ShapesOnce
<1>3. CASE SetOther(i)
  BY <1>1, <1>2, <1>3 DEF SetOther
<1>4. CASE \E u \in Uid : SetUid(i, u)
  <2>1. PICK u \in Uid : SetUid(i, u)
    BY <1>4
  <2> DEFINE new == [data[i] EXCEPT !.uid = u]
  <2>2. new \in Fields /\ new.type = data[i].type /\ Setter(i, new)
    BY <1>1, <2>1 DEF Fields, SetUid
  <2> QED BY <2>2, <1>2
<1>5. CASE \E r \in RecurrenceId \cup {NoRid} : SetRecurrenceId(i, r)
  <2>1. PICK r \in RecurrenceId \cup {NoRid} : SetRecurrenceId(i, r)
    BY <1>5
  <2> DEFINE new == [data[i] EXCEPT !.rid = r]
  <2>2. new \in Fields /\ new.type = data[i].type /\ Setter(i, new)
    BY <1>1, <2>1 DEF Fields, SetRecurrenceId
  <2> QED BY <2>2, <1>2
<1>6. CASE \E j \in Incidence : Assign(i, j)
  BY <1>1, <1>2, <1>6 DEF Assign
<1> QED BY <1>3, <1>4, <1>5, <1>6 DEF Identify

LEMMA ChangeEventOnce ==
    ASSUME IInv, ListedOnce, NEW i \in Incidence, ChangeEvent(i)
    PROVE  ListedOnce'
<1>1. data[i] \in Fields
  BY DEF IInv, TypeOK
<1>2. ASSUME NEW d \in OptDate, EventSetDtStart(i, d)
      PROVE  ListedOnce'
  <2> DEFINE at == [data[i] EXCEPT !.cache = "unset"]
             new == [at EXCEPT !.start = d]
  <2>1. at \in Fields /\ new \in Fields /\ new.type = data[i].type
    BY <1>1 DEF Fields
  <2>2. Change(i, at, new, new)
    BY <1>2 DEF EventSetDtStart
  <2> HIDE DEF at, new
  <2> QED BY <2>1, <2>2, ChangeOnce
<1>3. ASSUME NEW d \in OptDate, EventSetDtEnd(i, d)
      PROVE  ListedOnce'
  <2> DEFINE new == [data[i] EXCEPT !.end = d, !.hasEnd = TRUE, !.dur = "none",
                                    !.cache = "unset"]
  <2>1. new \in Fields /\ new.type = data[i].type /\ Setter(i, new)
    BY <1>1, <1>3 DEF Fields, EventSetDtEnd
  <2> HIDE DEF new
  <2> QED BY <2>1, ShapesOnce
<1>4. ASSUME NEW dur \in {"short", "long"}, EventSetDuration(i, dur)
      PROVE  ListedOnce'
  <2> DEFINE at == [data[i] EXCEPT !.hasEnd = FALSE]
             new == [at EXCEPT !.dur = dur]
  <2>1. at \in Fields /\ new \in Fields /\ new.type = data[i].type
    BY <1>1 DEF Fields
  <2>2. Change(i, at, new, new)
    BY <1>4 DEF EventSetDuration
  <2> HIDE DEF at, new
  <2> QED BY <2>1, <2>2, ChangeOnce
<1>5. ASSUME NEW b \in BOOLEAN, EventSetHasEndDate(i, b)
      PROVE  ListedOnce'
  <2> DEFINE new == [data[i] EXCEPT !.hasEnd = b]
  <2>1. new \in Fields /\ new.type = data[i].type /\ Silent(i, new)
    BY <1>1, <1>5 DEF Fields, EventSetHasEndDate
  <2> HIDE DEF new
  <2> QED BY <2>1, ShapesOnce
<1>6. ASSUME NEW answer \in {"single", "multi"}, EventIsMultiDayIn(i, answer)
      PROVE  ListedOnce'
  <2>1. /\ index' = index /\ stray \subseteq stray'
        /\ data' = [data EXCEPT ![i] = [data[i] EXCEPT !.cache = answer]]
    BY <1>6 DEF EventIsMultiDayIn, With
  <2>2. \A m \in Incidence : data'[m].type = data[m].type
    BY <1>1, <2>1 DEF IInv, TypeOK, Fields
  <2> QED BY <2>1, <2>2 DEF ListedOnce, IsTodo
<1>7. ASSUME NEW start \in Date, NEW finish \in Date, EventShiftTimes(i, start, finish)
      PROVE  ListedOnce'
  <2> DEFINE told == [data[i] EXCEPT !.start = start]
             new == IF data[i].hasEnd THEN [told EXCEPT !.end = finish] ELSE told
  <2>1. told \in Fields /\ new \in Fields /\ new.type = data[i].type
    BY <1>1 DEF Fields, OptDate
  <2>2. Change(i, data[i], told, new)
    BY <1>7 DEF EventShiftTimes
  <2> HIDE DEF told, new
  <2> QED BY <1>1, <2>1, <2>2, ChangeOnce
<1> QED BY <1>2, <1>3, <1>4, <1>5, <1>6, <1>7 DEF ChangeEvent

LEMMA ChangeTodoOnce ==
    ASSUME IInv, ListedOnce, NEW i \in Incidence, ChangeTodo(i)
    PROVE  ListedOnce'
<1>1. data[i] \in Fields
  BY DEF IInv, TypeOK
<1>2. ASSUME NEW d \in OptDate, NEW first \in BOOLEAN, TodoSetDtDue(i, d, first)
      PROVE  ListedOnce'
  <2> DEFINE new == IF data[i].recurs /\ ~first
                    THEN [data[i] EXCEPT !.hasDue = (d # NoDate), !.dtRec = d]
                    ELSE [data[i] EXCEPT !.hasDue = (d # NoDate), !.due = d]
  <2>1. new \in Fields /\ new.type = data[i].type
    BY <1>1 DEF Fields
  <2>2. Setter(i, new)
    BY <1>2 DEF TodoSetDtDue
  <2> HIDE DEF new
  <2> QED BY <2>1, <2>2, ShapesOnce
<1>3. ASSUME NEW b \in BOOLEAN, TodoSetHasDueDate(i, b)
      PROVE  ListedOnce'
  <2> DEFINE new == [data[i] EXCEPT !.hasDue = b]
  <2>1. new \in Fields /\ new.type = data[i].type /\ Setter(i, new)
    BY <1>1, <1>3 DEF Fields, TodoSetHasDueDate
  <2> HIDE DEF new
  <2> QED BY <2>1, ShapesOnce
<1>4. ASSUME NEW d \in OptDate, TodoSetDtRecurrence(i, d)
      PROVE  ListedOnce'
  <2> DEFINE new == [data[i] EXCEPT !.dtRec = d]
  <2>1. new \in Fields /\ new.type = data[i].type /\ Silent(i, new)
    BY <1>1, <1>4 DEF Fields, TodoSetDtRecurrence
  <2> HIDE DEF new
  <2> QED BY <2>1, ShapesOnce
<1>5. ASSUME NEW due \in Date, NEW rec \in OptDate, TodoShiftTimes(i, due, rec)
      PROVE  ListedOnce'
  <2> DEFINE new == [data[i] EXCEPT !.due = due,
                                    !.dtRec = IF data[i].recurs THEN rec ELSE @]
  <2>1. new \in Fields /\ new.type = data[i].type
    BY <1>1 DEF Fields, OptDate
  <2>2. Change(i, data[i], data[i], new)
    BY <1>5 DEF TodoShiftTimes
  <2> HIDE DEF new
  <2> QED BY <1>1, <2>1, <2>2, ChangeOnce
<1>6. (\E d \in Date : TodoComplete(i, d)) => ListedOnce'
  BY TodoCompleteOnce
<1> QED BY <1>2, <1>3, <1>4, <1>5, <1>6 DEF ChangeTodo

LEMMA ChangeRecurrenceOnce ==
    ASSUME IInv, ListedOnce, NEW i \in Incidence, ChangeRecurrence(i)
    PROVE  ListedOnce'
<1>1. \A b \in BOOLEAN : /\ [data[i] EXCEPT !.recurs = b] \in Fields
                         /\ [data[i] EXCEPT !.recurs = b].type = data[i].type
  <2>1. \A x \in Fields, b \in BOOLEAN : /\ [x EXCEPT !.recurs = b] \in Fields
                                        /\ [x EXCEPT !.recurs = b].type = x.type
    BY DEF Fields
  <2>2. data[i] \in Fields
    BY DEF IInv, TypeOK
  <2> QED BY <2>1, <2>2
<1>2. CASE StopRecurring(i) \/ AddRecurrence(i) \/ ClearRecurrence(i)
  BY <1>1, <1>2, ShapesOnce DEF StopRecurring, AddRecurrence, ClearRecurrence
<1> QED BY <1>2, SetNewRecurrenceOnce DEF ChangeRecurrence

LEMMA JournalOnce ==
    ASSUME IInv, ListedOnce, NEW i \in Incidence, NEW d \in OptDate, JournalSetDtStart(i, d)
    PROVE  ListedOnce'
<1> DEFINE new == [data[i] EXCEPT !.start = d]
<1>1. new \in Fields /\ new.type = data[i].type /\ Setter(i, new)
  <2>1. data[i] \in Fields
    BY DEF IInv, TypeOK
  <2>2. new \in Fields /\ new.type = data[i].type
    BY <2>1 DEF Fields
  <2> QED BY <2>2 DEF JournalSetDtStart
<1> HIDE DEF new
<1> QED BY <1>1, ShapesOnce

\* Opening a group only takes entries out.
LEMMA StartUpdatesOnce ==
    ASSUME IInv, ListedOnce, NEW i \in Incidence, StartUpdates(i)
    PROVE  ListedOnce'
<1> DEFINE j == Find(data, i)
<1>1. index \in Index /\ data \in [Incidence -> Fields]
  BY DEF IInv, TypeOK, Index
<1>2. /\ data' = data
      /\ IF Notifies(i)
         THEN /\ index' = OnUpdate(index, data, i)
              /\ stray' = IF j = i THEN stray ELSE stray \cup ({i, j} \cap Live)
         ELSE index' = index /\ stray' = stray
  BY DEF StartUpdates
<1>3. /\ \A m \in Incidence \ {j} : OnUpdate(index, data, i)[m] = index[m]
      /\ j = i => \A d \in Date : OnUpdate(index, data, i)[i][d] =
                                    IF d = Hash(data[i]) THEN 0 ELSE index[i][d]
  BY <1>1, OnUpdateEffect
<1>4. j \in Incidence => j \in Live
  BY <1>1, FindHeld DEF Live, Fields
<1> HIDE DEF j
<1>5. ASSUME NEW m \in Incidence, m \notin stray', ~IsTodo(m), NEW d \in Date
      PROVE  index'[m][d] <= 1
  <2>1. m \notin stray
    BY <1>2, <1>5
  <2>2. index'[m][d] = index[m][d] \/ index'[m][d] = 0
    BY <1>2, <1>3, <1>4, <1>5
  <2> QED BY <2>1, <2>2, <1>5, FewerOnce
<1> QED BY <1>2, <1>5 DEF ListedOnce, IsTodo

\* Closing the outermost group files an incidence that is filed nowhere.
LEMMA EndUpdatesOnce ==
    ASSUME IInv, ListedOnce, NEW i \in Incidence, EndUpdates(i)
    PROVE  ListedOnce'
<1> DEFINE j == Find(data, i)
           told == level[i] = 1 /\ pending[i] /\ i \in observed
<1>1. index \in Index /\ data \in [Incidence -> Fields]
  BY DEF IInv, TypeOK, Index
<1>2. /\ data' = data /\ level[i] > 0
      /\ IF told
         THEN /\ index' = OnUpdated(index, data, i)
              /\ stray' = IF j = i THEN stray ELSE stray \cup ({i, j} \cap Live)
         ELSE index' = index /\ stray' = stray
  BY DEF EndUpdates
<1>3. /\ \A m \in Incidence \ {j} : OnUpdated(index, data, i)[m] = index[m]
      /\ j = i /\ Unfiled(index, i) => Once(OnUpdated(index, data, i), i)
  BY <1>1, OnUpdatedEffect, OnUpdatedOnce
<1>4. j \in Incidence => j \in Live
  BY <1>1, FindHeld DEF Live, Fields
<1> HIDE DEF j
<1>5. i \notin stray => Unfiled(index, i)
  BY <1>2, FiledUnderItsDay DEF Unfiled
<1> HIDE DEF told
<1>6. ASSUME NEW m \in Incidence, m \notin stray', ~IsTodo(m), NEW d \in Date
      PROVE  index'[m][d] <= 1
  <2>1. m \notin stray
    BY <1>2, <1>6
  <2>2. CASE told /\ j = i /\ m = i
    BY <2>1, <2>2, <1>2, <1>3, <1>5 DEF Once
  <2>3. CASE ~(told /\ j = i /\ m = i)
    <3>1. index'[m][d] = index[m][d]
      BY <2>3, <1>2, <1>3, <1>4, <1>6
    <3> QED BY <3>1, <2>1, <1>6, FewerOnce
  <2> QED BY <2>2, <2>3
<1> QED BY <1>2, <1>6 DEF ListedOnce, IsTodo

\* What is new in the calendar was filed nowhere.
LEMMA AddIncidenceOnce ==
    ASSUME IInv, ListedOnce, NEW i \in Incidence, AddIncidence(i)
    PROVE  ListedOnce'
<1>1. data' = data
  BY DEF AddIncidence
<1>2. CASE Key(i) \in held
  BY <1>1, <1>2 DEF AddIncidence, InsertIncidence, ListedOnce, IsTodo
<1>3. CASE Key(i) \notin held
  <2>1. /\ index' = File(index, i, Hash(data[i]))
        /\ stray' = IF level[i] = 0 THEN stray ELSE stray \cup {i}
    BY <1>3 DEF AddIncidence, InsertIncidence
  <2>2. index \in Index /\ Hash(data[i]) \in OptDate /\ data[i].uid \in Uid
    BY HashType DEF IInv, TypeOK, Index, Fields
  <2>3. ASSUME i \notin stray'
        PROVE  Once(index', i)
    <3>1. i \notin stray /\ level[i] = 0
      BY <2>1, <2>3
    <3>2. i \notin Live
      BY <1>3, <2>2, <3>1 DEF IInv, KeyCurrent, Key
    <3>3. Unfiled(index, i)
      BY <3>1, <3>2, FiledUnderItsDay DEF Unfiled
    <3> QED BY <2>1, <2>2, <3>3, FileOnce
  <2>4. ASSUME NEW m \in Incidence, m \notin stray', ~IsTodo(m), NEW d \in Date
        PROVE  index'[m][d] <= 1
    <3>1. CASE m = i
      BY <2>3, <2>4, <3>1 DEF Once
    <3>2. CASE m # i
      <4>1. index'[m] = index[m] /\ m \notin stray
        BY <2>1, <2>2, <2>4, <3>2, FileOthers
      <4> QED BY <4>1, <2>4, FewerOnce
    <3> QED BY <3>1, <3>2
  <2> QED BY <1>1, <2>4 DEF ListedOnce, IsTodo
<1> QED BY <1>2, <1>3

\* Removals only take entries out, and what they forget they file nowhere.
LEMMA RemovalsOnce ==
    ASSUME IInv, ListedOnce
    PROVE  /\ \A i \in Incidence : DeleteIncidence(i) => ListedOnce'
           /\ \A T : Wipe(T) => ListedOnce'
<1>1. ASSUME NEW i \in Incidence, DeleteIncidence(i)
      PROVE  ListedOnce'
  <2>1. data' = data /\ stray' = stray
    BY <1>1 DEF DeleteIncidence
  <2>2. \A m \in Incidence, d \in Date : index'[m][d] = index[m][d] \/ index'[m][d] = 0
    BY <1>1 DEF DeleteIncidence
  <2> QED BY <2>1, <2>2, FewerOnce DEF ListedOnce, IsTodo
<1>2. ASSUME NEW T, Wipe(T)
      PROVE  ListedOnce'
  <2>1. data' = data /\ stray' = {m \in stray \cup Misfiled(T) : data[m].type \notin T}
    BY <1>2 DEF Wipe
  <2>2. ASSUME NEW m \in Incidence, NEW d \in Date
        PROVE  /\ data[m].type \in T => index'[m][d] = 0
               /\ index'[m][d] = index[m][d] \/ index'[m][d] = 0
    BY <1>2 DEF Wipe, Empty
  <2>3. ASSUME NEW m \in Incidence, m \notin stray', ~IsTodo(m), NEW d \in Date
        PROVE  index'[m][d] <= 1
    <3>1. CASE data[m].type \in T
      <4>1. index'[m][d] = 0
        BY <2>2, <3>1
      <4> QED BY <4>1
    <3>2. CASE data[m].type \notin T
      <4>1. m \notin stray
        BY <2>1, <2>3, <3>2
      <4> QED BY <4>1, <2>2, <2>3, FewerOnce
    <3> QED BY <3>1, <3>2
  <2> QED BY <2>1, <2>3 DEF ListedOnce, IsTodo
<1> QED BY <1>1, <1>2

LEMMA OnceStep ==
    ASSUME IInv, ListedOnce, [Next]_vars
    PROVE  ListedOnce'
<1>1. ASSUME NEW i \in Incidence, IncidenceNext(i)
      PROVE  ListedOnce'
  BY <1>1, IdentifyOnce, ChangeEventOnce, JournalOnce, ChangeTodoOnce, ChangeRecurrenceOnce,
     StartUpdatesOnce, EndUpdatesOnce DEF IncidenceNext
<1>2. ASSUME NEW i \in Incidence, AddIncidence(i) \/ DeleteIncidence(i)
      PROVE  ListedOnce'
  BY <1>2, AddIncidenceOnce, RemovalsOnce
<1>3. (\E t \in Types : DeleteAll(t)) \/ Close => ListedOnce'
  BY RemovalsOnce DEF DeleteAll, Close
<1>4. Save \/ UNCHANGED vars => ListedOnce'
  BY DEF Save, vars, ListedOnce, IsTodo
<1> QED BY <1>1, <1>2, <1>3, <1>4 DEF Next

(***************************************************************************)
(* An event or a journal is filed at most once under a day, whatever       *)
(* update(), updated(), groups, additions and deletions follow each other  *)
(* (incidenceUpdate, incidenceUpdated, insertIncidence).                   *)
(***************************************************************************)
THEOREM DaysListOnce == Spec => []ListedOnce
<1>1. Init => ListedOnce
  BY DEF Init, ListedOnce, Empty
<1>2. IInv /\ ListedOnce /\ [Next]_vars => ListedOnce'
  BY OnceStep
<1> QED BY <1>1, <1>2, Invariance, PTL DEF Spec
=============================================================================
