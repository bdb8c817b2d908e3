-------------------------- MODULE NotebooksProofs --------------------------
(***************************************************************************)
(* The associations of Notebooks agree with each other for any number of   *)
(* uids, exceptions, objects and notebooks.                                *)
(***************************************************************************)
EXTENDS Notebooks, TLAPS

IInv == TypeOK /\ OneNotebook /\ ObserversKnow /\ HiddenByNotebook

LEMMA InitInv == Init => IInv
<1> SUFFICES ASSUME Init PROVE IInv
  OBVIOUS
<1>1. TypeOK
  BY DEF Init, TypeOK, Name
<1>2. OneNotebook /\ ObserversKnow
  BY DEF Init, OneNotebook, ObserversKnow
<1>3. HiddenByNotebook
  BY DEF Init, HiddenByNotebook
<1> QED BY <1>1, <1>2, <1>3 DEF IInv

\* The fields of an incidence.
LEMMA IncidenceFields ==
    ASSUME NEW i \in Incidence
    PROVE  i.uid \in Uid
BY DEF Incidence

\* A move takes the pairs of i and its exceptions out of the old notebook only.
LEMMA MoveEffect ==
    ASSUME TypeOK, NEW i \in Incidence, NEW old \in Name, NEW new \in Name, old # new
    PROVE  /\ Instances(i) \subseteq Incidence
           /\ \A e \in Instances(i) : e.uid = i.uid /\ IsException(e)
           /\ Move(i, old, new) \subseteq Name \X Incidence
           /\ \A m \in Name, j \in Incidence :
                 <<m, j>> \in Move(i, old, new) <=>
                     \/ <<m, j>> \in listed /\ ~(m = old /\ j \in Instances(i) \cup {i})
                     \/ m = new /\ j \in Instances(i)
<1>1. Instances(i) \subseteq Incidence /\ \A e \in Instances(i) : e.uid = i.uid /\ IsException(e)
  BY DEF Instances, TypeOK
<1>2. Move(i, old, new) \subseteq Name \X Incidence
  BY <1>1 DEF Move, TypeOK
<1>3. ASSUME NEW m \in Name, NEW j \in Incidence
      PROVE  <<m, j>> \in Move(i, old, new) <=>
                     \/ <<m, j>> \in listed /\ ~(m = old /\ j \in Instances(i) \cup {i})
                     \/ m = new /\ j \in Instances(i)
  BY DEF Move
<1> QED BY <1>1, <1>2, <1>3

(***************************************************************************)
(* setNotebook( i, n ): everything of the uid that is still listed under   *)
(* its old notebook is left behind.                                        *)
(***************************************************************************)
LEMMA SetNotebookInv ==
    ASSUME IInv, NEW i \in Incidence, NEW n \in Notebook, SetNotebook(i, n)
    PROVE  IInv'
<1> DEFINE old == notebookOf[i.uid]
<1>1. /\ IsElsewhere(i, n) => ~IsException(i)
      /\ notebookOf' = [notebookOf EXCEPT ![i.uid] = n]
      /\ listed' = {<<n, i>>} \cup (IF IsElsewhere(i, n) THEN Move(i, old, n) ELSE listed)
      /\ left' = IF IsElsewhere(i, n) THEN left \cup LeftBehind(i, old) ELSE left
      /\ seen' = [seen EXCEPT ![i] = n]
      /\ UNCHANGED <<live, notebooks, default, cached>>
  BY DEF SetNotebook, Heard
<1>2. /\ i.uid \in Uid /\ old \in Name /\ n \in Name /\ n # NoNotebook
      /\ IsElsewhere(i, n) => old # n /\ old # NoNotebook
      /\ ~IsElsewhere(i, n) => old = n \/ old = NoNotebook
  BY IncidenceFields, NotebooksAssumption DEF IInv, TypeOK, Name, IsElsewhere
<1>3. TypeOK'
  <2>1. listed' \subseteq Name \X Incidence
    BY <1>1, <1>2, MoveEffect DEF IInv, TypeOK
  <2>2. left' \subseteq Incidence
    BY <1>1 DEF IInv, TypeOK, LeftBehind
  <2>3. notebookOf' \in [Uid -> Name] /\ seen' \in [Incidence -> Name]
    BY <1>1, <1>2 DEF IInv, TypeOK
  <2> QED BY <1>1, <2>1, <2>2, <2>3 DEF IInv, TypeOK
<1>4. \A u \in Uid : notebookOf'[u] = IF u = i.uid THEN n ELSE notebookOf[u]
  BY <1>1, <1>2 DEF IInv, TypeOK
<1>5. ASSUME NEW j \in Incidence, j \notin left', NEW m \in Notebook, <<m, j>> \in listed'
      PROVE  notebookOf'[j.uid] = m /\ (~IsException(j) => seen'[j] = m)
  <2>1. j.uid \in Uid /\ m \in Name /\ seen'[j] = IF j = i THEN n ELSE seen[j]
    BY <1>1, <1>5, IncidenceFields DEF Name, IInv, TypeOK
  <2>2. j \notin left
    BY <1>1, <1>5
  <2>3. <<m, j>> \in listed =>
          notebookOf[j.uid] = m /\ (~IsException(j) => seen[j] = m)
    BY <2>2 DEF IInv, OneNotebook, ObserversKnow
  <2>4. CASE m = n /\ j = i
    BY <2>4, <2>1, <1>4
  <2>5. CASE ~(m = n /\ j = i) /\ ~IsElsewhere(i, n)
    <3>1. <<m, j>> \in listed
      BY <1>1, <1>5, <2>5
    <3>2. j.uid = i.uid => m = n
      BY <3>1, <2>3, <1>2, <2>5, NotebooksAssumption
    <3> QED BY <3>1, <3>2, <2>1, <2>3, <2>5, <1>4
  <2>6. CASE ~(m = n /\ j = i) /\ IsElsewhere(i, n)
    <3>1. <<m, j>> \in Move(i, old, n)
      BY <1>1, <1>5, <2>6
    <3>2. CASE m = n /\ j \in Instances(i)
      BY <3>2, <1>2, <1>4, <2>1, MoveEffect, <2>6 DEF IInv
    <3>3. CASE /\ <<m, j>> \in listed
               /\ ~(m = old /\ j \in Instances(i) \cup {i})
               /\ ~(m = n /\ j \in Instances(i))
      <4>1. notebookOf[j.uid] = m /\ (~IsException(j) => seen[j] = m)
        BY <3>3, <2>3
      <4>2. j.uid # i.uid
        <5>1. SUFFICES ASSUME j.uid = i.uid PROVE FALSE
          OBVIOUS
        <5>2. m = old
          BY <4>1, <5>1
        <5>3. j \in LeftBehind(i, old)
          BY <5>1, <5>2, <3>3 DEF LeftBehind
        <5> QED BY <5>3, <1>1, <1>5, <2>6
      <4> QED BY <4>1, <4>2, <1>4, <2>1
    <3> QED BY <3>1, <3>2, <3>3, <2>1, <1>2, MoveEffect, <2>6 DEF IInv
  <2> QED BY <2>4, <2>5, <2>6
<1>6. OneNotebook' /\ ObserversKnow'
  BY <1>5 DEF OneNotebook, ObserversKnow
<1>7. HiddenByNotebook'
  BY <1>1, <1>2, <1>4, IncidenceFields DEF IInv, HiddenByNotebook
<1> QED BY <1>3, <1>6, <1>7 DEF IInv

LEMMA UnsetNotebookInv ==
    ASSUME IInv, NEW i \in Incidence, UnsetNotebook(i)
    PROVE  IInv'
<1> DEFINE old == notebookOf[i.uid]
<1>1. /\ ~IsException(i)
      /\ listed' = Move(i, old, NoNotebook)
      /\ seen' = [seen EXCEPT ![i] = old]
      /\ UNCHANGED <<live, notebooks, default, notebookOf, cached, left>>
  BY DEF UnsetNotebook
<1>2. i.uid \in Uid /\ old \in Name /\ NoNotebook \in Name /\ old # NoNotebook
  BY IncidenceFields DEF IInv, TypeOK, Name, UnsetNotebook, IsElsewhere
<1>3. TypeOK'
  <2>1. listed' \subseteq Name \X Incidence
    BY <1>1, <1>2, MoveEffect DEF IInv
  <2>2. seen' \in [Incidence -> Name]
    BY <1>1, <1>2 DEF IInv, TypeOK
  <2> QED BY <1>1, <2>1, <2>2 DEF IInv, TypeOK
<1>4. ASSUME NEW j \in Incidence, NEW m \in Notebook, <<m, j>> \in listed'
      PROVE  <<m, j>> \in listed /\ (j = i => m # old)
  <2>1. m \in Name /\ m # NoNotebook
    BY NotebooksAssumption DEF Name
  <2> QED BY <1>1, <1>2, <1>4, <2>1, MoveEffect DEF IInv
<1>5. OneNotebook'
  BY <1>1, <1>4 DEF IInv, OneNotebook
<1>6. ObserversKnow'
  <2>1. ASSUME NEW j \in Incidence \ left, NEW m \in Notebook,
               <<m, j>> \in listed', ~IsException(j)
        PROVE  seen'[j] = m
    <3>1. j # i
      BY <1>4, <2>1 DEF IInv, OneNotebook
    <3>2. seen[j] = m
      BY <1>4, <2>1 DEF IInv, ObserversKnow
    <3> QED BY <3>1, <3>2, <1>1 DEF IInv, TypeOK
  <2> QED BY <2>1, <1>1 DEF ObserversKnow
<1>7. HiddenByNotebook'
  BY <1>1 DEF IInv, HiddenByNotebook
<1> QED BY <1>3, <1>5, <1>6, <1>7 DEF IInv

\* What is hidden is hidden by a notebook.
LEMMA IsVisibleInv ==
    ASSUME IInv, NEW i \in Incidence, IsVisible(i)
    PROVE  IInv'
<1>1. /\ cached' = [cached EXCEPT ![i] = Visibility(i)]
      /\ UNCHANGED <<live, notebooks, default, notebookOf, listed, seen, left>>
  BY DEF IsVisible
<1>2. i.uid \in Uid
  BY IncidenceFields
<1>3. /\ Visibility(i) \in {"visible", "hidden"}
      /\ Visibility(i) = "hidden" => notebookOf[i.uid] # NoNotebook
  <2>1. notebookOf[i.uid] # NoNotebook =>
           notebooks[notebookOf[i.uid]] \in {"unknown", "visible", "hidden"}
    BY <1>2 DEF IInv, TypeOK, Name
  <2> QED BY <2>1 DEF Visibility
<1>4. TypeOK'
  BY <1>1, <1>3 DEF IInv, TypeOK
<1>5. HiddenByNotebook'
  BY <1>1, <1>3 DEF IInv, TypeOK, HiddenByNotebook
<1>6. OneNotebook' /\ ObserversKnow'
  BY <1>1 DEF IInv, OneNotebook, ObserversKnow
<1> QED BY <1>4, <1>5, <1>6 DEF IInv

\* The operations that leave the associations alone.
LEMMA OthersInv ==
    ASSUME IInv,
           \/ \E n \in Notebook : NotebookNext(n)
           \/ \E i \in Incidence : AddIncidence(i) \/ DeleteIncidence(i)
           \/ UNCHANGED vars
    PROVE  IInv'
<1>1. /\ live' \subseteq Incidence
      /\ notebooks' \in [Notebook -> {"unknown", "visible", "hidden"}]
      /\ default' \in Name
      /\ UNCHANGED <<notebookOf, listed, cached, seen, left>>
  <2>1. CASE \E n \in Notebook : NotebookNext(n)
    BY <2>1 DEF IInv, TypeOK, Name, NotebookNext, AddNotebook, UpdateNotebook, DeleteNotebook,
                SetDefaultNotebook
  <2>2. CASE \E i \in Incidence : AddIncidence(i) \/ DeleteIncidence(i)
    BY <2>2 DEF IInv, TypeOK, AddIncidence, DeleteIncidence
  <2>3. CASE UNCHANGED vars
    BY <2>3 DEF IInv, TypeOK, vars
  <2> QED BY <2>1, <2>2, <2>3
<1> QED BY <1>1 DEF IInv, TypeOK, OneNotebook, ObserversKnow, HiddenByNotebook

LEMMA ChangeIncidenceInv ==
    ASSUME IInv, NEW i \in Incidence, ChangeIncidence(i)
    PROVE  IInv'
<1>1. /\ seen' = [seen EXCEPT ![i] = notebookOf[i.uid]]
      /\ UNCHANGED <<live, notebooks, default, notebookOf, listed, cached, left>>
  BY DEF ChangeIncidence
<1>2. notebookOf[i.uid] \in Name
  BY IncidenceFields DEF IInv, TypeOK
<1>3. TypeOK'
  BY <1>1, <1>2 DEF IInv, TypeOK
<1>4. ObserversKnow'
  BY <1>1 DEF IInv, TypeOK, OneNotebook, ObserversKnow
<1> QED BY <1>1, <1>3, <1>4 DEF IInv, OneNotebook, HiddenByNotebook

LEMMA ClearInv == IInv /\ ClearNotebookAssociations => IInv'
<1> SUFFICES ASSUME IInv, ClearNotebookAssociations PROVE IInv'
  OBVIOUS
<1>1. TypeOK'
  BY DEF IInv, TypeOK, Name, ClearNotebookAssociations
<1>2. OneNotebook' /\ ObserversKnow'
  BY DEF ClearNotebookAssociations, OneNotebook, ObserversKnow
<1>3. HiddenByNotebook'
  BY DEF ClearNotebookAssociations, HiddenByNotebook
<1> QED BY <1>1, <1>2, <1>3 DEF IInv

LEMMA NextInv == IInv /\ [Next]_vars => IInv'
BY SetNotebookInv, UnsetNotebookInv, IsVisibleInv, OthersInv, ChangeIncidenceInv, ClearInv
   DEF Next, IncidenceNext

\* Every variable keeps its type.
THEOREM TypeCorrect == Spec => []TypeOK
<1>1. IInv => TypeOK
  BY DEF IInv
<1> QED BY <1>1, InitInv, NextInv, PTL DEF Spec

\* incidences( n ) and notebook( i ) agree.
THEOREM NotebooksAgree == Spec => []OneNotebook
<1>1. IInv => OneNotebook
  BY DEF IInv
<1> QED BY <1>1, InitInv, NextInv, PTL DEF Spec

\* Observers told of a listed incidence read the notebook it is listed in.
THEOREM ObserversAreTold == Spec => []ObserversKnow
<1>1. IInv => ObserversKnow
  BY DEF IInv
<1> QED BY <1>1, InitInv, NextInv, PTL DEF Spec

(***************************************************************************)
(* A uid that changes notebooks takes the exceptions in the calendar along:*)
(* only setNotebook( i, n ) of the parent does that.                       *)
(***************************************************************************)
THEOREM ExceptionsMove == Spec => MovedTogether
<1>1. ASSUME IInv, [Next]_vars, NEW u \in Uid, NEW e \in live,
             notebookOf[u] # NoNotebook, notebookOf'[u] \notin {NoNotebook, notebookOf[u]},
             e.uid = u, IsException(e)
      PROVE  <<notebookOf'[u], e>> \in listed' /\ <<notebookOf[u], e>> \notin listed'
  <2>1. PICK i \in Incidence, n \in Notebook : SetNotebook(i, n)
    <3>1. notebookOf' # notebookOf /\ notebookOf' # [v \in Uid |-> NoNotebook]
      BY <1>1
    <3> QED BY <1>1, <3>1 DEF Next, vars, NotebookNext, AddNotebook, UpdateNotebook,
               DeleteNotebook, SetDefaultNotebook, ClearNotebookAssociations, IncidenceNext,
               UnsetNotebook, IsVisible, AddIncidence, DeleteIncidence, ChangeIncidence
  <2> DEFINE old == notebookOf[i.uid]
  <2>2. /\ notebookOf' = [notebookOf EXCEPT ![i.uid] = n]
        /\ listed' = {<<n, i>>} \cup (IF IsElsewhere(i, n) THEN Move(i, old, n) ELSE listed)
        /\ IsElsewhere(i, n) => ~IsException(i)
    BY <2>1 DEF SetNotebook
  <2>3. /\ i.uid = u /\ notebookOf'[u] = n /\ old # n
        /\ old \in Name /\ n \in Name
    BY <1>1, <2>2, IncidenceFields DEF IInv, TypeOK, Name
  <2>4. IsElsewhere(i, n) /\ e # i
    BY <1>1, <2>2, <2>3 DEF IsElsewhere
  <2>5. e \in Instances(i) /\ e \in Incidence
    BY <1>1, <2>3 DEF Instances, IInv, TypeOK
  <2>6. <<n, e>> \in Move(i, old, n) /\ <<old, e>> \notin Move(i, old, n)
    BY <1>1, <2>3, <2>5, MoveEffect DEF IInv
  <2> QED BY <2>2, <2>3, <2>4, <2>6
<1>2. IInv /\ [Next]_vars =>
        [\A u \in Uid : \A e \in live :
          (/\ notebookOf[u] # NoNotebook
           /\ notebookOf'[u] \notin {NoNotebook, notebookOf[u]}
           /\ e.uid = u /\ IsException(e))
          => <<notebookOf'[u], e>> \in listed' /\ <<notebookOf[u], e>> \notin listed']_vars
  BY <1>1
<1> QED BY <1>2, InitInv, NextInv, PTL DEF Spec, MovedTogether

\* A hidden incidence belongs to a notebook.
THEOREM HiddenHasNotebook == Spec => []HiddenByNotebook
<1>1. IInv => HiddenByNotebook
  BY DEF IInv
<1> QED BY <1>1, InitInv, NextInv, PTL DEF Spec

=============================================================================
