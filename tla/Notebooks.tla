----------------------------- MODULE Notebooks -----------------------------
(***************************************************************************)
(* The notebooks of a KCalCore::Calendar.                                  *)
(*                                                                         *)
(* A notebook is a name with a visibility.  The calendar associates a uid  *)
(* with a notebook (mUidToNotebook) and lists, per notebook, the incidence *)
(* objects put into it (mNotebookIncidences); the exceptions of a          *)
(* recurring incidence share its uid and move with it.  isVisible() caches *)
(* its answer per incidence.  Observers are told of the incidence whose    *)
(* notebook changes and read its notebook then.                            *)
(*                                                                         *)
(* An object may be deleted from the calendar and stay associated, be      *)
(* added again, or be replaced by another object with the same uid and     *)
(* recurrence-id.  One type of incidence is enough: the associations do    *)
(* not read the type, and instances() stays within it.                     *)
(***************************************************************************)
EXTENDS Integers

CONSTANTS
    Uid,
    RecurrenceId,
    NoRid,      \* the invalid recurrence-id of a non-exception
    Object,     \* tells apart objects with the same uid and recurrence-id
    Notebook,   \* notebook uids
    NoNotebook  \* the empty notebook uid

ASSUME NotebooksAssumption ==
    /\ NoRid \notin RecurrenceId
    /\ NoNotebook \notin Notebook

VARIABLES
    live,       \* incidences in the calendar
    notebooks,  \* mNotebooks: the visibility of the notebooks it knows
    default,    \* mDefaultNotebook
    notebookOf, \* mUidToNotebook
    listed,     \* mNotebookIncidences, as a set of pairs <<notebook, incidence>>
    cached,     \* mIncidenceVisibility
    seen,       \* what an observer read as notebook( i ) when last told of i
    left        \* history: incidences a move of their uid left behind

vars == <<live, notebooks, default, notebookOf, listed, cached, seen, left>>

Incidence == [uid : Uid, rid : RecurrenceId \cup {NoRid}, obj : Object]

Name == Notebook \cup {NoNotebook}

Init ==
    /\ live = {}
    /\ notebooks = [n \in Notebook |-> "unknown"]
    /\ default = NoNotebook
    /\ notebookOf = [u \in Uid |-> NoNotebook]
    /\ listed = {}
    /\ cached = [i \in Incidence |-> "unset"]
    /\ seen = [i \in Incidence |-> NoNotebook]
    /\ left = {}

----------------------------------------------------------------------------
(* The notebooks                                                           *)

AddNotebook(n, v) ==
    /\ notebooks[n] = "unknown"
    /\ notebooks' = [notebooks EXCEPT ![n] = v]
    /\ UNCHANGED <<live, default, notebookOf, listed, cached, seen, left>>

UpdateNotebook(n, v) ==
    /\ notebooks[n] # "unknown"
    /\ notebooks' = [notebooks EXCEPT ![n] = v]
    /\ UNCHANGED <<live, default, notebookOf, listed, cached, seen, left>>

DeleteNotebook(n) ==
    /\ notebooks[n] # "unknown"
    /\ notebooks' = [notebooks EXCEPT ![n] = "unknown"]
    /\ UNCHANGED <<live, default, notebookOf, listed, cached, seen, left>>

SetDefaultNotebook(n) ==
    /\ notebooks[n] # "unknown"
    /\ default' = n
    /\ UNCHANGED <<live, notebooks, notebookOf, listed, cached, seen, left>>

----------------------------------------------------------------------------
(* Associations                                                            *)

\* mutant: the associations go, the visibility that was worked out stays
ClearKeepsVisibility ==
    /\ notebookOf' = [u \in Uid |-> NoNotebook]
    /\ listed' = {}
    /\ left' = {}
    /\ UNCHANGED <<live, notebooks, default, cached, seen>>

ClearNotebookAssociations ==
    /\ notebookOf' = [u \in Uid |-> NoNotebook]
    /\ listed' = {}
    /\ cached' = [i \in Incidence |-> "unset"]
    /\ left' = {}
    /\ UNCHANGED <<live, notebooks, default, seen>>

IsException(i) == i.rid # NoRid

\* instances( i ): the exceptions in the calendar
Instances(i) == {e \in live : e.uid = i.uid /\ IsException(e)}

\* incidence( i->uid(), i->recurrenceId() ) finds something
IsKnown(i) == \E j \in live : j.uid = i.uid /\ j.rid = i.rid

\* mutant: the exceptions stay in the old notebook
MoveAlone(i, old, new) == listed \ {<<old, i>>}

\* mutant: the exceptions leave the old notebook for none
MoveOut(i, old, new) == listed \ ({old} \X (Instances(i) \cup {i}))

\* i and its exceptions leave the notebook old, the exceptions for new
Move(i, old, new) ==
    (listed \ ({old} \X (Instances(i) \cup {i}))) \cup ({new} \X Instances(i))

\* the uid of i is associated with another notebook than n
IsElsewhere(i, n) == notebookOf[i.uid] \notin {NoNotebook, n}

LeftBehind(i, old) ==
    {j \in Incidence \ (Instances(i) \cup {i}) : j.uid = i.uid /\ <<old, j>> \in listed}

\* mutant: the observers hear of a move before the uid is associated with n
HeardEarly(i, n) == notebookOf[i.uid]

\* what an observer reads as notebook( i ) when setNotebook( i, n ) tells it last
Heard(i, n) == n

\* setNotebook( i, n ), not refused
SetNotebook(i, n) ==
    LET old == notebookOf[i.uid]
    IN  /\ IsKnown(i)
        /\ IsElsewhere(i, n) => ~IsException(i)
        /\ notebookOf' = [notebookOf EXCEPT ![i.uid] = n]
        /\ listed' = {<<n, i>>} \cup (IF IsElsewhere(i, n) THEN Move(i, old, n) ELSE listed)
        /\ left' = IF IsElsewhere(i, n) THEN left \cup LeftBehind(i, old) ELSE left
        /\ seen' = [seen EXCEPT ![i] = Heard(i, n)]
        /\ UNCHANGED <<live, notebooks, default, cached>>

\* setNotebook( i, "" ): out of the list, but mUidToNotebook keeps the uid
UnsetNotebook(i) ==
    LET old == notebookOf[i.uid]
    IN  /\ IsElsewhere(i, NoNotebook) /\ ~IsException(i)
        /\ listed' = Move(i, old, NoNotebook)
        /\ seen' = [seen EXCEPT ![i] = old]
        /\ UNCHANGED <<live, notebooks, default, notebookOf, cached, left>>

\* mutant: the value of a notebook the calendar does not know
VisibilityUnchecked(i) ==
    IF notebookOf[i.uid] # NoNotebook THEN notebooks[notebookOf[i.uid]] ELSE "visible"

Visibility(i) ==
    LET n == notebookOf[i.uid]
    IN  IF n # NoNotebook /\ notebooks[n] # "unknown" THEN notebooks[n] ELSE "visible"

IsVisible(i) ==
    /\ cached[i] = "unset"
    /\ cached' = [cached EXCEPT ![i] = Visibility(i)]
    /\ UNCHANGED <<live, notebooks, default, notebookOf, listed, seen, left>>

----------------------------------------------------------------------------
(* The incidences of the calendar                                          *)

\* clients keep one object for a uid and recurrence-id in the calendar at a time
AddIncidence(i) ==
    /\ ~IsKnown(i)
    /\ live' = live \cup {i}
    /\ UNCHANGED <<notebooks, default, notebookOf, listed, cached, seen, left>>

DeleteIncidence(i) ==
    /\ i \in live
    /\ live' = live \ ({i} \cup IF IsException(i) THEN {} ELSE Instances(i))
    /\ UNCHANGED <<notebooks, default, notebookOf, listed, cached, seen, left>>

\* Calendar::incidenceUpdated, for a change made to i
ChangeIncidence(i) ==
    /\ i \in live
    /\ seen' = [seen EXCEPT ![i] = notebookOf[i.uid]]
    /\ UNCHANGED <<live, notebooks, default, notebookOf, listed, cached, left>>

----------------------------------------------------------------------------
NotebookNext(n) ==
    \/ \E v \in {"visible", "hidden"} : AddNotebook(n, v) \/ UpdateNotebook(n, v)
    \/ DeleteNotebook(n)
    \/ SetDefaultNotebook(n)

IncidenceNext(i) ==
    \/ \E n \in Notebook : SetNotebook(i, n)
    \/ UnsetNotebook(i)
    \/ IsVisible(i)
    \/ AddIncidence(i)
    \/ DeleteIncidence(i)
    \/ ChangeIncidence(i)

Next ==
    \/ \E n \in Notebook : NotebookNext(n)
    \/ ClearNotebookAssociations
    \/ \E i \in Incidence : IncidenceNext(i)

Spec == Init /\ [][Next]_vars

----------------------------------------------------------------------------
(* Properties                                                              *)

TypeOK ==
    /\ live \subseteq Incidence
    /\ notebooks \in [Notebook -> {"unknown", "visible", "hidden"}]
    /\ default \in Name
    /\ notebookOf \in [Uid -> Name]
    /\ listed \subseteq Name \X Incidence
    /\ cached \in [Incidence -> {"unset", "visible", "hidden"}]
    /\ seen \in [Incidence -> Name]
    /\ left \subseteq Incidence

(***************************************************************************)
(* incidences( n ) and notebook( i ) agree: an incidence in the calendar   *)
(* is listed under no notebook but the one its uid is associated with,     *)
(* however parents and exceptions are associated, deleted and added again. *)
(* (Objects that were out of the calendar while their uid moved stay where *)
(* they were listed.)                                                      *)
(***************************************************************************)
OneNotebook ==
    \A i \in Incidence \ left : \A n \in Notebook :
        <<n, i>> \in listed => notebookOf[i.uid] = n

(***************************************************************************)
(* setNotebook() moves the exceptions with their parent: when a uid goes   *)
(* from one notebook to another, every exception of it in the calendar is  *)
(* listed in the new one and in the old one no more.                       *)
(***************************************************************************)
MovedTogether ==
    [][\A u \in Uid : \A e \in live :
          (/\ notebookOf[u] # NoNotebook
           /\ notebookOf'[u] \notin {NoNotebook, notebookOf[u]}
           /\ e.uid = u /\ IsException(e))
          => <<notebookOf'[u], e>> \in listed' /\ <<notebookOf[u], e>> \notin listed']_vars

(***************************************************************************)
(* setNotebook() tells the observers after the association is made: one    *)
(* that reads notebook( i ) when it is told of i knows where i is listed.  *)
(* (Nobody is told of the exceptions that move along.)                     *)
(***************************************************************************)
ObserversKnow ==
    \A i \in Incidence \ left : \A n \in Notebook :
        <<n, i>> \in listed /\ ~IsException(i) => seen[i] = n

(***************************************************************************)
(* Only notebooks hide: an incidence isVisible() calls hidden belongs to a *)
(* notebook, also after the calendar's content has been cleared.           *)
(***************************************************************************)
HiddenByNotebook ==
    \A i \in Incidence : cached[i] = "hidden" => notebookOf[i.uid] # NoNotebook

(***************************************************************************)
(* isVisible(): "true if incidence is visible, false otherwise", after the *)
(* visibility of its notebook was changed and after it changed notebooks.  *)
(***************************************************************************)
VisibilityCurrent ==
    \A i \in live : cached[i] \in {"unset", Visibility(i)}
=============================================================================
