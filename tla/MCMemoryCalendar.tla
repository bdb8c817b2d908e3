-------------------------- MODULE MCMemoryCalendar --------------------------
(***************************************************************************)
(* MemoryCalendar for TLC.  View leaves out what no later step reads:      *)
(* mUpdatedPending outside a group, which startUpdates() sets, and the     *)
(* deleted incidences.  SomeKept bounds the run: a state in which the      *)
(* calendar has lost track of every incidence is not explored further,     *)
(* since the properties speak of the others.  InScene bounds it to three   *)
(* scenes, each of which varies something else.                            *)
(***************************************************************************)
EXTENDS MemoryCalendar, TLC

Symmetry == Permutations(Incidence) \cup Permutations(Uid)

View == <<data, level, [i \in Incidence |-> level[i] > 0 /\ pending[i]],
          observed, held, newer, index, modified, onDisk, unsaved, stray>>

SomeKept == stray # Incidence

----------------------------------------------------------------------------
FirstDay == {1, NoDate}

OneUid == \A i, j \in Incidence :
              data[i].uid = data[j].uid /\ \A h \in held : h[1] = data[i].uid

\* nothing happens to i, a to-do
Idle(i) == /\ data[i] \in NewIncidence /\ IsTodo(i) /\ data[i].rid = NoRid
           /\ level[i] = 0 /\ ~pending[i] /\ i \notin observed

\* one incidence, of any type: everything that moves it between days
Dates == \E i \in Incidence : /\ OneUid /\ data[i].rid = NoRid
                              /\ \A j \in Incidence \ {i} : Idle(j)

\* two journals that may share uid and recurrence-id: lookups that find the other
Identity == \A i \in Incidence : /\ IsJournal(i) /\ ~data[i].recurs
                                 /\ data[i].start \in FirstDay /\ level[i] <= 1

\* an event, and another or a journal, under one uid: lookups across types;
\* the events have no end
AcrossTypes == /\ OneUid /\ \E i \in Incidence : IsEvent(i)
               /\ \A i \in Incidence :
                      /\ ~IsTodo(i) /\ data[i].start \in FirstDay /\ level[i] <= 1
                      /\ ~data[i].hasEnd /\ data[i].dur = "none"
                      /\ data[i].end = NoDate /\ data[i].cache = "unset"

InScene == Dates \/ Identity \/ AcrossTypes
=============================================================================
