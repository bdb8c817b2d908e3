---------------------------- MODULE MCNotebooks ----------------------------
(***************************************************************************)
(* Notebooks for TLC: objects and notebooks are interchangeable, View      *)
(* leaves out the default notebook, which nothing reads, and what an       *)
(* observer was told of an incidence no notebook lists.                    *)
(***************************************************************************)
EXTENDS Notebooks, FiniteSets, TLC

Symmetry == Permutations(Object) \cup Permutations(Notebook)

Listed == {l[2] : l \in listed}

View == <<live, notebooks, notebookOf, listed, cached, left, [i \in Listed |-> seen[i]]>>

(***************************************************************************)
(* Bounds: three of the four objects take part; states with two hidden     *)
(* notebooks, two hidden incidences, or a visible one the calendar would   *)
(* have called visible unasked, are checked but lead no further.           *)
(***************************************************************************)
FewObjects ==
    /\ Cardinality(live \cup Listed) <= 3
    /\ Cardinality({n \in Notebook : notebooks[n] # "unknown"}) <= 1
    /\ \A n \in Notebook : notebooks[n] # "visible"
    /\ Cardinality({i \in Incidence : cached[i] # "unset"}) <= 1
    /\ \A i \in Incidence : cached[i] # "visible"
=============================================================================
