--------------------------- MODULE MCChangeRecorder ---------------------------
(***************************************************************************)
(* ChangeRecorder for TLC.  The items that are monitored by themselves     *)
(* exist in one collection at first, the others are still to be added.     *)
(***************************************************************************)
EXTENDS ChangeRecorder

Home == CHOOSE c \in Collection : TRUE

MCInit == Init /\ at = [i \in Item |-> IF i \in Explicit THEN Home ELSE "new"]

MCSpec == MCInit /\ [][Next]_vars /\ Fairness
=============================================================================
