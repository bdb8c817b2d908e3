------------------------------ MODULE Sublists ------------------------------
(***************************************************************************)
(* A list from which some entries were erased, the others in their order.  *)
(* It is given as a set with this one element, so that a proof can pick it *)
(* without knowing how it is counted out.                                  *)
(***************************************************************************)
EXTENDS Integers, Sequences, FiniteSets

\* the ways to count out a finite set of numbers in ascending order
Ascending(K) ==
    {f \in [1 .. Cardinality(K) -> K] :
        \A i, j \in 1 .. Cardinality(K) : i < j => f[i] < f[j]}

Sublist(s, K) == {[i \in 1 .. Cardinality(K) |-> s[f[i]]] : f \in Ascending(K)}
=============================================================================
