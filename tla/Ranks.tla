------------------------------- MODULE Ranks -------------------------------
(***************************************************************************)
(* Finite sets of numbers in increasing order: what QMap does with its     *)
(* keys, and a list view with its rows.  The catalogues of both programs   *)
(* are made of it.                                                         *)
(***************************************************************************)
EXTENDS Naturals, FiniteSets

\* The position of x.
Rank(set, x) == Cardinality({y \in set : y <= x})

\* The element at a position.
Nth(set, k) == CHOOSE x \in set : Rank(set, x) = k

InOrder(set) == [k \in 1..Cardinality(set) |-> Nth(set, k)]
=============================================================================
