------------------------------- MODULE Sorting -------------------------------
(***************************************************************************)
(* sorted() and list.sort() of Python: a finite set in the order given by a *)
(* strict total order, which is a set of pairs.                             *)
(***************************************************************************)
EXTENDS Naturals, FiniteSets

(* The n-th is the one with n - 1 others before it. *)
Sorted(S, order) ==
  [n \in 1 .. Cardinality(S) |->
    CHOOSE x \in S : Cardinality({y \in S : <<y, x>> \in order}) = n - 1]

Ascending(S) == Sorted(S, {p \in S \X S : p[1] < p[2]})
=============================================================================
