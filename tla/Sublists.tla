------------------------------- MODULE Sublists -------------------------------
(***************************************************************************)
(* What a loop that appends some elements of a slice to another one makes. *)
(***************************************************************************)
EXTENDS Naturals, Sequences, FiniteSets

(* The elements of the list at the positions I, in the list's order.       *)
Picked(list, I) ==
  [k \in 1 .. Cardinality(I) |->
     list[CHOOSE i \in I : Cardinality({j \in I : j <= i}) = k]]
=============================================================================
