------------------------------- MODULE MCDesk -------------------------------
(***************************************************************************)
(* The desk with two people, each a client of the other and both managers, *)
(* who may press at the same time.                                         *)
(***************************************************************************)
EXTENDS Desk, TLC

Symmetry == Permutations(Users) \cup Permutations(Slots)
=============================================================================
