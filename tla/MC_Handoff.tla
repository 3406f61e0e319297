----------------------------- MODULE MC_Handoff -----------------------------
(* A small instance of Handoff for TLC. *)
EXTENDS Handoff, TLC

\* Files are alike, and moved one by one in any order.
Symmetry == Permutations(Items)
=============================================================================
