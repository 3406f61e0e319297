----------------------------- MODULE MC_Restart -----------------------------
(* Small instances of Restart for TLC. *)
EXTENDS Restart, TLC

Symmetry == Permutations(Words)
=============================================================================
