--------------------------- MODULE MC_PiLifecycle ---------------------------
(* Small instances of PiLifecycle for TLC. *)
EXTENDS PiLifecycle, TLC

Symmetry == Permutations(Callers) \cup Permutations(Pis) \cup Permutations(Editors)
=============================================================================
