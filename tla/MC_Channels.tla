---------------------------- MODULE MC_Channels ----------------------------
(* A small instance of Channels for TLC. *)
EXTENDS Channels, TLC

\* Channels differ in nothing but their rows.
Symmetry == Permutations(Chans)
=============================================================================
