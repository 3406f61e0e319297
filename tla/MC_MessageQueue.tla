-------------------------- MODULE MC_MessageQueue --------------------------
(* Small instances of MessageQueue for TLC. *)
EXTENDS MessageQueue

Unlike == [m \in Msgs |-> m]
Other  == [m \in Msgs |-> <<m>>]

\* Messages differ in their words alone, and those go with them.
Symmetry == Permutations(Msgs)
=============================================================================
