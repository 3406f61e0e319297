-------------------------- MODULE MC_InstanceLock --------------------------
(* Small instances of InstanceLock for TLC. *)
EXTENDS InstanceLock

FileFirst == <<"file", "named">>
=============================================================================
