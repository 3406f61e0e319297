--------------------------- MODULE MC_EventStream ---------------------------
(* A small instance of EventStream for TLC. *)
EXTENDS EventStream
=============================================================================
