---------------------------- MODULE MC_Routines ----------------------------
(* A small instance of Routines for TLC: a one-off and a recurring routine. *)
EXTENDS Routines, TLC

CONSTANTS r1, r2, s1, s2, s3

Made == (r1 :> s1 @@ r2 :> s2)
At   == (r1 :> 1 @@ r2 :> Recurring)
=============================================================================
