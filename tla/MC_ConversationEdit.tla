------------------------- MODULE MC_ConversationEdit -------------------------
(* Small instances of ConversationEdit for TLC. *)
EXTENDS ConversationEdit

\* All different, or all but the second the same.
Different == [n \in Turns |-> n]
Repeated  == [n \in Turns |-> IF n = 2 THEN 2 ELSE 1]
Either    == {Different, Repeated}
=============================================================================
