------------------------------ MODULE Delivery ------------------------------
(* What a chat promises of the messages sent into it, whatever the queues, chains
   and events in between: each has one standing on the page, and the standing is
   true of what pi has read.  MessageQueue implements it.                      *)

CONSTANTS Msgs  \* messages

VARIABLES
  standing,  \* where a message stands in the chat
  read       \* the messages pi has read, or an extension has handled

vars == <<standing, read>>

Init == standing = [m \in Msgs |-> "new"] /\ read = {}

Stands(m, s) == standing' = [standing EXCEPT ![m] = s]
All(S, s)    == standing' = [m \in Msgs |-> IF m \in S THEN s ELSE standing[m]]
Waiting      == {m \in Msgs : standing[m] = "waits"}

\* It is recorded, in its place or at the foot of the chat to wait there.
Send(m) ==
  /\ standing[m] \in {"new", "again"}
  /\ \E s \in {"shown", "waits"} : Stands(m, s)
  /\ UNCHANGED read

\* It has to wait after all; pi has not read it.
Wait(m) ==
  /\ standing[m] = "shown" /\ m \notin read
  /\ Stands(m, "waits")
  /\ UNCHANGED read

\* Once, and never what was marked as not sent.
Read(m) ==
  /\ standing[m] \in {"shown", "waits"} /\ m \notin read
  /\ read' = read \cup {m}
  /\ UNCHANGED standing

\* Some of those that wait are shown where pi took them in: it has read each.
Place(S) ==
  /\ S # {} /\ S \subseteq Waiting \cap read
  /\ All(S, "placed")
  /\ UNCHANGED read

\* Some of those that wait are marked as not sent: it reads none of them from here
\* on.  One may be in the very run that is being stopped.
Drop(S) ==
  /\ S # {} /\ S \subseteq Waiting
  /\ All(S, "unsent")
  /\ UNCHANGED read

\* Some of those that wait, which pi has not read, are taken out of the chat to be sent
\* again, but for one that is not wanted any more.
TakeBack(S, m) ==
  /\ S \subseteq Waiting \ read /\ m \in S
  /\ \E s \in {"gone", "again"} :
       standing' = [x \in Msgs |-> IF x = m THEN s ELSE IF x \in S THEN "again" ELSE standing[x]]
  /\ UNCHANGED read

\* It is out of the chat: pi refused it unread.
Refuse(m) ==
  /\ standing[m] \in {"shown", "waits"} /\ m \notin read
  /\ Stands(m, "refused")
  /\ UNCHANGED read

Next ==
  \/ \E m \in Msgs : Send(m) \/ Wait(m) \/ Read(m) \/ Refuse(m)
  \/ \E S \in SUBSET Msgs : Place(S) \/ Drop(S) \/ \E m \in S : TakeBack(S, m)

Spec == Init /\ [][Next]_vars
=============================================================================
