---------------------------- MODULE InstanceLock ----------------------------
(* How instance-lock.ts makes a server the one server on its data directory: by
   listening on a socket in it, or, where no socket can be made there, on one
   named after it.  Servers are processes of the system: each start runs beside
   the others, and any of them may be killed between two steps.               *)
EXTENDS Naturals, Sequences

CONSTANTS
  Servers,  \* processes started on the data directory
  Places,   \* `places`: what is tried in turn, "file" and "named" or "named" alone
  Broken,   \* the places where no socket can be made
  Overlap,  \* TRUE: one may be started while another is still starting
  Nobody, Left

ASSUME PlacesAssumption == Places \in {<<"file", "named">>, <<"named">>} /\ Broken \subseteq {"file", "named"}
ASSUME OverlapAssumption == Overlap \in BOOLEAN
ASSUME ServersAssumption == {Nobody, Left} \cap Servers = {}

VARIABLES
  stage,    \* where each server is
  place,    \* the place it tries, an index of Places
  attempt,  \* its second try there
  file,     \* whose socket portal.sock is: a server's, one that ended (Left), or Nobody's
  name      \* who is bound to the name: it goes with its process

lockVars == <<stage, place, attempt, file, name>>

Starting == {"bind", "listen", "probe", "clear"}
Stages   == {"down", "up", "refused", "failed"} \cup Starting

LockTypeOK ==
  /\ stage \in [Servers -> Stages]
  /\ place \in [Servers -> 1..Len(Places)]
  /\ attempt \in [Servers -> {0, 1}]
  /\ file \in Servers \cup {Nobody, Left} /\ name \in Servers \cup {Nobody}

\* Whatever the last one left in the directory.
LockInit ==
  /\ stage = [p \in Servers |-> "down"]
  /\ place = [p \in Servers |-> 1] /\ attempt = [p \in Servers |-> 0]
  /\ file \in {Nobody, Left} /\ name = Nobody
-----------------------------------------------------------------------------
Moves(p, phase) == stage' = [stage EXCEPT ![p] = phase]
At(p) == Places[place[p]]

\* Who has the address a server tries.
Holder(p) == IF At(p) = "file" THEN file ELSE name

\* Listening on it, as a connection finds out.
Answers(p) == Holder(p) \in Servers /\ stage[Holder(p)] = "up"

Start(p) ==
  /\ stage[p] = "down"
  /\ Overlap \/ \A q \in Servers : stage[q] \notin Starting
  /\ Moves(p, "bind")
  /\ place' = [place EXCEPT ![p] = 1] /\ attempt' = [attempt EXCEPT ![p] = 0]
  /\ UNCHANGED <<file, name>>

\* The next place, or none: what failed is thrown.
NextPlace(p) ==
  /\ IF place[p] < Len(Places)
       THEN Moves(p, "bind") /\ place' = [place EXCEPT ![p] = @ + 1] /\ attempt' = [attempt EXCEPT ![p] = 0]
       ELSE Moves(p, "failed") /\ UNCHANGED <<place, attempt>>

\* Faulty: a place that is taken is passed over like one that has no sockets.
BindElsewhere(p) ==
  /\ stage[p] = "bind"
  /\ IF At(p) \in Broken \/ Holder(p) # Nobody
       THEN NextPlace(p) /\ UNCHANGED <<file, name>>
       ELSE /\ Moves(p, "listen")
            /\ file' = IF At(p) = "file" THEN p ELSE file
            /\ name' = IF At(p) = "named" THEN p ELSE name
            /\ UNCHANGED <<place, attempt>>

\* The socket is bound, where the address is free; it is asked for an answer where
\* it is in use.
Bind(p) ==
  /\ stage[p] = "bind"
  /\ IF At(p) \in Broken
       THEN NextPlace(p) /\ UNCHANGED <<file, name>>
       ELSE /\ Moves(p, IF Holder(p) = Nobody THEN "listen" ELSE "probe")
            /\ file' = IF At(p) = "file" /\ file = Nobody THEN p ELSE file
            /\ name' = IF At(p) = "named" /\ name = Nobody THEN p ELSE name
            /\ UNCHANGED <<place, attempt>>

\* It listens from the next system call on, and holds the data.
Listen(p) ==
  /\ stage[p] = "listen"
  /\ Moves(p, "up")
  /\ UNCHANGED <<place, attempt, file, name>>

\* Faulty: a silent socket is an error, whoever left it.
ProbeGivesUp(p) ==
  /\ stage[p] = "probe"
  /\ Moves(p, IF Answers(p) THEN "refused" ELSE "failed")
  /\ UNCHANGED <<place, attempt, file, name>>

\* answered(): refused by a server that listens, and nobody's where nothing does.
Probe(p) ==
  /\ stage[p] = "probe"
  /\ Moves(p, IF Answers(p) THEN "refused" ELSE IF At(p) = "file" /\ attempt[p] = 0 THEN "clear" ELSE "failed")
  /\ UNCHANGED <<place, attempt, file, name>>

\* The socket in the directory is removed, whichever it is by now.
Clear(p) ==
  /\ stage[p] = "clear"
  /\ file' = Nobody
  /\ Moves(p, "bind") /\ attempt' = [attempt EXCEPT ![p] = 1]
  /\ UNCHANGED <<place, name>>

\* The process ends, by itself or killed: the system lets go of its socket, and a
\* file is left in the directory.
End(p) ==
  /\ stage[p] # "down"
  /\ Moves(p, "down")
  /\ file' = IF file = p THEN Left ELSE file
  /\ name' = IF name = p THEN Nobody ELSE name
  /\ UNCHANGED <<place, attempt>>

HoldDataDir(p) == Bind(p) \/ Listen(p) \/ Probe(p) \/ Clear(p)
LockNext == \E p \in Servers : Start(p) \/ HoldDataDir(p) \/ End(p)
LockSpec == LockInit /\ [][LockNext]_lockVars
-----------------------------------------------------------------------------
\* One server has the data (holdDataDir: "Makes this the one server on a data
\* directory"), whatever earlier ones left there and wherever they were killed.
OneServer == \A p, q \in Servers : stage[p] = "up" /\ stage[q] = "up" => p = q

\* A server is turned away, or fails to start, only where another has the data or
\* is taking it: nothing a dead one left keeps the next one out.
NothingLeftKeepsOut ==
  [][\A p \in Servers :
       stage[p] \in Starting /\ stage'[p] \in {"refused", "failed"}
         => \E q \in Servers \ {p} : stage[q] \in Starting \cup {"up"}]_lockVars
=============================================================================
