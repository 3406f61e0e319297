---------------------------- MODULE PiLifecycle ----------------------------
(* How session-manager.ts starts, shares, stops and deletes the pi of one
   chat: a pi is the agent process (in the portal's own process, or in a
   container) that holds the chat's conversation in memory and writes it to the
   conversation's file.  Every map of the session manager is keyed by the chat,
   so one chat is modelled.

   The server is one JavaScript thread: what stands between two awaits is one
   action here, and other handlers run only where the code awaits.  A
   continuation whose promise is settled already runs before any new request,
   so it is not an action of its own.                                        *)

CONSTANTS
  Callers,    \* prompts sent to the chat: from a page, a channel, a routine
  Editors,    \* requests that remove or replace a message, each used once
  Deleters,   \* requests that delete the chat
  Pis,        \* the pi clients that can be launched (a bound)
  Places,     \* where a chat's pi may run: TRUE in a container (ContainerExecutor), FALSE on the host
  NoPi, NoOne,
  Reload      \* the holder of the edit lock while a pi reloads its extensions

Requests == Callers \cup Editors \cup Deleters

ASSUME DistinctAssumption ==
  /\ NoPi \notin Pis
  /\ {NoOne, Reload} \cap Requests = {}
  /\ NoOne # Reload
  /\ Callers \cap Editors = {} /\ Callers \cap Deleters = {} /\ Editors \cap Deleters = {}

ASSUME PlacesAssumption == Places \subseteq BOOLEAN

VARIABLES
  \* the maps of the SessionManager, for this chat
  live,        \* the pi that is up, or NoPi
  launch,      \* how far the launch in `starting` has come, "none" when there is none
  born,        \* the pi that launch made
  after,       \* the release that launch waits for, as it read `releasing`
  releasing,   \* the pi that is being let go
  editing,     \* who holds the edit lock
  discarding,  \* whether a delete of the chat is going
  stopped,     \* requests that began to wait for pi before a Stop that found none
  \* the pis
  pi,          \* what each is doing
  holds,       \* the conversation each read from the file as it started
  inRun,       \* the live pi is in a run
  reloadDue,   \* the live pi has a reload to take once its run is over
  \* the database and the disk
  running,     \* the chat's status is "running"
  row,         \* the chat is in the database
  folder,      \* its folder, with the conversation's file, exists
  file,        \* which conversation the file holds: named by the edit that wrote it
  \* where each request is
  pc,          \* the await it is at
  client,      \* the pi a prompt was given, or a stop waits for
  original,    \* the conversation an edit replaced
  later,       \* edits after which something else was sent
  \* the idle reaper and the container's clean-up
  reaper,      \* the pi whose background jobs the reaper looks for
  used,        \* something used the chat since it began to look
  cleaning,    \* `docker rm -f` of a container whose pi exited is on its way
  \* the executor
  container    \* the chat's pi runs in a container: set as the chat is made, for good

maps == <<live, launch, born, after, releasing, editing, discarding, stopped>>
pis  == <<pi, holds, inRun, reloadDue>>
disk == <<running, row, folder, file>>
reqs == <<pc, client, original, later>>
rest == <<reaper, used, cleaning>>
moves == <<maps, pis, disk, reqs, rest>>
vars == <<moves, container>>

Launches  == {"none", "servers", "wind", "created", "up"}
PiStates  == {"unborn", "starting", "up", "closing", "gone", "dead"}
Phases    == {"idle", "gate", "reload", "enter", "door", "starting", "using", "done",
              "settle", "stopping", "cut", "sent", "undo", "unstop",
              "abort", "unsettled", "settle2"}
Versions  == Editors \cup {NoOne}

FlagsOK ==
  /\ discarding \in BOOLEAN /\ inRun \in BOOLEAN /\ reloadDue \in BOOLEAN
  /\ running \in BOOLEAN /\ row \in BOOLEAN /\ folder \in BOOLEAN
  /\ used \in BOOLEAN /\ cleaning \in BOOLEAN /\ container \in BOOLEAN

TypeOK ==
  /\ live \in Pis \cup {NoPi} /\ born \in Pis \cup {NoPi}
  /\ after \in Pis \cup {NoPi} /\ releasing \in Pis \cup {NoPi}
  /\ launch \in Launches
  /\ editing \in Editors \cup {NoOne, Reload}
  /\ stopped \subseteq Callers \cup Editors
  /\ pi \in [Pis -> PiStates] /\ holds \in [Pis -> Versions]
  /\ file \in Versions
  /\ pc \in [Requests -> Phases]
  /\ client \in [Requests -> Pis \cup {NoPi}]
  /\ original \in [Editors -> Versions] /\ later \subseteq Editors
  /\ reaper \in Pis \cup {NoPi}
  /\ FlagsOK

Init ==
  /\ live = NoPi /\ launch = "none" /\ born = NoPi /\ after = NoPi /\ releasing = NoPi
  /\ editing = NoOne /\ discarding = FALSE /\ stopped = {}
  /\ pi = [p \in Pis |-> "unborn"] /\ holds = [p \in Pis |-> NoOne]
  /\ inRun = FALSE /\ reloadDue = FALSE
  /\ running = FALSE /\ row = TRUE /\ folder = TRUE /\ file = NoOne
  /\ pc = [r \in Requests |-> "idle"] /\ client = [r \in Requests |-> NoPi]
  /\ original = [e \in Editors |-> NoOne] /\ later = {}
  /\ reaper = NoPi /\ used = FALSE /\ cleaning = FALSE
  /\ container \in Places
-----------------------------------------------------------------------------
(* The helpers of the session manager. *)

Go(r, phase) == pc' = [pc EXCEPT ![r] = phase]

\* A pi that still has extensions at work on the conversation's file.
Alive(p) == pi[p] \in {"starting", "up", "closing"}

\* The synchronous part of stop(): the live pi is taken out of the map and
\* begins to wind down.  Nothing changes where none is live.
StopPi ==
  IF live = NoPi
  THEN UNCHANGED <<live, releasing, pi, inRun, reloadDue>>
  ELSE /\ live' = NoPi /\ releasing' = live
       /\ pi' = [pi EXCEPT ![live] = "closing"]
       /\ inRun' = FALSE /\ reloadDue' = FALSE

\* Faulty: a stop that finds no pi live does not wait for the one being let go.
StopTargetForgets == live

\* What stop() waits for: the release it began, or the one that is going.
StopTarget == IF live # NoPi THEN live ELSE releasing
Released(p) == p \in Pis => pi[p] = "gone"

\* Prompts past the wait for an edit, and not yet taken by pi: `prompting`.
Busy == {"enter", "door", "starting", "using"}
Prompting(at) == \E c \in Callers : at[c] \in Busy

\* Who a Stop with no pi up keeps from being sent.
WaitForPi == {r \in Callers \cup Editors : pc[r] \in {"door", "starting"}}

\* settleEdit: an edit whose replacement pi has taken stands once it is answered
\* or stopped.  It goes back where the chat is marked failed, unless the chat has
\* gone on from it, or something holds the lock: another edit, a reload, or an
\* earlier edit that was never answered and asks for the lock first.
Sent == {e \in Editors : pc[e] = "sent"}
EditsStand(at) == [r \in Requests |-> IF r \in Sent THEN "done" ELSE at[r]]
GoesBack(e, at) == at[e] = "sent" /\ e \notin later /\ ~Prompting(at)
EditFails(at, locked) ==
  LET back == {e \in Sent : GoesBack(e, at) /\ ~locked /\ Sent = {e}} IN
  \/ /\ back = {}
     /\ pc' = EditsStand(at) /\ UNCHANGED editing
  \/ \E e \in back :
       /\ pc' = [EditsStand(at) EXCEPT ![e] = "undo"] /\ editing' = e

\* inUse(): what the reaper leaves alone.
InUse == \/ running \/ editing # NoOne \/ launch # "none" \/ Prompting(pc) \/ inRun

\* pi's activity clock: whoever touches the chat while its pi is live.
Touch == used' = (used \/ live # NoPi)

\* Faulty: the launch in flight is not looked up before one is begun.
LookupLaunches(r) ==
  /\ \/ /\ live # NoPi
        /\ Go(r, "using") /\ client' = [client EXCEPT ![r] = live]
        /\ UNCHANGED <<launch, born, after>>
     \/ /\ live = NoPi
        /\ Go(r, "starting")
        /\ launch' = "servers" /\ born' = NoPi /\ after' = NoPi
        /\ UNCHANGED client
  /\ UNCHANGED <<live, releasing, editing, discarding, pis, disk, original, later, reaper, cleaning>>

\* ensureClient past its waits: the live pi, the launch in flight, or a launch
\* begun here.
Lookup(r) ==
  /\ \/ /\ live # NoPi
        /\ Go(r, "using") /\ client' = [client EXCEPT ![r] = live]
        /\ UNCHANGED <<launch, born, after>>
     \/ /\ live = NoPi /\ launch # "none"
        /\ Go(r, "starting")
        /\ UNCHANGED <<launch, born, after, client>>
     \/ /\ live = NoPi /\ launch = "none"
        /\ Go(r, "starting")
        /\ launch' = "servers" /\ born' = NoPi /\ after' = NoPi
        /\ UNCHANGED client
  /\ UNCHANGED <<live, releasing, editing, discarding, pis, disk, original, later, reaper, cleaning>>
-----------------------------------------------------------------------------
(* A prompt: prompt, promptNow, submit and ensureClient. *)

\* prompt() is called: refused at the door once a delete is going, and then
\* held while the conversation is being edited.
Arrive(c) ==
  /\ pc[c] = "idle" /\ row /\ ~discarding
  /\ Go(c, "gate")
  /\ UNCHANGED <<maps, pis, disk, client, original, later, rest>>

\* A reload that came due and nothing has taken is done before the message
\* starts a run.
ReloadFirst == reloadDue /\ ~running /\ ~inRun

ReloadForPrompt(c) ==
  /\ pc[c] = "gate" /\ editing = NoOne /\ ReloadFirst
  /\ editing' = Reload /\ reloadDue' = FALSE
  /\ Go(c, "reload")
  /\ UNCHANGED <<live, launch, born, after, releasing, discarding, stopped, pi, holds, inRun,
                 disk, client, original, later, rest>>

\* No edit is going: the chat is marked running, and a compaction waited for.
PassGate(c) ==
  /\ editing = NoOne
  /\ \/ pc[c] = "gate" /\ ~ReloadFirst
     \/ pc[c] = "reload"
  /\ running' = TRUE
  /\ Go(c, "enter") /\ Touch
  /\ UNCHANGED <<maps, pis, row, folder, file, client, original, later, reaper, cleaning>>

\* ensureClient is called.
Enter(c) ==
  /\ pc[c] = "enter" /\ ~discarding
  /\ Go(c, "door")
  /\ Touch
  /\ UNCHANGED <<maps, pis, disk, client, original, later, reaper, cleaning>>

\* It refuses where a delete began meanwhile: the chat is marked failed, which
\* an edit that waits for its answer takes for the failure of its run.
EnterRefused(c) ==
  /\ pc[c] = "enter" /\ discarding
  /\ running' = FALSE
  /\ EditFails([pc EXCEPT ![c] = "done"], editing # NoOne)
  /\ Touch
  /\ UNCHANGED <<live, launch, born, after, releasing, discarding, stopped, pis, row, folder, file,
                 client, original, later, reaper, cleaning>>

\* whenEditable, in ensureClient.
Door(c) ==
  /\ pc[c] = "door" /\ editing = NoOne
  /\ Lookup(c)
  /\ UNCHANGED <<stopped, used>>

\* A run begins with the prompt, or takes it in; or a Stop came while pi was
\* starting for it, and it is not sent; or its pi has been stopped, and refuses:
\* its line stays in the chat, or goes again where it was queued.
Submit(c) ==
  /\ pc[c] = "using" /\ c \in Callers
  /\ stopped' = stopped \ {c}
  /\ \/ /\ c \in stopped
        /\ pc' = EditsStand([pc EXCEPT ![c] = "done"])
        /\ running' = FALSE
        /\ UNCHANGED <<inRun, later, editing>>
     \/ /\ c \notin stopped /\ pi[client[c]] = "up"
        /\ Go(c, "done")
        /\ inRun' = TRUE /\ running' = TRUE
        /\ later' = later \cup Sent
        /\ UNCHANGED editing
     \/ /\ c \notin stopped /\ pi[client[c]] # "up"
        /\ running' = inRun /\ UNCHANGED inRun
        /\ \/ inRun /\ Go(c, "done") /\ UNCHANGED <<editing, later>>
           \/ ~inRun /\ later' = later \cup Sent /\ UNCHANGED editing
                     /\ pc' = EditsStand([pc EXCEPT ![c] = "done"])
           \/ ~inRun /\ EditFails([pc EXCEPT ![c] = "done"], editing # NoOne) /\ UNCHANGED later
  /\ Touch
  /\ UNCHANGED <<live, launch, born, after, releasing, discarding, pi, holds, reloadDue,
                 row, folder, file, client, original, reaper, cleaning>>

\* Stop pressed with no pi up: whoever waits for one to start is not to be sent.
StopCold ==
  /\ live = NoPi
  /\ ~(WaitForPi \subseteq stopped)
  /\ stopped' = stopped \cup WaitForPi
  /\ UNCHANGED <<live, launch, born, after, releasing, editing, discarding, pis, disk, reqs, rest>>
-----------------------------------------------------------------------------
(* startClient, the one launch in `starting`. *)

\* Faulty: a launch that does not wait for the pi being let go.
ServersSettledBeside ==
  /\ launch = "servers"
  /\ launch' = "wind" /\ after' = NoPi
  /\ UNCHANGED <<live, born, releasing, editing, discarding, stopped, pis, disk, reqs, rest>>

\* The extensions' server halves are up; the release under way is read once.
ServersSettled ==
  /\ launch = "servers"
  /\ launch' = "wind" /\ after' = releasing
  /\ UNCHANGED <<live, born, releasing, editing, discarding, stopped, pis, disk, reqs, rest>>

\* Faulty: who awaited a launch that fails does not hear of it.
LaunchFailsUnheard ==
  /\ launch' = "none"
  /\ UNCHANGED <<pc, editing, stopped>>
  /\ running' = FALSE

\* Everyone who awaited the launch hears that it failed, and the chat is marked
\* so.
LaunchFails ==
  /\ launch' = "none"
  /\ EditFails([r \in Requests |->
                  IF pc[r] # "starting" THEN pc[r] ELSE IF r \in Editors THEN "undo" ELSE "done"],
               editing # NoOne)
  /\ stopped' = {r \in stopped : pc[r] # "starting"}
  /\ running' = FALSE

\* Faulty: a launch that does not ask again whether the chat is being deleted.
CreateUnasked ==
  /\ launch = "wind" /\ Released(after)
  /\ \E p \in Pis :
       /\ pi[p] = "unborn"
       /\ pi' = [pi EXCEPT ![p] = "starting"]
       /\ holds' = [holds EXCEPT ![p] = file]
       /\ born' = p
  /\ folder' = TRUE
  /\ launch' = "created"
  /\ UNCHANGED <<live, after, releasing, editing, discarding, stopped, inRun, reloadDue,
                 running, row, file, reqs, rest>>

\* The old pi has wound down, and the chat may still be there: pi is created on
\* the conversation's file, which it reads.
Create ==
  /\ launch = "wind" /\ Released(after)
  /\ ~discarding /\ row
  /\ \E p \in Pis :
       /\ pi[p] = "unborn"
       /\ pi' = [pi EXCEPT ![p] = "starting"]
       /\ holds' = [holds EXCEPT ![p] = file]
       /\ born' = p
  /\ folder' = TRUE
  /\ launch' = "created"
  /\ UNCHANGED <<live, after, releasing, editing, discarding, stopped, inRun, reloadDue,
                 running, row, file, reqs, rest>>

\* A delete began while this waited, or the chat is gone, or its workspace is.
CreateRefused ==
  /\ launch = "wind" /\ Released(after)
  /\ LaunchFails
  /\ UNCHANGED <<live, born, after, releasing, discarding, pis,
                 row, folder, file, client, original, later, rest>>

\* The executor's launch came back.
Created ==
  /\ launch = "created"
  /\ launch' = "up" /\ live' = born
  /\ pi' = [pi EXCEPT ![born] = "up"]
  /\ inRun' = FALSE /\ reloadDue' = FALSE
  /\ used' = TRUE
  /\ UNCHANGED <<born, after, releasing, editing, discarding, stopped, holds, disk, reqs, reaper, cleaning>>

CreateFails ==
  /\ launch = "created"
  /\ pi' = [pi EXCEPT ![born] = "gone"]
  /\ LaunchFails
  /\ UNCHANGED <<live, born, after, releasing, discarding, holds, inRun, reloadDue,
                 row, folder, file, client, original, later, rest>>

\* `starting` is cleared, and everyone who awaited the launch has its client.
LaunchSettles ==
  /\ launch = "up"
  /\ launch' = "none"
  /\ pc' = [r \in Requests |-> IF pc[r] = "starting" THEN "using" ELSE pc[r]]
  /\ client' = [r \in Requests |-> IF pc[r] = "starting" THEN born ELSE client[r]]
  /\ UNCHANGED <<live, born, after, releasing, editing, discarding, stopped, pis, disk, original, later, rest>>
-----------------------------------------------------------------------------
(* release, and the other ends of a pi and of a run. *)

\* release(): its extensions have wound down, or three seconds went by; it is
\* disposed of, and whoever waits for the release goes on.
Release(p) ==
  /\ pi[p] = "closing"
  /\ pi' = [pi EXCEPT ![p] = "gone"]
  /\ releasing' = IF releasing = p THEN NoPi ELSE releasing
  /\ UNCHANGED <<live, launch, born, after, editing, discarding, stopped, holds, inRun, reloadDue, disk, reqs, rest>>

\* A stop by someone else, between runs: a channel that reloads a conversation's
\* context, a routine's run that is over.
StopIdle ==
  /\ live # NoPi /\ ~running
  /\ StopPi
  /\ UNCHANGED <<launch, born, after, editing, discarding, stopped, holds, disk, reqs, rest>>

\* The run settles, and an edit it answers stands.  A reload that came due is
\* begun at once.
RunEnds ==
  /\ inRun /\ live # NoPi
  /\ inRun' = FALSE /\ running' = FALSE
  /\ pc' = EditsStand(pc)
  /\ editing' = IF reloadDue /\ editing = NoOne THEN Reload ELSE editing
  /\ reloadDue' = (reloadDue /\ editing # NoOne)
  /\ used' = TRUE
  /\ UNCHANGED <<live, launch, born, after, releasing, discarding, stopped, pi, holds,
                 row, folder, file, client, original, later, reaper, cleaning>>

\* The run of an edit settles without an answer.  The reload takes the lock
\* before settleEdit, which hears of the failure one turn later, asks for it.
RunFails ==
  /\ inRun /\ live # NoPi /\ Sent # {}
  /\ inRun' = FALSE /\ running' = FALSE
  /\ reloadDue' = (reloadDue /\ editing # NoOne)
  /\ IF reloadDue /\ editing = NoOne
     THEN editing' = Reload /\ pc' = EditsStand(pc)
     ELSE EditFails(pc, editing # NoOne)
  /\ used' = TRUE
  /\ UNCHANGED <<live, launch, born, after, releasing, discarding, stopped, pi, holds,
                 row, folder, file, client, original, later, reaper, cleaning>>

\* reloadIdle finds the chat busy: the reload is due once the run is over.
ReloadComesDue ==
  /\ live # NoPi /\ running /\ ~reloadDue
  /\ reloadDue' = TRUE
  /\ UNCHANGED <<maps, pi, holds, inRun, disk, reqs, rest>>

\* reloadIdle on an idle chat: pi reloads under the edit lock.
ReloadBegins ==
  /\ live # NoPi /\ ~running /\ ~inRun /\ editing = NoOne
  /\ editing' = Reload /\ reloadDue' = FALSE
  /\ UNCHANGED <<live, launch, born, after, releasing, discarding, stopped, pi, holds, inRun, disk, reqs, rest>>

\* Due still, where it failed.
ReloadEnds ==
  /\ editing = Reload
  /\ editing' = NoOne
  /\ reloadDue' \in {reloadDue, live # NoPi}
  /\ UNCHANGED <<live, launch, born, after, releasing, discarding, stopped, pi, holds, inRun, disk, reqs, rest>>

\* A container's pi exits, on its own or killed: out of the map, and its container removed
\* by name, which nothing waits for.
Crash ==
  /\ container /\ live # NoPi
  /\ live' = NoPi
  /\ pi' = [pi EXCEPT ![live] = "gone"]
  /\ inRun' = FALSE /\ reloadDue' = FALSE /\ running' = FALSE
  /\ cleaning' = TRUE
  /\ UNCHANGED <<launch, born, after, releasing, editing, discarding, stopped, holds,
                 row, folder, file, reqs, reaper, used>>

\* `docker rm -f` with the chat's container name: it kills whichever container
\* has that name by now, whose pi's exit is heard of later.
CleanUp ==
  /\ cleaning
  /\ cleaning' = FALSE
  /\ pi' = [p \in Pis |-> IF p = live THEN "dead" ELSE pi[p]]
  /\ UNCHANGED <<maps, holds, inRun, reloadDue, disk, reqs, reaper, used>>
-----------------------------------------------------------------------------
(* removeMessage, editMessage and switchVersion: withEdit and cut. *)

\* Faulty: an edit that does not ask whether the chat works.
EditBeginsBusy(e) ==
  /\ pc[e] = "idle" /\ row
  /\ editing = NoOne
  /\ editing' = e /\ Go(e, "settle")
  /\ UNCHANGED <<live, launch, born, after, releasing, discarding, stopped, pis, disk, client, original, later, rest>>

\* withEdit takes the lock, and cut refuses while the chat works.
EditBegins(e) ==
  /\ pc[e] = "idle" /\ row
  /\ editing = NoOne /\ ~running
  /\ editing' = e /\ Go(e, "settle")
  /\ UNCHANGED <<live, launch, born, after, releasing, discarding, stopped, pis, disk, client, original, later, rest>>

\* Faulty: an edit that does not wait for a launch in flight.
EditStopsEarly(e) ==
  /\ pc[e] = "settle"
  /\ StopPi
  /\ client' = [client EXCEPT ![e] = StopTarget]
  /\ Go(e, "stopping")
  /\ UNCHANGED <<launch, born, after, editing, discarding, stopped, holds, disk, original, later, rest>>

\* settleStart, then stop: a launch in flight is waited for first.
EditStops(e) ==
  /\ pc[e] = "settle" /\ launch = "none"
  /\ StopPi
  /\ client' = [client EXCEPT ![e] = StopTarget]
  /\ Go(e, "stopping")
  /\ UNCHANGED <<launch, born, after, editing, discarding, stopped, holds, disk, original, later, rest>>

\* The file is read and rewritten without the message, and its events go.
Rewrite(e) ==
  /\ pc[e] = "stopping" /\ Released(client[e]) /\ ~container
  /\ original' = [original EXCEPT ![e] = file]
  /\ file' = IF folder THEN e ELSE file
  /\ Go(e, "cut")
  /\ UNCHANGED <<maps, pis, running, row, folder, client, later, rest>>

\* Faulty: an edit that fails keeps the lock.
EditRefusedHolds(e) ==
  /\ pc[e] = "stopping" /\ Released(client[e])
  /\ Go(e, "done")
  /\ UNCHANGED <<live, launch, born, after, releasing, editing, discarding, stopped, pis, disk, client, original, later, rest>>

\* The message is not in the file, its events would not go and the file was put
\* back, or pi is in a container: the edit fails and lets go of the lock.
EditRefused(e) ==
  /\ pc[e] = "stopping" /\ Released(client[e])
  /\ editing' = NoOne /\ Go(e, "done")
  /\ UNCHANGED <<live, launch, born, after, releasing, discarding, stopped, pis, disk, client, original, later, rest>>

\* A removal is over with the cut.
Removed(e) ==
  /\ pc[e] = "cut"
  /\ editing' = NoOne /\ Go(e, "done")
  /\ UNCHANGED <<live, launch, born, after, releasing, discarding, stopped, pis, disk, client, original, later, rest>>

\* An edit goes on to send the replacement, under the lock: refused where the
\* chat is being deleted.
SendReplacement(e) ==
  /\ pc[e] = "cut"
  /\ IF discarding THEN Go(e, "undo") /\ UNCHANGED running
                   ELSE Go(e, "enter") /\ running' = TRUE
  /\ UNCHANGED <<maps, pis, row, folder, file, client, original, later, rest>>

ReplacementEnters(e) ==
  /\ pc[e] = "enter" /\ ~discarding
  /\ Lookup(e)
  /\ Touch /\ UNCHANGED stopped

ReplacementRefused(e) ==
  /\ pc[e] = "enter" /\ discarding
  /\ pc' = EditsStand([pc EXCEPT ![e] = "undo"]) /\ running' = FALSE
  /\ UNCHANGED <<maps, pis, row, folder, file, client, original, later, rest>>

\* pi has the replacement, or a Stop kept it from being sent: the lock goes.
\* Refused by pi, the edit goes back.
SubmitReplacement(e) ==
  /\ pc[e] = "using" /\ e \in Editors
  /\ stopped' = stopped \ {e}
  /\ \/ /\ e \in stopped
        /\ pc' = EditsStand([pc EXCEPT ![e] = "done"])
        /\ editing' = NoOne /\ running' = FALSE
        /\ UNCHANGED <<inRun, later>>
     \/ /\ e \notin stopped /\ pi[client[e]] = "up"
        /\ Go(e, "sent") /\ editing' = NoOne /\ inRun' = TRUE /\ running' = TRUE
        /\ later' = later \cup Sent
     \/ /\ e \notin stopped
        /\ pc' = EditsStand([pc EXCEPT ![e] = "undo"]) /\ running' = FALSE
        /\ UNCHANGED <<editing, inRun, later>>
  /\ Touch
  /\ UNCHANGED <<live, launch, born, after, releasing, discarding, pi, holds, reloadDue,
                 row, folder, file, client, original, reaper, cleaning>>

\* undo(): the same two waits as cut, and the file as it was.
UndoStops(e) ==
  /\ pc[e] = "undo" /\ launch = "none"
  /\ StopPi
  /\ client' = [client EXCEPT ![e] = StopTarget]
  /\ Go(e, "unstop")
  /\ UNCHANGED <<launch, born, after, editing, discarding, stopped, holds, disk, original, later, rest>>

Restore(e) ==
  /\ pc[e] = "unstop" /\ Released(client[e])
  /\ file' = IF folder THEN original[e] ELSE file
  /\ editing' = NoOne /\ Go(e, "done")
  /\ UNCHANGED <<live, launch, born, after, releasing, discarding, stopped, pis,
                 running, row, folder, client, original, later, rest>>
-----------------------------------------------------------------------------
(* deleteChat and discard, and reopen where it fails. *)

DeleteBegins(d) ==
  /\ pc[d] = "idle" /\ row
  /\ discarding' = TRUE /\ Go(d, "settle")
  /\ UNCHANGED <<live, launch, born, after, releasing, editing, stopped, pis, disk, client, original, later, rest>>

\* settleStart; then abort(), which asks pi to end its run, or with no pi up is a
\* Stop to who waits for one.
DeleteAborts(d) ==
  /\ pc[d] = "settle" /\ d \in Deleters /\ launch = "none"
  /\ IF live = NoPi THEN Go(d, "settle2") /\ stopped' = stopped \cup WaitForPi
                    ELSE Go(d, "abort") /\ UNCHANGED stopped
  /\ UNCHANGED <<live, launch, born, after, releasing, editing, discarding, pis, disk,
                 client, original, later, rest>>

\* pi's own abort is over, which nothing bounds on the host; the portal has not
\* always heard by then that the run settled.
AbortReturns(d) ==
  /\ pc[d] = "abort"
  /\ Go(d, "unsettled")
  /\ UNCHANGED <<maps, pis, disk, client, original, later, rest>>

\* Faulty: a delete that waits for the run to settle for as long as that takes.
AbortedUnbounded(d) ==
  /\ pc[d] = "unsettled" /\ ~inRun
  /\ running' = FALSE
  /\ pc' = EditsStand([pc EXCEPT ![d] = "settle2"])
  /\ UNCHANGED <<maps, pis, row, folder, file, client, original, later, rest>>

\* whenSettled: the run has settled, or ten seconds are over.
Aborted(d) ==
  /\ pc[d] = "unsettled"
  /\ running' = FALSE
  /\ pc' = EditsStand([pc EXCEPT ![d] = "settle2"])
  /\ UNCHANGED <<maps, pis, row, folder, file, client, original, later, rest>>

\* settleStart again: a prompt can have started a launch meanwhile.
DeleteStops(d) ==
  /\ pc[d] = "settle2" /\ launch = "none"
  /\ StopPi
  /\ client' = [client EXCEPT ![d] = StopTarget]
  /\ Go(d, "stopping")
  /\ UNCHANGED <<launch, born, after, editing, discarding, stopped, holds, disk, original, later, rest>>

\* The rows go, and then the files.
Deleted(d) ==
  /\ pc[d] = "stopping" /\ d \in Deleters /\ Released(client[d])
  /\ row' = FALSE /\ folder' = FALSE /\ running' = FALSE
  /\ discarding' = FALSE
  /\ Go(d, "done")
  /\ UNCHANGED <<live, launch, born, after, releasing, editing, stopped, pis, file, client, original, later, rest>>

\* The delete did not go through: the chat takes messages again.
Reopen(d) ==
  /\ pc[d] = "stopping" /\ d \in Deleters /\ Released(client[d])
  /\ discarding' = FALSE
  /\ Go(d, "done")
  /\ UNCHANGED <<live, launch, born, after, releasing, editing, stopped, pis, disk, client, original, later, rest>>
-----------------------------------------------------------------------------
(* reapIdle: a pi nobody has used for twenty minutes is let go. *)

\* It has been idle for long enough, and can carry its conversation on when it is
\* started again; its background jobs are looked for.
ReapLooks ==
  /\ live # NoPi /\ ~InUse /\ reaper = NoPi /\ ~container
  /\ reaper' = live /\ used' = FALSE
  /\ UNCHANGED <<maps, pis, disk, reqs, cleaning>>

\* Faulty: the reaper does not look at the chat again after its look at the jobs.
ReapStopsBlind ==
  /\ reaper # NoPi /\ live = reaper
  /\ StopPi
  /\ reaper' = NoPi
  /\ UNCHANGED <<launch, born, after, editing, discarding, stopped, holds, disk, reqs, used, cleaning>>

\* The look took a moment, in which the chat may have been used.
ReapStops ==
  /\ reaper # NoPi /\ live = reaper /\ ~used /\ ~InUse
  /\ StopPi
  /\ reaper' = NoPi
  /\ UNCHANGED <<launch, born, after, editing, discarding, stopped, holds, disk, reqs, used, cleaning>>

ReapLeaves ==
  /\ reaper # NoPi
  /\ reaper' = NoPi
  /\ UNCHANGED <<maps, pis, disk, reqs, used, cleaning>>
-----------------------------------------------------------------------------
CallerStep(c) == Arrive(c) \/ ReloadForPrompt(c) \/ PassGate(c) \/ Enter(c) \/ EnterRefused(c) \/ Door(c) \/ Submit(c)

EditStep(e) ==
  \/ EditBegins(e) \/ EditStops(e) \/ Rewrite(e) \/ EditRefused(e) \/ Removed(e)
  \/ SendReplacement(e) \/ ReplacementEnters(e) \/ ReplacementRefused(e)
  \/ SubmitReplacement(e) \/ UndoStops(e) \/ Restore(e)

DeleteStep(d) ==
  DeleteBegins(d) \/ DeleteAborts(d) \/ AbortReturns(d) \/ Aborted(d) \/ DeleteStops(d) \/ Deleted(d) \/ Reopen(d)

LaunchStep == ServersSettled \/ Create \/ CreateRefused \/ Created \/ CreateFails \/ LaunchSettles

RunStep == RunEnds \/ RunFails \/ ReloadComesDue \/ ReloadBegins \/ ReloadEnds \/ Crash \/ CleanUp

StopStep == StopCold \/ StopIdle \/ ReapLooks \/ ReapStops \/ ReapLeaves

Step ==
  \/ \E c \in Callers : CallerStep(c)
  \/ \E e \in Editors : EditStep(e)
  \/ \E d \in Deleters : DeleteStep(d)
  \/ LaunchStep
  \/ \E p \in Pis : Release(p)
  \/ RunStep
  \/ StopStep

Next == Step /\ UNCHANGED container

Spec == Init /\ [][Next]_vars

\* What the server does of its own accord is not put off for ever: promises that
\* have settled run, launches, reloads and releases come back (a release is cut
\* off after three seconds).  Who waits for the edit lock is woken by its release,
\* before any request that could take it again: fairness for prompts is strong.
\* Nobody has to send, edit, delete or stop anything,
\* and nothing is said about how long a run takes, a delete's request that it end
\* included: pi on the host answers that one when its run has wound down, and a
\* container's is given up on after thirty seconds (PiRpcClient.send).
Unbounded(d) == pc[d] = "abort" /\ inRun /\ ~container

Fairness ==
  /\ \A c \in Callers : SF_moves(CallerStep(c) /\ pc[c] # "idle")
  /\ \A e \in Editors : WF_moves(EditStep(e) /\ pc[e] # "idle")
  /\ \A d \in Deleters : WF_moves(DeleteStep(d) /\ pc[d] # "idle" /\ ~Unbounded(d))
  /\ WF_moves(LaunchStep)
  /\ \A p \in Pis : WF_moves(Release(p))
  /\ WF_moves(ReloadEnds)

FairSpec == Spec /\ Fairness
-----------------------------------------------------------------------------
(* Safety. *)

\* At most one pi at a time has the chat's conversation file, from the moment it
\* is created on it until its extensions have wound down (ensureClient and
\* startClient: two callers on a cold chat do not both launch, and the next pi
\* starts after the one that was let go, not beside it).
OnePi == \A p, q \in Pis : Alive(p) /\ Alive(q) => p = q

\* The pi a chat is answered by holds the conversation its file holds: never the
\* one an edit has replaced (cut: one still starting is waited for, or it would
\* go live on the old conversation once the file was rewritten).
LivePiHoldsFile == live # NoPi => holds[live] = file

\* Once a chat is deleted no pi of it is up or being launched, and nothing has
\* made its folder again (discard, and the checks startClient makes after its
\* waits).
NoPiOutlivesChat == ~row => ~folder /\ \A p \in Pis : ~Alive(p)

\* The file changes under no pi: not one that is up, being created, or still
\* winding down, which would write its own version back over the edit (cut and
\* its undo).
RewrittenAlone == [][file' # file => \A p \in Pis : ~Alive(p)]_vars

\* An edit that goes back puts back what it replaced itself: no other edit has
\* been made since, whose work that would undo (settleEdit).
UndoesItsOwn == [][\A e \in Editors : pc[e] = "unstop" /\ pc'[e] = "done" /\ folder => file = e]_vars

\* The reaper never stops a pi that a request has been given and is still to
\* use, though it looked elsewhere between finding it idle and stopping it
\* (reapIdle reads everything again after holdsJobs).
ReaperSparesUse ==
  [][reaper # NoPi /\ reaper' = NoPi /\ live' # live =>
       \A r \in Requests : pc[r] = "using" => client[r] # live]_vars

(* The inductive invariant behind OnePi, LivePiHoldsFile and RewrittenAlone. *)

\* Which pi is where, and that a launch and a live pi exclude each other until
\* `starting` is cleared.
PisInPlace ==
  /\ \A p \in Pis : pi[p] = "starting" => launch = "created" /\ p = born
  /\ \A p \in Pis : pi[p] \in {"up", "dead"} => p = live
  /\ \A p \in Pis : pi[p] = "closing" => p = releasing
  /\ live # NoPi => pi[live] \in {"up", "dead"} /\ launch \in {"none", "up"} /\ releasing = NoPi
  /\ releasing # NoPi => pi[releasing] = "closing"
  /\ launch = "wind" => releasing \in {NoPi, after}
  /\ launch = "created" => born \in Pis /\ pi[born] = "starting" /\ releasing = NoPi

\* Who is past withEdit holds the lock, and once it has stopped pi nothing starts
\* one until it has rewritten the file.
Locked == {"settle", "stopping", "cut", "enter", "starting", "using", "undo", "unstop"}
EditsLocked ==
  \A e \in Editors :
    /\ pc[e] \in Locked => editing = e
    /\ pc[e] \in {"stopping", "unstop"} =>
         live = NoPi /\ launch = "none" /\ releasing \in {NoPi, client[e]}

PisReadTheFile ==
  /\ live # NoPi => holds[live] = file
  /\ launch = "created" => holds[born] = file

IInv == TypeOK /\ PisInPlace /\ EditsLocked /\ PisReadTheFile

(* Liveness. *)

\* A prompt is never held for good: by an edit, by the launch it shares, or by
\* the pi that is winding down (whenEditable, starting, releasing).
PromptsAnswered == \A c \in Callers : pc[c] = "gate" ~> pc[c] = "done"

\* An edit lets go of the conversation, whatever fails on its way (withEdit).
EditsLetGo == \A e \in Editors : editing = e ~> editing # e

\* A delete comes to an end, though it waits for a launch, a run and a release
\* (discard), except where the run it asked to end goes on for ever, in a pi on the
\* host: nothing but that run holds it for good.
DeletesEnd == \A d \in Deleters : pc[d] = "settle" ~> (pc[d] = "done" \/ []Unbounded(d))

(* What the code says of itself and does not keep: each is refuted by a run. *)

\* settleEdit: an edit whose run failed before a word of answer goes back unless
\* something was sent since, or is on its way.
FailedEditGoesBack ==
  [][\A e \in Editors : RunFails /\ GoesBack(e, pc) /\ editing = NoOne => pc'[e] = "undo"]_vars

\* Executor.cleanup: removes what is left behind of a container, not the
\* container of the pi that was started since.
CleanUpSparesTheNext == [][cleaning /\ ~cleaning' => pi' = pi]_vars
=============================================================================
