------------------------------- MODULE Restart -------------------------------
(* What the messages of a chat, and the run that answers them, come to when the
   portal dies or is stopped: shutdown() of session-manager.ts, and the next
   start's recoverOrphans() with settleOrphanedMessages(), over what prompt(),
   takeIn() and pi had done by then.

   What is told: of a message sent into a run, whether pi took it in
   (portal_taken) or never got it (portal_unsent), by counting its words in pi's
   file; of a run, that it was cut off (status "interrupted").

   One chat.  The others show as the time their aborts take, which may be longer
   than this one's.  How messages go into pi is MessageQueue's; here it is as short
   as the crash allows: first in, first out, and a Stop by a person is left out.

   A message is its row's number.  What waits anywhere waits in that order, so sets
   of messages do for queues. *)
EXTENDS Integers, Sequences, FiniteSets

CONSTANTS
  Words,    \* what messages can say; two may say the same
  MaxSent,  \* bound on the messages
  MaxEnds   \* bound on crashes and stops of the portal

ASSUME RestartAssumption == MaxSent \in Nat /\ MaxEnds \in Nat

VARIABLES
  \* the database
  rows,      \* the portal_prompt events, by order, with what settled each
  status,    \* the chat's status; "idle" stands for "error" too
  \* pi, and its file
  written,   \* the messages in the file
  run,       \* "none", "preflight" of the message in `own`, "going", or "aborted" but not settled yet
  own,       \* the message that starts, or started, the run; 0 for none
  queue,     \* what pi has queued into it
  unwritten, \* what pi took in and has not put into the file yet
  said,      \* the messages it said it took in, and the portal has not heard of
  settled,   \* pi has said that the run is over, behind these
  \* the portal's memory
  server,    \* "up"; "closing", aborting; "stopping", aborted; "down"; "starting", "settling"
  waiting,   \* the messages sent into a run and not placed yet
  handed,    \* those pi has accepted (inPi)
  orphans, left, lost,  \* settleOrphanedMessages: those to settle, the words left in the file, those not found
  \* history
  read,      \* the messages pi took in
  cut,       \* the last run was cut off by the portal's end
  cleared,   \* the messages a stop took out of pi's queue
  overtaken, \* the last stop recorded the run as going before it was heard to settle
  ends       \* how often it has ended

db       == <<rows, status>>
pi       == <<written, run, own, queue, unwritten, said, settled>>
recovery == <<orphans, left, lost>>
memory   == <<server, waiting, handed, recovery>>
history  == <<read, cut, cleared, overtaken, ends>>
vars     == <<db, pi, memory, history>>

Ids   == 1..MaxSent
Marks == {"none", "taken", "unsent", "unsure", "gone"}

TypeOK ==
  /\ rows \in Seq([words : Words, queued : BOOLEAN, mark : Marks]) /\ Len(rows) <= MaxSent
  /\ status \in {"idle", "running", "interrupted"}
  /\ run \in {"none", "preflight", "going", "aborted"} /\ own \in {0} \cup Ids /\ settled \in BOOLEAN
  /\ server \in {"up", "closing", "stopping", "down", "starting", "settling"}
  /\ \A S \in {written, queue, unwritten, said, waiting, handed, orphans, lost, read, cleared} : S \subseteq Ids
  /\ left \in [Words -> Int]
  /\ cut \in BOOLEAN /\ overtaken \in BOOLEAN /\ ends \in 0..MaxEnds

Nothing == [w \in Words |-> 0]

Init ==
  /\ rows = <<>> /\ status = "idle"
  /\ written = {} /\ run = "none" /\ own = 0 /\ queue = {} /\ unwritten = {} /\ said = {} /\ settled = FALSE
  /\ server = "up" /\ waiting = {} /\ handed = {}
  /\ orphans = {} /\ left = Nothing /\ lost = {}
  /\ read = {} /\ cut = FALSE /\ cleared = {} /\ overtaken = FALSE /\ ends = 0
-----------------------------------------------------------------------------
(* The helpers of db.ts and session-manager.ts. *)

Serving == server \in {"up", "closing", "stopping"}

First(S) == CHOOSE i \in S : \A j \in S : i <= j

Mark(S, m) == [i \in DOMAIN rows |-> IF i \in S THEN [rows[i] EXCEPT !.mark = m] ELSE rows[i]]

\* Faulty: counts what was dropped as sent.
SentAll == {i \in DOMAIN rows : rows[i].mark # "gone"}

\* sentMessages: a message that never reached pi is not one of them.
Sent == {i \in DOMAIN rows : rows[i].mark \notin {"unsent", "unsure", "gone"}}

\* unsettledMessages: sent into a run, and neither taken in nor dropped.
Unsettled == {i \in DOMAIN rows : rows[i].queued /\ rows[i].mark = "none"}

CountOf(S, w) == Cardinality({i \in S : rows[i].words = w})

\* Faulty: every message with the words in the file is read.
LeftAll == [w \in Words |-> CountOf(written, w)]

\* How often each text is in pi's file beyond the messages accounted for already.
Left == [w \in Words |-> CountOf(written, w) - CountOf(Sent \ Unsettled, w)]
-----------------------------------------------------------------------------
(* A message into pi. *)

\* Between a run's end and the moment the portal hears of it, a message is MessageQueue's.
CanSend == server = "up" /\ Len(rows) < MaxSent /\ ~settled

\* Faulty: the chat is marked as running once pi has begun to.
SendToIdleMarkedLate(w) ==
  /\ CanSend /\ run = "none" /\ waiting = {}
  /\ rows' = Append(rows, [words |-> w, queued |-> FALSE, mark |-> "none"])
  /\ run' = "preflight" /\ own' = Len(rows) + 1
  /\ cut' = FALSE /\ overtaken' = FALSE
  /\ status' = "idle"
  /\ UNCHANGED <<written, queue, unwritten, said, settled, memory, read, cleared, ends>>

\* prompt() marks the chat as running before anything else; pi then takes a moment.
SendToIdle(w) ==
  /\ CanSend /\ run = "none" /\ waiting = {}
  /\ rows' = Append(rows, [words |-> w, queued |-> FALSE, mark |-> "none"])
  /\ run' = "preflight" /\ own' = Len(rows) + 1
  /\ cut' = FALSE /\ overtaken' = FALSE
  /\ status' = "running"
  /\ UNCHANGED <<written, queue, unwritten, said, settled, memory, read, cleared, ends>>

\* Into a run, or behind a message on its way to pi, it waits.
SendInto(w) ==
  /\ CanSend /\ (run # "none" \/ waiting # {})
  /\ rows' = Append(rows, [words |-> w, queued |-> TRUE, mark |-> "none"])
  /\ waiting' = waiting \cup {Len(rows) + 1}
  /\ UNCHANGED <<status, pi, server, handed, recovery, history>>

\* The next message goes to pi, each once the one before has been accepted.
Unhanded == waiting \ handed

Hand ==
  /\ server = "up" /\ run = "going" /\ Unhanded # {}
  /\ queue' = queue \cup {First(Unhanded)} /\ handed' = handed \cup {First(Unhanded)}
  /\ UNCHANGED <<db, written, run, own, unwritten, said, settled, server, waiting, recovery, history>>

\* The run ended while it waited its turn: it starts one of its own.
HandToIdle ==
  /\ server = "up" /\ run = "none" /\ said = {} /\ ~settled /\ Unhanded # {}
  /\ run' = "preflight" /\ own' = First(Unhanded) /\ handed' = handed \cup {own'}
  /\ UNCHANGED <<db, written, queue, unwritten, said, settled, server, waiting, recovery, history>>

\* pi refuses it: one that waited leaves the transcript.
PreflightRefuses ==
  /\ server = "up" /\ run = "preflight"
  /\ run' = "none" /\ status' = "idle"
  /\ rows' = Mark({own} \cap waiting, "gone") /\ waiting' = waiting \ {own}
  /\ UNCHANGED <<written, own, queue, unwritten, said, settled, server, handed, recovery, history>>

\* An extension takes it in, and no run comes of it: it is never in the file.
PreflightHandled ==
  /\ server = "up" /\ run = "preflight"
  /\ run' = "none" /\ status' = "idle" /\ read' = read \cup {own}
  /\ rows' = Mark({own} \cap waiting, "taken") /\ waiting' = waiting \ {own}
  /\ UNCHANGED <<written, own, queue, unwritten, said, settled, server, handed, recovery, cut, cleared, overtaken, ends>>

TakesIn(i) ==
  /\ read' = read \cup {i} /\ said' = said \cup {i} /\ unwritten' = unwritten \cup {i}

PreflightEnds ==
  /\ Serving /\ run = "preflight"
  /\ run' = "going" /\ TakesIn(own)
  /\ UNCHANGED <<db, written, own, queue, settled, memory, cut, cleared, overtaken, ends>>

PiReads ==
  /\ Serving /\ run = "going" /\ queue # {}
  /\ TakesIn(First(queue)) /\ queue' = queue \ {First(queue)}
  /\ UNCHANGED <<db, written, run, own, settled, memory, cut, cleared, overtaken, ends>>

PiWrites ==
  /\ Serving /\ unwritten # {}
  /\ written' = written \cup {First(unwritten)} /\ unwritten' = unwritten \ {First(unwritten)}
  /\ UNCHANGED <<db, run, own, queue, said, settled, memory, history>>

\* The run is over, or its abort is: said a moment after, once the extensions have heard.
PiSettles ==
  /\ Serving /\ unwritten = {}
  /\ \/ run = "going" /\ queue = {} /\ server = "up"
     \/ run = "aborted"
  /\ run' = "none" /\ settled' = TRUE
  /\ UNCHANGED <<db, written, own, queue, unwritten, said, memory, history>>

\* takeIn: a waiting message is placed where pi took it in; the first of a run comes
\* behind its agent_start.
HearRead ==
  /\ Serving /\ said # {}
  /\ said' = said \ {First(said)}
  /\ rows' = Mark({First(said)} \cap waiting, "taken") /\ waiting' = waiting \ {First(said)}
  /\ status' = "running"
  /\ UNCHANGED <<written, run, own, queue, unwritten, settled, server, handed, recovery, history>>

\* agent_settled: what was in pi's queue and is not any more was taken in after all.
HearSettled ==
  /\ Serving /\ said = {} /\ settled
  /\ LET taken == (waiting \cap handed) \ queue
     IN  rows' = Mark(taken, "taken") /\ waiting' = waiting \ taken
  /\ settled' = FALSE /\ status' = "idle"
  /\ overtaken' = (overtaken \/ server = "stopping")
  /\ UNCHANGED <<written, run, own, queue, unwritten, said, server, handed, recovery, read, cut, cleared, ends>>
-----------------------------------------------------------------------------
(* The portal ends. *)

\* What pi had not put into its file by then may or may not get there.
LastWrites == \E n \in {0} \cup unwritten : written' = written \cup {i \in unwritten : i <= n}

\* What was in memory, of the portal and of pi, is gone.
Ends ==
  /\ LastWrites
  /\ run' = "none" /\ own' = 0 /\ queue' = {} /\ unwritten' = {} /\ said' = {} /\ settled' = FALSE
  /\ server' = "down" /\ waiting' = {} /\ handed' = {}
  /\ orphans' = {} /\ left' = Nothing /\ lost' = {}
  /\ ends < MaxEnds /\ ends' = ends + 1
  /\ UNCHANGED <<read, cleared, overtaken>>

\* A run, but for one a waiting message has only just begun: that message is told of instead.
BeingAnswered == (run # "none" \/ settled) /\ own \notin waiting

Crash ==
  /\ server # "down"
  /\ cut' = (cut \/ (Serving /\ BeingAnswered))
  /\ Ends
  /\ UNCHANGED db

\* stop() forgets pi: what it says from here on is not heard, and what waits was never sent.
StopPi ==
  /\ rows' = Mark(waiting, "unsent")
  /\ Ends

\* shutdown(): nothing goes into a run that is stopping.  A run that ended in this very
\* turn is put aside, as above.
Shutdown ==
  /\ server = "up" /\ status = "running" /\ ~settled /\ ends < MaxEnds
  /\ server' = "closing" /\ queue' = {} /\ cleared' = cleared \cup queue
  /\ UNCHANGED <<db, written, run, own, unwritten, said, settled, waiting, handed, recovery, read, cut, overtaken, ends>>

\* A chat at rest, or whose next message is still on its way to pi, has no run to abort.
ShutdownIdle ==
  /\ server = "up" /\ status # "running" /\ run # "going" /\ said = {} /\ ~settled
  /\ StopPi
  /\ UNCHANGED <<status, cut>>

\* The abort's answer comes behind what pi said before it, and what it took in is in
\* the file by then; a pi that will not wind down is not waited for.
AbortOver == server = "closing" /\ unwritten = {} /\ said = {}

\* The chat is left as running, and its pi stopped in the same turn.
AbortsAlone ==
  /\ AbortOver
  /\ status' = "running" /\ cut' = TRUE
  /\ StopPi

\* Another chat's abort is waited for first.
AbortsFirst ==
  /\ AbortOver
  /\ status' = "running" /\ server' = "stopping" /\ cut' = TRUE
  /\ run' \in {run, IF run = "going" THEN "aborted" ELSE run}
  /\ UNCHANGED <<rows, written, own, queue, unwritten, said, settled, waiting, handed, recovery, read, cleared, overtaken, ends>>

StopsLast ==
  /\ server = "stopping" /\ said = {}
  /\ StopPi
  /\ UNCHANGED <<status, cut>>
-----------------------------------------------------------------------------
(* The next start: recoverOrphans. *)

\* markOrphanedSessionsInterrupted: a chat that was running cannot be.
Boot ==
  /\ server = "down"
  /\ server' = "starting"
  /\ status' = IF status = "running" THEN "interrupted" ELSE status
  /\ UNCHANGED <<rows, pi, waiting, handed, recovery, history>>

\* settleOrphanedMessages reads pi's file, and what was sent.
Recall ==
  /\ server = "starting"
  /\ server' = "settling"
  /\ orphans' = Unsettled /\ left' = Left /\ lost' = {}
  /\ UNCHANGED <<db, pi, waiting, handed, history>>

\* The file cannot be read: which of them pi took in cannot be told.
RecallFails ==
  /\ server = "starting"
  /\ server' = "up"
  /\ rows' = Mark(Unsettled, "unsure")
  /\ UNCHANGED <<status, pi, waiting, handed, recovery, history>>

Oldest == First(orphans)

\* One with its words left in the file was read, and takes them.
SettleTaken ==
  /\ server = "settling" /\ orphans # {} /\ left[rows[Oldest].words] > 0
  /\ rows' = Mark({Oldest}, "taken")
  /\ left' = [left EXCEPT ![rows[Oldest].words] = @ - 1]
  /\ orphans' = orphans \ {Oldest}
  /\ UNCHANGED <<status, pi, server, waiting, handed, lost, history>>

SettleLost ==
  /\ server = "settling" /\ orphans # {} /\ left[rows[Oldest].words] <= 0
  /\ lost' = lost \cup {Oldest} /\ orphans' = orphans \ {Oldest}
  /\ UNCHANGED <<db, pi, server, waiting, handed, left, history>>

\* The rest is told in one event, and the portal listens.
Recovered ==
  /\ server = "settling" /\ orphans = {}
  /\ rows' = Mark(lost, "unsent") /\ lost' = {}
  /\ server' = "up"
  /\ UNCHANGED <<status, pi, waiting, handed, orphans, left, history>>
-----------------------------------------------------------------------------
SendStep == (\E w \in Words : SendToIdle(w) \/ SendInto(w)) \/ Hand \/ HandToIdle
PiStep   == PreflightRefuses \/ PreflightHandled \/ PreflightEnds \/ PiReads \/ PiWrites \/ PiSettles
HearStep == HearRead \/ HearSettled
EndStep  == Crash \/ Shutdown \/ ShutdownIdle \/ AbortsAlone \/ AbortsFirst \/ StopsLast
BootStep == Boot \/ Recall \/ RecallFails \/ SettleTaken \/ SettleLost \/ Recovered

Next == SendStep \/ PiStep \/ HearStep \/ EndStep \/ BootStep

Spec == Init /\ [][Next]_vars
-----------------------------------------------------------------------------
(* Properties. *)

Twins(i, j) == i # j /\ rows[i].words = rows[j].words

\* A message offered again as not sent is not in the agent's history: it would be
\* said twice.  The count goes wrong by equal words alone, one for one: only where
\* another message with the same words is taken as sent, and is not in the file
\* (settleOrphanedMessages, whatever crash cut short the run, the stop or the last start).
OfferedUnread ==
  server = "up" =>
    \A i \in DOMAIN rows : rows[i].mark = "unsent" /\ i \in written =>
      \E j \in DOMAIN rows : Twins(i, j) /\ rows[j].mark \in {"none", "taken"} /\ j \notin written

\* A message shown as read by the agent was read: nobody would send it again.  Only
\* where another with the same words is in the file, and was said not to be, is it
\* taken for that one (settleOrphanedMessages, settleWaiting, takeIn).  What a stop
\* took out of pi's queue is left to ClearedIsTold.
ShownReadIsRead ==
  server = "up" =>
    \A i \in DOMAIN rows : rows[i].mark = "taken" /\ i \notin read \cup cleared =>
      \E j \in DOMAIN rows : Twins(i, j) /\ j \in written /\ rows[j].mark \in {"unsent", "unsure"}

\* The chat says it was cut off when its last run was, by a crash at any step or by a
\* stop of the portal, and not when it was not (markOrphanedSessionsInterrupted).
\* A stop that another chat held up is left to NextStartFindsIt.
CutOffSaid == server = "up" /\ ~overtaken => (status = "interrupted" <=> cut)

(* What the code says of itself and does not keep: each is refuted by a run. *)

\* settleOrphanedMessages: "one found there beyond the messages already accounted for was
\* read, and the rest never reached it".
RestNeverReachedPi == server = "up" => \A i \in DOMAIN rows : rows[i].mark = "unsent" => i \notin written

\* shutdown: "The abort settled the run, and the session with it.  The next start finds
\* it running, which is how it knows the run was cut off by a restart".
NextStartFindsIt == server = "up" /\ cut => status = "interrupted"

\* shutdown: a message taken out of pi's queue is "settled at the next start, as after a
\* crash": as not sent.
ClearedIsTold == \A i \in DOMAIN rows : i \in cleared /\ i \notin read => rows[i].mark # "taken"
=============================================================================
