---------------------------- MODULE MessageQueue ----------------------------
(* How session-manager.ts hands the messages of one chat to its pi, and keeps
   the page's account of them: a message sent while a run goes waits at the foot
   of the chat until pi takes it in, is placed there, or is marked as never sent
   by a Stop.  pi is up, in the portal's own process; how it got there is
   PiLifecycle's.

   Two accounts are kept apart here.  pi's own (piRun, queue, read) changes as
   its run goes; the session manager's (waiting, fresh, piQueue, inRun) follows
   from pi's events, which forward() holds for one turn of the event loop behind
   the end of a run.                                                         *)
EXTENDS Naturals, FiniteSets, SequencesExt

CONSTANTS
  Msgs,      \* messages
  Stops,     \* presses of the Stop button
  Backs,     \* those of them that may be a press to take a waiting message back instead
  Text,      \* the words of each
  Rewritten, \* and what an input handler or a template can make of them
  MaxRuns,   \* bound on the runs pi starts that no message asked for
  Patient,   \* TRUE: no preflight outlasts the five seconds a Stop waits for it
  Early,     \* TRUE: a Stop may come while a message is on its way to an idle pi, and a
             \* message be taken back that pi has read and that still shows as waiting
  None

Lanes == {"steering", "followUp"}
Links == Msgs \cup Stops

ASSUME LinksAssumption == Msgs \cap Stops = {} /\ Backs \subseteq Stops /\ None \notin Links /\ DOMAIN Text = Msgs /\ DOMAIN Rewritten = Msgs
ASSUME BoundsAssumption == MaxRuns \in Nat /\ Patient \in BOOLEAN /\ Early \in BOOLEAN

VARIABLES
  \* the session manager
  waiting,    \* messages sent mid-run that pi has not taken in yet, oldest first
  fresh,      \* messages handed to an idle pi whose own start has not come yet
  tail,       \* the last link of the chain `sending`, or None
  queued,     \* messages that were sent to wait their turn
  queuedAs,   \* messages whose words in pi's queue are known
  inPi,       \* messages pi has accepted
  piQueue,    \* what pi said is in its queue
  inRun,      \* pi is in a run, as its events have it
  running,    \* the chat's status is "running"
  \* pi
  piRun,      \* pi is in a run
  queue,      \* its queue, by lane
  runs,       \* the runs it began unasked
  events,     \* what it has said and the session manager has not heard
  \* the requests
  pc,         \* where each message and each Stop is
  lane,       \* a message steers the run, or follows it up
  words,      \* a message's words as pi has them
  ahead,      \* the links each waits behind
  outcome,    \* what pi made of a message
  sentBefore, \* what waited when a Stop was pressed
  chosen,     \* the message a press takes back, or None for a Stop
  again,      \* those it has still to send again
  \* the account of the messages
  read,       \* pi has read it, or an extension handled it
  placed,     \* it stands where pi took it in: portal_taken
  unsent      \* it is marked as never sent: portal_unsent

manager == <<waiting, fresh, tail, queued, queuedAs, inPi, piQueue, inRun, running>>
piVars  == <<piRun, queue, runs, events>>
presses == <<sentBefore, chosen, again>>
reqs    == <<pc, lane, words, ahead, outcome, presses>>
account == <<read, placed, unsent>>
vars    == <<manager, piVars, reqs, account>>

Phases   == {"idle", "prompting", "ahead", "handing", "accepted", "done",
             "drop", "abort", "settle", "over", "handed", "again", "gone"}
Outcomes == {"none", "started", "queued", "handled", "refused"}
Queues   == [Lanes -> Seq(Msgs)]
Event(kind, m, q) == [kind |-> kind, msg |-> m, queue |-> q]

TypeOK ==
  /\ waiting \in Seq(Msgs) /\ fresh \in Seq(Msgs)
  /\ tail \in Links \cup {None}
  /\ queued \subseteq Msgs /\ queuedAs \subseteq Msgs /\ inPi \subseteq Msgs
  /\ piQueue \in Queues /\ queue \in Queues
  /\ inRun \in BOOLEAN /\ running \in BOOLEAN /\ piRun \in BOOLEAN
  /\ runs \in 0..MaxRuns
  /\ \A i \in DOMAIN events : events[i].kind \in {"start", "read", "queue", "settled"}
  /\ pc \in [Links -> Phases]
  /\ lane \in [Msgs -> Lanes]
  /\ words \in [Msgs -> Range(Text) \cup Range(Rewritten)]
  /\ ahead \in [Links -> SUBSET Links]
  /\ outcome \in [Msgs -> Outcomes]
  /\ sentBefore \in [Stops -> SUBSET Msgs]
  /\ chosen \in [Stops -> Msgs \cup {None}] /\ again \in [Stops -> Seq(Msgs)]
  /\ read \subseteq Msgs /\ placed \subseteq Msgs /\ unsent \subseteq Msgs

Empty == [l \in Lanes |-> <<>>]

Init ==
  /\ waiting = <<>> /\ fresh = <<>> /\ tail = None
  /\ queued = {} /\ queuedAs = {} /\ inPi = {} /\ piQueue = Empty
  /\ inRun = FALSE /\ running = FALSE
  /\ piRun = FALSE /\ queue = Empty /\ runs = 0 /\ events = <<>>
  /\ pc = [k \in Links |-> "idle"]
  /\ lane = [m \in Msgs |-> "followUp"]
  /\ words = Text
  /\ ahead = [k \in Links |-> {}]
  /\ outcome = [m \in Msgs |-> "none"] /\ sentBefore = [s \in Stops |-> {}]
  /\ chosen = [s \in Stops |-> None] /\ again = [s \in Stops |-> <<>>]
  /\ read = {} /\ placed = {} /\ unsent = {}
-----------------------------------------------------------------------------
(* Helpers. *)

Waits(m) == m \in Range(waiting)
Without(list, S) == FoldLeft(LAMBDA kept, x : IF x \in S THEN kept ELSE Append(kept, x), <<>>, list)
Go(k, phase) == pc' = [pc EXCEPT ![k] = phase]

\* An event is heard as pi says it, unless the end of a run is being held.
Hearing == events # <<>> /\ events[1].kind # "settled"

\* whenHanded: none of those that wait is on its way into pi's queue.
Handed == \A m \in Range(waiting) : pc[m] \notin {"handing", "accepted"}

\* What pi has read is known to have been by the time a take-back looks.
Told == Early \/ \A m \in Range(waiting) : m \in inPi => m \notin read

\* The one being sent again is in pi, or was not sent: the next one's turn.
GoesOn(s) == pc[s] = "again" /\ (again[s] = <<>> \/ pc[Head(again[s])] \in {"again", "done"})

\* Promises that are through go on before anything new is heard, and the end of a
\* run is held for one turn of the event loop: in it, a preflight can end, and no
\* more.
Settling ==
  \/ \E k \in Links : pc[k] \in {"accepted", "over"}
  \/ \E s \in Backs : (pc[s] = "handed" /\ Handed /\ Told) \/ GoesOn(s)
  \/ \E s \in Stops : (pc[s] = "drop" /\ Handed) \/ (pc[s] = "abort" /\ ~piRun)
NextTurn == events = <<>> /\ ~Settling

\* The chain of what goes to pi: a link is behind the whole chain before it, and
\* the last one out takes `sending` away.
Chain == IF tail = None THEN {} ELSE {tail} \cup ahead[tail]
Out(k) == pc[k] \in {"idle", "done", "again", "gone"}
Behind(k) == \E j \in ahead[k] : ~Out(j)
Leave(k) == tail' = IF tail = k THEN None ELSE tail

\* A Stop between its gate and its end: `abortsUnderWay`.
UnderWay == \E s \in Stops : pc[s] \in {"drop", "abort", "settle", "over"}
-----------------------------------------------------------------------------
(* A message: prompt, promptNow and submit. *)

\* The chat is marked running, and its pi asked for.
Prompt(m) ==
  /\ NextTurn /\ pc[m] = "idle"
  /\ running' = TRUE
  /\ Go(m, "prompting")
  /\ \E l \in Lanes : lane' = [lane EXCEPT ![m] = l]
  /\ UNCHANGED <<waiting, fresh, tail, queued, queuedAs, inPi, piQueue, inRun, piVars,
                 words, ahead, outcome, presses, account>>

\* Faulty: `sending` is read once the message's own link is in it.
SubmitBehindItself(m) ==
  /\ NextTurn /\ pc[m] = "prompting"
  /\ LET queues == tail # None \/ piRun IN
       /\ queued' = IF queues THEN queued \cup {m} ELSE queued
       /\ waiting' = IF queues THEN Append(waiting, m) ELSE waiting
  /\ ahead' = [ahead EXCEPT ![m] = Chain \cup {m}] /\ tail' = m
  /\ Go(m, "ahead")
  /\ UNCHANGED <<fresh, queuedAs, inPi, piQueue, inRun, running, piVars,
                 lane, words, outcome, presses, account>>

\* It is recorded, waiting if it is to be queued into a run, and takes its place
\* in the chain.
Submit(m) ==
  /\ NextTurn /\ pc[m] = "prompting"
  /\ LET queues == tail # None \/ piRun IN
       /\ queued' = IF queues THEN queued \cup {m} ELSE queued
       /\ waiting' = IF queues THEN Append(waiting, m) ELSE waiting
  /\ ahead' = [ahead EXCEPT ![m] = Chain] /\ tail' = m
  /\ Go(m, "ahead")
  /\ UNCHANGED <<fresh, queuedAs, inPi, piQueue, inRun, running, piVars,
                 lane, words, outcome, presses, account>>

\* Faulty: it is handed to pi without its turn.
HandAtOnce(m) ==
  /\ NextTurn /\ pc[m] = "ahead"
  /\ m \in queued => Waits(m)
  /\ fresh' = IF piRun THEN fresh ELSE Append(fresh, m)
  /\ Go(m, "handing")
  /\ UNCHANGED <<waiting, tail, queued, queuedAs, inPi, piQueue, inRun, running, piVars,
                 lane, words, ahead, outcome, presses, account>>

\* Its turn: handed to pi.
Hand(m) ==
  /\ NextTurn /\ pc[m] = "ahead" /\ ~Behind(m)
  /\ m \in queued => Waits(m)
  /\ fresh' = IF piRun THEN fresh ELSE Append(fresh, m)
  /\ Go(m, "handing")
  /\ UNCHANGED <<waiting, tail, queued, queuedAs, inPi, piQueue, inRun, running, piVars,
                 lane, words, ahead, outcome, presses, account>>

\* Stopped while it was on its way: it is not sent.
NotSent(m) ==
  /\ NextTurn /\ pc[m] = "ahead" /\ ~Behind(m)
  /\ m \in queued /\ ~Waits(m)
  /\ Go(m, "done") /\ Leave(m)
  /\ UNCHANGED <<waiting, fresh, queued, queuedAs, inPi, piQueue, inRun, running, piVars,
                 lane, words, ahead, outcome, presses, account>>

\* unfresh: no start of its own is coming.
Unfresh(m, o) == IF o # "started" \/ ~piRun THEN Without(fresh, {m}) ELSE fresh

\* Faulty: a run that began as the message was handed over queued it unlisted.
WaitingUnlisted(m, o) == IF o \in {"handled", "refused"} THEN Without(waiting, {m}) ELSE waiting

\* It waits after all where a run began as it was handed over, and no more where
\* an extension took it or pi refused it.
WaitingAfter(m, o) ==
  CASE o = "queued" /\ m \notin queued -> Append(waiting, m)
    [] o \in {"handled", "refused"} -> Without(waiting, {m})
    [] OTHER -> waiting

\* Faulty: the run is not asked for once pi has taken the message.
RunningStill(m, o) == running /\ (o = "refused" => m \in queued /\ piRun)

\* The chat is idle where pi is, and failed where pi refused a message that was
\* not on its way into a run.
RunningAfter(m, o) == running /\ piRun /\ (o = "refused" => m \in queued)

\* client.prompt() has come back: the message is known by pi's words, or placed
\* where an extension took it, or out of the chat where pi refused it.
Accepted(m) ==
  /\ ~Hearing /\ pc[m] = "accepted"
  /\ LET o == outcome[m] IN
       /\ fresh' = Unfresh(m, o)
       /\ waiting' = WaitingAfter(m, o)
       /\ queued' = IF o = "queued" THEN queued \cup {m} ELSE queued
       /\ queuedAs' = IF o = "queued" THEN queuedAs \cup {m} ELSE queuedAs
       /\ placed' = IF o = "handled" /\ Waits(m) THEN placed \cup {m} ELSE placed
       /\ inPi' = IF o # "refused" /\ m \in queued' THEN inPi \cup {m} ELSE inPi
       /\ running' = RunningAfter(m, o)
  /\ Go(m, "done") /\ Leave(m)
  /\ UNCHANGED <<piQueue, inRun, piVars, lane, words, ahead, outcome, presses,
                 read, unsent>>
-----------------------------------------------------------------------------
(* pi. *)

Say(evs) == events' = events \o evs

\* Into the run that is going, in the words an input handler made of it.
PiQueues(m) ==
  /\ ~Hearing /\ ~Settling /\ pc[m] = "handing" /\ piRun
  /\ \E w \in {Text[m], Rewritten[m]} : words' = [words EXCEPT ![m] = w]
  /\ queue' = [queue EXCEPT ![lane[m]] = Append(@, m)]
  /\ Say(<<Event("queue", None, queue')>>)
  /\ outcome' = [outcome EXCEPT ![m] = "queued"]
  /\ Go(m, "accepted")
  /\ UNCHANGED <<manager, piRun, runs, lane, ahead, presses, account>>

\* It starts a run of its own.
PiStarts(m) ==
  /\ ~Hearing /\ ~Settling /\ pc[m] = "handing" /\ ~piRun
  /\ \E w \in {Text[m], Rewritten[m]} : words' = [words EXCEPT ![m] = w]
  /\ piRun' = TRUE /\ read' = read \cup {m}
  /\ Say(<<Event("start", None, Empty), Event("read", m, Empty)>>)
  /\ outcome' = [outcome EXCEPT ![m] = "started"]
  /\ Go(m, "accepted")
  /\ UNCHANGED <<manager, queue, runs, lane, ahead, presses, placed, unsent>>

\* An extension takes it, or its preflight fails.
PiDeclines(m) ==
  /\ ~Hearing /\ ~Settling /\ pc[m] = "handing"
  /\ \E o \in {"handled", "refused"} :
       /\ outcome' = [outcome EXCEPT ![m] = o]
       /\ read' = IF o = "handled" THEN read \cup {m} ELSE read
  /\ Go(m, "accepted")
  /\ UNCHANGED <<manager, piVars, lane, words, ahead, presses, placed, unsent>>

\* A run nobody here asked for: a job's news, an extension's message.
PiWakes ==
  /\ NextTurn /\ ~piRun /\ runs < MaxRuns
  /\ piRun' = TRUE /\ runs' = runs + 1
  /\ Say(<<Event("start", None, Empty)>>)
  /\ UNCHANGED <<manager, queue, reqs, account>>

\* The steers first, then the follow-ups.
PiReads ==
  /\ NextTurn /\ piRun
  /\ \E l \in Lanes :
       /\ queue[l] # <<>> /\ (l = "followUp" => queue["steering"] = <<>>)
       /\ queue' = [queue EXCEPT ![l] = Tail(@)]
       /\ read' = read \cup {Head(queue[l])}
       /\ Say(<<Event("queue", None, queue'), Event("read", Head(queue[l]), Empty)>>)
  /\ UNCHANGED <<manager, piRun, runs, reqs, placed, unsent>>

\* The run is over: answered, failed or aborted, with its queue as it is.
PiSettles ==
  /\ NextTurn /\ piRun
  /\ piRun' = FALSE
  /\ Say(<<Event("settled", None, Empty)>>)
  /\ UNCHANGED <<manager, queue, runs, reqs, account>>
-----------------------------------------------------------------------------
(* pi's events, as the session manager hears them. *)

First(test(_)) == LET i == SelectInSeq(waiting, test) IN IF i = 0 THEN None ELSE waiting[i]

\* Faulty: whichever waits longest.
TakenOldest(w) == First(LAMBDA m : TRUE)

\* takeIn, where no start of a run is expected: the waiting one pi queued in these
\* words, the steers before the follow-ups; or one whose words in pi's queue are not
\* known, by those it was sent with.
TakenIn(w) ==
  LET inLane(l) == First(LAMBDA m : m \in queuedAs /\ lane[m] = l /\ words[m] = w)
      bySent == First(LAMBDA m : m \notin queuedAs /\ Text[m] = w)
  IN  IF inLane("steering") # None THEN inLane("steering")
      ELSE IF inLane("followUp") # None THEN inLane("followUp") ELSE bySent

\* placeTaken, for each of these that waits.
Place(S) ==
  /\ waiting' = Without(waiting, S)
  /\ placed' = placed \cup (S \cap Range(waiting))

Hear(kind) == events # <<>> /\ events[1].kind = kind /\ events' = Tail(events)

HearStart ==
  /\ Hear("start")
  /\ inRun' = TRUE /\ running' = TRUE
  /\ UNCHANGED <<waiting, fresh, tail, queued, queuedAs, inPi, piQueue, piRun, queue, runs, reqs, account>>

HearQueue ==
  /\ Hear("queue")
  /\ piQueue' = events[1].queue
  /\ UNCHANGED <<waiting, fresh, tail, queued, queuedAs, inPi, inRun, running, piRun, queue, runs, reqs, account>>

HearRead ==
  /\ Hear("read")
  /\ IF fresh # <<>> THEN Place({fresh[1]}) /\ fresh' = Tail(fresh)
                     ELSE Place({TakenIn(words[events[1].msg])}) /\ UNCHANGED fresh
  /\ UNCHANGED <<tail, queued, queuedAs, inPi, piQueue, inRun, running, piRun, queue, runs, reqs, read, unsent>>

\* Faulty: pi's queue is searched for the words that were sent.
MatchBySent(acc, m) ==
  LET at(l)   == SelectInSeq(acc.queue[l], LAMBDA x : words[x] = Text[m])
      hits(l) == (m \in queuedAs => l = lane[m]) /\ at(l) # 0
      hit     == IF hits("steering") THEN "steering" ELSE "followUp"
  IN  CASE m \notin inPi -> acc
        [] m \in inPi /\ (\A l \in Lanes : ~hits(l)) -> [acc EXCEPT !.taken = @ \cup {m}]
        [] OTHER -> [acc EXCEPT !.queue[hit] = RemoveAt(@, at(hit))]

\* A message that waits against what is left of pi's queue: the first entry in its
\* words, and in its lane where pi's words for it are known.  Each entry stands for one
\* message; one that pi accepted, and that has none, was taken in.
Match(acc, m) ==
  LET at(l)   == SelectInSeq(acc.queue[l], LAMBDA x : words[x] = IF m \in queuedAs THEN words[m] ELSE Text[m])
      hits(l) == (m \in queuedAs => l = lane[m]) /\ at(l) # 0
      hit     == IF hits("steering") THEN "steering" ELSE "followUp"
  IN  CASE m \notin inPi -> acc
        [] m \in inPi /\ (\A l \in Lanes : ~hits(l)) -> [acc EXCEPT !.taken = @ \cup {m}]
        [] OTHER -> [acc EXCEPT !.queue[hit] = RemoveAt(@, at(hit))]

\* settleWaiting: of those pi accepted, the ones its queue does not hold were
\* taken in all the same.
Settled == FoldLeft(Match, [queue |-> piQueue, taken |-> {}], waiting).taken

\* The run is over: what it took in is placed, the chat is idle unless a Stop is
\* under way, and the Stops that wait for this go on (whenSettled).
HearSettled ==
  /\ Hear("settled") /\ ~Settling
  /\ Place(Settled)
  /\ inRun' = FALSE
  /\ running' = (running /\ UnderWay)
  /\ pc' = [k \in Links |-> IF k \in Stops /\ pc[k] = "settle" THEN "over" ELSE pc[k]]
  /\ UNCHANGED <<fresh, tail, queued, queuedAs, inPi, piQueue, piRun, queue, runs,
                 lane, words, ahead, outcome, presses, read, unsent>>
-----------------------------------------------------------------------------
(* The Stop button, with a pi that is up: abort, whenHanded and dropWaiting. *)

\* No message is on its way to an idle pi.
Calm == Early \/ piRun \/ \A m \in Msgs : Out(m) \/ pc[m] = "prompting"

\* What is sent from here on waits for the Stop to be over.
StopBegins(s) ==
  /\ NextTurn /\ pc[s] = "idle"
  /\ Calm
  /\ ahead' = [ahead EXCEPT ![s] = Chain] /\ tail' = s
  /\ sentBefore' = [sentBefore EXCEPT ![s] = Range(waiting)]
  /\ Go(s, "drop")
  /\ UNCHANGED <<waiting, fresh, queued, queuedAs, inPi, piQueue, inRun, running, piVars,
                 lane, words, outcome, chosen, again, account>>

\* Faulty: pi's queue is left as it is.
StopDropsOnPage(s) ==
  /\ pc[s] = "drop"
  /\ (Handed /\ ~Hearing) \/ (~Patient /\ NextTurn)
  /\ unsent' = unsent \cup (sentBefore[s] \cap Range(waiting))
  /\ waiting' = Without(waiting, sentBefore[s])
  /\ Go(s, "abort")
  /\ UNCHANGED <<fresh, tail, queued, queuedAs, inPi, piQueue, inRun, running, piVars,
                 lane, words, ahead, outcome, presses, read, placed>>

\* Faulty: what is being handed over is waited for without a bound.
StopDropsPatiently(s) ==
  /\ pc[s] = "drop"
  /\ Handed /\ ~Hearing
  /\ IF waiting = <<>> THEN UNCHANGED <<queue, events>>
                      ELSE queue' = Empty /\ Say(<<Event("queue", None, Empty)>>)
  /\ unsent' = unsent \cup (sentBefore[s] \cap Range(waiting))
  /\ waiting' = Without(waiting, sentBefore[s])
  /\ Go(s, "abort")
  /\ UNCHANGED <<fresh, tail, queued, queuedAs, inPi, piQueue, inRun, running, piRun, runs,
                 lane, words, ahead, outcome, presses, read, placed>>

\* What is being handed to pi is let into its queue, for five seconds at most, and
\* the queue emptied: what waited when the Stop was pressed is marked as not sent.
StopDrops(s) ==
  /\ pc[s] = "drop"
  /\ (Handed /\ ~Hearing) \/ (~Patient /\ NextTurn)
  /\ IF waiting = <<>> THEN UNCHANGED <<queue, events>>
                      ELSE queue' = Empty /\ Say(<<Event("queue", None, Empty)>>)
  /\ unsent' = unsent \cup (sentBefore[s] \cap Range(waiting))
  /\ waiting' = Without(waiting, sentBefore[s])
  /\ Go(s, "abort")
  /\ UNCHANGED <<fresh, tail, queued, queuedAs, inPi, piQueue, inRun, running, piRun, runs,
                 lane, words, ahead, outcome, presses, read, placed>>

\* pi is idle: its run's settling is waited for, where it was in one.
StopAborts(s) ==
  /\ ~Hearing /\ pc[s] = "abort" /\ ~piRun
  /\ Go(s, IF inRun THEN "settle" ELSE "over")
  /\ UNCHANGED <<manager, piVars, lane, words, ahead, outcome, presses, account>>

\* The chat is idle, and the gate opens.  A run that does not settle is waited for
\* ten seconds.
StopEnds(s) ==
  /\ ~Hearing
  /\ pc[s] = "over" \/ (pc[s] = "settle" /\ ~Patient)
  /\ running' = FALSE
  /\ Go(s, IF chosen[s] = None THEN "done" ELSE "again") /\ Leave(s)
  /\ UNCHANGED <<waiting, fresh, queued, queuedAs, inPi, piQueue, inRun, piVars,
                 lane, words, ahead, outcome, presses, account>>
-----------------------------------------------------------------------------
(* A message that waits taken back, dropped or sent now: takeBackWaiting. *)

\* What is being handed to pi is let into its queue first.
TakeBegins(s) ==
  /\ NextTurn /\ s \in Backs /\ pc[s] = "idle"
  /\ \E m \in Range(waiting) : chosen' = [chosen EXCEPT ![s] = m]
  /\ Go(s, "handed")
  /\ UNCHANGED <<manager, piVars, lane, words, ahead, outcome, sentBefore, again, account>>

\* whenHanded is over.
TakeFinds(s) ==
  /\ pc[s] = "handed" /\ Told
  /\ (Handed /\ ~Hearing) \/ (~Patient /\ NextTurn)

\* pi has taken it in meanwhile, or does not have it yet.
TakeRefused(s) ==
  /\ TakeFinds(s)
  /\ ~Waits(chosen[s]) \/ chosen[s] \notin inPi
  /\ Go(s, "done")
  /\ UNCHANGED <<manager, piVars, lane, words, ahead, outcome, presses, account>>

\* pi's queue is emptied as a whole, and the rows of all it held go: the message
\* chosen for good, or to be sent first once the run is stopped; the others to be
\* sent again in their order, as follow-ups where the run goes that they steered.
TakesBack(s) ==
  LET P      == Range(waiting) \cap inPi
      others == Without(waiting, (Msgs \ P) \cup {chosen[s]})
      Takes(list, phase) ==
        /\ again' = [again EXCEPT ![s] = list]
        /\ pc' = [k \in Links |-> CASE k = s -> phase
                                   [] k \in Range(list) -> "again"
                                   [] k \in P \ Range(list) -> "gone"
                                   [] OTHER -> pc[k]]
  IN  /\ TakeFinds(s) /\ chosen[s] \in P
      /\ waiting' = Without(waiting, P)
      /\ queue' = Empty /\ Say(<<Event("queue", None, Empty)>>)
      /\ inPi' = inPi \ P /\ queued' = queued \ P /\ queuedAs' = queuedAs \ P
      /\ words' = [m \in Msgs |-> IF m \in P THEN Text[m] ELSE words[m]]
      /\ outcome' = [m \in Msgs |-> IF m \in P THEN "none" ELSE outcome[m]]
      /\ \/ /\ Takes(others, "again")
            /\ ahead' = [k \in Links |-> ahead[k] \ P]
            /\ UNCHANGED <<lane, tail, sentBefore>>
         \/ /\ Calm /\ Takes(<<chosen[s]>> \o others, "drop")
            /\ lane' = [m \in Msgs |-> IF m \in P THEN "followUp" ELSE lane[m]]
            /\ ahead' = [k \in Links |-> (IF k = s THEN Chain ELSE ahead[k]) \ P] /\ tail' = s
            /\ sentBefore' = [sentBefore EXCEPT ![s] = Range(waiting')]
      /\ UNCHANGED <<fresh, piQueue, inRun, running, piRun, runs, chosen, account>>

\* The next of those to be sent again: prompt(), from its start.
SendsAgain(s) ==
  /\ ~Hearing /\ pc[s] = "again" /\ again[s] # <<>>
  /\ pc[Head(again[s])] = "again"
  /\ running' = TRUE
  /\ Go(Head(again[s]), "prompting")
  /\ UNCHANGED <<waiting, fresh, tail, queued, queuedAs, inPi, piQueue, inRun, piVars,
                 lane, words, ahead, outcome, presses, account>>

SentAgain(s) ==
  /\ ~Hearing /\ pc[s] = "again" /\ again[s] # <<>>
  /\ pc[Head(again[s])] = "done" /\ outcome[Head(again[s])] # "refused"
  /\ again' = [again EXCEPT ![s] = Tail(@)]
  /\ UNCHANGED <<manager, piVars, pc, lane, words, ahead, outcome, sentBefore, chosen, account>>

\* All are sent; or pi refused one, and the rest are not.
TakeEnds(s) ==
  /\ ~Hearing /\ pc[s] = "again"
  /\ again[s] # <<>> => pc[Head(again[s])] = "done" /\ outcome[Head(again[s])] = "refused"
  /\ again' = [again EXCEPT ![s] = <<>>]
  /\ Go(s, "done")
  /\ UNCHANGED <<manager, piVars, lane, words, ahead, outcome, sentBefore, chosen, account>>
-----------------------------------------------------------------------------
MessageStep(m) == Submit(m) \/ Hand(m) \/ NotSent(m) \/ Accepted(m)
PreflightEnds(m) == PiQueues(m) \/ PiStarts(m) \/ PiDeclines(m)
HearStep == HearStart \/ HearQueue \/ HearRead \/ HearSettled
StopStep(s) == StopDrops(s) \/ StopAborts(s) \/ StopEnds(s)
TakeStep(s) == TakeRefused(s) \/ TakesBack(s) \/ SendsAgain(s) \/ SentAgain(s) \/ TakeEnds(s)

Next ==
  \/ \E m \in Msgs : Prompt(m) \/ MessageStep(m) \/ PreflightEnds(m)
  \/ PiWakes \/ PiReads \/ PiSettles
  \/ HearStep
  \/ \E s \in Stops : StopBegins(s) \/ StopStep(s) \/ TakeBegins(s) \/ TakeStep(s)

Spec == Init /\ [][Next]_vars

\* The server goes on with what it has begun: nothing but the event loop stands
\* between a promise and what waits for it.  A run that is aborted settles.  Nobody
\* has to send or to stop anything, and nothing is said of how long a run takes
\* that no Stop ends.
PortalFairness ==
  /\ \A m \in Msgs : WF_vars(MessageStep(m))
  /\ WF_vars(HearStep)
  /\ \A s \in Stops : WF_vars(StopStep(s) \/ TakeStep(s)) /\ WF_vars(PiSettles /\ pc[s] = "abort")

\* pi's preflights may be stuck for good.
StuckSpec == Spec /\ PortalFairness
-----------------------------------------------------------------------------
(* Safety. *)

AtRest ==
  /\ \A k \in Links : Out(k)
  /\ ~piRun /\ events = <<>>

\* It is among those a press has still to send again.
Sending(m) == \E s \in Stops : m \in Range(again[s])

\* The account of the messages on the page is Delivery's: placed only what pi has
\* read, marked as not sent or refused only what it has not read and never reads,
\* each in one standing that is not taken back (submit(), takeIn, settleWaiting,
\* dropWaiting, placeTaken and unfresh together).
Standing ==
  [m \in Msgs |->
     CASE pc[m] = "gone" -> "gone"
       [] pc[m] = "again" \/ (pc[m] = "prompting" /\ Sending(m)) -> "again"
       [] m \in placed -> "placed"
       [] m \in unsent -> "unsent"
       [] Waits(m) -> "waits"
       [] pc[m] = "done" /\ outcome[m] = "refused" -> "refused"
       [] pc[m] = "idle" \/ (pc[m] = "prompting" /\ ~Sending(m)) -> "new"
       [] OTHER -> "shown"]
Delivered == INSTANCE Delivery WITH standing <- Standing
Delivers == Delivered!Spec

\* At rest as many wait at the foot of the chat as pi holds for its next run:
\* none waits there for good that pi has read or never had, and pi holds none that
\* is shown as read or as not sent (takeIn, settleWaiting, dropWaiting together).
WaitsForPi == AtRest => Len(waiting) = Len(queue["steering"]) + Len(queue["followUp"])

\* At rest the chat is not shown to work, with a Stop button that would stop
\* nothing, and no start is expected that the next run's would be taken for (the
\* end of submit(), agent_settled, the end of abort(); unfresh).
RestIsIdle == AtRest => ~running /\ fresh = <<>>

\* While pi works, the chat is shown to, but for the end of a Stop: no message
\* refused or handled beside the run ends it on the page (promptNow's catch, the end
\* of submit(), and the order forward() keeps).
WorkIsShown == piRun /\ events = <<>> /\ (\A s \in Stops : Out(s)) => running

\* So the page says that the agent works while it does, and not at rest.
ShownAsItIs == RestIsIdle /\ WorkIsShown

\* A message is placed in the chat by its own reading, not by another's (takeIn,
\* with fresh and queuedAs).
PlacedAsRead ==
  [][HearRead => \A m \in placed' \ placed : Text[m] = Text[events[1].msg]]_vars

\* Messages go to pi one at a time, each once the one before has been accepted
\* (the chain `sending` of submit() and abort()).
OneAtATime == Cardinality({m \in Msgs : pc[m] = "handing"}) <= 1

\* takeBackWaiting: "the messages that stay are sent again, as they were".  A run refutes
\* it: where pi refuses one, those behind it are out of the chat, and nowhere.
StaySent == AtRest => \A m \in Msgs : pc[m] # "again"

\* Liveness: a message that was sent ends up accepted, refused or not sent, behind
\* whatever messages and Stops stand in the chain before it, if preflights end.
SendsEnd ==
  (\A m \in Msgs : WF_vars(PreflightEnds(m))) => \A m \in Msgs : pc[m] = "prompting" ~> pc[m] = "done"

\* Liveness: a Stop comes to its end, and lets go of what was sent behind it, even
\* if a preflight is stuck ("a handler stuck on something is not a reason for Stop to
\* hang").
StopsEnd == \A s \in Stops : pc[s] \in {"handed", "drop"} ~> pc[s] \in {"again", "done"}
=============================================================================
