------------------------------ MODULE Routines ------------------------------
(* routines/supervisor.ts: the routines that run on a schedule, at a moment, or
   by hand; how a change of one (routines/store.ts, api/routines.ts), a delete of
   the folder it runs in (server.ts) and a stop or crash of the portal cross a run
   that is under way.  What a run does in its chat is the session manager's: here
   it is an await that comes back with an outcome.

   Time is in minutes, the grain of a cron schedule; a recurring routine is one
   that is due every minute.  What stands between two awaits is one action.    *)
EXTENDS Naturals, FiniteSets

CONSTANTS
  Routines,   \* their ids
  Slugs,      \* the names their sessions and their runs are kept under
  FirstSlug,  \* the slug each was made with
  FirstAt,    \* the moment each was made for, or Recurring
  Clean,      \* those with a clean session for each run
  Later,      \* the routines that are made while the portal runs
  Deleters,   \* requests that delete the project
  MaxTime,    \* bound on the time that passes
  MaxChanges, \* bound on what people change of routines
  MaxStops    \* bound on crashes and stops of the portal

Recurring == 0
Never     == 0
Moments   == 1..MaxTime
Slot      == MaxTime + 1   \* "the next slot of its schedule"
Places    == {"home", "project"}

ASSUME RoutinesAssumption ==
  /\ FirstSlug \in [Routines -> Slugs] /\ FirstAt \in [Routines -> {Recurring} \cup Moments]
  /\ \A r, q \in Routines : FirstSlug[r] = FirstSlug[q] => r = q
  /\ Later \subseteq Routines /\ Clean \subseteq Routines
  /\ IsFiniteSet(Deleters)
  /\ MaxTime \in Nat \ {0} /\ MaxChanges \in Nat /\ MaxStops \in Nat

VARIABLES
  \* the database: the routines' rows
  rows, on,    \* those there are, and those switched on
  slug, place, \* each one's slug, and where it runs
  runAt,       \* the moment a one-off is set for, or Recurring
  lastRun,     \* when it last began a run, or Never
  status,      \* what became of that
  next,        \* next_run: when the page says it runs next
  \* the supervisor
  running,     \* the slugs with a run in flight
  held,        \* how many deletes hold each slug
  runs,        \* the runs under way, as each read its row
  \* the rest of the portal
  server,      \* "up", "closing" or "down"
  folder,      \* the project's folder is there
  del, known,  \* each delete: where it is, and the routines it found, with those on
  now, changes, stops,
  served       \* history: the one-offs whose schedule has run them for the moment they are set for

table    == <<rows, on, slug, place, runAt, lastRun, status, next>>
inFlight == <<running, held, runs>>
deletes  == <<del, known>>
clocks   == <<now, changes, stops>>
vars     == <<table, inFlight, server, folder, deletes, clocks, served>>

Statuses == {"unmade", "none", "running", "over", "interrupted"}   \* "over": ok, stopped or error
RunOf == [of : Routines, slug : Slugs, moment : {Recurring} \cup Moments, began : Moments,
          in : Places, at : {"asking", "winding"}]

TypeOK ==
  /\ rows \subseteq Routines /\ on \subseteq Routines
  /\ slug \in [Routines -> Slugs] /\ place \in [Routines -> Places]
  /\ runAt \in [Routines -> {Recurring} \cup Moments] /\ lastRun \in [Routines -> {Never} \cup Moments]
  /\ status \in [Routines -> Statuses] /\ next \in [Routines -> {Never} \cup 1..Slot]
  /\ running \subseteq Slugs /\ held \in [Slugs -> Nat] /\ runs \subseteq RunOf
  /\ server \in {"up", "closing", "down"} /\ folder \in BOOLEAN
  /\ del \in [Deleters -> {"idle", "stopping", "done"}]
  /\ known \in [Deleters -> [all : SUBSET Routines, on : SUBSET Routines, slugs : SUBSET Slugs]]
  /\ now \in Moments /\ changes \in 0..MaxChanges /\ stops \in 0..MaxStops
  /\ served \subseteq Routines
-----------------------------------------------------------------------------
OneOff(r) == runAt[r] # Recurring

\* oneOffDone: it has had a run at or after the moment it is set for.
OneOffDone(r) == OneOff(r) /\ lastRun[r] # Never /\ lastRun[r] >= runAt[r]

\* whenNext, of a row as it is after a step.
WhenNext(isOn, at, last) ==
  IF ~isOn THEN Never
  ELSE IF at = Recurring THEN Slot
  ELSE IF last # Never /\ last >= at THEN Never ELSE at

\* refreshSchedules, of these routines.
Refresh(S) ==
  next' = [r \in Routines |-> IF r \in S THEN WhenNext(r \in on', runAt'[r], lastRun'[r]) ELSE next[r]]

Init ==
  /\ rows = Routines \ Later /\ on = rows
  /\ slug = FirstSlug /\ place = [r \in Routines |-> "project"] /\ runAt = FirstAt
  /\ lastRun = [r \in Routines |-> Never] /\ status = [r \in Routines |-> IF r \in Later THEN "unmade" ELSE "none"]
  /\ next = [r \in Routines |-> WhenNext(r \in on, FirstAt[r], Never)]
  /\ running = {} /\ held = [s \in Slugs |-> 0] /\ runs = {}
  /\ server = "up" /\ folder = TRUE
  /\ del = [d \in Deleters |-> "idle"] /\ known = [d \in Deleters |-> [all |-> {}, on |-> {}, slugs |-> {}]]
  /\ now = 1 /\ changes = 0 /\ stops = 0 /\ served = {}
-----------------------------------------------------------------------------
(* A run: begun by tick or by hand, its end, and what follows it. *)

Free(r) == slug[r] \notin running /\ held[slug[r]] = 0

\* Faulty: a one-off whose moment passed while the portal was down is let go by.
DueNowOnTime(r) == IF OneOff(r) THEN ~OneOffDone(r) /\ runAt[r] = now ELSE lastRun[r] < now

\* isDue of a schedule is at most once a minute; a one-off catches up.
DueNow(r) == IF OneOff(r) THEN ~OneOffDone(r) /\ runAt[r] <= now ELSE lastRun[r] < now

Due == {r \in rows \cap on : Free(r) /\ DueNow(r)}

\* A one-off that has had its run is switched off, where it is still set for the
\* moment that run was for.
SwitchedOff(r, moment, began) ==
  IF moment # Recurring /\ began >= moment /\ runAt[r] = moment THEN {r} ELSE {}

\* finish: what the portal's own stop cut off did not end by itself.
Outcome == IF server = "closing" THEN "interrupted" ELSE "over"

\* run(), to its first await: marked as in flight, and written down before the
\* work.  One whose place is gone fails at once.
Begin(S) ==
  LET lost == {r \in S : place[r] = "project" /\ ~folder}
      went == S \ lost
  IN
  /\ running' = running \cup {slug[r] : r \in went}
  /\ runs' = runs \cup {[of |-> r, slug |-> slug[r], moment |-> runAt[r], began |-> now,
                         in |-> place[r], at |-> "asking"] : r \in went}
  /\ lastRun' = [r \in Routines |-> IF r \in S THEN now ELSE lastRun[r]]
  /\ status' = [r \in Routines |->
       IF r \in went THEN "running"
       ELSE IF r \in lost THEN Outcome ELSE status[r]]
  /\ on' = on \ UNION {SwitchedOff(r, runAt[r], now) : r \in lost}
  /\ UNCHANGED <<rows, slug, place, runAt, held, server, folder, deletes, clocks>>
  /\ Refresh(lost)

\* Every routine that is due, in one turn.
Tick ==
  /\ server = "up" /\ Due # {}
  /\ Begin(Due)
  /\ served' = served \cup {r \in Due : OneOff(r)}

RunByHand(r) ==
  /\ server # "down" /\ r \in rows /\ Free(r)
  /\ Begin({r})
  /\ UNCHANGED served

\* Faulty: the end of a run switches its one-off off whatever it is set for now.
WrapUpAnyway(x, left) ==
  /\ on' = on \ (IF x.of \in rows /\ x.moment # Recurring /\ x.began >= x.moment THEN {x.of} ELSE {})
  /\ runs' = left
  /\ UNCHANGED <<rows, slug, place, runAt, lastRun, held, server, folder, deletes, clocks, served>>
  /\ Refresh({x.of} \cap rows)

\* Faulty: when it runs next is not worked out again as a run ends.
WrapUpStale(x, left) ==
  /\ on' = on \ (IF x.of \in rows THEN SwitchedOff(x.of, x.moment, x.began) ELSE {})
  /\ runs' = left
  /\ UNCHANGED <<rows, slug, place, runAt, lastRun, next, held, server, folder, deletes, clocks, served>>

\* The last of `finally`: a one-off has nothing left to do.
WrapUp(x, left) ==
  /\ on' = on \ (IF x.of \in rows THEN SwitchedOff(x.of, x.moment, x.began) ELSE {})
  /\ runs' = left
  /\ UNCHANGED <<rows, slug, place, runAt, lastRun, held, server, folder, deletes, clocks, served>>
  /\ Refresh({x.of} \cap rows)

\* The ask came back, or failed, or ran out of time.  A clean session's pi may be
\* let go first, which takes a while.
RunEnds(x) ==
  /\ x.at = "asking"
  /\ running' = running \ {x.slug}
  /\ status' = IF x.of \in rows THEN [status EXCEPT ![x.of] = Outcome] ELSE status
  /\ \/ WrapUp(x, runs \ {x})
     \/ /\ x.of \in Clean
        /\ runs' = (runs \ {x}) \cup {[x EXCEPT !.at = "winding"]}
        /\ UNCHANGED <<rows, on, slug, place, runAt, lastRun, next, held, server, folder, deletes, clocks, served>>

RunWound(x) ==
  /\ x.at = "winding"
  /\ WrapUp(x, runs \ {x})
  /\ UNCHANGED <<running, status>>
-----------------------------------------------------------------------------
(* What people change of a routine, from the page or through the agent. *)

Change(r) == server # "down" /\ r \in rows /\ changes < MaxChanges /\ changes' = changes + 1
Untouched == UNCHANGED <<inFlight, server, folder, deletes, now, stops>>

\* timingSets: a new moment (one still to come) forgets the old outcome, and
\* switches on what was switched off by having run, unless told otherwise.
Retime(r, at) ==
  LET armed == at # Recurring /\ at # runAt[r] IN
  /\ Change(r) /\ (at = Recurring \/ at > now)
  /\ runAt' = [runAt EXCEPT ![r] = at]
  /\ lastRun' = IF armed THEN [lastRun EXCEPT ![r] = Never] ELSE lastRun
  /\ status' = IF armed THEN [status EXCEPT ![r] = "none"] ELSE status
  /\ \/ \E given \in {{}, {r}} : on' = (on \ {r}) \cup given
     \/ on' = IF armed /\ OneOffDone(r) THEN on \cup {r} ELSE on
  /\ served' = IF at # runAt[r] THEN served \ {r} ELSE served
  /\ Untouched /\ UNCHANGED <<rows, slug, place>>
  /\ Refresh({r})

Switch(r) ==
  /\ Change(r)
  /\ on' = IF r \in on THEN on \ {r} ELSE on \cup {r}
  /\ Untouched /\ UNCHANGED <<rows, slug, place, runAt, lastRun, status, served>>
  /\ Refresh({r})

\* Another place: one that is there.
Move(r) ==
  /\ Change(r)
  /\ \E p \in Places \ {place[r]} : (p = "project" => folder) /\ place' = [place EXCEPT ![r] = p]
  /\ Untouched /\ UNCHANGED <<rows, on, slug, runAt, lastRun, status, served>>
  /\ Refresh({r})

\* A slug no other routine has.
Rename(r) ==
  /\ Change(r)
  /\ \E s \in Slugs \ {slug[q] : q \in rows} : slug' = [slug EXCEPT ![r] = s]
  /\ Untouched /\ UNCHANGED <<rows, on, place, runAt, lastRun, status, served>>
  /\ Refresh({r})

Remove(r) ==
  /\ Change(r)
  /\ rows' = rows \ {r} /\ on' = on \ {r}
  /\ Untouched /\ UNCHANGED <<slug, place, runAt, lastRun, status, next, served>>
\* insertRoutine: under a slug of its own (freeRoutineSlug).
Add(r) ==
  /\ server # "down" /\ status[r] = "unmade" /\ changes < MaxChanges /\ changes' = changes + 1
  /\ rows' = rows \cup {r} /\ on' = on \cup {r} /\ status' = [status EXCEPT ![r] = "none"]
  /\ \E p \in Places : (p = "project" => folder) /\ place' = [place EXCEPT ![r] = p]
  /\ \E s \in Slugs \ {slug[q] : q \in rows} : slug' = [slug EXCEPT ![r] = s]
  /\ Untouched /\ UNCHANGED <<runAt, lastRun, served>>
  /\ Refresh({r})
-----------------------------------------------------------------------------
(* The project is deleted: DELETE /api/projects/:name. *)

RoutinesIn == {r \in rows : place[r] = "project"}
RunningHere(S) == \E r \in S : slug[r] \in running

Hold(S) == held' = [s \in Slugs |-> IF \E r \in S : slug[r] = s THEN held[s] + 1 ELSE held[s]]

\* Nothing runs in it; its routines are held from here, with nothing awaited between.
DeleteBegins(d) ==
  /\ del[d] = "idle" /\ server # "down" /\ folder
  /\ ~RunningHere(RoutinesIn)
  /\ ~\E x \in runs : x.in = "project" /\ x.at = "asking"
  /\ Hold(RoutinesIn)
  /\ del' = [del EXCEPT ![d] = "stopping"]
  /\ known' = [known EXCEPT ![d] = [all |-> RoutinesIn, on |-> RoutinesIn \cap on,
                                    slugs |-> {slug[r] : r \in RoutinesIn}]]
  /\ UNCHANGED <<table, running, runs, server, folder, clocks, served>>

\* release(): the slugs it held, once.
Release(d) ==
  held' = [s \in Slugs |-> IF s \in known[d].slugs THEN held[s] - 1 ELSE held[s]]

\* Faulty: the routines given this place meanwhile are not looked for.
LateNone(d) == {}

\* The routines given this place since it looked.
Late(d) == RoutinesIn \ known[d].all

\* What ran in it is stopped.  A routine given this place meanwhile is looked for
\* again, and with nothing awaited the folder goes, and its routines are switched
\* off: those it found, as they were then, and the late ones.
Deleted(d) ==
  /\ del[d] = "stopping" /\ folder /\ ~RunningHere(Late(d))
  /\ folder' = FALSE
  /\ on' = on \ (known[d].on \cup Late(d))
  /\ Release(d)
  /\ del' = [del EXCEPT ![d] = "done"]
  /\ UNCHANGED <<rows, slug, place, runAt, lastRun, status, running, runs, server, known, clocks, served>>
  /\ Refresh((known[d].on \cup (Late(d) \cap on)) \cap rows)

\* One of them runs, or a chat or the folder would not go: everything stays.
DeleteFails(d) ==
  /\ del[d] = "stopping"
  /\ Release(d)
  /\ del' = [del EXCEPT ![d] = "done"]
  /\ UNCHANGED <<table, running, runs, server, folder, known, clocks, served>>
-----------------------------------------------------------------------------
(* The portal stops, or crashes, and starts again. *)

\* No tick from here, and what ends is said to have been interrupted.
Close ==
  /\ server = "up" /\ stops < MaxStops
  /\ server' = "closing" /\ stops' = stops + 1
  /\ UNCHANGED <<table, inFlight, folder, deletes, now, changes, served>>

Down ==
  /\ server' = "down"
  /\ running' = {} /\ held' = [s \in Slugs |-> 0] /\ runs' = {}
  /\ del' = [d \in Deleters |-> IF del[d] = "stopping" THEN "done" ELSE del[d]]
  /\ UNCHANGED <<table, folder, known, now, changes, served>>

Exit == server = "closing" /\ Down /\ UNCHANGED stops

Crash == server = "up" /\ stops < MaxStops /\ stops' = stops + 1 /\ Down

\* Faulty: a start leaves what a crash cut off to run again.
BootAgain ==
  LET cut == {r \in rows : status[r] = "running"} IN
  /\ server = "down" /\ server' = "up"
  /\ status' = [r \in Routines |-> IF r \in cut THEN "interrupted" ELSE status[r]]
  /\ lastRun' = [r \in Routines |-> IF r \in cut THEN Never ELSE lastRun[r]]
  /\ UNCHANGED <<rows, on, slug, place, runAt, inFlight, folder, deletes, clocks, served>>
  /\ Refresh(rows)

\* start(): what a restart cut off is settled, and not run again.
Boot ==
  LET cut == {r \in rows : status[r] = "running"} IN
  /\ server = "down" /\ server' = "up"
  /\ status' = [r \in Routines |-> IF r \in cut THEN "interrupted" ELSE status[r]]
  /\ on' = on \ {r \in cut : OneOffDone(r)}
  /\ UNCHANGED <<rows, slug, place, runAt, lastRun, inFlight, folder, deletes, clocks, served>>
  /\ Refresh(rows)

Pass ==
  /\ now < MaxTime /\ now' = now + 1
  /\ UNCHANGED <<table, inFlight, server, folder, deletes, changes, stops, served>>
-----------------------------------------------------------------------------
ChangeStep(r) ==
  \/ \E at \in {Recurring} \cup Moments : Retime(r, at)
  \/ Switch(r) \/ Move(r) \/ Rename(r) \/ Remove(r) \/ Add(r)

RunStepOf(r) == \E x \in runs : x.of = r /\ (RunEnds(x) \/ RunWound(x))
RunStep == \E r \in Routines : RunStepOf(r)
DeleteStep(d) == DeleteBegins(d) \/ Deleted(d) \/ DeleteFails(d)

Next ==
  \/ Tick \/ \E r \in Routines : RunByHand(r)
  \/ RunStep
  \/ \E r \in Routines : ChangeStep(r)
  \/ \E d \in Deleters : DeleteStep(d)
  \/ Close \/ Exit \/ Crash \/ Boot \/ Pass

Spec == Init /\ [][Next]_vars

\* A tick comes every twenty seconds, a run is over within the hour, a delete's
\* waits are bounded, and a portal that stopped is started again.
Fairness ==
  /\ WF_vars(Tick) /\ (\A r \in Routines : WF_vars(RunStepOf(r))) /\ WF_vars(Exit) /\ WF_vars(Boot)
  /\ \A d \in Deleters : WF_vars(Deleted(d) \/ DeleteFails(d))

FairSpec == Spec /\ Fairness
-----------------------------------------------------------------------------
(* Safety. *)

\* A one-off's schedule runs it once for the moment it is set for, though the
\* portal crashes in its run or between its end and its being switched off
\* (run: last_run is written before the work; settleInterrupted).
MomentRunsOnce == [][\A r \in Routines : r \in served' /\ Tick => ~(r \in served /\ lastRun'[r] # lastRun[r])]_vars

\* What the portal switches off by itself is a one-off that has had its run: one
\* given a new moment while it ran is still to come (the end of run(), which
\* writes from the row it read as it began; settleInterrupted).
NewMomentStands ==
  [][(RunStep \/ Boot) => \A r \in (on \ on') : OneOffDone(r)]_vars

\* A project's folder is never removed under a run, though routines are moved
\* there and begin while its chats are stopped (the hold, and the second look for
\* late ones).  Not so where the run's routine is itself moved away, removed or
\* renamed meanwhile: the hold and both looks go by where it is and by its slug.
Unchanged(x) ==
  /\ x.of \in rows /\ place[x.of] = "project" /\ slug[x.of] = x.slug
  /\ \A d \in Deleters : x.of \in known[d].all => x.slug \in known[d].slugs
FolderSparesRuns ==
  [][folder /\ ~folder' => ~\E x \in runs : x.at = "asking" /\ x.in = "project" /\ Unchanged(x)]_vars

\* Once its runs are over, a routine says when it runs next, and that a one-off
\* which has had its run does not (refreshSchedules, after every change).
NextIsTrue ==
  \A r \in rows : server # "down" /\ ~(\E x \in runs : x.of = r)
    => next[r] = WhenNext(r \in on, runAt[r], lastRun[r])

\* Whatever is shown as running is: a run of it is under way, or the portal is
\* down (settleInterrupted: nothing else ever finishes those a restart cut off).
RunningIsTrue ==
  \A r \in rows : server # "down" /\ status[r] = "running" => \E x \in runs : x.of = r /\ x.at = "asking"

\* What the page is told of a routine: both.
RowsTellTrue == NextIsTrue /\ RunningIsTrue

(* What the code says of itself and does not keep: refuted by a run. *)

\* DELETE /api/projects/:name: from the hold on, no run of the routines it holds
\* can start.
HeldRunsNothing ==
  [][\A d \in Deleters : del[d] = "stopping" /\ del'[d] = "stopping" =>
       \A x \in (runs' \ runs) : x.at = "asking" /\ x.in = "project" => x.of \notin known[d].all]_vars

(* Liveness. *)

\* The moment of a one-off that is on comes, late where the portal was down, the
\* routine was still running, or its folder was being deleted: it has its run,
\* unless someone removes it, switches it off or sets it for another moment.
Missed(r, at) == r \in rows \cap on /\ runAt[r] = at /\ at <= now /\ ~OneOffDone(r)
MomentsCome == \A r \in Routines, at \in Moments : Missed(r, at) ~> ~Missed(r, at)
=============================================================================
