------------------------------ MODULE Channels ------------------------------
(* channels/supervisor.ts: the supervisor that keeps the channels that are switched
   on running.  A channel's form is saved, its package comes and goes, its start
   fails and is tried again later; syncs and retries are done one after another in
   a chain, each of them waiting for packages to stop and to start.            *)
EXTENDS Naturals, Sequences

CONSTANTS
  Chans,        \* the channels
  MaxEdits,     \* bound on how often a form is saved, or a package comes or goes
  MaxFails,     \* bound on the starts that fail
  MaxRestarts,  \* bound on how often the portal is restarted
  MaxStarts,    \* bound on the starts that have not come to their end, at a time
  Nobody        \* no start, and no channel

Slots == 1..MaxStarts

ASSUME ChannelsAssumption ==
  /\ MaxEdits \in Nat /\ MaxFails \in Nat /\ MaxRestarts \in Nat /\ MaxStarts \in Nat
  /\ Nobody \notin Chans \cup Slots

VARIABLES
  \* the database, the packages and the files
  enabled,    \* channels.enabled
  config,     \* what its signature is made of: a number for each time it is saved
  installed,  \* the channels' package is there
  file,       \* the channel's state: "none", or written by a start that was there
              \* when it was last removed ("old") or by a later one ("new")
  \* the supervisor
  running,    \* running: the start of each channel it holds, or Nobody
  starts,     \* the starts held, and those stopped that have not come to their end
  retries,    \* retries: "none", "armed", or "fired" with its retry not done
  chain,      \* syncing: the syncs (TRUE) and the retries (a channel) to be done
  pc,         \* how far the first of them is
  who,        \* the channel it is at
  todo,       \* the channels held that it has still to look at
  wanted,     \* the rows it has read: the channels switched on, until it comes past them
  sigs,       \* and their signatures
  kinds,      \* whether the package was there
  \* the portal
  closing,    \* it is asked to stop, and has not ended yet
  \* history
  edits, fails, restarts

world == <<enabled, config, installed>>
job   == <<pc, who, todo, wanted, sigs, kinds>>
past  == <<edits, fails, restarts>>
moves == <<world, file, running, starts, retries, chain, job, past>>
vars  == <<moves, closing>>

Sync == "sync"
Phases == {"idle", "sync", "stop", "stopWait", "start", "starting", "retry", "retryWait", "retryStop"}

\* A start: what the supervisor knows of it (Running), whether it was given up on as
\* it stopped, and whether it was there when its channel was made to forget.  One that
\* has not come up has no stop() that could be waited for.
Start(c, n, state) == [chan |-> c, sig |-> n, state |-> state, late |-> FALSE, old |-> FALSE]
Stopped(s) == [starts[s] EXCEPT !.state = "stopped", !.sig = 0, !.late = (starts[s].state = "starting")]
Free  == Start(Nobody, 0, "over")
Slot  == CHOOSE s \in Slots : starts[s] = Free

TypeOK ==
  /\ enabled \in [Chans -> BOOLEAN] /\ config \in [Chans -> 0..MaxEdits] /\ installed \in BOOLEAN
  /\ file \in [Chans -> {"none", "old", "new"}] /\ running \in [Chans -> Slots \cup {Nobody}]
  /\ starts \in [Slots -> [chan : Chans \cup {Nobody}, sig : 0..MaxEdits, late : BOOLEAN, old : BOOLEAN,
                           state : {"starting", "running", "error", "stopped", "over"}]]
  /\ retries \in [Chans -> {"none", "armed", "fired"}]
  /\ chain \in Seq(Chans \cup {Sync})
  /\ pc \in Phases /\ who \in Chans \cup {Nobody} /\ todo \subseteq Chans /\ wanted \subseteq Chans
  /\ sigs \in [Chans -> 0..MaxEdits] /\ kinds \in BOOLEAN
  /\ edits \in 0..MaxEdits /\ fails \in 0..MaxFails /\ restarts \in 0..MaxRestarts
  /\ closing \in BOOLEAN

\* The portal starts, with what was set up before.
Init ==
  /\ enabled \in [Chans -> BOOLEAN] /\ config = [c \in Chans |-> 0] /\ installed \in BOOLEAN
  /\ file = [c \in Chans |-> "none"]
  /\ running = [c \in Chans |-> Nobody] /\ starts = [s \in Slots |-> Free] /\ retries = [c \in Chans |-> "none"]
  /\ chain = <<Sync>> /\ pc = "idle" /\ who = Nobody /\ todo = {} /\ wanted = {} /\ sigs = config /\ kinds = FALSE
  /\ edits = 0 /\ fails = 0 /\ restarts = 0 /\ closing = FALSE
-----------------------------------------------------------------------------
(* What is asked of the supervisor: sync() and retry() take their turn. *)

Queue(j) == chain' = Append(chain, j)

\* PATCH: saved, perhaps switched on or off; the signature has the time in it.
Save(c) ==
  /\ edits < MaxEdits /\ installed
  /\ edits' = edits + 1
  /\ \E on \in BOOLEAN : enabled' = [enabled EXCEPT ![c] = on]
  /\ config' = [config EXCEPT ![c] = @ + 1]
  /\ Queue(Sync)
  /\ UNCHANGED <<installed, file, running, starts, retries, job, fails, restarts>>

\* POST /channel-packages; the removal of one asks for no sync.
PackageChanges ==
  /\ edits < MaxEdits
  /\ edits' = edits + 1
  /\ installed' = ~installed
  /\ IF installed' THEN Queue(Sync) ELSE UNCHANGED chain
  /\ UNCHANGED <<enabled, config, file, running, starts, retries, job, fails, restarts>>

\* The timer of a failed start.
TimerFires(c) ==
  /\ retries[c] = "armed"
  /\ retries' = [retries EXCEPT ![c] = "fired"]
  /\ Queue(c)
  /\ UNCHANGED <<world, file, running, starts, job, past>>
-----------------------------------------------------------------------------
(* Packages, external: what they were given is ctx and its signal. *)

Working(s) == starts[s].state \in {"starting", "running", "stopped"}
Writes(s)  == file' = [file EXCEPT ![starts[s].chan] = IF starts[s].old THEN "old" ELSE "new"]

\* Faulty: a start that was stopped writes too.
SavesAnyway(s) ==
  /\ Working(s)
  /\ Writes(s)
  /\ UNCHANGED <<world, running, starts, retries, chain, job, past>>

\* state.set: not by a start that has been stopped.
Saves(s) ==
  /\ Working(s)
  /\ running[starts[s].chan] = s
  /\ Writes(s)
  /\ UNCHANGED <<world, running, starts, retries, chain, job, past>>

\* Aborted, it comes to its end, sooner or later or never.
PackageEnds(s) ==
  /\ starts[s].state = "stopped"
  /\ starts' = [starts EXCEPT ![s] = Free]
  /\ UNCHANGED <<world, file, running, retries, chain, job, past>>
-----------------------------------------------------------------------------
(* The chain: stopChannel and startChannel, which syncs and retries are made of. *)

Without(cs) == [c \in Chans |-> IF c \in cs THEN "none" ELSE retries[c]]   \* clearRetry
Changed(c)  == sigs[c] # starts[running[c]].sig
Finish ==
  /\ chain' = Tail(chain) /\ pc' = "idle" /\ who' = Nobody /\ wanted' = {}
  /\ sigs' = [c \in Chans |-> 0] /\ kinds' = FALSE

\* Let go of, and aborted; one that failed has nothing to end.
AfterStop(s) == IF starts[s].state = "error" THEN Free ELSE Stopped(s)
LetGo(c) ==
  /\ running' = [running EXCEPT ![c] = Nobody]
  /\ starts' = [starts EXCEPT ![running[c]] = AfterStop(running[c])]
  /\ who' = c

\* Faulty: the package is not waited for as it stops.
StopAtOnce(c, next) == LetGo(c) /\ pc' = IF next = "stopWait" THEN "stop" ELSE "retryStop"

\* stopChannel.
StopChannel(c, next) == LetGo(c) /\ pc' = next

\* Held from now on, in the state given.
Hold(c, state) ==
  /\ \E s \in Slots : starts[s] = Free
  /\ starts' = [starts EXCEPT ![Slot] = Start(c, sigs[c], state)]
  /\ running' = [running EXCEPT ![c] = Slot]

\* startChannel, until the package says.
StartChannel(c) == Hold(c, "starting") /\ who' = c /\ pc' = "starting"

Ending(c) == {s \in Slots : starts[s].chan = c /\ starts[s].state = "stopped" /\ ~starts[s].late}

\* It has stopped, or its grace is over: it is gone on without.
StopEnds ==
  /\ pc \in {"stopWait", "retryWait"}
  /\ starts' = [s \in Slots |-> [starts[s] EXCEPT !.late = @ \/ s \in Ending(who)]]
  /\ IF pc = "stopWait" THEN pc' = "stop" /\ who' = Nobody ELSE pc' = "retryStop" /\ UNCHANGED who
  /\ UNCHANGED <<world, file, running, retries, chain, todo, wanted, sigs, kinds, past>>

\* What the package says of its start, which may have been let go of meanwhile.
Settle(state) ==
  /\ pc = "starting"
  /\ starts' = IF running[who] = Nobody THEN starts ELSE [starts EXCEPT ![running[who]].state = state]
  /\ IF Head(chain) = Sync THEN pc' = "start" /\ who' = Nobody /\ UNCHANGED <<chain, wanted, sigs, kinds>> ELSE Finish
  /\ UNCHANGED <<world, file, running, todo, edits, restarts>>

\* Faulty: a start that failed is not tried again.
StartFailsForGood ==
  /\ fails < MaxFails /\ fails' = fails + 1
  /\ Settle("error")
  /\ retries' = Without({who})

\* start() refuses, and is tried again later.
StartFails ==
  /\ fails < MaxFails /\ fails' = fails + 1
  /\ Settle("error")
  /\ retries' = [retries EXCEPT ![who] = "armed"]

\* start() returns.
StartSucceeds ==
  /\ Settle("running")
  /\ retries' = Without({who})
  /\ UNCHANGED fails
-----------------------------------------------------------------------------
(* syncNow. *)

\* The packages are loaded, and the rows read: what is stopped and started goes by
\* these, whatever is saved meanwhile.
SyncReads ==
  /\ pc = "sync" \/ (pc = "idle" /\ chain # <<>> /\ Head(chain) = Sync)
  /\ wanted' = {c \in Chans : enabled[c]} /\ sigs' = config /\ kinds' = installed
  /\ todo' = {c \in Chans : running[c] # Nobody}
  /\ pc' = "stop"
  /\ UNCHANGED <<world, file, running, starts, retries, chain, who, past>>

\* One of those held: stopped where it is not wanted, has changed, or could not run
\* and waits for no retry of its own.
SyncStops(c) ==
  /\ pc = "stop" /\ c \in todo
  /\ todo' = todo \ {c}
  /\ retries' = IF c \in wanted /\ Changed(c) THEN Without({c}) ELSE retries
  /\ IF c \notin wanted \/ Changed(c) \/ (starts[running[c]].state = "error" /\ retries'[c] = "none")
       THEN StopChannel(c, "stopWait")
       ELSE UNCHANGED <<running, starts, who, pc>>
  /\ UNCHANGED <<world, file, chain, wanted, sigs, kinds, past>>

\* What is not wanted is not tried again, and forgets where it was.
SyncForgets ==
  /\ pc = "stop" /\ todo = {}
  /\ retries' = Without(Chans \ wanted)
  /\ file' = [c \in Chans |-> IF c \in wanted THEN file[c] ELSE "none"]
  /\ starts' = [s \in Slots |-> [starts[s] EXCEPT !.old = @ \/ starts[s].chan \in Chans \ wanted]]
  /\ pc' = "start"
  /\ UNCHANGED <<world, running, chain, who, todo, wanted, sigs, kinds, past>>

\* One that is wanted and not held: started, or held as what cannot run.
SyncStarts(c) ==
  /\ pc = "start" /\ c \in wanted /\ running[c] = Nobody
  /\ wanted' = wanted \ {c}
  /\ IF kinds THEN StartChannel(c)
     ELSE Hold(c, "error") /\ UNCHANGED <<who, pc>>
  /\ UNCHANGED <<world, file, retries, chain, todo, sigs, kinds, past>>

SyncEnds ==
  /\ pc = "start" /\ \A c \in wanted : running[c] # Nobody
  /\ Finish
  /\ UNCHANGED <<world, file, running, starts, retries, todo, past>>
-----------------------------------------------------------------------------
(* retry(id): a job for the one channel. *)

\* Failed, and neither edited nor switched off since.
ToRetry(c) ==
  /\ enabled[c] /\ running[c] # Nobody
  /\ starts[running[c]].state = "error" /\ starts[running[c]].sig = config[c]

\* What is held of it and its row are read, and then the packages are loaded.
RetryReads ==
  /\ pc = "idle" /\ chain # <<>> /\ Head(chain) # Sync
  /\ who' = Head(chain)
  /\ wanted' = {c \in {Head(chain)} : ToRetry(c)} /\ sigs' = config
  /\ pc' = "retry"
  /\ UNCHANGED <<world, file, running, starts, retries, chain, todo, kinds, past>>

\* Switched off, edited or uninstalled since: a sync's job, done in its place.
\* Otherwise it is stopped, where it was not let go of while the packages loaded.
RetryGoes ==
  /\ pc = "retry"
  /\ \/ /\ wanted = {} \/ ~installed
        /\ retries' = Without({who}) /\ pc' = "sync" /\ chain' = <<Sync>> \o Tail(chain) /\ who' = Nobody
        /\ UNCHANGED <<running, starts>>
     \/ /\ wanted # {} /\ installed /\ running[who] # Nobody
        /\ StopChannel(who, "retryWait") /\ UNCHANGED <<retries, chain>>
     \/ /\ wanted # {} /\ installed /\ running[who] = Nobody
        /\ pc' = "retryStop" /\ UNCHANGED <<who, running, starts, retries, chain>>
  /\ UNCHANGED <<world, file, todo, wanted, sigs, kinds, past>>

RetryStarts ==
  /\ pc = "retryStop"
  /\ StartChannel(who)
  /\ UNCHANGED <<world, file, retries, chain, todo, wanted, sigs, kinds, past>>
-----------------------------------------------------------------------------
(* The portal is stopped, and comes back. *)

\* shutdown, where the job under way awaits something: all that is held is let go of at
\* once, in no turn of the chain.  That job goes on, with nothing left to stop and with
\* the rows it had still to come to, and so do those behind it, as long as the process
\* is there.
Shutdown ==
  /\ ~closing /\ restarts < MaxRestarts
  /\ pc \notin {"stop", "start", "retryStop"}
  /\ closing' = TRUE
  /\ retries' = Without(Chans)
  /\ running' = [c \in Chans |-> Nobody]
  /\ starts' = [s \in Slots |-> IF \E c \in Chans : running[c] = s THEN AfterStop(s) ELSE starts[s]]
  /\ todo' = {}
  /\ \/ pc # "starting" /\ UNCHANGED wanted
     \/ pc = "starting" /\ \E passed \in SUBSET {c \in wanted : running[c] # Nobody} : wanted' = wanted \ passed
  /\ UNCHANGED <<world, file, chain, pc, who, sigs, kinds, past>>

\* The process goes, killed or at the end of its stop, and the next one comes up: the
\* rows and the files are left, and a sync.
Restart ==
  /\ restarts < MaxRestarts /\ restarts' = restarts + 1
  /\ closing' = FALSE
  /\ running' = [c \in Chans |-> Nobody] /\ retries' = [c \in Chans |-> "none"]
  /\ starts' = [s \in Slots |-> Free]
  /\ chain' = <<Sync>> /\ pc' = "idle" /\ who' = Nobody /\ todo' = {} /\ wanted' = {}
  /\ sigs' = [c \in Chans |-> 0] /\ kinds' = FALSE
  /\ UNCHANGED <<world, file, edits, fails>>

JobStep ==
  \/ StopEnds \/ SyncReads \/ (\E c \in Chans : SyncStops(c) \/ SyncStarts(c))
  \/ SyncForgets \/ SyncEnds \/ RetryReads \/ RetryGoes \/ RetryStarts

Step ==
  \/ JobStep \/ StartFails \/ StartSucceeds
  \/ \E c \in Chans : Save(c) \/ TimerFires(c)
  \/ PackageChanges
  \/ \E s \in Slots : Saves(s) \/ PackageEnds(s)

Next == (Step /\ UNCHANGED closing) \/ Shutdown \/ Restart

Spec == Init /\ [][Next]_vars

\* The supervisor goes on with its chain, its timers fire, and a package that was
\* asked to start does or refuses.  That one ends once it is stopped is not assumed.
\* A portal that is asked to stop is gone after ten seconds, and is started again.
Fairness ==
  /\ WF_moves(JobStep)
  /\ WF_moves(StartSucceeds)
  /\ \A c \in Chans : WF_moves(TimerFires(c))
  /\ WF_vars(closing /\ Restart)

FairSpec == Spec /\ Fairness
-----------------------------------------------------------------------------
(* Properties. *)

\* A channel is started only once every start of it there was has ended or was given
\* its five seconds: two of one package never work side by side for want of waiting
\* (the chain of sync and retry, and stopChannel).  Not while the portal closes, which
\* takes no turn in the chain: StartsAloneToTheEnd does not hold.
Alone(c) == running[c] = Nobody /\ running'[c] # Nobody => Ending(c) = {}
StartsAlone == [][\A c \in Chans : ~closing => Alone(c)]_vars
StartsAloneToTheEnd == [][\A c \in Chans : Alone(c)]_vars

\* What a channel kept before it was switched off is not there for what is started
\* later, and nothing puts it back: not a start that was stopped and goes on, not
\* one that a retry begins, not a restart (state.set, removeChannelState).
ForgetsForGood == \A c \in Chans : file[c] # "old"

\* Liveness: in the end every channel that is switched on, and has its package, runs
\* as it was saved last, without anybody saving it again, and no other one is held.
AsItShould ==
  \A c \in Chans :
    IF enabled[c]
      THEN running[c] # Nobody /\ starts[running[c]].sig = config[c]
           /\ (installed => starts[running[c]].state = "running")
      ELSE running[c] = Nobody
ComesUp == <>[]AsItShould
=============================================================================
