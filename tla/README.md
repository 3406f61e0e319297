# Verification of the pithagoras portal

Pithagoras is a web portal for the pi coding agent. Its server owns the runs:
a browser, a channel or a routine sends a message to a chat, the server starts
the chat's pi, hands the message over, and writes down what pi says, whoever is
still there to read it. This directory holds TLA+ models of the parts of that
server where the order of things decides whether it is right, the TLC
configurations that check them on small instances, and TLAPS proofs of the most
important properties for every instance.

The server is one Node.js thread. Concurrency in it is the interleaving of
request handlers, timers, callbacks and pi's events at every `await`; the
processes beside it are pi in a container, Docker, and other servers started on
the same data.

| Module | Models | Runs | Proofs |
|---|---|---|---|
| `PiLifecycle` | how the pi of one chat is started, shared, edited under, stopped and deleted | `PiLifecycle`, `_live` | `PiLifecycleProofs` |
| `MessageQueue` | how messages go into a pi that is up, and what the page says became of them | `MessageQueue`, `_live` | `MessageQueueProofs` |
| `Delivery` | what a chat promises of its messages; `MessageQueue` implements it | in `MessageQueue` | the refinement, in `MessageQueueProofs` |
| `ConversationEdit` | messages taken out, replaced and switched to other versions, in pi's file and the transcript | `ConversationEdit` | `ConversationEditProofs` |
| `Restart` | what a crash or a stop of the portal leaves of messages and runs, and what the next start tells | `Restart`, `_stop` | `RestartProofs` |
| `EventStream` | a chat's events, the stream they go over, and the page that reads it | `EventStream` | `EventStreamProofs` |
| `Routines` | schedules, one-offs and runs, beside changes, deletes and restarts | `Routines` | `RoutinesProofs` |
| `Channels` | the supervisor that keeps channels running | `Channels` | `ChannelsProofs` |
| `Handoff` | files an upgrade leaves for an extension, and the extension's taking of them | `Handoff` | `StartProofs` |
| `InstanceLock` | how a server makes itself the one on its data directory | `InstanceLock` | `StartProofs` |

`MC_<module>` extends a module with the definitions its `.cfg` files need
(symmetry, the words of messages, the places of a lock), and nothing else.

    tlc -config PiLifecycle.cfg MC_PiLifecycle.tla
    tlapm PiLifecycleProofs.tla

## 1. Inventory

The program's core logic is in `src/core/server/src`. What follows lists its
parts with the state they keep, what they do, where they meet, what is hard
about them, and what makes them right. Paths are relative to that directory.

**Session manager** (`session-manager.ts`, 3625 lines). Owns every pi. All its
state is in maps keyed by the chat, beside rows of the database, and nearly
everything else in the server calls it. It is several components in one class:

- *The life of a pi.* State: `live` (the pi that is up), `starting` (the launch
  in flight), `releasing` (the one being let go), `editing` (the edit lock),
  `discarding` (chats being deleted), `stops`, `activity`. Operations:
  `ensureClient`, `startClient`, `stop`, `release`, the reaper, `reloadIdle`,
  `discard`, `deleteChat`, `reopen`, the exit of a pi. Hard: every operation
  waits for others half way (launches for releases, edits for launches, prompts
  for edits), and what was read before a wait is used after it. Right when: one
  pi at a time has a conversation's file; the one that is up holds what the file
  holds; nothing starts or stays up for a chat that is gone; no request waits
  for ever; the reaper stops nothing that is in use.
- *Messages into pi.* State: `waiting` (messages at the foot of the chat),
  `sending` (the chain of what goes to pi), `fresh`, `piQueue`, `inRun`,
  `abortsUnderWay`, `settleWaiters`, and the chat's status. Operations:
  `prompt`, `submit`, `takeIn`, `settleWaiting`, `dropWaiting`,
  `takeBackWaiting`, `abort`. Hard: pi decides what becomes of a message only
  after an asynchronous preflight, in words of its own, and reports it by events
  that come late; a Stop has bounds of five and ten seconds. Right when: each
  message ends up read, placed where it was read, or marked as not sent, and no
  two of these; the chat shows work exactly while there is some.
- *Edits.* State: pi's file and the transcript's rows, kept versions.
  Operations: `removeMessage`, `editMessage`, `switchVersion`, with `cut` and its
  `undo`, `settleEdit`. Hard: two stores that cannot be written in one
  transaction, a run that fails long after the edit was answered, messages that
  are told apart by their words. Right when: file and transcript tell the same
  conversation, no words are lost, and the versions offered can come back.
- *Asking, compaction, status.* State: `asking`, `compacting`, the chat's status.
  Operations: `ask`, `askNow`, `compact`, `settleCompaction`. Right when: each
  ask gets the answer of its own run, and a timeout races no late answer.
- *Recovery.* `recoverOrphans`, `settleOrphanedMessages`, `shutdown`: what a
  crash cut off is told from what was done, by pi's file and the transcript.
- *Child chats, questions, subagents, commands*: trees of chats deleted
  together, questions kept over a restart, the ends of commands.

**pi clients** (`pi/sdk-client.ts` in process, `pi/rpc-client.ts` for a
container). Turn pi's `AgentSession` into `prompt`, `abort`, `clearQueue`,
`reload` and events; `forward` keeps the end of a run behind the failure it
ended with. pi itself is a library.

**Executors** (`executors/`): launch a pi on the host or in a container, and
clean up after it by the container's name.

**Instance lock** (`instance-lock.ts`): one server on a data directory.

**Routines and heartbeats** (`routines/`, `heartbeat.ts`). State: the rows
(`enabled`, `run_at`, `last_run`, `last_status`, `next_run`), the set of slugs
with a run in flight, and the holds. Operations: the tick each minute, a run and
its end, a run by hand, a change of a routine, `settleInterrupted` as the portal
starts, the deletion of a project with routines in it (`server.ts`). Hard: a run
lasts as long as a turn of the agent, and everything may change meanwhile; the
row is written before the work. Right when: no run is doubled, stacked on itself
or lost, and the row says what is so.

**Channels** (`channels/supervisor.ts`). State: `running`, `retries`, the chain
`syncing`, the file of each channel's own state. Operations: `sync`, a retry,
`startChannel`, `stopChannel`. Hard: a package's start and stop are foreign code
that may take any time or fail; five seconds are all a stop waits. Right when:
one start of a channel at a time, of its current settings, and in the end each
one runs as it was saved.

**Event log and streams** (`db.ts`, `live-events.ts`, `event-replay.ts`,
`api/events.ts`, and `core/web/src/App.tsx` on the other end). State: rows with
growing numbers, the answers being written, the count of reloads; of a stream,
its replay and what waits behind it; of a page, its cursor and what it shows.
Hard: rows are taken out and put back under their old numbers while pages read,
lose their streams and come back. Right when: a page that has caught up shows
each row once, in order, and nothing that went.

**Hand-offs and folders** (`handoff.ts`, `atomic-write.ts`,
`folder-removal.ts`): moves that a crash may cut anywhere. **Extension host**
(`extension-host.ts`, `isolated-half.ts`): processes watched by pings and
timers. **Database upgrades** (`db-upgrade*.ts`), **voice leases**, **guard and
tool policy** (`pi/guard.ts`), **HTTP and sign-in** (`server.ts`, `api/`,
`auth.ts`, `oidc*.ts`), **files, git, models, updates**: little concurrency of
their own, or pure input and output.

Outside the server: the web front end (`core/web`), the adapters of the channels
(`channels/`), the bundled extensions (`extensions/`) and `packages/`.
`PROJECT.json` lists each of these with what is modelled of it, and the hazards
of the code at their lines.

## 2. What is modelled

### PiLifecycle

One chat, as every map is keyed by the chat. State:

- the session manager's maps: `live`, `launch` and `born` (how far the promise in
  `starting` has come, and what it made), `after` (the release `startClient`
  read from `releasing`), `releasing`, `editing`, `discarding`, `stopped`
  (requests past the read of `stops` when a Stop came);
- each pi: `pi` (unborn, starting, up, closing, gone, or dead without anyone
  having heard), `holds` (which conversation it read), `inRun`, `reloadDue`;
- database and disk: `running`, `row`, `folder`, `file` (a conversation is named
  by the edit that wrote it);
- requests: `pc` is the `await` each is at, `client` the pi it was given or waits
  for, `original` what an edit can put back, `later` edits after which something
  was sent;
- the reaper, and a container's clean-up that nothing waits for;
- `container`, where the chat's pi runs: any of `Places`, chosen as the chat is made
  and never changed. In a container a pi may exit by itself, and edits are refused.

What stands between two awaits in the code is one action. Continuations of a
promise that is settled run before any new request or event, so several of
them can share an action: `LaunchSettles` hands its client to everyone who
awaited the launch.

A prompt goes `Arrive`, `ReloadForPrompt` or not, `PassGate`, `Enter`, `Door`,
then waits in "starting" or has a pi, and `Submit`s. An edit goes `EditBegins`,
`EditStops`, `Rewrite`, and then `Removed` (removeMessage, switchVersion), or
`SendReplacement` through the same launch under its lock, and may go back
(`UndoStops`, `Restore`) at once or after its run failed (`RunFails`). A delete
goes `DeleteBegins`, `DeleteAborts`, `AbortReturns`, `Aborted`, `DeleteStops`, `Deleted`
or `Reopen`: pi is asked to end its run, which it does in its own time, and then the
run's settle is waited for. A launch goes `ServersSettled`, `Create`, `Created`, `LaunchSettles`,
and may be refused or fail where the code can throw.

Abstractions: runs take any time; `StopIdle` stands for the stops that channels
and routines make between runs; a release ends by the extensions' shutdown or by
the three-second bound, which are not told apart; a delete's wait for a run to settle
(`Aborted`) ends at any time, ten seconds at most. Left out: child chats, `stopUnstarted`,
compaction; the transcript is `ConversationEdit`'s.

### MessageQueue and Delivery

One chat whose pi is up in the portal's process. It keeps two accounts apart:
pi's own (`piRun`, `queue` by lane, `read`) and the session manager's (`waiting`,
`fresh`, `queued`, `queuedAs`, `inPi`, `piQueue`, `inRun`, `running`), which
follows from `events`. `placed` and `unsent` are what the transcript says
(`portal_taken`, `portal_unsent`). The chain `sending` is `tail` with, for each
link, the links `ahead` of it; a Stop is a link too. A press of a Stop may instead be
one that takes a waiting message back (`Backs`).

A message goes `Prompt`, `Submit`, `Hand` or `NotSent`, then one of `PiQueues`,
`PiStarts`, `PiDeclines`, and `Accepted`. A Stop goes `StopBegins`, `StopDrops`,
`StopAborts`, `StopEnds`. A take-back goes `TakeBegins`, `TakesBack` or
`TakeRefused`, then through a Stop of its own where the message is to be sent now, and
`SendsAgain`, `SentAgain` for each of those pi's queue held, until `TakeEnds`: at the
last, or at the first that pi refuses. pi's events are heard by `HearStart`, `HearQueue`,
`HearRead` and `HearSettled`. `forward()` holds the end of a run for one turn of
the event loop, with what follows it: `Hearing`, `Settling` and `NextTurn` say
what can still happen in that turn. In pi's library a start and the reading of
the message that started it are said together (`PiStarts`).

Parameters: `Patient` is TRUE where no preflight outlasts the bound of a Stop's
wait; `Early` is FALSE where a Stop does not come during the preflight of a
message on an idle pi, nor a take-back of a message pi has read and that still shows as
waiting (see `MessageQueue_chain` and `_taken` in section 5); `MaxRuns` bounds the runs pi begins
unasked; `Rewritten` is what an input handler or a template makes of a message.

Left out: slash commands and builtins, pictures, a pi
without `clearQueue` (a container's), a pi that exits, edits.

`Delivery` is what the sender of a message is promised, with none of this
machinery: a message has one standing on the page (shown, waiting, placed, not
sent, refused, taken back, to be sent again), and that is true of what pi has `read`.
It is read once, placed
only once read, and never read after it was marked as not sent. `MessageQueue`'s
`Standing` reads a message's standing off `waiting`, `placed` and `unsent`;
`Delivers` says that under it every step is one of `Delivery` or a stutter.

### Restart

One chat, and what a death of the portal makes of it. The database (`rows`, with
what settled each message, and `status`) and pi's file (`written`) survive; the
portal's memory (`waiting`, `handed`) and pi's (`run`, `queue`, `unwritten`, what it
`said`, or that it `settled`, and nobody heard) do not. A message is its row's number,
so sets of them stand for the queues. A message goes `SendToIdle` or `SendInto`, `Hand` or
`HandToIdle`, and `PreflightEnds` (or is refused, or handled by an extension); pi
reads it (`PiReads`), says so (`HearRead`) and writes it (`PiWrites`), in no fixed
order of the last two. `Crash` may come at any step, of the recovery too, and may
lose what was not written yet. `Shutdown` clears pi's queue and aborts;
`AbortsAlone` records the chat as running and stops pi in the same turn, while
`AbortsFirst` leaves time for other events, as another chat's abort is waited for,
and `StopsLast` follows. The next start is `Boot` (markOrphanedSessionsInterrupted),
`Recall` (what is unsettled, and how often its words are left in the file), one
`SettleTaken` or `SettleLost` for each message, and `Recovered`. The messages
taken are recorded one by one, those lost in one event at the end, so that a crash
in between leaves some settled.

Messages here go into pi first in, first out: lanes, rewriting and a person's Stop
are `MessageQueue`'s. Put aside: messages sent between a run's end and the moment
the portal hears of it, and a shutdown in that same turn. A run that a waiting message
has only just begun is told of by that message. `read`, `cut`, `cleared` and
`overtaken` are history. The rows the start closes for subagents and commands, and
the answers it passes on, are left out.

### ConversationEdit

One chat's two stores, pi's `file` and the `transcript` with its `versions`
(`message_versions`), under edits. A turn, a message with all that was done about
it, is named by the message's seq; the file is the sequence of turns on the
conversation's path, with `-n` for the settings pi writes before turn `n` when it
has `opened` the file again (`Written`, external). `words` is what messages say,
which is how `locate` tells pi's messages from the portal's.

An edit is `CutFile` (withEdit, the release of pi, `dropMessage`, and for a
switch `fileFor`), then `CutTranscript` (one transaction: the rows go, a version
is kept by `keptFile`, or `dropVersionsAt` forgets those of a removed message),
or `CutUndone`. A replacement is then sent (`SendReplacement`) and may be gone
back from at once or once its run has failed without an answer (`RunFails`); a
switch takes a version out (`TakeVersion`) and writes the file as that version
had it (`Rewrite`, `RewriteFails` with its nested failures). The way back is
`UndoTranscript`, `UndoFile`, `UndoLate`, each of which can fail too. `Crash`
stops the portal between any two. `apart` records that a way back failed or an
edit was cut off, which is when the code gives up on keeping the two in step.

Edits begin on a chat at rest: who may start pi meanwhile is `PiLifecycle`'s.
Left out: branches, labels and summaries in pi's file (the code refuses those
edits: `CutRefused`), pictures, messages placed where they were read.

### EventStream

One chat's rows (`rows`, `last`, `ends`, `count` for `sessions.reloads`, `aside`
for a version to go back to), the answer being written (`live`, `said`), the
stream of one reader (`stream`, the replay's `batch`, what is `waiting` behind
it, `lastSent`), the `wire`, and the reader (`at`, `known`, `fresh`,
`replacing`, `shown`, `above`, `view`), which is the page or, with `panel`, an
extension's. `Record`, `MessageUpdates`, `MessageEnds` and `PiGone` write;
`RemoveTurn`, `ReplaceTail` and `GoBack` take out and put back; a way back that fails to
write pi's file (`GoBackCutShort`) is in `SpecCutShort` only. `Connect`,
`ReplayRow`, `ReplayPage` and `GoLive` are the route: the server may wait for a
slow reader between any two rows. `Hear...` is what App.tsx makes of each event,
`Cut` breaks the stream with what is on the wire, and older events are asked for
and answered at some time (`OlderAnswered`, `HearOlder`). The streams of tools
and subagents go like an answer's; dialogs, and a message that is moved to where
it was read, are left out.

### Routines

The rows of some routines, those running (`running`, `held`, `runs` with the row
each read as it began), the portal's `server` and the project's `folder`, and
deletes of it. Time is in minutes: `Tick` begins all that are due in their order,
`Pass` lets a minute go by. A run is `Begin`, `RunEnds` with `WrapUp` (which
writes from what it read), and `RunWound` once its chat was let go. People make
routines, remove, move, rename, switch and set them to a new moment (`Retime`).
A delete of the project holds its routines, stops what it finds (`DeleteBegins`),
looks again (`Late`) and removes the folder (`Deleted`), or fails and lets go.
`Close` and `Exit` stop the portal, `Crash` kills it, and `Boot` is
`settleInterrupted` and what follows. How a turn of the agent ends is two
outcomes, over or interrupted; the next slot of a schedule is one constant
(cron.ts's arithmetic is not modelled), and a recurring routine is due each minute.

### Channels

Some channels of one package: what was saved (`enabled`, `config`, a number for
what a signature is made of), the package (`installed`), each one's state
`file`, and the supervisor: `running`, `retries`, the `chain` of syncs and
retries, and how far the one at its head is (`pc`, `who`, `todo`, `wanted`,
`sigs`, `kinds`: what a sync read and still goes by). A start lives in a slot of
its own in `starts`, as one that was stopped goes on in the package's code: it may
still save state, fail, or come to its end, on time or `late`. `Shutdown` lets go of all
that is held at once, in no turn of the chain, whatever that awaits; the job under way and
those behind it go on (`closing`) until `Restart`, the end of the process and the start of
the next, which may as well come without a shutdown. Left out: the
deletion of a package, asks and relays, the loader.

### Handoff

The disk alone survives a stop, so it is the state: the folders `source`,
`partial`, `profile`, `left`, `taking`, `copy` and `taken`, each with whole files
or absent, and whether the database `needs` the upgrade. `pc` is how far a start
of the portal is; each file-system call is an action, and `Stop` may come after
any. A folder may be a mount that cannot be renamed, out of reach in one start,
or on another file system (`mounted`, `reached`, `across`). The person may go
back to the older version, by the guide or with the backup alone, which makes
files again (`gen`). `made`, `given` and `done` are history.

### InstanceLock

`holdDataDir` on any number of servers: the `stage` each is at, the `place` each tries (the socket
in the directory, then the abstract name) and its second `attempt`; whose the
socket `file` is, or one `Left` by a server that ended; who has the `name`.
Binding and listening are two system calls, so two actions. A server may be
killed at any step (`End`): the system lets go of the name, and the file stays.
`Overlap` says whether a server may be started while another starts.

## 3. Runs

| Run | Instance | Shows |
|---|---|---|
| `PiLifecycle` | 2 prompts, 2 edits, 1 delete, 3 pis, host and container; symmetry; 1.2 M states | `OnePi`, `LivePiHoldsFile`, `NoPiOutlivesChat`, `RewrittenAlone`, `UndoesItsOwn`, `ReaperSparesUse` |
| `PiLifecycle_live` | 1 prompt, 1 edit, 1 delete, 2 pis, host and container; fairness; 18 k states | `PromptsAnswered`, `EditsLetGo`, `DeletesEnd` |
| `MessageQueue` | 3 messages, 1 Stop or take-back; symmetry; 529 k states | `WaitsForPi`, `ShownAsItIs`, `OneAtATime`, `PlacedAsRead`, and `Delivers`: it implements `Delivery` |
| `MessageQueue_live` | 2 messages, 1 Stop or take-back, 1 run unasked, preflights that may be stuck; fairness; 139 k states | `StopsEnd`, `SendsEnd` |
| `InstanceLock` | 3 servers, one start at a time; 367 states | `OneServer`, `NothingLeftKeepsOut` |
| `Routines` | a one-off and a routine made meanwhile, 1 delete, 2 minutes, 2 changes, 1 crash; fairness | `MomentRunsOnce`, `NewMomentStands`, `FolderSparesRuns`, `RowsTellTrue`, `MomentsCome` |
| `Handoff` | 3 files, made twice, stopped half way twice; symmetry | `NothingLost`, `ReadWhole`, `DoneOnce` |
| `ConversationEdit` | 4 turns, words of their own or repeated, 4 edits, 3 writes that fail, 1 stop; 1.2 M states | `InStep`, `NothingHidden`, `VersionsStand`, `WordsStay` |
| `EventStream` | 3 events, 2 edits, an answer in 2 pieces, 1 cut of the stream; fairness | `ShowsTheChat`, `InOrder`, `ShowsTheAnswer`, `CatchesUp` |
| `Channels` | 2 channels, 2 saves, 1 start that fails, 1 restart; fairness; 1.5 M states | `StartsAlone`, `ForgetsForGood`, `ComesUp` |
| `Restart` | 4 messages in 2 words, 3 ends of the portal; symmetry; 1.4 M states | `OfferedUnread`, `ShownReadIsRead`, `CutOffSaid` |
| `Restart_stop` | 3 messages, 2 ends | refutes `NextStartFindsIt`: section 5 |

Section 5 has the configurations that are run by hand and refuted. Three more pass:
`MessageQueue_jobs.cfg`, `WaitsForPi` and `Delivers` beside a run pi begins unasked,
`ConversationEdit_deep.cfg`, seven edits with nothing that fails, and `Channels_deep.cfg`,
the safety of `Channels` with two starts that fail (2.8 M states, with symmetry). `TypeOK` of each
module (`LockTypeOK` of `InstanceLock`) holds in its run; those of `PiLifecycle`, `Restart`,
`Routines` and `Channels` are theorems too (`TypeCorrect`), and the other proofs
rest on what they need of the types.

**Bounds.** Three pis are one that is let go, one that is up, and one whose
launch races both; two edits and two prompts are what it takes for one to come
between the steps of another, and the delete races both. Nothing relates three
requests of one kind. `Pis` bounds the
launches: with all used, `Create` waits, and the run's deadlock check is off, as
it is wherever requests may simply be over. Three messages are one that starts
a run, one queued in it and one behind that; a Stop parts those before it from
those after. Each liveness run is as small as lets every kind of request wait
for every other. Symmetry is used only where nothing but safety is checked.

Four turns and four edits are a message before the one edited, that message with
two further versions, and one after; three failing writes are what it takes for
the innermost catch of a switch to be reached. What four edits do not reach is a
version that comes back only by way of two others, one after the other
(`VersionsStand` as a way of two steps held here, and six edits refuted it):
`ConversationEdit_deep.cfg` goes on to it, and the theorems of section 4 to any
number. Three events with a query of one
row each let something happen between the queries of a replay, before them and
after them; two edits are a tail replaced and gone back to. In `Routines` the
second minute is the later moment a one-off is set to; two changes are a change
and its reversal. Two channels are what it takes for a sync for the sake of one
to do something to the other; a failed start arms a retry, and in
`Channels_deep.cfg` a second one fails it.
Three files are one moved, one being moved and one still to be; two stops half
way let a start that recovers be stopped in its recovery. In `Restart` four
messages with two wordings are one that begins a run, one read in it and one not,
and one after the restart, any of them in the same words; three ends are a crash,
one during the recovery from it, and one of the portal that then runs.

**Fairness.** `PiLifecycle` and `MessageQueue`: an action that goes on with what
a request has begun is weakly fair, as the event loop runs every settled promise
and timers bound the waits (three seconds for a release, ten for a run to
settle, five for what is being handed over). No timer bounds pi's own abort, which a
delete awaits first, where pi is on the host: it may take as long as the run does, so
that step of a delete is fair only once no run goes on (`Unbounded`), and `DeletesEnd`
names the exception. In a container the abort is a request that is given up on after
thirty seconds (`pi/rpc-client.ts`). Prompts held at the edit lock are
strongly fair: the lock's release resolves the promise they await, so they run
before any later request could take the lock again. Launches and reloads are
assumed to come back, in either way. Nobody has to send, edit, delete or press
anything, and a run may last for ever: in `PiLifecycle` an aborted one too, while
`MessageQueue` assumes that a run which was aborted settles. `MessageQueue_live`
assumes nothing of preflights: `StopsEnd` holds with one that is stuck;
`SendsEnd` assumes in its statement that they end. `Routines`: the timer ticks,
each run comes back and its chat winds down, a portal that is closing exits, one
that is down is started again, and a delete under way goes on; all weakly fair,
since each is a timer, a promise that settles, or a service that is restarted.
`EventStream`: the server goes on with a replay, the
reader reads and connects again. `Channels`: the job at the head of the chain goes
on, a start that is under way comes up unless it fails (how often is bounded), and
a retry's timer fires; a portal that is asked to stop is gone after ten seconds and comes
back.

## 4. Proofs

`PiLifecycleProofs`, for any number of prompts, edits, deletes and pis, on the
host or in a container, from `DistinctAssumption` and `PlacesAssumption`
(requests of different kinds are different, and the values that stand for nobody
are nobody's):

- `TypeCorrect`: `Spec => []TypeOK`;
- `OnePiAtATime`: `Spec => []OnePi`;
- `LivePiIsCurrent`: `Spec => []LivePiHoldsFile`;
- `FileRewrittenAlone`: `Spec => RewrittenAlone`;
- `Invariance`: `Spec => []IInv`, on which these rest.

None of the three is inductive. `OnePi` needs to know where every pi is
(`PisInPlace`): one being made belongs to the launch, one winding down is the one
in `releasing`, and a launch that has passed its wait has seen the last release
or nothing has been let go since, because nothing is live during a launch.
`RewrittenAlone` needs that an edit which has stopped pi keeps others from
starting one until it has written (`EditsLocked`): it holds the lock, no launch
is in flight, and what is winding down is what it waits for. `LivePiHoldsFile`
follows with `PisReadTheFile`, which says the same of the pi being made. The
step lemmas (`TypeStep`, `PisStep`, `LockStep`, `FileStep`) take one action at a
time; the frame lemmas (`PisFrame`, `LockFrame`, `FileFrame`) discharge those
that leave the conjunct's variables alone.

A second invariant, `EditInv`, stands on the first. It says that the chat's row and
folder go together (`RowOK`), that an edit which waits for its answer keeps the chat
running, so that no other edit begins (`SentOK`), and so that whoever has rewritten
the file and is not over with it was the last to do so (`OwnOK`). From the two:

- `UndoneIsOwn`: `Spec => UndoesItsOwn`;
- `UseIsSpared`: `Spec => ReaperSparesUse`, as a pi a request was given is the one
  that is live until the request is over with it, and the reaper looks at both in
  one turn;
- `DeletedForGood`: `Spec /\ []OneDelete => []NoPiOutlivesChat`, by `DeleteOK`: the
  mark is there for as long as the delete is, and from the moment it stops pi until
  the chat is gone, nothing creates another. The hypothesis is a behaviour's, that no
  two deletes of the chat overlap; where they do it is false (finding 8). The run's
  one delete satisfies it.

`StartProofs`, of the two modules that are about the start of a portal. `InstanceLock`,
for any number of servers and any directory:
`OneHolder == Sound => (LockSpec => []OneServer)`, where `Sound` says that no two
servers start beside each other, or that no socket can be made in the directory,
or that its path is too long for one. The inductive invariant: all who get
anywhere are at the first place that works, who listens there has its address,
and who removes a stale socket is alone. The abstract name needs no such
condition, as it is never removed: the theorem covers starts that overlap there.
Where a socket is made in the directory and starts overlap, `OneServer` is false
(finding 9). `NothingKeepsOut == FileAlone => (LockSpec => NothingLeftKeepsOut)`: where the
lock is the socket's file, can be made and is asked for by one server at a time, a
server gives up only where another holds the data (`SecondTry`: what refused it once
is removed, and the second try meets nothing that a dead one left). It is not so of the
abstract name: one whose holder ends between the bind that finds it in use and the
question turns its finder away with nobody there.

`StartProofs` of `Handoff`, for any files, any number of ways back and any number of
stops half way, from `HandoffAssumption`:

- `HandoffLosesNothing`: `Spec => []NothingLost`, by `LostInv`, which adds to it
  where each step of a start leaves the folders (`PlacesOK`), that what has a
  file's name where that file is moved to is its copy (`NamesOK`), and that what is
  still aside of a hand-off that was taken is in what was taken (`AsideOK`);
- `HandoffDoneOnce`: `Spec => DoneOnce`, by `DoneInv`: a file goes down once
  (`ApartOK`), a copy is of what was moved aside (`CopyOK`), and what is done is in
  none of the places that can still be taken from (`DoneOK`);
- `HandoffReadWhole`: `Spec => ReadWhole`, by `WholeInv`: what there is still to
  hand off is whole, kept or half moved, and so is what was left and taken of it,
  unless its removal has begun, when it is never read again.

`RestartProofs`, for any number of messages, in any words, and any number of
crashes and stops, from `RestartAssumption` (the two bounds are numbers):
`TypeCorrect`, and `CutOffIsSaid == Spec => []CutOffSaid`. The status alone does not
tell how it came about, so the invariant says for each state of the portal what it
stands for. While it listens (`UpOK`), a chat is shown as running exactly when a run
goes on whose message is not one of those still waiting, and nothing runs or waits
across a cut. This holds over what pi says only because a waiting message that began
a run is the first one heard of (`OrderOK`: what pi was handed is older than what it
was not, and what it queued is younger than what began the run). While it closes the
run is shown and stays so (`ClosingOK`, `StoppingOK`), and while it is down the
database is all there is (`OffOK`). `FirstIsLeast`, that a set of messages has an
oldest, is proved from the well-foundedness of inclusion on finite sets, since the
library's inductions take operators.

What the page tells of messages after a restart is a count by words, so it needs an
invariant of its own, `TellInv`: where a message can be between pi's hands, its queue
and its file (`LifeOK`), what the rows say of those on their way (`MarksOK`), that
what is left of the file's words is what the rows do not account for (`CountOK`), and
what each mark is evidence of (`OfferedOK`, `ShownOK`). With it
`OfferedIsUnread == Spec => []OfferedUnread` and
`ShownIsRead == Spec => []ShownReadIsRead`, which name the twin of the same words
that is the one way they can be wrong (finding 13).

`MessageQueueProofs`, for any number of messages, Stops and take-backs, in any
interleaving, where `Tidy` holds of the constants:

- `HandedSingly`: `Tidy => (Spec => []OneAtATime)`;
- `PlacedByItsReading`: `Tidy => (Spec => PlacedAsRead)`;
- `StandsAsPromised`: `Tidy => (Spec => Delivers)`, the refinement of `Delivery`
  through `Standing`, one lemma for each action of `MessageQueue`;
- `WaitsIsHeld`: `Tidy => (Spec => []WaitsForPi)`;
- `ShowsItsWork`: `Tidy => (Spec => []ShownAsItIs)`.

`Tidy` says of the constants what `MessageQueue.cfg` sets, for any number of each:
pi begins no run unasked (`MaxRuns` is 0), no Stop comes while a message is on its way
to an idle pi (`~Early`), no preflight outlasts the five seconds a Stop waits for it
(`Patient`), and no two messages can come to the same words (`OwnWords`). None can be
left out of the whole: `OneAtATime` fails with early Stops (finding 3), `Delivers` with
those and with preflights that are stuck (finding 15 and below it), `PlacedAsRead` and
`ShownAsItIs` with a run unasked, and the server knows a message by its words alone.

The invariant (`IInv`) is the argument of why a chain of promises hands over one
message at a time. `ChainOK`: of two messages on their way one is ahead of the other
in what it waits for, the last link has all of them ahead of it, whoever is being
handed over has nothing ahead that is still to come, and a Stop that has dropped what
waits has nothing unheard of ahead of it. `EventsOK`, `TellsOK` and `FreshOK`: at one
time at most one reading is unheard, the last queue told is pi's, and what is in `fresh`
is the message whose reading is to come or that pi is being handed. `QueueOK`, `PiOK`
and `WaitOK`: what is in pi's queue waits in its own lane on the page, and what waits
and pi has is in its queue or has been read. `AccountOK` and `AgainOK` say where a
message is that was read, placed, marked as not sent, or taken back. `WaitsForPi`
compares counts at rest, so it needs besides that what was read and still waits is
about to be placed (`ReadOK`) and that what pi had as its run ended it has not read
(`HadOK`); the counts come from `Counted`, that a list which names each once is as long
as its set. `ShownAsItIs` needs `ShownInv`: pi's runs as they are told, the mark as it
follows them (`MarksOK`), and that a Stop past its gate has every message on one side
of it, or nothing new can begin (`LinkedOK`). The inductions over lists and positions
are done over sets of numbers, from the well-foundedness of `<`; the folds of the model
are reasoned about as what they do at each index.

`RoutinesProofs`, for any routines, slugs, times, changes, deletes and crashes, from
`RoutinesAssumption`: `TypeCorrect`, `ToldTrue` (`RowsTellTrue`), `RunOnce`
(`MomentRunsOnce`), `NewMomentIsKept` (`NewMomentStands`) and `FolderSpared`
(`FolderSparesRuns`). What makes a one-off run once over crashes is that a run records
when it began before it asks, so one that was served, or has a run under way for its
moment, is done (`ServedOK`, `RunsDone`, with `TimesOK`); that a run is alone under its
slug and marked (`FlightOK`, over `SlugsOK`); and for folders that the holds on a slug
are as many as the deletes that hold it (`HeldOK`, a cardinality), and no run of the
project is under one a delete holds (`FolderOK`). The times begin at one
(`MaxTime \in Nat \ {0}`) and the deletes are finitely many, which the counting needs.

`ChannelsProofs`, for any number of channels, saves, failures and restarts, from
`ChannelsAssumption`: `TypeCorrect`, `GoneForGood` (`ForgetsForGood`) and `StartedAlone`
(`StartsAlone`, which is about a portal that is not closing: finding 16). What the
supervisor holds of a channel is a start of that channel that
was not stopped (`HeldOK`); one that was stopped and has not ended is of the channel
the chain waits for, as long as the portal is not asked to stop (`WaitsOK`,
`EndingOK`); and a sync has still to look at all that is up and
not wanted (`SyncOK`), so that a channel forgotten is one it has stopped.

`ConversationEditProofs`, for any turns, in any words, and any number of edits,
failing writes and stops, from `ConversationAssumption` (the bounds are numbers, and
the value that stands for no file is no file):

- `NoWordsLost`: `Spec => WordsStay`, from what an edit knows of what it takes away and
  brings back (`KnownOK`): the version it keeps has those very turns, so whichever step
  fails, what leaves the transcript is kept, and what leaves the versions is shown;
- `NothingStaysBehind`: `~EarlyFile => (Spec => []NothingHidden)`;
- `StaysInStep`: `~MissAny /\ ~EarlyFile => (Spec => []InStep)`;
- `VersionsComeBack`: `~MissAny /\ ~EarlyFile => (Spec => []VersionsStand)`.

The hypotheses are what `ConversationEdit.cfg` sets, and none can be left out of the
whole: with `MissAny` a message pi refused is taken for another in the same words
(finding 4), with `EarlyFile` the way back has no file to write (finding 5). A message
in words of its own may still stay out of pi's file.

`InStep` compares two stores that are never written together, so it needs to know of
every file there is, not of pi's alone: those an edit holds to go back to, and those
the versions would bring back. `PlaceInv` says where turns are: each file has its turns
in order with the settings where pi wrote them, and each phase of an edit knows what
lies between what it took out and what has come since. `MissedOK`: what is shown and
never got to pi is told from the rest by its words, or `locate` would go astray; with
it `locate` finds a message at its own place, or nowhere (`Matched`). `TellInv` is the
heart of it. A version is taken out of a conversation that is gone by the time it
comes back, so the invariant says that there is a `past`, the conversation as each
turn was sent, from which the page, each version and each file can be told; a switch
puts a version's turns where its past had them, and the file with them. Only a removal
changes what came before a turn, and it forgets the versions that could still tell.

`VersionsStand` needs `StandInv` besides. In `AllGoOn` each version agrees, up to the
message it goes on from, with the file it is to come back to, and the file leads to it
through the other versions of that message: each step is what `keptFile` compared, an
edit with the cut or a switch with the version that comes. It is kept for the file an
edit would go back to as well (`DidGoOn`), since a failure makes that the file again.
`SeqOK` has an edit's own version where its message was, and `RootedInv`
has each go on from something shown or kept, which `dropVersionsAt` keeps so by going
into versions inside versions.

`locate` is a function on the numbers up to a seq, the start two files share a longest
common prefix, and the cut a `RemoveAt` or a `SubSeq`. What each yields is proved once
(`IsFound`, `Matched`, `StartOf`), the inductions over sets of numbers.

`EventStreamProofs`, for any number of events, edits, answers and pieces of them, any
page of a query and any window, and any number of cuts, from `EventStreamAssumption`
(the bounds are numbers, and a page and a window hold something):

- `HeldInOrder`: `Spec => []InOrder`;
- `ShownAsStored`: `Spec => []ShowsTheChat`;
- `AnswerAsSaid`: `Spec => []ShowsTheAnswer`.

All three speak of what is shown, which comes of everything on its way: what waits for
the end of a replay, the batch that is being written, the wire, what the reader
gathers, and a page of older events that is asked for. `CourseOK` says for each of
these what may be in it (`StreamOK`: before the snapshot a wire has only the replay, and
a snapshot is the last thing before the replay is over), and that all of it goes up, one
list after the other, past the reader's cursor (`OrderOK`). It yields `InOrder`.

`ShowsTheChat` compares the reader with a store that changes under it. By `ChatOK`, of a
reader that will not hear that it has to read again (`Doomed`): each event stored is
held, or on the wire, or will be read by the replay (`Complete`); what is held or on its
way and is stored no longer has a removal behind it (`Leaves`); and no removal on its way
takes what is stored now, unless it comes again behind it (`Stays`), which is how a
version that is put back survives its own removal. A reader that has been away stands on
the count alone (`OfflineOK`: if the count it knows is the store's, nothing was removed
since), so `CountOK` has each removal with a count of its own, heard in turn. `endHeld`
is in `ChatOK` as it is in the property: the removal without an end is finding 2.

`ShowsTheAnswer` is by counting. While pi writes, what was said of the answer is the
snapshot on the wire with the pieces behind it, or what is shown with those on the wire
(`SaidOK`); after the event that ends an answer, nothing more is said of it (`EndedOK`),
so that what is shown as ended stays so.

The folds of the model go through the messages of a list. A fold is a choice of
iteration, so the proofs first show that there is one (`IsPick`, `IsWritten`), then what
it leaves at each position (`Picked`, `Writes`), by induction over sets of numbers.

With these, every invariant the passing runs check is a theorem. Only model-checked are
all liveness (`PromptsAnswered`, `EditsLetGo`, `DeletesEnd`, `StopsEnd`, `SendsEnd`,
`CatchesUp`, `MomentsCome`, `ComesUp`), which is about fairness, and what needs ENABLED.

## 5. Where the code and its comments part

A run lists this one:

1. `Restart_stop`. `shutdown` says that an abort has settled the run, so that the
   chat it then records as running is found running by the next start. Elsewhere the
   code knows better (`whenSettled`: "pi settles a run a moment after its abort() has
   returned"). Where another chat's abort is still waited for, the settle is heard
   after the record and marks the chat idle. The next start does not say it was cut
   off, and the person on a channel is not told. The test of it has one chat, and a
   pi that settles inside its abort.

Each of these configurations, run by hand, is refuted by TLC as well:

2. `EventStream_last.cfg` (`NoGap`). `api/events.ts:42-44` promises no gap. The
   removal of the last turn has no end; held over a replay of several queries, it
   takes a message with it that was sent after it.
3. `MessageQueue_chain.cfg` (`OneAtATime`). `submit` hands messages over one at a
   time. A Stop pressed while a first message is in its preflight ends before that
   message's link does, and takes the chain away.
4. `ConversationEdit_words.cfg` (`InStep`). A message pi refused, sent again in the
   same words: removing the first takes the second's turn out of pi's file, as
   `locate` goes by words.
5. `ConversationEdit_nofile.cfg` (`NothingHidden`). An edit with no file of pi's
   before it, whose replacement's run fails but leaves a file: the way back has
   nothing to write, so pi keeps the replacement that is gone from the page.
6. `PiLifecycle_back.cfg`. `settleEdit` says an edit whose run failed goes back
   unless the chat went on. A reload of the extensions that came due during the
   run is begun at its end, under the lock the edit then asks for and is refused.
7. `PiLifecycle_cleanup.cfg`. `Executor.cleanup` is for what is left behind. After
   the exit of a container's pi nothing waits for it, and by name it removes the
   container of the pi started since.
8. `PiLifecycle_twodeletes.cfg`. `discard` is to keep a launch from outliving the
   delete. Two deletes of one chat share its mark, and the one that fails takes
   it away from the other.
9. `InstanceLock_overlap.cfg`. `holdDataDir` makes a server the one on its data. Of
   two started together on a stale socket, each may remove what it asked a moment
   ago, and by then that is the other's.
10. `Routines_rename.cfg` (`HeldRunsNothing`). The delete of a project holds its
   routines so that no run of them starts; the hold is kept by slug, which a rename
   changes.
11. `ConversationEdit_twice.cfg` (`ComesBack`). `keptFile` says that the settings pi
writes on opening
    a conversation again belong to the version that goes, not to the one it goes
    back onto. A switch keeps to that; an edit compares with the cut, which still
    has them. A message retried twice and switched back once leaves its second
    version on offer, and `fileFor` refuses it until the third has been shown again.
12. `Restart_cleared.cfg` (`ClearedIsTold`). A message that a shutdown takes out of
    pi's queue is to be "settled at the next start, as after a crash". The run's settle,
    heard before pi is stopped, takes what is in the queue no more for read
    (`settleWaiting`), as a person's Stop would have marked it first. The model has the
    portal hear at once that the queue is empty, which pi's own `clearQueue` says.
13. `Restart_words.cfg` (`RestNeverReachedPi`). `settleOrphanedMessages` says that what
    is not found in the file never reached pi. It counts: a message in the same words
    that counts as sent, and is not in the file (refused, handled by an extension, or
    cut off before pi wrote it), takes the place of one that is. `OfferedUnread` and
    `ShownReadIsRead` say that nothing else goes wrong.
14. `MessageQueue_again.cfg` (`StaySent`). `takeBackWaiting` says that the messages that
    stay are sent again. Their rows are deleted first, and a refusal of one by pi ends the
    loop: those behind it are gone from the chat and from pi.
15. `MessageQueue_taken.cfg` (`Delivers`). A message handed over as a run ends starts one
    of its own unexpected (`fresh` was not set), and under words a handler changed it is
    not found by `takeIn`: it shows as waiting through its own run. Taken back then, it
    is deleted though pi has read it, or read twice.
16. `Channels_closing.cfg` (`StartsAloneToTheEnd`). `sync` is "serialised: two overlapping
    syncs would start the same channel twice". `shutdown` takes no turn in that chain. It
    lets go of every channel at once and waits up to five seconds for their stops; a sync
    that is under way, or asked for meanwhile, finds a channel not held and starts it
    beside the old start of it. That one is not stopped, and goes on to the end of the
    process.
17. `EventStream_putback.cfg` (`ShowsTheChat`). `reloadPages` says of events that came
    back under the seqs they had: "each page holding the chat loads it again".
    `revertEdit` comes to it only where `undo` returns, and `undo` writes pi's file last:
    if that fails, the events are back and no page is told, those that were away included.

Seen while modelling, and kept out of the passing runs by their parameters, by a
named exception in a property, or by what is left out:

- a run pi begins unasked during the preflight of a message to an idle pi is
  taken for that message's (`fresh`): `PlacedAsRead` is checked with `MaxRuns` 0;
  so is `ShownAsItIs`, since a message sent while idle and refused after such a
  run began marks the chat as failed while pi works;
- two messages in the same words, one of them rewritten by an input handler, are
  matched by words alone after a failed run: the runs give messages unlike words;
- a message that started a run in the turn in which `forward()` holds the end of
  the last can be marked as not sent though pi has just read it, also by a Stop
  that waits for what is handed over: `Delivery` promises only that nothing is
  read from then on;
- a prompt held by an edit marks the chat running without asking again whether it
  is being deleted (`ensureClient` then refuses it);
- an edit can begin while a prompt is on its way at the end of a run, and remove
  that prompt's event;
- a version that neither stays shown nor can be kept again is lost by design (the
  inner catch of `switchVersion`), and with it what leads to versions inside it
  (`apart`); a shown message pi never got cannot be switched away from, so its
  other versions are out of reach; one kept when there was no file cannot come
  back once there is; one may come back only after several others have, each in its
  turn (`ComeBack`); where the way back's transaction fails, the replacement stays
  shown beside pi's old file;
- a project's folder can be removed under a run whose routine was moved away,
  removed or renamed meanwhile (`Unchanged` in `FolderSparesRuns`); a one-off set to
  a moment that is already past counts as one that had its run;
- a hand-off whose removal was cut off half way leaves files that are never read,
  and keeps a later hand-off from being taken; a copy left half done is added to
  if the extension's folder stops being on another file system, which the model
  takes as fixed (`across`);
- older events asked for before a removal and answered after it are put back above
  on that page (`InOrder` asks for their order only); a kill between a removal and
  the count of reloads leaves pages that were away untold (the model's removals do
  both at once);
- a channel whose start never resolves holds the chain of syncs for good (the
  model's starts end);
- the delete of a chat whose pi on the host never winds down is never over, and the chat
  stays marked as being deleted: `abort` awaits pi's own (session-manager.ts:3106) without
  the grace that `shutdown` gives the same call (`Unbounded` in `DeletesEnd`).

## 6. Plan

What is left, in this order.

1. `MessageQueue` extended: commands, a pi that exits
   (`forgetPi`), a container's pi; composed with `ConversationEdit`, for the prompt
   on its way when an edit begins.
2. `OnePiService`, the abstract promise of `PiLifecycle` (one pi, current,
   none after the chat), and the refinement, proved from `IInv`.
3. `SessionRun`: the chat's status, compaction, `ask` and its timeouts.
4. `Cron`, its arithmetic against a reference, and heartbeats beside `Routines`.
5. Child chats in deletes, `Restart` with subagents, commands and held answers,
questions, isolated halves, voice leases.

Proofs to come: the refinement of `OnePiService`. New modules share runs with
what is there: one run per question, with the properties that go together in it.

**Not modelled, and not planned.** The guard and tool policy are sequential
decision tables, best tested; the database's queries, sign-in, models, files and git
are input and output around one call; the web front end's drawing has no state that
others rely on; the channels' adapters and the bundled extensions are programs of
their own. `PROJECT.json` says so of each.
