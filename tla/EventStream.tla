----------------------------- MODULE EventStream -----------------------------
(* A chat as a browser holds it: the events the portal stores of it, the stream
   they come over (api/events.ts), and the page that reads it (App.tsx), or the
   panel of an extension (chat-stream.ts).  The stream is replayed from the last
   event read and then goes on live; it is cut off and opened again, the server
   waits for a slow reader between any two events, and meanwhile events are
   stored, taken out, and put back under the numbers they had.                *)
EXTENDS Integers, Sequences, FiniteSets, SequencesExt

CONSTANTS
  LastSeq,     \* bound on the events that are stored
  MaxReloads,  \* bound on the edits
  MaxCuts,     \* bound on how often the stream is cut off
  MaxAnswers,  \* bound on the answers that are written
  MaxSaid,     \* bound on the pieces an answer comes in
  Page,        \* REPLAY_PAGE: the events one query of a replay returns
  Window       \* REPLAY_EVENTS: the events a page that is opened is given

Seqs    == 1..LastSeq
Answers == 1..MaxAnswers

ASSUME EventStreamAssumption ==
  /\ LastSeq \in Nat /\ MaxReloads \in Nat /\ MaxCuts \in Nat
  /\ MaxAnswers \in Nat /\ MaxSaid \in Nat
  /\ Page \in Nat \ {0} /\ Window \in Nat \ {0}

VARIABLES
  \* the database
  rows,     \* the events of the chat, by their seq
  last,     \* the last seq handed out
  ends,     \* the answer each event is the end of; 0: of none
  count,    \* sessions.reloads
  aside,    \* the events of an earlier version, to go back to
  \* LiveEvents
  live,     \* the answer that is being written; 0: none
  said,     \* how much of it has been said
  answers,  \* how many there were
  \* the stream on the server
  stream,   \* "off", "replay" or "live"
  read,     \* the last event the replay has written
  batch,    \* what is left of the query's rows
  more,     \* that query returned a whole page of them
  waiting,  \* what was said while the replay goes on
  lastSent,
  wire,     \* what is written and not read
  \* the reader
  panel,    \* it is an extension's panel, not the page
  online,   \* its stream is asked for, not just about to be asked for again
  at,       \* seq: the last event it has read
  known,    \* reloads: the count it last heard; -1: none
  fresh,    \* it reads from the start
  replacing,
  gathering, buffer,  \* replay: null, or what has come of it
  shown,    \* the events it has from its stream, in order
  above,    \* those it has fetched from above them
  answered, \* what was fetched and is on its way; <<0>>: nothing
  view,     \* how much it shows of each answer that is being written
  \* history
  floor,    \* where the stream began that was last read from the start
  endHeld,  \* a removal without an end waited for that stream's replay
  cuts

store  == <<rows, last, ends, count, aside>>
writer == <<live, said, answers>>
server == <<stream, read, batch, more, waiting, lastSent>>
reader == <<panel, online, at, known, fresh, replacing, gathering, buffer, shown, above, answered, view>>
past   == <<floor, endHeld, cuts>>
vars   == <<store, writer, server, wire, reader, past>>

Ascending(s) == \A i, j \in DOMAIN s : i < j => s[i] < s[j]
Sorted(S)    == CHOOSE s \in [1..Cardinality(S) -> S] : Ascending(s)
Open      == LastSeq + 1   \* the end of a removal that has none
Covered(from, to) == {r \in Seqs : from <= r /\ (to = Open \/ r < to)}
Idle      == <<0>>

\* What is said over the stream.
Row(r)           == [kind |-> "row", row |-> r, of |-> ends'[r]]
Delta(a)         == [kind |-> "delta", of |-> a]
Snapshot(a, n)   == [kind |-> "snapshot", of |-> a, said |-> n]
Reloads(n)       == [kind |-> "reloads", count |-> n]
Removed(f, t, n) == [kind |-> "removed", from |-> f, to |-> t, count |-> n]
Reload(n)        == [kind |-> "reload", count |-> n]
CaughtUp         == [kind |-> "caughtUp"]

TypeOK ==
  /\ rows \subseteq Seqs /\ last \in 0..LastSeq /\ ends \in [Seqs -> 0..MaxAnswers]
  /\ count \in 0..MaxReloads /\ aside \subseteq Seqs
  /\ live \in 0..MaxAnswers /\ said \in 0..MaxSaid /\ answers \in 0..MaxAnswers
  /\ stream \in {"off", "replay", "live"} /\ read \in 0..LastSeq /\ lastSent \in 0..LastSeq
  /\ batch \in Seq(Seqs) /\ more \in BOOLEAN
  /\ panel \in BOOLEAN /\ online \in BOOLEAN /\ fresh \in BOOLEAN
  /\ replacing \in BOOLEAN /\ gathering \in BOOLEAN
  /\ at \in 0..LastSeq /\ known \in -1..MaxReloads
  /\ shown \in Seq(Seqs) /\ above \in Seq(Seqs) /\ answered \in Seq(0..LastSeq)
  /\ view \in [Answers -> 0..MaxSaid]
  /\ floor \in 0..LastSeq /\ endHeld \in BOOLEAN /\ cuts \in 0..MaxCuts

\* A chat with some events, opened.
Init ==
  /\ last \in 0..LastSeq /\ rows = 1..last /\ ends = [r \in Seqs |-> 0] /\ count = 0 /\ aside = {}
  /\ live = 0 /\ said = 0 /\ answers = 0
  /\ stream = "off" /\ read = 0 /\ batch = <<>> /\ more = FALSE /\ waiting = <<>> /\ lastSent = 0 /\ wire = <<>>
  /\ panel \in BOOLEAN /\ online = FALSE /\ at = 0 /\ known = -1 /\ fresh = TRUE
  /\ replacing = FALSE /\ gathering = FALSE /\ buffer = <<>> /\ shown = <<>> /\ above = <<>> /\ answered = Idle
  /\ view = [a \in Answers |-> 0]
  /\ floor = 0 /\ endHeld = FALSE /\ cuts = 0
-----------------------------------------------------------------------------
(* The server: what is recorded, and who hears of it. *)

InSnapshot(m) == m.kind = "delta"

\* onEvent's guard: nothing the replay covered; and what is written of an event.
IsNews(m, sent) == m.kind # "row" \/ m.row > sent
Sends(m) ==
  /\ wire' = IF IsNews(m, lastSent) THEN Append(wire, m) ELSE wire
  /\ lastSent' = IF m.kind = "row" /\ IsNews(m, lastSent) THEN m.row ELSE lastSent

\* Faulty: what is said during a replay is let through at once.
EmitAtOnce(m) ==
  /\ IF stream = "off" THEN UNCHANGED <<wire, lastSent>> ELSE Sends(m)
  /\ UNCHANGED waiting

\* Faulty: all of it waits, what the snapshot holds too.
EmitAll(m) ==
  /\ waiting' = IF stream = "replay" THEN Append(waiting, m) ELSE waiting
  /\ IF stream = "live" THEN Sends(m) ELSE UNCHANGED <<wire, lastSent>>

\* onEvent: held while the replay goes on, but for what the snapshot will hold.
Emit(m) ==
  /\ waiting' = IF stream = "replay" /\ ~InSnapshot(m) THEN Append(waiting, m) ELSE waiting
  /\ IF stream = "live" THEN Sends(m) ELSE UNCHANGED <<wire, lastSent>>

EmitOnly(m) == Emit(m) /\ UNCHANGED <<stream, read, batch, more, reader>>

\* record of an event that is kept; `a` is the answer it ends.
Keep(a) ==
  /\ last < LastSeq
  /\ last' = last + 1 /\ rows' = rows \cup {last + 1}
  /\ ends' = [ends EXCEPT ![last + 1] = a]
  /\ EmitOnly(Row(last + 1))
  /\ UNCHANGED <<count, aside, past>>

Record == Keep(0) /\ UNCHANGED writer

\* message_end: stored, and its stream let go of.
MessageEnds ==
  /\ live # 0
  /\ Keep(live)
  /\ live' = 0 /\ said' = 0 /\ UNCHANGED answers

\* message_update: one snapshot on the server, a piece to whoever listens.
MessageUpdates ==
  /\ IF live = 0 THEN answers < MaxAnswers /\ live' = answers + 1 /\ answers' = answers + 1 /\ said' = 1
                 ELSE said < MaxSaid /\ said' = said + 1 /\ UNCHANGED <<live, answers>>
  /\ EmitOnly(Delta(live'))
  /\ UNCHANGED <<store, past>>

\* pi is gone: clear().
PiGone ==
  /\ live # 0
  /\ live' = 0 /\ said' = 0
  /\ UNCHANGED <<answers, store, server, wire, reader, past>>

\* tellRemoved of what an edit takes out.
TakeOut(from, to) ==
  /\ count < MaxReloads
  /\ rows \cap Covered(from, to) # {}
  /\ rows' = rows \ Covered(from, to)
  /\ count' = count + 1
  /\ EmitOnly(Removed(from, to, count + 1))
  /\ UNCHANGED <<last, ends, writer, floor, cuts>>

\* removeMessage, while nothing is written, whose last turn has no end; and
\* takeBackWaiting, of a message that waits.
RemoveTurn(from, to) ==
  /\ live = 0 \/ (to = from + 1 /\ ends[from] = 0)
  /\ TakeOut(from, to)
  /\ aside' = {}
  /\ endHeld' = (endHeld \/ (to = Open /\ stream = "replay"))

\* editMessage: the tail is kept as a version.
ReplaceTail(from) ==
  /\ live = 0
  /\ TakeOut(from, last + 1)
  /\ aside' = rows \cap Covered(from, last + 1)
  /\ UNCHANGED endHeld

\* Faulty: the pages that are away are not told of it.
GoBackUncounted ==
  /\ live = 0 /\ count < MaxReloads /\ aside # {}
  /\ LET since == {r \in rows : \A k \in aside : r > k}
     IN rows' = (rows \ since) \cup aside /\ aside' \in {{}, since}
  /\ EmitOnly(Reload(count))
  /\ UNCHANGED <<last, ends, count, writer, past>>

\* revertEdit and switchVersion: what was kept comes back under the numbers it had,
\* and what went on from there goes, kept in its turn or not (reloadPages).  The way
\* back of an edit ends so where pi's file could be written: see GoBackCutShort.
GoBack ==
  /\ live = 0 /\ count < MaxReloads /\ aside # {}
  /\ LET since == {r \in rows : \A k \in aside : r > k}
     IN rows' = (rows \ since) \cup aside /\ aside' \in {{}, since}
  /\ count' = count + 1
  /\ EmitOnly(Reload(count + 1))
  /\ UNCHANGED <<last, ends, writer, past>>

\* revertEdit where undo's last write, of pi's file, fails: the events are back and
\* the version is gone, what followed stays, and nobody is told.
GoBackCutShort ==
  /\ live = 0 /\ aside # {}
  /\ rows' = rows \cup aside /\ aside' = {}
  /\ UNCHANGED <<last, ends, count, writer, server, wire, reader, past>>
-----------------------------------------------------------------------------
(* The server: a stream is opened, replayed and goes on live. *)

\* eventsSince.
EventsSince(r) ==
  LET s == Sorted({k \in rows : k > r}) IN SubSeq(s, 1, IF Len(s) < Page THEN Len(s) ELSE Page)

\* replayStart: where the last Window events begin.
ReplayStart ==
  LET s == Sorted(rows) IN IF Len(s) > Window THEN s[Len(s) - Window] ELSE 0

Query(r) == read' = r /\ batch' = EventsSince(r) /\ more' = (Len(EventsSince(r)) = Page)

\* connect, and the route: the count, the reset, and the replay's first query.
Connect ==
  /\ ~online
  /\ online' = TRUE /\ fresh' = (at = 0) /\ gathering' = TRUE /\ buffer' = <<>>
  /\ stream' = "replay" /\ waiting' = <<>> /\ lastSent' = 0
  /\ LET cursor == IF at = 0 THEN ReplayStart ELSE at
     IN Query(cursor) /\ floor' = IF at = 0 THEN cursor ELSE floor
  /\ endHeld' = (endHeld /\ at # 0)
  /\ wire' = <<Reloads(count)>>
  /\ UNCHANGED <<store, writer, panel, at, known, replacing, shown, above, answered, view, cuts>>

ReplayRow ==
  /\ stream = "replay" /\ batch # <<>>
  /\ wire' = Append(wire, [kind |-> "row", row |-> Head(batch), of |-> ends[Head(batch)]])
  /\ read' = Head(batch) /\ batch' = Tail(batch)
  /\ UNCHANGED <<store, writer, stream, more, waiting, lastSent, reader, past>>

ReplayPage ==
  /\ stream = "replay" /\ batch = <<>> /\ more
  /\ Query(read)
  /\ UNCHANGED <<store, writer, stream, waiting, lastSent, wire, reader, past>>

\* What waited goes by the same guard.
News(ms, sent) == FoldLeft(LAMBDA out, m : IF IsNews(m, sent) THEN Append(out, m) ELSE out, <<>>, ms)
SentOf(ms, sent) == Max({sent} \cup {m.row : m \in {k \in Range(ms) : k.kind = "row"}})

\* The snapshot, the page is told, and what waited goes out.
GoLive ==
  /\ stream = "replay" /\ batch = <<>> /\ ~more
  /\ stream' = "live" /\ waiting' = <<>> /\ lastSent' = SentOf(waiting, read)
  /\ wire' = wire \o (IF live = 0 THEN <<>> ELSE <<Snapshot(live, said)>>)
                  \o <<CaughtUp>> \o News(waiting, read)
  /\ UNCHANGED <<store, writer, read, batch, more, reader, past>>
-----------------------------------------------------------------------------
(* The reader. *)

\* appendLiveEvents: the events that are kept, and of what is still being written.
RowsOf(ms) == FoldLeft(LAMBDA out, m : IF m.kind = "row" THEN Append(out, m.row) ELSE out, <<>>, ms)
Written(v, m) ==
  CASE m.kind = "row" /\ m.of # 0  -> [v EXCEPT ![m.of] = 0]
    [] m.kind = "delta"            -> [v EXCEPT ![m.of] = @ + 1]
    [] m.kind = "snapshot"         -> [v EXCEPT ![m.of] = m.said]
    [] OTHER                       -> v
None == [a \in Answers |-> 0]

\* What a replay brought, behind what is held or in its place.
Added ==
  /\ shown' = shown \o RowsOf(buffer)
  /\ view' = FoldLeft(Written, view, buffer)
  /\ UNCHANGED <<above, answered>>
Replaced ==
  /\ shown' = RowsOf(buffer)
  /\ view' = FoldLeft(Written, None, buffer)
  /\ above' = <<>> /\ answered' = Idle

Hear(kind) == online /\ wire # <<>> /\ Head(wire).kind = kind

\* reload(): the stream is closed, and opened again from the start.
ReadAgain ==
  /\ online' = FALSE /\ at' = 0 /\ replacing' = ~panel /\ gathering' = FALSE /\ buffer' = <<>>
  /\ stream' = "off" /\ waiting' = <<>> /\ batch' = <<>> /\ more' = FALSE /\ read' = 0 /\ lastSent' = 0 /\ wire' = <<>>
  /\ UNCHANGED <<panel, fresh, shown, above, answered, view>>

\* Faulty: the chat is read again for a count that is not learnt.
HearReloadsForever ==
  /\ Hear("reloads")
  /\ IF known # -1 /\ known # Head(wire).count
       THEN ReadAgain /\ UNCHANGED known
       ELSE /\ known' = Head(wire).count /\ wire' = Tail(wire) /\ view' = None
            /\ UNCHANGED <<server, panel, online, at, fresh, replacing, gathering, buffer, shown, above, answered>>
  /\ UNCHANGED <<store, writer, past>>

\* "reloads", and "live-reset" where the stream goes on.
HearReloads ==
  /\ Hear("reloads")
  /\ known' = Head(wire).count
  /\ IF known # -1 /\ known # Head(wire).count /\ ~fresh
       THEN ReadAgain
       ELSE /\ wire' = Tail(wire) /\ view' = None
            /\ UNCHANGED <<server, panel, online, at, fresh, replacing, gathering, buffer, shown, above, answered>>
  /\ UNCHANGED <<store, writer, past>>

\* An event, kept or only live: gathered, or shown.
HearEvent ==
  /\ Hear("row") \/ Hear("delta") \/ Hear("snapshot")
  /\ wire' = Tail(wire)
  /\ LET m == Head(wire)
     IN /\ at' = IF m.kind = "row" THEN m.row ELSE at
        /\ IF gathering
             THEN buffer' = Append(buffer, m) /\ UNCHANGED <<shown, view>>
             ELSE shown' = (IF m.kind = "row" THEN Append(shown, m.row) ELSE shown) /\ view' = Written(view, m) /\ UNCHANGED buffer
  /\ UNCHANGED <<store, writer, server, past, panel, online, known, fresh, replacing, gathering, above, answered>>

\* portal_removed: what it covers goes, and its count is known.
Uncovered(s, gone) == FoldLeft(LAMBDA out, r : IF r \in gone THEN out ELSE Append(out, r), <<>>, s)
UncoveredEvents(ms, gone) ==
  FoldLeft(LAMBDA out, m : IF m.kind = "row" /\ m.row \in gone THEN out ELSE Append(out, m), <<>>, ms)
HearRemoved ==
  /\ Hear("removed")
  /\ LET gone == Covered(Head(wire).from, Head(wire).to)
     IN IF gathering
          THEN buffer' = UncoveredEvents(buffer, gone) /\ UNCHANGED <<shown, above>>
          ELSE shown' = Uncovered(shown, gone) /\ above' = Uncovered(above, gone) /\ UNCHANGED buffer
  /\ known' = Head(wire).count
  /\ wire' = Tail(wire)
  /\ UNCHANGED <<store, writer, server, past, panel, online, at, fresh, replacing, gathering, answered, view>>

\* portal_reload.
HearReload ==
  /\ Hear("reload")
  /\ known' = Head(wire).count
  /\ ReadAgain
  /\ UNCHANGED <<store, writer, past>>

\* "caught-up".
HearCaughtUp ==
  /\ Hear("caughtUp")
  /\ IF replacing \/ (panel /\ fresh) THEN Replaced ELSE Added
  /\ gathering' = FALSE /\ buffer' = <<>> /\ replacing' = FALSE
  /\ wire' = Tail(wire)
  /\ UNCHANGED <<store, writer, server, past, panel, online, at, known, fresh>>

\* onerror: the connection is lost, the portal restarts, or the laptop sleeps.  The
\* page keeps what arrived, unless that was to replace what it shows; a panel does
\* not, and reads again from the start.
Cut ==
  /\ online /\ cuts < MaxCuts
  /\ cuts' = cuts + 1
  /\ IF replacing \/ panel
       THEN /\ at' = IF replacing \/ buffer # <<>> THEN 0 ELSE at
            /\ UNCHANGED <<shown, view, above, answered>>
       ELSE Added /\ UNCHANGED at
  /\ online' = FALSE /\ gathering' = FALSE /\ buffer' = <<>>
  /\ stream' = "off" /\ waiting' = <<>> /\ batch' = <<>> /\ more' = FALSE /\ read' = 0 /\ lastSent' = 0 /\ wire' = <<>>
  /\ UNCHANGED <<store, writer, panel, known, fresh, replacing, floor, endHeld>>

\* events/before, asked for as the page scrolls back, is answered.
OlderAnswered ==
  /\ ~panel /\ answered = Idle /\ above \o shown # <<>>
  /\ LET s == Sorted({r \in rows : r < Head(above \o shown)})
     IN /\ s # <<>>
        /\ answered' = SubSeq(s, IF Len(s) > Window THEN Len(s) - Window + 1 ELSE 1, Len(s))
  /\ UNCHANGED <<store, writer, server, wire, past, panel, online, at, known, fresh, replacing, gathering, buffer, shown, above, view>>

\* The answer comes; one for a list that was replaced meanwhile is dropped with it.
HearOlder ==
  /\ answered # Idle
  /\ above' = answered \o above /\ answered' = Idle
  /\ UNCHANGED <<store, writer, server, wire, past, panel, online, at, known, fresh, replacing, gathering, buffer, shown, view>>
-----------------------------------------------------------------------------
ServerStep == ReplayRow \/ ReplayPage \/ GoLive
ReaderStep ==
  \/ Connect \/ HearReloads \/ HearEvent \/ HearRemoved \/ HearReload \/ HearCaughtUp \/ HearOlder

Next ==
  \/ Record \/ MessageUpdates \/ MessageEnds \/ PiGone
  \/ \E from \in Seqs : \E to \in (from + 1)..last \cup {Open} : RemoveTurn(from, to)
  \/ \E from \in Seqs : ReplaceTail(from)
  \/ GoBack
  \/ ServerStep \/ ReaderStep
  \/ Cut \/ OlderAnswered

Spec == Init /\ [][Next]_vars

\* With a disk that fails the last write of a way back.
SpecCutShort == Init /\ [][Next \/ GoBackCutShort]_vars

\* The server goes on with a replay, and the reader reads what it is sent and opens
\* its stream again after a delay; nobody has to store, edit or scroll anything.
FairSpec == Spec /\ WF_vars(ServerStep) /\ WF_vars(ReaderStep)
-----------------------------------------------------------------------------
(* Properties. *)

\* Nothing is on its way to the reader.
Quiet == stream = "live" /\ wire = <<>> /\ answered = Idle

\* Whatever was stored, taken out and put back, and however often the stream was
\* cut off meanwhile, a reader that has caught up has the chat as it is stored, from
\* where its stream began: no gap, no duplicates, nothing that was taken out (the
\* route, with the count of reloads).  But for what endHeld says: see NoGap.
ShowsTheChat == Quiet /\ ~endHeld => shown = Sorted({r \in rows : r > floor})

\* The events held are in order and each is there once, what was fetched from above
\* included, at any moment (the cursor, loadedAgain, and what replaces what).
InOrder == Ascending(above \o shown)

\* An answer that is being written is shown as far as it has come, its pieces
\* neither missed nor said twice, and none that has ended is shown as being written
\* (IN_SNAPSHOT, live-reset, LiveEvents).
ShowsTheAnswer ==
  /\ Quiet /\ live # 0 => view[live] = said
  /\ \A i \in DOMAIN shown : ends[shown[i]] # 0 => view[ends[shown[i]]] = 0

\* Liveness: a reader catches up, over and over, and does not go on reading the chat
\* from the start (the count it knows, and `fresh`).
CatchesUp == []<>Quiet

\* "no gap": what the route promises a reader that connects again.  It misses what
\* was sent after the last turn was removed, where both happened during its replay.
NoGap == Quiet => {r \in rows : r > floor} \subseteq Range(shown)
=============================================================================
