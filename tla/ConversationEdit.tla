--------------------------- MODULE ConversationEdit ---------------------------
(* session-manager.ts: a message of a chat is taken out, replaced, or switched to
   another of its versions.  The conversation is in two stores that no transaction
   spans, pi's file (pi/session-edit.ts) and the portal's transcript (db.ts), and
   what an edit replaces is kept beside them as a version.  Any write may fail, the
   portal may stop between any two, and a replacement may fail long after it was
   taken.  That nothing else starts pi meanwhile is PiLifecycle's.

   A turn is a message with all that was done about it.  It goes by the seq of the
   message; -n in pi's file are the settings pi wrote before turn n, having opened
   the file again.                                                            *)
EXTENDS Integers, Sequences, FiniteSets, SequencesExt

CONSTANTS
  LastSeq,    \* bound on the turns
  Wordings,   \* what the messages may say
  MissAny,    \* one in the same words as another may stay out of pi's file
  EarlyFile,  \* a run that fails may leave a file where there was none
  MaxEdits,   \* bound on the edits
  MaxFaults,  \* bound on the writes that fail
  MaxCrashes, \* bound on how often the portal is stopped
  NoFile,     \* no file of pi's
  NoEdit      \* no edit

Turns == 1..LastSeq

ASSUME ConversationAssumption ==
  /\ LastSeq \in Nat /\ MaxEdits \in Nat /\ MaxFaults \in Nat /\ MaxCrashes \in Nat
  /\ (\A w \in Wordings : DOMAIN w = Turns) /\ MissAny \in BOOLEAN /\ EarlyFile \in BOOLEAN
  /\ NoFile \notin Seq(Turns \cup {-n : n \in Turns})

VARIABLES
  transcript, \* the turns the page shows
  latest,     \* latestSeq: the last seq handed out
  versions,   \* message_versions
  file,       \* pi's file: its entries on the conversation's path, or NoFile
  opened,     \* pi has the file open, and has written its settings
  run,        \* the turn pi is at; 0: none
  pc,         \* where the edit is
  edit,       \* what it has read and done
  taken,      \* the edit whose replacement pi is at
  words,      \* what each message says
  \* history
  reached,    \* the turns that got into pi's file
  apart,      \* a way back failed, or an edit was cut off
  edits, faults, crashes

stores == <<transcript, latest, versions, file>>
agent  == <<opened, run, reached>>
bounds == <<edits, faults, crashes>>
vars   == <<stores, agent, pc, edit, taken, words, apart, bounds>>

Lines(f)    == IF f = NoFile THEN <<>> ELSE f
InFile(f)   == Turns \cap Range(Lines(f))
Kinds       == {"remove", "replace", "switch"}
Phases      == {"idle", "cut", "send", "take", "rewrite", "undo", "undoFile", "undoLate"}
IsFile(f)   == f = NoFile \/ f \in Seq(Turns \cup {-n : n \in Turns})
IsVersion(v) ==
  /\ DOMAIN v = {"anchor", "seq", "rows", "prefix", "tail"}
  /\ v.anchor \in 0..LastSeq /\ v.seq \in Turns /\ v.rows \subseteq Turns
  /\ IsFile(v.prefix) /\ IsFile(v.tail)

TypeOK ==
  /\ transcript \subseteq Turns /\ latest \in 0..LastSeq /\ reached \subseteq Turns
  /\ IsFile(file) /\ (\A v \in versions : IsVersion(v))
  /\ opened \in BOOLEAN /\ run \in 0..LastSeq /\ apart \in BOOLEAN
  /\ words \in Wordings /\ pc \in Phases /\ (pc = "idle" <=> edit = NoEdit) /\ (taken # NoEdit => run # 0)

Init ==
  /\ transcript = {} /\ latest = 0 /\ versions = {} /\ file = NoFile
  /\ opened = FALSE /\ run = 0 /\ reached = {}
  /\ pc = "idle" /\ edit = NoEdit /\ taken = NoEdit /\ words \in Wordings
  /\ apart = FALSE /\ edits = 0 /\ faults = 0 /\ crashes = 0
-----------------------------------------------------------------------------
(* Messages, and what pi makes of them. *)

Resting == pc = "idle" /\ run = 0

\* A message that pi refuses, or whose run fails or is cut off before pi has it, is in
\* the transcript alone.
Alone(n)   == \A m \in Turns \ {n} : words[m] # words[n]
CanMiss(n) == MissAny \/ Alone(n)

\* It is in the transcript, and pi takes it, or refuses it, or will not start.
Send ==
  /\ Resting /\ latest < LastSeq
  /\ latest' = latest + 1 /\ transcript' = transcript \cup {latest + 1}
  /\ \/ run' = latest + 1
     \/ CanMiss(latest + 1) /\ UNCHANGED run
  /\ UNCHANGED <<versions, file, opened, reached, pc, edit, taken, words, apart, bounds>>

\* External: pi adds to what it has open; its settings go before what it is sent.
Written(n) ==
  /\ file' = Lines(file) \o (IF opened THEN <<n>> ELSE <<-n, n>>)
  /\ reached' = reached \cup {n}
Unwritten(n) == CanMiss(n) /\ UNCHANGED <<file, reached>>

\* A word of answer, or a Stop: an edit stands.
RunAnswers ==
  /\ run # 0
  /\ Written(run) /\ opened' = TRUE
  /\ run' = 0 /\ taken' = NoEdit
  /\ UNCHANGED <<transcript, latest, versions, pc, edit, words, apart, bounds>>

\* None: settleEdit goes back, unless the chat has gone on or is in another's hands.
RunFails ==
  /\ run # 0
  /\ \/ Written(run) /\ (taken # NoEdit => EarlyFile \/ taken.original # NoFile)
     \/ Unwritten(run)
  /\ opened' = (opened \/ file' # file)
  /\ run' = 0 /\ taken' = NoEdit
  /\ \/ taken # NoEdit /\ pc' = "undo" /\ edit' = taken
     \/ UNCHANGED <<pc, edit>>
  /\ UNCHANGED <<transcript, latest, versions, words, apart, bounds>>
-----------------------------------------------------------------------------
(* pi's file: dropMessage and locate, keptFile and fileFor. *)

\* Where the next of pi's messages with these words is, after where the last was found;
\* 0: there is none.
NextWith(f, from, w) ==
  LET hits == {j \in (from + 1)..Len(f) : f[j] > 0 /\ words[f[j]] = w}
  IN IF hits = {} THEN 0 ELSE Min(hits)

\* Faulty: the first with these words.
LocateFirst(f, seq) == NextWith(f, 0, words[seq])

\* Where the message sent at seq is: by their words, in order, passing over those pi
\* never got; 0: nowhere.
Locate(f, seq) ==
  LET found[m \in 0..seq] ==
        IF m = 0 THEN [from |-> 0, hit |-> 0]
        ELSE LET last == found[m - 1]
                 j    == NextWith(f, last.from, words[m])
             IN IF m \notin transcript THEN last
                ELSE [from |-> IF j = 0 THEN last.from ELSE j, hit |-> j]
  IN found[seq].hit

\* Faulty: the message stays that all after it goes from.
DropAfter(f, target, kind) == IF kind = "remove" THEN RemoveAt(f, target) ELSE SubSeq(f, 1, target)

\* That turn out of it, or all from it on.
DropMessage(f, target, kind) == IF kind = "remove" THEN RemoveAt(f, target) ELSE SubSeq(f, 1, target - 1)

\* Faulty: what is left by the cut, whatever is put in its place.
PrefixOfCut(original, becomes, cut) == LongestCommonPrefix({original, Lines(cut)})

\* The start a version shares with what takes its place: another version, or the cut.
SharedPrefix(original, becomes, cut) ==
  LongestCommonPrefix({original, Lines(IF becomes = NoFile THEN cut ELSE becomes)})

\* keptFile: what follows that start, and that start, as its hash tells it.
KeptFile(original, becomes, cut) ==
  IF original = NoFile THEN [prefix |-> NoFile, tail |-> <<>>]
  ELSE LET p == SharedPrefix(original, becomes, cut)
       IN [prefix |-> p, tail |-> SubSeq(original, Len(p) + 1, Len(original))]

\* fileFor: refused where the file does not start so any more.
FileStands(v, now) == IF v.prefix = NoFile THEN now = NoFile ELSE now # NoFile /\ IsPrefix(v.prefix, now)
FileFor(v) == IF v.prefix = NoFile THEN NoFile ELSE v.prefix \o v.tail
-----------------------------------------------------------------------------
(* An edit: cut(), and what each kind does after it. *)

\* The message before it; 0: none.
Anchor(seq) == LET S == {m \in transcript : m < seq} IN IF S = {} THEN 0 ELSE CHOOSE m \in S : \A k \in S : k <= m

From(kind, seq) == IF kind = "remove" THEN {seq} ELSE {m \in transcript : m >= seq}
NoVersion == [anchor |-> 0, seq |-> 0, rows |-> {}, prefix |-> NoFile, tail |-> <<>>]
Wanted(kind, seq) == IF kind = "switch" THEN {v \in versions : v.anchor = Anchor(seq)} ELSE {NoVersion}

Begins == Resting /\ edits < MaxEdits /\ edits' = edits + 1 /\ opened' = FALSE

\* pi has stopped, and its file is cut: found there, and the version asked for can
\* be brought back.
CutFile(kind, seq) ==
  /\ Begins /\ seq \in transcript
  /\ \E v \in Wanted(kind, seq) :
       LET target  == Locate(file, seq)
           becomes == IF kind = "switch" THEN FileFor(v) ELSE NoFile
           cut     == IF file = NoFile THEN NoFile ELSE DropMessage(file, target, kind)
           kept    == KeptFile(file, becomes, cut)
       IN /\ kind = "switch" => FileStands(v, file)
          /\ file # NoFile => target # 0
          /\ file' = cut
          /\ edit' = [kind |-> kind, seq |-> seq, gone |-> From(kind, seq), original |-> file, wanted |-> v,
                      before |-> latest,
                      kept |-> [anchor |-> Anchor(seq), seq |-> seq, rows |-> From(kind, seq),
                                prefix |-> kept.prefix, tail |-> kept.tail]]
  /\ pc' = "cut"
  /\ UNCHANGED <<transcript, latest, versions, run, reached, taken, words, apart, faults, crashes>>

\* Refused, or the file could not be written: only pi has been stopped.
CutRefused ==
  /\ Begins
  /\ UNCHANGED <<stores, run, reached, pc, edit, taken, words, apart, faults, crashes>>

Fails(n) == faults + n <= MaxFaults /\ faults' = faults + n
GoTo(p)  == pc' = p /\ edit' = IF p = "idle" THEN NoEdit ELSE edit
Writing  == UNCHANGED <<latest, agent, taken, words, edits, crashes>>
Sound    == UNCHANGED apart

\* dropVersionsAt: the versions at these anchors, and those inside them: what is in
\* every set that has the first, and with each the versions inside it.
Dropped(anchors) ==
  {v \in versions : \A S \in SUBSET versions :
     (\A u \in versions : u.anchor \in anchors \/ (\E w \in S : u.anchor \in w.rows) => u \in S) => v \in S}

\* Faulty: the version is saved after the turns are gone.
CutThenKeep ==
  /\ pc = "cut"
  /\ transcript' = transcript \ edit.gone
  /\ versions' = IF edit.kind = "remove"
                   THEN versions \ Dropped({Anchor(edit.seq)} \cup {m \in transcript : m >= edit.seq})
                   ELSE versions
  /\ GoTo(CASE edit.kind = "remove" -> "idle" [] edit.kind = "replace" -> "send" [] OTHER -> "take")
  /\ UNCHANGED <<file, faults>> /\ Writing /\ Sound

\* The transaction: the turns go, and are kept as a version; or with one taken out,
\* its versions and those of the messages after it.
CutTranscript ==
  /\ pc = "cut"
  /\ transcript' = transcript \ edit.gone
  /\ versions' = IF edit.kind = "remove"
                   THEN versions \ Dropped({Anchor(edit.seq)} \cup {m \in transcript : m >= edit.seq})
                   ELSE versions \cup {edit.kept}
  /\ GoTo(CASE edit.kind = "remove" -> "idle" [] edit.kind = "replace" -> "send" [] OTHER -> "take")
  /\ UNCHANGED <<file, faults>> /\ Writing /\ Sound

\* It fails, and the file is put back; or that fails too.
CutUndone ==
  /\ pc = "cut"
  /\ \/ Fails(1) /\ file' = edit.original /\ Sound
     \/ Fails(2) /\ apart' = TRUE /\ UNCHANGED file
  /\ GoTo("idle")
  /\ UNCHANGED <<transcript, versions>> /\ Writing

\* editMessage: pi takes the replacement, or refuses it, or will not start.
SendReplacement ==
  /\ pc = "send"
  /\ \/ latest < LastSeq /\ latest' = latest + 1 /\ transcript' = transcript \cup {latest + 1}
     \/ UNCHANGED <<latest, transcript>>
  /\ \/ latest' # latest /\ run' = latest' /\ taken' = edit /\ GoTo("idle")
     \/ UNCHANGED <<run, taken>> /\ GoTo("undo")
  /\ UNCHANGED <<versions, file, opened, reached, words, apart, bounds>>

\* switchVersion: out of the versions and into the transcript, in one go.
TakeVersion ==
  /\ pc = "take"
  /\ versions' = versions \ {edit.wanted} /\ transcript' = transcript \cup edit.wanted.rows
  /\ GoTo("rewrite")
  /\ UNCHANGED <<file, faults>> /\ Writing /\ Sound

TakeFails ==
  /\ pc = "take" /\ Fails(1)
  /\ GoTo("undo")
  /\ UNCHANGED <<transcript, versions, file>> /\ Writing /\ Sound

\* pi's file as that version had it.
Rewrite ==
  /\ pc = "rewrite"
  /\ file' = IF FileFor(edit.wanted) = NoFile THEN file ELSE FileFor(edit.wanted)
  /\ GoTo("idle")
  /\ UNCHANGED <<transcript, versions, faults>> /\ Writing /\ Sound

\* That fails: it is a version again.  If it cannot be, it is lost rather than shown
\* beside what comes back; if it cannot even be taken out, the switch ends there.
RewriteFails ==
  /\ pc = "rewrite" /\ FileFor(edit.wanted) # NoFile
  /\ \/ /\ Fails(1) /\ versions' = versions \cup {edit.wanted}
        /\ transcript' = transcript \ edit.wanted.rows /\ GoTo("undo") /\ Sound
     \/ /\ Fails(2) /\ UNCHANGED versions
        /\ transcript' = transcript \ edit.wanted.rows /\ GoTo("undo") /\ apart' = TRUE
     \/ Fails(3) /\ apart' = TRUE /\ UNCHANGED <<transcript, versions>> /\ GoTo("idle")
  /\ UNCHANGED file /\ Writing
-----------------------------------------------------------------------------
(* The way back: undo(), and revertEdit around it. *)

\* pi is stopped, and the transcript comes first.
UndoTranscript ==
  /\ pc = "undo"
  /\ transcript' = transcript \cup edit.gone /\ versions' = versions \ {edit.kept}
  /\ opened' = FALSE
  /\ GoTo("undoFile")
  /\ UNCHANGED <<latest, file, run, reached, taken, words, apart, bounds>>

UndoTranscriptFails ==
  /\ pc = "undo" /\ Fails(1) /\ apart' = TRUE
  /\ opened' = FALSE
  /\ GoTo("idle")
  /\ UNCHANGED <<stores, run, reached, taken, words, edits, crashes>>

AfterUndo == IF edit.kind = "replace" THEN "undoLate" ELSE "idle"

UndoFile ==
  /\ pc = "undoFile"
  /\ file' = IF edit.original = NoFile THEN file ELSE edit.original
  /\ GoTo(AfterUndo)
  /\ UNCHANGED <<transcript, versions, faults>> /\ Writing /\ Sound

UndoFileFails ==
  /\ pc = "undoFile" /\ edit.original # NoFile /\ Fails(1) /\ apart' = TRUE
  /\ GoTo("idle")
  /\ UNCHANGED <<transcript, versions, file>> /\ Writing

\* What the replacement recorded goes; or fails to.
UndoLate ==
  /\ pc = "undoLate"
  /\ \/ transcript' = {m \in transcript : m <= edit.before} /\ UNCHANGED faults /\ Sound
     \/ Fails(1) /\ apart' = TRUE /\ UNCHANGED transcript
  /\ GoTo("idle")
  /\ UNCHANGED <<versions, file>> /\ Writing

\* The portal stops: the stores are left.  pi may not have got to what it was sent.
Crash ==
  /\ crashes < MaxCrashes /\ crashes' = crashes + 1
  /\ IF run = 0 THEN UNCHANGED <<file, reached>>
     ELSE Written(run) \/ Unwritten(run)
  /\ opened' = FALSE /\ run' = 0 /\ taken' = NoEdit
  /\ apart' = (apart \/ pc # "idle") /\ GoTo("idle")
  /\ UNCHANGED <<transcript, latest, versions, words, edits, faults>>
-----------------------------------------------------------------------------
EditStep ==
  \/ \E kind \in Kinds, seq \in Turns : CutFile(kind, seq)
  \/ CutRefused \/ CutTranscript \/ CutUndone
  \/ SendReplacement \/ TakeVersion \/ TakeFails \/ Rewrite \/ RewriteFails
  \/ UndoTranscript \/ UndoTranscriptFails \/ UndoFile \/ UndoFileFails \/ UndoLate

Next == Send \/ RunAnswers \/ RunFails \/ EditStep \/ Crash

Spec == Init /\ [][Next]_vars
-----------------------------------------------------------------------------
(* Safety. *)

\* At rest, pi's file and the transcript tell the same conversation, in the same
\* order, whatever failed on the way: not only a failure of the way back, or a stop
\* half way (cut: "they have to stay in step").
Ascending(f) == LET l == Lines(f) IN \A i, j \in DOMAIN l : i < j /\ l[i] > 0 /\ l[j] > 0 => l[i] < l[j]
InStep == pc = "idle" /\ ~apart => InFile(file) = transcript \cap reached /\ Ascending(file)

\* The agent remembers nothing that is gone from the page, wherever an edit is, fails
\* or is cut off (cut and undo: the file goes first, and comes back last).  Where two
\* messages say the same and one is not in the file, the other is taken for it.
NothingHidden == (\A n \in Turns : Alone(n)) => InFile(file) \subseteq transcript

\* What is shown or kept stays so through edits, switches, failures and stops, but for
\* what is taken out (that message, and versions), a replacement that is gone back from,
\* and a version that could be neither shown nor kept (cut: "the events and the
\* version that keeps them go together, or neither does").
Kept == transcript \cup UNION {v.rows : v \in versions}
LostForGood == pc = "rewrite" /\ faults' = faults + 2
WordsStay ==
  [][IF pc = "cut" /\ edit.kind = "remove" THEN transcript \ transcript' \subseteq {edit.seq}
     ELSE \A m \in Kept \ Kept' : (pc = "undoLate" /\ m > edit.before) \/ (LostForGood /\ m \in edit.wanted.rows)]_vars

\* A version goes on from a message that is shown or kept, and one the page offers can
\* come back, by itself or by way of others the page offers in its place (keptFile,
\* dropVersionsAt): it is in every set that has each version pi's file stands for and
\* each that the file of one in it would.  Not one kept when there was no file.
Offered    == {v \in versions : v.anchor \in {0} \cup transcript /\ (\E m \in transcript : m > v.anchor)}
Leads(u, v) == u.anchor = v.anchor /\ FileStands(v, FileFor(u))
ComeBack(S) == \A v \in Offered : FileStands(v, file) \/ (\E u \in S : Leads(u, v)) => v \in S
Offers     == \A S \in SUBSET Offered : ComeBack(S) => \A v \in Offered : v.prefix # NoFile => v \in S
Reachable  == \A v \in versions : v.anchor \in {0} \cup transcript \cup UNION {u.rows : u \in versions \ {v}}
VersionsStand == pc = "idle" /\ ~apart => Offers /\ Reachable

(* What the code says of itself and does not keep: refuted by a run. *)

\* A version the page offers can come back (keptFile: what pi wrote on opening the
\* conversation again belongs to the version, not the one it goes back onto).
ComesBack == pc = "idle" /\ ~apart => \A v \in Offered : v.prefix # NoFile => FileStands(v, file)
=============================================================================
