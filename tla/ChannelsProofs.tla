---------------------------- MODULE ChannelsProofs ----------------------------
(* That a channel is started alone, and that what it kept before it was switched off
   is gone for good, for any number of channels, saves, starts that fail, restarts
   and starts that never come to their end. *)
EXTENDS Channels, TLAPS, SequenceTheorems

\* The configuration of a channel is a number no higher than the edits there were.
CountsOK == \A c \in Chans : config[c] <= edits

\* A job is under way only where the chain has one, and has its channel at hand.
JobOK ==
  /\ pc # "idle" => chain # <<>>
  /\ pc \in {"stopWait", "retry", "retryWait", "retryStop", "starting"} => who \in Chans

\* What the supervisor holds of a channel is a start of that channel's that has not
\* been stopped, and was not there when the channel last forgot.
HeldOK ==
  \A c \in Chans : running[c] # Nobody =>
    /\ starts[running[c]].chan = c
    /\ starts[running[c]].state \in {"starting", "running", "error"}
    /\ ~starts[running[c]].old

\* A start that was stopped and has neither ended nor had its five seconds is of the
\* channel that is being waited for: not so while the portal closes.
EndingOK ==
  \A c \in Chans : Ending(c) # {} => pc \in {"stopWait", "retryWait"} /\ who = c
WaitsOK == closing \/ EndingOK

\* What a sync has still to look at is held; and what is held and wanted by no one it
\* has still to look at.
SyncOK ==
  /\ todo # {} => pc \in {"stop", "stopWait"}
  /\ \A c \in todo : running[c] # Nobody
  /\ pc \in {"stop", "stopWait"} => \A c \in Chans : running[c] # Nobody => c \in todo \cup wanted

IInv == TypeOK /\ CountsOK /\ JobOK /\ HeldOK /\ WaitsOK /\ SyncOK /\ ForgetsForGood
-----------------------------------------------------------------------------
(* The starts. *)

States == {"starting", "running", "error", "stopped", "over"}
Record == [chan : Chans \cup {Nobody}, sig : 0..MaxEdits, late : BOOLEAN, old : BOOLEAN, state : States]

\* What is read of a start, and what is changed of one.
LEMMA Records ==
  ASSUME NEW r \in Record
  PROVE  /\ r.chan \in Chans \cup {Nobody} /\ r.late \in BOOLEAN /\ r.old \in BOOLEAN /\ r.state \in States
         /\ \A x \in States : /\ [r EXCEPT !.state = x] \in Record
                              /\ [r EXCEPT !.state = x].state = x
                              /\ [r EXCEPT !.state = x].chan = r.chan
                              /\ [r EXCEPT !.state = x].old = r.old
                              /\ [r EXCEPT !.state = x].late = r.late
         /\ \A x \in BOOLEAN : /\ [r EXCEPT !.late = x] \in Record
                               /\ [r EXCEPT !.late = x].late = x
                               /\ [r EXCEPT !.late = x].chan = r.chan
                               /\ [r EXCEPT !.late = x].old = r.old
                               /\ [r EXCEPT !.late = x].state = r.state
         /\ \A x \in BOOLEAN : /\ [r EXCEPT !.old = x] \in Record
                               /\ [r EXCEPT !.old = x].old = x
                               /\ [r EXCEPT !.old = x].chan = r.chan
                               /\ [r EXCEPT !.old = x].late = r.late
                               /\ [r EXCEPT !.old = x].state = r.state
BY DEF Record, States

\* A new start, and none.
LEMMA NewStart ==
  ASSUME NEW c \in Chans \cup {Nobody}, NEW n \in 0..MaxEdits, NEW x \in States
  PROVE  /\ Start(c, n, x) \in Record
         /\ Start(c, n, x).chan = c /\ Start(c, n, x).state = x /\ ~Start(c, n, x).old
BY DEF Start, Record, States

\* A slot no start has taken is of no channel.
LEMMA FreeStart ==
  /\ Free \in Record /\ Free.chan = Nobody /\ Free.state = "over"
<1>1. 0 \in 0..MaxEdits /\ "over" \in States
  BY ChannelsAssumption DEF States
<1> QED BY <1>1, NewStart DEF Free
-----------------------------------------------------------------------------
(* The types, by parts. *)

PlainOK ==
  /\ installed \in BOOLEAN /\ pc \in Phases /\ who \in Chans \cup {Nobody}
  /\ todo \subseteq Chans /\ wanted \subseteq Chans /\ kinds \in BOOLEAN
  /\ edits \in 0..MaxEdits /\ fails \in 0..MaxFails /\ restarts \in 0..MaxRestarts
  /\ closing \in BOOLEAN

MapsOK ==
  /\ enabled \in [Chans -> BOOLEAN] /\ config \in [Chans -> 0..MaxEdits] /\ sigs \in [Chans -> 0..MaxEdits]
  /\ file \in [Chans -> {"none", "old", "new"}] /\ retries \in [Chans -> {"none", "armed", "fired"}]

HoldsOK ==
  /\ running \in [Chans -> Slots \cup {Nobody}]
  /\ starts \in [Slots -> Record]

ChainOK == chain \in Seq(Chans \cup {Sync})

\* TypeOK, in the parts the steps disturb.
LEMMA TypeParts == TypeOK <=> PlainOK /\ MapsOK /\ HoldsOK /\ ChainOK
BY DEF TypeOK, PlainOK, MapsOK, HoldsOK, ChainOK, Record, States

\* The same after a step.
LEMMA TypePartsNext == TypeOK' <=> PlainOK' /\ MapsOK' /\ HoldsOK' /\ ChainOK'
BY DEF TypeOK, PlainOK, MapsOK, HoldsOK, ChainOK, Record, States

\* What is left of a start that is stopped: it is stopped, or free where it had failed.
LEMMA StoppedStart ==
  ASSUME HoldsOK, NEW s \in Slots
  PROVE  /\ AfterStop(s) \in Record /\ AfterStop(s).state \in {"stopped", "over"}
         /\ AfterStop(s).state = "stopped" => AfterStop(s).chan = starts[s].chan
<1>1. Stopped(s) \in Record /\ Stopped(s).state = "stopped" /\ Stopped(s).chan = starts[s].chan
  <2>1. 0 \in 0..MaxEdits /\ "stopped" \in States
    BY ChannelsAssumption DEF States
  <2>2. PICK q \in Record : q = starts[s]
    BY DEF HoldsOK
  <2>3. PICK b \in BOOLEAN : b = (q.state = "starting")
    OBVIOUS
  <2>4. Stopped(s) = [q EXCEPT !.state = "stopped", !.sig = 0, !.late = b]
    BY <2>2, <2>3, Zenon DEF Stopped
  <2>5. /\ [q EXCEPT !.state = "stopped", !.sig = 0, !.late = b] \in Record
        /\ [q EXCEPT !.state = "stopped", !.sig = 0, !.late = b].state = "stopped"
        /\ [q EXCEPT !.state = "stopped", !.sig = 0, !.late = b].chan = q.chan
    BY ONLY <2>1, q \in Record, b \in BOOLEAN DEF Record, States
  <2> QED BY <2>2, <2>4, <2>5, Zenon
<1> QED BY <1>1, FreeStart DEF AfterStop

\* Letting go of a channel that is held: nothing happens to the others.
LEMMA LetsGo ==
  ASSUME HoldsOK, HeldOK, NEW c \in Chans, running[c] # Nobody, LetGo(c)
  PROVE  /\ HoldsOK' /\ who' = c
         /\ running'[c] = Nobody
         /\ \A d \in Chans \ {c} : running'[d] = running[d]
         /\ \A s \in Slots \ {running[c]} : starts'[s] = starts[s]
         /\ running[c] \in Slots
         /\ starts'[running[c]].state \in {"stopped", "over"}
         /\ starts'[running[c]].state = "stopped" => starts'[running[c]].chan = c
         /\ \A d \in Chans : running'[d] # Nobody => running'[d] # running[c]
<1> DEFINE k == running[c]
<1>1. k \in Slots /\ starts[k] \in Record /\ starts[k].chan = c
  BY DEF HoldsOK, HeldOK
<1> DEFINE r == AfterStop(k)
<1>2. r \in Record /\ r.state \in {"stopped", "over"} /\ (r.state = "stopped" => r.chan = c)
  BY <1>1, StoppedStart
<1>3. starts' = [s \in Slots |-> IF s = k THEN r ELSE starts[s]]
  BY DEF LetGo, HoldsOK
<1> HIDE DEF r
<1>4. running' = [d \in Chans |-> IF d = c THEN Nobody ELSE running[d]] /\ who' = c
  BY DEF LetGo, HoldsOK
<1>5. HoldsOK'
  BY <1>1, <1>2, <1>3, <1>4 DEF HoldsOK
<1>6. \A d \in Chans : running'[d] # Nobody => running'[d] # k
  BY <1>1, <1>4 DEF HeldOK
<1> QED BY <1>1, <1>2, <1>3, <1>4, <1>5, <1>6

\* Holding a channel: a start of its own, where there was none.
LEMMA Holds ==
  ASSUME HoldsOK, MapsOK, NEW c \in Chans, NEW x \in {"starting", "error"}, Hold(c, x)
  PROVE  /\ HoldsOK'
         /\ \E k \in Slots :
              /\ starts[k] = Free /\ running'[c] = k
              /\ starts'[k].chan = c /\ starts'[k].state = x /\ ~starts'[k].old
              /\ \A s \in Slots \ {k} : starts'[s] = starts[s]
         /\ \A d \in Chans \ {c} : running'[d] = running[d]
<1> DEFINE k == Slot
<1>1. k \in Slots /\ starts[k] = Free
  BY DEF Hold, Slot
<1> DEFINE r == Start(c, sigs[c], x)
<1>2. r \in Record /\ r.chan = c /\ r.state = x /\ ~r.old
  BY NewStart DEF MapsOK, States
<1> HIDE DEF k, r
<1>3. starts' = [s \in Slots |-> IF s = k THEN r ELSE starts[s]]
  BY DEF Hold, HoldsOK, k, r
<1>4. running' = [d \in Chans |-> IF d = c THEN k ELSE running[d]]
  BY DEF Hold, HoldsOK, k
<1>5. HoldsOK'
  BY <1>1, <1>2, <1>3, <1>4 DEF HoldsOK
<1> QED BY <1>1, <1>2, <1>3, <1>4, <1>5

\* What is marked of the starts, all of them at once.
LEMMA LateMarked ==
  ASSUME HoldsOK, UNCHANGED running, NEW M,
         starts' = [s \in Slots |-> [starts[s] EXCEPT !.late = @ \/ s \in M]]
  PROVE  /\ HoldsOK'
         /\ \A s \in Slots : /\ starts'[s].chan = starts[s].chan /\ starts'[s].state = starts[s].state
                             /\ starts'[s].old = starts[s].old
                             /\ starts'[s].late <=> (starts[s].late \/ s \in M)
<1>1. \A s \in Slots : /\ starts'[s] \in Record
                       /\ starts'[s].chan = starts[s].chan /\ starts'[s].state = starts[s].state
                       /\ starts'[s].old = starts[s].old
                       /\ starts'[s].late <=> (starts[s].late \/ s \in M)
  <2> TAKE s \in Slots
  <2>1. PICK q \in Record : q = starts[s]
    BY DEF HoldsOK
  <2>2. PICK b \in BOOLEAN : b = (q.late \/ s \in M)
    OBVIOUS
  <2>3. starts'[s] = [q EXCEPT !.late = b]
    BY <2>1, <2>2, Zenon
  <2>4. /\ [q EXCEPT !.late = b] \in Record /\ [q EXCEPT !.late = b].late = b
        /\ [q EXCEPT !.late = b].chan = q.chan /\ [q EXCEPT !.late = b].state = q.state
        /\ [q EXCEPT !.late = b].old = q.old
    BY ONLY q \in Record, b \in BOOLEAN DEF Record
  <2> QED BY <2>1, <2>2, <2>3, <2>4, Zenon
<1>2. starts' = [s \in Slots |-> starts'[s]]
  OBVIOUS
<1>3. starts' \in [Slots -> Record]
  <2>1. \A s \in Slots : starts'[s] \in Record
    BY ONLY <1>1, Zenon
  <2> QED BY ONLY <1>2, <2>1
<1> QED BY <1>1, <1>3 DEF HoldsOK

\* What a channel kept up to now is old, and nothing else of a start changes.
LEMMA OldMarked ==
  ASSUME HoldsOK, UNCHANGED running, NEW M,
         starts' = [s \in Slots |-> [starts[s] EXCEPT !.old = @ \/ starts[s].chan \in M]]
  PROVE  /\ HoldsOK'
         /\ \A s \in Slots : /\ starts'[s].chan = starts[s].chan /\ starts'[s].state = starts[s].state
                             /\ starts'[s].late = starts[s].late
                             /\ starts'[s].old <=> (starts[s].old \/ starts[s].chan \in M)
<1>1. \A s \in Slots : /\ starts'[s] \in Record
                       /\ starts'[s].chan = starts[s].chan /\ starts'[s].state = starts[s].state
                       /\ starts'[s].late = starts[s].late
                       /\ starts'[s].old <=> (starts[s].old \/ starts[s].chan \in M)
  <2> TAKE s \in Slots
  <2>1. PICK q \in Record : q = starts[s]
    BY DEF HoldsOK
  <2>2. PICK b \in BOOLEAN : b = (q.old \/ q.chan \in M)
    OBVIOUS
  <2>3. starts'[s] = [q EXCEPT !.old = b]
    BY <2>1, <2>2, Zenon
  <2>4. /\ [q EXCEPT !.old = b] \in Record /\ [q EXCEPT !.old = b].old = b
        /\ [q EXCEPT !.old = b].chan = q.chan /\ [q EXCEPT !.old = b].state = q.state
        /\ [q EXCEPT !.old = b].late = q.late
    BY ONLY q \in Record, b \in BOOLEAN DEF Record
  <2> QED BY <2>1, <2>2, <2>3, <2>4, Zenon
<1>2. starts' = [s \in Slots |-> starts'[s]]
  OBVIOUS
<1>3. starts' \in [Slots -> Record]
  <2>1. \A s \in Slots : starts'[s] \in Record
    BY ONLY <1>1, Zenon
  <2> QED BY ONLY <1>2, <2>1
<1> QED BY <1>1, <1>3 DEF HoldsOK

\* Taking the job off the chain.
LEMMA Shorter ==
  ASSUME ChainOK, chain # <<>>
  PROVE  /\ Head(chain) \in Chans \cup {Sync}
         /\ Tail(chain) \in Seq(Chans \cup {Sync})
         /\ <<Sync>> \o Tail(chain) \in Seq(Chans \cup {Sync})
         /\ <<Sync>> \o Tail(chain) # <<>>
BY DEF ChainOK, Sync

\* One more job on the chain.
LEMMA Longer ==
  ASSUME ChainOK, NEW j \in Chans \cup {Sync}, Queue(j)
  PROVE  ChainOK' /\ chain' # <<>>
BY DEF ChainOK, Queue
-----------------------------------------------------------------------------
(* What is asked of the supervisor, and what packages do. *)

LEMMA ParamRange == MaxEdits \in Nat /\ MaxFails \in Nat /\ MaxRestarts \in Nat /\ 0 \in 0..MaxEdits
BY ChannelsAssumption

\* Nothing of what is held has changed.
LEMMA SameHolds ==
  ASSUME HeldOK, WaitsOK, UNCHANGED <<running, starts, pc, who, closing>>
  PROVE  HeldOK' /\ WaitsOK'
BY DEF HeldOK, WaitsOK, EndingOK, Ending

\* A job is asked for: a save, a timer, a change of package.
LEMMA AsksKeep ==
  ASSUME IInv, UNCHANGED closing, \/ \E c \in Chans : Save(c) \/ TimerFires(c)
               \/ PackageChanges
  PROVE  IInv'
<1> USE DEF world, job, past
<1>1. UNCHANGED <<running, starts, file, pc, who, todo, wanted, sigs, kinds, fails, restarts>>
  BY DEF Save, TimerFires, PackageChanges
<1>2. ChainOK' /\ (pc # "idle" => chain' # <<>>)
  <2>1. ChainOK /\ (pc # "idle" => chain # <<>>)
    BY TypeParts DEF IInv, JobOK
  <2>2. UNCHANGED chain \/ \E j \in Chans \cup {Sync} : Queue(j)
    BY DEF Save, TimerFires, PackageChanges
  <2> QED BY <2>1, <2>2, Longer DEF ChainOK
<1>3. PlainOK'
  <2>1. PlainOK
    BY TypeParts DEF IInv
  <2>2. edits' \in 0..MaxEdits
    BY <2>1, ParamRange DEF PlainOK, Save, TimerFires, PackageChanges
  <2>3. installed' \in BOOLEAN
    BY <2>1 DEF PlainOK, Save, TimerFires, PackageChanges
  <2> QED BY <1>1, <2>1, <2>2, <2>3 DEF PlainOK
<1>4. MapsOK' /\ CountsOK'
  <2>1. MapsOK /\ PlainOK /\ CountsOK
    BY TypeParts DEF IInv
  <2>2. CASE \E c \in Chans : Save(c)
    <3>1. PICK c \in Chans : Save(c)
      BY <2>2
    <3>2. PICK on \in BOOLEAN : enabled' = [enabled EXCEPT ![c] = on]
      BY <3>1 DEF Save
    <3>3. enabled' \in [Chans -> BOOLEAN]
      BY <2>1, <3>2 DEF MapsOK
    <3>4. config' = [d \in Chans |-> IF d = c THEN config[d] + 1 ELSE config[d]]
      BY <2>1, <3>1 DEF MapsOK, Save
    <3>5. edits \in Nat /\ edits < MaxEdits /\ edits' = edits + 1
      BY <2>1, <3>1, ParamRange DEF PlainOK, Save
    <3>6. \A d \in Chans : config'[d] \in 0..MaxEdits /\ config'[d] <= edits'
      <4> TAKE d \in Chans
      <4>1. config[d] \in 0..MaxEdits /\ config[d] <= edits
        BY <2>1 DEF MapsOK, CountsOK
      <4>2. config'[d] = config[d] + 1 \/ config'[d] = config[d]
        BY <3>4
      <4> QED BY <4>1, <4>2, <3>5, ParamRange
    <3>7. config' \in [Chans -> 0..MaxEdits]
      BY <3>4, <3>6
    <3>8. UNCHANGED <<sigs, file, retries>>
      BY <3>1 DEF Save
    <3> QED BY <2>1, <3>3, <3>6, <3>7, <3>8 DEF MapsOK, CountsOK
  <2>3. CASE \E c \in Chans : TimerFires(c)
    <3>1. retries' \in [Chans -> {"none", "armed", "fired"}] /\ UNCHANGED <<enabled, config, sigs, file, edits>>
      BY <2>1, <2>3 DEF MapsOK, TimerFires
    <3> QED BY <2>1, <3>1 DEF MapsOK, CountsOK
  <2>4. CASE PackageChanges
    <3>1. UNCHANGED <<enabled, config, sigs, file, retries>> /\ edits' = edits + 1
      BY <2>4 DEF PackageChanges
    <3>2. \A d \in Chans : config[d] \in 0..MaxEdits /\ config[d] <= edits /\ edits \in 0..MaxEdits
      BY <2>1 DEF MapsOK, CountsOK, PlainOK
    <3>3. \A d \in Chans : config[d] <= edits'
      BY <3>1, <3>2, ParamRange
    <3> QED BY <2>1, <3>1, <3>3 DEF MapsOK, CountsOK
  <2> QED BY <2>2, <2>3, <2>4
<1>5. HoldsOK'
  BY <1>1, TypeParts DEF IInv, HoldsOK
<1>6. HeldOK' /\ WaitsOK'
  BY <1>1, SameHolds DEF IInv
<1>7. JobOK' /\ SyncOK' /\ ForgetsForGood'
  BY <1>1, <1>2 DEF IInv, JobOK, SyncOK, ForgetsForGood
<1> QED BY <1>2, <1>3, <1>4, <1>5, <1>6, <1>7, TypePartsNext DEF IInv

\* A start saves what it has to keep; one that was stopped comes to its end.
LEMMA PackagesKeep ==
  ASSUME IInv, UNCHANGED closing, NEW s \in Slots, Saves(s) \/ PackageEnds(s)
  PROVE  IInv'
<1> USE DEF world, job, past
<1>1. UNCHANGED <<enabled, config, installed, running, retries, chain, pc, who, todo, wanted, sigs, kinds, edits, fails, restarts>>
  BY DEF Saves, PackageEnds
<1>2. PlainOK' /\ ChainOK' /\ CountsOK' /\ JobOK' /\ SyncOK'
  BY <1>1, TypeParts DEF IInv, PlainOK, ChainOK, CountsOK, JobOK, SyncOK
<1>3. HoldsOK /\ MapsOK /\ HeldOK /\ WaitsOK /\ ForgetsForGood
  BY TypeParts DEF IInv
<1>4. CASE Saves(s)
  <2>1. UNCHANGED starts /\ Working(s) /\ running[starts[s].chan] = s /\ Writes(s)
    BY <1>4 DEF Saves
  <2>2. starts[s] \in Record /\ starts[s].chan \in Chans \cup {Nobody}
    BY <1>3, Records DEF HoldsOK
  <2>3. file' = [c \in Chans |-> IF c = starts[s].chan THEN (IF starts[s].old THEN "old" ELSE "new") ELSE file[c]]
    BY <1>3, <2>1 DEF MapsOK, Writes
  <2>4. starts[s].chan \in Chans => ~starts[s].old
    BY <1>3, <2>1, ChannelsAssumption DEF HeldOK
  <2>5. MapsOK' /\ ForgetsForGood'
    BY <1>1, <1>3, <2>3, <2>4 DEF MapsOK, ForgetsForGood
  <2>6. HoldsOK' /\ HeldOK' /\ WaitsOK'
    BY <1>1, <1>3, <2>1, SameHolds DEF HoldsOK
  <2> QED BY <1>2, <2>5, <2>6, TypePartsNext DEF IInv
<1>5. CASE PackageEnds(s)
  <2>1. UNCHANGED file /\ starts[s].state = "stopped"
    BY <1>5 DEF PackageEnds
  <2>2. starts' = [t \in Slots |-> IF t = s THEN Free ELSE starts[t]]
    BY <1>3, <1>5 DEF PackageEnds, HoldsOK
  <2>3. HoldsOK'
    BY <1>1, <1>3, <2>2, FreeStart DEF HoldsOK
  <2>4. \A c \in Chans : running[c] # s
    BY <1>3, <2>1, ChannelsAssumption DEF HeldOK
  <2>5. HeldOK'
    BY <1>1, <1>3, <2>2, <2>4 DEF HeldOK, HoldsOK
  <2>6. \A c \in Chans : Ending(c)' \subseteq Ending(c)
    BY <2>2, FreeStart DEF Ending
  <2>7. WaitsOK'
    BY <1>1, <1>3, <2>6 DEF WaitsOK, EndingOK
  <2>8. MapsOK' /\ ForgetsForGood'
    BY <1>1, <1>3, <2>1 DEF MapsOK, ForgetsForGood
  <2> QED BY <1>2, <2>3, <2>5, <2>7, <2>8, TypePartsNext DEF IInv
<1> QED BY <1>4, <1>5
-----------------------------------------------------------------------------
(* A start that settles. *)

LEMMA WithoutType ==
  ASSUME MapsOK, NEW S
  PROVE  Without(S) \in [Chans -> {"none", "armed", "fired"}]
BY DEF MapsOK, Without

\* A job that is done is taken off the chain, and leaves nothing behind.
LEMMA Finishes ==
  ASSUME ChainOK, chain # <<>>, Finish
  PROVE  /\ ChainOK' /\ pc' = "idle" /\ who' \in Chans \cup {Nobody} /\ wanted' \subseteq Chans
         /\ sigs' \in [Chans -> 0..MaxEdits] /\ kinds' \in BOOLEAN
BY Shorter, ParamRange DEF ChainOK, Finish

\* A start fails, or is up.
LEMMA SettlesKeep ==
  ASSUME IInv, UNCHANGED closing, StartFails \/ StartSucceeds
  PROVE  IInv'
<1> USE DEF world, job, past
<1>1. PlainOK /\ MapsOK /\ HoldsOK /\ ChainOK /\ CountsOK /\ JobOK /\ HeldOK /\ WaitsOK /\ SyncOK /\ ForgetsForGood
  BY TypeParts DEF IInv
<1>2. PICK x \in {"error", "running"} : Settle(x)
  BY DEF StartFails, StartSucceeds
<1>3. pc = "starting" /\ UNCHANGED <<enabled, config, installed, file, running, todo, edits, restarts>>
  BY <1>2 DEF Settle
<1> DEFINE k == running[who]
<1>4. chain # <<>> /\ who \in Chans
  BY <1>1, <1>3 DEF JobOK
<1>5. /\ starts' \in [Slots -> Record]
      /\ \A s \in Slots : /\ starts'[s].chan = starts[s].chan /\ starts'[s].old = starts[s].old
                          /\ starts'[s].late = starts[s].late
                          /\ starts'[s].state = starts[s].state \/ (s = k /\ starts'[s].state = x)
  <2>1. CASE k = Nobody
    BY <1>1, <1>2, <2>1 DEF Settle, HoldsOK
  <2>2. CASE k # Nobody
    <3>1. k \in Slots /\ starts[k] \in Record /\ x \in States
      BY <1>1, <1>4, <2>2 DEF HoldsOK, States
    <3> DEFINE r == [starts[k] EXCEPT !.state = x]
    <3>2. r \in Record /\ r.chan = starts[k].chan /\ r.old = starts[k].old /\ r.late = starts[k].late /\ r.state = x
      BY <3>1, Records
    <3>3. starts' = [s \in Slots |-> IF s = k THEN r ELSE starts[s]]
      BY <1>1, <1>2, <2>2 DEF Settle, HoldsOK
    <3> HIDE DEF r
    <3> QED BY <1>1, <3>2, <3>3 DEF HoldsOK
  <2> QED BY <2>1, <2>2
<1>6. /\ ChainOK' /\ pc' \in {"idle", "start"} /\ (pc' # "idle" => chain' # <<>>)
      /\ who' \in Chans \cup {Nobody} /\ wanted' \subseteq Chans
      /\ sigs' \in [Chans -> 0..MaxEdits] /\ kinds' \in BOOLEAN
  <2>1. CASE Finish
    BY <1>1, <1>4, <2>1, Finishes
  <2>2. CASE pc' = "start" /\ who' = Nobody /\ UNCHANGED <<chain, wanted, sigs, kinds>>
    BY <1>1, <1>4, <2>2 DEF ChainOK, PlainOK, MapsOK
  <2> QED BY <1>2, <2>1, <2>2 DEF Settle
<1>7. PlainOK'
  <2>1. fails' \in 0..MaxFails
    BY <1>1, ParamRange DEF PlainOK, StartFails, StartSucceeds
  <2> QED BY <1>1, <1>3, <1>6, <2>1 DEF PlainOK, Phases
<1>8. MapsOK' /\ CountsOK'
  <2>1. retries' \in [Chans -> {"none", "armed", "fired"}]
    BY <1>1, WithoutType DEF MapsOK, StartFails, StartSucceeds
  <2> QED BY <1>1, <1>3, <1>6, <2>1 DEF MapsOK, CountsOK
<1>9. HoldsOK'
  BY <1>1, <1>3, <1>5 DEF HoldsOK
<1>10. HeldOK'
  <2> SUFFICES ASSUME NEW c \in Chans, running[c] # Nobody
               PROVE  /\ starts'[running[c]].chan = c
                      /\ starts'[running[c]].state \in {"starting", "running", "error"}
                      /\ ~starts'[running[c]].old
    BY <1>3 DEF HeldOK
  <2>1. running[c] \in Slots
    BY <1>1 DEF HoldsOK
  <2> QED BY <1>1, <1>5, <2>1 DEF HeldOK
<1>11. WaitsOK'
  <2>1. closing \/ \A c \in Chans : Ending(c) = {}
    BY <1>1, <1>3 DEF WaitsOK, EndingOK
  <2>2. \A c \in Chans : Ending(c)' \subseteq Ending(c)
    BY <1>5 DEF Ending
  <2> QED BY <2>1, <2>2 DEF WaitsOK, EndingOK
<1>12. JobOK' /\ SyncOK' /\ ForgetsForGood'
  BY <1>1, <1>3, <1>6 DEF JobOK, SyncOK, ForgetsForGood
<1> QED BY <1>6, <1>7, <1>8, <1>9, <1>10, <1>11, <1>12, TypePartsNext DEF IInv
-----------------------------------------------------------------------------
(* The job of the chain, step by step. *)

\* A channel is let go of: what follows waits for its start.
LEMMA StopsKeep ==
  ASSUME HoldsOK, HeldOK, WaitsOK, UNCHANGED closing, pc \notin {"stopWait", "retryWait"},
         NEW c \in Chans, running[c] # Nobody, NEW next \in {"stopWait", "retryWait"}, StopChannel(c, next)
  PROVE  HoldsOK' /\ HeldOK' /\ WaitsOK' /\ running'[c] = Nobody /\ who' = c /\ pc' = next
         /\ \A d \in Chans \ {c} : running'[d] = running[d]
<1>1. LetGo(c) /\ pc' = next
  BY DEF StopChannel
<1> DEFINE k == running[c]
<1>2. /\ HoldsOK' /\ who' = c /\ running'[c] = Nobody /\ k \in Slots
      /\ \A d \in Chans \ {c} : running'[d] = running[d]
      /\ \A s \in Slots \ {k} : starts'[s] = starts[s]
      /\ starts'[k].state \in {"stopped", "over"}
      /\ starts'[k].state = "stopped" => starts'[k].chan = c
      /\ \A d \in Chans : running'[d] # Nobody => running'[d] # k
  BY <1>1, LetsGo
<1>3. HeldOK'
  <2> SUFFICES ASSUME NEW d \in Chans, running'[d] # Nobody
               PROVE  /\ starts'[running'[d]].chan = d
                      /\ starts'[running'[d]].state \in {"starting", "running", "error"}
                      /\ ~starts'[running'[d]].old
    BY DEF HeldOK
  <2>1. d # c /\ running'[d] = running[d] /\ running[d] # k /\ running[d] # Nobody
    BY <1>2
  <2>2. running[d] \in Slots
    BY <2>1 DEF HoldsOK
  <2>3. starts'[running[d]] = starts[running[d]]
    BY <1>2, <2>1, <2>2
  <2> QED BY <2>1, <2>3 DEF HeldOK
<1>4. WaitsOK'
  <2> SUFFICES ASSUME ~closing, NEW d \in Chans, NEW s \in Slots, s \in Ending(d)'
               PROVE  d = c
    BY <1>1, <1>2 DEF WaitsOK, EndingOK, Ending
  <2>1. Ending(d) = {}
    BY DEF WaitsOK, EndingOK
  <2>2. s = k
    BY <1>2, <2>1 DEF Ending
  <2> QED BY <1>2, <2>2 DEF Ending
<1> QED BY <1>1, <1>2, <1>3, <1>4

\* A channel is held: nothing of it was waited for.
LEMMA HoldKeeps ==
  ASSUME HoldsOK, MapsOK, HeldOK, WaitsOK, UNCHANGED closing, pc \notin {"stopWait", "retryWait"},
         NEW c \in Chans, NEW x \in {"starting", "error"}, Hold(c, x)
  PROVE  HoldsOK' /\ HeldOK' /\ WaitsOK' /\ running'[c] # Nobody
<1>1. PICK k \in Slots :
        /\ starts[k] = Free /\ running'[c] = k
        /\ starts'[k].chan = c /\ starts'[k].state = x /\ ~starts'[k].old
        /\ \A s \in Slots \ {k} : starts'[s] = starts[s]
  BY Holds
<1>2. HoldsOK' /\ \A d \in Chans \ {c} : running'[d] = running[d]
  BY Holds
<1>3. HeldOK'
  <2> SUFFICES ASSUME NEW d \in Chans, running'[d] # Nobody
               PROVE  /\ starts'[running'[d]].chan = d
                      /\ starts'[running'[d]].state \in {"starting", "running", "error"}
                      /\ ~starts'[running'[d]].old
    BY DEF HeldOK
  <2>1. CASE d = c
    BY <1>1, <2>1
  <2>2. CASE d # c
    <3>1. running'[d] = running[d] /\ running[d] \in Slots
      BY <1>2, <2>2 DEF HoldsOK
    <3>2. running[d] # k
      BY <1>1, <3>1, FreeStart DEF HeldOK
    <3>3. starts'[running[d]] = starts[running[d]]
      BY <1>1, <3>1, <3>2
    <3> QED BY <3>1, <3>3 DEF HeldOK
  <2> QED BY <2>1, <2>2
<1>4. WaitsOK'
  <2> SUFFICES ASSUME ~closing, NEW d \in Chans, NEW s \in Slots, s \in Ending(d)'
               PROVE  FALSE
    BY DEF WaitsOK, EndingOK, Ending
  <2>1. Ending(d) = {}
    BY DEF WaitsOK, EndingOK
  <2> QED BY <1>1, <2>1 DEF Ending
<1> QED BY <1>1, <1>2, <1>3, <1>4, ChannelsAssumption

\* The parts of the invariant.
LEMMA InvParts ==
  ASSUME IInv
  PROVE  /\ PlainOK /\ MapsOK /\ HoldsOK /\ ChainOK /\ CountsOK /\ JobOK /\ HeldOK /\ WaitsOK
         /\ SyncOK /\ ForgetsForGood
         /\ UNCHANGED <<config, edits>> => CountsOK'
         /\ UNCHANGED file => ForgetsForGood'
         /\ UNCHANGED chain => ChainOK'
         /\ UNCHANGED <<running, starts>> => HoldsOK' /\ HeldOK'
BY TypeParts DEF IInv, CountsOK, ForgetsForGood, ChainOK, HoldsOK, HeldOK

\* stopChannel comes back: everything that was waited for has ended or is late.
LEMMA StopEndsKeeps ==
  ASSUME IInv, UNCHANGED closing, StopEnds
  PROVE  IInv'
<1> USE DEF world, job, past
<1>1. /\ pc \in {"stopWait", "retryWait"}
      /\ UNCHANGED <<enabled, config, installed, file, running, retries, chain, todo, wanted, sigs, kinds, edits, fails, restarts>>
      /\ starts' = [s \in Slots |-> [starts[s] EXCEPT !.late = @ \/ s \in Ending(who)]]
      /\ \/ pc = "stopWait" /\ pc' = "stop" /\ who' = Nobody
         \/ pc = "retryWait" /\ pc' = "retryStop" /\ who' = who
  BY DEF StopEnds
<1>2. /\ HoldsOK'
      /\ \A s \in Slots : /\ starts'[s].chan = starts[s].chan /\ starts'[s].state = starts[s].state
                          /\ starts'[s].old = starts[s].old
                          /\ starts'[s].late <=> (starts[s].late \/ s \in Ending(who))
  <2>1. HoldsOK /\ UNCHANGED running
    BY <1>1, InvParts
  <2> HIDE DEF Ending
  <2> QED BY ONLY <1>1, <2>1, LateMarked
<1>3. PlainOK' /\ MapsOK' /\ ChainOK' /\ CountsOK' /\ ForgetsForGood'
  BY <1>1, InvParts DEF PlainOK, MapsOK, Phases
<1>4. HeldOK'
  BY <1>1, <1>2, InvParts DEF HeldOK, HoldsOK
<1>5. WaitsOK'
  <2> SUFFICES ASSUME ~closing, NEW c \in Chans, NEW s \in Slots, s \in Ending(c)'
               PROVE  FALSE
    BY DEF WaitsOK, EndingOK, Ending
  <2>1. s \in Ending(c) /\ s \notin Ending(who)
    BY <1>2 DEF Ending
  <2>2. who = c
    BY <2>1, InvParts DEF WaitsOK, EndingOK
  <2> QED BY <2>1, <2>2
<1>6. JobOK' /\ SyncOK'
  BY <1>1, InvParts DEF JobOK, SyncOK
<1> QED BY <1>2, <1>3, <1>4, <1>5, <1>6, TypePartsNext DEF IInv

\* A job begins, and reads.
LEMMA ReadsKeep ==
  ASSUME IInv, UNCHANGED closing, SyncReads \/ RetryReads
  PROVE  IInv'
<1> USE DEF world, job, past
<1>1. UNCHANGED <<enabled, config, installed, file, running, starts, retries, chain, edits, fails, restarts>>
  BY DEF SyncReads, RetryReads
<1>2. HoldsOK' /\ HeldOK' /\ ChainOK' /\ CountsOK' /\ ForgetsForGood'
  BY <1>1, InvParts
<1>3. pc \in {"idle", "sync"} /\ chain # <<>> /\ Head(chain) \in Chans \cup {Sync}
  BY InvParts, Shorter DEF SyncReads, RetryReads, JobOK
<1>4. MapsOK'
  BY <1>1, InvParts DEF MapsOK, SyncReads, RetryReads
<1>5. WaitsOK'
  <2>1. closing \/ \A c \in Chans : Ending(c) = {}
    BY <1>3, InvParts DEF WaitsOK, EndingOK
  <2>2. \A c \in Chans : Ending(c)' = Ending(c)
    BY <1>1 DEF Ending
  <2> QED BY <2>1, <2>2 DEF WaitsOK, EndingOK
<1>6. CASE SyncReads
  <2>1. /\ wanted' = {c \in Chans : enabled[c]} /\ todo' = {c \in Chans : running[c] # Nobody}
        /\ kinds' = installed /\ pc' = "stop" /\ who' = who
    BY <1>6 DEF SyncReads
  <2>2. PlainOK'
    BY <1>1, <2>1, InvParts DEF PlainOK, Phases
  <2>3. JobOK' /\ SyncOK'
    BY <1>1, <1>3, <2>1 DEF JobOK, SyncOK
  <2> QED BY <1>2, <1>4, <1>5, <2>2, <2>3, TypePartsNext DEF IInv
<1>7. CASE RetryReads
  <2>1. /\ who' = Head(chain) /\ Head(chain) \in Chans /\ wanted' = {c \in {Head(chain)} : ToRetry(c)}
        /\ pc' = "retry" /\ UNCHANGED <<todo, kinds>>
    BY <1>3, <1>7 DEF RetryReads
  <2>2. PlainOK'
    BY <1>1, <2>1, InvParts DEF PlainOK, Phases
  <2>3. JobOK' /\ SyncOK'
    BY <1>1, <1>3, <2>1, InvParts DEF JobOK, SyncOK
  <2> QED BY <1>2, <1>4, <1>5, <2>2, <2>3, TypePartsNext DEF IInv
<1> QED BY <1>6, <1>7

\* A sync stops a channel that is not wanted, or not as it runs.
LEMMA SyncStopsKeeps ==
  ASSUME IInv, UNCHANGED closing, NEW c \in Chans, SyncStops(c)
  PROVE  IInv'
<1> USE DEF world, job, past
<1>1. /\ pc = "stop" /\ c \in todo /\ todo' = todo \ {c}
      /\ UNCHANGED <<enabled, config, installed, file, chain, wanted, sigs, kinds, edits, fails, restarts>>
      /\ \/ StopChannel(c, "stopWait")
         \/ c \in wanted /\ UNCHANGED <<running, starts, who, pc>>
  BY DEF SyncStops
<1>2. running[c] # Nobody /\ chain # <<>>
  BY <1>1, InvParts DEF SyncOK, JobOK
<1>3. MapsOK' /\ ChainOK' /\ CountsOK' /\ ForgetsForGood'
  <2>1. retries' \in [Chans -> {"none", "armed", "fired"}]
    BY InvParts, WithoutType DEF SyncStops, MapsOK
  <2> QED BY <1>1, <2>1, InvParts DEF MapsOK
<1>4. CASE StopChannel(c, "stopWait")
  <2>1. HoldsOK' /\ HeldOK' /\ WaitsOK' /\ running'[c] = Nobody /\ who' = c /\ pc' = "stopWait"
        /\ \A d \in Chans \ {c} : running'[d] = running[d]
    BY <1>1, <1>2, <1>4, InvParts, StopsKeep
  <2>2. PlainOK'
    BY <1>1, <2>1, InvParts DEF PlainOK, Phases
  <2>3. JobOK' /\ SyncOK'
    <3>1. JobOK'
      BY <1>1, <1>2, <2>1 DEF JobOK
    <3>2. /\ \A d \in todo : d \in Chans /\ running[d] # Nobody
          /\ \A d \in Chans : running[d] # Nobody => d \in todo \cup wanted
      BY <1>1, InvParts DEF PlainOK, SyncOK
    <3>3. \A d \in todo' : running'[d] # Nobody
      BY <1>1, <2>1, <3>2
    <3>4. \A d \in Chans : running'[d] # Nobody => d \in todo' \cup wanted'
      BY <1>1, <2>1, <3>2
    <3> QED BY <2>1, <3>1, <3>3, <3>4 DEF SyncOK
  <2> QED BY <1>3, <2>1, <2>2, <2>3, TypePartsNext DEF IInv
<1>5. CASE c \in wanted /\ UNCHANGED <<running, starts, who, pc>>
  <2>1. HoldsOK' /\ HeldOK' /\ WaitsOK'
    BY <1>5, InvParts, SameHolds
  <2>2. PlainOK'
    BY <1>1, <1>5, InvParts DEF PlainOK
  <2>3. JobOK' /\ SyncOK'
    BY <1>1, <1>5, InvParts DEF JobOK, SyncOK
  <2> QED BY <1>3, <2>1, <2>2, <2>3, TypePartsNext DEF IInv
<1> QED BY <1>1, <1>4, <1>5

\* What is forgotten is held by nobody: a sync has looked at everything that is held.
LEMMA SyncForgetsKeeps ==
  ASSUME IInv, UNCHANGED closing, SyncForgets
  PROVE  IInv'
<1> USE DEF world, job, past
<1>1. /\ pc = "stop" /\ todo = {} /\ pc' = "start"
      /\ UNCHANGED <<enabled, config, installed, running, chain, who, todo, wanted, sigs, kinds, edits, fails, restarts>>
      /\ retries' = Without(Chans \ wanted)
      /\ file' = [c \in Chans |-> IF c \in wanted THEN file[c] ELSE "none"]
      /\ starts' = [s \in Slots |-> [starts[s] EXCEPT !.old = @ \/ starts[s].chan \in Chans \ wanted]]
  BY DEF SyncForgets
<1>2. /\ HoldsOK'
      /\ \A s \in Slots : /\ starts'[s].chan = starts[s].chan /\ starts'[s].state = starts[s].state
                          /\ starts'[s].late = starts[s].late
                          /\ starts'[s].old <=> (starts[s].old \/ starts[s].chan \in Chans \ wanted)
  <2>1. HoldsOK /\ UNCHANGED running
    BY <1>1, InvParts
  <2> QED BY ONLY <1>1, <2>1, OldMarked
<1>3. PlainOK' /\ ChainOK' /\ CountsOK'
  BY <1>1, InvParts DEF PlainOK, Phases
<1>4. MapsOK' /\ ForgetsForGood'
  <2>1. retries' \in [Chans -> {"none", "armed", "fired"}]
    BY <1>1, InvParts, WithoutType
  <2>2. file' \in [Chans -> {"none", "old", "new"}] /\ ForgetsForGood'
    BY <1>1, InvParts DEF MapsOK, ForgetsForGood
  <2> QED BY <1>1, <2>1, <2>2, InvParts DEF MapsOK
<1>5. HeldOK'
  <2> SUFFICES ASSUME NEW c \in Chans, running[c] # Nobody
               PROVE  /\ starts'[running[c]].chan = c
                      /\ starts'[running[c]].state \in {"starting", "running", "error"}
                      /\ ~starts'[running[c]].old
    BY <1>1 DEF HeldOK
  <2>1. running[c] \in Slots /\ starts[running[c]].chan = c /\ ~starts[running[c]].old
        /\ starts[running[c]].state \in {"starting", "running", "error"}
    BY InvParts DEF HoldsOK, HeldOK
  <2>2. c \in wanted
    BY <1>1, InvParts DEF SyncOK
  <2> QED BY <1>2, <2>1, <2>2
<1>6. WaitsOK'
  <2>1. closing \/ \A c \in Chans : Ending(c) = {}
    BY <1>1, InvParts DEF WaitsOK, EndingOK
  <2>2. \A c \in Chans : Ending(c)' = Ending(c)
    BY <1>2 DEF Ending
  <2> QED BY <2>1, <2>2 DEF WaitsOK, EndingOK
<1>7. JobOK' /\ SyncOK'
  BY <1>1, InvParts DEF JobOK, SyncOK
<1> QED BY <1>2, <1>3, <1>4, <1>5, <1>6, <1>7, TypePartsNext DEF IInv

\* A sync or a retry starts a channel.
LEMMA StartsKeep ==
  ASSUME IInv, UNCHANGED closing, RetryStarts \/ \E c \in Chans : SyncStarts(c)
  PROVE  IInv'
<1> USE DEF world, job, past
<1>1. PICK c \in Chans, x \in {"starting", "error"} :
        /\ Hold(c, x) /\ pc \in {"start", "retryStop"}
        /\ \/ x = "starting" /\ who' = c /\ pc' = "starting"
           \/ pc = "start" /\ UNCHANGED <<who, pc>>
  BY InvParts DEF RetryStarts, SyncStarts, StartChannel, JobOK
<1>2. /\ UNCHANGED <<enabled, config, installed, file, retries, chain, todo, sigs, kinds, edits, fails, restarts>>
      /\ wanted' \subseteq wanted
  BY DEF RetryStarts, SyncStarts
<1>3. HoldsOK' /\ HeldOK' /\ WaitsOK' /\ running'[c] # Nobody
  BY <1>1, InvParts, HoldKeeps
<1>4. PlainOK' /\ MapsOK' /\ ChainOK' /\ CountsOK' /\ ForgetsForGood'
  BY <1>1, <1>2, InvParts DEF PlainOK, MapsOK, Phases
<1>5. JobOK' /\ SyncOK'
  <2>1. todo = {} /\ chain # <<>> /\ pc' \in {"start", "starting"}
    BY <1>1, InvParts DEF JobOK, SyncOK
  <2> QED BY <1>1, <1>2, <1>3, <2>1 DEF JobOK, SyncOK
<1> QED BY <1>3, <1>4, <1>5, TypePartsNext DEF IInv

\* A sync has nothing left to start.
LEMMA SyncEndsKeeps ==
  ASSUME IInv, UNCHANGED closing, SyncEnds
  PROVE  IInv'
<1> USE DEF world, job, past
<1>1. /\ pc = "start" /\ Finish
      /\ UNCHANGED <<enabled, config, installed, file, running, starts, retries, todo, edits, fails, restarts>>
  BY DEF SyncEnds
<1>2. /\ ChainOK' /\ pc' = "idle" /\ who' \in Chans \cup {Nobody} /\ wanted' \subseteq Chans
      /\ sigs' \in [Chans -> 0..MaxEdits] /\ kinds' \in BOOLEAN
  BY <1>1, InvParts, Finishes DEF JobOK
<1>3. PlainOK' /\ MapsOK' /\ HoldsOK' /\ CountsOK' /\ HeldOK' /\ ForgetsForGood'
  BY <1>1, <1>2, InvParts DEF PlainOK, MapsOK, Phases
<1>4. WaitsOK'
  <2>1. closing \/ \A c \in Chans : Ending(c) = {}
    BY <1>1, InvParts DEF WaitsOK, EndingOK
  <2>2. \A c \in Chans : Ending(c)' = Ending(c)
    BY <1>1 DEF Ending
  <2> QED BY <2>1, <2>2 DEF WaitsOK, EndingOK
<1>5. JobOK' /\ SyncOK'
  BY <1>1, <1>2, InvParts DEF JobOK, SyncOK
<1> QED BY <1>2, <1>3, <1>4, <1>5, TypePartsNext DEF IInv

\* A retry looks at its channel.
LEMMA RetryGoesKeeps ==
  ASSUME IInv, UNCHANGED closing, RetryGoes
  PROVE  IInv'
<1> USE DEF world, job, past
<1>1. /\ pc = "retry" /\ who \in Chans /\ chain # <<>>
      /\ UNCHANGED <<enabled, config, installed, file, todo, wanted, sigs, kinds, edits, fails, restarts>>
  BY InvParts DEF RetryGoes, JobOK
<1>2. CountsOK' /\ ForgetsForGood'
  BY <1>1, InvParts
<1>3. CASE /\ retries' = Without({who}) /\ pc' = "sync" /\ chain' = <<Sync>> \o Tail(chain) /\ who' = Nobody
           /\ UNCHANGED <<running, starts>>
  <2>1. HoldsOK' /\ HeldOK'
    BY <1>3, InvParts
  <2>2. ChainOK' /\ chain' # <<>>
    BY <1>1, <1>3, InvParts, Shorter DEF ChainOK
  <2>3. PlainOK' /\ MapsOK'
    BY <1>1, <1>3, InvParts, WithoutType DEF PlainOK, MapsOK, Phases
  <2>4. WaitsOK'
    <3>1. closing \/ \A c \in Chans : Ending(c) = {}
      BY <1>1, InvParts DEF WaitsOK, EndingOK
    <3>2. \A c \in Chans : Ending(c)' = Ending(c)
      BY <1>3 DEF Ending
    <3> QED BY <3>1, <3>2 DEF WaitsOK, EndingOK
  <2>5. JobOK' /\ SyncOK'
    BY <1>1, <1>3, <2>2, InvParts DEF JobOK, SyncOK
  <2> QED BY <1>2, <2>1, <2>2, <2>3, <2>4, <2>5, TypePartsNext DEF IInv
<1>4. CASE running[who] # Nobody /\ StopChannel(who, "retryWait") /\ UNCHANGED <<retries, chain>>
  <2>1. HoldsOK' /\ HeldOK' /\ WaitsOK' /\ who' = who /\ pc' = "retryWait"
    BY <1>1, <1>4, InvParts, StopsKeep
  <2>2. PlainOK' /\ MapsOK' /\ ChainOK'
    BY <1>1, <1>4, <2>1, InvParts DEF PlainOK, MapsOK, Phases
  <2>3. JobOK' /\ SyncOK'
    BY <1>1, <1>4, <2>1, InvParts DEF JobOK, SyncOK
  <2> QED BY <1>2, <2>1, <2>2, <2>3, TypePartsNext DEF IInv
<1>5. CASE pc' = "retryStop" /\ UNCHANGED <<who, running, starts, retries, chain>>
  <2>1. HoldsOK' /\ HeldOK' /\ ChainOK'
    BY <1>5, InvParts
  <2>2. PlainOK' /\ MapsOK'
    BY <1>1, <1>5, InvParts DEF PlainOK, MapsOK, Phases
  <2>3. WaitsOK'
    <3>1. closing \/ \A c \in Chans : Ending(c) = {}
      BY <1>1, InvParts DEF WaitsOK, EndingOK
    <3>2. \A c \in Chans : Ending(c)' = Ending(c)
      BY <1>5 DEF Ending
    <3> QED BY <3>1, <3>2 DEF WaitsOK, EndingOK
  <2>4. JobOK' /\ SyncOK'
    BY <1>1, <1>5, InvParts DEF JobOK, SyncOK
  <2> QED BY <1>2, <2>1, <2>2, <2>3, <2>4, TypePartsNext DEF IInv
<1> QED BY <1>3, <1>4, <1>5 DEF RetryGoes

\* Every step of the job at the head of the chain keeps it.
LEMMA JobStepKeeps ==
  ASSUME IInv, UNCHANGED closing, JobStep
  PROVE  IInv'
BY StopEndsKeeps, ReadsKeep, SyncStopsKeeps, SyncForgetsKeeps, StartsKeep, SyncEndsKeeps, RetryGoesKeeps DEF JobStep
-----------------------------------------------------------------------------

\* It holds of a server that has just come up.
LEMMA InitOK == Init => IInv
<1> SUFFICES ASSUME Init PROVE IInv
  OBVIOUS
<1>1. PlainOK /\ MapsOK
  <2>1. PlainOK
    <3>1. edits \in 0..MaxEdits /\ fails \in 0..MaxFails /\ restarts \in 0..MaxRestarts
      BY ParamRange DEF Init
    <3> QED BY <3>1 DEF Init, PlainOK, Phases
  <2>2. config \in [Chans -> 0..MaxEdits] /\ sigs = config
    BY ParamRange DEF Init
  <2> QED BY <2>1, <2>2 DEF Init, MapsOK
<1>2. HoldsOK
  BY FreeStart DEF Init, HoldsOK
<1>3. ChainOK
  BY DEF Init, ChainOK
<1>4. WaitsOK
  BY FreeStart DEF Init, WaitsOK, EndingOK, Ending
<1>5. CountsOK /\ JobOK /\ HeldOK /\ SyncOK /\ ForgetsForGood
  BY DEF Init, CountsOK, JobOK, HeldOK, SyncOK, ForgetsForGood
<1> QED BY <1>1, <1>2, <1>3, <1>4, <1>5, TypeParts DEF IInv

\* A restart leaves what is on disk, and nothing that runs.
LEMMA RestartKeeps ==
  ASSUME IInv, Restart
  PROVE  IInv'
<1> USE DEF world, job, past
<1>1. /\ UNCHANGED <<enabled, config, installed, file, edits, fails>>
      /\ running' = [c \in Chans |-> Nobody] /\ starts' = [s \in Slots |-> Free]
      /\ pc' = "idle" /\ todo' = {} /\ chain' = <<Sync>>
  BY DEF Restart
<1>2. PlainOK' /\ MapsOK'
  <2>1. restarts' \in 0..MaxRestarts
    BY InvParts, ParamRange DEF PlainOK, Restart
  <2> QED BY <1>1, <2>1, InvParts, ParamRange DEF PlainOK, MapsOK, Restart, Phases
<1>3. HoldsOK'
  BY <1>1, FreeStart DEF HoldsOK
<1>4. ChainOK'
  BY <1>1 DEF ChainOK
<1>5. WaitsOK'
  BY <1>1, FreeStart DEF WaitsOK, EndingOK, Ending
<1>6. CountsOK' /\ JobOK' /\ HeldOK' /\ SyncOK' /\ ForgetsForGood'
  BY <1>1, InvParts DEF JobOK, HeldOK, SyncOK
<1> QED BY <1>2, <1>3, <1>4, <1>5, <1>6, TypePartsNext DEF IInv

\* A portal that is asked to stop lets go of all it holds, and no more is known of
\* what is waited for; the job under way has nothing left to stop.
LEMMA ShutdownKeeps ==
  ASSUME IInv, Shutdown
  PROVE  IInv'
<1> USE DEF world, job, past
<1>1. /\ UNCHANGED <<enabled, config, installed, file, chain, pc, who, sigs, kinds, edits, fails, restarts>>
      /\ running' = [c \in Chans |-> Nobody] /\ todo' = {} /\ retries' = Without(Chans)
      /\ starts' = [s \in Slots |-> IF \E c \in Chans : running[c] = s THEN AfterStop(s) ELSE starts[s]]
      /\ wanted' \subseteq wanted
  BY DEF Shutdown
<1>2. closing' = TRUE
  BY DEF Shutdown
<1>3. PlainOK'
  BY <1>1, <1>2, InvParts DEF PlainOK
<1>4. MapsOK'
  <2>1. retries' \in [Chans -> {"none", "armed", "fired"}]
    BY <1>1, InvParts, WithoutType
  <2> QED BY <1>1, <2>1, InvParts DEF MapsOK
<1>5. HoldsOK'
  <2>1. \A s \in Slots : AfterStop(s) \in Record /\ starts[s] \in Record
    BY InvParts, StoppedStart DEF HoldsOK
  <2> QED BY <1>1, <2>1 DEF HoldsOK
<1>6. WaitsOK'
  BY <1>2 DEF WaitsOK
<1>7. ChainOK' /\ CountsOK' /\ ForgetsForGood'
  BY <1>1, InvParts
<1>8. JobOK' /\ HeldOK' /\ SyncOK'
  BY <1>1, InvParts DEF JobOK, HeldOK, SyncOK
<1> QED BY <1>3, <1>4, <1>5, <1>6, <1>7, <1>8, TypePartsNext DEF IInv

\* Every step keeps it.
LEMMA InvStep == IInv /\ [Next]_vars => IInv'
<1> SUFFICES ASSUME IInv, [Next]_vars PROVE IInv'
  OBVIOUS
<1>1. CASE Step /\ UNCHANGED closing
  BY <1>1, JobStepKeeps, SettlesKeep, AsksKeep, PackagesKeep DEF Step
<1>2. CASE UNCHANGED vars
  BY <1>2 DEF vars, moves, world, job, past, IInv, TypeOK, CountsOK, JobOK, HeldOK, WaitsOK, EndingOK, Ending, SyncOK, ForgetsForGood
<1> QED BY <1>1, <1>2, ShutdownKeeps, RestartKeeps DEF Next

\* The inductive invariant holds all along.
LEMMA Invariance == Spec => []IInv
BY InitOK, InvStep, PTL DEF Spec

\* Every variable keeps its type: above all the chain never gives a channel to work
\* on that is not one, and every channel that is held has a start.
THEOREM TypeCorrect == Spec => []TypeOK
<1>1. IInv => TypeOK
  BY DEF IInv
<1> QED BY <1>1, Invariance, PTL

\* What a channel kept before it was switched off is not there for what is started
\* later, and nothing puts it back: no start that was stopped and goes on, no retry
\* and no restart (state.set, removeChannelState).
THEOREM GoneForGood == Spec => []ForgetsForGood
<1>1. IInv => ForgetsForGood
  BY DEF IInv
<1> QED BY <1>1, Invariance, PTL

\* As long as the portal is not asked to stop, a channel is started only once every
\* start of it there was has ended or was given its five seconds: only where the job
\* that is done starts one, and not while it waits for one (the chain of sync and
\* retry, and stopChannel).
THEOREM StartedAlone == Spec => StartsAlone
<1> DEFINE A == \A c \in Chans : ~closing => Alone(c)
<1>1. IInv /\ [Next]_vars => [A]_vars
  <2> SUFFICES ASSUME IInv, Next, ~closing, NEW c \in Chans, running[c] = Nobody, running'[c] # Nobody
               PROVE  Ending(c) = {}
    BY DEF Alone
  <2>1. pc \in {"start", "retryStop"}
    <3> USE DEF world, job, past
    <3>1. CASE JobStep
      <4>1. CASE \/ SyncStarts(c) \/ RetryStarts \/ \E d \in Chans : SyncStarts(d)
        BY <4>1 DEF SyncStarts, RetryStarts
      <4>2. CASE RetryGoes \/ \E d \in Chans : SyncStops(d)
        <5>1. UNCHANGED running \/ \E d \in Chans : LetGo(d)
          BY <4>2, InvParts DEF RetryGoes, SyncStops, StopChannel, JobOK
        <5>2. running \in [Chans -> Slots \cup {Nobody}]
          BY InvParts DEF HoldsOK
        <5> QED BY <5>1, <5>2 DEF LetGo
      <4> QED BY <3>1, <4>1, <4>2 DEF JobStep, StopEnds, SyncReads, SyncForgets, SyncEnds, RetryReads
    <3>2. ~Restart /\ ~Shutdown
      BY DEF Restart, Shutdown
    <3> QED BY <3>1, <3>2 DEF Next, Step, StartFails, StartSucceeds, Settle, Save, TimerFires, PackageChanges, Saves, PackageEnds
  <2> QED BY <2>1, InvParts DEF WaitsOK, EndingOK
<1> QED BY <1>1, Invariance, PTL DEF Spec, StartsAlone
=============================================================================
