------------------------------- MODULE Handoff -------------------------------
(* handoff.ts: what an upgrade of the portal leaves for an extension, a folder of
   files (handOffMedia, handOffBrowser of db.ts) moved out of where the portal
   kept it, left, taken by the extension into its own folder, read, and removed.
   All of it is done while the portal starts, one file-system call after another,
   and the portal may be stopped between any two: only the disk is left then.  *)
EXTENDS Naturals

CONSTANTS
  Items,       \* the names of the files in the folder
  MaxGen,      \* bound on how often the folder is made, by going back
  MaxCrashes,  \* bound on how often the portal is stopped half way
  Absent       \* what is where nothing is

Gens  == 1..MaxGen
Files == Items \X Gens
Name(f) == f[1]
Names(S) == {Name(f) : f \in S}

ASSUME HandoffAssumption ==
  (\A S \in SUBSET Files : S # Absent) /\ MaxGen \in Nat \ {0} /\ MaxCrashes \in Nat

VARIABLES
  \* the disk: each a folder's whole files, or Absent
  source,   \* where the portal kept it
  partial,  \* .profile.partial: what has been moved of it
  profile,  \* profile, in the hand-off that is being filled
  left,     \* handoff/<name>: where a hand-off waits
  taking,   \* handoff/.<name>.taking: moved aside to be taken
  copy,     \* handoff-<name>.copy, in the extension's folder
  taken,    \* handoff-<name>, in the extension's folder
  needs,    \* the database still has what the upgrade hands off
  \* this start of the portal
  pc,       \* how far it is
  mounted,  \* the folder cannot be renamed as a whole (EBUSY, EXDEV)
  reached,  \* it can be reached
  across,   \* the extension's folder is on another file system, for good
  \* history
  gen,      \* how often the folder was made
  made,     \* the files the portal ever kept there
  given,    \* the files the extension has read
  done,     \* those of the hand-offs that are done
  crashes

disk  == <<source, partial, profile, left, taking, copy, taken, needs>>
start == <<pc, mounted, reached, across>>
past  == <<gen, made, given, done, crashes>>
vars  == <<disk, start, past>>

Folder == (SUBSET Files) \cup {Absent}
Phases == {"down", "boot", "fill", "move", "place", "commit", "up", "take", "into", "copied", "aside", "read", "done"}
In(folder) == IF folder = Absent THEN {} ELSE folder

TypeOK ==
  /\ source \in Folder /\ partial \in Folder /\ profile \in Folder /\ left \in Folder
  /\ taking \in Folder /\ copy \in Folder /\ taken \in Folder
  /\ needs \in BOOLEAN /\ mounted \in BOOLEAN /\ reached \in BOOLEAN /\ across \in BOOLEAN
  /\ pc \in Phases
  /\ gen \in Gens /\ made \subseteq Files /\ given \subseteq Files /\ done \subseteq Files /\ crashes \in 0..MaxCrashes

Made(g) == Items \X {g}

Init ==
  /\ source = Made(1) /\ needs = TRUE
  /\ partial = Absent /\ profile = Absent /\ left = Absent
  /\ taking = Absent /\ copy = Absent /\ taken = Absent
  /\ pc = "down" /\ mounted = FALSE /\ reached = TRUE /\ across \in BOOLEAN
  /\ gen = 1 /\ made = Made(1) /\ given = {} /\ done = {} /\ crashes = 0

Go(phase) == pc' = phase /\ UNCHANGED <<mounted, reached, across>>
-----------------------------------------------------------------------------
(* The upgrade, as the portal starts: leaveHandoff, and moveFolderTo as its fill. *)

Boot ==
  /\ pc = "down"
  /\ pc' = "boot"
  /\ mounted' \in BOOLEAN /\ reached' \in BOOLEAN
  /\ UNCHANGED <<across, disk, past>>

\* "there": an earlier try left it already.
Leave ==
  /\ pc = "boot"
  /\ Go(IF ~needs THEN "up" ELSE IF left # Absent THEN "commit" ELSE "fill")
  /\ UNCHANGED <<disk, past>>

SourceThere == source # Absent /\ reached

\* A try that fails is gone on with at the next start.  Where the upgrade as a whole
\* fails, the portal says so, and starts no extension.
FillFails ==
  /\ pc \in {"fill", "move", "place", "commit"}
  /\ Go(IF pc = "commit" THEN "down" ELSE "up")
  /\ UNCHANGED <<disk, past>>

\* An earlier try moved all of it, or there is nothing to move.
FillNothing ==
  /\ pc = "fill"
  /\ profile # Absent \/ (~SourceThere /\ partial = Absent)
  /\ Go("place")
  /\ UNCHANGED <<disk, past>>

\* By one rename.
FillWhole ==
  /\ pc = "fill" /\ profile = Absent /\ SourceThere /\ partial = Absent /\ ~mounted
  /\ profile' = source /\ source' = Absent
  /\ Go("place")
  /\ UNCHANGED <<partial, left, taking, copy, taken, needs, past>>

\* File by file, into the folder an earlier try left, or a new one.
FillBegins ==
  /\ pc = "fill" /\ profile = Absent /\ SourceThere /\ (partial # Absent \/ mounted)
  /\ partial' = In(partial)
  /\ Go("move")
  /\ UNCHANGED <<source, profile, left, taking, copy, taken, needs, past>>

\* moveTo, of one file: renamed, or copied (and the copy put in place by a rename)
\* to be removed after.
MoveIn(f) ==
  /\ pc = "move" /\ f \in source /\ Names(source) \cap Names(partial) = {}
  /\ partial' = partial \cup {f}
  /\ source' = IF mounted THEN source ELSE source \ {f}
  /\ Go("move")
  /\ UNCHANGED <<profile, left, taking, copy, taken, needs, past>>

\* What was copied is removed, by the same try or by the next.
MoveRest(f) ==
  /\ pc = "move" /\ f \in source /\ Name(f) \in Names(partial)
  /\ source' = source \ {f}
  /\ Go("move")
  /\ UNCHANGED <<partial, profile, left, taking, copy, taken, needs, past>>

\* Faulty: the folder is put in place as it is, what is left of it to be added.
FillEndsEarly ==
  /\ pc = "move"
  /\ profile' = partial /\ partial' = Absent
  /\ Go("place")
  /\ UNCHANGED <<source, left, taking, copy, taken, needs, past>>

\* All of it is there: put in place by one rename.  A mount point stays, empty.
FillEnds ==
  /\ pc = "move" /\ source = {}
  /\ profile' = partial /\ partial' = Absent
  /\ Go("place")
  /\ UNCHANGED <<source, left, taking, copy, taken, needs, past>>

\* The hand-off itself, by one rename.
Place ==
  /\ pc = "place"
  /\ left' = In(profile) /\ profile' = Absent
  /\ Go("commit")
  /\ UNCHANGED <<source, partial, taking, copy, taken, needs, past>>

\* The upgrade's transaction.
Commit ==
  /\ pc = "commit"
  /\ needs' = FALSE
  /\ Go("up")
  /\ UNCHANGED <<source, partial, profile, left, taking, copy, taken, past>>
-----------------------------------------------------------------------------
(* The extension starts: takeHandoff, and handoffDone once it has read it. *)

\* Taken before, moved aside before, or where it was left.
Take ==
  /\ pc = "up"
  /\ \/ /\ taken # Absent
        /\ Go("aside") /\ UNCHANGED <<left, taking>>
     \/ /\ taken = Absent /\ taking # Absent
        /\ Go("into") /\ UNCHANGED <<left, taking>>
     \/ /\ taken = Absent /\ taking = Absent /\ left # Absent
        /\ taking' = left /\ left' = Absent
        /\ Go("into")
  /\ UNCHANGED <<source, partial, profile, copy, taken, needs, past>>

\* moveTo: by a rename, or by a copy, which a stop may cut off half way.
IntoWhole ==
  /\ pc = "into" /\ ~across
  /\ taken' = taking /\ taking' = Absent
  /\ Go("read")
  /\ UNCHANGED <<source, partial, profile, left, copy, needs, past>>

Copies(f) ==
  /\ pc = "into" /\ across /\ f \in taking \ In(copy)
  /\ copy' = {g \in In(copy) : Name(g) # Name(f)} \cup {f}
  /\ Go("into")
  /\ UNCHANGED <<source, partial, profile, left, taking, taken, needs, past>>

\* Faulty: the copy is put in place before it is whole.
CopyPlacedEarly ==
  /\ pc = "into" /\ across
  /\ taken' = In(copy) /\ copy' = Absent
  /\ Go("aside")
  /\ UNCHANGED <<source, partial, profile, left, taking, needs, past>>

\* The copy is whole, and put in place by a rename.
CopyPlaced ==
  /\ pc = "into" /\ across /\ taking \subseteq In(copy)
  /\ taken' = In(copy) /\ copy' = Absent
  /\ Go("aside")
  /\ UNCHANGED <<source, partial, profile, left, taking, needs, past>>

\* Faulty: what is left of the one moved aside stays once it has been taken.
AsideStays ==
  /\ pc = "aside"
  /\ Go("read")
  /\ UNCHANGED <<disk, past>>

\* What is left where it was moved aside goes, file by file.
AsideGoes ==
  /\ pc = "aside"
  /\ \/ /\ taking = Absent
        /\ Go("read") /\ UNCHANGED taking
     \/ /\ taking # Absent /\ In(taking) # {}
        /\ \E f \in taking : taking' = taking \ {f}
        /\ Go("aside")
     \/ /\ taking = {}
        /\ taking' = Absent /\ Go("aside")
  /\ UNCHANGED <<source, partial, profile, left, copy, taken, needs, past>>

\* A hand-off whose removal was cut off has no handoff.json to be read by, or not
\* all it names: the extension says so, and it stays.
Spoilt == In(taken) \cap done # {}

\* The extension reads it, or fails to, and it is kept for its next start.
Read ==
  /\ pc = "read"
  /\ \/ /\ ~Spoilt
        /\ given' = given \cup taken
        /\ Go("done") /\ UNCHANGED <<gen, made, done, crashes>>
     \/ Go("up") /\ UNCHANGED past
  /\ UNCHANGED disk

\* handoffDone, file by file.
DoneGoes ==
  /\ pc = "done"
  /\ done' = done \cup taken
  /\ \/ /\ taken # {}
        /\ \E f \in taken : taken' = taken \ {f}
        /\ Go("done")
     \/ /\ taken = {}
        /\ taken' = Absent /\ Go("up")
  /\ UNCHANGED <<source, partial, profile, left, taking, copy, needs, gen, made, given, crashes>>
-----------------------------------------------------------------------------
(* The portal stops, half way or not, and the person may go back. *)

Stop ==
  /\ pc # "down"
  /\ IF pc = "up" THEN UNCHANGED crashes ELSE crashes < MaxCrashes /\ crashes' = crashes + 1
  /\ Go("down")
  /\ UNCHANGED <<disk, gen, made, given, done>>

\* What the older version makes of it, beside what is there.
MadeAgain(there) ==
  LET more == {f \in Made(gen + 1) : Name(f) \notin Names(there)} IN
  /\ gen < MaxGen /\ gen' = gen + 1
  /\ source' = there \cup more /\ made' = made \cup more

Somewhere == In(source) \cup In(partial) \cup In(profile) \cup In(left) \cup In(taking) \cup In(taken)

\* The backup is put back with the files where they were, and what is left of the
\* hand-off is taken out of the way (docs/guide/upgrading.md): where no two of
\* them have one name.
GoBackByTheBook ==
  LET back == Somewhere \ given IN
  /\ pc = "down"
  /\ \A f, g \in back : Name(f) = Name(g) => f = g
  /\ MadeAgain(back)
  /\ partial' = Absent /\ profile' = Absent /\ left' = Absent
  /\ taking' = Absent /\ copy' = Absent /\ taken' = Absent /\ needs' = TRUE
  /\ UNCHANGED <<start, given, done, crashes>>

\* The backup alone, where nothing is being left and none waits to be taken.
GoBack ==
  /\ pc = "down"
  /\ ~needs /\ partial = Absent /\ profile = Absent /\ left = Absent
  /\ MadeAgain(In(source)) /\ needs' = TRUE
  /\ UNCHANGED <<partial, profile, left, taking, copy, taken, start, given, done, crashes>>
-----------------------------------------------------------------------------
UpgradeStep ==
  \/ Boot \/ Leave \/ FillFails \/ FillNothing \/ FillWhole \/ FillBegins
  \/ \E f \in Files : MoveIn(f) \/ MoveRest(f)
  \/ FillEnds \/ Place \/ Commit

ExtensionStep ==
  \/ Take \/ IntoWhole \/ CopyPlaced \/ AsideGoes \/ Read \/ DoneGoes
  \/ \E f \in Files : Copies(f)

Next == UpgradeStep \/ ExtensionStep \/ Stop \/ GoBackByTheBook \/ GoBack

Spec == Init /\ [][Next]_vars
-----------------------------------------------------------------------------
(* Safety. *)

\* Wherever a start is stopped, each file the portal kept is whole in one of the
\* places the next start looks in, or the extension has read it (a rename or a
\* copy puts all of it there before anything is removed).
NothingLost == made \subseteq Somewhere \cup given

\* An extension reads a hand-off whole, never one half filled, half copied or half
\* removed.
ReadWhole == [][given' # given => \A i \in Items : \E g \in Gens : <<i, g>> \in taken]_vars

\* What is done is not taken a second time.
DoneOnce == [][\A f \in done : f \in In(taken') => f \in In(taken)]_vars
=============================================================================
