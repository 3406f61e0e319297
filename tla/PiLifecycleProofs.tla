------------------------- MODULE PiLifecycleProofs -------------------------
(* Proofs about PiLifecycle: for any number of prompts, edits, deletes and pis,
   at most one pi at a time has the chat's conversation file, the one that is up
   holds what the file holds, and the file changes under none; an edit undoes its
   own work only, the reaper spares who is about to use a pi, and a chat deleted
   by one delete at a time is gone for good.                                   *)
EXTENDS PiLifecycle, TLAPS

USE DEF Requests, Launches, PiStates, Phases, Versions

-----------------------------------------------------------------------------
(* What settleEdit makes of the edits, which several actions share. *)

\* An edit that goes back takes the lock, and one that does not is left where it
\* was or stands.
LEMMA EditFailsMoves ==
  ASSUME TypeOK, NEW at \in [Requests -> Phases], NEW locked \in BOOLEAN,
         \A e \in Editors : at[e] \in Locked => editing = e,
         locked \/ editing = NoOne, EditFails(at, locked)
  PROVE  /\ pc' \in [Requests -> Phases]
         /\ editing' \in Editors \cup {NoOne, Reload}
         /\ \A e \in Editors : pc'[e] \in Locked => editing' = e
         /\ \A e \in Editors : pc'[e] \in {"stopping", "unstop"} => pc'[e] = at[e]
  <1>1. EditsStand(at) \in [Requests -> Phases]
    BY DEF EditsStand
  <1>2. \A r \in Requests : EditsStand(at)[r] \in {at[r], "done"}
    BY DEF EditsStand
  <1>3. CASE pc' = EditsStand(at) /\ UNCHANGED editing
    BY <1>1, <1>2, <1>3 DEF TypeOK, Locked
  <1>4. CASE \E e \in Sent : ~locked /\ pc' = [EditsStand(at) EXCEPT ![e] = "undo"] /\ editing' = e
    <2>1. PICK e \in Sent : ~locked /\ pc' = [EditsStand(at) EXCEPT ![e] = "undo"] /\ editing' = e
      BY <1>4
    <2>2. e \in Editors
      BY DEF Sent
    <2>3. editing \notin Editors
      BY <2>1, DistinctAssumption
    <2> QED
      BY <1>1, <1>2, <2>1, <2>2, <2>3 DEF Locked
  <1> QED
    BY <1>3, <1>4 DEF EditFails

\* stop() leaves no pi live, and what was live or going is being let go.
LEMMA StopPiMoves ==
  ASSUME TypeOK, StopPi
  PROVE  /\ live' = NoPi /\ releasing' = StopTarget /\ StopTarget \in Pis \cup {NoPi}
         /\ pi' = [p \in Pis |-> IF p = live THEN "closing" ELSE pi[p]]
  BY DistinctAssumption DEF TypeOK, StopPi, StopTarget

\* A launch that fails lets go of who awaited it, and takes back an edit at most.
LEMMA LaunchFailsMoves ==
  ASSUME TypeOK, EditsLocked, LaunchFails
  PROVE  /\ pc' \in [Requests -> Phases]
         /\ editing' \in Editors \cup {NoOne, Reload}
         /\ stopped' \subseteq Callers \cup Editors
         /\ \A e \in Editors : pc'[e] \in Locked => editing' = e
         /\ \A e \in Editors : pc'[e] \in {"stopping", "unstop"} => pc'[e] = pc[e]
  <1> DEFINE at == [r \in Requests |->
                     IF pc[r] # "starting" THEN pc[r] ELSE IF r \in Editors THEN "undo" ELSE "done"]
  <1>1. at \in [Requests -> Phases]
    BY DEF TypeOK
  <1>2. \A e \in Editors : at[e] \in Locked => editing = e
    BY DEF TypeOK, EditsLocked, Locked
  <1>3. EditFails(at, editing # NoOne) /\ stopped' \subseteq stopped
    BY DEF LaunchFails
  <1>4. \A e \in Editors : at[e] \in {"stopping", "unstop"} => at[e] = pc[e]
    BY DEF TypeOK
  <1> HIDE DEF at
  <1> QED
    BY <1>1, <1>2, <1>3, <1>4, EditFailsMoves DEF TypeOK

\* A prompt that is through moves nobody else, but for the edits its outcome
\* settles.
LEMMA SubmitMoves ==
  ASSUME TypeOK, EditsLocked, NEW c \in Callers, Submit(c)
  PROVE  /\ pc' \in [Requests -> Phases] /\ later' \subseteq Editors
         /\ editing' \in Editors \cup {NoOne, Reload}
         /\ \A e \in Editors : pc'[e] \in Locked => editing' = e
         /\ \A e \in Editors : pc'[e] \in {"stopping", "unstop"} => pc'[e] = pc[e]
  <1> DEFINE at == [pc EXCEPT ![c] = "done"]
  <1>1. at \in [Requests -> Phases] /\ \A e \in Editors : at[e] = pc[e]
    BY DistinctAssumption DEF TypeOK
  <1>2. later' \subseteq Editors
    BY DEF TypeOK, Submit, Sent
  <1>3. \/ pc' \in {at, EditsStand(at)} /\ UNCHANGED editing
        \/ EditFails(at, editing # NoOne)
    BY Zenon DEF Submit, Go
  <1> HIDE DEF at
  <1>4. CASE pc' \in {at, EditsStand(at)} /\ UNCHANGED editing
    BY <1>1, <1>2, <1>4 DEF TypeOK, EditsLocked, EditsStand, Locked
  <1>5. CASE EditFails(at, editing # NoOne)
    BY <1>1, <1>2, <1>5, EditFailsMoves DEF TypeOK, EditsLocked
  <1> QED
    BY <1>3, <1>4, <1>5

-----------------------------------------------------------------------------
\* The invariant holds at first.
LEMMA InitIInv == Init => IInv
  <1> SUFFICES ASSUME Init PROVE IInv
    OBVIOUS
  <1>1. FlagsOK
    BY Zenon, PlacesAssumption DEF Init, FlagsOK
  <1>2. TypeOK
    BY <1>1 DEF Init, TypeOK
  <1>3. PisInPlace /\ PisReadTheFile
    BY DistinctAssumption DEF Init, PisInPlace, PisReadTheFile
  <1>4. EditsLocked
    BY DEF Init, EditsLocked, Locked
  <1> QED
    BY <1>2, <1>3, <1>4 DEF IInv

\* A flag is a truth value.
LEMMA FlagsStep ==
  ASSUME FlagsOK, [Next]_vars
  PROVE  FlagsOK'
  <1> USE DEF FlagsOK, maps, pis, disk, reqs, rest
  <1>0. container' = container
    BY Zenon DEF Next, vars
  <1>1. ASSUME NEW c \in Callers, CallerStep(c) PROVE FlagsOK'
    BY ZenonT(30), <1>0, <1>1 DEF CallerStep, Arrive, ReloadForPrompt, PassGate, Enter, EnterRefused,
        Door, Submit, Touch, Lookup
  <1>2. ASSUME NEW e \in Editors, EditStep(e) PROVE FlagsOK'
    <2>1. CASE EditBegins(e) \/ EditStops(e) \/ Rewrite(e) \/ EditRefused(e) \/ Removed(e)
      BY ZenonT(30), <1>0, <2>1 DEF EditBegins, EditStops, Rewrite, EditRefused, Removed, StopPi
    <2>2. CASE SendReplacement(e) \/ ReplacementEnters(e) \/ ReplacementRefused(e)
      BY ZenonT(30), <1>0, <2>2 DEF SendReplacement, ReplacementEnters, ReplacementRefused, Touch, Lookup
    <2>3. CASE SubmitReplacement(e) \/ UndoStops(e) \/ Restore(e)
      BY ZenonT(30), <1>0, <2>3 DEF SubmitReplacement, UndoStops, Restore, Touch, StopPi
    <2> QED
      BY ZenonT(30), <1>2, <2>1, <2>2, <2>3 DEF EditStep
  <1>3. ASSUME NEW d \in Deleters, DeleteStep(d) PROVE FlagsOK'
    BY ZenonT(30), <1>0, <1>3 DEF DeleteStep, DeleteBegins, DeleteAborts, AbortReturns, Aborted, DeleteStops,
        Deleted, Reopen, StopPi
  <1>4. CASE LaunchStep
    BY ZenonT(30), <1>0, <1>4 DEF LaunchStep, ServersSettled, Create, CreateRefused, Created,
        CreateFails, LaunchSettles, LaunchFails
  <1>5. CASE RunStep
    BY ZenonT(30), <1>0, <1>5 DEF RunStep, RunEnds, RunFails, ReloadComesDue, ReloadBegins, ReloadEnds,
        Crash, CleanUp
  <1>6. CASE StopStep
    BY ZenonT(30), <1>0, <1>6 DEF StopStep, StopCold, StopIdle, ReapLooks, ReapStops, ReapLeaves, StopPi
  <1>7. ASSUME NEW p \in Pis, Release(p) PROVE FlagsOK'
    BY ZenonT(30), <1>0, <1>7 DEF Release
  <1>8. CASE UNCHANGED vars
    BY ZenonT(30), <1>8 DEF vars, moves
  <1> QED
    BY ZenonT(30), <1>1, <1>2, <1>3, <1>4, <1>5, <1>6, <1>7, <1>8 DEF Next, Step

\* Every variable keeps to its values.
LEMMA TypeStep ==
  ASSUME IInv, [Next]_vars
  PROVE  TypeOK'
  <1> USE DEF TypeOK, maps, pis, disk, reqs, rest, Go
  <1> TypeOK /\ EditsLocked /\ PisInPlace
    BY DEF IInv
  <1>0. FlagsOK'
    BY FlagsStep DEF TypeOK
  <1>1. ASSUME NEW c \in Callers, CallerStep(c) PROVE TypeOK'
    <2>1. CASE Arrive(c)
      BY <1>0, <2>1 DEF Arrive
    <2>2. CASE ReloadForPrompt(c)
      BY <1>0, <2>2 DEF ReloadForPrompt
    <2>3. CASE PassGate(c)
      BY <1>0, <2>3 DEF PassGate, Touch
    <2>4. CASE Enter(c)
      BY <1>0, <2>4 DEF Enter, Touch
    <2>5. CASE EnterRefused(c)
      BY <1>0, <2>5, EditFailsMoves DEF EnterRefused, EditsLocked, Locked, Touch
    <2>6. CASE Door(c)
      BY <1>0, <2>6 DEF Door, Lookup
    <2>7. CASE Submit(c)
      BY <1>0, <2>7, SubmitMoves DEF Submit
    <2> QED
      BY <1>1, <2>1, <2>2, <2>3, <2>4, <2>5, <2>6, <2>7 DEF CallerStep
  <1>2. ASSUME NEW e \in Editors, EditStep(e) PROVE TypeOK'
    <2>1. CASE EditBegins(e)
      BY <1>0, <2>1 DEF EditBegins
    <2>2. CASE EditStops(e)
      BY <1>0, <2>2, StopPiMoves DEF EditStops
    <2>3. CASE Rewrite(e)
      BY <1>0, <2>3 DEF Rewrite
    <2>4. CASE EditRefused(e)
      BY <1>0, <2>4 DEF EditRefused
    <2>5. CASE Removed(e)
      BY <1>0, <2>5 DEF Removed
    <2>6. CASE SendReplacement(e)
      BY <1>0, <2>6 DEF SendReplacement
    <2>7. CASE ReplacementEnters(e)
      BY <1>0, <2>7 DEF ReplacementEnters, Lookup, Touch
    <2>8. CASE ReplacementRefused(e)
      BY <1>0, <2>8 DEF ReplacementRefused, EditsStand
    <2>9. CASE SubmitReplacement(e)
      BY <1>0, <2>9 DEF SubmitReplacement, Touch, EditsStand, Sent
    <2>10. CASE UndoStops(e)
      BY <1>0, <2>10, StopPiMoves DEF UndoStops
    <2>11. CASE Restore(e)
      BY <1>0, <2>11 DEF Restore
    <2> QED
      BY <1>2, <2>1, <2>2, <2>3, <2>4, <2>5, <2>6, <2>7, <2>8, <2>9, <2>10, <2>11 DEF EditStep
  <1>3. ASSUME NEW d \in Deleters, DeleteStep(d) PROVE TypeOK'
    <2>1. CASE DeleteBegins(d)
      BY <1>0, <2>1 DEF DeleteBegins
    <2>2. CASE DeleteAborts(d)
      BY <1>0, <2>2 DEF DeleteAborts, WaitForPi
    <2>3. CASE AbortReturns(d) \/ Aborted(d)
      BY <1>0, <2>3 DEF AbortReturns, Aborted, EditsStand
    <2>4. CASE DeleteStops(d)
      BY <1>0, <2>4, StopPiMoves DEF DeleteStops
    <2>5. CASE Deleted(d)
      BY <1>0, <2>5 DEF Deleted
    <2>6. CASE Reopen(d)
      BY <1>0, <2>6 DEF Reopen
    <2> QED
      BY <1>3, <2>1, <2>2, <2>3, <2>4, <2>5, <2>6 DEF DeleteStep
  <1>4. CASE LaunchStep
    <2>1. CASE ServersSettled
      BY <1>0, <2>1 DEF ServersSettled
    <2>2. CASE Create
      BY <1>0, <2>2 DEF Create
    <2>3. CASE CreateRefused
      BY <1>0, <2>3, LaunchFailsMoves DEF CreateRefused, LaunchFails
    <2>4. CASE Created
      BY <1>0, <2>4 DEF Created, PisInPlace
    <2>5. CASE CreateFails
      BY <1>0, <2>5, LaunchFailsMoves DEF CreateFails, LaunchFails
    <2>6. CASE LaunchSettles
      BY <1>0, <2>6 DEF LaunchSettles
    <2> QED
      BY <1>4, <2>1, <2>2, <2>3, <2>4, <2>5, <2>6 DEF LaunchStep
  <1>5. CASE RunStep
    <2>1. CASE RunEnds
      BY <1>0, <2>1 DEF RunEnds, EditsStand
    <2>2. CASE RunFails
      BY <1>0, <2>2, EditFailsMoves DEF RunFails, EditsLocked, Locked, EditsStand
    <2>3. CASE ReloadComesDue
      BY <1>0, <2>3 DEF ReloadComesDue
    <2>4. CASE ReloadBegins
      BY <1>0, <2>4 DEF ReloadBegins
    <2>5. CASE ReloadEnds
      BY <1>0, <2>5 DEF ReloadEnds
    <2>6. CASE Crash
      BY <1>0, <2>6 DEF Crash
    <2>7. CASE CleanUp
      BY <1>0, <2>7 DEF CleanUp
    <2> QED
      BY <1>5, <2>1, <2>2, <2>3, <2>4, <2>5, <2>6, <2>7 DEF RunStep
  <1>6. CASE StopStep
    <2>1. CASE StopCold
      BY <1>0, <2>1 DEF StopCold, WaitForPi
    <2>2. CASE StopIdle
      BY <1>0, <2>2, StopPiMoves DEF StopIdle
    <2>3. CASE ReapLooks
      BY <1>0, <2>3 DEF ReapLooks
    <2>4. CASE ReapStops
      BY <1>0, <2>4, StopPiMoves DEF ReapStops
    <2>5. CASE ReapLeaves
      BY <1>0, <2>5 DEF ReapLeaves
    <2> QED
      BY <1>6, <2>1, <2>2, <2>3, <2>4, <2>5 DEF StopStep
  <1>7. ASSUME NEW p \in Pis, Release(p) PROVE TypeOK'
    BY <1>0, <1>7 DEF Release
  <1>8. CASE UNCHANGED vars
    BY <1>0, <1>8 DEF vars, moves
  <1> QED
    BY <1>1, <1>2, <1>3, <1>4, <1>5, <1>6, <1>7, <1>8 DEF Next, Step

-----------------------------------------------------------------------------
\* Where the pis are is a matter of these variables alone.
LEMMA PisFrame ==
  ASSUME PisInPlace, UNCHANGED <<live, launch, born, after, releasing, pi>>
  PROVE  PisInPlace'
  BY DEF PisInPlace

\* A pi is created only after the last has wound down, and let go before it does.
LEMMA PisStep ==
  ASSUME IInv, [Next]_vars
  PROVE  PisInPlace'
  <1> USE DEF maps, pis, disk, reqs, rest
  <1> TypeOK /\ PisInPlace /\ EditsLocked /\ PisReadTheFile
    BY DEF IInv
  <1>0. TypeOK'
    BY TypeStep
  <1>1. ASSUME NEW c \in Callers, CallerStep(c) PROVE PisInPlace'
    <2>1. CASE Arrive(c) \/ ReloadForPrompt(c) \/ PassGate(c) \/ Enter(c) \/ EnterRefused(c)
        \/ Submit(c)
      BY PisFrame, <2>1 DEF Arrive, ReloadForPrompt, PassGate, Enter, EnterRefused, Submit
    <2>2. CASE Door(c)
      BY DistinctAssumption, <1>0, <2>2 DEF Door, PisInPlace, TypeOK, Lookup
    <2> QED
      BY <1>1, <2>1, <2>2 DEF CallerStep
  <1>2. ASSUME NEW e \in Editors, EditStep(e) PROVE PisInPlace'
    <2>1. CASE EditBegins(e) \/ Rewrite(e) \/ EditRefused(e) \/ Removed(e) \/
        SendReplacement(e) \/ ReplacementRefused(e) \/ SubmitReplacement(e) \/ Restore(e)
      BY PisFrame, <2>1 DEF EditBegins, Rewrite, EditRefused, Removed, SendReplacement,
          ReplacementRefused, SubmitReplacement, Restore
    <2>2. CASE EditStops(e)
      BY DistinctAssumption, StopPiMoves, <1>0, <2>2 DEF EditStops, PisInPlace, TypeOK,
          StopTarget
    <2>3. CASE ReplacementEnters(e)
      BY DistinctAssumption, <1>0, <2>3 DEF ReplacementEnters, PisInPlace, TypeOK, Lookup
    <2>4. CASE UndoStops(e)
      BY DistinctAssumption, StopPiMoves, <1>0, <2>4 DEF UndoStops, PisInPlace, TypeOK,
          StopTarget
    <2> QED
      BY <1>2, <2>1, <2>2, <2>3, <2>4 DEF EditStep
  <1>3. ASSUME NEW d \in Deleters, DeleteStep(d) PROVE PisInPlace'
    <2>1. CASE DeleteBegins(d) \/ DeleteAborts(d) \/ AbortReturns(d) \/ Aborted(d) \/ Deleted(d) \/ Reopen(d)
      BY PisFrame, <2>1 DEF DeleteBegins, DeleteAborts, AbortReturns, Aborted, Deleted, Reopen
    <2>2. CASE DeleteStops(d)
      BY DistinctAssumption, StopPiMoves, <1>0, <2>2 DEF DeleteStops, PisInPlace, TypeOK,
          StopTarget
    <2> QED
      BY <1>3, <2>1, <2>2 DEF DeleteStep
  <1>4. CASE LaunchStep
    <2>1. CASE ServersSettled
      BY DistinctAssumption, <1>0, <2>1 DEF ServersSettled, PisInPlace, TypeOK
    <2>2. CASE Create
      BY DistinctAssumption, <1>0, <2>2 DEF Create, PisInPlace, TypeOK, Released
    <2>3. CASE CreateRefused
      BY DistinctAssumption, <1>0, <2>3 DEF CreateRefused, PisInPlace, TypeOK, LaunchFails
    <2>4. CASE Created
      BY DistinctAssumption, <1>0, <2>4 DEF Created, PisInPlace, TypeOK
    <2>5. CASE CreateFails
      BY DistinctAssumption, <1>0, <2>5 DEF CreateFails, PisInPlace, TypeOK, LaunchFails
    <2>6. CASE LaunchSettles
      BY DistinctAssumption, <1>0, <2>6 DEF LaunchSettles, PisInPlace, TypeOK
    <2> QED
      BY <1>4, <2>1, <2>2, <2>3, <2>4, <2>5, <2>6 DEF LaunchStep
  <1>5. CASE RunStep
    <2>1. CASE RunEnds \/ RunFails \/ ReloadComesDue \/ ReloadBegins \/ ReloadEnds
      BY PisFrame, <2>1 DEF RunEnds, RunFails, ReloadComesDue, ReloadBegins, ReloadEnds
    <2>2. CASE Crash
      BY DistinctAssumption, <1>0, <2>2 DEF Crash, PisInPlace, TypeOK
    <2>3. CASE CleanUp
      BY DistinctAssumption, <1>0, <2>3 DEF CleanUp, PisInPlace, TypeOK
    <2> QED
      BY <1>5, <2>1, <2>2, <2>3 DEF RunStep
  <1>6. CASE StopStep
    <2>1. CASE StopCold \/ ReapLooks \/ ReapLeaves
      BY PisFrame, <2>1 DEF StopCold, ReapLooks, ReapLeaves
    <2>2. CASE StopIdle
      BY DistinctAssumption, StopPiMoves, <1>0, <2>2 DEF StopIdle, PisInPlace, TypeOK,
          StopTarget
    <2>3. CASE ReapStops
      BY DistinctAssumption, StopPiMoves, <1>0, <2>3 DEF ReapStops, PisInPlace, TypeOK,
          StopTarget
    <2> QED
      BY <1>6, <2>1, <2>2, <2>3 DEF StopStep
  <1>7. ASSUME NEW p \in Pis, Release(p) PROVE PisInPlace'
    BY DistinctAssumption, <1>0, <1>7 DEF Release, PisInPlace, TypeOK
  <1>8. CASE UNCHANGED vars
    BY PisFrame, <1>8 DEF vars, moves
  <1> QED
    BY <1>1, <1>2, <1>3, <1>4, <1>5, <1>6, <1>7, <1>8 DEF Next, Step

\* Nor is who holds the lock a matter of more than these.
LEMMA LockFrame ==
  ASSUME EditsLocked, UNCHANGED <<pc, editing, live, launch, releasing, client>>
  PROVE  EditsLocked'
  BY DEF EditsLocked

\* Who is past withEdit holds the lock, and nothing starts a pi while it rewrites.
LEMMA LockStep ==
  ASSUME IInv, [Next]_vars
  PROVE  EditsLocked'
  <1> USE DEF maps, pis, disk, reqs, rest
  <1> TypeOK /\ PisInPlace /\ EditsLocked /\ PisReadTheFile
    BY DEF IInv
  <1>0. TypeOK'
    BY TypeStep
  <1>1. ASSUME NEW c \in Callers, CallerStep(c) PROVE EditsLocked'
    <2>1. CASE Arrive(c)
      BY DistinctAssumption, <1>0, <2>1 DEF Arrive, EditsLocked, Locked, TypeOK, Go
    <2>2. CASE ReloadForPrompt(c)
      BY DistinctAssumption, <1>0, <2>2 DEF ReloadForPrompt, EditsLocked, Locked, TypeOK, Go
    <2>3. CASE PassGate(c)
      BY DistinctAssumption, <1>0, <2>3 DEF PassGate, EditsLocked, Locked, TypeOK, Go
    <2>4. CASE Enter(c)
      BY DistinctAssumption, <1>0, <2>4 DEF Enter, EditsLocked, Locked, TypeOK, Go
    <2>5. CASE EnterRefused(c)
      <3> DEFINE at == [pc EXCEPT ![c] = "done"]
      <3>1. at \in [Requests -> Phases] /\ \A e \in Editors : at[e] = pc[e]
        BY DistinctAssumption DEF TypeOK
      <3>2. EditFails(at, editing # NoOne) /\ UNCHANGED <<live, launch, releasing, client>>
        BY <2>5 DEF EnterRefused
      <3> HIDE DEF at
      <3> QED
        BY <3>1, <3>2, EditFailsMoves DEF EditsLocked
    <2>6. CASE Door(c)
      BY DistinctAssumption, <1>0, <2>6 DEF Door, EditsLocked, Locked, TypeOK, Go, Lookup
    <2>7. CASE Submit(c)
      BY SubmitMoves, DistinctAssumption, <1>0, <2>7 DEF Submit, EditsLocked, Locked, TypeOK
    <2> QED
      BY <1>1, <2>1, <2>2, <2>3, <2>4, <2>5, <2>6, <2>7 DEF CallerStep
  <1>2. ASSUME NEW e \in Editors, EditStep(e) PROVE EditsLocked'
    <2>1. CASE EditBegins(e)
      BY DistinctAssumption, <1>0, <2>1 DEF EditBegins, EditsLocked, Locked, TypeOK, Go
    <2>2. CASE EditStops(e)
      BY DistinctAssumption, <1>0, StopPiMoves, <2>2 DEF EditStops, EditsLocked, Locked,
          TypeOK, Go, StopTarget, PisInPlace
    <2>3. CASE Rewrite(e)
      BY DistinctAssumption, <1>0, <2>3 DEF Rewrite, EditsLocked, Locked, TypeOK, Go
    <2>4. CASE EditRefused(e)
      BY DistinctAssumption, <1>0, <2>4 DEF EditRefused, EditsLocked, Locked, TypeOK, Go
    <2>5. CASE Removed(e)
      BY DistinctAssumption, <1>0, <2>5 DEF Removed, EditsLocked, Locked, TypeOK, Go
    <2>6. CASE SendReplacement(e)
      BY DistinctAssumption, <1>0, <2>6 DEF SendReplacement, EditsLocked, Locked, TypeOK, Go
    <2>7. CASE ReplacementEnters(e)
      BY DistinctAssumption, <1>0, <2>7 DEF ReplacementEnters, EditsLocked, Locked, TypeOK,
          Go, Lookup
    <2>8. CASE ReplacementRefused(e)
      BY DistinctAssumption, <1>0, <2>8 DEF ReplacementRefused, EditsLocked, Locked, TypeOK,
          Go, EditsStand, Sent
    <2>9. CASE SubmitReplacement(e)
      BY DistinctAssumption, <1>0, <2>9 DEF SubmitReplacement, EditsLocked, Locked, TypeOK,
          Go, EditsStand, Sent
    <2>10. CASE UndoStops(e)
      BY DistinctAssumption, <1>0, StopPiMoves, <2>10 DEF UndoStops, EditsLocked, Locked,
          TypeOK, Go, StopTarget, PisInPlace
    <2>11. CASE Restore(e)
      BY DistinctAssumption, <1>0, <2>11 DEF Restore, EditsLocked, Locked, TypeOK, Go
    <2> QED
      BY <1>2, <2>1, <2>2, <2>3, <2>4, <2>5, <2>6, <2>7, <2>8, <2>9, <2>10, <2>11 DEF
          EditStep
  <1>3. ASSUME NEW d \in Deleters, DeleteStep(d) PROVE EditsLocked'
    <2>1. CASE DeleteBegins(d)
      BY DistinctAssumption, <1>0, <2>1 DEF DeleteBegins, EditsLocked, Locked, TypeOK, Go
    <2>2. CASE DeleteAborts(d)
      BY DistinctAssumption, <1>0, <2>2 DEF DeleteAborts, EditsLocked, Locked, TypeOK, Go
    <2>3. CASE AbortReturns(d) \/ Aborted(d)
      BY DistinctAssumption, <1>0, <2>3 DEF AbortReturns, Aborted, EditsLocked, Locked, TypeOK, Go,
          EditsStand, Sent
    <2>4. CASE DeleteStops(d)
      BY DistinctAssumption, <1>0, StopPiMoves, <2>4 DEF DeleteStops, EditsLocked, Locked,
          TypeOK, Go, StopTarget, PisInPlace
    <2>5. CASE Deleted(d)
      BY DistinctAssumption, <1>0, <2>5 DEF Deleted, EditsLocked, Locked, TypeOK, Go
    <2>6. CASE Reopen(d)
      BY DistinctAssumption, <1>0, <2>6 DEF Reopen, EditsLocked, Locked, TypeOK, Go
    <2> QED
      BY <1>3, <2>1, <2>2, <2>3, <2>4, <2>5, <2>6 DEF DeleteStep
  <1>4. CASE LaunchStep
    <2>1. CASE ServersSettled
      BY DistinctAssumption, <1>0, <2>1 DEF ServersSettled, EditsLocked, Locked, TypeOK, Go
    <2>2. CASE Create
      BY DistinctAssumption, <1>0, <2>2 DEF Create, EditsLocked, Locked, TypeOK, Go
    <2>3. CASE CreateRefused
      BY LaunchFailsMoves, DistinctAssumption, <1>0, <2>3 DEF CreateRefused, EditsLocked,
          Locked, TypeOK, LaunchFails
    <2>4. CASE Created
      BY DistinctAssumption, <1>0, <2>4 DEF Created, EditsLocked, Locked, TypeOK, Go,
          PisInPlace
    <2>5. CASE CreateFails
      BY LaunchFailsMoves, DistinctAssumption, <1>0, <2>5 DEF CreateFails, EditsLocked,
          Locked, TypeOK, LaunchFails
    <2>6. CASE LaunchSettles
      BY DistinctAssumption, <1>0, <2>6 DEF LaunchSettles, EditsLocked, Locked, TypeOK, Go
    <2> QED
      BY <1>4, <2>1, <2>2, <2>3, <2>4, <2>5, <2>6 DEF LaunchStep
  <1>5. CASE RunStep
    <2>1. CASE ReloadComesDue \/ CleanUp
      BY LockFrame, <2>1 DEF ReloadComesDue, CleanUp
    <2>2. CASE RunEnds
      BY DistinctAssumption, <1>0, <2>2 DEF RunEnds, EditsLocked, Locked, TypeOK, Go,
          EditsStand, Sent
    <2>3. CASE RunFails
      <3>1. UNCHANGED <<live, launch, releasing, client>>
        BY <2>3 DEF RunFails
      <3>2. CASE EditFails(pc, editing # NoOne)
        BY <3>1, <3>2, EditFailsMoves DEF EditsLocked, TypeOK
      <3>3. CASE editing = NoOne /\ pc' = EditsStand(pc)
        BY <3>1, <3>3, DistinctAssumption DEF EditsLocked, TypeOK, EditsStand, Locked
      <3> QED
        BY Zenon, <2>3, <3>2, <3>3 DEF RunFails
    <2>4. CASE ReloadBegins
      BY DistinctAssumption, <1>0, <2>4 DEF ReloadBegins, EditsLocked, Locked, TypeOK, Go
    <2>5. CASE ReloadEnds
      BY DistinctAssumption, <1>0, <2>5 DEF ReloadEnds, EditsLocked, Locked, TypeOK, Go
    <2>6. CASE Crash
      BY DistinctAssumption, <1>0, <2>6 DEF Crash, EditsLocked, Locked, TypeOK, Go
    <2> QED
      BY <1>5, <2>1, <2>2, <2>3, <2>4, <2>5, <2>6 DEF RunStep
  <1>6. CASE StopStep
    <2>1. CASE StopCold \/ ReapLooks \/ ReapLeaves
      BY LockFrame, <2>1 DEF StopCold, ReapLooks, ReapLeaves
    <2>2. CASE StopIdle
      BY DistinctAssumption, <1>0, StopPiMoves, <2>2 DEF StopIdle, EditsLocked, Locked,
          TypeOK, Go, StopTarget, PisInPlace
    <2>3. CASE ReapStops
      BY DistinctAssumption, <1>0, StopPiMoves, <2>3 DEF ReapStops, EditsLocked, Locked,
          TypeOK, Go, StopTarget, PisInPlace
    <2> QED
      BY <1>6, <2>1, <2>2, <2>3 DEF StopStep
  <1>7. ASSUME NEW p \in Pis, Release(p) PROVE EditsLocked'
    BY DistinctAssumption, <1>0, <1>7 DEF Release, EditsLocked, Locked, TypeOK, Go
  <1>8. CASE UNCHANGED vars
    BY LockFrame, <1>8 DEF vars, moves
  <1> QED
    BY <1>1, <1>2, <1>3, <1>4, <1>5, <1>6, <1>7, <1>8 DEF Next, Step

\* And so is what a pi holds.
LEMMA FileFrame ==
  ASSUME PisReadTheFile, UNCHANGED <<live, launch, born, holds, file>>
  PROVE  PisReadTheFile'
  BY DEF PisReadTheFile

\* A pi reads the file as it is created, and the file changes with none there.
LEMMA FileStep ==
  ASSUME IInv, [Next]_vars
  PROVE  PisReadTheFile'
  <1> USE DEF maps, pis, disk, reqs, rest
  <1> TypeOK /\ PisInPlace /\ EditsLocked /\ PisReadTheFile
    BY DEF IInv
  <1>0. TypeOK'
    BY TypeStep
  <1>1. ASSUME NEW c \in Callers, CallerStep(c) PROVE PisReadTheFile'
    <2>1. CASE Arrive(c) \/ ReloadForPrompt(c) \/ PassGate(c) \/ Enter(c) \/ EnterRefused(c)
        \/ Submit(c)
      BY FileFrame, <2>1 DEF Arrive, ReloadForPrompt, PassGate, Enter, EnterRefused, Submit
    <2>2. CASE Door(c)
      BY DistinctAssumption, <1>0, <2>2 DEF Door, PisReadTheFile, PisInPlace, TypeOK, Lookup
    <2> QED
      BY <1>1, <2>1, <2>2 DEF CallerStep
  <1>2. ASSUME NEW e \in Editors, EditStep(e) PROVE PisReadTheFile'
    <2>1. CASE EditBegins(e) \/ EditRefused(e) \/ Removed(e) \/ SendReplacement(e) \/
        ReplacementRefused(e) \/ SubmitReplacement(e)
      BY FileFrame, <2>1 DEF EditBegins, EditRefused, Removed, SendReplacement,
          ReplacementRefused, SubmitReplacement
    <2>2. CASE EditStops(e)
      BY StopPiMoves, DistinctAssumption, <1>0, <2>2 DEF EditStops, PisReadTheFile,
          PisInPlace, TypeOK
    <2>3. CASE Rewrite(e)
      BY DistinctAssumption, <1>0, <2>3 DEF Rewrite, PisReadTheFile, PisInPlace, TypeOK,
          EditsLocked
    <2>4. CASE ReplacementEnters(e)
      BY DistinctAssumption, <1>0, <2>4 DEF ReplacementEnters, PisReadTheFile, PisInPlace,
          TypeOK, Lookup
    <2>5. CASE UndoStops(e)
      BY StopPiMoves, DistinctAssumption, <1>0, <2>5 DEF UndoStops, PisReadTheFile,
          PisInPlace, TypeOK
    <2>6. CASE Restore(e)
      BY DistinctAssumption, <1>0, <2>6 DEF Restore, PisReadTheFile, PisInPlace, TypeOK,
          EditsLocked
    <2> QED
      BY <1>2, <2>1, <2>2, <2>3, <2>4, <2>5, <2>6 DEF EditStep
  <1>3. ASSUME NEW d \in Deleters, DeleteStep(d) PROVE PisReadTheFile'
    <2>1. CASE DeleteBegins(d) \/ DeleteAborts(d) \/ AbortReturns(d) \/ Aborted(d) \/ Deleted(d) \/ Reopen(d)
      BY FileFrame, <2>1 DEF DeleteBegins, DeleteAborts, AbortReturns, Aborted, Deleted, Reopen
    <2>2. CASE DeleteStops(d)
      BY StopPiMoves, DistinctAssumption, <1>0, <2>2 DEF DeleteStops, PisReadTheFile,
          PisInPlace, TypeOK
    <2> QED
      BY <1>3, <2>1, <2>2 DEF DeleteStep
  <1>4. CASE LaunchStep
    <2>1. CASE ServersSettled
      BY DistinctAssumption, <1>0, <2>1 DEF ServersSettled, PisReadTheFile, PisInPlace,
          TypeOK
    <2>2. CASE Create
      BY DistinctAssumption, <1>0, <2>2 DEF Create, PisReadTheFile, PisInPlace, TypeOK
    <2>3. CASE CreateRefused
      BY DistinctAssumption, <1>0, <2>3 DEF CreateRefused, PisReadTheFile, PisInPlace,
          TypeOK, LaunchFails
    <2>4. CASE Created
      BY DistinctAssumption, <1>0, <2>4 DEF Created, PisReadTheFile, PisInPlace, TypeOK
    <2>5. CASE CreateFails
      BY DistinctAssumption, <1>0, <2>5 DEF CreateFails, PisReadTheFile, PisInPlace, TypeOK,
          LaunchFails
    <2>6. CASE LaunchSettles
      BY DistinctAssumption, <1>0, <2>6 DEF LaunchSettles, PisReadTheFile, PisInPlace,
          TypeOK
    <2> QED
      BY <1>4, <2>1, <2>2, <2>3, <2>4, <2>5, <2>6 DEF LaunchStep
  <1>5. CASE RunStep
    <2>1. CASE RunEnds \/ RunFails \/ ReloadComesDue \/ ReloadBegins \/ ReloadEnds \/
        CleanUp
      BY FileFrame, <2>1 DEF RunEnds, RunFails, ReloadComesDue, ReloadBegins, ReloadEnds,
          CleanUp
    <2>2. CASE Crash
      BY DistinctAssumption, <1>0, <2>2 DEF Crash, PisReadTheFile, PisInPlace, TypeOK
    <2> QED
      BY <1>5, <2>1, <2>2 DEF RunStep
  <1>6. CASE StopStep
    <2>1. CASE StopCold \/ ReapLooks \/ ReapLeaves
      BY FileFrame, <2>1 DEF StopCold, ReapLooks, ReapLeaves
    <2>2. CASE StopIdle
      BY StopPiMoves, DistinctAssumption, <1>0, <2>2 DEF StopIdle, PisReadTheFile,
          PisInPlace, TypeOK
    <2>3. CASE ReapStops
      BY StopPiMoves, DistinctAssumption, <1>0, <2>3 DEF ReapStops, PisReadTheFile,
          PisInPlace, TypeOK
    <2> QED
      BY <1>6, <2>1, <2>2, <2>3 DEF StopStep
  <1>7. ASSUME NEW p \in Pis, Release(p) PROVE PisReadTheFile'
    BY FileFrame, <1>7 DEF Release
  <1>8. CASE UNCHANGED vars
    BY FileFrame, <1>8 DEF vars, moves
  <1> QED
    BY <1>1, <1>2, <1>3, <1>4, <1>5, <1>6, <1>7, <1>8 DEF Next, Step

-----------------------------------------------------------------------------
(* The theorems. *)

\* The three parts together: IInv is kept by every step.
LEMMA IInvStep == IInv /\ [Next]_vars => IInv'
  BY TypeStep, PisStep, LockStep, FileStep DEF IInv

\* IInv holds in every reachable state, whatever the number of prompts, edits,
\* deletes and pis, on the host and in a container.
THEOREM Invariance == Spec => []IInv
  BY InitIInv, IInvStep, PTL DEF Spec

\* Every variable keeps to its values.
THEOREM TypeCorrect == Spec => []TypeOK
  <1>1. IInv => TypeOK
    BY DEF IInv
  <1> QED
    BY <1>1, Invariance, PTL

\* At most one pi at a time has the conversation's file (ensureClient,
\* startClient and release): the one being created, up or winding down is known
\* from `starting`, `live` and `releasing`, which exclude each other.
THEOREM OnePiAtATime == Spec => []OnePi
  <1>1. IInv => OnePi
    BY DistinctAssumption DEF IInv, TypeOK, PisInPlace, OnePi, Alive
  <1> QED
    BY <1>1, Invariance, PTL

\* The pi a chat is answered by holds the conversation its file holds (cut).
THEOREM LivePiIsCurrent == Spec => []LivePiHoldsFile
  <1>1. IInv => LivePiHoldsFile
    BY DEF IInv, PisReadTheFile, LivePiHoldsFile
  <1> QED
    BY <1>1, Invariance, PTL

\* With an edit past its stop, the pi it stopped gone, none is there.
LEMMA NoneIsThere ==
  ASSUME IInv, NEW e \in Editors, pc[e] \in {"stopping", "unstop"}, Released(client[e]),
         NEW p \in Pis
  PROVE  ~Alive(p)
  BY DistinctAssumption DEF IInv, TypeOK, PisInPlace, EditsLocked, Released, Alive

\* The file changes under no pi (cut, and its undo).
THEOREM FileRewrittenAlone == Spec => RewrittenAlone
  <1>1. ASSUME IInv, [Next]_vars, file' # file
        PROVE  \A p \in Pis : ~Alive(p)
    <2> USE DEF maps, pis, disk, reqs, rest
    <2>1. CASE \E e \in Editors : Rewrite(e) \/ Restore(e)
      BY <1>1, <2>1, NoneIsThere DEF Rewrite, Restore
    <2>2. CASE \E c \in Callers : CallerStep(c)
      BY <1>1, <2>2 DEF CallerStep, Arrive, ReloadForPrompt, PassGate, Enter, EnterRefused, Door,
                        Submit, Lookup
    <2>3. CASE \E e \in Editors : EditStep(e)
      BY <1>1, <2>1, <2>3
         DEF EditStep, EditBegins, EditStops, EditRefused, Removed, SendReplacement,
             ReplacementEnters, ReplacementRefused, SubmitReplacement, UndoStops, Lookup
    <2>4. CASE \E d \in Deleters : DeleteStep(d)
      BY <1>1, <2>4
         DEF DeleteStep, DeleteBegins, DeleteAborts, AbortReturns, Aborted, DeleteStops, Deleted, Reopen
    <2>5. CASE LaunchStep \/ \E p \in Pis : Release(p)
      BY <1>1, <2>5
         DEF LaunchStep, ServersSettled, Create, CreateRefused, Created, CreateFails,
             LaunchSettles, Release
    <2>6. CASE RunStep \/ StopStep
      BY <1>1, <2>6
         DEF RunStep, RunEnds, RunFails, ReloadComesDue, ReloadBegins, ReloadEnds, Crash, CleanUp,
             StopStep, StopCold, StopIdle, ReapLooks, ReapStops, ReapLeaves
    <2>7. CASE UNCHANGED vars
      BY <1>1, <2>7 DEF vars, moves
    <2> QED
      BY <1>1, <2>2, <2>3, <2>4, <2>5, <2>6, <2>7 DEF Next, Step
  <1>2. IInv /\ [Next]_vars => [file' # file => \A p \in Pis : ~Alive(p)]_vars
    BY <1>1
  <1> QED
    BY <1>2, Invariance, PTL DEF Spec, RewrittenAlone

-----------------------------------------------------------------------------
(* What is known besides of edits and deletes. *)

\* An edit that has rewritten the file, until it is over.
PastCut == {"cut", "enter", "starting", "using", "sent", "undo", "unstop"}

\* A delete that is under way.
Going == {"settle", "abort", "unsettled", "settle2", "stopping"}

\* The rows and the folder go together, and only a chat that is still there has
\* its folder made (removeFiles, and the look startClient takes at the chat).
RowOK == row = folder

\* An edit whose answer is waited for is settled with the run that was to bring
\* it, and no edit begins before: the chat is marked as running.  A chat in a
\* container has none, for its messages cannot be removed.
SentOK ==
  /\ Sent # {} /\ row => running
  /\ editing \in Editors => Sent = {}
  /\ container => \A e \in Editors : pc[e] \notin PastCut

\* Whoever has rewritten the file and is not over with it was the last to do so.
OwnOK == \A e \in Editors : pc[e] \in PastCut /\ folder => file = e

\* Where a delete can be.
DeletersOK == \A d \in Deleters : pc[d] \in Going \cup {"idle", "done"}

\* What the edits' theorems rest on, besides IInv.
EditInv == DeletersOK /\ RowOK /\ SentOK /\ OwnOK

\* What most steps keep to: no edit gets past its cut, none begins to wait for
\* its answer, and a run or a lock is taken from those that do only as they are
\* settled.
Ordinary ==
  /\ \A e \in Editors : pc'[e] \in PastCut => pc[e] \in PastCut
  /\ \A e \in Editors : pc'[e] = "sent" => pc[e] = "sent"
  /\ \/ \A e \in Editors : pc'[e] # "sent"
     \/ (running => running') /\ (editing' \in Editors => editing \in Editors)
  /\ \A d \in Deleters : pc'[d] \in Going \cup {"idle", "done"}
  /\ UNCHANGED <<row, folder, file, container>>

\* Such a step keeps what is known of edits and deletes.
LEMMA OrdinaryKeeps ==
  ASSUME EditInv, Ordinary
  PROVE  EditInv'
  <1>1. DeletersOK' /\ RowOK' /\ OwnOK'
    BY DEF EditInv, Ordinary, DeletersOK, RowOK, OwnOK
  <1>2. Sent' \subseteq Sent
    BY DEF Ordinary, Sent
  <1>3. Sent' = {} \/ ((running => running') /\ (editing' \in Editors => editing \in Editors))
    BY DEF Ordinary, Sent
  <1>4. container' => \A e \in Editors : pc'[e] \notin PastCut
    BY DEF EditInv, SentOK, Ordinary
  <1>5. row' = row
    BY DEF Ordinary
  <1>6. SentOK'
    BY <1>2, <1>3, <1>4, <1>5 DEF EditInv, SentOK
  <1> QED
    BY <1>1, <1>6 DEF EditInv

\* Nobody's answer is waited for once the edits are settled.
LEMMA StandSettles ==
  ASSUME TypeOK, NEW at \in [Requests -> Phases],
         \A e \in Editors : at[e] = "sent" => pc[e] = "sent", pc' = EditsStand(at)
  PROVE  /\ \A e \in Editors : pc'[e] # "sent" /\ (pc'[e] \in PastCut => pc'[e] = at[e])
         /\ \A d \in Callers \cup Deleters : pc'[d] = at[d]
  BY DistinctAssumption DEF EditsStand, Sent, PastCut

\* Nor once one of them has been given back, or found to stand.
LEMMA FailsSettles ==
  ASSUME TypeOK, NEW at \in [Requests -> Phases], NEW locked,
         \A e \in Editors : at[e] = "sent" => pc[e] = "sent", EditFails(at, locked)
  PROVE  /\ \A e \in Editors : pc'[e] # "sent"
                            /\ (pc'[e] \in PastCut => pc'[e] = at[e] \/ at[e] = "sent")
         /\ \A d \in Callers \cup Deleters : pc'[d] = at[d]
  <1>1. CASE pc' = EditsStand(at)
    BY <1>1, StandSettles
  <1>2. CASE \E e \in Sent : at[e] = "sent" /\ pc' = [EditsStand(at) EXCEPT ![e] = "undo"]
    <2>1. PICK e \in Sent : at[e] = "sent" /\ pc' = [EditsStand(at) EXCEPT ![e] = "undo"]
      BY <1>2
    <2> QED
      BY <2>1, DistinctAssumption DEF EditsStand, Sent, PastCut
  <1> QED
    BY <1>1, <1>2 DEF EditFails, GoesBack

\* One edit at a time holds the lock, and none waits for its answer meanwhile.
LEMMA OthersAreNotPastCut ==
  ASSUME IInv, EditInv, NEW e \in Editors, pc[e] \in Locked, NEW f \in Editors, f # e
  PROVE  pc[f] \notin PastCut
  <1>1. editing = e /\ pc[f] \notin Locked
    BY DEF IInv, EditsLocked
  <1>2. Sent = {}
    BY <1>1 DEF EditInv, SentOK
  <1> QED
    BY <1>1, <1>2 DEF Locked, PastCut, Sent

\* It holds at first.
LEMMA EditInvInit == Init => EditInv
  BY DEF Init, EditInv, DeletersOK, RowOK, SentOK, OwnOK, Sent, PastCut, Going

\* No step takes an edit past its cut but the rewrite of the file.
LEMMA EditInvStep ==
  ASSUME IInv, EditInv, [Next]_vars
  PROVE  EditInv'
  <1> USE DEF maps, pis, disk, reqs, rest, Go
  <1> TypeOK /\ EditsLocked /\ DeletersOK /\ SentOK /\ RowOK
    BY DEF IInv, EditInv
  <1>0. container' = container
    BY DEF Next, vars
  <1> SUFFICES ASSUME ~Ordinary PROVE EditInv'
    BY OrdinaryKeeps
  <1>1. ASSUME NEW c \in Callers, CallerStep(c) PROVE EditInv'
    <2> USE <1>0, DistinctAssumption DEF Ordinary, DeletersOK
    <2>1. CASE Arrive(c)
      BY <2>1 DEF Arrive, TypeOK
    <2>2. CASE ReloadForPrompt(c)
      BY <2>2 DEF ReloadForPrompt, TypeOK
    <2>3. CASE PassGate(c)
      BY <2>3 DEF PassGate, TypeOK
    <2>4. CASE Enter(c)
      BY <2>4 DEF Enter, TypeOK
    <2>5. CASE Door(c)
      BY <2>5 DEF Door, Lookup, TypeOK
    <2> DEFINE at == [pc EXCEPT ![c] = "done"]
    <2>6. /\ at \in [Requests -> Phases]
          /\ \A r \in Editors \cup Deleters : at[r] = pc[r]
      BY DEF TypeOK
    <2>7. CASE EnterRefused(c)
      <3>1. EditFails(at, editing # NoOne) /\ UNCHANGED <<row, folder, file>>
        BY <2>7 DEF EnterRefused
      <3> HIDE DEF at
      <3> QED
        BY <3>1, <2>6, FailsSettles DEF PastCut
    <2>8. CASE Submit(c)
      <3>1. UNCHANGED <<row, folder, file>>
        BY <2>8 DEF Submit
      <3>2. \/ pc' = EditsStand(at)
            \/ pc' = at /\ running' = TRUE /\ UNCHANGED editing
            \/ pc' = at /\ running' = inRun /\ inRun /\ UNCHANGED editing
            \/ EditFails(at, editing # NoOne)
        BY Zenon, <2>8 DEF Submit
      <3> HIDE DEF at
      <3>3. CASE pc' = EditsStand(at)
        BY <3>1, <3>3, <2>6, StandSettles
      <3>4. CASE pc' = at /\ UNCHANGED editing /\ (running => running')
        BY <3>1, <3>4, <2>6
      <3>5. CASE EditFails(at, editing # NoOne)
        BY <3>1, <3>5, <2>6, FailsSettles DEF PastCut
      <3> QED
        BY <3>2, <3>3, <3>4, <3>5
    <2> QED
      BY <1>1, <2>1, <2>2, <2>3, <2>4, <2>5, <2>7, <2>8 DEF CallerStep
  <1>2. ASSUME NEW e \in Editors, EditStep(e) PROVE EditInv'
    <2> USE <1>0, DistinctAssumption
    <2>1. CASE EditBegins(e)
      <3>1. Sent = {}
        BY <2>1 DEF EditBegins, SentOK
      <3> QED
        BY <2>1, <3>1 DEF EditBegins, TypeOK, Ordinary, DeletersOK, PastCut, Sent
    <2>2. CASE EditStops(e)
      BY <2>2 DEF EditStops, TypeOK, Ordinary, DeletersOK, PastCut
    <2>3. CASE Rewrite(e) \/ Restore(e)
      <3>1. \A f \in Editors \ {e} : pc[f] \notin PastCut /\ pc'[f] = pc[f]
        BY <2>3, OthersAreNotPastCut DEF Rewrite, Restore, TypeOK, Locked
      <3>2. pc'[e] \in {"cut", "done"} /\ (pc'[e] = "cut" => ~container /\ file' = IF folder THEN e ELSE file)
        BY <2>3 DEF Rewrite, Restore, TypeOK
      <3>3. Sent' = {}
        BY <3>1, <3>2 DEF Sent, PastCut
      <3>4. UNCHANGED <<row, folder, running>> /\ \A d \in Deleters : pc'[d] = pc[d]
        BY <2>3 DEF Rewrite, Restore, TypeOK
      <3>5. SentOK'
        BY <3>1, <3>2, <3>3 DEF SentOK, PastCut
      <3>6. OwnOK'
        BY <3>1, <3>2, <3>4 DEF OwnOK, PastCut
      <3> QED
        BY <3>4, <3>5, <3>6 DEF EditInv, DeletersOK, RowOK
    <2>4. CASE EditRefused(e) \/ Removed(e)
      BY <2>4 DEF EditRefused, Removed, TypeOK, Ordinary, DeletersOK, PastCut
    <2>5. CASE SendReplacement(e)
      BY <2>5 DEF SendReplacement, TypeOK, Ordinary, DeletersOK, PastCut
    <2>6. CASE ReplacementEnters(e)
      BY <2>6 DEF ReplacementEnters, Lookup, TypeOK, Ordinary, DeletersOK, PastCut
    <2> DEFINE gone == [pc EXCEPT ![e] = "undo"]
    <2> DEFINE over == [pc EXCEPT ![e] = "done"]
    <2>7. /\ gone \in [Requests -> Phases] /\ over \in [Requests -> Phases]
          /\ \A r \in Requests \ {e} : gone[r] = pc[r] /\ over[r] = pc[r]
          /\ gone[e] = "undo" /\ over[e] = "done"
      BY DEF TypeOK
    <2>8. CASE ReplacementRefused(e)
      <3>1. pc' = EditsStand(gone) /\ pc[e] = "enter" /\ UNCHANGED <<row, folder, file>>
        BY <2>8 DEF ReplacementRefused
      <3> HIDE DEF gone
      <3> QED
        BY <2>7, <3>1, StandSettles DEF Ordinary, DeletersOK, PastCut
    <2>9. CASE SubmitReplacement(e)
      <3>1. /\ UNCHANGED <<row, folder, file>> /\ pc[e] = "using"
            /\ \/ pc' = EditsStand(over) \/ pc' = EditsStand(gone)
               \/ Go(e, "sent") /\ editing' = NoOne /\ running' = TRUE
        BY Zenon, <2>9 DEF SubmitReplacement
      <3> HIDE DEF gone, over
      <3>2. CASE pc' = EditsStand(over) \/ pc' = EditsStand(gone)
        BY <2>7, <3>1, <3>2, StandSettles DEF Ordinary, DeletersOK, PastCut
      <3>3. CASE Go(e, "sent") /\ editing' = NoOne /\ running' = TRUE
        <4>1. \A r \in Requests \ {e} : pc'[r] = pc[r]
          BY <3>3 DEF TypeOK
        <4>2. pc[e] \in PastCut /\ \A f \in Editors \ {e} : pc[f] \notin PastCut
          BY <3>1, OthersAreNotPastCut DEF Locked, PastCut
        <4>3. SentOK'
          BY <3>3, <4>1, <4>2 DEF SentOK
        <4> QED
          BY <3>1, <3>3, <4>1, <4>2, <4>3 DEF EditInv, OwnOK, DeletersOK, RowOK
      <3> QED
        BY <3>1, <3>2, <3>3
    <2>10. CASE UndoStops(e)
      BY <2>10 DEF UndoStops, TypeOK, Ordinary, DeletersOK, PastCut
    <2> QED
      BY <1>2, <2>1, <2>2, <2>3, <2>4, <2>5, <2>6, <2>8, <2>9, <2>10 DEF EditStep
  <1>3. ASSUME NEW d \in Deleters, DeleteStep(d) PROVE EditInv'
    <2> USE <1>0, DistinctAssumption
    <2>1. CASE DeleteBegins(d) \/ DeleteAborts(d) \/ AbortReturns(d) \/ DeleteStops(d) \/ Reopen(d)
      BY <2>1 DEF DeleteBegins, DeleteAborts, AbortReturns, DeleteStops, Reopen, TypeOK, Ordinary, DeletersOK, Going
    <2>2. CASE Aborted(d)
      <3> DEFINE at == [pc EXCEPT ![d] = "settle2"]
      <3>1. /\ at \in [Requests -> Phases]
            /\ \A r \in Requests \ {d} : at[r] = pc[r]
            /\ at[d] = "settle2"
        BY DEF TypeOK
      <3>2. pc' = EditsStand(at) /\ UNCHANGED <<row, folder, file>>
        BY <2>2 DEF Aborted
      <3> HIDE DEF at
      <3> QED
        BY <3>1, <3>2, StandSettles DEF Ordinary, DeletersOK, Going
    <2>3. CASE Deleted(d)
      <3>1. ~row' /\ ~folder' /\ UNCHANGED editing /\ \A r \in Requests \ {d} : pc'[r] = pc[r]
        BY <2>3 DEF Deleted, TypeOK
      <3>2. pc'[d] = "done"
        BY <2>3 DEF Deleted, TypeOK
      <3>3. Sent' = Sent
        BY <3>1 DEF Sent
      <3>4. SentOK'
        BY <3>1, <3>3 DEF SentOK
      <3> QED
        BY <2>3, <3>1, <3>2, <3>4 DEF EditInv, DeletersOK, RowOK, OwnOK, Deleted
    <2> QED
      BY <1>3, <2>1, <2>2, <2>3 DEF DeleteStep
  <1>4. CASE LaunchStep
    <2> USE <1>0, DistinctAssumption DEF Ordinary, DeletersOK
    <2>1. CASE ServersSettled \/ Created
      BY <2>1 DEF ServersSettled, Created
    <2>2. CASE Create
      <3>1. UNCHANGED <<pc, running, editing, row, folder, file>>
        BY <2>2 DEF Create, RowOK, TypeOK, FlagsOK
      <3> QED
        BY <3>1
    <2>3. CASE CreateRefused \/ CreateFails
      <3> DEFINE at == [r \in Requests |->
                         IF pc[r] # "starting" THEN pc[r] ELSE IF r \in Editors THEN "undo" ELSE "done"]
      <3>1. at \in [Requests -> Phases]
        BY DEF TypeOK
      <3>2. /\ \A r \in Editors : at[r] = "sent" => pc[r] = "sent"
            /\ \A r \in Editors : at[r] \in PastCut => pc[r] \in PastCut
            /\ \A d \in Deleters : at[d] \in {pc[d], "done"}
        BY DEF PastCut
      <3>3. EditFails(at, editing # NoOne) /\ UNCHANGED <<row, folder, file>>
        BY <2>3 DEF CreateRefused, CreateFails, LaunchFails
      <3> HIDE DEF at
      <3> QED
        BY <3>1, <3>2, <3>3, FailsSettles DEF PastCut
    <2>4. CASE LaunchSettles
      BY <2>4 DEF LaunchSettles, TypeOK, PastCut, Going
    <2> QED
      BY <1>4, <2>1, <2>2, <2>3, <2>4 DEF LaunchStep
  <1>5. CASE RunStep
    <2> USE <1>0, DistinctAssumption DEF Ordinary, DeletersOK
    <2>1. CASE ReloadComesDue \/ ReloadBegins \/ ReloadEnds \/ CleanUp
      BY <2>1 DEF ReloadComesDue, ReloadBegins, ReloadEnds, CleanUp
    <2>2. CASE RunEnds
      <3>1. pc' = EditsStand(pc) /\ UNCHANGED <<row, folder, file>> /\ pc \in [Requests -> Phases]
        BY <2>2 DEF RunEnds, TypeOK
      <3> QED
        BY <3>1, StandSettles
    <2>3. CASE RunFails
      <3>1. /\ UNCHANGED <<row, folder, file>> /\ pc \in [Requests -> Phases]
            /\ pc' = EditsStand(pc) \/ EditFails(pc, editing # NoOne)
        BY <2>3 DEF RunFails, TypeOK
      <3> QED
        BY <3>1, StandSettles, FailsSettles DEF PastCut
    <2>4. CASE Crash
      <3>1. \A e \in Editors : pc'[e] # "sent"
        BY <2>4 DEF Crash, SentOK, PastCut
      <3> QED
        BY <2>4, <3>1 DEF Crash
    <2> QED
      BY <1>5, <2>1, <2>2, <2>3, <2>4 DEF RunStep
  <1>6. CASE StopStep \/ \E p \in Pis : Release(p)
    BY <1>0, <1>6 DEF StopStep, StopCold, StopIdle, ReapLooks, ReapStops, ReapLeaves, Release,
                      Ordinary, DeletersOK
  <1>7. CASE UNCHANGED vars
    BY <1>7 DEF vars, moves, Ordinary, DeletersOK
  <1> QED
    BY <1>1, <1>2, <1>3, <1>4, <1>5, <1>6, <1>7 DEF Next, Step

\* What is known of edits and deletes holds in every reachable state.
LEMMA EditInvariance == Spec => []EditInv
  BY EditInvInit, EditInvStep, Invariance, PTL DEF Spec
-----------------------------------------------------------------------------
\* An edit that goes back puts back what it replaced itself (settleEdit, undo):
\* no edit begins while another's answer is waited for, and one that is past its
\* cut otherwise holds the lock.
THEOREM UndoneIsOwn == Spec => UndoesItsOwn
  <1>1. EditInv => [\A e \in Editors : pc[e] = "unstop" /\ pc'[e] = "done" /\ folder => file = e]_vars
    BY DEF EditInv, OwnOK, PastCut
  <1> QED
    BY <1>1, EditInvariance, PTL DEF UndoesItsOwn

\* The reaper never stops a pi that a request has been given (reapIdle): what it
\* reads after its look at the jobs tells of every prompt and, by the lock, of
\* every edit.
THEOREM UseIsSpared == Spec => ReaperSparesUse
  <1> DEFINE Spares == reaper # NoPi /\ reaper' = NoPi /\ live' # live =>
                         \A r \in Requests : pc[r] = "using" => client[r] # live
  <1>1. ASSUME IInv, EditInv, [Next]_vars PROVE [Spares]_vars
    <2> USE DEF maps, pis, disk, reqs, rest
    <2>1. CASE ReapStops
      <3>1. ~Prompting(pc) /\ editing = NoOne
        BY <2>1 DEF ReapStops, InUse
      <3>2. \A c \in Callers : pc[c] # "using"
        BY <3>1 DEF Prompting, Busy
      <3>3. \A e \in Editors : pc[e] # "using"
        BY <1>1, <3>1, DistinctAssumption DEF IInv, EditsLocked, Locked
      <3>4. \A d \in Deleters : pc[d] # "using"
        BY <1>1 DEF EditInv, DeletersOK, Going
      <3> QED
        BY <3>2, <3>3, <3>4
    <2>2. CASE ReapLooks \/ ReapLeaves \/ StopCold \/ StopIdle
      BY <2>2 DEF ReapLooks, ReapLeaves, StopCold, StopIdle
    <2>3. CASE \E c \in Callers : CallerStep(c)
      BY <2>3 DEF CallerStep, Arrive, ReloadForPrompt, PassGate, Enter, EnterRefused, Door, Submit, Lookup
    <2>4. CASE \E e \in Editors : EditStep(e)
      BY <2>4 DEF EditStep, EditBegins, EditStops, Rewrite, EditRefused, Removed, SendReplacement,
                  ReplacementEnters, ReplacementRefused, SubmitReplacement, UndoStops, Restore, Lookup
    <2>5. CASE \E d \in Deleters : DeleteStep(d)
      BY <2>5 DEF DeleteStep, DeleteBegins, DeleteAborts, AbortReturns, Aborted, DeleteStops, Deleted, Reopen
    <2>6. CASE LaunchStep \/ \E p \in Pis : Release(p)
      BY <2>6 DEF LaunchStep, ServersSettled, Create, CreateRefused, Created, CreateFails,
                  LaunchSettles, Release
    <2>7. CASE RunStep
      BY <2>7 DEF RunStep, RunEnds, RunFails, ReloadComesDue, ReloadBegins, ReloadEnds, Crash, CleanUp
    <2>8. CASE UNCHANGED vars
      BY <2>8
    <2> QED
      BY <1>1, <2>1, <2>2, <2>3, <2>4, <2>5, <2>6, <2>7, <2>8 DEF Next, Step, StopStep
  <1>2. IInv /\ EditInv /\ [Next]_vars => [Spares]_vars
    BY <1>1
  <1> QED
    BY <1>2, Invariance, EditInvariance, PTL DEF Spec, ReaperSparesUse

-----------------------------------------------------------------------------
(* A chat that is deleted.  Two deletes of it at a time share its mark, which
   the one that fails takes away from the other, and a launch can then outlive
   the delete (PiLifecycle_twodeletes.cfg).  With one at a time none does.     *)

\* No two deletes of the chat are under way at once.
OneDelete == \A d, f \in Deleters : pc[d] \in Going /\ pc[f] \in Going => d = f

\* No pi is there, none is being created, and the one being let go is at most p.
NoneBut(p) == live = NoPi /\ launch \in {"none", "servers", "wind"} /\ releasing \in {NoPi, p}

\* The mark is there for as long as the delete is, and from the moment it stops
\* pi until the chat is gone, and then for good, nothing creates another.
DeleteOK ==
  /\ discarding <=> \E d \in Deleters : pc[d] \in Going
  /\ \A d \in Deleters : pc[d] = "stopping" => NoneBut(client[d])
  /\ ~row => NoneBut(NoPi)

\* No step but a launch that goes on makes for a pi where there is none.
Barren ==
  \/ UNCHANGED <<live, launch, releasing>>
  \/ /\ live' = live /\ (launch' = launch \/ launch' \in {"none", "servers", "wind"})
     /\ releasing' \in {releasing, NoPi}
  \/ live # NoPi
  \/ launch \notin {"none", "servers", "wind"}

\* Such a step leaves none where there was none.
LEMMA BarrenKeeps ==
  ASSUME DeleteOK, Barren, NEW p, NoneBut(p)
  PROVE  live' = NoPi /\ launch' \in {"none", "servers", "wind"} /\ releasing' \in {NoPi, p}
  BY DEF Barren, NoneBut

\* A step in which no delete begins or ends, or moves on to stop pi.
LEMMA OthersKeepDelete ==
  ASSUME DeleteOK, Barren, UNCHANGED <<discarding, row>>,
         \A d \in Deleters : /\ pc'[d] \in Going <=> pc[d] \in Going
                             /\ pc'[d] = "stopping" => pc[d] = "stopping" /\ client'[d] = client[d]
  PROVE  DeleteOK'
  <1>1. discarding' <=> \E d \in Deleters : pc'[d] \in Going
    BY DEF DeleteOK
  <1>2. ASSUME NEW d \in Deleters, pc'[d] = "stopping" PROVE NoneBut(client[d])'
    BY <1>2, BarrenKeeps DEF DeleteOK, NoneBut
  <1>3. ~row' => NoneBut(NoPi)'
    BY BarrenKeeps DEF DeleteOK, NoneBut
  <1> QED
    BY <1>1, <1>2, <1>3 DEF DeleteOK

\* With no delete begun there is nothing to keep to.
LEMMA DeleteInit == Init => DeleteOK
  BY DEF Init, DeleteOK, Going

\* What a delete does while no other is under way.
LEMMA DeleteStepKeeps ==
  ASSUME IInv, EditInv, DeleteOK, OneDelete, OneDelete', NEW d \in Deleters, DeleteStep(d)
  PROVE  DeleteOK'
  <1> USE DistinctAssumption DEF maps, pis, disk, reqs, rest, Go
  <1> TypeOK /\ PisInPlace
    BY DEF IInv
  <1>1. CASE DeleteBegins(d)
    <2>1. discarding' /\ row' /\ pc' = [pc EXCEPT ![d] = "settle"] /\ UNCHANGED <<live, launch, releasing, client>>
      BY <1>1 DEF DeleteBegins
    <2>2. pc'[d] \in Going /\ \A f \in Deleters : pc'[f] = "stopping" => pc[f] = "stopping"
      BY <2>1 DEF TypeOK, Going
    <2> QED
      BY <2>1, <2>2 DEF DeleteOK, NoneBut
  <1>2. CASE DeleteAborts(d) \/ AbortReturns(d)
    <2>1. pc[d] \in Going /\ pc'[d] \in Going \ {"stopping"} /\ \A f \in Deleters \ {d} : pc'[f] = pc[f]
      BY <1>2 DEF DeleteAborts, AbortReturns, TypeOK, Going
    <2> QED
      BY <1>2, <2>1, OthersKeepDelete DEF DeleteAborts, AbortReturns, Barren
  <1>3. CASE Aborted(d)
    <2> DEFINE at == [pc EXCEPT ![d] = "settle2"]
    <2>1. /\ at \in [Requests -> Phases] /\ \A r \in Requests \ {d} : at[r] = pc[r]
          /\ at[d] = "settle2" /\ pc[d] = "unsettled"
      BY <1>3 DEF Aborted, TypeOK
    <2>2. pc' = EditsStand(at) /\ UNCHANGED <<row, discarding, client, live, launch, releasing>>
      BY <1>3 DEF Aborted
    <2> HIDE DEF at
    <2>3. \A f \in Deleters : pc'[f] = at[f]
      BY <2>1, <2>2, StandSettles
    <2> QED
      BY <2>1, <2>2, <2>3, OthersKeepDelete DEF Barren, Going
  <1>4. CASE DeleteStops(d)
    <2>1. /\ StopPi /\ launch = "none" /\ launch' = "none" /\ UNCHANGED <<discarding, row>>
          /\ client' = [client EXCEPT ![d] = StopTarget] /\ pc' = [pc EXCEPT ![d] = "stopping"]
          /\ pc[d] = "settle2"
      BY <1>4 DEF DeleteStops
    <2>2. live' = NoPi /\ releasing' = StopTarget
      BY <2>1, StopPiMoves
    <2>3. pc'[d] = "stopping" /\ client'[d] = StopTarget /\ \A f \in Deleters \ {d} : pc'[f] = pc[f]
      BY <2>1 DEF TypeOK
    <2>4. \A f \in Deleters : pc'[f] = "stopping" => f = d
      BY <2>3 DEF OneDelete, Going
    <2>5. ~row' => NoneBut(NoPi)'
      BY <2>1, <2>2 DEF DeleteOK, NoneBut, StopTarget
    <2>6. \A f \in Deleters : pc'[f] = "stopping" => NoneBut(client[f])'
      BY <2>1, <2>2, <2>3, <2>4 DEF NoneBut
    <2>7. discarding' <=> \E f \in Deleters : pc'[f] \in Going
      BY <2>1, <2>3 DEF DeleteOK, Going
    <2> QED
      BY <2>5, <2>6, <2>7 DEF DeleteOK
  <1>5. CASE Deleted(d) \/ Reopen(d)
    <2>1. /\ pc[d] = "stopping" /\ Released(client[d]) /\ discarding' = FALSE
          /\ pc' = [pc EXCEPT ![d] = "done"] /\ row' \in {row, FALSE}
          /\ UNCHANGED <<live, launch, releasing, client>>
      BY <1>5 DEF Deleted, Reopen
    <2>2. pc'[d] = "done" /\ \A f \in Deleters \ {d} : pc'[f] = pc[f]
      BY <2>1 DEF TypeOK
    <2>3. \A f \in Deleters : pc'[f] \notin Going
      BY <2>1, <2>2 DEF OneDelete, Going
    <2>4. NoneBut(client[d])
      BY <2>1 DEF DeleteOK
    <2>5. releasing = NoPi
      BY <2>1, <2>4 DEF NoneBut, Released, PisInPlace, TypeOK
    <2>6. NoneBut(NoPi)'
      BY <2>1, <2>4, <2>5 DEF NoneBut
    <2>7. \A f \in Deleters : pc'[f] # "stopping"
      BY <2>3 DEF Going
    <2> QED
      BY <2>1, <2>3, <2>6, <2>7 DEF DeleteOK
  <1> QED
    BY <1>1, <1>2, <1>3, <1>4, <1>5 DEF DeleteStep

\* No step of anyone makes for a pi that a delete has not waited for.
LEMMA DeleteOKStep ==
  ASSUME IInv, EditInv, DeleteOK, OneDelete, OneDelete', [Next]_vars
  PROVE  DeleteOK'
  <1> USE DistinctAssumption DEF maps, pis, disk, reqs, rest, Go
  <1> TypeOK /\ PisInPlace /\ DeletersOK
    BY DEF IInv, EditInv
  <1>1. ASSUME NEW c \in Callers, CallerStep(c) PROVE DeleteOK'
    <2>1. UNCHANGED <<discarding, row>> /\ \A d \in Deleters : client'[d] = client[d]
      BY <1>1 DEF CallerStep, Arrive, ReloadForPrompt, PassGate, Enter, EnterRefused, Door, Submit,
                  Lookup, TypeOK
    <2>2. Barren
      BY <1>1 DEF CallerStep, Arrive, ReloadForPrompt, PassGate, Enter, EnterRefused, Door, Submit,
                  Lookup, Barren
    <2> DEFINE at == [pc EXCEPT ![c] = "done"]
    <2>3. /\ at \in [Requests -> Phases]
          /\ \A r \in Editors \cup Deleters : at[r] = pc[r]
      BY DEF TypeOK
    <2>4. \/ \E phase \in Phases : pc' = [pc EXCEPT ![c] = phase]
          \/ pc' = EditsStand(at) \/ EditFails(at, editing # NoOne)
      BY <1>1 DEF CallerStep, Arrive, ReloadForPrompt, PassGate, Enter, EnterRefused, Door, Submit, Lookup
    <2> HIDE DEF at
    <2>5. \A d \in Deleters : pc'[d] = pc[d]
      <3>1. CASE pc' = EditsStand(at) \/ EditFails(at, editing # NoOne)
        BY <2>3, <3>1, StandSettles, FailsSettles
      <3>2. CASE \E phase \in Phases : pc' = [pc EXCEPT ![c] = phase]
        BY <3>2 DEF TypeOK
      <3> QED
        BY <2>4, <3>1, <3>2
    <2> QED
      BY <2>1, <2>2, <2>5, OthersKeepDelete
  <1>2. ASSUME NEW e \in Editors, EditStep(e) PROVE DeleteOK'
    <2>1. UNCHANGED <<discarding, row>> /\ \A d \in Deleters : client'[d] = client[d]
      BY <1>2 DEF EditStep, EditBegins, EditStops, Rewrite, EditRefused, Removed, SendReplacement,
                  ReplacementEnters, ReplacementRefused, SubmitReplacement, UndoStops, Restore, Lookup, TypeOK
    <2>2. Barren
      BY <1>2 DEF EditStep, EditBegins, EditStops, Rewrite, EditRefused, Removed, SendReplacement,
                  ReplacementEnters, ReplacementRefused, SubmitReplacement, UndoStops, Restore, Lookup,
                  StopPi, Barren
    <2> DEFINE gone == [pc EXCEPT ![e] = "undo"]
    <2> DEFINE over == [pc EXCEPT ![e] = "done"]
    <2>3. /\ gone \in [Requests -> Phases] /\ over \in [Requests -> Phases]
          /\ \A r \in Requests \ {e} : gone[r] = pc[r] /\ over[r] = pc[r]
          /\ gone[e] = "undo" /\ over[e] = "done"
      BY DEF TypeOK
    <2>4. \/ \E phase \in Phases : pc' = [pc EXCEPT ![e] = phase]
          \/ pc' = EditsStand(gone) \/ pc' = EditsStand(over)
      BY <1>2 DEF EditStep, EditBegins, EditStops, Rewrite, EditRefused, Removed, SendReplacement,
                  ReplacementEnters, ReplacementRefused, SubmitReplacement, UndoStops, Restore, Lookup
    <2> HIDE DEF gone, over
    <2>5. \A d \in Deleters : pc'[d] = pc[d]
      <3>1. CASE pc' = EditsStand(gone) \/ pc' = EditsStand(over)
        BY <2>3, <3>1, StandSettles
      <3>2. CASE \E phase \in Phases : pc' = [pc EXCEPT ![e] = phase]
        BY <3>2 DEF TypeOK
      <3> QED
        BY <2>4, <3>1, <3>2
    <2> QED
      BY <2>1, <2>2, <2>5, OthersKeepDelete
  <1>3. ASSUME NEW d \in Deleters, DeleteStep(d) PROVE DeleteOK'
    BY <1>3, DeleteStepKeeps
  <1>4. CASE LaunchStep
    <2>1. CASE ServersSettled
      BY <2>1, OthersKeepDelete DEF ServersSettled, Barren
    <2>2. CASE Create
      <3>1. /\ ~discarding /\ row /\ row' = row /\ discarding' = discarding /\ UNCHANGED pc
        BY <2>2 DEF Create
      <3>2. \A d \in Deleters : pc[d] \notin Going
        BY <3>1 DEF DeleteOK
      <3> QED
        BY <3>1, <3>2 DEF DeleteOK, Going
    <2>3. CASE CreateRefused \/ CreateFails
      <3> DEFINE at == [r \in Requests |->
                         IF pc[r] # "starting" THEN pc[r] ELSE IF r \in Editors THEN "undo" ELSE "done"]
      <3>1. at \in [Requests -> Phases]
        BY DEF TypeOK
      <3>2. /\ \A r \in Editors : at[r] = "sent" => pc[r] = "sent"
            /\ \A d \in Deleters : at[d] = pc[d]
        BY DEF DeletersOK, Going
      <3>3. EditFails(at, editing # NoOne) /\ UNCHANGED <<row, discarding, client>>
        BY <2>3 DEF CreateRefused, CreateFails, LaunchFails
      <3>4. Barren
        BY <2>3 DEF CreateRefused, CreateFails, LaunchFails, Barren
      <3> HIDE DEF at
      <3>5. \A d \in Deleters : pc'[d] = pc[d]
        BY <3>1, <3>2, <3>3, FailsSettles
      <3> QED
        BY <3>3, <3>4, <3>5, OthersKeepDelete
    <2>4. CASE Created
      BY <2>4, OthersKeepDelete DEF Created, Barren
    <2>5. CASE LaunchSettles
      <3>1. \A d \in Deleters : pc'[d] = pc[d] /\ client'[d] = client[d]
        BY <2>5 DEF LaunchSettles, TypeOK, DeletersOK, Going
      <3> QED
        BY <2>5, <3>1, OthersKeepDelete DEF LaunchSettles, Barren
    <2> QED
      BY <1>4, <2>1, <2>2, <2>3, <2>4, <2>5 DEF LaunchStep
  <1>5. CASE RunStep
    <2>1. UNCHANGED <<discarding, row, client>> /\ Barren
      BY <1>5 DEF RunStep, RunEnds, RunFails, ReloadComesDue, ReloadBegins, ReloadEnds, Crash, CleanUp, Barren
    <2>2. pc' = pc \/ pc' = EditsStand(pc) \/ EditFails(pc, editing # NoOne)
      BY <1>5 DEF RunStep, RunEnds, RunFails, ReloadComesDue, ReloadBegins, ReloadEnds, Crash, CleanUp
    <2>3. \A d \in Deleters : pc'[d] = pc[d]
      BY <2>2, StandSettles, FailsSettles DEF TypeOK
    <2> QED
      BY <2>1, <2>3, OthersKeepDelete
  <1>6. CASE StopStep \/ \E p \in Pis : Release(p)
    <2>1. UNCHANGED <<discarding, row, pc, client>> /\ Barren
      BY <1>6 DEF StopStep, StopCold, StopIdle, ReapLooks, ReapStops, ReapLeaves, StopPi, Release, Barren
    <2> QED
      BY <2>1, OthersKeepDelete
  <1>7. CASE UNCHANGED vars
    BY <1>7, OthersKeepDelete DEF vars, moves, Barren
  <1> QED
    BY <1>1, <1>2, <1>3, <1>4, <1>5, <1>6, <1>7 DEF Next, Step

\* Once a chat is deleted no pi of it is up or being launched, and nothing has
\* made its folder again (discard, startClient), where no two deletes of it are
\* under way at once.
THEOREM DeletedForGood == Spec /\ []OneDelete => []NoPiOutlivesChat
  <1>1. IInv /\ EditInv /\ DeleteOK /\ OneDelete /\ OneDelete' /\ [Next]_vars => DeleteOK'
    BY DeleteOKStep
  <1>2. ASSUME IInv, EditInv, DeleteOK PROVE NoPiOutlivesChat
    <2>1. ASSUME ~row PROVE live = NoPi /\ launch # "created" /\ releasing = NoPi /\ ~folder
      BY <1>2, <2>1 DEF DeleteOK, NoneBut, EditInv, RowOK
    <2>2. ASSUME ~row, NEW p \in Pis PROVE ~Alive(p)
      BY <1>2, <2>1, <2>2, DistinctAssumption DEF Alive, IInv, PisInPlace
    <2> QED
      BY <2>1, <2>2 DEF NoPiOutlivesChat
  <1>3. IInv /\ EditInv /\ DeleteOK => NoPiOutlivesChat
    BY <1>2
  <1> QED
    BY <1>1, <1>3, DeleteInit, Invariance, EditInvariance, PTL DEF Spec

=============================================================================
