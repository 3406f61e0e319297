---------------------------- MODULE RestartProofs ----------------------------
(* That the chat says it was cut off exactly when its last run was, and what it says of
   its messages is true but for others in the same words, for any number of messages,
   words, crashes and stops of the portal. *)
EXTENDS Restart, TLAPS, FiniteSetTheorems, WellFoundedInduction

Off == server \in {"down", "starting", "settling"}

\* While the portal listens: the chat is shown as running exactly when a run of a
\* message that is not still waiting goes on, and a run or what waits is of this life.
UpOK ==
  /\ status = "running" <=> BeingAnswered
  /\ run # "none" \/ settled \/ waiting # {} => ~cut
  /\ ~overtaken => (status = "interrupted" <=> cut)
  /\ run # "aborted"
  /\ run = "preflight" => said = {} /\ ~settled
  /\ settled => run = "none"
  /\ said # {} => run = "going" \/ settled
  /\ run # "going" => queue = {}

\* A waiting message that began the run was the first that pi was handed, and will be
\* the first it is heard to have taken in.
OrderOK ==
  /\ waiting \cup handed \cup {own} \subseteq 0..Len(rows)
  /\ \A i \in waiting \cap handed, j \in waiting \ handed : i < j
  /\ own \in waiting /\ (run # "none" \/ settled) =>
       own \in handed /\ \A j \in queue \cup said : own <= j
  /\ own \in waiting /\ (run = "going" \/ settled) => own \in said

\* A stop of the portal goes on: the run it aborts is one that is shown, and stays so.
ClosingOK ==
  /\ status = "running" /\ ~settled
  /\ run \in {"preflight", "going"} /\ own \notin waiting

StoppingOK == cut /\ (overtaken \/ status = "running")

\* The portal is down or starts: nothing is in memory, and the database tells.
OffOK ==
  /\ run = "none" /\ ~settled /\ said = {} /\ queue = {} /\ waiting = {} /\ handed = {} /\ own = 0
  /\ overtaken \/ (status \in {"running", "interrupted"} <=> cut)
  /\ server # "down" => status # "running"

\* Who is about to begin a run is a message.
OwnOK == run = "preflight" => own \in Ids

IInv ==
  /\ TypeOK /\ OwnOK
  /\ server = "up"       => UpOK /\ OrderOK
  /\ server = "closing"  => ClosingOK
  /\ server = "stopping" => StoppingOK
  /\ Off                 => OffOK
-----------------------------------------------------------------------------
(* The helpers. *)

Row == [words : Words, queued : BOOLEAN, mark : Marks]

\* First picks a least element: the finite sets of numbers up to one of S are well
\* founded under inclusion.
LEMMA FirstIsLeast ==
  ASSUME NEW S \in SUBSET Nat, S # {}
  PROVE  First(S) \in S /\ \A j \in S : First(S) <= j
<1> DEFINE Upto(x) == {y \in S : y <= x}
           Family  == {Upto(x) : x \in S}
           Order   == StrictSubsetOrdering(S)
<1>1. Family \subseteq FiniteSubsetsOf(S) /\ Family # {}
  <2>1. ASSUME NEW x \in S  PROVE IsFiniteSet(Upto(x))
    <3>1. Upto(x) \in SUBSET Nat /\ x \in Nat /\ \A y \in Upto(x) : y <= x
      OBVIOUS
    <3> QED BY ONLY <3>1, FS_BoundedSetOfNaturals
  <2> QED BY <2>1 DEF FiniteSubsetsOf
<1>2. \E U \in Family : \A V \in Family : <<V, U>> \notin Order
  <2>1. IsWellFoundedOn(Order, FiniteSubsetsOf(S))
    BY FS_StrictSubsetOrderingWellFounded
  <2> HIDE DEF Family, Order
  <2> QED BY <1>1, <2>1, WFMin
<1>3. PICK x \in S : \A y \in S : <<Upto(y), Upto(x)>> \notin Order
  BY <1>2
<1>4. ASSUME NEW y \in S  PROVE x <= y
  <2>1. SUFFICES ASSUME y < x PROVE FALSE
    OBVIOUS
  <2>2. x \in Upto(x) /\ x \notin Upto(y) /\ \A z \in Upto(y) : z \in Upto(x)
    <3>1. x \in Nat /\ y \in Nat /\ \A z \in S : z \in Nat
      OBVIOUS
    <3> QED BY <2>1, <3>1
  <2>3. Upto(y) \in SUBSET S /\ Upto(x) \in SUBSET S /\ Upto(y) \subseteq Upto(x) /\ Upto(y) # Upto(x)
    BY <2>2
  <2> HIDE DEF Upto
  <2> QED BY <1>3, <2>3 DEF StrictSubsetOrdering
<1> QED BY <1>4 DEF First

\* The same of messages.
LEMMA FirstId ==
  ASSUME NEW S \in SUBSET Ids, S # {}
  PROVE  First(S) \in S /\ First(S) \in Ids /\ \A j \in S : First(S) <= j
<1>1. S \in SUBSET Nat
  BY RestartAssumption DEF Ids
<1> QED BY <1>1, FirstIsLeast

\* Marking rows adds none and takes none away.
LEMMA MarkKeeps ==
  ASSUME TypeOK, NEW S, NEW m \in Marks
  PROVE  Mark(S, m) \in Seq(Row) /\ Len(Mark(S, m)) = Len(rows) /\ Len(rows) \in 0..MaxSent
<1>1. rows \in Seq(Row) /\ Len(rows) \in 0..MaxSent /\ DOMAIN rows = 1..Len(rows)
  BY RestartAssumption DEF TypeOK, Row
<1>2. Mark(S, m) \in [1..Len(rows) -> Row]
  <2>1. \A i \in 1..Len(rows) : rows[i] \in Row
    BY <1>1
  <2>2. ASSUME NEW r \in Row  PROVE [r EXCEPT !.mark = m] \in Row
    BY DEF Row
  <2> QED BY <1>1, <2>1, <2>2 DEF Mark
<1> QED BY <1>1, <1>2

\* One more row.
LEMMA AppendKeeps ==
  ASSUME TypeOK, Len(rows) < MaxSent, NEW r \in Row
  PROVE  Append(rows, r) \in Seq(Row) /\ Len(Append(rows, r)) = Len(rows) + 1 /\ Len(rows) + 1 \in Ids
BY RestartAssumption DEF TypeOK, Row, Ids

\* What is left of each text is a number.
LEMMA LeftType ==
  ASSUME TypeOK
  PROVE  Left \in [Words -> Int]
<1>1. ASSUME NEW S, S \subseteq Ids  PROVE IsFiniteSet(S)
  <2>1. IsFiniteSet(1..MaxSent)
    BY FS_Interval, RestartAssumption, 1 \in Int, MaxSent \in Int
  <2> QED BY <1>1, <2>1, FS_Subset DEF Ids
<1>2. ASSUME NEW S, S \subseteq Ids, NEW w  PROVE CountOf(S, w) \in Nat
  <2>1. IsFiniteSet({i \in S : rows[i].words = w})
    BY <1>1, <1>2
  <2> QED BY <2>1, FS_CardinalityType DEF CountOf
<1>3. DOMAIN rows \subseteq Ids /\ written \subseteq Ids
  BY RestartAssumption DEF TypeOK, Ids
<1>4. Sent \ Unsettled \subseteq Ids
  BY <1>3 DEF Sent
<1> QED BY <1>2, <1>3, <1>4 DEF Left
-----------------------------------------------------------------------------
(* Types. *)

\* What of the type is about sets and small enumerations.
PlainOK ==
  /\ status \in {"idle", "running", "interrupted"}
  /\ run \in {"none", "preflight", "going", "aborted"} /\ own \in {0} \cup Ids /\ settled \in BOOLEAN
  /\ server \in {"up", "closing", "stopping", "down", "starting", "settling"}
  /\ written \subseteq Ids /\ queue \subseteq Ids /\ unwritten \subseteq Ids /\ said \subseteq Ids
  /\ waiting \subseteq Ids /\ handed \subseteq Ids /\ orphans \subseteq Ids /\ lost \subseteq Ids
  /\ read \subseteq Ids /\ cleared \subseteq Ids
  /\ cut \in BOOLEAN /\ overtaken \in BOOLEAN /\ ends \in 0..MaxEnds

RowsOK == rows \in Seq(Row) /\ Len(rows) <= MaxSent
LeftOK == left \in [Words -> Int]

\* The type is these three parts.
LEMMA TypeParts == TypeOK <=> PlainOK /\ RowsOK /\ LeftOK
BY DEF TypeOK, PlainOK, RowsOK, LeftOK, Row

\* A step moves what is in some of the sets to others, and adds the next row's number.
LEMMA PlainStep ==
  ASSUME TypeOK, OwnOK, Next
  PROVE  PlainOK' /\ OwnOK'
<1>1. PlainOK /\ OwnOK
  BY TypeParts
<1>2. ASSUME Len(rows) < MaxSent  PROVE Len(rows) + 1 \in Ids
  BY <1>2, RestartAssumption DEF Ids, TypeOK
<1>3. \A S \in SUBSET Ids : S # {} => First(S) \in Ids
  BY FirstId
<1> USE <1>1 DEF PlainOK, OwnOK, db, pi, recovery, memory, history
<1>4. CASE SendStep
  <2>1. ASSUME NEW w \in Words, SendToIdle(w)  PROVE PlainOK' /\ OwnOK'
    BY <1>2, <2>1 DEF SendToIdle, CanSend
  <2>2. ASSUME NEW w \in Words, SendInto(w)  PROVE PlainOK' /\ OwnOK'
    BY <1>2, <2>2 DEF SendInto, CanSend
  <2>3. CASE Hand
    BY <1>3, <2>3 DEF Hand, Unhanded
  <2>4. CASE HandToIdle
    BY <1>3, <2>4 DEF HandToIdle, Unhanded
  <2> QED BY <1>4, <2>1, <2>2, <2>3, <2>4 DEF SendStep
<1>5. CASE PiStep
  <2>1. CASE PreflightRefuses
    BY <2>1 DEF PreflightRefuses
  <2>2. CASE PreflightHandled
    BY <2>2 DEF PreflightHandled
  <2>3. CASE PreflightEnds
    BY <2>3 DEF PreflightEnds, TakesIn
  <2>4. CASE PiReads
    BY <1>3, <2>4 DEF PiReads, TakesIn
  <2>5. CASE PiWrites
    BY <1>3, <2>5 DEF PiWrites
  <2>6. CASE PiSettles
    BY <2>6 DEF PiSettles
  <2> QED BY <1>5, <2>1, <2>2, <2>3, <2>4, <2>5, <2>6 DEF PiStep
<1>6. CASE HearStep
  <2>1. CASE HearRead
    BY <2>1 DEF HearRead
  <2>2. CASE HearSettled
    BY <2>2 DEF HearSettled
  <2> QED BY <1>6, <2>1, <2>2 DEF HearStep
<1>7. CASE EndStep
  <2>1. ASSUME Ends, status' \in {"idle", "running", "interrupted"}, cut' \in BOOLEAN
        PROVE  PlainOK' /\ OwnOK'
    <3>1. written' \subseteq Ids
      BY <2>1 DEF Ends, LastWrites
    <3>2. ends' \in 0..MaxEnds
      BY <2>1, RestartAssumption DEF Ends
    <3> QED BY <2>1, <3>1, <3>2 DEF Ends
  <2>2. CASE Crash
    BY <2>1, <2>2 DEF Crash, Serving, BeingAnswered
  <2>3. CASE Shutdown
    BY <2>3 DEF Shutdown
  <2>4. CASE ShutdownIdle
    BY <2>1, <2>4 DEF ShutdownIdle, StopPi
  <2>5. CASE AbortsAlone
    BY <2>1, <2>5 DEF AbortsAlone, StopPi
  <2>6. CASE AbortsFirst
    BY <2>6 DEF AbortsFirst
  <2>7. CASE StopsLast
    BY <2>1, <2>7 DEF StopsLast, StopPi
  <2> QED BY <1>7, <2>2, <2>3, <2>4, <2>5, <2>6, <2>7 DEF EndStep
<1>8. CASE BootStep
  <2>1. Unsettled \subseteq Ids
    BY RestartAssumption DEF Unsettled, Ids, TypeOK
  <2>2. orphans # {} => Oldest \in Ids
    BY <1>3 DEF Oldest
  <2>3. CASE Boot
    BY <2>3 DEF Boot
  <2>4. CASE Recall
    BY <2>1, <2>4 DEF Recall
  <2>5. CASE RecallFails
    BY <2>5 DEF RecallFails
  <2>6. CASE SettleTaken
    BY <2>6 DEF SettleTaken
  <2>7. CASE SettleLost
    BY <2>2, <2>7 DEF SettleLost
  <2>8. CASE Recovered
    BY <2>8 DEF Recovered
  <2> QED BY <1>8, <2>3, <2>4, <2>5, <2>6, <2>7, <2>8 DEF BootStep
<1> QED BY <1>4, <1>5, <1>6, <1>7, <1>8 DEF Next

\* A step leaves the rows alone, marks some, or adds one.
LEMMA RowsStep ==
  ASSUME TypeOK, Next
  PROVE  \/ rows' = rows
         \/ \E S, m : m \in Marks /\ rows' = Mark(S, m)
         \/ Len(rows) < MaxSent /\ \E r \in Row : rows' = Append(rows, r)
<1> USE DEF db, pi, recovery, memory, history
<1>1. \A m \in {"taken", "unsent", "unsure", "gone"} : m \in Marks
  BY DEF Marks
<1>2. ASSUME NEW w \in Words, SendToIdle(w) \/ SendInto(w)
      PROVE  Len(rows) < MaxSent /\ \E r \in Row : rows' = Append(rows, r)
  BY <1>2 DEF SendToIdle, SendInto, CanSend, Row, Marks
<1>3. CASE Hand \/ HandToIdle \/ PreflightEnds \/ PiReads \/ PiWrites \/ PiSettles
  BY <1>3 DEF Hand, HandToIdle, PreflightEnds, PiReads, PiWrites, PiSettles
<1>4. CASE PreflightRefuses \/ PreflightHandled \/ HearRead \/ HearSettled
  BY <1>1, <1>4 DEF PreflightRefuses, PreflightHandled, HearRead, HearSettled
<1>5. CASE Crash \/ Shutdown \/ AbortsFirst
  BY <1>5 DEF Crash, Shutdown, AbortsFirst
<1>6. CASE ShutdownIdle \/ AbortsAlone \/ StopsLast
  BY <1>1, <1>6 DEF ShutdownIdle, AbortsAlone, StopsLast, StopPi
<1>7. CASE Boot \/ Recall \/ SettleLost
  BY <1>7 DEF Boot, Recall, SettleLost
<1>8. CASE RecallFails \/ SettleTaken \/ Recovered
  BY <1>1, <1>8 DEF RecallFails, SettleTaken, Recovered
<1> QED
  BY <1>2, <1>3, <1>4, <1>5, <1>6, <1>7, <1>8 DEF Next, SendStep, PiStep, HearStep, EndStep, BootStep

\* A step leaves what is left alone, counts it anew, or takes one of it.
LEMMA LeftStep ==
  ASSUME TypeOK, Next
  PROVE  LeftOK'
<1> USE DEF LeftOK, db, pi, recovery, memory, history
<1>1. left \in [Words -> Int] /\ Nothing \in [Words -> Int] /\ Left \in [Words -> Int]
  BY LeftType, TypeParts DEF Nothing
<1>2. CASE SendStep
  BY <1>1, <1>2 DEF SendStep, SendToIdle, SendInto, Hand, HandToIdle
<1>3. CASE PiStep
  BY <1>1, <1>3 DEF PiStep, PreflightRefuses, PreflightHandled, PreflightEnds, PiReads, PiWrites, PiSettles
<1>4. CASE HearStep
  BY <1>1, <1>4 DEF HearStep, HearRead, HearSettled
<1>5. CASE EndStep
  BY <1>1, <1>5
    DEF EndStep, Crash, Shutdown, ShutdownIdle, AbortsAlone, AbortsFirst, StopsLast, StopPi, Ends
<1>6. CASE Boot \/ RecallFails \/ SettleLost \/ Recovered
  BY <1>1, <1>6 DEF Boot, RecallFails, SettleLost, Recovered
<1>7. CASE Recall
  BY <1>1, <1>7 DEF Recall
<1>8. CASE SettleTaken
  <2>1. PICK w : left' = [left EXCEPT ![w] = @ - 1]
    BY <1>8 DEF SettleTaken
  <2>2. left' = [x \in Words |-> IF x = w THEN left[x] - 1 ELSE left[x]]
    BY <1>1, <2>1, Zenon
  <2>3. \A x \in Words : left[x] \in Int /\ left[x] - 1 \in Int
    BY <1>1
  <2> QED BY <2>2, <2>3
<1> QED BY <1>2, <1>3, <1>4, <1>5, <1>6, <1>7, <1>8 DEF Next, BootStep

\* Every variable keeps to its values.
LEMMA TypeStep ==
  ASSUME TypeOK, OwnOK, [Next]_vars
  PROVE  TypeOK' /\ OwnOK'
<1>1. CASE UNCHANGED vars
  BY <1>1 DEF TypeOK, OwnOK, vars, db, pi, recovery, memory, history
<1>2. CASE Next
  <2>1. RowsOK'
    <3>1. RowsOK /\ Len(rows) \in 0..MaxSent
      BY MarkKeeps, TypeParts DEF Marks
    <3>2. CASE rows' = rows
      BY <3>1, <3>2 DEF RowsOK
    <3>3. ASSUME NEW S, NEW m \in Marks, rows' = Mark(S, m)  PROVE RowsOK'
      BY <3>3, MarkKeeps DEF RowsOK
    <3>4. ASSUME Len(rows) < MaxSent, NEW r \in Row, rows' = Append(rows, r)  PROVE RowsOK'
      BY <3>4, AppendKeeps DEF RowsOK, Ids
    <3> QED BY <1>2, <3>2, <3>3, <3>4, RowsStep
  <2>2. PlainOK' /\ OwnOK' /\ LeftOK'
    BY <1>2, PlainStep, LeftStep
  <2> QED BY <2>1, <2>2 DEF TypeOK, PlainOK, RowsOK, LeftOK, Row
<1> QED BY <1>1, <1>2
-----------------------------------------------------------------------------
(* The chat's status, over each kind of step. *)

\* What each state of the portal has in its own.
StateOK ==
  /\ server = "up"       => UpOK /\ OrderOK
  /\ server = "closing"  => ClosingOK
  /\ server = "stopping" => StoppingOK
  /\ Off                 => OffOK

\* How a step changes the number of the rows.
LEMMA Lengths ==
  ASSUME TypeOK
  PROVE  /\ Len(rows) \in Nat
         /\ \A S, m : m \in Marks /\ rows' = Mark(S, m) => Len(rows') = Len(rows)
         /\ \A r \in Row : Len(rows) < MaxSent /\ rows' = Append(rows, r) => Len(rows') = Len(rows) + 1
<1>1. \E m : m \in Marks
  BY DEF Marks
<1> QED BY <1>1, MarkKeeps, AppendKeeps

\* A message is sent, or goes to pi.
LEMMA SendKeeps ==
  ASSUME IInv, SendStep
  PROVE  StateOK'
<1> USE DEF db, pi, recovery, memory, history
<1>1. server = "up" /\ server' = "up" /\ TypeOK /\ PlainOK /\ UpOK /\ OrderOK
  BY TypeParts DEF IInv, SendStep, SendToIdle, SendInto, CanSend, Hand, HandToIdle
<1>2. Len(rows) \in Nat /\ \A w \in Words, q \in BOOLEAN :
        CanSend /\ rows' = Append(rows, [words |-> w, queued |-> q, mark |-> "none"]) => Len(rows') = Len(rows) + 1
  BY <1>1, Lengths DEF CanSend, Row, Marks
<1>3. SUFFICES UpOK' /\ OrderOK'
  BY <1>1 DEF StateOK, Off
<1>4. ASSUME NEW w \in Words, SendToIdle(w)
      PROVE  UpOK' /\ OrderOK'
  <2>1. Len(rows') = Len(rows) + 1
    BY <1>2, <1>4 DEF SendToIdle
  <2>2. UpOK'
    BY <1>1, <1>4 DEF SendToIdle, CanSend, UpOK, BeingAnswered
  <2>3. OrderOK'
    BY <1>1, <1>2, <1>4, <2>1 DEF SendToIdle, OrderOK
  <2> QED BY <2>2, <2>3
<1>5. ASSUME NEW w \in Words, SendInto(w)
      PROVE  UpOK' /\ OrderOK'
  <2>1. Len(rows') = Len(rows) + 1
    BY <1>2, <1>5 DEF SendInto
  <2>2. own # Len(rows) + 1 /\ Len(rows) + 1 \notin handed
    BY <1>1, <1>2 DEF OrderOK
  <2>3. UpOK'
    BY <1>1, <1>5, <2>2 DEF SendInto, UpOK, BeingAnswered
  <2>4. OrderOK'
    BY <1>1, <1>2, <1>5, <2>1, <2>2 DEF SendInto, OrderOK
  <2> QED BY <2>3, <2>4
<1>6. Unhanded # {} => /\ First(Unhanded) \in waiting \ handed
                       /\ \A j \in waiting \ handed : First(Unhanded) <= j
  <2>1. Unhanded \in SUBSET Ids
    BY <1>1 DEF Unhanded, PlainOK
  <2> QED BY <2>1, FirstId DEF Unhanded
<1>7. waiting \subseteq Nat /\ handed \subseteq Nat
  BY <1>1, RestartAssumption DEF PlainOK, Ids
<1>8. CASE Hand
  <2>1. UpOK'
    BY <1>1, <1>8 DEF Hand, UpOK, BeingAnswered
  <2>2. OrderOK'
    BY <1>1, <1>2, <1>6, <1>7, <1>8 DEF Hand, OrderOK
  <2> QED BY <2>1, <2>2
<1>9. CASE HandToIdle
  <2>1. UpOK'
    BY <1>1, <1>6, <1>9 DEF HandToIdle, UpOK, BeingAnswered
  <2>2. OrderOK'
    BY <1>1, <1>2, <1>6, <1>7, <1>9 DEF HandToIdle, OrderOK, UpOK
  <2> QED BY <2>1, <2>2
<1> QED BY <1>4, <1>5, <1>8, <1>9, SendStep DEF SendStep

\* pi works.
LEMMA PiKeeps ==
  ASSUME IInv, PiStep
  PROVE  StateOK'
<1> USE DEF db, pi, recovery, memory, history
<1>1. /\ server' = server /\ Serving /\ TypeOK /\ PlainOK /\ OwnOK
      /\ server = "up" => UpOK /\ OrderOK
      /\ server = "closing" => ClosingOK
      /\ server = "stopping" => StoppingOK
  BY TypeParts DEF IInv, PiStep, PreflightRefuses, PreflightHandled, PreflightEnds, PiReads, PiWrites,
                   PiSettles, Serving
<1>2. SUFFICES /\ server = "up" => UpOK' /\ OrderOK'
               /\ server = "closing" => ClosingOK'
               /\ server = "stopping" => StoppingOK'
  BY <1>1 DEF StateOK, Off, Serving
<1>3. \A S, m : m \in Marks /\ rows' = Mark(S, m) => Len(rows') = Len(rows)
  BY <1>1, Lengths
<1>4. Len(rows) \in Nat /\ waiting \subseteq Nat /\ own \in Nat /\ queue \subseteq Nat /\ said \subseteq Nat
  BY <1>1, Lengths, RestartAssumption DEF PlainOK, Ids
<1>5. CASE PreflightRefuses \/ PreflightHandled
  <2>1. Len(rows') = Len(rows)
    BY <1>3, <1>5 DEF PreflightRefuses, PreflightHandled, Marks
  <2>2. UpOK'
    BY <1>1, <1>5 DEF PreflightRefuses, PreflightHandled, UpOK, BeingAnswered
  <2>3. OrderOK'
    BY <1>1, <1>5, <2>1 DEF PreflightRefuses, PreflightHandled, OrderOK, UpOK
  <2> QED BY <1>5, <2>2, <2>3 DEF PreflightRefuses, PreflightHandled
<1>6. CASE PreflightEnds
  <2>1. ASSUME server = "up"  PROVE UpOK' /\ OrderOK'
    <3>1. UpOK'
      BY <1>1, <1>6, <2>1 DEF PreflightEnds, TakesIn, UpOK, BeingAnswered
    <3>2. OrderOK'
      BY <1>1, <1>4, <1>6, <2>1 DEF PreflightEnds, TakesIn, OrderOK, UpOK
    <3> QED BY <3>1, <3>2
  <2>2. ASSUME server = "closing"  PROVE ClosingOK'
    BY <1>1, <1>6, <2>2 DEF PreflightEnds, TakesIn, ClosingOK
  <2>3. ASSUME server = "stopping"  PROVE StoppingOK'
    BY <1>1, <1>6, <2>3 DEF PreflightEnds, TakesIn, StoppingOK
  <2> QED BY <2>1, <2>2, <2>3
<1>7. CASE PiReads
  <2>1. First(queue) \in queue
    BY <1>1, <1>7, FirstId DEF PiReads, PlainOK
  <2>2. ASSUME server = "up"  PROVE UpOK' /\ OrderOK'
    <3>1. UpOK'
      BY <1>1, <1>7, <2>2 DEF PiReads, TakesIn, UpOK, BeingAnswered
    <3>2. OrderOK'
      BY <1>1, <1>4, <1>7, <2>1, <2>2 DEF PiReads, TakesIn, OrderOK, UpOK
    <3> QED BY <3>1, <3>2
  <2>3. ASSUME server = "closing"  PROVE ClosingOK'
    BY <1>1, <1>7, <2>3 DEF PiReads, TakesIn, ClosingOK
  <2>4. ASSUME server = "stopping"  PROVE StoppingOK'
    BY <1>1, <1>7, <2>4 DEF PiReads, TakesIn, StoppingOK
  <2> QED BY <2>2, <2>3, <2>4
<1>8. CASE PiWrites
  BY <1>1, <1>8 DEF PiWrites, UpOK, BeingAnswered, OrderOK, ClosingOK, StoppingOK
<1>9. CASE PiSettles
  <2>1. ASSUME server = "up"  PROVE UpOK' /\ OrderOK'
    <3>1. run = "going" /\ queue = {}
      BY <1>1, <1>9, <2>1 DEF PiSettles, UpOK
    <3>2. UpOK'
      BY <1>1, <1>9, <2>1, <3>1 DEF PiSettles, UpOK, BeingAnswered
    <3>3. OrderOK'
      BY <1>1, <1>9, <2>1, <3>1 DEF PiSettles, OrderOK, UpOK
    <3> QED BY <3>2, <3>3
  <2>2. server # "closing"
    BY <1>1, <1>9 DEF PiSettles, ClosingOK
  <2>3. ASSUME server = "stopping"  PROVE StoppingOK'
    BY <1>1, <1>9, <2>3 DEF PiSettles, StoppingOK
  <2> QED BY <2>1, <2>2, <2>3
<1> QED BY <1>5, <1>6, <1>7, <1>8, <1>9, PiStep DEF PiStep

\* The portal hears of it.
LEMMA HearKeeps ==
  ASSUME IInv, HearStep
  PROVE  StateOK'
<1> USE DEF db, pi, recovery, memory, history
<1>1. /\ server' = server /\ Serving /\ TypeOK /\ PlainOK
      /\ server = "up" => UpOK /\ OrderOK
      /\ server = "closing" => ClosingOK
      /\ server = "stopping" => StoppingOK
  BY TypeParts DEF IInv, HearStep, HearRead, HearSettled, Serving
<1>2. SUFFICES /\ server = "up" => UpOK' /\ OrderOK'
               /\ server = "closing" => ClosingOK'
               /\ server = "stopping" => StoppingOK'
  BY <1>1 DEF StateOK, Off, Serving
<1>3. Len(rows') = Len(rows)
  BY <1>1, Lengths DEF HearStep, HearRead, HearSettled, Marks
<1>4. CASE HearRead
  <2>1. First(said) \in said /\ \A j \in said : First(said) <= j
    BY <1>1, <1>4, FirstId DEF HearRead, PlainOK
  <2>2. own \in Nat /\ said \subseteq Nat
    BY <1>1, RestartAssumption DEF PlainOK, Ids
  <2>3. ASSUME server = "up"  PROVE UpOK' /\ OrderOK'
    <3>1. run = "going" \/ settled
      BY <1>1, <1>4, <2>3 DEF HearRead, UpOK
    <3>2. own \notin waiting'
      <4>1. own \in waiting => own \in said /\ \A j \in said : own <= j
        BY <1>1, <2>3, <3>1 DEF OrderOK
      <4>2. own \in waiting => own = First(said)
        <5>1. \A m, n \in Nat : m <= n /\ n <= m => m = n
          OBVIOUS
        <5>2. First(said) \in Nat
          BY <2>1, <2>2
        <5> QED BY ONLY <2>1, <2>2, <4>1, <5>1, <5>2, Zenon
      <4> QED BY <1>4, <4>2 DEF HearRead
    <3>3. UpOK'
      BY <1>1, <1>4, <2>3, <3>1, <3>2 DEF HearRead, UpOK, BeingAnswered
    <3>4. OrderOK'
      BY <1>1, <1>3, <1>4, <2>3, <3>2 DEF HearRead, OrderOK
    <3> QED BY <3>3, <3>4
  <2>4. ASSUME server = "closing"  PROVE ClosingOK'
    BY <1>1, <1>4, <2>4 DEF HearRead, ClosingOK
  <2>5. ASSUME server = "stopping"  PROVE StoppingOK'
    BY <1>1, <1>4, <2>5 DEF HearRead, StoppingOK
  <2> QED BY <2>3, <2>4, <2>5
<1>5. CASE HearSettled
  <2>1. ASSUME server = "up"  PROVE UpOK' /\ OrderOK'
    <3>1. UpOK'
      BY <1>1, <1>5, <2>1 DEF HearSettled, UpOK, BeingAnswered
    <3>2. OrderOK'
      BY <1>1, <1>3, <1>5, <2>1 DEF HearSettled, OrderOK, UpOK
    <3> QED BY <3>1, <3>2
  <2>2. server # "closing"
    BY <1>1, <1>5 DEF HearSettled, ClosingOK
  <2>3. ASSUME server = "stopping"  PROVE StoppingOK'
    BY <1>1, <1>5, <2>3 DEF HearSettled, StoppingOK
  <2> QED BY <2>1, <2>2, <2>3
<1> QED BY <1>4, <1>5, HearStep DEF HearStep

\* The portal ends, or begins to.
LEMMA EndKeeps ==
  ASSUME IInv, EndStep
  PROVE  StateOK'
<1> USE DEF db, pi, recovery, memory, history
<1>1. TypeOK /\ PlainOK /\ StateOK
  BY TypeParts DEF IInv, StateOK
<1>2. ASSUME Ends, overtaken \/ (status' \in {"running", "interrupted"} <=> cut')
      PROVE  StateOK'
  BY <1>2 DEF Ends, StateOK, Off, OffOK
<1>3. CASE Crash
  <2>1. overtaken \/ (status' \in {"running", "interrupted"} <=> cut')
    BY <1>1, <1>3 DEF Crash, Serving, PlainOK, StateOK, Off, UpOK, ClosingOK, StoppingOK, OffOK, BeingAnswered
  <2> QED BY <1>2, <1>3, <2>1 DEF Crash
<1>4. CASE Shutdown
  BY <1>1, <1>4 DEF Shutdown, PlainOK, StateOK, Off, UpOK, BeingAnswered, ClosingOK
<1>5. CASE ShutdownIdle
  <2>1. overtaken \/ (status' \in {"running", "interrupted"} <=> cut')
    BY <1>1, <1>5 DEF ShutdownIdle, StateOK, UpOK
  <2> QED BY <1>2, <1>5, <2>1 DEF ShutdownIdle, StopPi
<1>6. CASE AbortsAlone
  BY <1>2, <1>6 DEF AbortsAlone, StopPi
<1>7. CASE AbortsFirst
  BY <1>7 DEF AbortsFirst, StateOK, Off, StoppingOK
<1>8. CASE StopsLast
  <2>1. overtaken \/ (status' \in {"running", "interrupted"} <=> cut')
    BY <1>1, <1>8 DEF StopsLast, StateOK, StoppingOK
  <2> QED BY <1>2, <1>8, <2>1 DEF StopsLast, StopPi
<1> QED BY <1>3, <1>4, <1>5, <1>6, <1>7, <1>8, EndStep DEF EndStep

\* The portal starts.
LEMMA BootKeeps ==
  ASSUME IInv, BootStep
  PROVE  StateOK'
<1> USE DEF db, pi, recovery, memory, history
<1>1. TypeOK /\ PlainOK /\ OffOK /\ Len(rows') = Len(rows) /\ Len(rows) \in Nat
  BY TypeParts, Lengths
    DEF IInv, Off, BootStep, Boot, Recall, RecallFails, SettleTaken, SettleLost, Recovered, Marks
<1>2. CASE Boot \/ Recall \/ SettleTaken \/ SettleLost
  BY <1>1, <1>2 DEF Boot, Recall, SettleTaken, SettleLost, StateOK, Off, OffOK, PlainOK
<1>3. CASE RecallFails \/ Recovered
  <2>1. UpOK'
    BY <1>1, <1>3 DEF RecallFails, Recovered, OffOK, PlainOK, UpOK, BeingAnswered
  <2>2. OrderOK'
    BY <1>1, <1>3 DEF RecallFails, Recovered, OffOK, OrderOK
  <2> QED BY <1>3, <2>1, <2>2 DEF RecallFails, Recovered, StateOK, Off
<1> QED BY <1>2, <1>3, BootStep DEF BootStep

\* The invariant holds at first.
LEMMA InitOK == Init => IInv
<1> SUFFICES ASSUME Init  PROVE IInv
  OBVIOUS
<1>1. RowsOK /\ Len(rows) = 0
  BY RestartAssumption DEF Init, RowsOK
<1>2. PlainOK /\ OwnOK
  <2>1. ends \in 0..MaxEnds
    BY RestartAssumption DEF Init
  <2> QED BY <2>1 DEF Init, PlainOK, OwnOK
<1>3. LeftOK
  BY DEF Init, LeftOK, Nothing
<1>4. UpOK /\ OrderOK
  BY <1>1 DEF Init, UpOK, OrderOK, BeingAnswered
<1> QED BY <1>1, <1>2, <1>3, <1>4, TypeParts DEF IInv, Init, Off

\* And every step keeps it.
LEMMA InvStep == IInv /\ [Next]_vars => IInv'
<1> SUFFICES ASSUME IInv, [Next]_vars  PROVE IInv'
  OBVIOUS
<1>1. TypeOK' /\ OwnOK'
  BY TypeStep DEF IInv
<1>2. CASE Next
  <2>1. StateOK'
    BY <1>2, SendKeeps, PiKeeps, HearKeeps, EndKeeps, BootKeeps DEF Next
  <2> QED BY <1>1, <2>1 DEF IInv, StateOK
<1>3. CASE UNCHANGED vars
  BY <1>1, <1>3
    DEF IInv, UpOK, OrderOK, ClosingOK, StoppingOK, OffOK, Off, BeingAnswered,
        vars, db, pi, recovery, memory, history
<1> QED BY <1>2, <1>3

\* Every variable keeps to its values.
THEOREM TypeCorrect == Spec => []TypeOK
<1>1. IInv => TypeOK
  BY DEF IInv
<1> QED BY <1>1, InitOK, InvStep, PTL DEF Spec

\* However many messages there are, and however often the portal crashes or is
\* stopped, at whichever step: a chat says it was cut off when its last run was, and
\* only then, unless a stop was overtaken by the run's end.
THEOREM CutOffIsSaid == Spec => []CutOffSaid
<1>1. IInv => CutOffSaid
  BY DEF IInv, UpOK, CutOffSaid
<1> QED BY <1>1, InitOK, InvStep, PTL DEF Spec
-----------------------------------------------------------------------------
(* What a chat says of its messages.  Every message is in one place at a time, and
   the words in pi's file are counted against the rows that stand for them. *)

\* The message whose run is about to begin.
Beginning == IF run = "preflight" THEN {own} ELSE {}

\* What pi may still put into its file.
Flying == queue \cup unwritten \cup Beginning

\* Where a message of this life can be: pi takes each in once, and says so; who
\* waits and was handed over waits in pi, or is in what it has said.
LifeOK ==
  /\ written \cup unwritten \cup said \subseteq read
  /\ read \cup waiting \cup handed \cup Beginning \subseteq DOMAIN rows
  /\ queue \subseteq handed
  /\ run # "going" => queue = {}
  /\ run \in {"none", "preflight"} => unwritten = {}
  /\ settled => run = "none"
  /\ server \in {"closing", "stopping"} => queue = {}
  /\ (queue \cup Beginning \cup (waiting \ handed)) \cap read = {}
  /\ (waiting \ handed) \cap Beginning = {}
  /\ waiting \cap read \subseteq said
  /\ waiting \cap handed \subseteq queue \cup read \cup cleared \cup Beginning

\* What the rows say of who is on its way.
MarksOK ==
  /\ waiting \subseteq Unsettled
  /\ \A i \in Flying : rows[i].mark \in {"none", "taken"}
  /\ \A i \in read : rows[i].mark # "gone"
  /\ server = "settling" => orphans \cup lost = Unsettled /\ orphans \cap lost = {}
  /\ server # "settling" => orphans = {} /\ lost = {}

\* The messages that count as sent, those to be settled left out.
Counted == Sent \ Unsettled

\* What is left of the file's words is what the rows do not account for, and none
\* is of those of a message that was not found.
CountOK ==
  server = "settling" => left = Left /\ \A i \in lost : left[rows[i].words] <= 0

OfferedOK ==
  \A i \in DOMAIN rows : rows[i].mark = "unsent" /\ i \in written =>
    \E j \in Counted : Twins(i, j) /\ j \notin written \cup Flying

ShownOK ==
  \A i \in DOMAIN rows : rows[i].mark = "taken" /\ i \notin read \cup cleared =>
    \/ \E j \in written : Twins(i, j) /\ rows[j].mark \in {"unsent", "unsure"}
    \/ Off /\ CountOf(written, rows[i].words) >= CountOf(Counted, rows[i].words)

TellInv == LifeOK /\ MarksOK /\ CountOK /\ OfferedOK /\ ShownOK
-----------------------------------------------------------------------------
(* The rows and the counts. *)

\* The rows stay, and with each what it says.
RowsGrow ==
  /\ DOMAIN rows \subseteq DOMAIN rows'
  /\ \A i \in DOMAIN rows : rows'[i].words = rows[i].words /\ rows'[i].queued = rows[i].queued

Marked(S, m) ==
  /\ RowsGrow /\ DOMAIN rows' = DOMAIN rows
  /\ \A i \in DOMAIN rows : rows'[i].mark = IF i \in S THEN m ELSE rows[i].mark

\* A mark changes nothing of a row but what settled it.
LEMMA MarkMarks ==
  ASSUME TypeOK, NEW S, NEW m \in Marks, rows' = Mark(S, m)
  PROVE  Marked(S, m)
<1>1. rows \in Seq(Row)
  BY DEF TypeOK, Row
<1>2. \A i \in DOMAIN rows : rows[i] \in Row
  BY <1>1
<1>3. ASSUME NEW r \in Row
      PROVE  [r EXCEPT !.mark = m].words = r.words /\ [r EXCEPT !.mark = m].queued = r.queued
             /\ [r EXCEPT !.mark = m].mark = m
  BY DEF Row
<1>4. DOMAIN rows' = DOMAIN rows
      /\ \A i \in DOMAIN rows : rows'[i] = IF i \in S THEN [rows[i] EXCEPT !.mark = m] ELSE rows[i]
  BY DEF Mark
<1> HIDE DEF Row
<1> QED BY <1>2, <1>3, <1>4 DEF Marked, RowsGrow

\* A row says one of the words, and has one of the marks.
LEMMA RowSays ==
  ASSUME TypeOK, NEW i \in DOMAIN rows
  PROVE  rows[i].words \in Words /\ rows[i].mark \in Marks
<1>1. rows \in Seq(Row)
  BY DEF TypeOK, Row
<1>2. rows[i] \in Row
  BY <1>1
<1> QED BY <1>2 DEF Row

\* A new row is the last, and the others stay as they are.
LEMMA AppendAdds ==
  ASSUME TypeOK, NEW r, rows' = Append(rows, r)
  PROVE  /\ RowsGrow /\ Len(rows) + 1 \notin DOMAIN rows
         /\ DOMAIN rows' = DOMAIN rows \cup {Len(rows) + 1}
         /\ rows'[Len(rows) + 1] = r
         /\ \A i \in DOMAIN rows : rows'[i] = rows[i]
<1>1. rows \in Seq(Row)
  BY DEF TypeOK, Row
<1>2. Len(rows) \in Nat /\ DOMAIN rows = 1..Len(rows)
  BY <1>1
<1>3. DOMAIN rows' = 1..(Len(rows) + 1) /\ rows'[Len(rows) + 1] = r
      /\ \A i \in 1..Len(rows) : rows'[i] = rows[i]
  BY <1>1
<1> QED BY <1>2, <1>3 DEF RowsGrow

\* The messages in S that say w.
Saying(S, w) == {i \in S : rows[i].words = w}

\* They are finitely many, and counted by CountOf.
LEMMA SayingFinite ==
  ASSUME TypeOK, NEW w
  PROVE  /\ IsFiniteSet(Saying(written, w)) /\ IsFiniteSet(Saying(Counted, w))
         /\ CountOf(written, w) = Cardinality(Saying(written, w)) /\ CountOf(written, w) \in Nat
         /\ CountOf(Counted, w) = Cardinality(Saying(Counted, w)) /\ CountOf(Counted, w) \in Nat
<1>1. IsFiniteSet(Ids)
  BY FS_Interval, RestartAssumption, 1 \in Int, MaxSent \in Int DEF Ids
<1>2. written \subseteq Ids /\ Counted \subseteq Ids
  BY RestartAssumption DEF TypeOK, Ids, Counted, Sent
<1>3. IsFiniteSet(Saying(written, w)) /\ IsFiniteSet(Saying(Counted, w))
  BY <1>1, <1>2, FS_Subset DEF Saying
<1> QED BY <1>3, FS_CardinalityType DEF CountOf, Saying

\* Of two finite sets, the one that is not the smaller has what the other has not,
\* where the other has what it has not.
LEMMA Pigeonhole ==
  ASSUME NEW A, NEW B, IsFiniteSet(A), IsFiniteSet(B), Cardinality(A) <= Cardinality(B),
         NEW x \in A, x \notin B
  PROVE  \E y \in B : y \notin A
<1> SUFFICES ASSUME B \subseteq A  PROVE FALSE
  OBVIOUS
<1>1. B \subseteq A \ {x} /\ IsFiniteSet(A \ {x}) /\ Cardinality(A \ {x}) = Cardinality(A) - 1
  BY FS_RemoveElement
<1>2. Cardinality(B) <= Cardinality(A \ {x})
  BY <1>1, FS_Subset
<1>3. Cardinality(A) \in Nat /\ Cardinality(B) \in Nat
  BY FS_CardinalityType
<1> QED BY <1>1, <1>2, <1>3

\* What is left of a text is a difference of two counts.
LEMMA LeftIs ==
  \A w \in Words : Left[w] = CountOf(written, w) - CountOf(Counted, w)
BY DEF Left, Counted

\* A message that counts stays one that counts, unless it leaves for good.
LEMMA OfferedFrame ==
  ASSUME OfferedOK, RowsGrow,
         \A i \in DOMAIN rows' : rows'[i].mark = "unsent" /\ i \in written' =>
                                   i \in DOMAIN rows /\ rows[i].mark = "unsent" /\ i \in written,
         \A j \in Counted \ (written \cup Flying) : j \in Counted' /\ j \notin (written \cup Flying)'
  PROVE  OfferedOK'
<1> SUFFICES ASSUME NEW i \in DOMAIN rows', rows'[i].mark = "unsent", i \in written'
             PROVE  \E j \in Counted' : Twins(i, j)' /\ j \notin (written \cup Flying)'
  BY DEF OfferedOK
<1>1. PICK j \in Counted : Twins(i, j) /\ j \notin written \cup Flying
  BY DEF OfferedOK
<1>2. i \in DOMAIN rows /\ j \in DOMAIN rows
  BY DEF Counted, Sent
<1>3. Twins(i, j)'
  BY <1>1, <1>2 DEF Twins, RowsGrow
<1> QED BY <1>1, <1>3

\* Nor is one shown as read that was not, where nothing unread is marked so.
LEMMA ShownFrame ==
  ASSUME ShownOK, RowsGrow, written \subseteq DOMAIN rows,
         \A i \in DOMAIN rows' : rows'[i].mark = "taken" /\ i \notin read' \cup cleared' =>
           i \in DOMAIN rows /\ rows[i].mark = "taken" /\ i \notin read \cup cleared,
         \A j \in written : rows[j].mark \in {"unsent", "unsure"} =>
           j \in written' /\ rows'[j].mark \in {"unsent", "unsure"},
         Off => Off' /\ UNCHANGED <<rows, written>>
  PROVE  ShownOK'
<1> SUFFICES ASSUME NEW i \in DOMAIN rows', rows'[i].mark = "taken", i \notin read' \cup cleared'
             PROVE  \/ \E j \in written' : Twins(i, j)' /\ rows'[j].mark \in {"unsent", "unsure"}
                    \/ Off' /\ CountOf(written, rows[i].words)' >= CountOf(Counted, rows[i].words)'
  BY DEF ShownOK
<1>1. i \in DOMAIN rows /\ rows[i].mark = "taken" /\ i \notin read \cup cleared
  OBVIOUS
<1>2. ASSUME NEW j \in written, Twins(i, j), rows[j].mark \in {"unsent", "unsure"}
      PROVE  Twins(i, j)' /\ j \in written' /\ rows'[j].mark \in {"unsent", "unsure"}
  BY <1>1, <1>2 DEF Twins, RowsGrow
<1>3. ASSUME Off, CountOf(written, rows[i].words) >= CountOf(Counted, rows[i].words)
      PROVE  Off' /\ CountOf(written, rows[i].words)' >= CountOf(Counted, rows[i].words)'
  BY <1>3 DEF CountOf, Counted, Sent, Unsettled
<1> QED BY <1>1, <1>2, <1>3 DEF ShownOK
-----------------------------------------------------------------------------
\* Nothing is told of a message while it is sent.
LEMMA SendTells ==
  ASSUME IInv, TellInv, SendStep
  PROVE  TellInv'
<1> USE DEF db, pi, recovery, memory, history
<1>1. /\ server = "up" /\ server' = "up" /\ TypeOK /\ waiting \subseteq Ids
      /\ LifeOK /\ MarksOK /\ OfferedOK /\ ShownOK
  BY DEF IInv, TypeOK, TellInv, SendStep, SendToIdle, SendInto, CanSend, Hand, HandToIdle
<1>2. CountOK' /\ ~Off
  BY <1>1 DEF CountOK, Off
<1>3. Unhanded # {} => First(Unhanded) \in waiting \ handed
  BY <1>1, FirstId DEF Unhanded
<1>4. ASSUME NEW w \in Words, SendToIdle(w) \/ SendInto(w)
      PROVE  TellInv'
  <2> DEFINE n == Len(rows) + 1
  <2>1. \E q \in BOOLEAN : rows' = Append(rows, [words |-> w, queued |-> q, mark |-> "none"])
    BY <1>4 DEF SendToIdle, SendInto
  <2>2. /\ RowsGrow /\ n \notin DOMAIN rows /\ DOMAIN rows' = DOMAIN rows \cup {n}
        /\ rows'[n].mark = "none" /\ \A i \in DOMAIN rows : rows'[i] = rows[i]
    BY <1>1, <2>1, AppendAdds
  <2>3. SendInto(w) => rows'[n].queued
    BY <1>1, AppendAdds DEF SendInto
  <2> HIDE DEF n
  <2>4. LifeOK'
    <3>1. CASE SendToIdle(w)
      BY <1>1, <2>2, <3>1 DEF SendToIdle, CanSend, LifeOK, Beginning, n
    <3>2. CASE SendInto(w)
      BY <1>1, <2>2, <3>2 DEF SendInto, LifeOK, Beginning, n
    <3> QED BY <1>4, <3>1, <3>2
  <2>5. MarksOK'
    <3>1. CASE SendToIdle(w)
      BY <1>1, <2>2, <3>1 DEF SendToIdle, CanSend, LifeOK, MarksOK, Flying, Beginning, Unsettled, n
    <3>2. CASE SendInto(w)
      BY <1>1, <2>2, <2>3, <3>2 DEF SendInto, LifeOK, MarksOK, Flying, Beginning, Unsettled, n
    <3> QED BY <1>4, <3>1, <3>2
  <2>6. written' = written /\ read' = read /\ cleared' = cleared /\ Flying' \subseteq Flying \cup {n}
    BY <1>1, <1>4 DEF SendToIdle, SendInto, LifeOK, Flying, Beginning, n
  <2>7. Counted \subseteq Counted' /\ Counted \subseteq DOMAIN rows
    BY <2>2 DEF Counted, Sent, Unsettled
  <2>8. OfferedOK'
    BY <1>1, <2>2, <2>6, <2>7, OfferedFrame
  <2>9. ShownOK'
    BY <1>1, <1>2, <2>2, <2>6, ShownFrame DEF LifeOK
  <2> QED BY <1>2, <2>4, <2>5, <2>8, <2>9 DEF TellInv
<1>5. CASE Hand \/ HandToIdle
  <2>1. UNCHANGED <<rows, written, unwritten, read, cleared, said, settled, waiting, orphans, lost>>
    BY <1>5 DEF Hand, HandToIdle
  <2>2. RowsGrow /\ Counted' = Counted /\ Unsettled' = Unsettled
    BY <2>1 DEF RowsGrow, Counted, Sent, Unsettled
  <2>3. Flying' \subseteq Flying \cup Unsettled
    <3>1. CASE Hand
      BY <1>1, <1>3, <3>1 DEF Hand, Flying, Beginning, MarksOK
    <3>2. CASE HandToIdle
      BY <1>1, <1>3, <3>2 DEF HandToIdle, Flying, Beginning, MarksOK
    <3> QED BY <1>5, <3>1, <3>2
  <2>4. LifeOK'
    <3>1. CASE Hand
      BY <1>1, <1>3, <2>1, <3>1 DEF Hand, LifeOK, Beginning
    <3>2. CASE HandToIdle
      BY <1>1, <1>3, <2>1, <3>2 DEF HandToIdle, LifeOK, Beginning
    <3> QED BY <1>5, <3>1, <3>2
  <2>5. MarksOK'
    BY <1>1, <2>1, <2>2, <2>3 DEF MarksOK, Unsettled
  <2>6. OfferedOK'
    BY <1>1, <2>1, <2>2, <2>3, OfferedFrame DEF Counted
  <2>7. ShownOK'
    BY <1>1, <1>2, <2>1, <2>2, ShownFrame DEF LifeOK
  <2> QED BY <1>2, <2>4, <2>5, <2>6, <2>7 DEF TellInv
<1> QED BY <1>4, <1>5, SendStep DEF SendStep

\* What pi takes in and writes was on its way there, and nothing else was told of it.
LEMMA PiTells ==
  ASSUME IInv, TellInv, PiStep
  PROVE  TellInv'
<1> USE DEF db, pi, recovery, memory, history
<1>1. /\ server' = server /\ Serving /\ TypeOK /\ LifeOK /\ MarksOK /\ OfferedOK /\ ShownOK
      /\ queue \subseteq Ids /\ unwritten \subseteq Ids
  BY DEF IInv, TypeOK, TellInv, PiStep, PreflightRefuses, PreflightHandled, PreflightEnds, PiReads,
         PiWrites, PiSettles, Serving
<1>2. CountOK' /\ ~Off
  BY <1>1 DEF CountOK, Off, Serving
<1>3. /\ queue # {} => First(queue) \in queue
      /\ unwritten # {} => First(unwritten) \in unwritten
  BY <1>1, FirstId
<1>4. CASE PreflightRefuses \/ PreflightHandled
  <2> DEFINE S == {own} \cap waiting
  <2>1. \E m \in {"gone", "taken"} : Marked(S, m) /\ (m = "taken" => read' = read \cup {own})
                                     /\ (m = "gone" => PreflightRefuses /\ read' = read)
    <3>1. CASE PreflightRefuses
      BY <1>1, <3>1, MarkMarks DEF PreflightRefuses, Marks
    <3>2. CASE PreflightHandled
      BY <1>1, <3>2, MarkMarks DEF PreflightHandled, Marks
    <3> QED BY <1>4, <3>1, <3>2
  <2>2. PICK m \in {"gone", "taken"} : Marked(S, m) /\ (m = "taken" => read' = read \cup {own})
                                       /\ (m = "gone" => read' = read)
    BY <2>1
  <2>3. /\ run = "preflight" /\ run' = "none" /\ waiting' = waiting \ {own}
        /\ UNCHANGED <<written, own, queue, unwritten, said, settled, handed, orphans, lost, cleared>>
    BY <1>4 DEF PreflightRefuses, PreflightHandled
  <2>4. queue = {} /\ unwritten = {} /\ Beginning = {own} /\ own \in DOMAIN rows /\ own \notin read
    BY <1>1, <2>3 DEF LifeOK, Beginning
  <2>5. S \subseteq Unsettled /\ S \subseteq Flying
    BY <1>1, <2>4 DEF MarksOK, Flying
  <2> HIDE DEF S
  <2>6. Flying' = {} /\ Beginning' = {}
    BY <2>3, <2>4 DEF Flying, Beginning
  <2>7. LifeOK'
    <3>1. written' \cup unwritten' \cup said' \subseteq read'
      BY <1>1, <2>2, <2>3 DEF LifeOK
    <3>2. read' \cup waiting' \cup handed' \cup Beginning' \subseteq DOMAIN rows'
      BY <1>1, <2>2, <2>3, <2>4, <2>6 DEF LifeOK, Marked
    <3>3. (queue' \cup Beginning' \cup (waiting' \ handed')) \cap read' = {}
      BY <1>1, <2>2, <2>3, <2>4, <2>6 DEF LifeOK
    <3>4. waiting' \cap read' \subseteq said'
      BY <1>1, <2>2, <2>3 DEF LifeOK
    <3>5. waiting' \cap handed' \subseteq queue' \cup read' \cup cleared' \cup Beginning'
      BY <1>1, <2>2, <2>3, <2>4 DEF LifeOK
    <3> QED BY <1>1, <2>3, <2>4, <2>6, <3>1, <3>2, <3>3, <3>4, <3>5 DEF LifeOK
  <2>8. MarksOK'
    <3>1. waiting' \subseteq Unsettled'
      BY <1>1, <2>2, <2>3 DEF MarksOK, Unsettled, Marked, RowsGrow, S
    <3>2. \A i \in read' : rows'[i].mark # "gone"
      <4>1. ASSUME NEW i \in read', i # own  PROVE rows'[i].mark # "gone"
        BY <1>1, <2>2, <4>1 DEF MarksOK, LifeOK, Marked, S
      <4>2. ASSUME own \in read'  PROVE rows'[own].mark # "gone"
        <5>1. m = "taken"
          BY <2>2, <2>4, <4>2
        <5>2. rows[own].mark # "gone"
          BY <1>1, <2>4 DEF MarksOK, Flying
        <5> QED BY <2>2, <2>4, <5>1, <5>2 DEF Marked
      <4> QED BY <4>1, <4>2
    <3> QED BY <1>1, <2>3, <2>6, <3>1, <3>2 DEF MarksOK, Serving
  <2>9. RowsGrow /\ Counted \subseteq Counted'
    BY <2>2, <2>5 DEF Marked, RowsGrow, Counted, Sent, Unsettled
  <2>10. OfferedOK'
    BY <1>1, <2>2, <2>3, <2>6, <2>9, OfferedFrame DEF Marked
  <2>11. ShownOK'
    <3>1. ASSUME NEW i \in DOMAIN rows', rows'[i].mark = "taken", i \notin read' \cup cleared'
          PROVE  i \in DOMAIN rows /\ rows[i].mark = "taken" /\ i \notin read \cup cleared
      <4>1. i \notin S
        BY <2>2, <3>1 DEF S, Marked
      <4> QED BY <2>2, <2>3, <3>1, <4>1 DEF Marked
    <3>2. ASSUME NEW j \in written, rows[j].mark \in {"unsent", "unsure"}
          PROVE  j \in written' /\ rows'[j].mark \in {"unsent", "unsure"}
      BY <1>1, <2>2, <2>3, <2>5, <3>2 DEF Marked, LifeOK, Unsettled
    <3> QED BY <1>1, <1>2, <2>9, <3>1, <3>2, ShownFrame DEF LifeOK
  <2> QED BY <1>2, <2>7, <2>8, <2>10, <2>11 DEF TellInv
<1>5. CASE PreflightEnds \/ PiReads \/ PiWrites \/ PiSettles
  <2>1. UNCHANGED <<rows, cleared, waiting, handed, orphans, lost>>
    BY <1>5 DEF PreflightEnds, PiReads, PiWrites, PiSettles
  <2>2. RowsGrow /\ Counted' = Counted /\ Unsettled' = Unsettled
    BY <2>1 DEF RowsGrow, Counted, Sent, Unsettled
  <2>3. /\ Flying' \subseteq Flying /\ written \subseteq written' /\ written' \subseteq written \cup Flying
        /\ read \subseteq read' /\ read' \subseteq read \cup Flying
    <3>1. CASE PreflightEnds
      BY <3>1 DEF PreflightEnds, TakesIn, Flying, Beginning
    <3>2. CASE PiReads
      BY <1>3, <3>2 DEF PiReads, TakesIn, Flying, Beginning
    <3>3. CASE PiWrites
      BY <1>3, <3>3 DEF PiWrites, Flying, Beginning
    <3>4. CASE PiSettles
      BY <3>4 DEF PiSettles, Flying, Beginning
    <3> QED BY <1>5, <3>1, <3>2, <3>3, <3>4
  <2>4. LifeOK'
    <3>1. CASE PreflightEnds
      BY <1>1, <2>1, <3>1 DEF PreflightEnds, TakesIn, LifeOK, Beginning
    <3>2. CASE PiReads
      BY <1>1, <1>3, <2>1, <3>2 DEF PiReads, TakesIn, LifeOK, Beginning
    <3>3. CASE PiWrites
      BY <1>1, <1>3, <2>1, <3>3 DEF PiWrites, LifeOK, Beginning
    <3>4. CASE PiSettles
      BY <1>1, <2>1, <3>4 DEF PiSettles, LifeOK, Beginning
    <3> QED BY <1>5, <3>1, <3>2, <3>3, <3>4
  <2>5. MarksOK'
    <3>1. \A i \in Flying' : rows'[i].mark \in {"none", "taken"}
      BY <1>1, <2>1, <2>3 DEF MarksOK
    <3>2. \A i \in read' : rows'[i].mark # "gone"
      BY <1>1, <2>1, <2>3 DEF MarksOK
    <3> QED BY <1>1, <2>1, <2>2, <3>1, <3>2 DEF MarksOK
  <2>6. OfferedOK'
    <3>1. ASSUME NEW i \in DOMAIN rows', rows'[i].mark = "unsent", i \in written'
          PROVE  i \in DOMAIN rows /\ rows[i].mark = "unsent" /\ i \in written
      BY <1>1, <2>1, <2>3, <3>1 DEF MarksOK
    <3> QED BY <1>1, <2>2, <2>3, <3>1, OfferedFrame
  <2>7. ShownOK'
    BY <1>1, <1>2, <2>1, <2>2, <2>3, ShownFrame DEF LifeOK
  <2> QED BY <1>2, <2>4, <2>5, <2>6, <2>7 DEF TellInv
<1> QED BY <1>4, <1>5, PiStep DEF PiStep

\* What is heard to have been taken in was, and so was what has left the queue.
LEMMA HearTells ==
  ASSUME IInv, TellInv, HearStep
  PROVE  TellInv'
<1> USE DEF db, pi, recovery, memory, history
<1>1. /\ server' = server /\ Serving /\ TypeOK /\ LifeOK /\ MarksOK /\ OfferedOK /\ ShownOK
      /\ said \subseteq Ids
  BY DEF IInv, TypeOK, TellInv, HearStep, HearRead, HearSettled, Serving
<1>2. CountOK' /\ ~Off
  BY <1>1 DEF CountOK, Off, Serving
<1>3. PICK S : /\ rows' = Mark(S, "taken") /\ S \subseteq waiting /\ S \subseteq read \cup cleared
               /\ waiting' = waiting \ S /\ waiting' \cap read \subseteq said'
  <2>1. CASE HearRead
    <3>1. First(said) \in said
      BY <1>1, <2>1, FirstId DEF HearRead
    <3>2. /\ rows' = Mark({First(said)} \cap waiting, "taken")
          /\ waiting' = waiting \ ({First(said)} \cap waiting) /\ said' = said \ {First(said)}
      BY <2>1 DEF HearRead
    <3>3. {First(said)} \cap waiting \subseteq read /\ waiting' \cap read \subseteq said'
      BY <1>1, <3>1, <3>2 DEF LifeOK
    <3> QED BY <3>2, <3>3
  <2>2. CASE HearSettled
    <3>1. Beginning = {} /\ said' = said
      BY <1>1, <2>2 DEF HearSettled, LifeOK, Beginning
    <3>2. /\ rows' = Mark((waiting \cap handed) \ queue, "taken")
          /\ waiting' = waiting \ ((waiting \cap handed) \ queue)
      BY <2>2 DEF HearSettled
    <3>3. (waiting \cap handed) \ queue \subseteq read \cup cleared
      BY <1>1, <3>1 DEF LifeOK
    <3>4. waiting' \cap read \subseteq said'
      BY <1>1, <3>1, <3>2 DEF LifeOK
    <3> QED BY <3>2, <3>3, <3>4
  <2> QED BY <2>1, <2>2, HearStep DEF HearStep
<1>4. Marked(S, "taken")
  BY <1>1, <1>3, MarkMarks DEF Marks
<1>5. /\ UNCHANGED <<written, run, own, queue, unwritten, handed, orphans, lost, read, cleared>>
      /\ said' \subseteq said /\ (settled' => settled)
  BY DEF HearStep, HearRead, HearSettled
<1>6. Flying' = Flying /\ Beginning' = Beginning
  BY <1>5 DEF Flying, Beginning
<1>7. S \subseteq Unsettled /\ S \subseteq DOMAIN rows
  BY <1>1, <1>3 DEF MarksOK, Unsettled
<1>8. LifeOK'
  <2>1. written' \cup unwritten' \cup said' \subseteq read'
    BY <1>1, <1>5 DEF LifeOK
  <2>2. read' \cup waiting' \cup handed' \cup Beginning' \subseteq DOMAIN rows'
    BY <1>1, <1>3, <1>4, <1>5, <1>6 DEF LifeOK, Marked
  <2>3. /\ (queue' \cup Beginning' \cup (waiting' \ handed')) \cap read' = {}
        /\ (waiting' \ handed') \cap Beginning' = {}
        /\ waiting' \cap handed' \subseteq queue' \cup read' \cup cleared' \cup Beginning'
    BY <1>1, <1>3, <1>5, <1>6 DEF LifeOK
  <2> QED BY <1>1, <1>3, <1>5, <2>1, <2>2, <2>3 DEF LifeOK
<1>9. MarksOK'
  <2>1. waiting' \subseteq Unsettled'
    BY <1>1, <1>3, <1>4 DEF MarksOK, Unsettled, Marked, RowsGrow
  <2>2. /\ \A i \in Flying' : rows'[i].mark \in {"none", "taken"}
        /\ \A i \in read' : rows'[i].mark # "gone"
    <3>1. Flying \subseteq DOMAIN rows /\ read \subseteq DOMAIN rows
      BY <1>1 DEF Flying, LifeOK
    <3> QED BY <1>1, <1>4, <1>5, <1>6, <3>1 DEF MarksOK, Marked
  <2> QED BY <1>1, <1>5, <2>1, <2>2 DEF MarksOK, Serving
<1>10. RowsGrow /\ Counted \subseteq Counted'
  BY <1>4, <1>7 DEF Marked, RowsGrow, Counted, Sent, Unsettled
<1>11. OfferedOK'
  BY <1>1, <1>4, <1>5, <1>6, <1>10, OfferedFrame DEF Marked
<1>12. ShownOK'
  <2>1. ASSUME NEW i \in DOMAIN rows', rows'[i].mark = "taken", i \notin read' \cup cleared'
        PROVE  i \in DOMAIN rows /\ rows[i].mark = "taken" /\ i \notin read \cup cleared
    BY <1>3, <1>4, <1>5, <2>1 DEF Marked
  <2>2. ASSUME NEW j \in written, rows[j].mark \in {"unsent", "unsure"}
        PROVE  j \in written' /\ rows'[j].mark \in {"unsent", "unsure"}
    BY <1>1, <1>4, <1>5, <1>7, <2>2 DEF Marked, LifeOK, Unsettled
  <2> QED BY <1>1, <1>2, <1>10, <2>1, <2>2, ShownFrame DEF LifeOK
<1> QED BY <1>2, <1>8, <1>9, <1>11, <1>12 DEF TellInv

\* The end of the portal leaves nothing on its way, and what it tells was never sent
\* has not been.
LEMMA EndsTells ==
  ASSUME IInv, TellInv, Ends, Off => UNCHANGED rows,
         rows' = rows \/ (rows' = Mark(waiting, "unsent") /\ said = {})
  PROVE  TellInv'
<1> USE DEF db, pi, recovery, memory, history
<1>1. TypeOK /\ LifeOK /\ MarksOK /\ OfferedOK /\ ShownOK /\ (Off => OffOK)
  BY DEF IInv, TellInv
<1>2. PICK S : Marked(S, "unsent") /\ S \subseteq waiting /\ (S # {} => said = {})
               /\ (S = {} => rows' = rows)
  <2>1. CASE rows' = rows
    <3>1. Marked({}, "unsent")
      BY <2>1 DEF Marked, RowsGrow
    <3> QED BY <2>1, <3>1
  <2>2. CASE rows' = Mark(waiting, "unsent") /\ said = {} /\ rows' # rows
    <3>1. Marked(waiting, "unsent")
      BY <1>1, <2>2, MarkMarks DEF Marks
    <3>2. waiting # {}
      <4>1. Mark({}, "unsent") = [i \in DOMAIN rows |-> rows[i]]
        BY DEF Mark
      <4>2. rows = [i \in DOMAIN rows |-> rows[i]]
        BY <1>1 DEF TypeOK
      <4> QED BY <2>2, <4>1, <4>2
    <3> QED BY <2>2, <3>1, <3>2
  <2> QED BY <2>1, <2>2
<1>3. /\ run' = "none" /\ queue' = {} /\ unwritten' = {} /\ said' = {} /\ settled' = FALSE
      /\ server' = "down" /\ waiting' = {} /\ handed' = {} /\ orphans' = {} /\ lost' = {}
      /\ read' = read /\ cleared' = cleared
  BY DEF Ends
<1>4. written \subseteq written' /\ written' \subseteq written \cup unwritten
  BY DEF Ends, LastWrites
<1>5. Flying' = {} /\ Beginning' = {} /\ Off'
  BY <1>3 DEF Flying, Beginning, Off
<1>6. LifeOK'
  BY <1>1, <1>2, <1>3, <1>4, <1>5 DEF LifeOK, Marked
<1>7. S \cap written' = {}
  BY <1>1, <1>2, <1>4 DEF LifeOK
<1>8. S \subseteq Unsettled /\ S \subseteq DOMAIN rows
  BY <1>1, <1>2 DEF MarksOK, Unsettled
<1>9. MarksOK'
  <2>1. \A i \in read' : rows'[i].mark # "gone"
    BY <1>1, <1>2, <1>3 DEF MarksOK, LifeOK, Marked
  <2> QED BY <1>3, <1>5, <2>1 DEF MarksOK
<1>10. CountOK'
  BY <1>3 DEF CountOK
<1>11. RowsGrow /\ Counted \subseteq Counted'
  BY <1>2, <1>8 DEF Marked, RowsGrow, Counted, Sent, Unsettled
<1>12. OfferedOK'
  <2>1. ASSUME NEW i \in DOMAIN rows', rows'[i].mark = "unsent", i \in written'
        PROVE  i \in DOMAIN rows /\ rows[i].mark = "unsent" /\ i \in written
    <3>1. i \in DOMAIN rows /\ rows[i].mark = "unsent"
      BY <1>2, <1>7, <2>1 DEF Marked
    <3>2. i \notin unwritten
      BY <1>1, <3>1 DEF MarksOK, Flying
    <3> QED BY <1>4, <2>1, <3>1, <3>2
  <2>2. ASSUME NEW j \in Counted \ (written \cup Flying)
        PROVE  j \in Counted' /\ j \notin (written \cup Flying)'
    BY <1>4, <1>5, <1>11, <2>2 DEF Flying
  <2> QED BY <1>1, <1>11, <2>1, <2>2, OfferedFrame
<1>13. ShownOK'
  <2>1. ASSUME NEW i \in DOMAIN rows', rows'[i].mark = "taken", i \notin read' \cup cleared'
        PROVE  i \in DOMAIN rows /\ rows[i].mark = "taken" /\ i \notin read \cup cleared
    BY <1>2, <1>3, <2>1 DEF Marked
  <2>2. ASSUME NEW j \in written, rows[j].mark \in {"unsent", "unsure"}
        PROVE  j \in written' /\ rows'[j].mark \in {"unsent", "unsure"}
    BY <1>1, <1>2, <1>4, <1>8, <2>2 DEF Marked, LifeOK, Unsettled
  <2>3. Off => unwritten = {}
    BY <1>1 DEF OffOK, LifeOK
  <2>4. Off => Off' /\ UNCHANGED <<rows, written>>
    BY <1>4, <1>5, <2>3
  <2> QED BY <1>1, <1>11, <2>1, <2>2, <2>4, ShownFrame DEF LifeOK
<1> QED BY <1>6, <1>9, <1>10, <1>12, <1>13 DEF TellInv

\* The portal crashes, or is stopped step by step.
LEMMA EndTells ==
  ASSUME IInv, TellInv, EndStep
  PROVE  TellInv'
<1> USE DEF db, pi, recovery, memory, history
<1>1. CASE Crash
  BY <1>1, EndsTells DEF Crash
<1>2. CASE ShutdownIdle \/ AbortsAlone \/ StopsLast
  <2>1. Ends /\ ~Off /\ rows' = Mark(waiting, "unsent") /\ said = {}
    BY <1>2 DEF ShutdownIdle, AbortsAlone, StopsLast, AbortOver, StopPi, Off
  <2> QED BY <2>1, EndsTells
<1>3. CASE Shutdown \/ AbortsFirst
  <2>1. /\ server \in {"up", "closing"} /\ server' \in {"closing", "stopping"}
        /\ UNCHANGED <<rows, written, own, unwritten, said, settled, waiting, handed, orphans, lost, read>>
        /\ run' \in {run, "aborted"} /\ (run' # run => run = "going")
        /\ queue' = {} /\ cleared' = cleared \cup queue
        /\ Shutdown \/ run' = run \/ run' = "aborted"
    BY <1>3 DEF Shutdown, AbortsFirst, AbortOver, TellInv, LifeOK
  <2>2. LifeOK /\ MarksOK /\ OfferedOK /\ ShownOK
    BY DEF TellInv
  <2>3. Flying' \subseteq Flying /\ Beginning' = Beginning
    BY <2>1 DEF Flying, Beginning
  <2>4. RowsGrow /\ Counted' = Counted /\ Unsettled' = Unsettled
    BY <2>1 DEF RowsGrow, Counted, Sent, Unsettled
  <2>5. LifeOK'
    BY <2>1, <2>2, <2>3 DEF LifeOK
  <2>6. MarksOK' /\ CountOK'
    BY <2>1, <2>2, <2>3, <2>4 DEF MarksOK, CountOK
  <2>7. OfferedOK'
    BY <2>1, <2>2, <2>3, <2>4, OfferedFrame
  <2>8. ShownOK'
    BY <2>1, <2>2, <2>4, ShownFrame DEF LifeOK, Off
  <2> QED BY <2>5, <2>6, <2>7, <2>8 DEF TellInv
<1> QED BY <1>1, <1>2, <1>3, EndStep DEF EndStep

\* While the portal is off nothing is on its way, and what pi wrote it had taken in.
LEMMA NothingFlies ==
  ASSUME IInv, TellInv, Off
  PROVE  Flying = {} /\ Beginning = {} /\ waiting = {} /\ OffOK
BY DEF IInv, TellInv, OffOK, LifeOK, Flying, Beginning

\* A message that counts and is not in the file, where the file has as many of its
\* words as count, leaves one in the file that does not.
LEMMA OneNotCounted ==
  ASSUME IInv, TellInv, NEW i \in Counted, i \notin written,
         CountOf(written, rows[i].words) >= CountOf(Counted, rows[i].words)
  PROVE  \E j \in written \ Counted : Twins(i, j)
<1> DEFINE w == rows[i].words
<1>1. TypeOK
  BY DEF IInv
<1>2. \E j \in Saying(written, w) : j \notin Saying(Counted, w)
  <2>1. i \in Saying(Counted, w) /\ i \notin Saying(written, w)
    BY DEF Saying
  <2>2. /\ IsFiniteSet(Saying(written, w)) /\ IsFiniteSet(Saying(Counted, w))
        /\ Cardinality(Saying(Counted, w)) <= Cardinality(Saying(written, w))
    BY <1>1, SayingFinite
  <2> HIDE DEF w
  <2> QED BY <2>1, <2>2, Pigeonhole
<1> QED BY <1>2 DEF Saying, Twins

\* And the other way about.
LEMMA OneNotWritten ==
  ASSUME IInv, TellInv, NEW i \in written, i \notin Counted,
         CountOf(written, rows[i].words) <= CountOf(Counted, rows[i].words)
  PROVE  \E j \in Counted \ written : Twins(i, j)
<1> DEFINE w == rows[i].words
<1>1. TypeOK
  BY DEF IInv
<1>2. \E j \in Saying(Counted, w) : j \notin Saying(written, w)
  <2>1. i \in Saying(written, w) /\ i \notin Saying(Counted, w)
    BY DEF Saying
  <2>2. /\ IsFiniteSet(Saying(written, w)) /\ IsFiniteSet(Saying(Counted, w))
        /\ Cardinality(Saying(written, w)) <= Cardinality(Saying(Counted, w))
    BY <1>1, SayingFinite
  <2> HIDE DEF w
  <2> QED BY <2>1, <2>2, Pigeonhole
<1> QED BY <1>2 DEF Saying, Twins

\* A message of which nothing was found is told of as such: what shows in its stead
\* is one of the same words that counts, and is not in the file.
LEMMA RestIsTold ==
  ASSUME IInv, TellInv, NEW m \in {"unsent", "unsure"}, Off, server' = "up",
         rows' = Mark(Unsettled, m), m = "unsent" => server = "settling" /\ orphans = {},
         UNCHANGED <<written, run, own, queue, unwritten, said, settled, waiting, handed, read, cleared>>,
         orphans' = {}, lost' = {}
  PROVE  TellInv'
<1>1. TypeOK /\ LifeOK /\ MarksOK /\ CountOK /\ OfferedOK /\ ShownOK
  BY DEF IInv, TellInv
<1>2. Flying = {} /\ Beginning = {} /\ waiting = {} /\ OffOK
  BY NothingFlies
<1>3. Marked(Unsettled, m)
  BY <1>1, MarkMarks DEF Marks
<1>4. Flying' = {} /\ Beginning' = {}
  BY <1>2 DEF Flying, Beginning
<1>5. LifeOK'
  BY <1>1, <1>2, <1>3, <1>4 DEF LifeOK, Marked
<1>6. MarksOK' /\ CountOK'
  BY <1>1, <1>2, <1>3, <1>4 DEF MarksOK, LifeOK, Marked, CountOK
<1>7. RowsGrow /\ Counted' = Counted
  BY <1>3 DEF Marked, RowsGrow, Counted, Sent, Unsettled
<1>8. OfferedOK'
  <2> SUFFICES ASSUME NEW i \in DOMAIN rows, rows'[i].mark = "unsent", i \in written
               PROVE  \E j \in Counted : Twins(i, j) /\ j \notin written
    <3>1. \A i, j \in DOMAIN rows : Twins(i, j) => Twins(i, j)'
      BY <1>7 DEF Twins, RowsGrow
    <3> QED BY <1>3, <1>4, <1>7, <3>1 DEF OfferedOK, Marked, Counted, Sent
  <2>1. CASE rows[i].mark = "unsent"
    BY <1>1, <2>1 DEF OfferedOK
  <2>2. CASE rows[i].mark # "unsent"
    <3>1. i \in Unsettled /\ m = "unsent"
      BY <1>3, <2>2 DEF Marked
    <3>2. i \in lost
      BY <1>1, <3>1 DEF MarksOK
    <3>3. rows[i].words \in Words
      BY <1>1, RowSays
    <3>4. Left[rows[i].words] <= 0
      BY <1>1, <3>1, <3>2 DEF CountOK
    <3>5. CountOf(written, rows[i].words) <= CountOf(Counted, rows[i].words)
      BY <1>1, <3>3, <3>4, LeftIs, SayingFinite
    <3>6. i \notin Counted
      BY <3>1 DEF Counted
    <3> QED BY <3>5, <3>6, OneNotWritten
  <2> QED BY <2>1, <2>2
<1>9. ShownOK'
  <2> SUFFICES ASSUME NEW i \in DOMAIN rows, rows'[i].mark = "taken", i \notin read \cup cleared
               PROVE  \E j \in written : Twins(i, j)' /\ rows'[j].mark \in {"unsent", "unsure"}
    BY <1>3 DEF ShownOK, Marked
  <2>1. rows[i].mark = "taken"
    BY <1>3 DEF Marked
  <2>2. CASE \E j \in written : Twins(i, j) /\ rows[j].mark \in {"unsent", "unsure"}
    BY <1>1, <1>3, <2>2 DEF Twins, Marked, RowsGrow, LifeOK, Unsettled
  <2>3. CASE CountOf(written, rows[i].words) >= CountOf(Counted, rows[i].words)
    <3>1. i \in Counted /\ i \notin written
      BY <1>1, <2>1 DEF Counted, Sent, Unsettled, LifeOK
    <3>2. PICK j \in written \ Counted : Twins(i, j)
      BY <2>3, <3>1, OneNotCounted
    <3>3. rows[j].mark # "gone" /\ j \in DOMAIN rows
      BY <1>1, <3>2 DEF MarksOK, LifeOK
    <3>4. rows'[j].mark \in {"unsent", "unsure"}
      BY <1>3, <3>2, <3>3 DEF Marked, Counted, Sent
    <3> QED BY <1>3, <3>2, <3>3, <3>4 DEF Twins, Marked, RowsGrow
  <2> QED BY <1>1, <2>1, <2>2, <2>3 DEF ShownOK
<1> QED BY <1>5, <1>6, <1>8, <1>9 DEF TellInv

\* One that is found takes its words from what is left of the file.
LEMMA TakenIsTold ==
  ASSUME IInv, TellInv, SettleTaken
  PROVE  TellInv'
<1> USE DEF db, pi, recovery, memory, history
<1> DEFINE o == Oldest
           w == rows[o].words
<1>1. TypeOK /\ LifeOK /\ MarksOK /\ CountOK /\ OfferedOK /\ ShownOK /\ left \in [Words -> Int]
  BY TypeParts DEF IInv, TellInv, LeftOK
<1>2. /\ server = "settling" /\ server' = "settling" /\ Off /\ Off'
      /\ left[w] > 0 /\ rows' = Mark({o}, "taken")
      /\ left' = [left EXCEPT ![w] = @ - 1]
      /\ orphans' = orphans \ {o} /\ lost' = lost
      /\ UNCHANGED <<written, run, own, queue, unwritten, said, settled, waiting, handed, read, cleared>>
  BY DEF SettleTaken, Off
<1>3. o \in orphans
  BY <1>1, FirstId DEF SettleTaken, Oldest, TypeOK
<1>4. Flying = {} /\ Beginning = {} /\ waiting = {} /\ OffOK /\ Flying' = {} /\ Beginning' = {}
  <2>1. Flying = {} /\ Beginning = {} /\ waiting = {} /\ OffOK
    BY <1>2, NothingFlies
  <2> QED BY <1>2, <2>1 DEF Flying, Beginning
<1>5. Marked({o}, "taken")
  BY <1>1, <1>2, MarkMarks DEF Marks
<1>6. o \in Unsettled /\ o \in DOMAIN rows /\ o \notin lost
  BY <1>1, <1>2, <1>3 DEF MarksOK, Unsettled
<1>7. w \in Words
  BY <1>1, <1>6, RowSays
<1> HIDE DEF o, w
<1>8. LifeOK'
  BY <1>1, <1>2, <1>4, <1>5 DEF LifeOK, Marked
<1>9. MarksOK'
  <2>1. Unsettled' = Unsettled \ {o}
    BY <1>5 DEF Unsettled, Marked, RowsGrow
  <2>2. \A i \in read' : rows'[i].mark # "gone"
    BY <1>1, <1>2, <1>5 DEF MarksOK, LifeOK, Marked
  <2> QED BY <1>1, <1>2, <1>4, <1>6, <2>1, <2>2 DEF MarksOK
<1>10. RowsGrow /\ Counted' = Counted \cup {o} /\ o \notin Counted
  BY <1>5, <1>6 DEF Marked, RowsGrow, Counted, Sent, Unsettled
<1>11. \A i \in DOMAIN rows : rows'[i].words = rows[i].words
  BY <1>10 DEF RowsGrow
<1>12. Counted \subseteq DOMAIN rows /\ written \subseteq DOMAIN rows
  BY <1>1 DEF Counted, Sent, LifeOK
\* Only the words of the one that was found count once more.
<1>13. ASSUME NEW x
       PROVE  /\ CountOf(written, x)' = CountOf(written, x)
              /\ CountOf(Counted, x)' = IF x = w THEN CountOf(Counted, x) + 1 ELSE CountOf(Counted, x)
  <2>1. Saying(written, x)' = Saying(written, x)
    BY <1>2, <1>11, <1>12 DEF Saying
  <2>2. Saying(Counted, x)' = IF x = w THEN Saying(Counted, x) \cup {o} ELSE Saying(Counted, x)
    BY <1>6, <1>10, <1>11, <1>12 DEF Saying, w
  <2>3. o \notin Saying(Counted, x)
    BY <1>10 DEF Saying
  <2>4. /\ IsFiniteSet(Saying(Counted, x)) /\ CountOf(written, x) = Cardinality(Saying(written, x))
        /\ CountOf(Counted, x) = Cardinality(Saying(Counted, x))
    BY <1>1, SayingFinite
  <2>5. /\ CountOf(written, x)' = Cardinality(Saying(written, x)')
        /\ CountOf(Counted, x)' = Cardinality(Saying(Counted, x)')
    BY DEF CountOf, Saying
  <2>6. Cardinality(Saying(Counted, x) \cup {o}) = Cardinality(Saying(Counted, x)) + 1
    BY <2>3, <2>4, FS_AddElement
  <2> QED BY <2>1, <2>2, <2>4, <2>5, <2>6
<1>14. \A x \in Words : CountOf(written, x) \in Nat /\ CountOf(Counted, x) \in Nat
                        /\ left[x] = CountOf(written, x) - CountOf(Counted, x)
  BY <1>1, <1>2, SayingFinite, LeftIs DEF CountOK
<1>15. \A x \in Words : left'[x] = IF x = w THEN left[x] - 1 ELSE left[x]
  BY <1>1, <1>2
<1>16. CountOK'
  <2>1. left' \in [Words -> Int]
    <3>1. left' = [x \in Words |-> IF x = w THEN left[x] - 1 ELSE left[x]]
      BY <1>1, <1>2, Zenon
    <3>2. \A x \in Words : left[x] \in Int /\ left[x] - 1 \in Int
      BY <1>1
    <3> QED BY <3>1, <3>2
  <2>2. ASSUME NEW x \in Words
        PROVE  left'[x] = CountOf(written, x)' - CountOf(Counted, x)'
    BY <1>13, <1>14, <1>15
  <2>3. Left' = [x \in Words |-> CountOf(written, x)' - CountOf(Counted, x)']
    BY DEF Left, Counted
  <2>4. left' = Left'
    BY <2>1, <2>2, <2>3
  <2>5. ASSUME NEW i \in lost'  PROVE left'[rows'[i].words] <= 0
    <3>1. i \in DOMAIN rows /\ rows[i].words \in Words /\ left[rows[i].words] <= 0
      BY <1>1, <1>2, <2>5, RowSays DEF CountOK, MarksOK, Unsettled
    <3>2. rows[i].words # w /\ rows'[i].words = rows[i].words
      <4>1. left[w] \in Int /\ left[w] > 0
        BY <1>1, <1>2, <1>7
      <4> QED BY <1>11, <3>1, <4>1
    <3> QED BY <1>15, <3>1, <3>2
  <2> QED BY <2>4, <2>5 DEF CountOK
<1>17. OfferedOK'
  BY <1>1, <1>2, <1>4, <1>5, <1>10, OfferedFrame DEF Marked
<1>18. ShownOK'
  <2> SUFFICES ASSUME NEW i \in DOMAIN rows, rows'[i].mark = "taken", i \notin read \cup cleared
               PROVE  \/ \E j \in written : Twins(i, j)' /\ rows'[j].mark \in {"unsent", "unsure"}
                      \/ CountOf(written, rows[i].words)' >= CountOf(Counted, rows[i].words)'
    BY <1>2, <1>5 DEF ShownOK, Marked
  <2>0. rows[i].words \in Words /\ rows'[i].words = rows[i].words
    BY <1>1, <1>11, RowSays
  <2>1. CASE rows[i].words = w
    <3>1. left[w] \in Int /\ left[w] > 0
      BY <1>1, <1>2, <1>7
    <3>2. CountOf(written, w) >= CountOf(Counted, w) + 1
      BY <1>7, <1>14, <3>1
    <3> QED BY <1>13, <2>0, <2>1, <3>2
  <2>2. CASE rows[i].words # w
    <3>1. rows[i].mark = "taken"
      BY <1>5, <2>2 DEF Marked, w
    <3>2. CASE CountOf(written, rows[i].words) >= CountOf(Counted, rows[i].words)
      BY <1>13, <2>0, <2>2, <3>2
    <3>3. CASE \E j \in written : Twins(i, j) /\ rows[j].mark \in {"unsent", "unsure"}
      BY <1>5, <1>6, <1>11, <1>12, <3>3 DEF Twins, Marked, Unsettled
    <3> QED BY <1>1, <3>1, <3>2, <3>3 DEF ShownOK
  <2> QED BY <2>1, <2>2
<1> QED BY <1>8, <1>9, <1>16, <1>17, <1>18 DEF TellInv

\* The next start: what it reads, finds and does not find.
LEMMA BootTells ==
  ASSUME IInv, TellInv, BootStep
  PROVE  TellInv'
<1> USE DEF db, pi, recovery, memory, history
<1>1. TypeOK /\ LifeOK /\ MarksOK /\ CountOK /\ OfferedOK /\ ShownOK
  BY DEF IInv, TellInv
<1>2. CASE Boot \/ Recall \/ SettleLost
  <2>1. /\ Off /\ Off' /\ server' # "up" /\ server \notin {"closing", "stopping"}
        /\ server' \notin {"closing", "stopping"}
        /\ UNCHANGED <<rows, written, run, own, queue, unwritten, said, settled, waiting, handed, read, cleared>>
    BY <1>2 DEF Boot, Recall, SettleLost, Off
  <2>2. RowsGrow /\ Counted' = Counted /\ Unsettled' = Unsettled /\ Left' = Left
    BY <2>1 DEF RowsGrow, Counted, Sent, Unsettled, Left, CountOf
  <2>3. Flying' = Flying /\ Beginning' = Beginning
    BY <2>1 DEF Flying, Beginning
  <2>4. LifeOK'
    BY <1>1, <2>1, <2>3 DEF LifeOK
  <2>5. MarksOK'
    <3>1. CASE Boot
      BY <1>1, <2>1, <2>2, <2>3, <3>1 DEF Boot, MarksOK
    <3>2. CASE Recall
      BY <1>1, <2>1, <2>2, <2>3, <3>2 DEF Recall, MarksOK
    <3>3. CASE SettleLost
      <4>1. Oldest \in orphans
        BY <1>1, <3>3, FirstId DEF SettleLost, Oldest, TypeOK
      <4> QED BY <1>1, <2>1, <2>2, <2>3, <3>3, <4>1 DEF SettleLost, MarksOK
    <3> QED BY <1>2, <3>1, <3>2, <3>3
  <2>6. CountOK'
    BY <1>1, <1>2, <2>1, <2>2 DEF Boot, Recall, SettleLost, CountOK
  <2>7. OfferedOK'
    BY <1>1, <2>1, <2>2, <2>3, OfferedFrame
  <2>8. ShownOK'
    BY <1>1, <2>1, <2>2, ShownFrame DEF LifeOK
  <2> QED BY <2>4, <2>5, <2>6, <2>7, <2>8 DEF TellInv
<1>3. CASE RecallFails
  <2>1. server # "settling" /\ Off
    BY <1>3 DEF RecallFails, Off
  <2>2. orphans = {} /\ lost = {}
    BY <1>1, <2>1 DEF MarksOK
  <2> QED BY <1>3, <2>1, <2>2, RestIsTold DEF RecallFails
<1>4. CASE SettleTaken
  BY <1>4, TakenIsTold
<1>5. CASE Recovered
  <2>1. server = "settling" /\ Off /\ orphans = {} /\ lost = Unsettled
    BY <1>1, <1>5 DEF Recovered, Off, MarksOK
  <2> QED BY <1>5, <2>1, RestIsTold DEF Recovered
<1> QED BY <1>2, <1>3, <1>4, <1>5, BootStep DEF BootStep

\* Nothing is told at first.
LEMMA TellInit == Init => TellInv
<1> SUFFICES ASSUME Init  PROVE TellInv
  OBVIOUS
<1>1. DOMAIN rows = {} /\ Flying = {} /\ Beginning = {} /\ server = "up"
  BY DEF Init, Flying, Beginning
<1>2. LifeOK
  BY <1>1 DEF Init, LifeOK
<1> QED BY <1>1, <1>2 DEF Init, TellInv, MarksOK, CountOK, OfferedOK, ShownOK

\* Every step keeps to what is told.
LEMMA TellStep == IInv /\ TellInv /\ [Next]_vars => TellInv'
<1> SUFFICES ASSUME IInv, TellInv, [Next]_vars  PROVE TellInv'
  OBVIOUS
<1>1. CASE Next
  BY <1>1, SendTells, PiTells, HearTells, EndTells, BootTells DEF Next
<1>2. CASE UNCHANGED vars
  BY <1>2
    DEF vars, db, pi, recovery, memory, history, TellInv, LifeOK, MarksOK, CountOK, OfferedOK, ShownOK,
        Flying, Beginning, Counted, Sent, Unsettled, Left, CountOf, Twins, Off
<1> QED BY <1>1, <1>2

\* Both invariants hold in every reachable state.
LEMMA Told == Spec => [](IInv /\ TellInv)
BY InitOK, InvStep, TellInit, TellStep, PTL DEF Spec

\* However many messages there are, in whatever words, and wherever the portal was cut
\* off: one that is offered again as not sent is not in pi's history, but for one whose
\* place another in the same words has taken that is not there (settleOrphanedMessages).
THEOREM OfferedIsUnread == Spec => []OfferedUnread
<1>1. ASSUME IInv, TellInv  PROVE OfferedUnread
  <2> SUFFICES ASSUME server = "up", NEW i \in DOMAIN rows, rows[i].mark = "unsent", i \in written
               PROVE  \E j \in DOMAIN rows : Twins(i, j) /\ rows[j].mark \in {"none", "taken"} /\ j \notin written
    BY DEF OfferedUnread
  <2>1. PICK j \in Counted : Twins(i, j) /\ j \notin written \cup Flying
    BY <1>1 DEF TellInv, OfferedOK
  <2>2. rows[j].mark \in Marks
    BY <1>1, RowSays DEF IInv, Counted, Sent
  <2> QED BY <2>1, <2>2 DEF Counted, Sent, Marks
<1>2. IInv /\ TellInv => OfferedUnread
  BY <1>1
<1> QED BY <1>2, Told, PTL

\* And one that is shown as read was, but for one that took the place of another in the
\* same words, which is there (settleOrphanedMessages, settleWaiting, takeIn).
THEOREM ShownIsRead == Spec => []ShownReadIsRead
<1>1. ASSUME TellInv  PROVE ShownReadIsRead
  BY <1>1 DEF TellInv, ShownOK, LifeOK, ShownReadIsRead, Off
<1>2. TellInv => ShownReadIsRead
  BY <1>1
<1> QED BY <1>2, Told, PTL
=============================================================================
