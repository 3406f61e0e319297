--------------------------- MODULE RoutinesProofs ---------------------------
(* That a one-off is run once for its moment, that a new moment stands, that a
   folder is not removed under a run and that what is told of a routine is so, for
   any number of routines, slugs, deletes, changes and stops of the portal. *)
EXTENDS Routines, TLAPS, FiniteSetTheorems

\* No two routines there are have a slug in common.
SlugsOK == \A r, q \in rows : slug[r] = slug[q] => r = q

\* A run of a routine begins no earlier than any before it.
TimesOK ==
  /\ \A r \in Routines : lastRun[r] <= now
  /\ \A x \in runs : x.began <= now

\* A one-off that its schedule has run for the moment it is set for has had that run.
ServedOK == \A r \in served : OneOffDone(r)

\* And so has one with a run of that moment under way, though it was set for another
\* moment meanwhile, and for the same again.
RunsDone ==
  \A x \in runs :
    x.moment # Recurring /\ x.began >= x.moment /\ runAt[x.of] = x.moment => OneOffDone(x.of)

\* A run that is asking is marked as in flight, and no other one is under its slug.
FlightOK ==
  \A x \in runs : x.at = "asking" =>
    /\ x.slug \in running
    /\ \A y \in runs : y.at = "asking" /\ y.slug = x.slug => y = x

\* How often a slug is held is how many deletes hold it.
Holding(s) == {d \in Deleters : del[d] = "stopping" /\ s \in known[d].slugs}
HeldOK == \A s \in Slugs : held[s] = Cardinality(Holding(s))

\* No run in the project is under a slug that a delete of it holds.
FolderOK ==
  \A d \in Deleters, x \in runs :
    del[d] = "stopping" /\ x.at = "asking" /\ x.in = "project" => x.slug \notin known[d].slugs

IInv == TypeOK /\ SlugsOK /\ TimesOK /\ ServedOK /\ RunsDone /\ FlightOK /\ HeldOK /\ FolderOK /\ RowsTellTrue
-----------------------------------------------------------------------------
(* The types, by parts. *)

RowsType ==
  /\ rows \subseteq Routines /\ on \subseteq Routines /\ served \subseteq Routines
  /\ slug \in [Routines -> Slugs] /\ place \in [Routines -> Places]
  /\ runAt \in [Routines -> {Recurring} \cup Moments] /\ lastRun \in [Routines -> {Never} \cup Moments]
  /\ status \in [Routines -> Statuses]

NextType == next \in [Routines -> {Never} \cup 1..Slot]
RunsType == running \subseteq Slugs /\ runs \subseteq RunOf
DelsType ==
  /\ held \in [Slugs -> Nat] /\ del \in [Deleters -> {"idle", "stopping", "done"}]
  /\ known \in [Deleters -> [all : SUBSET Routines, on : SUBSET Routines, slugs : SUBSET Slugs]]
PlainType ==
  /\ server \in {"up", "closing", "down"} /\ folder \in BOOLEAN
  /\ now \in Moments /\ changes \in 0..MaxChanges /\ stops \in 0..MaxStops

\* TypeOK, in the parts the steps disturb.
LEMMA TypeParts == TypeOK <=> RowsType /\ NextType /\ RunsType /\ DelsType /\ PlainType
BY DEF TypeOK, RowsType, NextType, RunsType, DelsType, PlainType

\* The same after a step.
LEMMA TypePartsNext == TypeOK' <=> RowsType' /\ NextType' /\ RunsType' /\ DelsType' /\ PlainType'
BY DEF TypeOK, RowsType, NextType, RunsType, DelsType, PlainType

\* The parts of the invariant.
LEMMA InvParts ==
  ASSUME IInv
  PROVE  /\ RowsType /\ NextType /\ RunsType /\ DelsType /\ PlainType
         /\ SlugsOK /\ TimesOK /\ ServedOK /\ RunsDone /\ FlightOK /\ HeldOK /\ FolderOK
         /\ NextIsTrue /\ RunningIsTrue
BY TypeParts DEF IInv, RowsTellTrue

\* The parts of the invariant after a step.
LEMMA InvPartsNext ==
  ASSUME RowsType', NextType', RunsType', DelsType', PlainType',
         SlugsOK', TimesOK', ServedOK', RunsDone', FlightOK', HeldOK', FolderOK',
         NextIsTrue', RunningIsTrue'
  PROVE  IInv'
BY TypePartsNext DEF IInv, RowsTellTrue

\* The bounds are numbers, and a moment is a time after the first.
LEMMA Bounds ==
  /\ MaxTime \in Nat \ {0} /\ MaxChanges \in Nat /\ MaxStops \in Nat
  /\ \A m \in Moments : m \in Nat /\ m # 0
  /\ Slot \in 1..Slot /\ Moments \subseteq 1..Slot
BY RoutinesAssumption DEF Moments, Slot

\* The moments a row has are numbers.
LEMMA Numbers ==
  ASSUME RowsType, NEW r \in Routines
  PROVE  /\ runAt[r] \in {Recurring} \cup Moments /\ lastRun[r] \in {Never} \cup Moments
         /\ runAt[r] \in Nat /\ lastRun[r] \in Nat
<1>1. runAt[r] \in {Recurring} \cup Moments /\ lastRun[r] \in {Never} \cup Moments
  BY DEF RowsType
<1>2. Recurring \in Nat /\ Never \in Nat
  BY DEF Recurring, Never
<1> QED BY <1>1, <1>2, Bounds

\* When a routine runs next, as it is worked out for some of them.
LEMMA Refreshed ==
  ASSUME NextType, RowsType', NEW S, Refresh(S)
  PROVE  /\ NextType'
         /\ \A r \in Routines : r \in S => next'[r] = WhenNext(r \in on', runAt'[r], lastRun'[r])
         /\ \A r \in Routines : r \notin S => next'[r] = next[r]
<1>1. ASSUME NEW b \in BOOLEAN, NEW at \in {Recurring} \cup Moments, NEW last
      PROVE  WhenNext(b, at, last) \in {Never} \cup 1..Slot
  BY Bounds DEF WhenNext
<1>2. \A r \in Routines : WhenNext(r \in on', runAt'[r], lastRun'[r]) \in {Never} \cup 1..Slot
  <2> TAKE r \in Routines
  <2>1. (r \in on') \in BOOLEAN /\ runAt'[r] \in {Recurring} \cup Moments
    BY DEF RowsType
  <2> HIDE DEF WhenNext
  <2> QED BY ONLY <1>1, <2>1, Zenon
<1> HIDE DEF WhenNext
<1> QED BY <1>2 DEF NextType, Refresh

\* It is told truly where it is worked out for all that have changed, and those
\* with a run under way.
LEMMA TellsNext ==
  ASSUME NextIsTrue, RowsType, RowsType', NextType, NEW S, Refresh(S),
         \A r \in rows' : server' = "down" \/ r \in S \/ (\E x \in runs' : x.of = r) \/
            /\ r \in rows /\ server # "down" /\ ~(\E x \in runs : x.of = r)
            /\ (r \in on' <=> r \in on) /\ runAt'[r] = runAt[r] /\ lastRun'[r] = lastRun[r]
  PROVE  NextIsTrue'
<1> SUFFICES ASSUME NEW r \in rows', server' # "down", ~(\E x \in runs' : x.of = r)
             PROVE  next'[r] = WhenNext(r \in on', runAt'[r], lastRun'[r])
  BY DEF NextIsTrue
<1>1. r \in Routines
  BY DEF RowsType
<1>2. CASE r \in S
  BY <1>1, <1>2, Refreshed
<1>3. CASE r \notin S
  <2>1. /\ r \in rows /\ server # "down" /\ ~(\E x \in runs : x.of = r)
        /\ (r \in on' <=> r \in on) /\ runAt'[r] = runAt[r] /\ lastRun'[r] = lastRun[r]
    BY <1>3
  <2>2. next[r] = WhenNext(r \in on, runAt[r], lastRun[r])
    BY <2>1 DEF NextIsTrue
  <2>3. next'[r] = next[r]
    BY <1>1, <1>3, Refreshed
  <2> QED BY <2>1, <2>2, <2>3
<1> QED BY <1>2, <1>3
-----------------------------------------------------------------------------
(* A run begins. *)

NewRun(r) == [of |-> r, slug |-> slug[r], moment |-> runAt[r], began |-> now, in |-> place[r], at |-> "asking"]

\* A run that begins now.
LEMMA NewRuns ==
  ASSUME RowsType, PlainType, NEW r \in Routines
  PROVE  /\ NewRun(r) \in RunOf /\ NewRun(r).of = r /\ NewRun(r).slug = slug[r] /\ NewRun(r).moment = runAt[r]
         /\ NewRun(r).began = now /\ NewRun(r).in = place[r] /\ NewRun(r).at = "asking"
<1>1. slug[r] \in Slugs /\ runAt[r] \in {Recurring} \cup Moments /\ now \in Moments /\ place[r] \in Places
  BY DEF RowsType, PlainType
<1> QED BY <1>1 DEF NewRun, RunOf

\* What is read of a run.
LEMMA RunFields ==
  ASSUME RunsType, NEW x \in runs
  PROVE  /\ x.of \in Routines /\ x.slug \in Slugs /\ x.moment \in {Recurring} \cup Moments
         /\ x.began \in Moments /\ x.in \in Places /\ x.at \in {"asking", "winding"}
         /\ x.moment \in Nat /\ x.began \in Nat
         /\ [x EXCEPT !.at = "winding"] \in RunOf
         /\ [x EXCEPT !.at = "winding"].of = x.of /\ [x EXCEPT !.at = "winding"].slug = x.slug
         /\ [x EXCEPT !.at = "winding"].moment = x.moment /\ [x EXCEPT !.at = "winding"].began = x.began
         /\ [x EXCEPT !.at = "winding"].in = x.in /\ [x EXCEPT !.at = "winding"].at = "winding"
<1>1. x \in RunOf
  BY DEF RunsType
<1>2. /\ x.of \in Routines /\ x.slug \in Slugs /\ x.moment \in {Recurring} \cup Moments
      /\ x.began \in Moments /\ x.in \in Places /\ x.at \in {"asking", "winding"}
  BY <1>1 DEF RunOf
<1>3. x.moment \in Nat /\ x.began \in Nat
  <2>1. Recurring \in Nat
    BY DEF Recurring
  <2> QED BY <1>2, <2>1, Bounds
<1>4. /\ [x EXCEPT !.at = "winding"] \in RunOf
      /\ [x EXCEPT !.at = "winding"].of = x.of /\ [x EXCEPT !.at = "winding"].slug = x.slug
      /\ [x EXCEPT !.at = "winding"].moment = x.moment /\ [x EXCEPT !.at = "winding"].began = x.began
      /\ [x EXCEPT !.at = "winding"].in = x.in /\ [x EXCEPT !.at = "winding"].at = "winding"
  BY <1>1 DEF RunOf
<1> QED BY <1>2, <1>3, <1>4

\* Some routines begin, none of them with a run in flight or held by a delete: those
\* whose place is there are in flight, and what is written of the others is their end.
LEMMA Begins ==
  ASSUME IInv, NEW S \in SUBSET rows, Begin(S)
  PROVE  \E went \in SUBSET S :
           /\ runs' = runs \cup {NewRun(r) : r \in went}
           /\ running' = running \cup {slug[r] : r \in went}
           /\ on' \subseteq on /\ \A r \in on \ on' : r \in S \ went
           /\ lastRun' = [r \in Routines |-> IF r \in S THEN now ELSE lastRun[r]]
           /\ RowsType' \/ ~(served' \subseteq Routines)
           /\ \A r \in Routines : status'[r] = IF r \in went THEN "running"
                                                ELSE IF r \in S THEN Outcome ELSE status[r]
           /\ Refresh(S \ went)
           /\ UNCHANGED <<rows, slug, place, runAt, held, server, folder, del, known, now, changes, stops>>
<1> DEFINE lost == {r \in S : place[r] = "project" /\ ~folder}
           went == S \ lost
<1>1. S \subseteq Routines /\ went \subseteq S /\ S \ went = lost
  BY InvParts DEF RowsType
<1>2. runs' = runs \cup {NewRun(r) : r \in went} /\ running' = running \cup {slug[r] : r \in went}
  BY DEF Begin, NewRun
<1>3. on' \subseteq on /\ \A r \in on \ on' : r \in lost
  BY DEF Begin, SwitchedOff
<1>4. lastRun' = [r \in Routines |-> IF r \in S THEN now ELSE lastRun[r]]
  BY DEF Begin
<1>5. status' = [r \in Routines |-> IF r \in went THEN "running" ELSE IF r \in lost THEN Outcome ELSE status[r]]
  BY DEF Begin
<1>6. UNCHANGED <<rows, slug, place, runAt, held, server, folder, del, known, now, changes, stops>> /\ Refresh(lost)
  BY DEF Begin, deletes, clocks
<1>7. served' \subseteq Routines => RowsType'
  <2>1. lastRun' \in [Routines -> {Never} \cup Moments]
    BY <1>4, InvParts DEF RowsType, PlainType
  <2>2. status' \in [Routines -> Statuses]
    BY <1>5, InvParts DEF RowsType, Statuses, Outcome
  <2> QED BY <1>3, <1>6, <2>1, <2>2, InvParts DEF RowsType
<1>8. \A r \in Routines : status'[r] = IF r \in went THEN "running" ELSE IF r \in S THEN Outcome ELSE status[r]
  BY <1>5
<1> HIDE DEF lost, went
<1> QED BY <1>1, <1>2, <1>3, <1>4, <1>6, <1>7, <1>8

\* Runs begin of routines that are free, the moments they are due at served.
LEMMA BeginKeeps ==
  ASSUME IInv, NEW S \in SUBSET rows, Begin(S), \A r \in S : Free(r),
         NEW T \in SUBSET S, served' = served \cup T, \A r \in T : OneOff(r) /\ runAt[r] <= now
  PROVE  IInv'
<1>1. PICK went \in SUBSET S :
        /\ runs' = runs \cup {NewRun(r) : r \in went}
        /\ running' = running \cup {slug[r] : r \in went}
        /\ on' \subseteq on /\ \A r \in on \ on' : r \in S \ went
        /\ lastRun' = [r \in Routines |-> IF r \in S THEN now ELSE lastRun[r]]
        /\ RowsType' \/ ~(served' \subseteq Routines)
        /\ \A r \in Routines : status'[r] = IF r \in went THEN "running"
                                             ELSE IF r \in S THEN Outcome ELSE status[r]
        /\ Refresh(S \ went)
        /\ UNCHANGED <<rows, slug, place, runAt, held, server, folder, del, known, now, changes, stops>>
  BY Begins
<1>2. S \subseteq Routines /\ went \subseteq Routines /\ now \in Nat /\ now # 0
  BY Bounds, InvParts DEF RowsType, PlainType
<1>3. RowsType'
  BY <1>1, <1>2, InvParts DEF RowsType
<1>4. NextType' /\ DelsType' /\ PlainType'
  BY <1>1, <1>3, InvParts, Refreshed DEF DelsType, PlainType
<1>5. \A x \in runs' : x \in runs \/ \E r \in went : x = NewRun(r)
  BY <1>1
<1>6. \A r \in went : NewRun(r) \in runs'
  BY <1>1
<1>7. \A r \in went :
        /\ NewRun(r) \in RunOf /\ NewRun(r).of = r /\ NewRun(r).slug = slug[r] /\ NewRun(r).moment = runAt[r]
        /\ NewRun(r).began = now /\ NewRun(r).in = place[r] /\ NewRun(r).at = "asking"
  BY <1>2, InvParts, NewRuns
<1> HIDE DEF NewRun
<1>8. RunsType'
  <2>1. running' \subseteq Slugs
    BY <1>1, <1>2, InvParts DEF RunsType, RowsType
  <2> QED BY <1>5, <1>7, <2>1, InvParts DEF RunsType
<1>9. SlugsOK'
  BY <1>1, InvParts DEF SlugsOK
<1>10. \A r \in Routines : lastRun'[r] = (IF r \in S THEN now ELSE lastRun[r]) /\ lastRun[r] <= now
                          /\ lastRun[r] \in Nat /\ runAt[r] \in Nat
  BY <1>1, InvParts, Numbers DEF TimesOK
<1>11. TimesOK'
  <2>1. \A x \in runs' : x.began <= now
    BY <1>2, <1>5, <1>7, InvParts DEF TimesOK
  <2> QED BY <1>1, <1>2, <1>10, <2>1 DEF TimesOK
<1>12. ServedOK'
  <2> SUFFICES ASSUME NEW r \in served' PROVE OneOffDone(r)'
    BY DEF ServedOK
  <2>1. CASE r \in T
    BY <1>1, <1>2, <1>10, <2>1 DEF OneOffDone, OneOff, Never
  <2>2. CASE r \in served
    <3>1. OneOffDone(r) /\ r \in Routines
      BY <2>2, InvParts DEF ServedOK, RowsType
    <3> QED BY <1>1, <1>2, <1>10, <3>1 DEF OneOffDone, OneOff, Never
  <2> QED BY <2>1, <2>2
<1>13. RunsDone'
  <2> SUFFICES ASSUME NEW x \in runs', x.moment # Recurring, x.began >= x.moment, runAt[x.of] = x.moment
               PROVE  OneOffDone(x.of)'
    BY <1>1 DEF RunsDone
  <2>1. CASE x \in runs
    <3>1. OneOffDone(x.of) /\ x.of \in Routines
      BY <2>1, InvParts, RunFields DEF RunsDone
    <3> QED BY <1>1, <1>2, <1>10, <3>1 DEF OneOffDone, OneOff, Never
  <2>2. CASE x \notin runs
    <3>1. PICK r \in went : x = NewRun(r)
      BY <1>5, <2>2
    <3>2. x.of = r /\ x.moment = runAt[r] /\ x.began = now /\ r \in S
      BY <1>7, <3>1
    <3>3. lastRun'[r] = now /\ runAt'[r] = runAt[r] /\ runAt[r] # Recurring /\ now >= runAt[r]
      BY <1>1, <1>2, <1>10, <3>2
    <3> QED BY <1>2, <3>2, <3>3 DEF OneOffDone, OneOff, Never
  <2> QED BY <2>1, <2>2
<1>14. \A r \in went : slug[r] \notin running /\ held[slug[r]] = 0
  BY DEF Free
<1>15. FlightOK'
  <2> SUFFICES ASSUME NEW x \in runs', x.at = "asking"
               PROVE  x.slug \in running' /\ \A y \in runs' : y.at = "asking" /\ y.slug = x.slug => y = x
    BY DEF FlightOK
  <2>1. x.slug \in running'
    BY <1>1, <1>5, <1>7, InvParts DEF FlightOK
  <2>2. ASSUME NEW y \in runs', y.at = "asking", y.slug = x.slug
        PROVE  y = x
    <3>1. CASE x \in runs /\ y \in runs
      BY <2>2, <3>1, InvParts DEF FlightOK
    <3>2. CASE x \notin runs /\ y \notin runs
      <4>1. PICK r \in went, q \in went : x = NewRun(r) /\ y = NewRun(q)
        BY <1>5, <3>2
      <4>2. slug[r] = slug[q]
        BY <1>7, <2>2, <4>1
      <4> QED BY <4>1, <4>2, InvParts DEF SlugsOK
    <3>3. CASE x \in runs /\ y \notin runs
      BY <1>5, <1>7, <1>14, <2>2, <3>3, InvParts DEF FlightOK
    <3>4. CASE x \notin runs /\ y \in runs
      BY <1>5, <1>7, <1>14, <2>2, <3>4, InvParts DEF FlightOK
    <3> QED BY <3>1, <3>2, <3>3, <3>4
  <2> QED BY <2>1, <2>2
<1>16. \A s \in Slugs : Holding(s)' = Holding(s)
  BY <1>1 DEF Holding
<1>17. HeldOK'
  BY <1>1, <1>16, InvParts DEF HeldOK
<1>18. FolderOK'
  <2> SUFFICES ASSUME NEW d \in Deleters, NEW x \in runs', del[d] = "stopping", x.at = "asking", x.in = "project"
               PROVE  x.slug \notin known[d].slugs
    BY <1>1 DEF FolderOK
  <2>1. CASE x \in runs
    BY <2>1, InvParts DEF FolderOK
  <2>2. CASE x \notin runs
    <3>1. PICK r \in went : x = NewRun(r)
      BY <1>5, <2>2
    <3>2. x.slug = slug[r] /\ held[slug[r]] = 0 /\ slug[r] \in Slugs
      BY <1>2, <1>7, <1>14, <3>1, InvParts DEF RowsType
    <3>3. IsFiniteSet(Holding(slug[r]))
      BY RoutinesAssumption, FS_Subset DEF Holding
    <3>4. Holding(slug[r]) = {}
      BY <3>2, <3>3, InvParts, FS_EmptySet DEF HeldOK
    <3> QED BY <3>2, <3>4 DEF Holding
  <2> QED BY <2>1, <2>2
<1>19. NextIsTrue'
  <2>1. \A r \in rows' : \/ server' = "down" \/ r \in S \ went \/ (\E x \in runs' : x.of = r)
                         \/ /\ r \in rows /\ server # "down" /\ ~(\E x \in runs : x.of = r)
                            /\ (r \in on' <=> r \in on) /\ runAt'[r] = runAt[r] /\ lastRun'[r] = lastRun[r]
    <3> SUFFICES ASSUME NEW r \in rows', server' # "down", r \notin S \ went, ~(\E x \in runs' : x.of = r)
                 PROVE  /\ r \in rows /\ server # "down" /\ ~(\E x \in runs : x.of = r)
                        /\ (r \in on' <=> r \in on) /\ runAt'[r] = runAt[r] /\ lastRun'[r] = lastRun[r]
      OBVIOUS
    <3>1. r \notin went
      BY <1>6, <1>7
    <3>2. r \in Routines /\ r \notin S
      BY <1>1, <3>1, InvParts DEF RowsType
    <3>3. (r \in on' <=> r \in on) /\ lastRun'[r] = lastRun[r]
      BY <1>1, <1>10, <3>2
    <3> QED BY <1>1, <3>3
  <2> QED BY <1>1, <1>3, <2>1, InvParts, TellsNext
<1>20. RunningIsTrue'
  <2> SUFFICES ASSUME NEW r \in rows, server # "down", status'[r] = "running"
               PROVE  \E x \in runs' : x.of = r /\ x.at = "asking"
    BY <1>1 DEF RunningIsTrue
  <2>1. CASE r \in went
    BY <1>6, <1>7, <2>1
  <2>2. CASE r \notin went
    <3>1. status[r] = "running"
      BY <1>1, <2>2, InvParts DEF RowsType, Outcome
    <3> QED BY <1>1, <3>1, InvParts DEF RunningIsTrue
  <2> QED BY <2>1, <2>2
<1> QED BY <1>3, <1>4, <1>8, <1>9, <1>11, <1>12, <1>13, <1>15, <1>17, <1>18, <1>19, <1>20, InvPartsNext
-----------------------------------------------------------------------------
(* A run ends. *)

LEMMA RunEndsKeeps ==
  ASSUME IInv, NEW x \in runs, RunEnds(x) \/ RunWound(x)
  PROVE  IInv'
<1> DEFINE wound == [x EXCEPT !.at = "winding"]
<1> USE DEF deletes, clocks, inFlight, table
<1>1. /\ x.of \in Routines /\ wound \in RunOf /\ wound.of = x.of /\ wound.slug = x.slug
      /\ wound.moment = x.moment /\ wound.began = x.began /\ wound.at = "winding"
      /\ x.moment \in Nat /\ x.began \in Nat
  BY InvParts, RunFields
<1>2. UNCHANGED <<rows, slug, place, runAt, lastRun, held, server, folder, del, known, now, changes, stops, served>>
  BY DEF RunEnds, RunWound, WrapUp
<1>3. \/ WrapUp(x, runs \ {x})
      \/ RunEnds(x) /\ runs' = (runs \ {x}) \cup {wound} /\ UNCHANGED <<on, next>>
  BY DEF RunEnds, RunWound
<1>4. \/ /\ RunEnds(x) /\ x.at = "asking" /\ running' = running \ {x.slug}
         /\ status' = IF x.of \in rows THEN [status EXCEPT ![x.of] = Outcome] ELSE status
      \/ RunWound(x) /\ x.at = "winding" /\ UNCHANGED <<running, status>>
  BY DEF RunEnds, RunWound
<1>5. \A y \in runs' : y \in runs \ {x} \/ y = wound
  BY <1>3 DEF WrapUp
<1>6. \A y \in runs \ {x} : y \in runs'
  BY <1>3 DEF WrapUp
<1> HIDE DEF wound
<1>7. on' \subseteq on /\ \A r \in on \ on' : r = x.of
  BY <1>3 DEF WrapUp, SwitchedOff
<1>8. \A r \in Routines : status'[r] = status[r] \/ (status'[r] = Outcome /\ r = x.of)
  BY <1>4, InvParts DEF RowsType
<1>9. RowsType'
  <2>1. status' \in [Routines -> Statuses]
    BY <1>1, <1>4, InvParts DEF RowsType, Statuses, Outcome
  <2> QED BY <1>2, <1>7, <2>1, InvParts DEF RowsType
<1>10. NextType'
  BY <1>3, <1>9, InvParts, Refreshed DEF WrapUp, NextType
<1>11. RunsType'
  BY <1>1, <1>4, <1>5, InvParts DEF RunsType
<1>12. DelsType' /\ PlainType' /\ SlugsOK' /\ ServedOK'
  BY <1>2, InvParts DEF DelsType, PlainType, SlugsOK, ServedOK, OneOffDone, OneOff
<1>13. TimesOK'
  BY <1>1, <1>2, <1>5, InvParts DEF TimesOK
<1>14. RunsDone'
  BY <1>1, <1>2, <1>5, InvParts DEF RunsDone, OneOffDone, OneOff
<1>15. FlightOK'
  <2> SUFFICES ASSUME NEW y \in runs', y.at = "asking"
               PROVE  y.slug \in running' /\ \A z \in runs' : z.at = "asking" /\ z.slug = y.slug => z = y
    BY DEF FlightOK
  <2>1. y \in runs \ {x} /\ y.slug \in running /\ \A z \in runs : z.at = "asking" /\ z.slug = y.slug => z = y
    BY <1>1, <1>5, InvParts DEF FlightOK
  <2>2. y.slug \in running'
    BY <1>4, <2>1
  <2>3. \A z \in runs' : z.at = "asking" => z \in runs
    BY <1>1, <1>5
  <2> QED BY <2>1, <2>2, <2>3
<1>16. HeldOK'
  <2>1. \A s \in Slugs : Holding(s)' = Holding(s)
    BY <1>2 DEF Holding
  <2> QED BY <1>2, <2>1, InvParts DEF HeldOK
<1>17. FolderOK'
  BY <1>1, <1>2, <1>5, InvParts DEF FolderOK
<1>18. NextIsTrue'
  <2>1. CASE WrapUp(x, runs \ {x})
    <3>1. Refresh({x.of} \cap rows) /\ runs' = runs \ {x}
      BY <2>1 DEF WrapUp
    <3>2. \A r \in rows' : server' = "down" \/ r \in {x.of} \cap rows \/ (\E y \in runs' : y.of = r) \/
            /\ r \in rows /\ server # "down" /\ ~(\E y \in runs : y.of = r)
            /\ (r \in on' <=> r \in on) /\ runAt'[r] = runAt[r] /\ lastRun'[r] = lastRun[r]
      BY <1>2, <1>7, <3>1
    <3> QED BY <1>9, <3>1, <3>2, InvParts, TellsNext
  <2>2. CASE runs' = (runs \ {x}) \cup {wound} /\ UNCHANGED <<on, next>>
    <3>1. \A r \in rows : (\E y \in runs : y.of = r) => \E y \in runs' : y.of = r
      BY <1>1, <2>2
    <3> QED BY <1>2, <2>2, <3>1, InvParts DEF NextIsTrue
  <2> QED BY <1>3, <2>1, <2>2
<1>19. RunningIsTrue'
  <2> SUFFICES ASSUME NEW r \in rows, server # "down", status'[r] = "running"
               PROVE  \E y \in runs' : y.of = r /\ y.at = "asking"
    BY <1>2 DEF RunningIsTrue
  <2>1. r \in Routines /\ status[r] = "running"
    BY <1>8, InvParts DEF RowsType, Outcome
  <2>2. PICK y \in runs : y.of = r /\ y.at = "asking"
    BY <2>1, InvParts DEF RunningIsTrue
  <2>3. y # x
    <3>1. x.at = "asking" => x.of # r
      BY <1>4, <2>1, InvParts DEF RowsType, Outcome
    <3> QED BY <2>2, <3>1
  <2> QED BY <1>6, <2>2, <2>3
<1> QED BY <1>9, <1>10, <1>11, <1>12, <1>13, <1>14, <1>15, <1>16, <1>17, <1>18, <1>19, InvPartsNext
-----------------------------------------------------------------------------
(* What people change. *)

\* What is not in the routines' rows stays as it is.
LEMMA RestStays ==
  ASSUME IInv, UNCHANGED <<running, held, runs, server, folder, del, known, now, stops>>, changes' \in 0..MaxChanges
  PROVE  RunsType' /\ DelsType' /\ PlainType' /\ FlightOK' /\ HeldOK' /\ FolderOK'
<1>1. \A s \in Slugs : Holding(s)' = Holding(s)
  BY DEF Holding
<1> QED BY <1>1, InvParts DEF RunsType, DelsType, PlainType, FlightOK, HeldOK, FolderOK

\* A change of one routine: what is done to its row, and that it is told anew when it
\* runs next.
LEMMA TouchKeeps ==
  ASSUME IInv, NEW r \in Routines, RowsType', Refresh({r}),
         UNCHANGED <<running, held, runs, server, folder, del, known, now, stops>>, changes' \in 0..MaxChanges,
         rows' \subseteq rows \cup {r}, served' \subseteq served,
         \A q \in Routines \ {r} : /\ (q \in on' <=> q \in on) /\ slug'[q] = slug[q] /\ status'[q] = status[q]
                                   /\ runAt'[q] = runAt[q] /\ lastRun'[q] = lastRun[q],
         (r \in rows /\ slug'[r] = slug[r]) \/ (\A q \in rows : slug'[r] # slug[q]),
         (r \in rows /\ status'[r] = status[r]) \/ status'[r] = "none",
         lastRun'[r] \in {Never, lastRun[r]},
         \/ runAt'[r] = runAt[r] /\ lastRun'[r] = lastRun[r]
         \/ r \notin served' /\ (runAt'[r] = Recurring \/ runAt'[r] > now)
  PROVE  IInv'
<1>1. RunsType' /\ DelsType' /\ PlainType' /\ FlightOK' /\ HeldOK' /\ FolderOK'
  BY RestStays
<1>2. NextType'
  BY InvParts, Refreshed
<1>3. SlugsOK'
  <2> SUFFICES ASSUME NEW p \in rows', NEW q \in rows', slug'[p] = slug'[q] PROVE p = q
    BY DEF SlugsOK
  <2>1. p \in Routines /\ q \in Routines
    BY InvParts DEF RowsType
  <2>2. CASE p = r /\ q # r
    BY <2>1, <2>2, InvParts DEF SlugsOK
  <2>3. CASE p # r /\ q = r
    BY <2>1, <2>3, InvParts DEF SlugsOK
  <2>4. CASE p # r /\ q # r
    BY <2>1, <2>4, InvParts DEF SlugsOK
  <2> QED BY <2>2, <2>3, <2>4
<1>4. now \in Nat /\ \A q \in Routines : lastRun'[q] = lastRun[q] \/ (q = r /\ lastRun'[q] = Never)
  BY Bounds, InvParts DEF PlainType
<1>5. TimesOK'
  BY <1>4, InvParts DEF TimesOK, Never
<1>6. ServedOK'
  <2> SUFFICES ASSUME NEW q \in served' PROVE OneOffDone(q)'
    BY DEF ServedOK
  <2>1. q \in Routines /\ OneOffDone(q)
    BY InvParts DEF ServedOK, RowsType
  <2>2. runAt'[q] = runAt[q] /\ lastRun'[q] = lastRun[q]
    BY <2>1
  <2> QED BY <2>1, <2>2 DEF OneOffDone, OneOff
<1>7. RunsDone'
  <2> SUFFICES ASSUME NEW x \in runs, x.moment # Recurring, x.began >= x.moment, runAt'[x.of] = x.moment
               PROVE  OneOffDone(x.of)'
    BY DEF RunsDone
  <2>1. x.of \in Routines /\ x.began \in Nat /\ x.moment \in Nat /\ x.began <= now
    BY InvParts, RunFields DEF TimesOK
  <2>2. runAt'[x.of] = runAt[x.of] /\ lastRun'[x.of] = lastRun[x.of]
    <3>1. ~(x.moment > now)
      BY <1>4, <2>1
    <3> QED BY <2>1, <3>1
  <2>3. OneOffDone(x.of)
    BY <2>2, InvParts DEF RunsDone
  <2> QED BY <2>2, <2>3 DEF OneOffDone, OneOff
<1>8. NextIsTrue'
  <2>1. \A q \in rows' : server' = "down" \/ q \in {r} \/ (\E x \in runs' : x.of = q) \/
          /\ q \in rows /\ server # "down" /\ ~(\E x \in runs : x.of = q)
          /\ (q \in on' <=> q \in on) /\ runAt'[q] = runAt[q] /\ lastRun'[q] = lastRun[q]
    BY InvParts DEF RowsType
  <2> QED BY <2>1, InvParts, TellsNext
<1>9. RunningIsTrue'
  BY InvParts DEF RunningIsTrue, RowsType
<1> QED BY <1>1, <1>2, <1>3, <1>5, <1>6, <1>7, <1>8, <1>9, InvPartsNext

\* One more change is within its bound.
LEMMA Counted ==
  ASSUME IInv, changes < MaxChanges
  PROVE  changes + 1 \in 0..MaxChanges
BY Bounds, InvParts DEF PlainType

\* A routine is given another moment.
LEMMA RetimeKeeps ==
  ASSUME IInv, NEW r \in Routines, NEW at \in {Recurring} \cup Moments, Retime(r, at)
  PROVE  IInv'
<1> USE DEF inFlight, deletes
<1>1. r \in rows /\ changes' \in 0..MaxChanges /\ (at = Recurring \/ at > now)
      /\ UNCHANGED <<running, held, runs, server, folder, del, known, now, stops, rows, slug, place>> /\ Refresh({r})
  BY Counted DEF Retime, Change, Untouched
<1>2. runAt' = [q \in Routines |-> IF q = r THEN at ELSE runAt[q]]
  BY InvParts DEF Retime, RowsType
<1> DEFINE armed == at # Recurring /\ at # runAt[r]
<1>3. lastRun' = [q \in Routines |-> IF q = r /\ armed THEN Never ELSE lastRun[q]]
  BY InvParts DEF Retime, RowsType
<1>4. status' = [q \in Routines |-> IF q = r /\ armed THEN "none" ELSE status[q]]
  BY InvParts DEF Retime, RowsType
<1>5. on' \in SUBSET Routines /\ \A q \in Routines \ {r} : q \in on' <=> q \in on
  BY InvParts DEF Retime, RowsType
<1>6. served' \subseteq served /\ (at # runAt[r] => r \notin served')
  BY DEF Retime
<1>7. RowsType'
  <2>1. status' \in [Routines -> Statuses] /\ lastRun' \in [Routines -> {Never} \cup Moments]
        /\ runAt' \in [Routines -> {Recurring} \cup Moments]
    BY <1>2, <1>3, <1>4, InvParts DEF RowsType, Statuses
  <2> QED BY <1>1, <1>5, <1>6, <2>1, InvParts DEF RowsType
<1>8. \A q \in Routines \ {r} : /\ (q \in on' <=> q \in on) /\ slug'[q] = slug[q] /\ status'[q] = status[q]
                                /\ runAt'[q] = runAt[q] /\ lastRun'[q] = lastRun[q]
  BY <1>1, <1>2, <1>3, <1>4, <1>5
<1>9. \/ runAt'[r] = runAt[r] /\ lastRun'[r] = lastRun[r]
      \/ r \notin served' /\ (runAt'[r] = Recurring \/ runAt'[r] > now)
  BY <1>1, <1>2, <1>3, <1>6
<1>10. lastRun'[r] \in {Never, lastRun[r]} /\ ((r \in rows /\ status'[r] = status[r]) \/ status'[r] = "none")
  BY <1>1, <1>3, <1>4
<1> QED BY <1>1, <1>6, <1>7, <1>8, <1>9, <1>10, TouchKeeps

\* A routine is switched, moved, renamed or added.
LEMMA RowChangesKeep ==
  ASSUME IInv, NEW r \in Routines, Switch(r) \/ Move(r) \/ Rename(r) \/ Add(r)
  PROVE  IInv'
<1> USE DEF inFlight, deletes
<1>1. /\ changes' \in 0..MaxChanges /\ Refresh({r})
      /\ UNCHANGED <<running, held, runs, server, folder, del, known, now, stops, runAt, lastRun, served>>
  BY Counted DEF Switch, Move, Rename, Add, Change, Untouched
<1>2. rows' \subseteq rows \cup {r} /\ on' \subseteq on \cup {r} /\ \A q \in Routines \ {r} : q \in on' <=> q \in on
  BY DEF Switch, Move, Rename, Add
<1>3. /\ slug' \in [Routines -> Slugs] /\ \A q \in Routines \ {r} : slug'[q] = slug[q]
      /\ (r \in rows /\ slug'[r] = slug[r]) \/ (\A q \in rows : slug'[r] # slug[q])
  <2>1. CASE UNCHANGED slug /\ r \in rows
    BY <2>1, InvParts DEF RowsType
  <2>2. CASE \E s \in Slugs \ {slug[q] : q \in rows} : slug' = [slug EXCEPT ![r] = s]
    BY <2>2, InvParts DEF RowsType
  <2> QED BY <2>1, <2>2 DEF Switch, Move, Rename, Add, Change
<1>4. place' \in [Routines -> Places]
  BY InvParts DEF Switch, Move, Rename, Add, RowsType
<1>5. /\ status' \in [Routines -> Statuses] /\ \A q \in Routines \ {r} : status'[q] = status[q]
      /\ (r \in rows /\ status'[r] = status[r]) \/ status'[r] = "none"
  <2>1. CASE UNCHANGED status /\ r \in rows
    BY <2>1, InvParts DEF RowsType
  <2>2. CASE status' = [status EXCEPT ![r] = "none"]
    BY <2>2, InvParts DEF RowsType, Statuses
  <2> QED BY <2>1, <2>2 DEF Switch, Move, Rename, Add, Change
<1>6. RowsType'
  BY <1>1, <1>2, <1>3, <1>4, <1>5, InvParts DEF RowsType
<1> QED BY <1>1, <1>2, <1>3, <1>5, <1>6, TouchKeeps

\* A routine is removed.
LEMMA RemoveKeeps ==
  ASSUME IInv, NEW r \in Routines, Remove(r)
  PROVE  IInv'
<1> USE DEF inFlight, deletes
<1>1. /\ changes' \in 0..MaxChanges /\ rows' = rows \ {r} /\ on' = on \ {r}
      /\ UNCHANGED <<running, held, runs, server, folder, del, known, now, stops, slug, place, runAt, lastRun, status, next, served>>
  BY Counted DEF Remove, Change, Untouched
<1>2. RunsType' /\ DelsType' /\ PlainType' /\ FlightOK' /\ HeldOK' /\ FolderOK'
  BY <1>1, RestStays
<1>3. RowsType' /\ NextType'
  BY <1>1, InvParts DEF RowsType, NextType
<1>4. SlugsOK' /\ TimesOK' /\ ServedOK' /\ RunsDone'
  BY <1>1, InvParts DEF SlugsOK, TimesOK, ServedOK, RunsDone, OneOffDone, OneOff
<1>5. NextIsTrue' /\ RunningIsTrue'
  BY <1>1, InvParts DEF NextIsTrue, RunningIsTrue
<1> QED BY <1>2, <1>3, <1>4, <1>5, InvPartsNext
-----------------------------------------------------------------------------
(* The deletes of the project. *)

LEMMA HoldingFinite ==
  ASSUME NEW s
  PROVE  IsFiniteSet(Holding(s)) /\ Cardinality(Holding(s)) \in Nat
BY RoutinesAssumption, FS_Subset, FS_CardinalityType DEF Holding

\* The delete of a project's files holds the folders of its routines.
LEMMA DeleteBeginsKeeps ==
  ASSUME IInv, NEW d \in Deleters, DeleteBegins(d)
  PROVE  IInv'
<1> USE DEF table, clocks
<1> DEFINE slugs == {slug[r] : r \in RoutinesIn}
<1>1. /\ del[d] = "idle" /\ Hold(RoutinesIn) /\ ~\E x \in runs : x.in = "project" /\ x.at = "asking"
      /\ UNCHANGED <<rows, on, slug, place, runAt, lastRun, status, next, running, runs, server, folder, now, changes, stops, served>>
      /\ del' = [del EXCEPT ![d] = "stopping"]
      /\ known' = [known EXCEPT ![d] = [all |-> RoutinesIn, on |-> RoutinesIn \cap on, slugs |-> slugs]]
  BY DEF DeleteBegins
<1>2. RoutinesIn \subseteq Routines /\ slugs \subseteq Slugs
  BY InvParts DEF RoutinesIn, RowsType
<1>3. held' = [s \in Slugs |-> IF s \in slugs THEN held[s] + 1 ELSE held[s]]
  BY <1>1 DEF Hold
<1> HIDE DEF slugs
<1>4. /\ \A e \in Deleters \ {d} : del'[e] = del[e] /\ known'[e] = known[e]
      /\ del'[d] = "stopping" /\ known'[d].slugs = slugs
  BY <1>1, InvParts DEF DelsType
<1>5. DelsType'
  <2>1. known' \in [Deleters -> [all : SUBSET Routines, on : SUBSET Routines, slugs : SUBSET Slugs]]
    BY <1>1, <1>2, InvParts DEF DelsType
  <2>2. held' \in [Slugs -> Nat] /\ del' \in [Deleters -> {"idle", "stopping", "done"}]
    BY <1>1, <1>3, InvParts DEF DelsType
  <2> QED BY <2>1, <2>2 DEF DelsType
<1>6. RowsType' /\ NextType' /\ RunsType' /\ PlainType'
  BY <1>1, InvParts DEF RowsType, NextType, RunsType, PlainType
<1>7. SlugsOK' /\ TimesOK' /\ ServedOK' /\ RunsDone' /\ FlightOK'
  BY <1>1, InvParts DEF SlugsOK, TimesOK, ServedOK, RunsDone, FlightOK, OneOffDone, OneOff
<1>8. HeldOK'
  <2> SUFFICES ASSUME NEW s \in Slugs PROVE held'[s] = Cardinality(Holding(s)')
    BY DEF HeldOK
  <2>1. d \notin Holding(s) /\ held[s] = Cardinality(Holding(s))
    BY <1>1, InvParts DEF Holding, HeldOK
  <2>2. CASE s \in slugs
    <3>1. Holding(s)' = Holding(s) \cup {d}
      BY <1>4, <2>2 DEF Holding
    <3>2. Cardinality(Holding(s) \cup {d}) = Cardinality(Holding(s)) + 1
      BY <2>1, HoldingFinite, FS_AddElement
    <3> QED BY <1>3, <2>1, <2>2, <3>1, <3>2
  <2>3. CASE s \notin slugs
    <3>1. Holding(s)' = Holding(s)
      BY <1>1, <1>4, <2>3 DEF Holding
    <3> QED BY <1>3, <2>1, <2>3, <3>1
  <2> QED BY <2>2, <2>3
<1>9. FolderOK'
  BY <1>1, <1>4, InvParts DEF FolderOK
<1>10. NextIsTrue' /\ RunningIsTrue'
  BY <1>1, InvParts DEF NextIsTrue, RunningIsTrue
<1> QED BY <1>5, <1>6, <1>7, <1>8, <1>9, <1>10, InvPartsNext

\* The end of a delete, whatever came of it: what it held is let go.
LEMMA Releases ==
  ASSUME IInv, NEW d \in Deleters, del[d] = "stopping", Release(d), del' = [del EXCEPT ![d] = "done"],
         UNCHANGED <<known, running, runs>>
  PROVE  DelsType' /\ HeldOK' /\ FolderOK' /\ RunsType'
<1>1. \A e \in Deleters \ {d} : del'[e] = del[e]
  BY InvParts DEF DelsType
<1>2. del'[d] = "done"
  BY InvParts DEF DelsType
<1>3. ASSUME NEW s \in Slugs
      PROVE  held'[s] \in Nat /\ held'[s] = Cardinality(Holding(s)')
  <2>1. held[s] = Cardinality(Holding(s)) /\ held[s] \in Nat
    BY InvParts, HoldingFinite DEF HeldOK
  <2>2. held'[s] = IF s \in known[d].slugs THEN held[s] - 1 ELSE held[s]
    BY DEF Release
  <2>3. CASE s \in known[d].slugs
    <3>1. d \in Holding(s) /\ Holding(s)' = Holding(s) \ {d}
      BY <1>1, <1>2, <2>3 DEF Holding
    <3>2. Cardinality(Holding(s) \ {d}) = Cardinality(Holding(s)) - 1
      BY <3>1, HoldingFinite, FS_RemoveElement
    <3>3. Cardinality(Holding(s) \ {d}) \in Nat
      BY HoldingFinite, FS_RemoveElement, FS_CardinalityType
    <3> QED BY <2>1, <2>2, <2>3, <3>1, <3>2, <3>3
  <2>4. CASE s \notin known[d].slugs
    <3>1. Holding(s)' = Holding(s)
      BY <1>1, <1>2, <2>4 DEF Holding
    <3> QED BY <2>1, <2>2, <2>4, <3>1
  <2> QED BY <2>3, <2>4
<1>4. DelsType'
  <2>1. held' = [s \in Slugs |-> held'[s]]
    BY DEF Release
  <2>2. held' \in [Slugs -> Nat]
    BY <1>3, <2>1
  <2> QED BY <2>2, InvParts DEF DelsType
<1>5. HeldOK'
  BY <1>3 DEF HeldOK
<1>6. FolderOK'
  BY <1>1, <1>2, InvParts DEF FolderOK
<1>7. RunsType'
  BY InvParts DEF RunsType
<1> QED BY <1>4, <1>5, <1>6, <1>7

\* The delete comes to its end.
LEMMA DeletedKeeps ==
  ASSUME IInv, NEW d \in Deleters, Deleted(d)
  PROVE  IInv'
<1> USE DEF clocks
<1> DEFINE off == known[d].on \cup Late(d)
           told == (known[d].on \cup (Late(d) \cap on)) \cap rows
<1>1. /\ del[d] = "stopping" /\ Release(d) /\ del' = [del EXCEPT ![d] = "done"] /\ Refresh(told)
      /\ folder' = FALSE /\ on' = on \ off
      /\ UNCHANGED <<rows, slug, place, runAt, lastRun, status, running, runs, server, known, now, changes, stops, served>>
  BY DEF Deleted
<1>2. \A r \in rows : r \in told \/ (r \in on' <=> r \in on)
  BY <1>1
<1> HIDE DEF off, told
<1>3. DelsType' /\ HeldOK' /\ FolderOK' /\ RunsType'
  BY <1>1, Releases
<1>4. RowsType' /\ PlainType'
  BY <1>1, InvParts DEF RowsType, PlainType
<1>5. NextType'
  BY <1>1, <1>4, InvParts, Refreshed
<1>6. SlugsOK' /\ TimesOK' /\ ServedOK' /\ RunsDone' /\ FlightOK'
  BY <1>1, InvParts DEF SlugsOK, TimesOK, ServedOK, RunsDone, FlightOK, OneOffDone, OneOff
<1>7. NextIsTrue'
  <2>1. \A r \in rows' : server' = "down" \/ r \in told \/ (\E x \in runs' : x.of = r) \/
          /\ r \in rows /\ server # "down" /\ ~(\E x \in runs : x.of = r)
          /\ (r \in on' <=> r \in on) /\ runAt'[r] = runAt[r] /\ lastRun'[r] = lastRun[r]
    BY <1>1, <1>2
  <2> QED BY <1>1, <1>4, <2>1, InvParts, TellsNext
<1>8. RunningIsTrue'
  BY <1>1, InvParts DEF RunningIsTrue
<1> QED BY <1>3, <1>4, <1>5, <1>6, <1>7, <1>8, InvPartsNext

\* The delete fails, and its hold on the folders is let go.
LEMMA DeleteFailsKeeps ==
  ASSUME IInv, NEW d \in Deleters, DeleteFails(d)
  PROVE  IInv'
<1> USE DEF table, clocks
<1>1. /\ del[d] = "stopping" /\ Release(d) /\ del' = [del EXCEPT ![d] = "done"]
      /\ UNCHANGED <<rows, on, slug, place, runAt, lastRun, status, next, running, runs, server, folder, known, now, changes, stops, served>>
  BY DEF DeleteFails
<1>2. DelsType' /\ HeldOK' /\ FolderOK' /\ RunsType'
  BY <1>1, Releases
<1>3. RowsType' /\ NextType' /\ PlainType'
  BY <1>1, InvParts DEF RowsType, NextType, PlainType
<1>4. SlugsOK' /\ TimesOK' /\ ServedOK' /\ RunsDone' /\ FlightOK'
  BY <1>1, InvParts DEF SlugsOK, TimesOK, ServedOK, RunsDone, FlightOK, OneOffDone, OneOff
<1>5. NextIsTrue' /\ RunningIsTrue'
  BY <1>1, InvParts DEF NextIsTrue, RunningIsTrue
<1> QED BY <1>2, <1>3, <1>4, <1>5, InvPartsNext
-----------------------------------------------------------------------------
(* The portal, and time. *)

LEMMA ClosePassKeep ==
  ASSUME IInv, Close \/ Pass
  PROVE  IInv'
<1> USE DEF table, inFlight, deletes
<1>1. /\ UNCHANGED <<rows, on, slug, place, runAt, lastRun, status, next, running, held, runs, folder, del, known, changes, served>>
      /\ now' \in Moments /\ now' >= now /\ stops' \in 0..MaxStops
      /\ server' \in {"up", "closing", "down"} /\ (server' = "down" <=> server = "down")
  BY Bounds, InvParts DEF Close, Pass, PlainType, Moments
<1>2. RowsType' /\ NextType' /\ RunsType' /\ DelsType'
  BY <1>1, InvParts DEF RowsType, NextType, RunsType, DelsType
<1>3. PlainType'
  BY <1>1, InvParts DEF PlainType
<1>4. SlugsOK' /\ ServedOK' /\ RunsDone' /\ FlightOK' /\ FolderOK'
  BY <1>1, InvParts DEF SlugsOK, ServedOK, RunsDone, FlightOK, FolderOK, OneOffDone, OneOff
<1>5. TimesOK'
  <2>1. now \in Nat /\ now' \in Nat /\ (\A r \in Routines : lastRun[r] \in Nat) /\ \A x \in runs : x.began \in Nat
    BY <1>1, Bounds, InvParts, Numbers, RunFields DEF PlainType
  <2> QED BY <1>1, <2>1, InvParts DEF TimesOK
<1>6. HeldOK'
  <2>1. \A s \in Slugs : Holding(s)' = Holding(s)
    BY <1>1 DEF Holding
  <2> QED BY <1>1, <2>1, InvParts DEF HeldOK
<1>7. NextIsTrue' /\ RunningIsTrue'
  BY <1>1, InvParts DEF NextIsTrue, RunningIsTrue
<1> QED BY <1>2, <1>3, <1>4, <1>5, <1>6, <1>7, InvPartsNext

\* The server goes down, with every run and every hold.
LEMMA DownKeeps ==
  ASSUME IInv, Exit \/ Crash
  PROVE  IInv'
<1> USE DEF table
<1>1. /\ server' = "down" /\ running' = {} /\ runs' = {} /\ held' = [s \in Slugs |-> 0]
      /\ del' = [d \in Deleters |-> IF del[d] = "stopping" THEN "done" ELSE del[d]]
      /\ UNCHANGED <<rows, on, slug, place, runAt, lastRun, status, next, folder, known, now, changes, served>>
      /\ stops' \in 0..MaxStops
  BY Bounds, InvParts DEF Exit, Crash, Down, PlainType
<1>2. RowsType' /\ NextType' /\ RunsType' /\ DelsType' /\ PlainType'
  BY <1>1, InvParts DEF RowsType, NextType, RunsType, DelsType, PlainType
<1>3. SlugsOK' /\ TimesOK' /\ ServedOK' /\ RunsDone' /\ FlightOK' /\ FolderOK'
  BY <1>1, InvParts DEF SlugsOK, TimesOK, ServedOK, RunsDone, FlightOK, FolderOK, OneOffDone, OneOff
<1>4. HeldOK'
  <2>1. \A s \in Slugs : Holding(s)' = {}
    BY <1>1 DEF Holding
  <2> QED BY <1>1, <2>1, FS_EmptySet DEF HeldOK
<1>5. NextIsTrue' /\ RunningIsTrue'
  BY <1>1 DEF NextIsTrue, RunningIsTrue
<1> QED BY <1>2, <1>3, <1>4, <1>5, InvPartsNext

\* The server comes up, and marks the runs that were cut off.
LEMMA BootKeeps ==
  ASSUME IInv, Boot
  PROVE  IInv'
<1> USE DEF inFlight, deletes, clocks
<1> DEFINE cut == {r \in rows : status[r] = "running"}
<1>1. /\ server' = "up" /\ on' \subseteq on /\ Refresh(rows)
      /\ status' = [r \in Routines |-> IF r \in cut THEN "interrupted" ELSE status[r]]
      /\ UNCHANGED <<rows, slug, place, runAt, lastRun, running, held, runs, folder, del, known, now, changes, stops, served>>
  BY DEF Boot
<1>2. RowsType'
  <2>1. status' \in [Routines -> Statuses]
    BY <1>1, InvParts DEF RowsType, Statuses
  <2> QED BY <1>1, <2>1, InvParts DEF RowsType
<1>3. NextType' /\ RunsType' /\ DelsType' /\ PlainType'
  BY <1>1, <1>2, InvParts, Refreshed DEF RunsType, DelsType, PlainType
<1>4. SlugsOK' /\ TimesOK' /\ ServedOK' /\ RunsDone' /\ FlightOK' /\ FolderOK'
  BY <1>1, InvParts DEF SlugsOK, TimesOK, ServedOK, RunsDone, FlightOK, FolderOK, OneOffDone, OneOff
<1>5. HeldOK'
  <2>1. \A s \in Slugs : Holding(s)' = Holding(s)
    BY <1>1 DEF Holding
  <2> QED BY <1>1, <2>1, InvParts DEF HeldOK
<1>6. NextIsTrue'
  BY <1>1, <1>2, InvParts, TellsNext
<1>7. RunningIsTrue'
  BY <1>1, InvParts DEF RunningIsTrue, RowsType
<1> QED BY <1>2, <1>3, <1>4, <1>5, <1>6, <1>7, InvPartsNext
-----------------------------------------------------------------------------

\* It holds of a server with no runs.
LEMMA InitOK == Init => IInv
<1> SUFFICES ASSUME Init PROVE IInv
  OBVIOUS
<1>1. RowsType
  BY RoutinesAssumption DEF Init, RowsType, Places, Statuses
<1>2. next \in [Routines -> {Never} \cup 1..Slot]
  <2>1. ASSUME NEW r \in Routines PROVE next[r] \in {Never} \cup 1..Slot
    <3>1. FirstAt[r] \in {Recurring} \cup Moments
      BY RoutinesAssumption
    <3>2. next[r] = WhenNext(r \in on, FirstAt[r], Never)
      BY DEF Init
    <3>3. next[r] \in {Never, Slot, FirstAt[r]} /\ (next[r] = FirstAt[r] => next[r] = Slot \/ FirstAt[r] # Recurring \/ next[r] = Never)
      BY <3>2 DEF WhenNext, Never, Recurring
    <3> QED BY <3>1, <3>3, Bounds DEF Never, Recurring
  <2>2. next = [r \in Routines |-> next[r]]
    BY DEF Init
  <2> QED BY <2>1, <2>2
<1>3. RunsType /\ DelsType
  BY DEF Init, RunsType, DelsType
<1>4. PlainType
  BY Bounds DEF Init, PlainType, Moments
<1>5. TypeOK
  BY <1>1, <1>2, <1>3, <1>4, TypeParts DEF NextType
<1>6. SlugsOK /\ RunsDone /\ FlightOK /\ FolderOK /\ ServedOK
  BY <1>1, RoutinesAssumption DEF Init, SlugsOK, RunsDone, FlightOK, FolderOK, ServedOK, RowsType
<1>7. TimesOK
  BY DEF Init, TimesOK, Never
<1>8. HeldOK
  <2>1. \A s \in Slugs : Holding(s) = {}
    BY DEF Init, Holding
  <2> QED BY <2>1, FS_EmptySet DEF Init, HeldOK
<1>9. NextIsTrue
  BY <1>1 DEF Init, NextIsTrue, RowsType
<1>10. RunningIsTrue
  BY <1>1 DEF Init, RunningIsTrue, RowsType
<1> QED BY <1>5, <1>6, <1>7, <1>8, <1>9, <1>10 DEF IInv, RowsTellTrue

\* Runs begin at a tick, or by hand.
LEMMA TickKeeps ==
  ASSUME IInv, Tick \/ \E r \in Routines : RunByHand(r)
  PROVE  IInv'
<1>1. CASE Tick
  <2>1. Due \in SUBSET rows /\ \A r \in Due : Free(r)
    BY DEF Due
  <2>2. \A r \in {q \in Due : OneOff(q)} : OneOff(r) /\ runAt[r] <= now
    BY DEF Due, DueNow
  <2> DEFINE T == {r \in Due : OneOff(r)}
  <2>3. Begin(Due) /\ served' = served \cup T /\ T \in SUBSET Due
    BY <1>1 DEF Tick
  <2> HIDE DEF T
  <2>4. \A r \in T : OneOff(r) /\ runAt[r] <= now
    BY <2>2 DEF T
  <2> QED BY <2>1, <2>3, <2>4, BeginKeeps
<1>2. ASSUME NEW r \in Routines, RunByHand(r)
      PROVE  IInv'
  <2>1. {r} \in SUBSET rows /\ Begin({r}) /\ \A q \in {r} : Free(q)
    BY <1>2 DEF RunByHand
  <2>2. {} \in SUBSET {r} /\ served' = served \cup {} /\ \A q \in {} : OneOff(q) /\ runAt[q] <= now
    BY <1>2 DEF RunByHand
  <2> QED BY ONLY IInv, <2>1, <2>2, BeginKeeps, Zenon
<1> QED BY <1>1, <1>2

\* Every step keeps it.
LEMMA InvStep == IInv /\ [Next]_vars => IInv'
<1> SUFFICES ASSUME IInv, [Next]_vars PROVE IInv'
  OBVIOUS
<1>1. CASE Tick \/ \E r \in Routines : RunByHand(r)
  BY <1>1, TickKeeps
<1>2. CASE RunStep
  BY <1>2, RunEndsKeeps DEF RunStep, RunStepOf
<1>3. CASE \E r \in Routines : ChangeStep(r)
  BY <1>3, RetimeKeeps, RowChangesKeep, RemoveKeeps DEF ChangeStep
<1>4. CASE \E d \in Deleters : DeleteStep(d)
  BY <1>4, DeleteBeginsKeeps, DeletedKeeps, DeleteFailsKeeps DEF DeleteStep
<1>5. CASE Close \/ Exit \/ Crash \/ Boot \/ Pass
  BY <1>5, ClosePassKeep, DownKeeps, BootKeeps
<1>6. CASE UNCHANGED vars
  <2> USE <1>6 DEF vars, table, inFlight, deletes, clocks
  <2>1. RowsType' /\ NextType' /\ RunsType' /\ DelsType' /\ PlainType'
    BY InvParts DEF RowsType, NextType, RunsType, DelsType, PlainType
  <2>2. SlugsOK' /\ TimesOK' /\ ServedOK' /\ RunsDone' /\ FlightOK' /\ FolderOK'
    BY InvParts DEF SlugsOK, TimesOK, ServedOK, RunsDone, FlightOK, FolderOK, OneOffDone, OneOff
  <2>3. \A s \in Slugs : Holding(s)' = Holding(s)
    BY DEF Holding
  <2>4. HeldOK' /\ NextIsTrue' /\ RunningIsTrue'
    BY <2>3, InvParts DEF HeldOK, NextIsTrue, RunningIsTrue
  <2> QED BY <2>1, <2>2, <2>4, InvPartsNext
<1> QED BY <1>1, <1>2, <1>3, <1>4, <1>5, <1>6 DEF Next

\* The inductive invariant holds all along.
LEMMA Invariance == Spec => []IInv
BY InitOK, InvStep, PTL DEF Spec

\* Every variable keeps its type: above all a slug is never let go more often than it
\* was held.
THEOREM TypeCorrect == Spec => []TypeOK
<1>1. IInv => TypeOK
  BY DEF IInv
<1> QED BY <1>1, Invariance, PTL

\* Once its runs are over a routine says when it runs next, and what is shown as
\* running is (refreshSchedules after every change, settleInterrupted).
THEOREM ToldTrue == Spec => []RowsTellTrue
<1>1. IInv => RowsTellTrue
  BY DEF IInv
<1> QED BY <1>1, Invariance, PTL

\* A one-off's schedule runs it once for the moment it is set for, though the portal
\* crashes in its run or between its end and its being switched off: what it has run
\* for it has a last run for, which is no earlier (run, settleInterrupted).
THEOREM RunOnce == Spec => MomentRunsOnce
<1> DEFINE A == \A r \in Routines : r \in served' /\ Tick => ~(r \in served /\ lastRun'[r] # lastRun[r])
<1>1. IInv /\ [Next]_vars => [A]_vars
  <2> SUFFICES ASSUME IInv, Tick, NEW r \in Routines, r \in served
               PROVE  lastRun'[r] = lastRun[r]
    OBVIOUS
  <2>1. OneOffDone(r)
    BY InvParts DEF ServedOK
  <2>2. r \notin Due
    BY <2>1 DEF Due, DueNow, OneOffDone
  <2> QED BY <2>2, InvParts DEF Tick, Begin, RowsType
<1> QED BY <1>1, Invariance, PTL DEF Spec, MomentRunsOnce

\* What the portal switches off by itself is a one-off that has had its run: a new
\* moment, given while it ran, stands (the end of run(), settleInterrupted).
THEOREM NewMomentIsKept == Spec => NewMomentStands
<1> DEFINE A == (RunStep \/ Boot) => \A r \in (on \ on') : OneOffDone(r)
<1>1. IInv /\ [Next]_vars => [A]_vars
  <2> SUFFICES ASSUME IInv, RunStep \/ Boot, NEW r \in on \ on'
               PROVE  OneOffDone(r)
    OBVIOUS
  <2>1. CASE Boot
    BY <2>1 DEF Boot
  <2>2. CASE RunStep
    <3>1. PICK x \in runs : RunEnds(x) \/ RunWound(x)
      BY <2>2 DEF RunStep, RunStepOf
    <3>2. r \in SwitchedOff(x.of, x.moment, x.began)
      BY <3>1 DEF RunEnds, RunWound, WrapUp
    <3>3. r = x.of /\ x.moment # Recurring /\ x.began >= x.moment /\ runAt[x.of] = x.moment
      BY <3>2 DEF SwitchedOff
    <3> QED BY <3>3, InvParts DEF RunsDone
  <2> QED BY <2>1, <2>2
<1> QED BY <1>1, Invariance, PTL DEF Spec, NewMomentStands

\* A project's folder is not removed under a run of a routine that is still there: it
\* was held when the delete began, or is found by its second look (RoutineSupervisor
\* hold, server.ts).
THEOREM FolderSpared == Spec => FolderSparesRuns
<1> DEFINE A == folder /\ ~folder' => ~\E x \in runs : x.at = "asking" /\ x.in = "project" /\ Unchanged(x)
<1>1. IInv /\ [Next]_vars => [A]_vars
  <2> SUFFICES ASSUME IInv, Next, folder, ~folder',
                      NEW x \in runs, x.at = "asking", x.in = "project", Unchanged(x)
               PROVE  FALSE
    OBVIOUS
  <2>1. PICK d \in Deleters : Deleted(d)
    <3> USE DEF table, inFlight, deletes, clocks
    <3>1. ~Tick /\ ~(\E r \in Routines : RunByHand(r)) /\ ~RunStep
      BY DEF Tick, RunByHand, Begin, RunStep, RunStepOf, RunEnds, RunWound, WrapUp
    <3>2. ~(\E r \in Routines : ChangeStep(r))
      BY DEF ChangeStep, Retime, Switch, Move, Rename, Remove, Add, Untouched
    <3>3. ~Close /\ ~Exit /\ ~Crash /\ ~Boot /\ ~Pass
      BY DEF Close, Exit, Crash, Down, Boot, Pass
    <3> QED BY <3>1, <3>2, <3>3 DEF Next, DeleteStep, DeleteBegins, DeleteFails
  <2>2. x.slug \in running
    BY InvParts DEF FlightOK
  <2>3. del[d] = "stopping" /\ ~RunningHere(Late(d))
    BY <2>1 DEF Deleted
  <2>4. x.of \in RoutinesIn /\ slug[x.of] = x.slug
    BY DEF Unchanged, RoutinesIn
  <2>5. CASE x.of \in Late(d)
    BY <2>2, <2>3, <2>4, <2>5 DEF RunningHere
  <2>6. CASE x.of \in known[d].all
    BY <2>3, <2>6, InvParts DEF Unchanged, FolderOK
  <2> QED BY <2>4, <2>5, <2>6 DEF Late
<1> QED BY <1>1, Invariance, PTL DEF Spec, FolderSparesRuns
=============================================================================
