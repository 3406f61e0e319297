----------------------- MODULE ConversationEditProofs -----------------------
(* Proofs about ConversationEdit, for any number of turns, in any words, any number
   of edits, and any number of writes that fail and stops: that words stay, that pi's
   file is in step with the page and keeps nothing that is gone from it, and that
   the versions the page offers can come back.                                *)
EXTENDS ConversationEdit, WellFoundedInduction, SequenceTheorems, FiniteSetTheorems, TLAPS

\* What an edit knows of what it takes away and brings back: the version keeps those
\* very turns; with one taken out it is that one alone; and the last turn there was.
Knows(e) ==
  /\ e.gone \subseteq Turns /\ e.kept.rows = e.gone
  /\ e.wanted.rows \subseteq Turns
  /\ e.kind = "remove" => e.gone = {e.seq}
  /\ e.before \in Nat
KnownOK == (pc # "idle" => Knows(edit)) /\ (taken # NoEdit => Knows(taken))
TurnsOK == transcript \subseteq Turns /\ latest \in Nat /\ \A v \in versions : v.rows \subseteq Turns

IInv == TurnsOK /\ KnownOK

-----------------------------------------------------------------------------
\* An edit goes on as it is, or is over; what pi is at stays, or is done with.
Steady == (pc' # "idle" => pc # "idle" /\ edit' = edit) /\ taken' \in {taken, NoEdit}

\* Nothing the edit knows changes.
LEMMA SteadyKnows == KnownOK /\ Steady => KnownOK'
  BY DEF KnownOK, Steady

\* The turns shown, and those kept, are from among those there were.
Sparing == transcript' \subseteq transcript /\ versions' \subseteq versions /\ latest' = latest

\* No turn is added.
LEMMA SparingTurns == TurnsOK /\ Sparing => TurnsOK'
  BY DEF TurnsOK, Sparing

\* The invariant holds at first.
LEMMA InitOK == Init => IInv
  BY DEF Init, IInv, TurnsOK, KnownOK

\* What an edit knows as it begins, of whatever kind it is.
LEMMA CutKnows ==
  ASSUME IInv, NEW kind \in Kinds, NEW seq \in Turns, CutFile(kind, seq)
  PROVE  Knows(edit')
<1>1. edit'.gone = From(kind, seq) /\ edit'.kept.rows = From(kind, seq)
  BY DEF CutFile
<1>2. edit'.kind = kind /\ edit'.seq = seq /\ edit'.before = latest
  BY DEF CutFile
<1>3. From(kind, seq) \subseteq Turns
  BY DEF From, IInv, TurnsOK
<1>4. edit'.wanted \in Wanted(kind, seq)
  BY DEF CutFile
<1>5. edit'.wanted.rows \subseteq Turns
  BY <1>4 DEF Wanted, NoVersion, IInv, TurnsOK
<1> QED BY <1>1, <1>2, <1>3, <1>5 DEF Knows, IInv, TurnsOK, From

\* A turn that is sent is the next there is.
LEMMA NextIsTurn == ASSUME TurnsOK, latest < LastSeq PROVE latest + 1 \in Turns
  BY ConversationAssumption DEF TurnsOK, Turns

-----------------------------------------------------------------------------
\* Every step keeps the invariant.
LEMMA InvStep == IInv /\ [Next]_vars => IInv'
<1> SUFFICES ASSUME IInv, [Next]_vars PROVE IInv'
  OBVIOUS
<1>a. TurnsOK /\ KnownOK
  BY DEF IInv
<1>b. ASSUME Steady, Sparing PROVE IInv'
  BY <1>a, <1>b, SteadyKnows, SparingTurns DEF IInv
<1>1. CASE Send
  <2>1. Steady
    BY <1>1 DEF Send, Resting, Steady
  <2>2. TurnsOK'
    BY <1>a, <1>1, NextIsTurn DEF Send, TurnsOK
  <2> QED BY <1>a, <2>1, <2>2, SteadyKnows DEF IInv
<1>2. CASE RunAnswers
  BY <1>2, <1>b DEF RunAnswers, Steady, Sparing
<1>3. CASE RunFails
  <2>1. Sparing
    BY <1>3 DEF RunFails, Sparing
  <2>2. KnownOK'
    BY <1>a, <1>3 DEF RunFails, KnownOK
  <2> QED BY <1>a, <2>1, <2>2, SparingTurns DEF IInv
<1>4. ASSUME NEW kind \in Kinds, NEW seq \in Turns, CutFile(kind, seq) PROVE IInv'
  <2>1. Sparing
    BY <1>4 DEF CutFile, Sparing
  <2>2. Knows(edit') /\ taken' = taken
    BY <1>4, CutKnows DEF CutFile
  <2>3. KnownOK'
    BY <1>a, <2>2 DEF KnownOK, Knows
  <2> QED BY <1>a, <2>1, <2>3, SparingTurns DEF IInv
<1>5. CASE CutRefused
  BY <1>5, <1>b DEF CutRefused, Begins, Resting, stores, Steady, Sparing
<1>6. CASE CutTranscript
  <2>1. Steady
    BY <1>6 DEF CutTranscript, GoTo, Writing, Steady
  <2>2. Knows(edit)
    BY <1>a, <1>6 DEF CutTranscript, KnownOK
  <2>3. transcript' \subseteq transcript /\ latest' = latest /\ versions' \subseteq versions \cup {edit.kept}
    BY <1>6 DEF CutTranscript, Writing
  <2>4. TurnsOK'
    BY <1>a, <2>2, <2>3 DEF TurnsOK, Knows
  <2> QED BY <1>a, <2>1, <2>4, SteadyKnows DEF IInv
<1>7. CASE CutUndone
  BY <1>7, <1>b DEF CutUndone, GoTo, Writing, Steady, Sparing
<1>8. CASE SendReplacement
  <2>1. TurnsOK'
    BY <1>a, <1>8, NextIsTurn DEF SendReplacement, TurnsOK
  <2>2. KnownOK'
    BY <1>a, <1>8 DEF SendReplacement, GoTo, KnownOK
  <2> QED BY <2>1, <2>2 DEF IInv
<1>9. CASE TakeVersion
  <2>1. Steady
    BY <1>9 DEF TakeVersion, GoTo, Writing, Steady
  <2>2. Knows(edit)
    BY <1>a, <1>9 DEF TakeVersion, KnownOK
  <2>3. TurnsOK'
    BY <1>a, <1>9, <2>2 DEF TakeVersion, Writing, TurnsOK, Knows
  <2> QED BY <1>a, <2>1, <2>3, SteadyKnows DEF IInv
<1>10. CASE TakeFails
  BY <1>10, <1>b DEF TakeFails, GoTo, Writing, Steady, Sparing
<1>11. CASE Rewrite
  BY <1>11, <1>b DEF Rewrite, GoTo, Writing, Steady, Sparing
<1>12. CASE RewriteFails
  <2>1. Steady
    BY <1>12 DEF RewriteFails, GoTo, Writing, Steady
  <2>2. Knows(edit)
    BY <1>a, <1>12 DEF RewriteFails, KnownOK
  <2>3. transcript' \subseteq transcript /\ latest' = latest /\ versions' \subseteq versions \cup {edit.wanted}
    BY <1>12 DEF RewriteFails, Writing
  <2>4. TurnsOK'
    BY <1>a, <2>2, <2>3 DEF TurnsOK, Knows
  <2> QED BY <1>a, <2>1, <2>4, SteadyKnows DEF IInv
<1>13. CASE UndoTranscript
  <2>1. Steady
    BY <1>13 DEF UndoTranscript, GoTo, Steady
  <2>2. Knows(edit)
    BY <1>a, <1>13 DEF UndoTranscript, KnownOK
  <2>3. TurnsOK'
    BY <1>a, <1>13, <2>2 DEF UndoTranscript, TurnsOK, Knows
  <2> QED BY <1>a, <2>1, <2>3, SteadyKnows DEF IInv
<1>14. CASE UndoTranscriptFails
  BY <1>14, <1>b DEF UndoTranscriptFails, GoTo, stores, Steady, Sparing
<1>15. CASE UndoFile
  BY <1>15, <1>b DEF UndoFile, GoTo, Writing, Steady, Sparing
<1>16. CASE UndoFileFails
  BY <1>16, <1>b DEF UndoFileFails, GoTo, Writing, Steady, Sparing
<1>17. CASE UndoLate
  BY <1>17, <1>b DEF UndoLate, GoTo, Writing, Steady, Sparing
<1>18. CASE Crash
  BY <1>18, <1>b DEF Crash, GoTo, Steady, Sparing
<1>19. CASE UNCHANGED vars
  BY <1>19, <1>b DEF vars, stores, Steady, Sparing
<1> QED BY <1>1, <1>2, <1>3, <1>4, <1>5, <1>6, <1>7, <1>8, <1>9, <1>10, <1>11, <1>12, <1>13, <1>14,
           <1>15, <1>16, <1>17, <1>18, <1>19 DEF Next, EditStep

-----------------------------------------------------------------------------
\* What WordsStay says of one step.
Stays ==
  IF pc = "cut" /\ edit.kind = "remove" THEN transcript \ transcript' \subseteq {edit.seq}
  ELSE \A m \in Kept \ Kept' : (pc = "undoLate" /\ m > edit.before) \/ (LostForGood /\ m \in edit.wanted.rows)

\* It holds where nothing that is shown or kept goes.
LEMMA Sheltered ==
  ASSUME transcript \subseteq transcript', versions \subseteq versions' PROVE Stays
  BY DEF Stays, Kept

\* What is shown or kept stays so through edits, switches, failures and stops, but for
\* what is taken out, a replacement that is gone back from, and a version that could
\* be neither shown nor kept (cut: "the events and the version that keeps them go
\* together, or neither does").
THEOREM NoWordsLost == Spec => WordsStay
<1>1. IInv /\ [Next]_vars => [Stays]_vars
  <2> SUFFICES ASSUME IInv, Next PROVE Stays
    OBVIOUS
  <2>a. TurnsOK /\ KnownOK
    BY DEF IInv
  <2>b. (CutTranscript \/ TakeVersion \/ RewriteFails \/ UndoTranscript \/ UndoLate) => Knows(edit)
    BY <2>a DEF CutTranscript, TakeVersion, RewriteFails, UndoTranscript, UndoLate, KnownOK
  <2>1. CASE Send \/ RunAnswers \/ RunFails \/ Crash
    <3>1. transcript \subseteq transcript' /\ versions \subseteq versions'
      BY <2>1 DEF Send, RunAnswers, RunFails, Crash
    <3> QED BY <3>1, Sheltered
  <2>2. CASE \E kind \in Kinds, seq \in Turns : CutFile(kind, seq)
    BY <2>2, Sheltered DEF CutFile
  <2>3. CASE CutRefused \/ UndoTranscriptFails
    BY <2>3, Sheltered DEF CutRefused, UndoTranscriptFails, stores
  <2>4. CASE CutTranscript
    <3>1. Knows(edit)
      BY <2>4, <2>b
    <3>2. CASE edit.kind = "remove"
      BY <2>4, <3>1, <3>2 DEF CutTranscript, Knows, Stays
    <3>3. CASE edit.kind # "remove"
      <4>1. transcript' = transcript \ edit.gone /\ versions' = versions \cup {edit.kept}
        BY <2>4, <3>3 DEF CutTranscript
      <4>2. Kept \subseteq Kept'
        BY <3>1, <4>1 DEF Kept, Knows
      <4> QED BY <3>3, <4>2 DEF Stays
    <3> QED BY <3>2, <3>3
  <2>5. CASE CutUndone \/ SendReplacement \/ TakeFails \/ Rewrite \/ UndoFile \/ UndoFileFails
    <3>1. transcript \subseteq transcript' /\ versions \subseteq versions'
      BY <2>5 DEF CutUndone, SendReplacement, TakeFails, Rewrite, UndoFile, UndoFileFails
    <3> QED BY <3>1, Sheltered
  <2>6. CASE TakeVersion
    <3>1. pc # "cut" /\ Kept \subseteq Kept'
      BY <2>6 DEF TakeVersion, Kept
    <3> QED BY <3>1 DEF Stays
  <2>7. CASE RewriteFails
    <3>1. pc = "rewrite"
      BY <2>7 DEF RewriteFails
    <3>2. CASE Fails(1) /\ versions' = versions \cup {edit.wanted} /\ transcript' = transcript \ edit.wanted.rows
      <4>1. Kept \subseteq Kept'
        BY <3>2 DEF Kept
      <4> QED BY <3>1, <4>1 DEF Stays
    <3>3. CASE Fails(2) /\ versions' = versions /\ transcript' = transcript \ edit.wanted.rows
      <4>1. LostForGood
        BY <3>1, <3>3 DEF LostForGood, Fails
      <4>2. Kept \ Kept' \subseteq edit.wanted.rows
        BY <3>3 DEF Kept
      <4> QED BY <3>1, <4>1, <4>2 DEF Stays
    <3>4. CASE UNCHANGED <<transcript, versions>>
      BY <3>4, Sheltered
    <3> QED BY <2>7, <3>2, <3>3, <3>4 DEF RewriteFails
  <2>8. CASE UndoTranscript
    <3>1. transcript' = transcript \cup edit.gone /\ versions' = versions \ {edit.kept} /\ pc # "cut"
      BY <2>8 DEF UndoTranscript
    <3>2. Kept \subseteq Kept'
      BY <2>8, <2>b, <3>1 DEF Kept, Knows
    <3> QED BY <3>1, <3>2 DEF Stays
  <2>9. CASE UndoLate
    <3>1. pc = "undoLate" /\ versions' = versions /\ \A m \in transcript : m <= edit.before => m \in transcript'
      BY <2>9 DEF UndoLate
    <3>2. edit.before \in Nat /\ \A m \in transcript : m \in Int
      BY <2>9, <2>b, <2>a DEF Knows, TurnsOK, Turns
    <3>3. \A m \in Kept \ Kept' : m > edit.before
      BY <3>1, <3>2 DEF Kept
    <3> QED BY <3>1, <3>3 DEF Stays
  <2> QED BY <2>1, <2>2, <2>3, <2>4, <2>5, <2>6, <2>7, <2>8, <2>9 DEF Next, EditStep
<1>2. Init => IInv
  BY InitOK
<1>3. IInv /\ [Next]_vars => IInv'
  BY InvStep
<1>4. WordsStay <=> [][Stays]_vars
  BY DEF WordsStay, Stays
<1> QED BY <1>1, <1>2, <1>3, <1>4, PTL DEF Spec
-----------------------------------------------------------------------------
(* Numbers: the least and the greatest of some, and induction. *)

\* A set of numbers has a least.
LEMMA Least == ASSUME NEW T, T \subseteq Nat, T # {} PROVE \E n \in T : \A m \in T : n <= m
<1> DEFINE R == OpToRel(<, Nat)
<1>1. IsWellFoundedOn(R, Nat)
  BY NatLessThanWellFounded
<1>2. \A x, y \in Nat : x < y => <<x, y>> \in R
  BY DEF OpToRel
<1> HIDE DEF R
<1>3. PICK x \in T : \A y \in T : ~ (<<y, x>> \in R)
  BY <1>1, WFMin
<1>4. \A m \in T : m \in Nat /\ ~ (m < x)
  BY <1>2, <1>3
<1> QED BY <1>3, <1>4

\* Induction, over a set in place of a predicate.
LEMMA Induct == ASSUME NEW T, 0 \in T, \A n \in Nat : n \in T => n + 1 \in T PROVE Nat \subseteq T
<1> SUFFICES ASSUME Nat \ T # {} PROVE FALSE
  OBVIOUS
<1>1. PICK n \in Nat \ T : \A m \in Nat \ T : n <= m
  BY Least
<1>2. n # 0 /\ n - 1 \in Nat /\ (n - 1) + 1 = n
  BY <1>1
<1>3. n - 1 \in T
  BY <1>1, <1>2
<1> QED BY <1>1, <1>2, <1>3

\* The first of the places that NextWith looks at.
LEMMA MinIs == ASSUME NEW I, I \subseteq Nat, I # {} PROVE Min(I) \in I /\ \A i \in I : Min(I) <= i
<1>1. \E n \in I : \A m \in I : n <= m
  BY Least
<1> QED BY <1>1 DEF Min

\* Numbers up to some number have a greatest.
LEMMA Greatest ==
  ASSUME NEW n \in Nat, NEW S, S \subseteq 0..n, S # {} PROVE \E x \in S : \A y \in S : y <= x
<1> DEFINE T == {n - x : x \in S}
<1>1. T \subseteq Nat /\ T # {}
  <2>1. \A x \in S : x \in 0..n /\ n - x \in Nat
    OBVIOUS
  <2>2. PICK x \in S : TRUE
    OBVIOUS
  <2> QED BY <2>1, <2>2
<1> HIDE DEF T
<1>2. PICK t \in T : \A u \in T : t <= u
  BY <1>1, Least
<1>3. PICK x \in S : t = n - x
  BY <1>2 DEF T
<1>4. ASSUME NEW y \in S PROVE y <= x
  <2>1. n - y \in T /\ n - x <= n - y
    BY <1>2, <1>3 DEF T
  <2>2. x \in Int /\ y \in Int
    OBVIOUS
  <2> QED BY <2>1, <2>2
<1> QED BY <1>4
-----------------------------------------------------------------------------
(* pi's file. *)

Entries == Turns \cup {-n : n \in Turns}

\* The turn that an entry is, or the settings are those before.
TurnOf(e) == IF e < 0 THEN -e ELSE e

\* Turns come in the order they were sent, settings right before theirs, or where it was.
Ordered(f) ==
  LET l == Lines(f)
  IN \A i, j \in DOMAIN l : i < j => TurnOf(l[i]) < TurnOf(l[j]) \/ (l[i] = -l[j] /\ l[j] > 0)

\* What a file may be where these turns got to pi.
FileOK(f, R) == IsFile(f) /\ Ordered(f) /\ \A i \in DOMAIN Lines(f) : TurnOf(Lines(f)[i]) \in R

\* An entry is a turn, or is below any.
LEMMA EntryIs ==
  ASSUME NEW e \in Entries
  PROVE  e \in Int /\ e # 0 /\ TurnOf(e) \in Turns /\ TurnOf(e) > 0
         /\ (e > 0 => TurnOf(e) = e) /\ (e < 0 => TurnOf(e) = -e) /\ (e > 0 <=> e \in Turns)
  BY ConversationAssumption DEF Entries, Turns, TurnOf

\* A file is a list of entries; or there is none, and nothing is in it.
LEMMA FileIs ==
  ASSUME NEW f, NEW R, FileOK(f, R)
  PROVE  /\ f # NoFile => f \in Seq(Entries) /\ Lines(f) = f
         /\ f = NoFile => Lines(f) = <<>> /\ InFile(f) = {}
         /\ Lines(f) \in Seq(Entries) /\ Len(Lines(f)) \in Nat /\ DOMAIN Lines(f) = 1..Len(Lines(f))
         /\ \A i \in 1..Len(Lines(f)) : Lines(f)[i] \in Entries
<1>1. f # NoFile => f \in Seq(Entries)
  BY DEF FileOK, IsFile, Entries
<1>2. Lines(f) \in Seq(Entries)
  <2>1. <<>> \in Seq(Entries)
    OBVIOUS
  <2> QED BY <1>1, <2>1 DEF Lines
<1>3. Range(<<>>) = {}
  BY DEF Range
<1>4. Len(Lines(f)) \in Nat /\ DOMAIN Lines(f) = 1..Len(Lines(f)) /\ \A i \in 1..Len(Lines(f)) : Lines(f)[i] \in Entries
  BY <1>2
<1> QED BY <1>1, <1>2, <1>3, <1>4 DEF Lines, InFile

\* A list is no sign of there being no file.
LEMMA SeqIsFile == ASSUME NEW f \in Seq(Entries) PROVE f # NoFile /\ IsFile(f) /\ Lines(f) = f
  BY ConversationAssumption DEF Entries, IsFile, Lines

\* The turns in a file are its entries that are turns, and got to pi.
LEMMA InFileIs ==
  ASSUME NEW f, NEW R, FileOK(f, R)
  PROVE  /\ \A n : n \in InFile(f) <=> n \in Turns /\ \E i \in 1..Len(Lines(f)) : Lines(f)[i] = n
         /\ InFile(f) \subseteq R /\ InFile(f) \subseteq Turns
         /\ \A i \in 1..Len(Lines(f)) : Lines(f)[i] > 0 => Lines(f)[i] \in InFile(f)
<1>1. DOMAIN Lines(f) = 1..Len(Lines(f)) /\ \A i \in 1..Len(Lines(f)) : Lines(f)[i] \in Entries
  BY FileIs
<1>2. \A n : n \in InFile(f) <=> n \in Turns /\ \E i \in 1..Len(Lines(f)) : Lines(f)[i] = n
  BY <1>1 DEF InFile, Range
<1>3. \A i \in 1..Len(Lines(f)) : Lines(f)[i] > 0 => Lines(f)[i] \in Turns
  BY <1>1, EntryIs
<1>4. ASSUME NEW n \in InFile(f) PROVE n \in R
  <2>1. PICK i \in 1..Len(Lines(f)) : Lines(f)[i] = n /\ n \in Turns
    BY <1>2
  <2>2. TurnOf(n) = n
    BY <2>1, ConversationAssumption DEF TurnOf, Turns
  <2> QED BY <1>1, <2>1, <2>2 DEF FileOK
<1> QED BY <1>2, <1>3, <1>4

\* Of two turns in a file the one sent first comes first.
LEMMA TurnsAscend ==
  ASSUME NEW f, NEW R, FileOK(f, R), NEW i \in 1..Len(Lines(f)), NEW j \in 1..Len(Lines(f)),
         Lines(f)[i] > 0, Lines(f)[j] > 0
  PROVE  i < j <=> Lines(f)[i] < Lines(f)[j]
<1>1. DOMAIN Lines(f) = 1..Len(Lines(f)) /\ Len(Lines(f)) \in Nat /\ Lines(f)[i] \in Entries /\ Lines(f)[j] \in Entries
  BY FileIs
<1>2. TurnOf(Lines(f)[i]) = Lines(f)[i] /\ TurnOf(Lines(f)[j]) = Lines(f)[j] /\ Lines(f)[i] \in Int /\ Lines(f)[j] \in Int
  BY <1>1, EntryIs
<1>3. ASSUME NEW a \in {i, j}, NEW b \in {i, j}, a < b PROVE Lines(f)[a] < Lines(f)[b]
  <2>1. TurnOf(Lines(f)[a]) < TurnOf(Lines(f)[b]) \/ (Lines(f)[a] = -Lines(f)[b] /\ Lines(f)[b] > 0)
    BY <1>1, <1>3 DEF FileOK, Ordered
  <2> QED BY <1>2, <2>1
<1>4. i < j \/ j < i \/ i = j
  OBVIOUS
<1> QED BY <1>2, <1>3, <1>4

\* Which is what Ascending says.
LEMMA FileAscends == ASSUME NEW f, NEW R, FileOK(f, R) PROVE Ascending(f)
<1>1. DOMAIN Lines(f) = 1..Len(Lines(f))
  BY FileIs
<1> QED BY <1>1, TurnsAscend DEF Ascending
-----------------------------------------------------------------------------
(* What is done to it. *)

\* The order of two entries of a file.
Follows(a, b) == TurnOf(a) < TurnOf(b) \/ (a = -b /\ b > 0)

\* A list of entries is a file if each two are in order and each is of a turn that got to pi.
LEMMA IsFileOK ==
  ASSUME NEW f \in Seq(Entries), NEW R,
         \A i, j \in 1..Len(f) : i < j => Follows(f[i], f[j]),
         \A i \in 1..Len(f) : TurnOf(f[i]) \in R
  PROVE  FileOK(f, R)
<1>1. IsFile(f) /\ Lines(f) = f /\ DOMAIN f = 1..Len(f)
  BY SeqIsFile
<1>2. Ordered(f)
  BY <1>1 DEF Ordered, Follows
<1> QED BY <1>1, <1>2 DEF FileOK

\* And in a file they are.
LEMMA InOrder ==
  ASSUME NEW f, NEW R, FileOK(f, R)
  PROVE  /\ \A i, j \in 1..Len(Lines(f)) : i < j => Follows(Lines(f)[i], Lines(f)[j])
         /\ \A i \in 1..Len(Lines(f)) : TurnOf(Lines(f)[i]) \in R
<1>1. DOMAIN Lines(f) = 1..Len(Lines(f))
  BY FileIs
<1> QED BY <1>1 DEF FileOK, Ordered, Follows

\* More turns may have got to pi than the file has.
LEMMA FileGrows == ASSUME NEW f, NEW R, NEW S, FileOK(f, R), R \subseteq S PROVE FileOK(f, S)
  BY DEF FileOK

\* A file with the entries of another at places in the same order.
LEMMA Thinned ==
  ASSUME NEW f, NEW R, FileOK(f, R), NEW g \in Seq(Entries), NEW at \in [1..Len(g) -> 1..Len(Lines(f))],
         \A i \in 1..Len(g) : g[i] = Lines(f)[at[i]],
         \A i, j \in 1..Len(g) : i < j => at[i] < at[j]
  PROVE  FileOK(g, R)
<1>1. \A i, j \in 1..Len(g) : i < j => Follows(g[i], g[j])
  BY InOrder
<1>2. \A i \in 1..Len(g) : TurnOf(g[i]) \in R
  BY InOrder
<1> QED BY <1>1, <1>2, IsFileOK

\* pi writes the turn it is sent, and its settings before it if it has opened the file again.
LEMMA WrittenFile ==
  ASSUME NEW f, NEW R, FileOK(f, R), NEW n \in Turns, \A r \in R : r < n,
         NEW g, g = Lines(f) \o <<n>> \/ g = Lines(f) \o <<-n, n>>
  PROVE  FileOK(g, R \cup {n}) /\ InFile(g) = InFile(f) \cup {n} /\ g # NoFile
<1> DEFINE l == Lines(f)
<1>1. l \in Seq(Entries) /\ Len(l) \in Nat /\ \A i \in 1..Len(l) : l[i] \in Entries
  BY FileIs
<1>2. n \in Entries /\ -n \in Entries /\ n \in Int /\ n > 0 /\ TurnOf(n) = n /\ TurnOf(-n) = n
  <2>1. n \in Int /\ n > 0 /\ -n < 0 /\ -(-n) = n
    BY ConversationAssumption DEF Turns
  <2> QED BY <2>1 DEF Entries, TurnOf
<1>3. PICK more \in {<<n>>, <<-n, n>>} : g = l \o more
  OBVIOUS
<1>4. more \in Seq(Entries) /\ Len(more) \in 1..2 /\ more[Len(more)] = n
      /\ \A i \in 1..Len(more) : more[i] \in {n, -n} /\ TurnOf(more[i]) = n
  <2>1. CASE more = <<n>>
    <3>1. Len(more) = 1 /\ more[1] = n /\ more \in Seq(Entries)
      BY <1>2, <2>1
    <3> QED BY <1>2, <3>1
  <2>2. CASE more = <<-n, n>>
    <3>1. Len(more) = 2 /\ more[1] = -n /\ more[2] = n /\ more \in Seq(Entries)
      BY <1>2, <2>2
    <3>2. \A i \in 1..2 : i = 1 \/ i = 2
      OBVIOUS
    <3> QED BY <1>2, <3>1, <3>2
  <2> QED BY <2>1, <2>2
<1>5. \A i, j \in 1..Len(more) : i < j => Follows(more[i], more[j])
  BY <1>2 DEF Follows
<1>6. \A i \in 1..Len(l) : TurnOf(l[i]) \in R /\ TurnOf(l[i]) < n
  BY InOrder
<1>7. \A i, j \in 1..Len(l) : i < j => Follows(l[i], l[j])
  BY InOrder
<1> HIDE DEF l
<1>8. g \in Seq(Entries) /\ Len(g) = Len(l) + Len(more)
      /\ \A i \in 1..(Len(l) + Len(more)) : g[i] = IF i <= Len(l) THEN l[i] ELSE more[i - Len(l)]
  BY <1>1, <1>3, <1>4, ConcatProperties
<1>9. PICK k \in Nat : k = Len(l)
  BY <1>1
<1>10. PICK m \in 1..2 : m = Len(more)
  BY <1>4
<1>11. \A i \in 1..Len(g) : (i \in 1..k /\ g[i] = l[i]) \/ (i \in (k + 1)..(k + m) /\ i - k \in 1..m /\ g[i] = more[i - k])
  BY <1>8, <1>9, <1>10
<1>12. ASSUME NEW i \in 1..Len(g), NEW j \in 1..Len(g), i < j PROVE Follows(g[i], g[j])
  <2>1. CASE j \in 1..k /\ g[j] = l[j]
    <3>1. i \in 1..k /\ g[i] = l[i]
      BY <1>11, <1>12, <2>1
    <3> QED BY <1>7, <1>9, <1>12, <2>1, <3>1
  <2>2. CASE j \in (k + 1)..(k + m) /\ j - k \in 1..m /\ g[j] = more[j - k]
    <3>1. CASE i \in 1..k /\ g[i] = l[i]
      <4>1. TurnOf(g[i]) < n /\ TurnOf(g[j]) = n
        <5>1. TurnOf(g[i]) < n
          BY <1>6, <1>9, <3>1
        <5>2. TurnOf(g[j]) = n
          BY <1>4, <1>10, <2>2
        <5> QED BY <5>1, <5>2
      <4> QED BY <4>1 DEF Follows
    <3>2. CASE i \in (k + 1)..(k + m) /\ i - k \in 1..m /\ g[i] = more[i - k]
      <4>1. i - k < j - k
        BY <1>12
      <4> QED BY <1>5, <1>10, <2>2, <3>2, <4>1
    <3> QED BY <1>11, <3>1, <3>2
  <2> QED BY <1>11, <2>1, <2>2
<1>13. ASSUME NEW i \in 1..Len(g) PROVE TurnOf(g[i]) \in R \cup {n}
  <2>1. CASE i \in 1..k /\ g[i] = l[i]
    BY <1>6, <1>9, <2>1
  <2>2. CASE i - k \in 1..m /\ g[i] = more[i - k]
    BY <1>4, <1>10, <2>2
  <2> QED BY <1>11, <2>1, <2>2
<1>14. FileOK(g, R \cup {n}) /\ g # NoFile /\ Lines(g) = g
  BY <1>8, <1>12, <1>13, IsFileOK, SeqIsFile
<1>15. ASSUME NEW x PROVE x \in InFile(g) <=> x \in InFile(f) \cup {n}
  <2>1. x \in InFile(g) <=> x \in Turns /\ \E i \in 1..Len(g) : g[i] = x
    BY <1>14, InFileIs
  <2>2. x \in InFile(f) <=> x \in Turns /\ \E i \in 1..k : l[i] = x
    BY <1>9, InFileIs DEF l
  <2>3. ASSUME x \in InFile(g) PROVE x \in InFile(f) \cup {n}
    <3>1. PICK i \in 1..Len(g) : g[i] = x
      BY <2>1, <2>3
    <3>2. x \in Turns /\ -n \notin Turns
      BY <2>1, <2>3, <1>2, ConversationAssumption DEF Turns
    <3> QED BY SMTT(20), <1>4, <1>10, <1>11, <2>2, <3>1, <3>2
  <2>4. ASSUME x \in InFile(f) PROVE x \in InFile(g)
    <3>1. PICK i \in 1..k : l[i] = x /\ x \in Turns
      BY <2>2, <2>4
    <3>2. i \in 1..Len(g) /\ i <= Len(l) /\ i \in 1..(Len(l) + Len(more))
      BY <1>8, <1>9, <1>10
    <3>3. g[i] = x
      BY <1>8, <3>1, <3>2
    <3> QED BY <2>1, <3>1, <3>2, <3>3
  <2>5. n \in InFile(g)
    <3>1. Len(g) \in 1..Len(g) /\ g[Len(g)] = more[m] /\ more[m] = n
      BY <1>4, <1>8, <1>9, <1>10
    <3> QED BY <1>14, <3>1, InFileIs
  <2> QED BY <2>3, <2>4, <2>5
<1> QED BY <1>14, <1>15

\* A list less one of its entries.
LEMMA RemovedIs ==
  ASSUME NEW f \in Seq(Entries), NEW t \in 1..Len(f), NEW g, g = RemoveAt(f, t)
  PROVE  /\ g \in Seq(Entries) /\ Len(g) = Len(f) - 1
         /\ \A i \in 1..Len(g) : g[i] = IF i < t THEN f[i] ELSE f[i + 1]
<1> DEFINE a == SubSeq(f, 1, t - 1)
           b == SubSeq(f, t + 1, Len(f))
<1>1. Len(f) \in Nat /\ \A i \in 1..Len(f) : f[i] \in Entries
  OBVIOUS
<1>2. PICK k \in Nat : k = Len(f)
  BY <1>1
<1>3. t \in 1..k
  BY <1>1, <1>2
<1>4. a \in Seq(Entries) /\ Len(a) = t - 1 /\ \A i \in 1..(t - 1) : a[i] = f[i]
  <2>1. \A i \in 1..(t - 1) : f[i] \in Entries
    BY <1>1, <1>2, <1>3
  <2> QED BY <1>3, <2>1, SubSeqProperties
<1>5. b \in Seq(Entries) /\ Len(b) = k - t /\ \A i \in 1..(k - t) : b[i] = f[i + t]
  <2>1. \A i \in (t + 1)..k : f[i] \in Entries
    BY <1>1, <1>2, <1>3
  <2>2. /\ SubSeq(f, t + 1, k) \in Seq(Entries)
        /\ Len(SubSeq(f, t + 1, k)) = IF t + 1 <= k THEN k - (t + 1) + 1 ELSE 0
        /\ \A i \in 1..(k - (t + 1) + 1) : SubSeq(f, t + 1, k)[i] = f[(t + 1) + i - 1]
    <3>1. t + 1 \in Int /\ k \in Int
      BY <1>3
    <3> QED BY <2>1, <3>1, SubSeqProperties
  <2>3. k - (t + 1) + 1 = k - t /\ \A i \in 1..(k - t) : (t + 1) + i - 1 = i + t
    BY <1>3
  <2>4. (IF t + 1 <= k THEN k - (t + 1) + 1 ELSE 0) = k - t
    BY <1>3
  <2>5. b = SubSeq(f, t + 1, k)
    BY <1>2
  <2> HIDE DEF b
  <2> QED BY <2>2, <2>3, <2>4, <2>5
<1>6. g = a \o b
  BY DEF RemoveAt
<1> HIDE DEF a, b
<1>c. /\ a \o b \in Seq(Entries) /\ Len(a \o b) = Len(a) + Len(b)
      /\ \A i \in 1..(Len(a) + Len(b)) : (a \o b)[i] = IF i <= Len(a) THEN a[i] ELSE b[i - Len(a)]
  BY <1>4, <1>5, ConcatProperties
<1>7. g \in Seq(Entries) /\ Len(g) = Len(a) + Len(b)
      /\ \A i \in 1..(Len(a) + Len(b)) : g[i] = IF i <= Len(a) THEN a[i] ELSE b[i - Len(a)]
  BY <1>6, <1>c
<1>8. Len(g) = k - 1
  BY <1>3, <1>4, <1>5, <1>7
<1>9. ASSUME NEW i \in 1..(k - 1) PROVE g[i] = IF i < t THEN f[i] ELSE f[i + 1]
  <2>1. i \in 1..(Len(a) + Len(b))
    BY <1>3, <1>4, <1>5
  <2>2. CASE i < t
    BY <1>3, <1>4, <1>7, <2>1, <2>2
  <2>3. CASE i >= t
    <3>1. i - (t - 1) \in 1..(k - t) /\ (i - (t - 1)) + t = i + 1 /\ ~ (i <= t - 1)
      BY <1>3, <2>3
    <3>2. g[i] = b[i - (t - 1)]
      BY <1>4, <1>7, <2>1, <3>1
    <3> QED BY <1>3, <1>5, <2>3, <3>1, <3>2
  <2> QED BY <1>3, <2>2, <2>3
<1> QED BY <1>2, <1>7, <1>8, <1>9

\* A turn is taken out of it: it has the others.
LEMMA RemovedFile ==
  ASSUME NEW f, NEW R, FileOK(f, R), NEW t \in 1..Len(Lines(f)), Lines(f)[t] > 0, f # NoFile
  PROVE  FileOK(RemoveAt(f, t), R) /\ RemoveAt(f, t) # NoFile /\ InFile(RemoveAt(f, t)) = InFile(f) \ {f[t]}
<1> DEFINE g == RemoveAt(f, t)
<1>1. f \in Seq(Entries) /\ Lines(f) = f /\ Len(f) \in Nat /\ \A i \in 1..Len(f) : f[i] \in Entries
  BY FileIs
<1>2. PICK k \in Nat : k = Len(f)
  BY <1>1
<1>3. t \in 1..k
  BY <1>1, <1>2
<1>4. g \in Seq(Entries) /\ Len(g) = k - 1 /\ \A i \in 1..(k - 1) : g[i] = IF i < t THEN f[i] ELSE f[i + 1]
  BY <1>1, <1>2, <1>3, RemovedIs
<1> HIDE DEF g
<1>7. g \in Seq(Entries)
  BY <1>4
<1>8. Len(g) = k - 1
  BY <1>4
<1>9. ASSUME NEW i \in 1..(k - 1) PROVE g[i] = IF i < t THEN f[i] ELSE f[i + 1]
  BY <1>4
<1> DEFINE at == [i \in 1..Len(g) |-> IF i < t THEN i ELSE i + 1]
<1>10. FileOK(g, R)
  <2>1. \A i \in 1..(k - 1) : (IF i < t THEN i ELSE i + 1) \in 1..k
    BY <1>3
  <2>2. at \in [1..Len(g) -> 1..Len(Lines(f))]
    BY <1>1, <1>2, <1>8, <2>1
  <2>3. \A i \in 1..Len(g) : g[i] = Lines(f)[at[i]]
    BY <1>1, <1>8, <1>9
  <2>4. \A i, j \in 1..Len(g) : i < j => at[i] < at[j]
    BY <1>3, <1>8
  <2> HIDE DEF at
  <2> QED BY <1>7, <2>2, <2>3, <2>4, Thinned
<1>11. g # NoFile /\ Lines(g) = g
  BY <1>7, SeqIsFile
<1>12. \A x : (x \in InFile(g) <=> x \in Turns /\ \E i \in 1..(k - 1) : g[i] = x) /\ (x \in InFile(f) <=> x \in Turns /\ \E i \in 1..k : f[i] = x)
  BY <1>1, <1>2, <1>8, <1>10, <1>11, InFileIs
<1>13. ASSUME NEW x \in InFile(g) PROVE x \in InFile(f) \ {f[t]}
  <2>1. PICK i \in 1..(k - 1) : g[i] = x /\ x \in Turns
    BY <1>12
  <2>2. PICK j \in 1..k : j # t /\ x = f[j]
    BY <1>3, <1>9, <2>1
  <2>3. x > 0
    BY <2>1, ConversationAssumption DEF Turns
  <2>4. x # f[t]
    <3>1. (j < t <=> f[j] < f[t]) /\ (t < j <=> f[t] < f[j])
      BY <1>1, <1>2, <2>2, <2>3, TurnsAscend
    <3>2. f[j] \in Int /\ f[t] \in Int
      BY <1>1, <1>2, <1>3, EntryIs
    <3> QED BY <1>3, <2>2, <3>1, <3>2
  <2> QED BY <1>12, <2>1, <2>2, <2>4
<1>14. ASSUME NEW x \in InFile(f) \ {f[t]} PROVE x \in InFile(g)
  <2>1. PICK j \in 1..k : f[j] = x /\ j # t /\ x \in Turns
    BY <1>12
  <2>2. \E i \in 1..(k - 1) : g[i] = x
    <3>1. CASE j < t
      BY <1>3, <1>9, <2>1, <3>1
    <3>2. CASE j > t
      <4>1. j - 1 \in 1..(k - 1) /\ ~ (j - 1 < t) /\ (j - 1) + 1 = j
        BY <1>3, <3>2
      <4> QED BY <1>9, <2>1, <4>1
    <3> QED BY <1>3, <2>1, <3>1, <3>2
  <2> QED BY <1>12, <2>1, <2>2
<1>15. InFile(g) = InFile(f) \ {f[t]}
  BY <1>13, <1>14
<1> QED BY <1>10, <1>11, <1>15 DEF g

\* All from a turn on are taken out of it: it has those before.
LEMMA ShortenedFile ==
  ASSUME NEW f, NEW R, FileOK(f, R), NEW t \in 1..Len(Lines(f)), Lines(f)[t] > 0, f # NoFile
  PROVE  /\ FileOK(SubSeq(f, 1, t - 1), R) /\ SubSeq(f, 1, t - 1) # NoFile
         /\ InFile(SubSeq(f, 1, t - 1)) = {m \in InFile(f) : m < f[t]}
<1> DEFINE g == SubSeq(f, 1, t - 1)
<1>1. f \in Seq(Entries) /\ Lines(f) = f /\ Len(f) \in Nat /\ \A i \in 1..Len(f) : f[i] \in Entries
  BY FileIs
<1>2. PICK k \in Nat : k = Len(f)
  BY <1>1
<1>3. t \in 1..k
  BY <1>1, <1>2
<1>4. g \in Seq(Entries) /\ Len(g) = t - 1 /\ \A i \in 1..(t - 1) : g[i] = f[i]
  <2>1. \A i \in 1..(t - 1) : f[i] \in Entries
    BY <1>1, <1>2, <1>3
  <2> QED BY <1>3, <2>1, SubSeqProperties
<1> HIDE DEF g
<1> DEFINE at == [i \in 1..Len(g) |-> i]
<1>5. FileOK(g, R)
  <2>1. \A i \in 1..(t - 1) : i \in 1..k
    BY <1>3
  <2>2. at \in [1..Len(g) -> 1..Len(Lines(f))]
    BY <1>1, <1>2, <1>4, <2>1
  <2>3. (\A i \in 1..Len(g) : g[i] = Lines(f)[at[i]]) /\ \A i, j \in 1..Len(g) : i < j => at[i] < at[j]
    BY <1>1, <1>4
  <2> HIDE DEF at
  <2>4. g \in Seq(Entries)
    BY <1>4
  <2> QED BY <2>2, <2>3, <2>4, Thinned
<1>6. g # NoFile /\ Lines(g) = g
  BY <1>4, SeqIsFile
<1>7. \A x : (x \in InFile(g) <=> x \in Turns /\ \E i \in 1..(t - 1) : g[i] = x) /\ (x \in InFile(f) <=> x \in Turns /\ \E i \in 1..k : f[i] = x)
  BY <1>1, <1>2, <1>4, <1>5, <1>6, InFileIs
<1>8. ASSUME NEW i \in 1..k, f[i] \in Turns PROVE i < t <=> f[i] < f[t]
  <2>1. f[i] > 0
    BY <1>8, ConversationAssumption DEF Turns
  <2> QED BY <1>1, <1>2, <2>1, TurnsAscend
<1>9. \A i : i \in 1..(t - 1) <=> i \in 1..k /\ i < t
  BY <1>3
<1>10. ASSUME NEW x PROVE x \in InFile(g) <=> x \in InFile(f) /\ x < f[t]
  <2>1. ASSUME x \in InFile(g) PROVE x \in InFile(f) /\ x < f[t]
    <3>1. PICK i \in 1..(t - 1) : g[i] = x /\ x \in Turns
      BY <1>7, <2>1
    <3>2. i \in 1..k /\ i < t /\ f[i] = x
      BY <1>4, <1>9, <3>1
    <3> QED BY <1>7, <1>8, <3>1, <3>2
  <2>2. ASSUME x \in InFile(f), x < f[t] PROVE x \in InFile(g)
    <3>1. PICK i \in 1..k : f[i] = x /\ x \in Turns
      BY <1>7, <2>2
    <3>2. i \in 1..(t - 1)
      BY <1>8, <1>9, <2>2, <3>1
    <3> QED BY <1>4, <1>7, <3>1, <3>2
  <2> QED BY <2>1, <2>2
<1>11. InFile(g) = {m \in InFile(f) : m < f[t]}
  BY <1>10
<1> QED BY <1>5, <1>6, <1>11 DEF g
-----------------------------------------------------------------------------
(* What two files share, and what a version keeps of one. *)

\* The first is the start of the second.
StartOf(p, f) == Len(p) <= Len(f) /\ \A i \in 1..Len(p) : p[i] = f[i]

\* IsPrefix says just that.
LEMMA PrefixIs ==
  ASSUME NEW p \in Seq(Entries), NEW f \in Seq(Entries) PROVE IsPrefix(p, f) <=> StartOf(p, f)
<1>1. PICK k \in Nat : k = Len(p)
  OBVIOUS
<1>2. PICK n \in Nat : n = Len(f)
  OBVIOUS
<1>3. (\A i \in 1..k : p[i] \in Entries) /\ \A i \in 1..n : f[i] \in Entries
  BY <1>1, <1>2
<1>4. SubSeq(p, 1, k) \in Seq(Entries) /\ Len(SubSeq(p, 1, k)) = k /\ \A i \in 1..k : SubSeq(p, 1, k)[i] = p[i]
  BY <1>3, SubSeqProperties
<1>5. CASE k <= n
  <2>1. \A i \in 1..k : f[i] \in Entries
    BY <1>3, <1>5
  <2>2. SubSeq(f, 1, k) \in Seq(Entries) /\ Len(SubSeq(f, 1, k)) = k /\ \A i \in 1..k : SubSeq(f, 1, k)[i] = f[i]
    BY <2>1, SubSeqProperties
  <2>3. ASSUME \A i \in 1..k : p[i] = f[i] PROVE SubSeq(p, 1, k) = SubSeq(f, 1, k)
    BY <1>4, <2>2, <2>3, SeqEqual
  <2> QED BY <1>1, <1>2, <1>4, <1>5, <2>2, <2>3 DEF IsPrefix, StartOf
<1>6. CASE ~ (k <= n)
  BY <1>1, <1>2, <1>6 DEF IsPrefix, StartOf
<1> QED BY <1>5, <1>6

\* The longest common start of two files is the start of both, and as long as any.
LEMMA SharedIs ==
  ASSUME NEW f \in Seq(Entries), NEW g \in Seq(Entries), NEW p, p = LongestCommonPrefix({f, g})
  PROVE  /\ p \in Seq(Entries) /\ StartOf(p, f) /\ StartOf(p, g)
         /\ \A n \in Nat : n <= Len(f) /\ n <= Len(g) /\ (\A i \in 1..n : f[i] = g[i]) => n <= Len(p)
<1> DEFINE C == CommonPrefixes({f, g})
<1>1. Len(f) \in Nat /\ \A i \in 1..Len(f) : f[i] \in Entries
  OBVIOUS
<1>2. Len(g) \in Nat /\ \A i \in 1..Len(g) : g[i] \in Entries
  OBVIOUS
<1>3. ASSUME NEW h \in {f, g}, NEW l \in 0..Len(h)
      PROVE  SubSeq(h, 1, l) \in Seq(Entries) /\ Len(SubSeq(h, 1, l)) = l /\ \A i \in 1..l : SubSeq(h, 1, l)[i] = h[i]
  <2>1. Len(h) \in Nat /\ \A i \in 1..Len(h) : h[i] \in Entries
    BY <1>1, <1>2
  <2>2. \A i \in 1..l : h[i] \in Entries
    BY <2>1
  <2> QED BY <2>1, <2>2, SubSeqProperties
<1>4. ASSUME NEW q \in C PROVE q \in Seq(Entries) /\ StartOf(q, f) /\ StartOf(q, g) /\ Len(q) \in 0..Len(f)
  <2>1. PICK h \in {f, g} : \E l \in 0..Len(h) : q = SubSeq(h, 1, l)
    BY DEF CommonPrefixes, Prefixes
  <2>2. q \in Seq(Entries)
    BY <1>3, <2>1
  <2>3. IsPrefix(q, f) /\ IsPrefix(q, g)
    BY DEF CommonPrefixes
  <2>4. StartOf(q, f) /\ StartOf(q, g)
    BY <2>2, <2>3, PrefixIs
  <2>5. Len(q) \in Nat
    BY <2>2
  <2> QED BY <1>1, <2>2, <2>4, <2>5 DEF StartOf
<1>5. ASSUME NEW n \in Nat, n <= Len(f), n <= Len(g), \A i \in 1..n : f[i] = g[i]
      PROVE  \E q \in C : Len(q) = n
  <2>1. n \in 0..Len(f)
    BY <1>1, <1>5
  <2>2. SubSeq(f, 1, n) \in Seq(Entries) /\ Len(SubSeq(f, 1, n)) = n /\ \A i \in 1..n : SubSeq(f, 1, n)[i] = f[i]
    BY <1>3, <2>1
  <2>3. StartOf(SubSeq(f, 1, n), f) /\ StartOf(SubSeq(f, 1, n), g)
    BY <1>5, <2>2 DEF StartOf
  <2>4. IsPrefix(SubSeq(f, 1, n), f) /\ IsPrefix(SubSeq(f, 1, n), g)
    BY <2>2, <2>3, PrefixIs
  <2>5. SubSeq(f, 1, n) \in Prefixes(f)
    BY <2>1 DEF Prefixes
  <2>6. SubSeq(f, 1, n) \in C
    BY <2>4, <2>5 DEF CommonPrefixes
  <2> QED BY <2>2, <2>6
<1>6. PICK q \in C : \A o \in C : Len(o) <= Len(q)
  <2> DEFINE D == {Len(o) : o \in C}
  <2>1. D \subseteq 0..Len(f)
    BY <1>4
  <2>2. D # {}
    <3>1. 0 \in Nat /\ 0 <= Len(f) /\ 0 <= Len(g) /\ \A i \in 1..0 : f[i] = g[i]
      BY <1>1, <1>2
    <3> HIDE DEF C
    <3>2. PICK o \in C : Len(o) = 0
      BY <1>5, <3>1
    <3> QED BY <3>2
  <2>3. PICK x \in D : \A y \in D : y <= x
    <3> HIDE DEF D
    <3> QED BY <1>1, <2>1, <2>2, Greatest
  <2> QED BY <2>3
<1>7. p \in C /\ \A o \in C : Len(o) <= Len(p)
  BY <1>6 DEF LongestCommonPrefix
<1> HIDE DEF C
<1>8. ASSUME NEW n \in Nat, n <= Len(f), n <= Len(g), \A i \in 1..n : f[i] = g[i] PROVE n <= Len(p)
  <2>1. PICK o \in C : Len(o) = n
    BY <1>5, <1>8
  <2> QED BY <1>7, <2>1
<1> QED BY <1>4, <1>7, <1>8

\* What a version keeps of a file is that file.
LEMMA Rejoined ==
  ASSUME NEW f \in Seq(Entries), NEW p \in Seq(Entries), StartOf(p, f), NEW t, t = SubSeq(f, Len(p) + 1, Len(f))
  PROVE  t \in Seq(Entries) /\ p \o t = f
<1>1. PICK n \in Nat : n = Len(f)
  OBVIOUS
<1>2. PICK k \in Nat : k = Len(p) /\ k <= n
  BY <1>1 DEF StartOf
<1>3. \A i \in (k + 1)..n : f[i] \in Entries
  BY <1>1
<1>4. /\ SubSeq(f, k + 1, n) \in Seq(Entries)
      /\ Len(SubSeq(f, k + 1, n)) = IF k + 1 <= n THEN n - (k + 1) + 1 ELSE 0
      /\ \A i \in 1..(n - (k + 1) + 1) : SubSeq(f, k + 1, n)[i] = f[(k + 1) + i - 1]
  BY <1>3, SubSeqProperties
<1>5. t = SubSeq(f, k + 1, n)
  BY <1>1, <1>2
<1>6. t \in Seq(Entries) /\ Len(t) = n - k /\ \A i \in 1..(n - k) : t[i] = f[k + i]
  <2>1. n - (k + 1) + 1 = n - k /\ \A i \in 1..(n - k) : (k + 1) + i - 1 = k + i
    BY <1>2
  <2>2. (IF k + 1 <= n THEN n - (k + 1) + 1 ELSE 0) = n - k
    BY <1>2
  <2> QED BY <1>4, <1>5, <2>1, <2>2
<1>7. p \o t \in Seq(Entries) /\ Len(p \o t) = Len(p) + Len(t)
      /\ \A i \in 1..(Len(p) + Len(t)) : (p \o t)[i] = IF i <= Len(p) THEN p[i] ELSE t[i - Len(p)]
  BY <1>6, ConcatProperties
<1>8. Len(p \o t) = Len(f)
  BY <1>1, <1>2, <1>6, <1>7
<1>9. ASSUME NEW i \in 1..Len(p \o t) PROVE (p \o t)[i] = f[i]
  <2>1. i \in 1..(Len(p) + Len(t))
    BY <1>7
  <2>2. CASE i <= k
    BY <1>2, <1>7, <2>1, <2>2 DEF StartOf
  <2>3. CASE ~ (i <= k)
    <3>1. i - k \in 1..(n - k) /\ k + (i - k) = i
      BY <1>1, <1>2, <1>8, <2>3
    <3> QED BY <1>2, <1>6, <1>7, <2>1, <2>3, <3>1
  <2> QED BY <2>2, <2>3
<1> QED BY <1>6, <1>7, <1>8, <1>9, SeqEqual
-----------------------------------------------------------------------------
(* Where a message is: Locate. *)

\* One message more, after where the last was found.
FoundNext(f, last, m) ==
  LET j == NextWith(f, last.from, words[m])
  IN IF m \notin transcript THEN last ELSE [from |-> IF j = 0 THEN last.from ELSE j, hit |-> j]
Nowhere == [from |-> 0, hit |-> 0]
IsFound(found, n, f) == found = [m \in 0..n |-> IF m = 0 THEN Nowhere ELSE FoundNext(f, found[m - 1], m)]

\* There is such a function for every number of messages.
LEMMA FoundExists == ASSUME NEW f PROVE \A n \in Nat : \E found : IsFound(found, n, f)
<1> DEFINE T == {n \in Nat : \E found : IsFound(found, n, f)}
<1>1. 0 \in T
  <2> DEFINE it == [m \in 0..0 |-> Nowhere]
  <2>1. \A m \in 0..0 : m = 0
    OBVIOUS
  <2>2. IsFound(it, 0, f)
    BY <2>1 DEF IsFound
  <2> QED BY <2>2
<1>2. ASSUME NEW n \in Nat, n \in T PROVE n + 1 \in T
  <2>1. PICK it : IsFound(it, n, f)
    BY <1>2
  <2> DEFINE nx == [m \in 0..(n + 1) |-> IF m = n + 1 THEN FoundNext(f, it[n], n + 1) ELSE it[m]]
  <2>2. ASSUME NEW m \in 0..(n + 1) PROVE nx[m] = IF m = 0 THEN Nowhere ELSE FoundNext(f, nx[m - 1], m)
    <3>1. CASE m = n + 1
      <4>1. m # 0 /\ m - 1 = n /\ n \in 0..(n + 1) /\ n # n + 1
        BY <3>1
      <4>2. nx[n] = it[n] /\ nx[m] = FoundNext(f, it[n], n + 1)
        BY <3>1, <4>1
      <4> HIDE DEF nx
      <4> QED BY <3>1, <4>1, <4>2
    <3>2. CASE m # n + 1
      <4>1. m \in 0..n /\ (m # 0 => m - 1 \in 0..(n + 1) /\ m - 1 # n + 1)
        BY <3>2
      <4>2. nx[m] = it[m] /\ (m # 0 => nx[m - 1] = it[m - 1])
        BY <3>2, <4>1
      <4>3. it[m] = IF m = 0 THEN Nowhere ELSE FoundNext(f, it[m - 1], m)
        BY <2>1, <4>1 DEF IsFound
      <4> HIDE DEF nx
      <4> QED BY <4>2, <4>3
    <3> QED BY <3>1, <3>2
  <2>3. nx = [m \in 0..(n + 1) |-> nx[m]]
    OBVIOUS
  <2> HIDE DEF nx
  <2>4. IsFound(nx, n + 1, f)
    BY <2>2, <2>3 DEF IsFound
  <2> QED BY <2>4
<1> HIDE DEF T
<1>3. Nat \subseteq T
  BY <1>1, <1>2, Induct
<1> QED BY <1>3 DEF T

\* Locate goes through the messages up to the one it looks for.
LEMMA LocateIs ==
  ASSUME NEW f, NEW seq \in Nat
  PROVE  \E found : /\ Locate(f, seq) = found[seq].hit /\ found[0] = Nowhere
                    /\ \A m \in 0..seq : m # 0 => found[m] = FoundNext(f, found[m - 1], m)
<1> DEFINE it == CHOOSE found : found = [m \in 0..seq |->
                   IF m = 0 THEN [from |-> 0, hit |-> 0]
                   ELSE IF m \notin transcript THEN found[m - 1]
                        ELSE [from |-> IF NextWith(f, found[m - 1].from, words[m]) = 0 THEN found[m - 1].from
                                       ELSE NextWith(f, found[m - 1].from, words[m]),
                              hit |-> NextWith(f, found[m - 1].from, words[m])]]
<1>1. Locate(f, seq) = it[seq].hit
  BY DEF Locate
<1>2. IsFound(it, seq, f)
  <2>1. it = CHOOSE found : IsFound(found, seq, f)
    BY DEF IsFound, FoundNext, Nowhere
  <2>2. \E found : IsFound(found, seq, f)
    BY FoundExists
  <2> HIDE DEF it
  <2> QED BY <2>1, <2>2
<1> HIDE DEF it
<1>3. 0 \in 0..seq
  OBVIOUS
<1> QED BY <1>1, <1>2, <1>3 DEF IsFound

\* The next place with these words: one that has them, and the first after there.
LEMMA NextIs ==
  ASSUME NEW f \in Seq(Entries), NEW from \in Nat, NEW w, NEW j, j = NextWith(f, from, w)
  PROVE  /\ j = 0 \/ (j \in (from + 1)..Len(f) /\ f[j] > 0 /\ words[f[j]] = w)
         /\ \A i \in (from + 1)..Len(f) : f[i] > 0 /\ words[f[i]] = w => j # 0 /\ j <= i
<1> DEFINE hits == {i \in (from + 1)..Len(f) : f[i] > 0 /\ words[f[i]] = w}
<1>1. Len(f) \in Nat
  OBVIOUS
<1>2. j = IF hits = {} THEN 0 ELSE Min(hits)
  BY DEF NextWith
<1>3. hits \subseteq Nat
  BY <1>1
<1>4. CASE hits = {}
  BY <1>2, <1>4
<1>5. CASE hits # {}
  <2>1. Min(hits) \in hits /\ \A i \in hits : Min(hits) <= i
    <3> HIDE DEF hits
    <3> QED BY <1>3, <1>5, MinIs
  <2>2. j = Min(hits)
    BY <1>2, <1>5
  <2>3. j # 0
    BY <1>1, <2>1, <2>2
  <2> QED BY <2>1, <2>2, <2>3
<1> QED BY <1>4, <1>5

\* A shown message that is found is at a turn of the file in its words.
LEMMA LocateHits ==
  ASSUME NEW f \in Seq(Entries), NEW seq \in transcript, transcript \subseteq Turns, Locate(f, seq) # 0
  PROVE  Locate(f, seq) \in 1..Len(f) /\ f[Locate(f, seq)] > 0 /\ words[f[Locate(f, seq)]] = words[seq]
<1>1. seq \in Nat /\ seq # 0
  BY ConversationAssumption DEF Turns
<1>2. PICK found : /\ Locate(f, seq) = found[seq].hit /\ found[0] = Nowhere
                   /\ \A m \in 0..seq : m # 0 => found[m] = FoundNext(f, found[m - 1], m)
  BY <1>1, LocateIs
<1> DEFINE P == {m \in Nat : m <= seq => found[m].from \in Nat}
<1>3. 0 \in P
  BY <1>2 DEF Nowhere
<1>4. ASSUME NEW m \in Nat, m \in P PROVE m + 1 \in P
  <2> SUFFICES ASSUME m + 1 <= seq PROVE found[m + 1].from \in Nat
    OBVIOUS
  <2>1. found[m].from \in Nat /\ m + 1 \in 0..seq /\ m + 1 # 0 /\ (m + 1) - 1 = m
    BY <1>1, <1>4
  <2>2. found[m + 1] = FoundNext(f, found[m], m + 1)
    BY <1>2, <2>1
  <2> DEFINE j == NextWith(f, found[m].from, words[m + 1])
  <2>3. j \in Nat
    <3>1. j = 0 \/ j \in (found[m].from + 1)..Len(f)
      BY <2>1, NextIs
    <3>2. Len(f) \in Nat
      OBVIOUS
    <3> QED BY <2>1, <3>1, <3>2
  <2>4. found[m + 1] = found[m] \/ found[m + 1] = [from |-> IF j = 0 THEN found[m].from ELSE j, hit |-> j]
    BY <2>2 DEF FoundNext
  <2> QED BY <2>1, <2>3, <2>4
<1>5. seq - 1 \in P
  <2> HIDE DEF P
  <2>1. Nat \subseteq P
    BY <1>3, <1>4, Induct
  <2> QED BY <1>1, <2>1
<1>6. found[seq - 1].from \in Nat /\ found[seq] = FoundNext(f, found[seq - 1], seq)
  BY <1>1, <1>2, <1>5
<1> DEFINE h == NextWith(f, found[seq - 1].from, words[seq])
<1>7. Locate(f, seq) = h
  BY <1>2, <1>6 DEF FoundNext
<1>8. h \in (found[seq - 1].from + 1)..Len(f) /\ f[h] > 0 /\ words[f[h]] = words[seq]
  BY <1>6, <1>7, NextIs
<1>9. h \in 1..Len(f)
  BY <1>6, <1>8
<1> QED BY <1>7, <1>8, <1>9

\* What Locate can go by: pi's file has just those shown that got to pi, and one that
\* did not is in words of its own.
Matched(f, R) ==
  /\ FileOK(f, R) /\ f # NoFile /\ transcript \subseteq Turns /\ InFile(f) = transcript \cap R
  /\ \A n \in transcript \ R : Alone(n)

\* Having passed the turns up to m, it finds the next, if it is there.
LEMMA FoundStep ==
  ASSUME NEW f, NEW R, Matched(f, R), NEW from \in Nat, NEW m \in Nat, m + 1 \in transcript,
         \A i \in 1..Len(f) : f[i] > 0 => (i <= from <=> f[i] <= m), NEW j, j = NextWith(f, from, words[m + 1])
  PROVE  (j = 0 /\ m + 1 \notin InFile(f)) \/ (j \in 1..Len(f) /\ f[j] = m + 1)
<1>1. f \in Seq(Entries) /\ Lines(f) = f /\ Len(f) \in Nat /\ \A i \in 1..Len(f) : f[i] \in Entries
  BY FileIs DEF Matched
<1>2. j = 0 \/ (j \in (from + 1)..Len(f) /\ f[j] > 0 /\ words[f[j]] = words[m + 1])
  BY <1>1, NextIs
<1>3. \A i \in (from + 1)..Len(f) : f[i] > 0 /\ words[f[i]] = words[m + 1] => j # 0 /\ j <= i
  BY <1>1, NextIs
<1>4. m + 1 \in Turns
  BY DEF Matched
<1>5. CASE m + 1 \in R
  <2>1. PICK p \in 1..Len(f) : f[p] = m + 1
    BY <1>1, <1>4, <1>5, InFileIs DEF Matched
  <2>2. p \in (from + 1)..Len(f)
    BY <1>1, <2>1
  <2>3. j # 0 /\ j <= p /\ j \in (from + 1)..Len(f) /\ f[j] > 0
    BY <1>2, <1>3, <2>1, <2>2
  <2>4. j \in 1..Len(f) /\ ~ (j <= from) /\ ~ (p < j) /\ f[j] \in Int
    BY <1>1, <2>2, <2>3, EntryIs
  <2>5. ~ (f[j] <= m)
    BY <2>3, <2>4
  <2>6. ~ (f[p] < f[j])
    BY <1>1, <2>1, <2>3, <2>4, TurnsAscend DEF Matched
  <2> QED BY <2>1, <2>4, <2>5, <2>6
<1>6. CASE m + 1 \notin R
  <2>1. Alone(m + 1) /\ m + 1 \notin InFile(f)
    BY <1>6 DEF Matched
  <2>2. ASSUME j # 0 PROVE FALSE
    <3>1. j \in 1..Len(f) /\ f[j] > 0 /\ words[f[j]] = words[m + 1]
      BY <1>1, <1>2, <2>2
    <3>2. f[j] \in Turns /\ f[j] \in InFile(f)
      BY <1>1, <3>1, InFileIs DEF Matched
    <3>3. f[j] = m + 1
      BY <2>1, <3>1, <3>2 DEF Alone
    <3> QED BY <2>1, <3>2, <3>3
  <2> QED BY <2>1, <2>2
<1> QED BY <1>5, <1>6

\* So it finds that very message, or nothing, whatever others say the same.
LEMMA LocateRight ==
  ASSUME NEW f, NEW R, Matched(f, R), NEW seq \in transcript, Locate(f, seq) # 0
  PROVE  Locate(f, seq) \in 1..Len(f) /\ f[Locate(f, seq)] = seq
<1>1. f \in Seq(Entries) /\ Lines(f) = f /\ Len(f) \in Nat /\ \A i \in 1..Len(f) : f[i] \in Entries /\ f[i] \in Int
  BY FileIs, EntryIs DEF Matched
<1>2. seq \in Nat /\ seq # 0
  BY ConversationAssumption DEF Turns, Matched
<1>3. PICK found : /\ Locate(f, seq) = found[seq].hit /\ found[0] = Nowhere
                   /\ \A m \in 0..seq : m # 0 => found[m] = FoundNext(f, found[m - 1], m)
  BY <1>2, LocateIs
<1> DEFINE Past(m) == found[m].from \in Nat /\ \A i \in 1..Len(f) : f[i] > 0 => (i <= found[m].from <=> f[i] <= m)
           P == {m \in Nat : m <= seq => Past(m)}
<1>4. 0 \in P
  BY <1>1, <1>3 DEF Nowhere
<1>5. ASSUME NEW m \in Nat, m + 1 <= seq, Past(m) PROVE Past(m + 1)
  <2>1. m + 1 \in 0..seq /\ m + 1 # 0 /\ (m + 1) - 1 = m
    BY <1>2, <1>5
  <2>2. found[m + 1] = FoundNext(f, found[m], m + 1)
    BY <1>3, <2>1
  <2> DEFINE j == NextWith(f, found[m].from, words[m + 1])
  <2>3. CASE m + 1 \in transcript
    <3>1. (j = 0 /\ m + 1 \notin InFile(f)) \/ (j \in 1..Len(f) /\ f[j] = m + 1)
      BY <1>5, <2>3, FoundStep
    <3>2. found[m + 1] = [from |-> IF j = 0 THEN found[m].from ELSE j, hit |-> j]
      BY <2>2, <2>3 DEF FoundNext
    <3> HIDE DEF j
    <3>3. CASE j = 0 /\ m + 1 \notin InFile(f)
      <4>1. \A i \in 1..Len(f) : f[i] > 0 => f[i] # m + 1
        BY <1>1, <3>3, InFileIs DEF Matched
      <4>2. found[m + 1].from = found[m].from
        BY <3>2, <3>3
      <4> QED BY <1>1, <1>5, <4>1, <4>2
    <3>4. CASE j \in 1..Len(f) /\ f[j] = m + 1
      <4>1. found[m + 1].from = j /\ j \in Nat
        BY <1>1, <3>2, <3>4
      <4>2. \A i \in 1..Len(f) : f[i] > 0 => (j < i <=> f[j] < f[i])
        BY <1>1, <3>4, TurnsAscend DEF Matched
      <4> QED BY <1>1, <3>4, <4>1, <4>2
    <3> QED BY <3>1, <3>3, <3>4
  <2>4. CASE m + 1 \notin transcript
    <3>1. found[m + 1] = found[m]
      BY <2>2, <2>4 DEF FoundNext
    <3>2. \A i \in 1..Len(f) : f[i] > 0 => f[i] # m + 1
      BY <1>1, <2>4, InFileIs DEF Matched
    <3> QED BY <1>1, <1>5, <3>1, <3>2
  <2> QED BY <2>3, <2>4
<1>6. \A m \in Nat : m \in P => m + 1 \in P
  <2> SUFFICES ASSUME NEW m \in Nat, m \in P, m + 1 <= seq PROVE Past(m + 1)
    OBVIOUS
  <2>1. Past(m)
    BY <1>2
  <2> HIDE DEF Past
  <2> QED BY <1>5, <2>1
<1>7. Past(seq - 1)
  <2> HIDE DEF P, Past
  <2>1. Nat \subseteq P
    BY <1>4, <1>6, Induct
  <2>2. seq - 1 \in Nat /\ seq - 1 <= seq
    BY <1>2
  <2> QED BY <2>1, <2>2 DEF P
<1>8. found[seq] = FoundNext(f, found[seq - 1], seq)
  BY <1>2, <1>3
<1>9. seq - 1 \in Nat /\ (seq - 1) + 1 = seq
  BY <1>2
<1> DEFINE h == NextWith(f, found[seq - 1].from, words[seq])
<1>10. Locate(f, seq) = h
  BY <1>3, <1>8 DEF FoundNext
<1>11. h = 0 \/ (h \in 1..Len(f) /\ f[h] = seq)
  BY <1>7, <1>9, FoundStep
<1> QED BY <1>10, <1>11
-----------------------------------------------------------------------------
(* What is shown, what is kept, and what pi's file has of it. *)

\* A version, and what an edit keeps as one: what was after a message.
VersionOK(v, R) ==
  /\ v.anchor \in Nat /\ v.rows \subseteq Turns /\ v.rows # {} /\ \A n \in v.rows : v.anchor < n
  /\ IsFile(v.prefix) /\ v.tail \in Seq(Entries) /\ FileOK(FileFor(v), R)

\* A message is shown, or kept in one version.
PlacesOK ==
  /\ latest \in 0..LastSeq /\ transcript \subseteq 1..latest /\ reached \subseteq 1..latest
  /\ FileOK(file, reached)
  /\ \A v \in versions : VersionOK(v, reached) /\ v.rows \subseteq 1..latest /\ v.rows \cap transcript = {}
  /\ \A u, v \in versions : u # v => u.rows \cap v.rows = {}

\* pi is at the last message, which is not in its file yet, and nothing goes on from it.
RunOK == run # 0 => /\ pc = "idle" /\ run = latest /\ run \in transcript /\ run \notin reached
                    /\ \A v \in versions : v.anchor < run

\* What an edit was when it began: what it takes away is kept with the whole of the file
\* there was, and a switch brings back what was after that same message.  Where there
\* was no file there is none until the edit stands.
Began(e, n, V, R, f) ==
  /\ e.kind \in Kinds
  /\ VersionOK(e.kept, R) /\ e.gone = e.kept.rows /\ FileFor(e.kept) = e.original
  /\ e.before \in 0..n /\ e.gone \subseteq 1..e.before /\ \A v \in V : v.anchor <= e.before
  /\ (e.original = NoFile => f = NoFile)
  /\ e.kind = "switch" =>
       /\ VersionOK(e.wanted, R) /\ e.wanted.anchor = e.kept.anchor /\ e.wanted.rows \subseteq 1..e.before
       /\ e.wanted.prefix = NoFile <=> e.original = NoFile

\* Everything shown is up to the anchor of a version, or is its, or came after an edit.
Ends(T, v)    == v.anchor \in {0} \cup T /\ \A n \in T : n <= v.anchor
EndsIn(T, v)  == v.rows \subseteq T /\ v.anchor \in {0} \cup T /\ \A n \in T : n <= v.anchor \/ n \in v.rows
Gap(T, v, b)  == v.anchor \in {0} \cup T /\ \A n \in T : n <= v.anchor \/ n > b

\* Where the turns are, as the edit goes.
AtCut(e) ==
  /\ e.before = latest
  /\ IF e.kind = "remove" THEN e.gone = {e.seq} /\ e.seq \in transcript ELSE EndsIn(transcript, e.kept)
  /\ e.kind = "switch" => e.wanted \in versions
AtTake(e)    == e.kept \in versions /\ e.before = latest /\ Ends(transcript, e.kept)
AtRewrite(e) == e.kept \in versions /\ e.before = latest /\ EndsIn(transcript, e.wanted)
                /\ \A v \in versions : v.rows \cap e.wanted.rows = {}
AtUndo(e)    == e.kept \in versions /\ Gap(transcript, e.kept, e.before)

PhaseOK ==
  /\ pc # "idle" => Began(edit, latest, versions, reached, file)
  /\ pc = "cut" => AtCut(edit)
  /\ pc = "send" => edit.kind = "replace" /\ AtTake(edit)
  /\ pc = "take" => edit.kind = "switch" /\ AtTake(edit) /\ edit.wanted \in versions \ {edit.kept}
  /\ pc = "rewrite" => edit.kind = "switch" /\ AtRewrite(edit)
  /\ pc = "undo" => AtUndo(edit)
  /\ pc \in {"undo", "undoFile"} /\ edit.kind # "replace" => transcript \subseteq 1..edit.before

\* What an edit that pi is at the replacement of goes back to.
TakenOK ==
  taken # NoEdit => /\ run # 0 /\ Began(taken, latest, versions, reached, file)
                    /\ taken.kind = "replace" /\ AtUndo(taken) /\ run > taken.before

PlaceInv == PlacesOK /\ RunOK /\ PhaseOK /\ TakenOK

-----------------------------------------------------------------------------
(* The conversation as each turn was sent. *)

Pasts == [0..LastSeq -> SUBSET Turns]
Begin(past) == past[0] = {} /\ \A n \in 0..LastSeq : past[n] \subseteq 1..n

\* A version's turns were sent one after the other, from its anchor on.
Hangs(v, past) == \A n \in v.rows : past[n] = past[v.anchor] \cup (v.rows \cap (1..n))

\* What was when each was sent: of what is shown, and of what is kept.
PastOK(past, T, V) == Begin(past) /\ (\A n \in T : past[n] = T \cap (1..n)) /\ \A v \in V : Hangs(v, past)

\* A version goes on from what is shown as it was.
Fits(past, T, V) == \A v \in V : Hangs(v, past) /\ (v.anchor \in T => past[v.anchor] = T \cap (1..v.anchor))

\* A file has no turn but these, and all of them that got to pi, unless the chat came apart.
Tells(f, S, R, loose) == InFile(f) \subseteq S /\ (loose \/ S \cap R \subseteq InFile(f))

\* A message can be told by its words: all are different, or those that did not get to
\* pi are, in a chat that never came apart.
Reliable == (\A n \in Turns : Alone(n)) \/ (~MissAny /\ ~apart)

VersionsTell(past) == \A v \in versions : Tells(FileFor(v), past[v.anchor] \cup v.rows, reached, apart)
FilesTell ==
  /\ InFile(file) \subseteq transcript
  /\ pc \in {"idle", "send", "take"} => Tells(file, transcript, reached, apart)
  /\ pc = "cut" => /\ Tells(file, transcript \ edit.gone, reached, apart)
                   /\ Tells(edit.original, transcript, reached, apart)
  /\ pc = "rewrite" => /\ InFile(file) \subseteq transcript \ edit.wanted.rows
                       /\ Tells(FileFor(edit.wanted), transcript, reached, apart)
  /\ pc = "undoFile" => Tells(edit.original, transcript \cap (1..edit.before), reached, apart)
  /\ pc = "undoLate" => Tells(file, transcript \cap (1..edit.before), reached, apart)

TellInv == \E past \in Pasts : PastOK(past, transcript, versions) /\ (Reliable => VersionsTell(past) /\ FilesTell)

\* A message that is shown or kept and did not get to pi is in words of its own, but for
\* the one pi is at, and what an edit that goes back will take out.
MissedOK ==
  ~MissAny /\ ~apart => \A n \in Kept \ reached :
    n = run \/ Alone(n) \/ (pc \in {"undo", "undoFile", "undoLate"} /\ n \in transcript /\ n > edit.before)

FileInv == PlaceInv /\ MissedOK /\ TellInv
-----------------------------------------------------------------------------
(* Facts about these. *)

\* More turns may have got to pi.
LEMMA VersionGrows == ASSUME NEW v, NEW R, NEW S, VersionOK(v, R), R \subseteq S PROVE VersionOK(v, S)
  BY FileGrows DEF VersionOK

\* The anchor of a version is before its turns, and those before some number.
LEMMA AnchorBefore ==
  ASSUME NEW v, NEW R, VersionOK(v, R), NEW b \in Nat, v.rows \subseteq 1..b
  PROVE  v.anchor < b /\ v.anchor \in Nat
  BY DEF VersionOK

\* There is no file where the version has none.
LEMMA FileForIs ==
  ASSUME NEW v, NEW R, VersionOK(v, R)
  PROVE  /\ FileFor(v) = NoFile <=> v.prefix = NoFile
         /\ v.prefix # NoFile => v.prefix \in Seq(Entries) /\ FileFor(v) = v.prefix \o v.tail
<1>1. v.prefix # NoFile => v.prefix \in Seq(Entries)
  BY DEF VersionOK, IsFile, Entries
<1>2. v.prefix # NoFile => v.prefix \o v.tail \in Seq(Entries)
  BY <1>1, ConcatProperties DEF VersionOK
<1>3. v.prefix # NoFile => v.prefix \o v.tail # NoFile
  BY <1>2, SeqIsFile
<1> QED BY <1>1, <1>3 DEF FileFor

\* What an edit knows stays so while the versions there are, are those, or of that message.
LEMMA BeganStays ==
  ASSUME NEW e, NEW n \in Nat, NEW V, NEW R, NEW f, Began(e, n, V, R, f),
         NEW n2 \in Nat, n <= n2, NEW V2, \A v \in V2 : v \in V \/ v = e.kept \/ (v = e.wanted /\ e.kind = "switch"),
         NEW R2, R \subseteq R2, NEW f2, e.original = NoFile => f2 = NoFile
  PROVE  Began(e, n2, V2, R2, f2)
<1>1. VersionOK(e.kept, R2) /\ (e.kind = "switch" => VersionOK(e.wanted, R2))
  BY VersionGrows DEF Began
<1>2. e.before \in 0..n2 /\ e.before \in Nat
  BY DEF Began
<1>3. e.kept.anchor <= e.before /\ e.kept.anchor \in Nat
  BY <1>2, AnchorBefore DEF Began
<1>4. \A v \in V2 : v.anchor <= e.before
  BY <1>3 DEF Began
<1> QED BY <1>1, <1>2, <1>4 DEF Began

\* A file tells the same where no turn of these has got to pi since.
LEMMA TellsStays ==
  ASSUME NEW f, NEW S, NEW R, NEW R2, NEW l, NEW l2, Tells(f, S, R, l),
         \A n \in R2 : n \in R \/ n \notin S, l => l2
  PROVE  Tells(f, S, R2, l2)
  BY DEF Tells

\* What is shown and kept is as it was at the turns, whatever is no longer either.
SetApart(T, V) ==
  T \subseteq 1..LastSeq /\ \A v \in V : v.rows \cap T = {} /\ v.rows \subseteq 1..LastSeq /\ v.anchor \in 0..LastSeq

LEMMA Refit ==
  ASSUME NEW past \in Pasts, Begin(past), NEW T, NEW V, SetApart(T, V), Fits(past, T, V)
  PROVE  \E new \in Pasts : PastOK(new, T, V) /\ \A v \in V : new[v.anchor] = past[v.anchor]
<1>a. T \subseteq 1..LastSeq /\ \A v \in V : v.rows \cap T = {} /\ v.rows \subseteq 1..LastSeq /\ v.anchor \in 0..LastSeq
  BY DEF SetApart
<1> DEFINE new == [n \in 0..LastSeq |-> IF n \in T THEN T \cap (1..n) ELSE past[n]]
<1>1. LastSeq \in Nat /\ 0 \notin T /\ T \subseteq 0..LastSeq
  BY <1>a, ConversationAssumption
<1>2. \A n \in 0..LastSeq : new[n] = IF n \in T THEN T \cap (1..n) ELSE past[n]
  OBVIOUS
<1>3. new \in Pasts
  BY <1>1 DEF Pasts, Turns
<1> HIDE DEF new
<1>4. Begin(new)
  <2>1. new[0] = past[0]
    <3>1. 0 \in 0..LastSeq
      BY <1>1
    <3>2. new[0] = IF 0 \in T THEN T \cap (1..0) ELSE past[0]
      BY <1>2, <3>1
    <3> QED BY <1>1, <3>2
  <2>2. \A n \in 0..LastSeq : T \cap (1..n) \subseteq 1..n /\ past[n] \subseteq 1..n
    BY DEF Begin
  <2>3. \A n \in 0..LastSeq : new[n] \subseteq 1..n
    BY <1>2, <2>2
  <2> QED BY <2>1, <2>3 DEF Begin
<1>5. \A n \in T : new[n] = T \cap (1..n)
  BY <1>1, <1>2
<1>6. \A v \in V : new[v.anchor] = past[v.anchor]
  <2> SUFFICES ASSUME NEW v \in V PROVE new[v.anchor] = past[v.anchor]
    OBVIOUS
  <2>1. v.anchor \in 0..LastSeq
    BY <1>a
  <2>2. new[v.anchor] = IF v.anchor \in T THEN T \cap (1..v.anchor) ELSE past[v.anchor]
    BY <1>2, <2>1
  <2> QED BY <2>2 DEF Fits
<1>7. ASSUME NEW v \in V PROVE Hangs(v, new)
  <2>1. ASSUME NEW n \in v.rows PROVE new[n] = past[n]
    <3>1. n \in 1..LastSeq /\ n \notin T
      BY <1>a
    <3>2. n \in 0..LastSeq
      BY <1>1, <3>1
    <3>3. new[n] = IF n \in T THEN T \cap (1..n) ELSE past[n]
      BY <1>2, <3>2
    <3> QED BY <3>1, <3>3
  <2> QED BY <1>6, <2>1 DEF Fits, Hangs
<1> QED BY <1>3, <1>4, <1>5, <1>6, <1>7 DEF PastOK

\* Nothing that is shown changes where a version goes on from.
LEMMA FitsAsIs ==
  ASSUME NEW past \in Pasts, NEW T, NEW V, PastOK(past, T, V), NEW W, W \subseteq V, NEW U,
         \A v \in W : v.anchor \in U => v.anchor \in T /\ T \cap (1..v.anchor) = U \cap (1..v.anchor)
  PROVE  Begin(past) /\ Fits(past, U, W)
  BY DEF PastOK, Fits

\* All after the message w goes on from is set aside as w, or shown no more.
LEMMA SetAside ==
  ASSUME NEW past \in Pasts, NEW T, T \subseteq 1..LastSeq, NEW V, PastOK(past, T, V),
         \A v \in V : v.anchor \in 0..LastSeq,
         NEW w, w.anchor \in 0..LastSeq, EndsIn(T, w), \A n \in w.rows : w.anchor < n,
         NEW W, \A v \in W : v \in V \/ v = w
  PROVE  Begin(past) /\ Fits(past, T \ w.rows, W) /\ past[w.anchor] = T \cap (1..w.anchor)
         /\ past[w.anchor] \cup w.rows = T
<1>1. LastSeq \in Nat /\ \A n \in T : n \in Int /\ n > 0 /\ n <= LastSeq
  BY ConversationAssumption
<1>2. past[w.anchor] = T \cap (1..w.anchor)
  BY <1>1 DEF PastOK, Begin, EndsIn
<1>3. \A n \in T : n <= w.anchor \/ n \in w.rows
  BY DEF EndsIn
<1>4. past[w.anchor] \cup w.rows = T
  <2>1. w.rows \subseteq T
    BY DEF EndsIn
  <2>2. \A n \in T : n <= w.anchor => n \in 1..w.anchor
    BY <1>1
  <2> QED BY <1>2, <1>3, <2>1, <2>2
<1>5. Hangs(w, past)
  <2> SUFFICES ASSUME NEW n \in w.rows PROVE past[n] = past[w.anchor] \cup (w.rows \cap (1..n))
    BY DEF Hangs
  <2>1. n \in T /\ past[n] = T \cap (1..n) /\ w.anchor < n
    BY DEF PastOK, EndsIn
  <2>2. past[n] = (T \cap (1..w.anchor)) \cup (w.rows \cap (1..n))
    BY <1>1, <1>3, <2>1 DEF EndsIn
  <2> QED BY <1>2, <2>2
<1>6. ASSUME NEW v \in W, v.anchor \in T \ w.rows PROVE past[v.anchor] = (T \ w.rows) \cap (1..v.anchor)
  <2>1. v.anchor \in T /\ v.anchor <= w.anchor
    BY <1>3, <1>6
  <2>2. past[v.anchor] = T \cap (1..v.anchor)
    BY <2>1 DEF PastOK
  <2>3. T \cap (1..v.anchor) = (T \ w.rows) \cap (1..v.anchor)
    BY <1>1, <2>1
  <2> QED BY <2>2, <2>3
<1> QED BY <1>2, <1>4, <1>5, <1>6 DEF Fits, PastOK

\* All goes on from the messages up to b.
UpTo(V, b) == b \in Nat /\ \A v \in V : v.anchor \in 0..LastSeq /\ v.anchor <= b

\* What w keeps is before all that is shown beyond what it goes on from.
Behind(T, w, b) == Gap(T, w, b) /\ (\A n \in w.rows : w.anchor < n) /\ w.rows \subseteq 1..b

\* What was when w's first turn was sent, and w's turns, are what is shown up to b.
Joined(past, w, U, b) == past[w.anchor] \cup w.rows = U \cap (1..b)

\* A version is brought back to where it goes on from, before all that came after b.
LEMMA BroughtBack ==
  ASSUME NEW past \in Pasts, NEW T, T \subseteq 1..LastSeq, NEW V, PastOK(past, T, V),
         NEW b, UpTo(V, b),
         NEW w \in V, Behind(T, w, b),
         NEW U, U = T \cup w.rows
  PROVE  Begin(past) /\ Fits(past, U, V) /\ Joined(past, w, U, b)
<1>1. LastSeq \in Nat /\ \A n \in T : n \in Int /\ n > 0 /\ n <= LastSeq
  BY ConversationAssumption
<1>a. Gap(T, w, b) /\ (\A n \in w.rows : w.anchor < n) /\ w.rows \subseteq 1..b
  BY DEF Behind
<1>b. b \in Nat /\ \A v \in V : v.anchor \in 0..LastSeq /\ v.anchor <= b /\ v.anchor \in Nat
  BY <1>1 DEF UpTo
<1>2. past[w.anchor] = T \cap (1..w.anchor) /\ w.anchor <= b /\ w.anchor \in Nat
  BY <1>1, <1>a, <1>b DEF PastOK, Begin, Gap
<1>3. \A n \in T : n <= w.anchor \/ n > b
  BY <1>a DEF Gap
<1>4. past[w.anchor] \cup w.rows = (T \cup w.rows) \cap (1..b)
  BY <1>1, <1>2, <1>3, <1>a, <1>b
<1>5. ASSUME NEW v \in V, v.anchor \in T \cup w.rows PROVE past[v.anchor] = (T \cup w.rows) \cap (1..v.anchor)
  <2>1. CASE v.anchor \in w.rows
    <3>1. past[v.anchor] = past[w.anchor] \cup (w.rows \cap (1..v.anchor)) /\ w.anchor < v.anchor /\ v.anchor <= b
      BY <1>a, <1>b, <2>1 DEF PastOK, Hangs
    <3> QED BY <1>1, <1>2, <1>3, <1>a, <1>b, <3>1
  <2>2. CASE v.anchor \in T /\ v.anchor \notin w.rows
    <3>1. past[v.anchor] = T \cap (1..v.anchor) /\ v.anchor <= b /\ v.anchor <= w.anchor
      BY <1>1, <1>3, <1>b, <2>2 DEF PastOK
    <3>2. (T \cup w.rows) \cap (1..v.anchor) = T \cap (1..v.anchor)
      BY <1>1, <1>2, <1>a, <1>b, <3>1
    <3> QED BY <3>1, <3>2
  <2> QED BY <1>5, <2>1, <2>2
<1>6. Joined(past, w, U, b)
  BY <1>4 DEF Joined
<1>7. Fits(past, U, V)
  BY <1>5 DEF Fits, PastOK
<1> QED BY <1>6, <1>7 DEF PastOK

\* What something goes on from is a turn, or nothing.
LEMMA AnchorIn == ASSUME NEW T, T \subseteq 1..LastSeq, NEW a, a \in {0} \cup T PROVE a \in 0..LastSeq
<1>1. 0 \in 0..LastSeq /\ 1..LastSeq \subseteq 0..LastSeq
  BY ConversationAssumption
<1> QED BY <1>1

\* What fits, fits where there is less.
LEMMA FitsLess == ASSUME NEW past, NEW T, NEW V, Fits(past, T, V), NEW W, W \subseteq V PROVE Fits(past, T, W)
  BY DEF Fits
-----------------------------------------------------------------------------
(* What CutFile does. *)

\* The message before: shown, and none is between the two; or there is none before.
LEMMA AnchorIs ==
  ASSUME NEW seq \in Nat, NEW n \in Nat, transcript \subseteq 1..n
  PROVE  /\ Anchor(seq) \in {0} \cup transcript /\ Anchor(seq) \in 0..n
         /\ \A m \in transcript : m < seq => m <= Anchor(seq)
         /\ Anchor(seq) # 0 => Anchor(seq) < seq
<1> DEFINE S == {m \in transcript : m < seq}
<1>1. CASE S = {}
  BY <1>1 DEF Anchor
<1>2. CASE S # {}
  <2>1. S \subseteq 0..n
    <3> SUFFICES ASSUME NEW x \in S PROVE x \in 0..n
      OBVIOUS
    <3>1. x \in 1..n
      OBVIOUS
    <3> QED BY <3>1
  <2>2. \E x \in S : \A y \in S : y <= x
    <3> HIDE DEF S
    <3> QED BY <1>2, <2>1, Greatest
  <2>3. Anchor(seq) \in S /\ \A y \in S : y <= Anchor(seq)
    BY <1>2, <2>2 DEF Anchor
  <2> QED BY <2>1, <2>3
<1> QED BY <1>1, <1>2

\* A version keeps the whole of the file, and the longest start it shares with what
\* takes its place.
LEMMA KeptIs ==
  ASSUME NEW f, NEW R, FileOK(f, R), NEW b, NEW Q, FileOK(b, Q), NEW c, FileOK(c, Q),
         NEW k, k = KeptFile(f, b, c)
  PROVE  /\ IsFile(k.prefix) /\ k.tail \in Seq(Entries) /\ (k.prefix = NoFile <=> f = NoFile)
         /\ f # NoFile => /\ k.prefix \in Seq(Entries) /\ k.prefix \o k.tail = f
                          /\ k.prefix = LongestCommonPrefix({f, Lines(IF b = NoFile THEN c ELSE b)})
<1>1. CASE f = NoFile
  <2>1. k.prefix = NoFile /\ k.tail = <<>>
    BY <1>1 DEF KeptFile
  <2>2. <<>> \in Seq(Entries)
    OBVIOUS
  <2> QED BY <1>1, <2>1, <2>2 DEF IsFile
<1>2. CASE f # NoFile
  <2> DEFINE p == SharedPrefix(f, b, c)
             t == SubSeq(f, Len(p) + 1, Len(f))
  <2>1. k.prefix = p /\ k.tail = t
    BY <1>2 DEF KeptFile
  <2>2. p = LongestCommonPrefix({f, Lines(IF b = NoFile THEN c ELSE b)})
    BY DEF SharedPrefix
  <2>3. f \in Seq(Entries)
    BY <1>2, FileIs
  <2>4. Lines(IF b = NoFile THEN c ELSE b) \in Seq(Entries)
    BY FileIs
  <2>5. p \in Seq(Entries) /\ StartOf(p, f)
    BY <2>2, <2>3, <2>4, SharedIs
  <2>6. t \in Seq(Entries) /\ p \o t = f
    <3> HIDE DEF p
    <3> QED BY <2>3, <2>5, Rejoined
  <2>7. IsFile(p) /\ p # NoFile
    BY <2>5, SeqIsFile
  <2> HIDE DEF p, t
  <2> QED BY <1>2, <2>1, <2>2, <2>5, <2>6, <2>7
<1> QED BY <1>1, <1>2

\* A shown message that is found is cut out, or all from it on.
LEMMA DroppedFile ==
  ASSUME NEW f, NEW R, FileOK(f, R), f # NoFile, NEW seq \in transcript, transcript \subseteq Turns,
         NEW t, t = Locate(f, seq), t # 0, NEW kind, NEW g, g = DropMessage(f, t, kind)
  PROVE  /\ FileOK(g, R) /\ g # NoFile /\ t \in 1..Len(f) /\ f[t] > 0
         /\ InFile(g) = IF kind = "remove" THEN InFile(f) \ {f[t]} ELSE {m \in InFile(f) : m < f[t]}
<1>1. f \in Seq(Entries) /\ Lines(f) = f
  BY FileIs
<1>2. t \in 1..Len(f) /\ f[t] > 0
  BY <1>1, LocateHits
<1>3. t \in 1..Len(Lines(f)) /\ Lines(f)[t] > 0
  BY <1>1, <1>2
<1>4. CASE kind = "remove"
  <2>1. g = RemoveAt(f, t)
    BY <1>4 DEF DropMessage
  <2>2. FileOK(g, R) /\ g # NoFile /\ InFile(g) = InFile(f) \ {f[t]}
    BY <1>3, <2>1, RemovedFile
  <2> QED BY <1>2, <1>4, <2>2
<1>5. CASE kind # "remove"
  <2>1. g = SubSeq(f, 1, t - 1)
    BY <1>5 DEF DropMessage
  <2>2. FileOK(g, R) /\ g # NoFile /\ InFile(g) = {m \in InFile(f) : m < f[t]}
    BY <1>3, <2>1, ShortenedFile
  <2> QED BY <1>2, <1>5, <2>2
<1> QED BY <1>4, <1>5

\* What an edit begins with.
LEMMA CutFileIs ==
  ASSUME PlacesOK, NEW kind \in Kinds, NEW seq \in Turns, CutFile(kind, seq)
  PROVE  /\ seq \in transcript /\ edit'.kind = kind /\ edit'.seq = seq /\ edit'.before = latest
         /\ edit'.original = file /\ edit'.gone = From(kind, seq) /\ edit'.kept.rows = From(kind, seq)
         /\ edit'.kept.anchor = Anchor(seq) /\ edit'.kept.seq = seq /\ edit'.wanted \in Wanted(kind, seq)
         /\ (kind = "switch" => edit'.wanted \in versions /\ edit'.wanted.anchor = Anchor(seq) /\ FileStands(edit'.wanted, file))
         /\ file = NoFile => file' = NoFile
         /\ file # NoFile => Locate(file, seq) # 0 /\ file' = DropMessage(file, Locate(file, seq), kind)
         /\ FileOK(file', reached)
         /\ VersionOK(edit'.kept, reached) /\ FileFor(edit'.kept) = file
         /\ (edit'.kept.prefix = NoFile <=> file = NoFile)
         /\ file # NoFile =>
              edit'.kept.prefix = LongestCommonPrefix({file, Lines(IF kind = "switch" /\ FileFor(edit'.wanted) # NoFile
                                                                   THEN FileFor(edit'.wanted) ELSE file')})
<1>1. PICK v \in Wanted(kind, seq) :
         LET target  == Locate(file, seq)
             becomes == IF kind = "switch" THEN FileFor(v) ELSE NoFile
             cut     == IF file = NoFile THEN NoFile ELSE DropMessage(file, target, kind)
             kept    == KeptFile(file, becomes, cut)
         IN /\ kind = "switch" => FileStands(v, file)
            /\ file # NoFile => target # 0
            /\ file' = cut
            /\ edit' = [kind |-> kind, seq |-> seq, gone |-> From(kind, seq), original |-> file, wanted |-> v,
                        before |-> latest,
                        kept |-> [anchor |-> Anchor(seq), seq |-> seq, rows |-> From(kind, seq),
                                  prefix |-> kept.prefix, tail |-> kept.tail]]
  BY DEF CutFile
<1> DEFINE becomes == IF kind = "switch" THEN FileFor(v) ELSE NoFile
           kept    == KeptFile(file, becomes, file')
<1>2. /\ seq \in transcript /\ (kind = "switch" => FileStands(v, file))
      /\ file = NoFile => file' = NoFile
      /\ file # NoFile => Locate(file, seq) # 0 /\ file' = DropMessage(file, Locate(file, seq), kind)
  BY <1>1 DEF CutFile
<1>3. edit' = [kind |-> kind, seq |-> seq, gone |-> From(kind, seq), original |-> file, wanted |-> v,
               before |-> latest,
               kept |-> [anchor |-> Anchor(seq), seq |-> seq, rows |-> From(kind, seq),
                         prefix |-> kept.prefix, tail |-> kept.tail]]
  BY <1>1
<1>4. transcript \subseteq Turns /\ seq \in Nat /\ transcript \subseteq 1..latest /\ latest \in Nat
  BY <1>2, ConversationAssumption DEF PlacesOK, Turns
<1>5. FileOK(file, reached)
  BY DEF PlacesOK
<1>6. FileOK(file', reached)
  <2>1. CASE file = NoFile
    BY <1>2, <1>5, <2>1
  <2>2. CASE file # NoFile
    BY <1>2, <1>4, <1>5, <2>2, DroppedFile
  <2> QED BY <2>1, <2>2
<1>7. kind = "switch" => v \in versions /\ v.anchor = Anchor(seq)
  BY DEF Wanted
<1>8. FileOK(becomes, reached)
  <2>1. CASE kind = "switch"
    BY <1>7, <2>1 DEF PlacesOK, VersionOK
  <2>2. CASE kind # "switch"
    <3>1. \A i \in DOMAIN Lines(NoFile) : FALSE
      BY DEF Lines
    <3> QED BY <2>2, <3>1 DEF FileOK, IsFile, Ordered
  <2> QED BY <2>1, <2>2
<1>9. /\ IsFile(kept.prefix) /\ kept.tail \in Seq(Entries) /\ (kept.prefix = NoFile <=> file = NoFile)
      /\ file # NoFile => /\ kept.prefix \in Seq(Entries) /\ kept.prefix \o kept.tail = file
                          /\ kept.prefix = LongestCommonPrefix({file, Lines(IF becomes = NoFile THEN file' ELSE becomes)})
  <2> HIDE DEF becomes
  <2> QED BY <1>5, <1>6, <1>8, KeptIs
<1> HIDE DEF kept
<1>10. edit'.kept = [anchor |-> Anchor(seq), seq |-> seq, rows |-> From(kind, seq), prefix |-> kept.prefix, tail |-> kept.tail]
  BY <1>3
<1>11. FileFor(edit'.kept) = file
  <2>1. edit'.kept.prefix = kept.prefix /\ edit'.kept.tail = kept.tail
    BY <1>10
  <2>2. FileFor(edit'.kept) = IF kept.prefix = NoFile THEN NoFile ELSE kept.prefix \o kept.tail
    BY <2>1 DEF FileFor
  <2> HIDE DEF becomes
  <2> QED BY <1>9, <2>2
<1>12. VersionOK(edit'.kept, reached)
  <2>1. From(kind, seq) \subseteq Turns /\ seq \in From(kind, seq) /\ \A n \in From(kind, seq) : seq <= n
    <3>1. CASE kind = "remove"
      <4>1. From(kind, seq) = {seq}
        BY <3>1 DEF From
      <4> QED BY <1>4, <4>1
    <3>2. CASE kind # "remove"
      <4>1. From(kind, seq) = {m \in transcript : m >= seq}
        BY <3>2 DEF From
      <4>2. \A m \in Turns : m \in Int
        BY DEF Turns
      <4>3. \A m : m \in From(kind, seq) <=> m \in transcript /\ m >= seq
        BY <4>1
      <4>4. seq \in transcript /\ seq \in Int /\ seq >= seq
        BY <1>2, <1>4
      <4>5. seq \in From(kind, seq)
        BY <4>3, <4>4
      <4>6. \A m \in From(kind, seq) : m \in Int /\ m >= seq
        BY <1>4, <4>2, <4>3
      <4>7. \A m \in From(kind, seq) : seq <= m
        BY <4>4, <4>6
      <4> QED BY <1>4, <4>3, <4>5, <4>7
    <3> QED BY <3>1, <3>2
  <2>2. Anchor(seq) \in Nat /\ Anchor(seq) < seq
    BY SMTT(20), <1>2, <1>4, AnchorIs, ConversationAssumption DEF Turns
  <2>3. \A n \in From(kind, seq) : Anchor(seq) < n
    BY <2>1, <2>2, <1>4, ConversationAssumption DEF Turns
  <2>4. edit'.kept.anchor = Anchor(seq) /\ edit'.kept.rows = From(kind, seq) /\ edit'.kept.prefix = kept.prefix /\ edit'.kept.tail = kept.tail
    BY <1>10
  <2>5. FileOK(FileFor(edit'.kept), reached)
    BY <1>5, <1>11
  <2> QED BY <1>9, <2>1, <2>2, <2>3, <2>4, <2>5 DEF VersionOK
<1>13. edit'.wanted = v
  BY <1>3
<1>14. becomes = NoFile <=> ~ (kind = "switch" /\ FileFor(v) # NoFile)
  OBVIOUS
<1>15. (IF becomes = NoFile THEN file' ELSE becomes) = (IF kind = "switch" /\ FileFor(v) # NoFile THEN FileFor(v) ELSE file')
  BY <1>14
<1> HIDE DEF becomes
<1> DEFINE rest(w) == Lines(IF kind = "switch" /\ FileFor(w) # NoFile THEN FileFor(w) ELSE file')
<1>a. file # NoFile => kept.prefix = LongestCommonPrefix({file, rest(v)})
  BY <1>9, <1>15
<1>b. rest(v) = rest(edit'.wanted)
  BY <1>13
<1>16. file # NoFile => edit'.kept.prefix = LongestCommonPrefix({file, Lines(IF kind = "switch" /\ FileFor(edit'.wanted) # NoFile
                                                                   THEN FileFor(edit'.wanted) ELSE file')})
  <2>1. edit'.kept.prefix = kept.prefix
    BY <1>10
  <2>2. file # NoFile => edit'.kept.prefix = LongestCommonPrefix({file, rest(edit'.wanted)})
    <3> HIDE DEF rest
    <3> QED BY <1>a, <1>b, <2>1
  <2> QED BY <2>2
<1>17. edit'.kept.prefix = NoFile <=> file = NoFile
  BY <1>9, <1>10
<1>18. /\ edit'.kind = kind /\ edit'.seq = seq /\ edit'.before = latest
       /\ edit'.original = file /\ edit'.gone = From(kind, seq) /\ edit'.kept.rows = From(kind, seq)
       /\ edit'.kept.anchor = Anchor(seq) /\ edit'.kept.seq = seq
  BY <1>3
<1> QED BY <1>2, <1>6, <1>7, <1>11, <1>12, <1>13, <1>16, <1>17, <1>18
-----------------------------------------------------------------------------
(* Every step keeps the turns in their places. *)

\* What is shown and kept is, in whole, where it was, or is where nothing else is.
LEMMA PlacesStep ==
  ASSUME PlacesOK, latest' \in latest..LastSeq, transcript' \subseteq 1..latest',
         reached \subseteq reached', reached' \subseteq 1..latest', FileOK(file', reached'),
         \A v \in versions' :
           /\ v \in versions \/ (VersionOK(v, reached) /\ v.rows \subseteq 1..latest
                                 /\ \A u \in versions : u # v => u.rows \cap v.rows = {})
           /\ v.rows \cap transcript' = {},
         \A u, v \in versions' : u \notin versions /\ v \notin versions => u = v
  PROVE  PlacesOK'
<1>1. latest \in Nat /\ latest' \in 0..LastSeq /\ latest <= latest'
  BY ConversationAssumption DEF PlacesOK
<1>2. ASSUME NEW v \in versions' PROVE VersionOK(v, reached') /\ v.rows \subseteq 1..latest'
  <2>1. VersionOK(v, reached) /\ v.rows \subseteq 1..latest
    BY DEF PlacesOK
  <2>2. 1..latest \subseteq 1..latest'
    BY <1>1
  <2> QED BY <2>1, <2>2, VersionGrows
<1>3. ASSUME NEW u \in versions', NEW v \in versions', u # v PROVE u.rows \cap v.rows = {}
  BY <1>3 DEF PlacesOK
<1> QED BY <1>1, <1>2, <1>3 DEF PlacesOK

\* The same, where what is kept is what was, or less.
LEMMA PlacesKept ==
  ASSUME PlacesOK, latest' = latest, transcript' \subseteq transcript, versions' \subseteq versions,
         reached' = reached, FileOK(file', reached)
  PROVE  PlacesOK'
<1>1. latest \in latest..LastSeq
  BY ConversationAssumption DEF PlacesOK
<1>2. transcript' \subseteq 1..latest /\ reached \subseteq 1..latest /\ \A v \in versions : v.rows \cap transcript = {}
  BY DEF PlacesOK
<1> QED BY <1>1, <1>2, PlacesStep

\* The turns there are.
LEMMA LatestIs ==
  ASSUME PlacesOK
  PROVE  /\ latest \in Nat /\ latest \in latest..LastSeq /\ latest <= LastSeq
         /\ transcript \subseteq 1..latest /\ reached \subseteq 1..latest /\ FileOK(file, reached)
  BY ConversationAssumption DEF PlacesOK

\* With no edit under way and pi at nothing, there is no more to say.
LEMMA AtRest == ASSUME pc' = "idle", run' = 0, taken' = NoEdit PROVE RunOK' /\ PhaseOK' /\ TakenOK'
  BY DEF RunOK, PhaseOK, TakenOK

\* pi is at nothing while an edit is under way.
LEMMA NoRun == ASSUME PlaceInv, pc # "idle" \/ run = 0 PROVE run = 0 /\ taken = NoEdit
  BY DEF PlaceInv, RunOK, TakenOK

\* Nothing has an anchor that is not before the next turn.
LEMMA AnchorsBelow ==
  ASSUME PlacesOK, NEW v \in versions PROVE v.anchor \in Nat /\ v.anchor < latest /\ v.anchor \in 0..LastSeq
<1>1. latest \in Nat /\ latest <= LastSeq /\ VersionOK(v, reached) /\ v.rows \subseteq 1..latest
  BY ConversationAssumption DEF PlacesOK
<1>2. v.anchor < latest /\ v.anchor \in Nat
  BY <1>1, AnchorBefore
<1> QED BY <1>1, <1>2, ConversationAssumption

\* Nothing changes that this is about.
LEMMA PlaceSame ==
  ASSUME PlaceInv, UNCHANGED <<transcript, latest, versions, file, reached, run, pc, edit, taken>> PROVE PlaceInv'
  BY DEF PlaceInv, PlacesOK, RunOK, PhaseOK, TakenOK, AtCut, AtTake, AtRewrite, AtUndo

\* A message is sent.
LEMMA SendPlace == ASSUME PlaceInv, Send PROVE PlaceInv'
<1>1. PlacesOK /\ pc = "idle" /\ run = 0 /\ taken = NoEdit
  BY NoRun DEF PlaceInv, Send, Resting
<1>2. /\ latest < LastSeq /\ latest' = latest + 1 /\ transcript' = transcript \cup {latest + 1}
      /\ versions' = versions /\ file' = file /\ reached' = reached /\ run' \in {latest + 1, 0}
      /\ pc' = pc /\ edit' = edit /\ taken' = taken
  BY <1>1 DEF Send
<1>3. latest \in Nat /\ latest' \in latest..LastSeq /\ transcript \subseteq 1..latest /\ reached \subseteq 1..latest
  BY <1>1, <1>2, ConversationAssumption DEF PlacesOK
<1>4. transcript' \subseteq 1..latest' /\ reached' \subseteq 1..latest' /\ latest + 1 \notin 1..latest
  BY <1>2, <1>3
<1>5. \A v \in versions : v.rows \cap transcript' = {}
  BY <1>1, <1>2, <1>4 DEF PlacesOK
<1>6. FileOK(file, reached)
  BY <1>1 DEF PlacesOK
<1>7. PlacesOK'
  BY <1>1, <1>2, <1>3, <1>4, <1>5, <1>6, PlacesStep
<1>8. \A v \in versions : v.anchor \in Nat /\ v.anchor < latest + 1
  BY <1>1, <1>3, AnchorsBelow
<1>9. RunOK'
  BY <1>1, <1>2, <1>3, <1>4, <1>8 DEF RunOK
<1>10. PhaseOK' /\ TakenOK'
  BY <1>1, <1>2 DEF PhaseOK, TakenOK
<1> QED BY <1>7, <1>9, <1>10 DEF PlaceInv

\* What pi writes is the last message.
LEMMA WrittenIs ==
  ASSUME PlaceInv, run # 0, Written(run)
  PROVE  /\ FileOK(file', reached') /\ InFile(file') = InFile(file) \cup {run} /\ file' # NoFile
         /\ reached' = reached \cup {run} /\ reached' \subseteq 1..latest /\ run \in transcript
<1>1. PlacesOK /\ run = latest /\ run \in transcript /\ run \notin reached /\ reached \subseteq 1..latest /\ latest \in Nat
  BY ConversationAssumption DEF PlaceInv, PlacesOK, RunOK
<1>2. run \in Turns /\ \A r \in reached : r < run
  BY <1>1, ConversationAssumption DEF PlacesOK, Turns
<1>3. (file' = Lines(file) \o <<run>> \/ file' = Lines(file) \o <<-run, run>>) /\ reached' = reached \cup {run}
  BY DEF Written
<1>4. FileOK(file, reached)
  BY <1>1 DEF PlacesOK
<1>5. FileOK(file', reached \cup {run}) /\ InFile(file') = InFile(file) \cup {run} /\ file' # NoFile
  BY <1>2, <1>3, <1>4, WrittenFile
<1> QED BY <1>1, <1>3, <1>5 DEF PlacesOK

\* pi has the message, or not: in either case what is shown and kept is as it was.
LEMMA RunPlaces ==
  ASSUME PlaceInv, UNCHANGED <<transcript, latest, versions>>,
         (run # 0 /\ Written(run)) \/ UNCHANGED <<file, reached>>
  PROVE  PlacesOK' /\ reached \subseteq reached'
<1>1. PlacesOK
  BY DEF PlaceInv
<1>2. CASE run # 0 /\ Written(run)
  <2>1. FileOK(file', reached') /\ reached \subseteq reached' /\ reached' \subseteq 1..latest
    BY <1>2, WrittenIs
  <2>2. latest \in latest..LastSeq /\ transcript \subseteq 1..latest /\ \A v \in versions : v.rows \cap transcript = {}
    BY <1>1, ConversationAssumption DEF PlacesOK
  <2> QED BY <1>1, <2>1, <2>2, PlacesStep
<1>3. CASE UNCHANGED <<file, reached>>
  BY <1>1, <1>3 DEF PlacesOK
<1> QED BY <1>2, <1>3

\* A word of answer.
LEMMA AnswersPlace == ASSUME PlaceInv, RunAnswers PROVE PlaceInv'
<1>1. PlacesOK' /\ run' = 0 /\ taken' = NoEdit
  BY RunPlaces DEF RunAnswers
<1>2. pc' = "idle"
  BY DEF RunAnswers, PlaceInv, RunOK
<1> QED BY <1>1, <1>2, AtRest DEF PlaceInv

\* None: an edit whose replacement it was goes back, with its file as it was, or none.
LEMMA FailsPlace == ASSUME ~EarlyFile, PlaceInv, RunFails PROVE PlaceInv'
<1>1. PlacesOK' /\ reached \subseteq reached' /\ run' = 0 /\ taken' = NoEdit /\ UNCHANGED <<transcript, latest, versions>>
  BY RunPlaces DEF RunFails, Unwritten
<1>2. pc = "idle"
  BY DEF RunFails, PlaceInv, RunOK
<1>3. RunOK' /\ TakenOK'
  BY <1>1 DEF RunOK, TakenOK
<1>4. CASE taken # NoEdit /\ pc' = "undo" /\ edit' = taken
  <2>1. Began(taken, latest, versions, reached, file) /\ taken.kind = "replace" /\ AtUndo(taken)
    BY <1>4 DEF PlaceInv, TakenOK
  <2>2. taken.original = NoFile => file' = NoFile
    BY <1>4, <2>1 DEF RunFails, Unwritten, Began
  <2>3. latest \in Nat
    BY ConversationAssumption DEF PlaceInv, PlacesOK
  <2>4. Began(taken, latest, versions, reached', file')
    BY <1>1, <2>1, <2>2, <2>3, BeganStays
  <2>5. PhaseOK'
    BY <1>1, <1>4, <2>1, <2>4 DEF PhaseOK, AtUndo
  <2> QED BY <1>1, <1>3, <2>5 DEF PlaceInv
<1>5. CASE UNCHANGED <<pc, edit>>
  BY <1>1, <1>2, <1>5, AtRest DEF PlaceInv
<1> QED BY <1>4, <1>5 DEF RunFails

\* The portal stops.
LEMMA CrashPlace == ASSUME PlaceInv, Crash PROVE PlaceInv'
<1>1. PlacesOK' /\ run' = 0 /\ taken' = NoEdit /\ pc' = "idle"
  BY RunPlaces DEF Crash, Unwritten, GoTo
<1> QED BY <1>1, AtRest DEF PlaceInv

\* What an edit knows stays so where no turn is sent or gets to pi.
LEMMA BeganKept ==
  ASSUME PlacesOK, NEW e, Began(e, latest, versions, reached, file),
         NEW V, \A v \in V : v \in versions \/ v = e.kept \/ (v = e.wanted /\ e.kind = "switch"),
         NEW f, e.original = NoFile => f = NoFile
  PROVE  Began(e, latest, V, reached, f)
<1>1. latest \in Nat /\ latest <= latest
  BY DEF PlacesOK
<1> QED BY <1>1, BeganStays

\* An edit begins: what was from the message on is what the edit takes away.
LEMMA CutFilePlace ==
  ASSUME PlaceInv, NEW kind \in Kinds, NEW seq \in Turns, CutFile(kind, seq) PROVE PlaceInv'
<1>1. PlacesOK /\ pc = "idle" /\ run = 0 /\ taken = NoEdit
  BY NoRun DEF PlaceInv, CutFile, Begins, Resting
<1>2. UNCHANGED <<transcript, latest, versions, run, reached, taken>> /\ pc' = "cut"
  BY DEF CutFile
<1>3. /\ seq \in transcript /\ edit'.kind = kind /\ edit'.seq = seq /\ edit'.before = latest
      /\ edit'.original = file /\ edit'.gone = From(kind, seq) /\ edit'.kept.rows = From(kind, seq)
      /\ edit'.kept.anchor = Anchor(seq)
      /\ (kind = "switch" => edit'.wanted \in versions /\ edit'.wanted.anchor = Anchor(seq) /\ FileStands(edit'.wanted, file))
      /\ file = NoFile => file' = NoFile
      /\ FileOK(file', reached) /\ VersionOK(edit'.kept, reached) /\ FileFor(edit'.kept) = file
  BY <1>1, CutFileIs
<1>4. latest \in Nat /\ transcript \subseteq 1..latest /\ seq \in Nat
  BY <1>1, <1>3, ConversationAssumption DEF PlacesOK, Turns
<1>5. /\ Anchor(seq) \in {0} \cup transcript /\ \A m \in transcript : m < seq => m <= Anchor(seq)
  BY <1>4, AnchorIs
<1>6. From(kind, seq) \subseteq transcript /\ (kind = "remove" => From(kind, seq) = {seq})
      /\ (kind # "remove" => \A n \in transcript : n >= seq => n \in From(kind, seq))
  BY <1>3 DEF From
<1>7. PlacesOK'
  BY <1>1, <1>2, <1>3, PlacesKept
<1>8. ASSUME kind # "remove" PROVE EndsIn(transcript, edit'.kept)
  <2>1. \A n \in transcript : n < seq \/ n >= seq
    BY <1>4
  <2> QED BY <1>3, <1>5, <1>6, <1>8, <2>1 DEF EndsIn
<1>9. Began(edit', latest, versions, reached, file')
  <2>1. latest \in 0..latest /\ From(kind, seq) \subseteq 1..latest
    <3>1. From(kind, seq) \subseteq transcript /\ transcript \subseteq 1..latest
      BY <1>4, <1>6
    <3>2. latest \in 0..latest
      BY <1>4
    <3> QED BY <3>1, <3>2
  <2>2. \A v \in versions : v.anchor <= latest
    BY <1>1, <1>4, AnchorsBelow
  <2>3. kind = "switch" => /\ VersionOK(edit'.wanted, reached) /\ edit'.wanted.rows \subseteq 1..latest
                           /\ edit'.wanted.prefix = NoFile <=> file = NoFile
    BY <1>1, <1>3 DEF PlacesOK, FileStands
  <2> QED BY <1>3, <2>1, <2>2, <2>3 DEF Began
<1>10. AtCut(edit)'
  BY <1>2, <1>3, <1>6, <1>8 DEF AtCut
<1>11. PhaseOK'
  BY <1>2, <1>9, <1>10 DEF PhaseOK
<1>12. RunOK' /\ TakenOK'
  BY <1>1, <1>2 DEF RunOK, TakenOK
<1> QED BY <1>7, <1>11, <1>12 DEF PlaceInv

\* What the kinds of edit come to once the turns are gone, and kept.
LEMMA CutIs ==
  ASSUME CutTranscript, edit.kind \in Kinds
  PROVE  /\ transcript' = transcript \ edit.gone
         /\ \/ edit.kind = "remove" /\ pc' = "idle"
               /\ versions' = versions \ Dropped({Anchor(edit.seq)} \cup {m \in transcript : m >= edit.seq})
            \/ edit.kind = "replace" /\ pc' = "send" /\ versions' = versions \cup {edit.kept} /\ edit' = edit
            \/ edit.kind = "switch" /\ pc' = "take" /\ versions' = versions \cup {edit.kept} /\ edit' = edit
         /\ UNCHANGED <<latest, file, run, reached, taken, apart, words>>
  BY DEF CutTranscript, GoTo, Kinds, Writing, Sound, agent

\* The turns go, and are kept; or one is taken out.
LEMMA CutTranscriptPlace == ASSUME PlaceInv, CutTranscript PROVE PlaceInv'
<1>1. PlacesOK /\ pc = "cut" /\ run = 0 /\ taken = NoEdit
  BY NoRun DEF PlaceInv, CutTranscript
<1>2. Began(edit, latest, versions, reached, file) /\ AtCut(edit) /\ FileOK(file, reached)
  BY <1>1 DEF PlaceInv, PhaseOK, PlacesOK
<1>3. /\ transcript' = transcript \ edit.gone /\ UNCHANGED <<latest, file, run, reached, taken>>
      /\ \/ edit.kind = "remove" /\ pc' = "idle" /\ versions' \subseteq versions
         \/ edit.kind = "replace" /\ pc' = "send" /\ versions' = versions \cup {edit.kept} /\ edit' = edit
         \/ edit.kind = "switch" /\ pc' = "take" /\ versions' = versions \cup {edit.kept} /\ edit' = edit
  BY <1>2, CutIs DEF Began
<1>4. CASE edit.kind = "remove" /\ pc' = "idle" /\ versions' \subseteq versions
  <2>1. PlacesOK'
    BY <1>1, <1>2, <1>3, <1>4, PlacesKept
  <2> QED BY <1>1, <1>3, <1>4, <2>1, AtRest DEF PlaceInv
<1>5. CASE edit.kind # "remove" /\ pc' = (IF edit.kind = "replace" THEN "send" ELSE "take")
           /\ versions' = versions \cup {edit.kept} /\ edit' = edit
  <2>1. EndsIn(transcript, edit.kept) /\ edit.gone = edit.kept.rows /\ VersionOK(edit.kept, reached) /\ edit.before = latest
    BY <1>2, <1>5 DEF Began, AtCut
  <2>2. edit.kept.rows \subseteq transcript /\ edit.kept.rows # {} /\ latest \in latest..LastSeq
        /\ transcript \subseteq 1..latest /\ reached \subseteq 1..latest /\ latest \in Nat
    BY <1>1, <2>1, ConversationAssumption DEF PlacesOK, EndsIn, VersionOK
  <2>3. \A v \in versions : v.rows \cap transcript = {}
    BY <1>1 DEF PlacesOK
  <2>4. PlacesOK'
    BY <1>1, <1>2, <1>3, <1>5, <2>1, <2>2, <2>3, PlacesStep
  <2>5. Ends(transcript', edit.kept)
    <3>1. edit.kept.anchor \notin edit.kept.rows
      BY <2>1 DEF VersionOK
    <3> QED BY <1>3, <2>1, <3>1 DEF Ends, EndsIn
  <2>6. Began(edit, latest, versions', reached, file)
    <3>1. \A v \in versions' : v \in versions \/ v = edit.kept
      BY <1>5
    <3>2. edit.original = NoFile => file = NoFile
      BY <1>2 DEF Began
    <3> QED BY <1>1, <1>2, <3>1, <3>2, BeganKept
  <2>7. edit.kind = "switch" => edit.wanted \in versions \ {edit.kept}
    <3>1. edit.kept \notin versions
      BY <2>2, <2>3
    <3> QED BY <1>2, <3>1 DEF AtCut
  <2>8. pc' \in {"send", "take"} /\ (pc' = "send" <=> edit.kind = "replace") /\ (pc' = "take" <=> edit.kind = "switch")
    BY <1>2, <1>5 DEF Began, Kinds
  <2>9. PhaseOK'
    BY <1>3, <1>5, <2>1, <2>5, <2>6, <2>7, <2>8 DEF PhaseOK, AtTake
  <2>10. RunOK' /\ TakenOK'
    BY <1>1, <1>3 DEF RunOK, TakenOK
  <2> QED BY <2>4, <2>9, <2>10 DEF PlaceInv
<1> QED BY <1>3, <1>4, <1>5

\* It fails: the file comes back, or does not.
LEMMA CutUndonePlace == ASSUME PlaceInv, CutUndone PROVE PlaceInv'
<1>1. PlacesOK /\ run = 0 /\ taken = NoEdit /\ Began(edit, latest, versions, reached, file)
  BY NoRun DEF PlaceInv, PhaseOK, CutUndone
<1>2. UNCHANGED <<transcript, latest, versions, run, reached, taken>> /\ pc' = "idle" /\ file' \in {edit.original, file}
  BY DEF CutUndone, GoTo, Writing, agent
<1>3. FileOK(file', reached)
  BY <1>1, <1>2 DEF Began, VersionOK, PlacesOK
<1>4. PlacesOK'
  BY <1>1, <1>2, <1>3, PlacesKept
<1> QED BY <1>1, <1>2, <1>4, AtRest DEF PlaceInv

\* pi takes the replacement, or it is gone back from.
LEMMA SendReplacementPlace == ASSUME PlaceInv, SendReplacement PROVE PlaceInv'
<1>1. PlacesOK /\ pc = "send" /\ run = 0 /\ taken = NoEdit
  BY NoRun DEF PlaceInv, SendReplacement
<1>2. Began(edit, latest, versions, reached, file) /\ AtTake(edit) /\ edit.kind = "replace" /\ FileOK(file, reached)
  BY <1>1 DEF PlaceInv, PhaseOK, PlacesOK
<1>3. UNCHANGED <<versions, file, reached>>
      /\ \/ latest < LastSeq /\ latest' = latest + 1 /\ transcript' = transcript \cup {latest + 1}
         \/ UNCHANGED <<latest, transcript>>
  BY DEF SendReplacement
<1>4. latest \in Nat /\ transcript \subseteq 1..latest /\ reached \subseteq 1..latest /\ latest <= LastSeq
  BY <1>1, ConversationAssumption DEF PlacesOK
<1>5. /\ latest' \in latest..LastSeq /\ latest' \in Nat /\ latest <= latest' /\ transcript \subseteq transcript'
      /\ transcript' \subseteq 1..latest' /\ reached \subseteq 1..latest' /\ (\A n \in transcript' : n \in transcript \/ n > latest)
      /\ (latest' # latest => latest' \in transcript' /\ latest' > latest)
  <2>1. CASE latest < LastSeq /\ latest' = latest + 1 /\ transcript' = transcript \cup {latest + 1}
    <3>1. latest + 1 \in latest..LastSeq /\ latest + 1 \in Nat /\ latest <= latest + 1 /\ latest + 1 > latest
          /\ 1..latest \subseteq 1..(latest + 1) /\ latest + 1 \in 1..(latest + 1)
      BY <1>4, <2>1, ConversationAssumption
    <3> QED BY <1>4, <2>1, <3>1
  <2>2. CASE UNCHANGED <<latest, transcript>>
    <3>1. latest \in latest..LastSeq
      BY <1>4, ConversationAssumption
    <3> QED BY <1>4, <2>2, <3>1
  <2> QED BY <1>3, <2>1, <2>2
<1>6. \A v \in versions : v.rows \cap transcript' = {}
  <2>1. \A v \in versions : v.rows \cap transcript = {} /\ \A n \in v.rows : n \in Int /\ ~ (n > latest)
    BY <1>1, <1>4 DEF PlacesOK
  <2> QED BY <1>5, <2>1
<1>7. PlacesOK'
  BY <1>1, <1>2, <1>3, <1>5, <1>6, PlacesStep
<1>8. Began(edit, latest', versions, reached, file)
  <2>1. edit.original = NoFile => file = NoFile
    BY <1>2 DEF Began
  <2> QED BY <1>2, <1>4, <1>5, <2>1, BeganStays
<1>9. edit.kept \in versions /\ Gap(transcript', edit.kept, edit.before) /\ edit.before = latest
  BY <1>2, <1>5 DEF AtTake, Ends, Gap
<1>10. \A v \in versions : v.anchor \in Nat /\ v.anchor < latest
  BY <1>1, AnchorsBelow
<1>11. CASE latest' # latest /\ run' = latest' /\ taken' = edit /\ pc' = "idle"
  <2>1. RunOK'
    BY <1>3, <1>4, <1>5, <1>10, <1>11 DEF RunOK
  <2>2. PhaseOK'
    BY <1>11 DEF PhaseOK
  <2>3. TakenOK'
    BY <1>2, <1>3, <1>4, <1>5, <1>8, <1>9, <1>11 DEF TakenOK, AtUndo
  <2> QED BY <1>7, <2>1, <2>2, <2>3 DEF PlaceInv
<1>12. CASE UNCHANGED <<run, taken>> /\ pc' = "undo" /\ edit' = edit
  <2>1. PhaseOK'
    BY <1>2, <1>3, <1>8, <1>9, <1>12 DEF PhaseOK, AtUndo
  <2>2. RunOK' /\ TakenOK'
    BY <1>1, <1>12 DEF RunOK, TakenOK
  <2> QED BY <1>7, <2>1, <2>2 DEF PlaceInv
<1> QED BY <1>11, <1>12 DEF SendReplacement, GoTo

\* A version comes into the transcript.
LEMMA TakeVersionPlace == ASSUME PlaceInv, TakeVersion PROVE PlaceInv'
<1>1. PlacesOK /\ pc = "take" /\ run = 0 /\ taken = NoEdit
  BY NoRun DEF PlaceInv, TakeVersion
<1>2. Began(edit, latest, versions, reached, file) /\ AtTake(edit) /\ edit.kind = "switch"
      /\ edit.wanted \in versions \ {edit.kept} /\ FileOK(file, reached)
  BY <1>1 DEF PlaceInv, PhaseOK, PlacesOK
<1>3. versions' = versions \ {edit.wanted} /\ transcript' = transcript \cup edit.wanted.rows /\ pc' = "rewrite" /\ edit' = edit
      /\ UNCHANGED <<file, latest, run, reached, taken>>
  BY DEF TakeVersion, GoTo, Writing, agent
<1>4. latest \in latest..LastSeq /\ transcript' \subseteq 1..latest /\ reached \subseteq 1..latest
  <2>1. edit.wanted.rows \subseteq 1..latest
    BY <1>1, <1>2 DEF PlacesOK
  <2> QED BY <1>1, <1>3, <2>1, LatestIs
<1>5. \A v \in versions' : v.rows \cap transcript' = {} /\ v.rows \cap edit.wanted.rows = {}
  BY <1>1, <1>2, <1>3 DEF PlacesOK
<1>6. PlacesOK'
  BY <1>1, <1>2, <1>3, <1>4, <1>5, PlacesStep
<1>7. Began(edit, latest, versions', reached, file)
  <2>1. (\A v \in versions' : v \in versions) /\ (edit.original = NoFile => file = NoFile)
    BY <1>2, <1>3 DEF Began
  <2> QED BY <1>1, <1>2, <2>1, BeganKept
<1>8. EndsIn(transcript', edit.wanted)
  BY <1>2, <1>3 DEF AtTake, Ends, EndsIn, Began
<1>9. AtRewrite(edit)'
  BY <1>2, <1>3, <1>5, <1>8 DEF AtRewrite, AtTake
<1>10. PhaseOK'
  BY <1>2, <1>3, <1>7, <1>9 DEF PhaseOK
<1>11. RunOK' /\ TakenOK'
  BY <1>1, <1>3 DEF RunOK, TakenOK
<1> QED BY <1>6, <1>10, <1>11 DEF PlaceInv

\* It cannot be taken.
LEMMA TakeFailsPlace == ASSUME PlaceInv, TakeFails PROVE PlaceInv'
<1>1. PlacesOK /\ pc = "take" /\ run = 0 /\ taken = NoEdit
  BY NoRun DEF PlaceInv, TakeFails
<1>2. Began(edit, latest, versions, reached, file) /\ AtTake(edit)
  BY <1>1 DEF PlaceInv, PhaseOK
<1>3. UNCHANGED <<transcript, versions, file, latest, run, reached, taken, edit>> /\ pc' = "undo"
  BY DEF TakeFails, GoTo, Writing, agent
<1>4. AtUndo(edit)
  BY <1>2 DEF AtUndo, AtTake, Ends, Gap
<1>5. transcript \subseteq 1..edit.before
  BY <1>1, <1>2 DEF PlacesOK, AtTake
<1>6. PhaseOK'
  BY <1>2, <1>3, <1>4, <1>5 DEF PhaseOK, AtUndo
<1>7. PlacesOK'
  BY <1>1, <1>3 DEF PlacesOK
<1>8. RunOK' /\ TakenOK'
  BY <1>1, <1>3 DEF RunOK, TakenOK
<1> QED BY <1>6, <1>7, <1>8 DEF PlaceInv

\* pi's file is as that version had it.
LEMMA RewritePlace == ASSUME PlaceInv, Rewrite PROVE PlaceInv'
<1>1. PlacesOK /\ pc = "rewrite" /\ run = 0 /\ taken = NoEdit
  BY NoRun DEF PlaceInv, Rewrite
<1>2. Began(edit, latest, versions, reached, file) /\ edit.kind = "switch"
  BY <1>1 DEF PlaceInv, PhaseOK
<1>3. UNCHANGED <<transcript, latest, versions, run, reached, taken>> /\ pc' = "idle" /\ file' \in {FileFor(edit.wanted), file}
  BY DEF Rewrite, GoTo, Writing, agent
<1>4. FileOK(file', reached)
  BY <1>1, <1>2, <1>3 DEF Began, VersionOK, PlacesOK
<1>5. PlacesOK'
  BY <1>1, <1>3, <1>4, PlacesKept
<1> QED BY <1>1, <1>3, <1>5, AtRest DEF PlaceInv

\* That fails: it is set aside again, or lost, or stays.
LEMMA RewriteFailsPlace == ASSUME PlaceInv, RewriteFails PROVE PlaceInv'
<1>1. PlacesOK /\ pc = "rewrite" /\ run = 0 /\ taken = NoEdit
  BY NoRun DEF PlaceInv, RewriteFails
<1>2. Began(edit, latest, versions, reached, file) /\ AtRewrite(edit) /\ edit.kind = "switch" /\ FileOK(file, reached)
  BY <1>1 DEF PlaceInv, PhaseOK, PlacesOK
<1>3. UNCHANGED <<file, latest, run, reached, taken>>
      /\ \/ (versions' = versions \cup {edit.wanted} \/ versions' = versions)
              /\ transcript' = transcript \ edit.wanted.rows /\ pc' = "undo" /\ edit' = edit
         \/ UNCHANGED <<transcript, versions>> /\ pc' = "idle"
  BY DEF RewriteFails, GoTo, Writing, agent
<1>4. CASE (versions' = versions \cup {edit.wanted} \/ versions' = versions)
           /\ transcript' = transcript \ edit.wanted.rows /\ pc' = "undo" /\ edit' = edit
  <2>1. latest \in latest..LastSeq /\ transcript' \subseteq 1..latest /\ reached \subseteq 1..latest /\ transcript \subseteq 1..latest
    <3>1. latest \in latest..LastSeq /\ transcript \subseteq 1..latest /\ reached \subseteq 1..latest
      BY <1>1, LatestIs
    <3> QED BY <1>4, <3>1
  <2>2. EndsIn(transcript, edit.wanted) /\ VersionOK(edit.wanted, reached) /\ edit.wanted.anchor = edit.kept.anchor
    BY <1>2 DEF AtRewrite, Began
  <2>3. edit.wanted.rows \subseteq 1..latest /\ edit.wanted.anchor \notin edit.wanted.rows
    <3>1. edit.wanted.rows \subseteq transcript /\ edit.wanted.anchor \in Nat /\ \A n \in edit.wanted.rows : edit.wanted.anchor < n
      BY <2>2 DEF EndsIn, VersionOK
    <3>2. edit.wanted.rows \subseteq 1..latest
      BY <2>1, <3>1
    <3>3. ~ (edit.wanted.anchor < edit.wanted.anchor)
      BY <3>1
    <3> QED BY <3>1, <3>2, <3>3
  <2>4. \A v \in versions : v.rows \cap transcript' = {} /\ v.rows \cap edit.wanted.rows = {}
    BY <1>1, <1>2, <1>4 DEF PlacesOK, AtRewrite
  <2>5. PlacesOK'
    BY <1>1, <1>2, <1>3, <1>4, <2>1, <2>2, <2>3, <2>4, PlacesStep
  <2>6. Began(edit, latest, versions', reached, file)
    <3>1. (\A v \in versions' : v \in versions \/ (v = edit.wanted /\ edit.kind = "switch")) /\ (edit.original = NoFile => file = NoFile)
      BY <1>2, <1>4 DEF Began
    <3> QED BY <1>1, <1>2, <3>1, BeganKept
  <2>7. Gap(transcript', edit.kept, edit.before)
    BY <1>4, <2>2, <2>3 DEF Gap, EndsIn
  <2>8. edit.kept \in versions' /\ transcript' \subseteq 1..edit.before
    BY <1>2, <1>4, <2>1 DEF AtRewrite
  <2>9. PhaseOK'
    BY <1>3, <1>4, <2>6, <2>7, <2>8 DEF PhaseOK, AtUndo
  <2>10. RunOK' /\ TakenOK'
    BY <1>1, <1>3 DEF RunOK, TakenOK
  <2> QED BY <2>5, <2>9, <2>10 DEF PlaceInv
<1>5. CASE UNCHANGED <<transcript, versions>> /\ pc' = "idle"
  <2>1. PlacesOK'
    BY <1>1, <1>2, <1>3, <1>5, PlacesKept
  <2> QED BY <1>1, <1>3, <1>5, <2>1, AtRest DEF PlaceInv
<1> QED BY <1>3, <1>4, <1>5

\* On the way back the turns come first.
LEMMA UndoTranscriptPlace == ASSUME PlaceInv, UndoTranscript PROVE PlaceInv'
<1>1. PlacesOK /\ pc = "undo" /\ run = 0 /\ taken = NoEdit
  BY NoRun DEF PlaceInv, UndoTranscript
<1>2. Began(edit, latest, versions, reached, file) /\ AtUndo(edit) /\ FileOK(file, reached)
      /\ (edit.kind # "replace" => transcript \subseteq 1..edit.before)
  BY <1>1 DEF PlaceInv, PhaseOK, PlacesOK
<1>3. transcript' = transcript \cup edit.gone /\ versions' = versions \ {edit.kept} /\ pc' = "undoFile" /\ edit' = edit
      /\ UNCHANGED <<latest, file, run, reached, taken>>
  BY DEF UndoTranscript, GoTo
<1>4. edit.kept \in versions /\ edit.gone = edit.kept.rows /\ edit.gone \subseteq 1..edit.before
  BY <1>2 DEF AtUndo, Began
<1>5. latest \in latest..LastSeq /\ transcript' \subseteq 1..latest /\ reached \subseteq 1..latest
  <2>1. edit.gone \subseteq 1..latest
    BY <1>1, <1>4 DEF PlacesOK
  <2> QED BY <1>1, <1>3, <2>1, LatestIs
<1>6. \A v \in versions' : v.rows \cap transcript' = {}
  BY <1>1, <1>3, <1>4 DEF PlacesOK
<1>7. PlacesOK'
  BY <1>1, <1>2, <1>3, <1>5, <1>6, PlacesStep
<1>8. Began(edit, latest, versions', reached, file)
  <2>1. (\A v \in versions' : v \in versions) /\ (edit.original = NoFile => file = NoFile)
    BY <1>2, <1>3 DEF Began
  <2> QED BY <1>1, <1>2, <2>1, BeganKept
<1>9. edit.kind # "replace" => transcript' \subseteq 1..edit.before
  BY <1>2, <1>3, <1>4
<1>10. PhaseOK'
  BY <1>3, <1>8, <1>9 DEF PhaseOK
<1>11. RunOK' /\ TakenOK'
  BY <1>1, <1>3 DEF RunOK, TakenOK
<1> QED BY <1>7, <1>10, <1>11 DEF PlaceInv

\* Then the file; or it does not come back.
LEMMA UndoFilePlace == ASSUME PlaceInv, UndoFile PROVE PlaceInv'
<1>1. PlacesOK /\ pc = "undoFile" /\ run = 0 /\ taken = NoEdit
  BY NoRun DEF PlaceInv, UndoFile
<1>2. Began(edit, latest, versions, reached, file)
  BY <1>1 DEF PlaceInv, PhaseOK
<1>3. UNCHANGED <<transcript, latest, versions, run, reached, taken>>
      /\ file' = (IF edit.original = NoFile THEN file ELSE edit.original)
      /\ ((pc' = "undoLate" /\ edit' = edit) \/ pc' = "idle")
  BY DEF UndoFile, GoTo, AfterUndo, Writing, agent
<1>4. FileOK(file', reached) /\ (edit.original = NoFile => file' = NoFile)
  BY <1>1, <1>2, <1>3 DEF Began, VersionOK, PlacesOK
<1>5. PlacesOK'
  BY <1>1, <1>3, <1>4, PlacesKept
<1>6. CASE pc' = "undoLate" /\ edit' = edit
  <2>1. Began(edit, latest, versions, reached, file')
    BY <1>1, <1>2, <1>4, BeganKept
  <2>2. PhaseOK'
    BY <1>3, <1>6, <2>1 DEF PhaseOK
  <2>3. RunOK' /\ TakenOK'
    BY <1>1, <1>3 DEF RunOK, TakenOK
  <2> QED BY <1>5, <2>2, <2>3 DEF PlaceInv
<1>7. CASE pc' = "idle"
  BY <1>1, <1>3, <1>5, <1>7, AtRest DEF PlaceInv
<1> QED BY <1>3, <1>6, <1>7

\* A way back that ends, whether it got there or not.
LEMMA EndsPlace ==
  ASSUME PlaceInv, UndoTranscriptFails \/ UndoFileFails \/ UndoLate PROVE PlaceInv'
<1>1. PlacesOK /\ run = 0 /\ taken = NoEdit /\ FileOK(file, reached)
  BY NoRun DEF PlaceInv, PlacesOK, UndoTranscriptFails, UndoFileFails, UndoLate
<1>2. transcript' \subseteq transcript /\ UNCHANGED <<latest, versions, file, run, reached, taken>> /\ pc' = "idle"
  BY DEF UndoTranscriptFails, UndoFileFails, UndoLate, GoTo, Writing, agent, stores
<1>3. PlacesOK'
  BY <1>1, <1>2, PlacesKept
<1> QED BY <1>1, <1>2, <1>3, AtRest DEF PlaceInv

\* So every step keeps them.
LEMMA PlaceStep == ~EarlyFile /\ PlaceInv /\ [Next]_vars => PlaceInv'
<1> SUFFICES ASSUME ~EarlyFile, PlaceInv, [Next]_vars PROVE PlaceInv'
  OBVIOUS
<1>1. CASE Send \/ RunAnswers \/ RunFails \/ Crash
  BY <1>1, SendPlace, AnswersPlace, FailsPlace, CrashPlace
<1>2. CASE \E kind \in Kinds, seq \in Turns : CutFile(kind, seq)
  BY <1>2, CutFilePlace
<1>3. CASE CutRefused
  <2>1. Resting
    BY <1>3 DEF CutRefused, Begins
  <2> QED BY <1>3, <2>1, PlaceSame DEF CutRefused, stores
<1>4. CASE CutTranscript \/ CutUndone \/ SendReplacement \/ TakeVersion \/ TakeFails \/ Rewrite \/ RewriteFails
  BY <1>4, CutTranscriptPlace, CutUndonePlace, SendReplacementPlace, TakeVersionPlace, TakeFailsPlace, RewritePlace,
     RewriteFailsPlace
<1>5. CASE UndoTranscript \/ UndoTranscriptFails \/ UndoFile \/ UndoFileFails \/ UndoLate
  BY <1>5, UndoTranscriptPlace, UndoFilePlace, EndsPlace
<1>6. CASE UNCHANGED vars
  BY <1>6, PlaceSame DEF vars, stores, agent
<1> QED BY <1>1, <1>2, <1>3, <1>4, <1>5, <1>6 DEF Next, EditStep

\* Nothing is anywhere at first.
LEMMA InitPlace == Init => PlaceInv
<1> SUFFICES ASSUME Init PROVE PlaceInv
  OBVIOUS
<1>1. FileOK(NoFile, {})
  <2>1. \A i \in DOMAIN Lines(NoFile) : FALSE
    BY DEF Lines
  <2> QED BY <2>1 DEF FileOK, IsFile, Ordered
<1>2. PlacesOK
  BY <1>1, ConversationAssumption DEF Init, PlacesOK
<1> QED BY <1>2 DEF Init, PlaceInv, RunOK, PhaseOK, TakenOK
-----------------------------------------------------------------------------
(* What got to pi. *)

\* What is shown or kept is a turn.
LEMMA KeptTurns == ASSUME PlacesOK PROVE Kept \subseteq Turns /\ Kept \subseteq 1..latest /\ 0 \notin Kept
<1>1. Kept \subseteq 1..latest /\ latest \in Nat /\ latest <= LastSeq
  BY LatestIs DEF PlacesOK, Kept
<1>2. 1..latest \subseteq 1..LastSeq
  BY <1>1, ConversationAssumption
<1> QED BY <1>1, <1>2 DEF Turns

\* With no edit on its way back and pi at nothing, what did not get to pi is in its own words.
LEMMA MissedAlone ==
  ASSUME PlaceInv, MissedOK, ~MissAny, ~apart, run = 0 \/ run \notin Kept \/ run \in reached,
         pc \notin {"undo", "undoFile", "undoLate"}
  PROVE  \A n \in Kept \ reached : Alone(n)
<1>1. 0 \notin Kept
  BY KeptTurns DEF PlaceInv
<1> QED BY <1>1 DEF MissedOK

\* Where nothing is added to what is shown or kept.
LEMMA MissedStays ==
  ASSUME PlaceInv, MissedOK, words' = words, apart => apart', reached \subseteq reached', Kept' \subseteq Kept,
         ~apart' /\ run # 0 => run' = run \/ run \in reached' \/ CanMiss(run),
         ~apart' /\ pc \in {"undo", "undoFile", "undoLate"} =>
           \A n \in transcript : n > edit.before =>
              n \notin Kept' \/ (n \in transcript' /\ pc' \in {"undo", "undoFile", "undoLate"} /\ edit' = edit)
  PROVE  MissedOK'
<1> SUFFICES ASSUME ~MissAny, ~apart', NEW n \in Kept' \ reached'
             PROVE  n = run' \/ Alone(n) \/ (pc' \in {"undo", "undoFile", "undoLate"} /\ n \in transcript' /\ n > edit'.before)
  BY DEF MissedOK, Alone
<1>1. n \in Kept \ reached /\ n # 0 /\ ~apart
  BY KeptTurns DEF PlaceInv
<1>2. n = run \/ Alone(n) \/ (pc \in {"undo", "undoFile", "undoLate"} /\ n \in transcript /\ n > edit.before)
  BY <1>1 DEF MissedOK
<1>3. CASE n = run
  BY <1>1, <1>3 DEF CanMiss
<1>4. CASE pc \in {"undo", "undoFile", "undoLate"} /\ n \in transcript /\ n > edit.before
  BY <1>4
<1> QED BY <1>2, <1>3, <1>4

\* Every step keeps what is known of them.
LEMMA MissedStep == PlaceInv /\ MissedOK /\ [Next]_vars => MissedOK'
<1> SUFFICES ASSUME PlaceInv, MissedOK, [Next]_vars PROVE MissedOK'
  OBVIOUS
<1>1. CASE Send
  <2>1. pc = "idle" /\ run = 0 /\ words' = words /\ apart' = apart /\ reached' = reached /\ pc' = pc
        /\ Kept' = Kept \cup {latest + 1} /\ (run' = latest + 1 \/ CanMiss(latest + 1))
    BY <1>1 DEF Send, Resting, Kept
  <2>2. ~MissAny /\ ~apart => \A n \in Kept \ reached : Alone(n)
    BY <2>1, MissedAlone
  <2> QED BY <2>1, <2>2 DEF MissedOK, Alone, CanMiss
<1>2. CASE RunAnswers \/ RunFails \/ Crash
  <2>1. words' = words /\ (apart => apart') /\ Kept' = Kept
    <3>1. words' = words /\ UNCHANGED <<transcript, versions>>
      BY <1>2 DEF RunAnswers, RunFails, Crash
    <3>2. apart' = apart \/ apart' = (apart \/ pc # "idle")
      BY <1>2 DEF RunAnswers, RunFails, Crash
    <3>3. apart => apart'
      BY <3>2, Zenon
    <3>4. Kept' = Kept
      BY <3>1 DEF Kept
    <3> QED BY <3>1, <3>3, <3>4
  <2>2. reached \subseteq reached' /\ (run # 0 => run \in reached' \/ CanMiss(run))
    BY <1>2 DEF RunAnswers, RunFails, Crash, Written, Unwritten
  <2>3. pc = "idle" \/ apart'
    <3>1. CASE RunAnswers \/ RunFails
      BY <3>1 DEF RunAnswers, RunFails, PlaceInv, RunOK
    <3>2. CASE Crash
      BY <3>2, Zenon DEF Crash
    <3> QED BY <1>2, <3>1, <3>2
  <2> QED BY <2>1, <2>2, <2>3, MissedStays
<1>3. CASE (\E kind \in Kinds, seq \in Turns : CutFile(kind, seq)) \/ CutRefused
  <2>1. /\ UNCHANGED <<words, apart, reached, transcript, versions, run>> /\ pc = "idle"
    BY <1>3 DEF CutFile, CutRefused, Begins, Resting, stores
  <2> QED BY <2>1, MissedStays DEF Kept
<1>4. CASE CutTranscript
  <2>1. pc = "cut" /\ Began(edit, latest, versions, reached, file) /\ AtCut(edit)
    BY <1>4 DEF CutTranscript, PlaceInv, PhaseOK
  <2>2. /\ transcript' = transcript \ edit.gone /\ UNCHANGED <<run, reached, apart, words>>
        /\ versions' \subseteq versions \/ (versions' = versions \cup {edit.kept} /\ edit.kind # "remove")
    BY <1>4, <2>1, CutIs DEF Began
  <2>3. edit.kind # "remove" => edit.kept.rows \subseteq transcript
    BY <2>1 DEF AtCut, EndsIn
  <2>4. Kept' \subseteq Kept
    BY <2>2, <2>3 DEF Kept
  <2> QED BY <2>1, <2>2, <2>4, MissedStays
<1>5. CASE CutUndone \/ TakeFails \/ Rewrite
  <2>1. UNCHANGED <<words, reached, transcript, versions, run>> /\ (apart => apart') /\ pc \in {"cut", "take", "rewrite"}
    BY <1>5 DEF CutUndone, TakeFails, Rewrite, Writing, Sound, agent
  <2> QED BY <2>1, MissedStays DEF Kept
<1>6. CASE SendReplacement
  <2>1. pc = "send" /\ run = 0 /\ AtTake(edit)
    BY <1>6, NoRun DEF SendReplacement, PlaceInv, PhaseOK
  <2>2. /\ UNCHANGED <<words, apart, reached, versions>>
        /\ (latest' = latest + 1 /\ transcript' = transcript \cup {latest + 1}) \/ UNCHANGED <<latest, transcript>>
        /\ (latest' # latest /\ run' = latest') \/ (UNCHANGED run /\ pc' = "undo" /\ edit' = edit)
    BY <1>6 DEF SendReplacement, GoTo
  <2>3. ~MissAny /\ ~apart => \A n \in Kept \ reached : Alone(n)
    BY <2>1, MissedAlone
  <2>4. latest \in Nat /\ edit.before = latest
    BY <2>1, LatestIs DEF PlaceInv, AtTake
  <2>5. \A n \in Kept' : n \in Kept \/ (n = latest + 1 /\ latest' = latest + 1 /\ n \in transcript')
    BY <2>2 DEF Kept
  <2> SUFFICES ASSUME ~MissAny, ~apart', NEW n \in Kept' \ reached'
               PROVE  n = run' \/ Alone(n) \/ (pc' \in {"undo", "undoFile", "undoLate"} /\ n \in transcript' /\ n > edit'.before)
    BY <2>2 DEF MissedOK, Alone
  <2>6. CASE n \in Kept
    BY <2>2, <2>3, <2>6
  <2>7. CASE n = latest + 1 /\ latest' = latest + 1 /\ n \in transcript'
    BY <2>2, <2>4, <2>7
  <2> QED BY <2>5, <2>6, <2>7
<1>7. CASE TakeVersion
  <2>1. pc = "take" /\ edit.wanted \in versions
    BY <1>7 DEF TakeVersion, PlaceInv, PhaseOK
  <2>2. /\ UNCHANGED <<words, apart, reached, run>> /\ versions' = versions \ {edit.wanted}
        /\ transcript' = transcript \cup edit.wanted.rows
    BY <1>7 DEF TakeVersion, Writing, Sound, agent
  <2>3. Kept' \subseteq Kept
    BY <2>1, <2>2 DEF Kept
  <2> QED BY <2>1, <2>2, <2>3, MissedStays
<1>8. CASE RewriteFails
  <2>1. pc = "rewrite" /\ EndsIn(transcript, edit.wanted)
    BY <1>8 DEF RewriteFails, PlaceInv, PhaseOK, AtRewrite
  <2>2. /\ UNCHANGED <<words, reached, run>> /\ versions' \subseteq versions \cup {edit.wanted} /\ (apart => apart')
        /\ transcript' \subseteq transcript
    BY <1>8 DEF RewriteFails, Writing, Sound, agent
  <2>3. Kept' \subseteq Kept
    BY <2>1, <2>2 DEF Kept, EndsIn
  <2> QED BY <2>1, <2>2, <2>3, MissedStays
<1>9. CASE UndoTranscript
  <2>1. pc = "undo" /\ edit.kept \in versions /\ edit.gone = edit.kept.rows
    BY <1>9 DEF UndoTranscript, PlaceInv, PhaseOK, AtUndo, Began
  <2>2. /\ UNCHANGED <<words, apart, reached, run>> /\ versions' = versions \ {edit.kept}
        /\ transcript' = transcript \cup edit.gone /\ pc' = "undoFile" /\ edit' = edit
    BY <1>9 DEF UndoTranscript, GoTo
  <2>3. Kept' \subseteq Kept
    BY <2>1, <2>2 DEF Kept
  <2> QED BY <2>1, <2>2, <2>3, MissedStays
<1>10. CASE UndoTranscriptFails \/ UndoFileFails
  <2>1. UNCHANGED <<words, reached, transcript, versions, run>> /\ apart'
    BY <1>10 DEF UndoTranscriptFails, UndoFileFails, Writing, agent, stores
  <2> QED BY <2>1, MissedStays DEF Kept
<1>11. CASE UndoFile
  <2>1. /\ UNCHANGED <<words, apart, reached, transcript, versions, run>> /\ pc = "undoFile"
        /\ (edit.kind = "replace" => pc' = "undoLate" /\ edit' = edit)
    BY <1>11 DEF UndoFile, Writing, Sound, agent, AfterUndo, GoTo
  <2>2. edit.kind # "replace" => \A n \in transcript : ~ (n > edit.before)
    <3>1. edit.kind # "replace" => transcript \subseteq 1..edit.before
      BY <2>1 DEF PlaceInv, PhaseOK
    <3>2. edit.before \in Nat
      BY <2>1, LatestIs DEF PlaceInv, PhaseOK, Began
    <3> QED BY <3>1, <3>2
  <2> QED BY <2>1, <2>2, MissedStays DEF Kept
<1>12. CASE UndoLate
  <2>1. /\ UNCHANGED <<words, reached, versions, run>> /\ pc = "undoLate" /\ (apart => apart')
        /\ transcript' = {m \in transcript : m <= edit.before} \/ (apart' /\ transcript' = transcript)
    BY <1>12 DEF UndoLate, Writing, Sound, agent
  <2>2. Kept' \subseteq Kept
    BY <2>1 DEF Kept
  <2>3. edit.before \in Nat
    BY <2>1, LatestIs DEF PlaceInv, PhaseOK, Began
  <2>4. ASSUME ~apart', NEW n \in transcript, n > edit.before PROVE n \notin Kept'
    <3>1. n \notin transcript' /\ \A v \in versions : n \notin v.rows
      BY <2>1, <2>3, <2>4, LatestIs DEF PlaceInv, PlacesOK
    <3> QED BY <2>1, <3>1 DEF Kept
  <2> QED BY <2>1, <2>2, <2>4, MissedStays
<1>13. CASE UNCHANGED vars
  BY <1>13 DEF vars, stores, agent, MissedOK, Kept, Alone
<1> QED BY <1>1, <1>2, <1>3, <1>4, <1>5, <1>6, <1>7, <1>8, <1>9, <1>10, <1>11, <1>12, <1>13 DEF Next, EditStep
-----------------------------------------------------------------------------
(* Every step keeps pi's file telling what is shown. *)

\* What is known of the conversation as each turn was sent.
Told(past) == PastOK(past, transcript, versions) /\ (Reliable => VersionsTell(past) /\ FilesTell)

\* The messages can be told by their words only if they could before.
LEMMA ReliableWas == ASSUME words' = words, apart => apart', Reliable' PROVE Reliable
<1>1. CASE \A n \in Turns : Alone(n)'
  <2>1. \A n \in Turns : Alone(n)
    BY <1>1 DEF Alone
  <2> QED BY <2>1 DEF Reliable
<1>2. CASE ~MissAny /\ ~apart'
  BY <1>2 DEF Reliable
<1> QED BY <1>1, <1>2 DEF Reliable

\* It is enough that each version goes on from what is shown, and is told by its file.
LEMMA TellStep ==
  ASSUME NEW past \in Pasts, Begin(past), PlacesOK', Fits(past, transcript', versions'),
         Reliable' => /\ \A v \in versions' : Tells(FileFor(v), past[v.anchor] \cup v.rows, reached', apart')
                      /\ FilesTell'
  PROVE  TellInv'
<1>1. /\ latest' \in 0..LastSeq /\ latest' \in Nat /\ transcript' \subseteq 1..latest'
      /\ \A v \in versions' : VersionOK(v, reached') /\ v.rows \subseteq 1..latest' /\ v.rows \cap transcript' = {}
  BY ConversationAssumption DEF PlacesOK
<1>2. 1..latest' \subseteq 1..LastSeq
  BY <1>1, ConversationAssumption
<1>3. ASSUME NEW v \in versions' PROVE v.rows \cap transcript' = {} /\ v.rows \subseteq 1..LastSeq /\ v.anchor \in 0..LastSeq
  <2>1. v.anchor < latest' /\ v.anchor \in Nat
    BY <1>1, AnchorBefore
  <2>2. v.anchor \in 0..LastSeq
    BY <1>1, <2>1, ConversationAssumption
  <2> QED BY <1>1, <1>2, <2>2
<1>4. transcript' \subseteq 1..LastSeq
  BY <1>1, <1>2
<1>5. \A v \in versions' : v.rows \cap transcript' = {} /\ v.rows \subseteq 1..LastSeq /\ v.anchor \in 0..LastSeq
  BY <1>3
<1>6. \E new \in Pasts : PastOK(new, transcript', versions') /\ \A v \in versions' : new[v.anchor] = past[v.anchor]
  <2>1. SetApart(transcript', versions')
    BY <1>4, <1>5 DEF SetApart
  <2> QED BY <2>1, Refit
<1>7. PICK new \in Pasts : PastOK(new, transcript', versions') /\ \A v \in versions' : new[v.anchor] = past[v.anchor]
  BY <1>6
<1>8. Reliable' => VersionsTell(new)' /\ FilesTell'
  BY <1>7 DEF VersionsTell
<1> QED BY <1>7, <1>8 DEF TellInv

\* What a version is told by does not change as pi gets to the last message.
LEMMA VersionsStay ==
  ASSUME NEW past \in Pasts, PlaceInv, Told(past), Reliable,
         \A n \in reached' : n \in reached \/ (run # 0 /\ n = run), apart => apart', NEW v \in versions
  PROVE  Tells(FileFor(v), past[v.anchor] \cup v.rows, reached', apart')
<1>1. Tells(FileFor(v), past[v.anchor] \cup v.rows, reached, apart)
  BY DEF Told, VersionsTell
<1>2. ASSUME run # 0 PROVE run \notin past[v.anchor] \cup v.rows
  <2>1. run \in transcript /\ v.anchor < run /\ v.rows \cap transcript = {}
    BY <1>2 DEF PlaceInv, RunOK, PlacesOK
  <2>2. v.anchor \in 0..LastSeq /\ v.anchor \in Nat
    BY AnchorsBelow DEF PlaceInv
  <2>3. past[v.anchor] \subseteq 1..v.anchor
    BY <2>2 DEF Told, PastOK, Begin
  <2>4. run \in Int
    BY <2>1, LatestIs DEF PlaceInv
  <2>5. run \notin 1..v.anchor
    BY <2>1, <2>2, <2>4
  <2> QED BY <2>1, <2>3, <2>5
<1>3. \A n \in reached' : n \in reached \/ n \notin past[v.anchor] \cup v.rows
  BY <1>2
<1> QED BY <1>1, <1>3, TellsStays

\* Where nothing changes of what is shown and kept, the files are all there is to see to.
LEMMA SameTell ==
  ASSUME PlaceInv, TellInv, PlacesOK', UNCHANGED <<transcript, versions, words>>, apart => apart',
         \A n \in reached' : n \in reached \/ (run # 0 /\ n = run), Reliable' /\ Reliable /\ FilesTell => FilesTell'
  PROVE  TellInv'
<1>1. PICK past \in Pasts : Told(past)
  BY DEF TellInv, Told
<1>2. Begin(past) /\ Fits(past, transcript', versions')
  <2>1. PastOK(past, transcript, versions)
    BY <1>1 DEF Told
  <2>2. Begin(past) /\ Fits(past, transcript, versions)
    BY <2>1, FitsAsIs
  <2> QED BY <2>2
<1>3. ASSUME Reliable' PROVE (\A v \in versions' : Tells(FileFor(v), past[v.anchor] \cup v.rows, reached', apart')) /\ FilesTell'
  <2>1. Reliable
    BY <1>3, ReliableWas
  <2>2. FilesTell
    BY <1>1, <2>1 DEF Told
  <2> QED BY <1>1, <1>3, <2>1, <2>2, VersionsStay
<1> QED BY <1>2, <1>3, TellStep

\* With no edit under way, the file is.
LEMMA IdleTell == ASSUME pc' = "idle", Tells(file', transcript', reached', apart') PROVE FilesTell'
  BY DEF FilesTell, Tells

\* pi gets to its message, or not; or the portal stops.
LEMMA RunTells == ASSUME PlaceInv, TellInv, PlacesOK', RunAnswers \/ RunFails \/ Crash PROVE TellInv'
<1>1. UNCHANGED <<transcript, versions, words>>
  BY DEF RunAnswers, RunFails, Crash
<1>2. apart' = apart \/ apart' = (apart \/ pc # "idle")
  BY DEF RunAnswers, RunFails, Crash
<1>3. apart => apart'
  BY <1>2, Zenon
<1>4. (run # 0 /\ Written(run)) \/ UNCHANGED <<file, reached>>
  BY DEF RunAnswers, RunFails, Crash, Unwritten
<1>5. \A n \in reached' : n \in reached \/ (run # 0 /\ n = run)
  BY <1>4 DEF Written
<1>6. pc = "idle" \/ apart'
  <2>1. CASE RunAnswers \/ RunFails
    BY <2>1 DEF RunAnswers, RunFails, PlaceInv, RunOK
  <2>2. CASE Crash
    BY <2>2, Zenon DEF Crash
  <2> QED BY <2>1, <2>2
<1>7. pc' = "idle" \/ pc' = "undo"
  <2>1. RunAnswers \/ RunFails => pc = "idle"
    BY DEF RunAnswers, RunFails, PlaceInv, RunOK
  <2> QED BY <2>1 DEF RunAnswers, RunFails, Crash, GoTo
<1>8. ASSUME FilesTell PROVE Tells(file', transcript', reached', apart')
  <2>1. InFile(file) \subseteq transcript /\ (apart' \/ Tells(file, transcript, reached, apart))
    BY <1>6, <1>8 DEF FilesTell
  <2>2. CASE run # 0 /\ Written(run)
    <3>1. InFile(file') = InFile(file) \cup {run} /\ reached' = reached \cup {run} /\ run \in transcript
      BY <2>2, WrittenIs
    <3> QED BY <1>1, <1>3, <2>1, <3>1 DEF Tells
  <2>3. CASE UNCHANGED <<file, reached>>
    BY <1>1, <1>3, <2>1, <2>3 DEF Tells
  <2> QED BY <1>4, <2>2, <2>3
<1>9. ASSUME FilesTell PROVE FilesTell'
  <2>1. CASE pc' = "idle"
    BY <1>8, <1>9, <2>1, IdleTell
  <2>2. CASE pc' = "undo"
    <3>1. InFile(file') \subseteq transcript'
      BY <1>8, <1>9 DEF Tells
    <3> QED BY <2>2, <3>1 DEF FilesTell
  <2> QED BY <1>7, <2>1, <2>2
<1> QED BY <1>1, <1>3, <1>5, <1>9, SameTell

\* A message is sent, or a replacement, or it could not be: pi has not got to it.
LEMMA SentTells == ASSUME PlaceInv, TellInv, PlacesOK', Send \/ SendReplacement PROVE TellInv'
<1>1. /\ UNCHANGED <<versions, file, reached, words, apart>> /\ pc \in {"idle", "send"} /\ pc' \in {"idle", "undo"}
      /\ transcript' = transcript \cup {latest + 1} \/ transcript' = transcript
  BY DEF Send, SendReplacement, Resting, GoTo
<1>2. PICK past \in Pasts : Told(past)
  BY DEF TellInv, Told
<1>3. latest \in Nat /\ transcript \subseteq 1..latest /\ reached \subseteq 1..latest
      /\ \A v \in versions : v.anchor \in Nat /\ v.anchor < latest
  BY LatestIs, AnchorsBelow DEF PlaceInv
<1>4. PastOK(past, transcript, versions)
  BY <1>2 DEF Told
<1>5. \A v \in versions : v.anchor \in transcript' =>
        v.anchor \in transcript /\ transcript \cap (1..v.anchor) = transcript' \cap (1..v.anchor)
  BY <1>1, <1>3
<1>6. Begin(past) /\ Fits(past, transcript', versions)
  BY <1>4, <1>5, FitsAsIs
<1>7. transcript' \cap reached = transcript \cap reached /\ transcript \subseteq transcript'
  BY <1>1, <1>3
<1>8. ASSUME Reliable' PROVE (\A v \in versions' : Tells(FileFor(v), past[v.anchor] \cup v.rows, reached', apart')) /\ FilesTell'
  <2>1. Reliable
    BY <1>1, <1>8, ReliableWas
  <2>2. Tells(file, transcript, reached, apart)
    BY <1>1, <1>2, <2>1 DEF Told, FilesTell
  <2>3. Tells(file', transcript', reached', apart')
    BY <1>1, <1>7, <2>2 DEF Tells
  <2>4. FilesTell'
    BY <1>1, <2>3 DEF FilesTell, Tells
  <2> QED BY <1>1, <1>2, <2>1, <2>4, VersionsStay
<1> QED BY <1>1, <1>6, <1>8, TellStep

\* A message that is looked for and found is the one meant.
LEMMA CutRight ==
  ASSUME PlaceInv, MissedOK, Reliable, FilesTell, pc = "idle", run = 0, file # NoFile,
         NEW seq \in transcript, Locate(file, seq) # 0
  PROVE  file[Locate(file, seq)] = seq
<1>1. FileOK(file, reached) /\ transcript \subseteq Turns /\ transcript \subseteq Kept
  BY KeptTurns DEF PlaceInv, PlacesOK, Kept
<1>2. file \in Seq(Entries) /\ Lines(file) = file
  BY <1>1, FileIs
<1>3. CASE \A n \in Turns : Alone(n)
  <2> DEFINE t == Locate(file, seq)
  <2>1. t \in 1..Len(file) /\ file[t] > 0 /\ words[file[t]] = words[seq]
    BY <1>1, <1>2, LocateHits
  <2> HIDE DEF t
  <2>2. file[t] \in Entries
    BY <1>2, <2>1
  <2>3. file[t] \in Turns
    BY <2>1, <2>2, EntryIs
  <2> QED BY <1>1, <1>3, <2>1, <2>3 DEF Alone, t
<1>4. CASE ~MissAny /\ ~apart
  <2>1. \A n \in Kept \ reached : Alone(n)
    BY <1>4, MissedAlone
  <2>2. InFile(file) \subseteq reached
    BY <1>1, InFileIs
  <2>3. InFile(file) = transcript \cap reached
    BY <1>4, <2>2 DEF FilesTell, Tells
  <2>4. Matched(file, reached)
    BY <1>1, <2>1, <2>3 DEF Matched
  <2> QED BY <2>4, LocateRight
<1> QED BY <1>3, <1>4 DEF Reliable

\* An edit begins: what is left is what is shown but for what the edit takes away.
LEMMA CutFileTells ==
  ASSUME PlaceInv, MissedOK, TellInv, PlacesOK', NEW kind \in Kinds, NEW seq \in Turns, CutFile(kind, seq)
  PROVE  TellInv'
<1>1. PlacesOK /\ pc = "idle" /\ run = 0
  BY DEF PlaceInv, CutFile, Begins, Resting
<1>2. UNCHANGED <<transcript, versions, words, apart, reached>> /\ pc' = "cut"
  BY DEF CutFile
<1>3. /\ seq \in transcript /\ edit'.original = file /\ edit'.gone = From(kind, seq)
      /\ file = NoFile => file' = NoFile
      /\ file # NoFile => Locate(file, seq) # 0 /\ file' = DropMessage(file, Locate(file, seq), kind)
  BY <1>1, CutFileIs
<1>4. FileOK(file, reached) /\ transcript \subseteq Turns /\ InFile(file) \subseteq Turns
  BY <1>1, KeptTurns, InFileIs DEF PlacesOK, Kept
<1>5. ASSUME Reliable, FilesTell PROVE FilesTell'
  <2>1. Tells(file, transcript, reached, apart)
    BY <1>1, <1>5 DEF FilesTell
  <2>2. CASE file = NoFile
    <3>1. InFile(file) = {} /\ file' = file
      BY <1>3, <1>4, <2>2, FileIs
    <3>2. Tells(file, transcript \ edit'.gone, reached, apart) /\ InFile(file) \subseteq transcript
      BY <2>1, <3>1 DEF Tells
    <3> QED BY <1>2, <1>3, <2>1, <3>1, <3>2 DEF FilesTell
  <2>3. CASE file # NoFile
    <3>1. file[Locate(file, seq)] = seq
      BY <1>1, <1>3, <1>5, <2>3, CutRight
    <3>2. InFile(file') = IF kind = "remove" THEN InFile(file) \ {seq} ELSE {m \in InFile(file) : m < seq}
      BY <1>3, <1>4, <2>3, <3>1, DroppedFile
    <3>3. InFile(file') \subseteq transcript \ From(kind, seq)
          /\ \A n \in InFile(file) : n \in From(kind, seq) \/ n \in InFile(file')
      <4>1. \A m \in transcript : m < seq <=> ~ (m >= seq)
        BY <1>4 DEF Turns
      <4>2. InFile(file) \subseteq transcript
        BY <2>1 DEF Tells
      <4> QED BY <3>2, <4>1, <4>2 DEF From
    <3>4. Tells(file', transcript \ edit'.gone, reached, apart) /\ InFile(file') \subseteq transcript
      BY <1>3, <2>1, <3>3 DEF Tells
    <3> QED BY <1>2, <1>3, <2>1, <3>4 DEF FilesTell
  <2> QED BY <2>2, <2>3
<1> QED BY <1>2, <1>5, SameTell

\* What an edit writes to the file alone, or does not.
LEMMA FileTells ==
  ASSUME PlaceInv, TellInv, PlacesOK', CutUndone \/ TakeFails \/ Rewrite \/ UndoTranscriptFails \/ UndoFile \/ UndoFileFails
  PROVE  TellInv'
<1>1. UNCHANGED <<transcript, versions, words, reached>> /\ (apart => apart')
  BY DEF CutUndone, TakeFails, Rewrite, UndoTranscriptFails, UndoFile, UndoFileFails, Writing, agent, stores, Sound
<1>2. pc # "idle" /\ Began(edit, latest, versions, reached, file)
  BY DEF CutUndone, TakeFails, Rewrite, UndoTranscriptFails, UndoFile, UndoFileFails, PlaceInv, PhaseOK
<1>3. ASSUME FilesTell PROVE FilesTell'
  <2>1. CASE CutUndone
    <3>1. pc = "cut" /\ pc' = "idle" /\ (file' = edit.original \/ (file' = file /\ apart'))
      BY <2>1 DEF CutUndone, GoTo, Sound
    <3>2. Tells(edit.original, transcript, reached, apart) /\ InFile(file) \subseteq transcript
      BY <1>3, <3>1 DEF FilesTell
    <3>3. Tells(file', transcript', reached', apart')
      BY <1>1, <3>1, <3>2 DEF Tells
    <3> QED BY <3>1, <3>3, IdleTell
  <2>2. CASE TakeFails
    <3>1. pc' = "undo" /\ file' = file
      BY <2>2 DEF TakeFails, GoTo
    <3> QED BY <1>1, <1>3, <3>1 DEF FilesTell
  <2>3. CASE Rewrite
    <3>1. pc = "rewrite" /\ pc' = "idle" /\ (file' = FileFor(edit.wanted) \/ (file' = file /\ FileFor(edit.wanted) = NoFile))
      BY <2>3 DEF Rewrite, GoTo
    <3>2. Tells(FileFor(edit.wanted), transcript, reached, apart)
      BY <1>3, <3>1 DEF FilesTell
    <3>3. FileFor(edit.wanted) = NoFile => file = NoFile
      <4>1. edit.kind = "switch"
        BY <3>1 DEF PlaceInv, PhaseOK
      <4>2. VersionOK(edit.wanted, reached) /\ (edit.wanted.prefix = NoFile <=> edit.original = NoFile)
            /\ (edit.original = NoFile => file = NoFile)
        BY <1>2, <4>1 DEF Began
      <4> QED BY <4>2, FileForIs
    <3>4. Tells(file', transcript', reached', apart')
      BY <1>1, <3>1, <3>2, <3>3 DEF Tells
    <3> QED BY <3>1, <3>4, IdleTell
  <2>4. CASE UndoTranscriptFails \/ UndoFileFails
    <3>1. pc' = "idle" /\ file' = file /\ apart'
      BY <2>4 DEF UndoTranscriptFails, UndoFileFails, GoTo, stores
    <3>2. Tells(file', transcript', reached', apart')
      BY <1>1, <1>3, <3>1 DEF FilesTell, Tells
    <3> QED BY <3>1, <3>2, IdleTell
  <2>5. CASE UndoFile
    <3>1. pc = "undoFile" /\ apart' = apart /\ (edit.original = NoFile => file = NoFile)
      BY <1>2, <2>5 DEF UndoFile, Sound, Began
    <3>2. file' = edit.original
      BY <2>5, <3>1 DEF UndoFile
    <3>3. Tells(edit.original, transcript \cap (1..edit.before), reached, apart)
      BY <1>3, <3>1 DEF FilesTell
    <3>4. CASE edit.kind = "replace"
      <4>1. pc' = "undoLate" /\ edit' = edit
        BY <2>5, <3>4 DEF UndoFile, GoTo, AfterUndo
      <4> QED BY <1>1, <3>1, <3>2, <3>3, <4>1 DEF FilesTell, Tells
    <3>5. CASE edit.kind # "replace"
      <4>1. pc' = "idle" /\ transcript \subseteq 1..edit.before
        BY <2>5, <3>1, <3>5 DEF UndoFile, GoTo, AfterUndo, PlaceInv, PhaseOK
      <4>2. Tells(file', transcript', reached', apart')
        BY <1>1, <3>1, <3>2, <3>3, <4>1 DEF Tells
      <4> QED BY <4>1, <4>2, IdleTell
    <3> QED BY <3>4, <3>5
  <2> QED BY <2>1, <2>2, <2>3, <2>4, <2>5
<1> QED BY <1>1, <1>3, SameTell

\* What goes on from a message that is left out is dropped.
LEMMA DroppedAt == ASSUME NEW A, NEW v \in versions, v.anchor \in A PROVE v \in Dropped(A)
  BY DEF Dropped

\* The turns go, and are kept; or one is taken out, with all that goes on from there.
LEMMA CutTranscriptTells == ASSUME PlaceInv, TellInv, PlacesOK', CutTranscript PROVE TellInv'
<1>1. PlacesOK /\ pc = "cut" /\ Began(edit, latest, versions, reached, file) /\ AtCut(edit)
  BY DEF PlaceInv, PhaseOK, CutTranscript
<1>2. /\ transcript' = transcript \ edit.gone /\ UNCHANGED <<latest, file, run, reached, taken, apart, words>>
      /\ \/ edit.kind = "remove" /\ pc' = "idle"
            /\ versions' = versions \ Dropped({Anchor(edit.seq)} \cup {m \in transcript : m >= edit.seq})
         \/ edit.kind = "replace" /\ pc' = "send" /\ versions' = versions \cup {edit.kept}
         \/ edit.kind = "switch" /\ pc' = "take" /\ versions' = versions \cup {edit.kept}
  BY <1>1, CutIs DEF Began
<1>3. PICK past \in Pasts : Told(past)
  BY DEF TellInv, Told
<1>4. PastOK(past, transcript, versions) /\ transcript \subseteq 1..latest /\ latest \in Nat /\ latest <= LastSeq
      /\ \A v \in versions : v.anchor \in 0..LastSeq
  BY <1>1, <1>3, LatestIs, AnchorsBelow DEF Told
<1>5. ASSUME Reliable' PROVE Reliable /\ FilesTell'
  <2>1. Reliable /\ FilesTell
    BY <1>2, <1>3, <1>5, ReliableWas DEF Told
  <2>2. Tells(file', transcript', reached', apart')
    BY <1>1, <1>2, <2>1 DEF FilesTell
  <2>3. FilesTell'
    BY <1>2, <2>2 DEF FilesTell, Tells
  <2> QED BY <2>1, <2>3
<1>6. CASE edit.kind = "remove" /\ versions' = versions \ Dropped({Anchor(edit.seq)} \cup {m \in transcript : m >= edit.seq})
  <2>1. edit.gone = {edit.seq} /\ edit.seq \in transcript
    BY <1>1, <1>6 DEF AtCut
  <2>2. \A v \in versions' : v \in versions /\ (v.anchor \in transcript => ~ (v.anchor >= edit.seq))
    <3> DEFINE A == {Anchor(edit.seq)} \cup {m \in transcript : m >= edit.seq}
    <3>1. \A v \in versions : v.anchor \in A => v \in Dropped(A)
      BY DroppedAt
    <3>2. versions' = versions \ Dropped(A)
      BY <1>6
    <3>3. \A v \in versions' : v \in versions /\ v.anchor \notin A
      BY <3>1, <3>2
    <3> QED BY <3>3
  <2>3. \A v \in versions' : v.anchor \in transcript' =>
          v.anchor \in transcript /\ transcript \cap (1..v.anchor) = transcript' \cap (1..v.anchor)
    BY <1>2, <1>4, <2>1, <2>2
  <2>4. Begin(past) /\ Fits(past, transcript', versions')
    BY <1>4, <2>2, <2>3, FitsAsIs
  <2>5. Reliable' => \A v \in versions' : Tells(FileFor(v), past[v.anchor] \cup v.rows, reached', apart')
    BY <1>2, <1>3, <1>5, <2>2, VersionsStay
  <2> QED BY <1>5, <2>4, <2>5, TellStep
<1>7. CASE edit.kind # "remove" /\ versions' = versions \cup {edit.kept}
  <2>1. EndsIn(transcript, edit.kept) /\ edit.gone = edit.kept.rows /\ FileFor(edit.kept) = edit.original
        /\ VersionOK(edit.kept, reached)
    BY <1>1, <1>7 DEF AtCut, Began
  <2>2. edit.kept.anchor \in 0..LastSeq /\ transcript \subseteq 1..LastSeq /\ \A n \in edit.kept.rows : edit.kept.anchor < n
    <3>1. transcript \subseteq 1..LastSeq
      BY <1>4, ConversationAssumption
    <3>2. edit.kept.anchor \in {0} \cup transcript
      BY <2>1 DEF EndsIn
    <3>3. edit.kept.anchor \in 0..LastSeq
      BY <3>1, <3>2, AnchorIn
    <3> QED BY <2>1, <3>1, <3>3 DEF VersionOK
  <2>3. \A v \in versions' : v \in versions \/ v = edit.kept
    BY <1>7
  <2>4. Begin(past) /\ Fits(past, transcript \ edit.kept.rows, versions')
        /\ past[edit.kept.anchor] \cup edit.kept.rows = transcript
    BY <1>4, <2>1, <2>2, <2>3, SetAside
  <2>5. ASSUME Reliable' PROVE \A v \in versions' : Tells(FileFor(v), past[v.anchor] \cup v.rows, reached', apart')
    <3>1. Tells(edit.original, transcript, reached, apart)
      BY <1>1, <1>3, <1>5, <2>5 DEF Told, FilesTell
    <3>2. Tells(FileFor(edit.kept), past[edit.kept.anchor] \cup edit.kept.rows, reached', apart')
      BY <1>2, <2>1, <2>4, <3>1
    <3>3. \A v \in versions : Tells(FileFor(v), past[v.anchor] \cup v.rows, reached', apart')
      BY <1>2, <1>3, <1>5, <2>5, VersionsStay
    <3> QED BY <2>3, <3>2, <3>3
  <2> QED BY <1>2, <1>5, <2>1, <2>4, <2>5, TellStep
<1> QED BY <1>2, <1>6, <1>7

\* A version is brought back.
LEMMA TakeVersionTells == ASSUME PlaceInv, TellInv, PlacesOK', TakeVersion PROVE TellInv'
<1>1. PlacesOK /\ pc = "take" /\ Began(edit, latest, versions, reached, file) /\ AtTake(edit) /\ edit.kind = "switch"
      /\ edit.wanted \in versions /\ edit.wanted \in versions \ {edit.kept}
  BY DEF PlaceInv, PhaseOK, TakeVersion
<1>2. versions' = versions \ {edit.wanted} /\ transcript' = transcript \cup edit.wanted.rows /\ pc' = "rewrite" /\ edit' = edit
      /\ UNCHANGED <<file, reached, apart, words>>
  BY DEF TakeVersion, GoTo, Writing, agent, Sound
<1>3. PICK past \in Pasts : Told(past)
  BY DEF TellInv, Told
<1>4. PastOK(past, transcript, versions) /\ transcript \subseteq 1..latest /\ latest \in Nat /\ transcript \subseteq 1..LastSeq
      /\ UpTo(versions, latest)
  <2>1. transcript \subseteq 1..latest /\ latest \in Nat /\ latest <= LastSeq
    BY <1>1, LatestIs
  <2>2. transcript \subseteq 1..LastSeq
    BY <2>1, ConversationAssumption
  <2>3. \A v \in versions : v.anchor \in 0..LastSeq /\ v.anchor <= latest
    BY <1>1, <2>1, AnchorsBelow
  <2> QED BY <1>3, <2>1, <2>2, <2>3 DEF Told, UpTo
<1>5. VersionOK(edit.wanted, reached) /\ edit.wanted.rows \subseteq 1..latest /\ edit.wanted.rows \cap transcript = {}
  BY <1>1 DEF PlacesOK
<1>6. Behind(transcript, edit.wanted, latest)
  BY <1>1, <1>5 DEF AtTake, Ends, Gap, Began, VersionOK, Behind
<1>7. Begin(past) /\ Fits(past, transcript', versions')
      /\ past[edit.wanted.anchor] \cup edit.wanted.rows = transcript' \cap (1..latest)
  <2>1. versions' \subseteq versions
    BY <1>2
  <2>2. Begin(past) /\ Fits(past, transcript', versions)
        /\ Joined(past, edit.wanted, transcript', latest)
    BY <1>1, <1>2, <1>4, <1>6, BroughtBack
  <2> QED BY <2>1, <2>2, FitsLess DEF Joined
<1>8. past[edit.wanted.anchor] \cup edit.wanted.rows = transcript'
  BY <1>2, <1>4, <1>5, <1>7
<1>9. ASSUME Reliable' PROVE (\A v \in versions' : Tells(FileFor(v), past[v.anchor] \cup v.rows, reached', apart')) /\ FilesTell'
  <2>1. Reliable
    BY <1>2, <1>9, ReliableWas
  <2>2. InFile(file) \subseteq transcript
    BY <1>3, <2>1 DEF Told, FilesTell
  <2>3. \A v \in versions : Tells(FileFor(v), past[v.anchor] \cup v.rows, reached', apart')
    BY <1>2, <1>3, <2>1, VersionsStay
  <2>4. Tells(FileFor(edit.wanted), transcript', reached', apart')
    BY <1>1, <1>8, <2>3
  <2>5. FilesTell'
    BY <1>2, <1>5, <2>2, <2>4 DEF FilesTell
  <2> QED BY <1>2, <2>3, <2>5
<1> QED BY <1>2, <1>7, <1>9, TellStep

\* It is set aside again, or lost, as its file cannot be written; or it stays.
LEMMA RewriteFailsTells == ASSUME PlaceInv, TellInv, PlacesOK', RewriteFails PROVE TellInv'
<1>1. PlacesOK /\ pc = "rewrite" /\ Began(edit, latest, versions, reached, file) /\ AtRewrite(edit) /\ edit.kind = "switch"
  BY DEF PlaceInv, PhaseOK, RewriteFails
<1>2. UNCHANGED <<file, reached, words>> /\ (apart => apart')
      /\ \/ (versions' = versions \cup {edit.wanted} \/ versions' = versions)
              /\ transcript' = transcript \ edit.wanted.rows /\ pc' = "undo" /\ edit' = edit
         \/ UNCHANGED <<transcript, versions>> /\ pc' = "idle" /\ apart'
  BY DEF RewriteFails, GoTo, Writing, agent, Sound
<1>3. CASE (versions' = versions \cup {edit.wanted} \/ versions' = versions)
           /\ transcript' = transcript \ edit.wanted.rows /\ pc' = "undo" /\ edit' = edit
  <2>1. PICK past \in Pasts : Told(past)
    BY DEF TellInv, Told
  <2>2. PastOK(past, transcript, versions) /\ transcript \subseteq 1..latest /\ latest \in Nat /\ latest <= LastSeq
        /\ \A v \in versions : v.anchor \in 0..LastSeq
    BY <1>1, <2>1, LatestIs, AnchorsBelow DEF Told
  <2>3. EndsIn(transcript, edit.wanted) /\ VersionOK(edit.wanted, reached)
    BY <1>1 DEF AtRewrite, Began
  <2>4. edit.wanted.anchor \in 0..LastSeq /\ transcript \subseteq 1..LastSeq /\ \A n \in edit.wanted.rows : edit.wanted.anchor < n
    <3>1. transcript \subseteq 1..LastSeq
      BY <2>2, ConversationAssumption
    <3>2. edit.wanted.anchor \in {0} \cup transcript
      BY <2>3 DEF EndsIn
    <3>3. edit.wanted.anchor \in 0..LastSeq
      BY <3>1, <3>2, AnchorIn
    <3> QED BY <2>3, <3>1, <3>3 DEF VersionOK
  <2>5. \A v \in versions' : v \in versions \/ v = edit.wanted
    BY <1>3
  <2>6. Begin(past) /\ Fits(past, transcript \ edit.wanted.rows, versions')
        /\ past[edit.wanted.anchor] \cup edit.wanted.rows = transcript
    BY <2>2, <2>3, <2>4, <2>5, SetAside
  <2>7. ASSUME Reliable' PROVE (\A v \in versions' : Tells(FileFor(v), past[v.anchor] \cup v.rows, reached', apart')) /\ FilesTell'
    <3>1. Reliable
      BY <1>2, <2>7, ReliableWas
    <3>2. InFile(file) \subseteq transcript \ edit.wanted.rows /\ Tells(FileFor(edit.wanted), transcript, reached, apart)
      BY <1>1, <2>1, <3>1 DEF Told, FilesTell
    <3>3. \A v \in versions : Tells(FileFor(v), past[v.anchor] \cup v.rows, reached', apart')
      BY <1>2, <2>1, <3>1, VersionsStay
    <3>4. Tells(FileFor(edit.wanted), past[edit.wanted.anchor] \cup edit.wanted.rows, reached', apart')
      BY <1>2, <2>6, <3>2 DEF Tells
    <3>5. FilesTell'
      BY <1>2, <1>3, <3>2 DEF FilesTell
    <3> QED BY <2>5, <3>3, <3>4, <3>5
  <2> QED BY <1>3, <2>6, <2>7, TellStep
<1>4. CASE UNCHANGED <<transcript, versions>> /\ pc' = "idle" /\ apart'
  <2>1. ASSUME FilesTell PROVE FilesTell'
    <3>1. Tells(file', transcript', reached', apart')
      BY <1>2, <1>4, <2>1 DEF FilesTell, Tells
    <3> QED BY <1>4, <3>1, IdleTell
  <2> QED BY <1>2, <1>4, <2>1, SameTell
<1> QED BY <1>2, <1>3, <1>4

\* What the edit took away is back.
LEMMA UndoTranscriptTells == ASSUME PlaceInv, TellInv, PlacesOK', UndoTranscript PROVE TellInv'
<1>1. PlacesOK /\ pc = "undo" /\ Began(edit, latest, versions, reached, file) /\ AtUndo(edit)
  BY DEF PlaceInv, PhaseOK, UndoTranscript
<1>2. transcript' = transcript \cup edit.gone /\ versions' = versions \ {edit.kept} /\ pc' = "undoFile" /\ edit' = edit
      /\ UNCHANGED <<file, reached, apart, words>>
  BY DEF UndoTranscript, GoTo
<1>3. PICK past \in Pasts : Told(past)
  BY DEF TellInv, Told
<1>4. edit.kept \in versions /\ edit.gone = edit.kept.rows /\ edit.kept.rows \subseteq 1..edit.before /\ edit.before \in Nat
      /\ FileFor(edit.kept) = edit.original /\ Behind(transcript, edit.kept, edit.before)
  BY <1>1, LatestIs DEF AtUndo, Began, VersionOK, Behind
<1>5. PastOK(past, transcript, versions) /\ transcript \subseteq 1..LastSeq
      /\ UpTo(versions, edit.before)
  <2>1. transcript \subseteq 1..latest /\ latest \in Nat /\ latest <= LastSeq
    BY <1>1, LatestIs
  <2>2. transcript \subseteq 1..LastSeq
    BY <2>1, ConversationAssumption
  <2>3. \A v \in versions : v.anchor \in 0..LastSeq /\ v.anchor <= edit.before
    BY <1>1, AnchorsBelow DEF Began
  <2> QED BY <1>3, <1>4, <2>2, <2>3 DEF Told, UpTo
<1>6. Begin(past) /\ Fits(past, transcript', versions')
      /\ past[edit.kept.anchor] \cup edit.kept.rows = transcript' \cap (1..edit.before)
  <2>1. versions' \subseteq versions
    BY <1>2
  <2>2. Begin(past) /\ Fits(past, transcript', versions)
        /\ Joined(past, edit.kept, transcript', edit.before)
    BY <1>2, <1>4, <1>5, BroughtBack
  <2> QED BY <2>1, <2>2, FitsLess DEF Joined
<1>7. ASSUME Reliable' PROVE (\A v \in versions' : Tells(FileFor(v), past[v.anchor] \cup v.rows, reached', apart')) /\ FilesTell'
  <2>1. Reliable
    BY <1>2, <1>7, ReliableWas
  <2>2. InFile(file) \subseteq transcript
    BY <1>3, <2>1 DEF Told, FilesTell
  <2>3. \A v \in versions : Tells(FileFor(v), past[v.anchor] \cup v.rows, reached', apart')
    BY <1>2, <1>3, <2>1, VersionsStay
  <2>4. Tells(edit.original, transcript' \cap (1..edit.before), reached', apart')
    BY <1>2, <1>4, <1>6, <2>3
  <2>5. FilesTell'
    BY <1>2, <2>2, <2>4 DEF FilesTell
  <2> QED BY <1>2, <2>3, <2>5
<1> QED BY <1>2, <1>4, <1>6, <1>7, TellStep

\* What the replacement recorded is gone, or is not.
LEMMA UndoLateTells == ASSUME PlaceInv, TellInv, PlacesOK', UndoLate PROVE TellInv'
<1>1. PlacesOK /\ pc = "undoLate" /\ Began(edit, latest, versions, reached, file)
  BY DEF PlaceInv, PhaseOK, UndoLate
<1>2. UNCHANGED <<versions, file, reached, words>> /\ pc' = "idle" /\ (apart => apart')
      /\ (transcript' = {m \in transcript : m <= edit.before} \/ (transcript' = transcript /\ apart'))
  BY DEF UndoLate, GoTo, Writing, agent, Sound
<1>3. PICK past \in Pasts : Told(past)
  BY DEF TellInv, Told
<1>4. transcript \subseteq 1..latest /\ latest \in Nat /\ edit.before \in Nat
      /\ \A v \in versions : v.anchor \in Nat /\ v.anchor <= edit.before
  BY <1>1, LatestIs, AnchorsBelow DEF Began
<1>5. \A v \in versions : v.anchor \in transcript' =>
        v.anchor \in transcript /\ transcript \cap (1..v.anchor) = transcript' \cap (1..v.anchor)
  BY <1>2, <1>4
<1>6. Begin(past) /\ Fits(past, transcript', versions)
  BY <1>3, <1>5, FitsAsIs DEF Told
<1>7. ASSUME Reliable' PROVE (\A v \in versions' : Tells(FileFor(v), past[v.anchor] \cup v.rows, reached', apart')) /\ FilesTell'
  <2>1. Reliable
    BY <1>2, <1>7, ReliableWas
  <2>2. InFile(file) \subseteq transcript /\ Tells(file, transcript \cap (1..edit.before), reached, apart)
    BY <1>1, <1>3, <2>1 DEF Told, FilesTell
  <2>3. transcript' = transcript \cap (1..edit.before) \/ (transcript' = transcript /\ apart')
    <3>1. \A m \in transcript : m <= edit.before <=> m \in 1..edit.before
      BY <1>4
    <3>2. {m \in transcript : m <= edit.before} = transcript \cap (1..edit.before)
      BY <3>1
    <3> QED BY <1>2, <3>2
  <2>4. Tells(file', transcript', reached', apart')
    BY <1>2, <2>2, <2>3 DEF Tells
  <2> QED BY <1>2, <1>3, <2>1, <2>4, VersionsStay, IdleTell
<1> QED BY <1>2, <1>6, <1>7, TellStep

\* Every step keeps the whole of it.
LEMMA FileStep == ~EarlyFile /\ FileInv /\ [Next]_vars => FileInv'
<1> SUFFICES ASSUME ~EarlyFile, PlaceInv, MissedOK, TellInv, [Next]_vars PROVE FileInv'
  BY DEF FileInv
<1>1. PlaceInv' /\ MissedOK' /\ PlacesOK'
  BY PlaceStep, MissedStep DEF PlaceInv
<1> SUFFICES TellInv'
  BY <1>1 DEF FileInv
<1>2. CASE Send \/ RunAnswers \/ RunFails \/ Crash \/ SendReplacement
  BY <1>1, <1>2, SentTells, RunTells
<1>3. CASE \E kind \in Kinds, seq \in Turns : CutFile(kind, seq)
  BY <1>1, <1>3, CutFileTells
<1>4. CASE CutRefused \/ UNCHANGED vars
  <2>1. UNCHANGED <<transcript, versions, file, words, reached, apart, pc, edit>>
    BY <1>4 DEF CutRefused, vars, stores, agent
  <2>2. FilesTell => FilesTell'
    BY <2>1 DEF FilesTell
  <2> QED BY <1>1, <2>1, <2>2, SameTell
<1>5. CASE CutUndone \/ TakeFails \/ Rewrite \/ UndoTranscriptFails \/ UndoFile \/ UndoFileFails
  BY <1>1, <1>5, FileTells
<1>6. CASE CutTranscript \/ TakeVersion \/ RewriteFails \/ UndoTranscript \/ UndoLate
  BY <1>1, <1>6, CutTranscriptTells, TakeVersionTells, RewriteFailsTells, UndoTranscriptTells, UndoLateTells
<1> QED BY <1>2, <1>3, <1>4, <1>5, <1>6 DEF Next, EditStep

\* There is nothing to tell at first.
LEMMA InitFile == Init => FileInv
<1> SUFFICES ASSUME Init PROVE FileInv
  OBVIOUS
<1>1. PlaceInv /\ Kept = {}
  BY InitPlace DEF Init, Kept
<1>2. MissedOK
  BY <1>1 DEF MissedOK
<1>3. InFile(NoFile) = {}
  BY <1>1, FileIs DEF PlaceInv, PlacesOK, Init
<1> DEFINE past == [n \in 0..LastSeq |-> {}]
<1>4. past \in Pasts /\ past[0] = {} /\ \A n \in 0..LastSeq : past[n] = {}
  BY ConversationAssumption DEF Pasts
<1> HIDE DEF past
<1>5. PastOK(past, transcript, versions)
  BY <1>4 DEF Init, PastOK, Begin
<1>6. VersionsTell(past)
  BY DEF Init, VersionsTell
<1>7. FilesTell
  BY <1>3 DEF Init, FilesTell, Tells
<1>8. TellInv
  BY <1>4, <1>5, <1>6, <1>7 DEF TellInv
<1> QED BY <1>1, <1>2, <1>8 DEF FileInv

\* The agent remembers nothing that is gone from the page, wherever an edit is, fails or
\* is cut off, as long as no two messages say the same, and a run that fails leaves no file
\* where there was none.
THEOREM NothingStaysBehind == ~EarlyFile => (Spec => []NothingHidden)
<1> SUFFICES ASSUME ~EarlyFile PROVE Spec => []NothingHidden
  OBVIOUS
<1>1. FileInv /\ [Next]_vars => FileInv'
  BY FileStep
<1>2. FileInv => NothingHidden
  <2> SUFFICES ASSUME FileInv, \A n \in Turns : Alone(n) PROVE InFile(file) \subseteq transcript
    BY DEF NothingHidden
  <2>1. Reliable
    BY DEF Reliable
  <2>2. FilesTell
    BY <2>1 DEF FileInv, TellInv
  <2> QED BY <2>2 DEF FilesTell
<1> QED BY <1>1, <1>2, InitFile, PTL DEF Spec

\* At rest, pi's file has just those of the turns the page shows that got to pi, in the
\* order they were sent, whatever failed and stopped on the way, but a way back that failed
\* and a stop half way through an edit.  A message that says what another does gets to pi,
\* and a run that fails leaves no file where there was none.
THEOREM StaysInStep == ~MissAny /\ ~EarlyFile => (Spec => []InStep)
<1> SUFFICES ASSUME ~MissAny, ~EarlyFile PROVE Spec => []InStep
  OBVIOUS
<1>1. FileInv /\ [Next]_vars => FileInv'
  BY FileStep
<1>2. FileInv => InStep
  <2> SUFFICES ASSUME FileInv, pc = "idle", ~apart PROVE InFile(file) = transcript \cap reached /\ Ascending(file)
    BY DEF InStep
  <2>1. Reliable
    BY DEF Reliable
  <2>2. Tells(file, transcript, reached, apart)
    BY <2>1 DEF FileInv, TellInv, FilesTell
  <2>3. FileOK(file, reached)
    BY DEF FileInv, PlaceInv, PlacesOK
  <2>4. InFile(file) \subseteq reached /\ Ascending(file)
    BY <2>3, InFileIs, FileAscends
  <2> QED BY <2>2, <2>4 DEF Tells
<1> QED BY <1>1, <1>2, InitFile, PTL DEF Spec
-----------------------------------------------------------------------------
(* The versions that can come back. *)

\* The versions of what is after one message; and those of them a file leads to, by itself
\* or by way of others.
Group(V, a) == {x \in V : x.anchor = a}
Closed(S, F, G) == \A x \in G : FileStands(x, F) \/ (\E u \in S : FileStands(x, FileFor(u))) => x \in S
LeadsTo(F, G, v) == \A S \in SUBSET G : Closed(S, F, G) => v \in S

\* Two files are the same in the turns up to a, and their settings.
Has(f, g, a) == \A i \in 1..Len(f) : TurnOf(f[i]) <= a => i <= Len(g) /\ g[i] = f[i]
Agree(f, g, a) == Has(f, g, a) /\ Has(g, f, a)

\* A version begins with a message that got to pi; and its file with what was before that,
\* and at most the settings pi wrote for it.
StartOK(v, R) ==
  /\ \A i \in 1..Len(v.prefix) : v.prefix[i] <= v.anchor /\ TurnOf(v.prefix[i]) <= v.seq
  /\ v.seq \in v.rows \cap R /\ \A n \in v.rows : v.seq <= n
  /\ Agree(FileFor(v), v.prefix, v.anchor)

\* What is shown after its anchor came later than it, or got to pi.
Ahead(v, T, R) ==
  \A t \in T \ R : v.anchor < t /\ (\A m \in T : m <= v.anchor \/ t <= m) => v.seq < t

\* A version goes on from these turns, as this file has them.
GoesOn(v, F, T, V, R) ==
  /\ F # NoFile /\ LeadsTo(F, Group(V, v.anchor), v)
  /\ Agree(F, v.prefix, v.anchor) /\ Ahead(v, T, R)

\* All that were kept when there was a file go on from what is shown, or from another.
AllGoOn(F, T, V, R) ==
  \A v \in V : v.prefix # NoFile =>
    /\ StartOK(v, R)
    /\ v.anchor \in {0} \cup T => GoesOn(v, F, T, V, R)
    /\ \A u \in V : v.anchor \in u.rows => GoesOn(v, FileFor(u), u.rows, V, R)

\* So they did when an edit that is under way, or that pi is at the replacement of, began.
DidGoOn(e) == AllGoOn(e.original, (transcript \cap (1..e.before)) \cup e.gone, versions \ {e.kept}, reached)
GoOnInv ==
  /\ pc \in {"idle", "send"} => AllGoOn(file, transcript, versions, reached)
  /\ pc = "cut" => AllGoOn(edit.original, transcript, versions, reached)
  /\ pc \in {"send", "take", "undo"} => DidGoOn(edit)
  /\ taken # NoEdit => DidGoOn(taken)
  /\ pc = "rewrite" => AllGoOn(edit.original, (transcript \ edit.wanted.rows) \cup edit.gone,
                               (versions \cup {edit.wanted}) \ {edit.kept}, reached)
  /\ pc \in {"undoFile", "undoLate"} => AllGoOn(edit.original, transcript \cap (1..edit.before), versions, reached)
  /\ pc = "undoLate" => AllGoOn(file, transcript \cap (1..edit.before), versions, reached)

\* The message an edit is about is in the file as it was; a switch keeps what that file
\* shares with the one to come.
SeqOK(e, R) ==
  e.original # NoFile =>
    /\ e.seq \in R /\ \E t \in 1..Len(e.original) : e.original[t] = e.seq
    /\ e.kind # "remove" => e.kept.seq = e.seq /\ e.seq \in e.gone /\ \A n \in e.gone : e.seq <= n
    /\ e.kind = "switch" => e.kept.prefix = LongestCommonPrefix({e.original, FileFor(e.wanted)})
SeqInv ==
  /\ pc \in {"cut", "take", "rewrite"} => SeqOK(edit, reached)
  /\ pc = "cut" /\ edit.original # NoFile =>
       /\ \E t \in 1..Len(edit.original) : edit.original[t] = edit.seq /\ file = DropMessage(edit.original, t, edit.kind)
       /\ edit.kind = "replace" => edit.kept.prefix = file

\* A version goes on from nothing, or from a message that is shown or kept.
RootedInv == \A v \in versions : v.anchor \in {0} \cup Kept

StandInv == ~apart => GoOnInv /\ SeqInv /\ RootedInv
-----------------------------------------------------------------------------
(* Facts about these. *)

\* The turns of the entries of a file, as numbers, do not decrease.
LEMMA InTurn ==
  ASSUME NEW f, NEW R, FileOK(f, R), f # NoFile, NEW i \in 1..Len(f), NEW j \in 1..Len(f), i <= j
  PROVE  TurnOf(f[i]) <= TurnOf(f[j]) /\ TurnOf(f[i]) \in Int /\ TurnOf(f[j]) \in Int
<1>1. f \in Seq(Entries) /\ Lines(f) = f
  BY FileIs
<1>2. f[i] \in Entries /\ f[j] \in Entries
  BY <1>1
<1>3. /\ TurnOf(f[i]) \in Int /\ TurnOf(f[j]) \in Int /\ f[i] \in Int /\ f[j] \in Int
      /\ (f[j] > 0 => TurnOf(f[j]) = f[j]) /\ (f[i] < 0 => TurnOf(f[i]) = -f[i])
  BY <1>2, EntryIs DEF Turns
<1>4. i = j \/ Follows(f[i], f[j])
  BY <1>1, InOrder
<1> QED BY <1>3, <1>4 DEF Follows

\* Entries are of turns, as numbers.
LEMMA TurnsOf ==
  ASSUME NEW f \in Seq(Entries), NEW i \in 1..Len(f)
  PROVE  TurnOf(f[i]) \in Int /\ f[i] \in Int /\ f[i] <= TurnOf(f[i])
<1>1. f[i] \in Entries
  OBVIOUS
<1>2. /\ f[i] \in Int /\ TurnOf(f[i]) \in Turns /\ TurnOf(f[i]) > 0
      /\ (f[i] > 0 => TurnOf(f[i]) = f[i]) /\ (f[i] < 0 => TurnOf(f[i]) = -f[i])
  BY <1>1, EntryIs
<1>3. TurnOf(f[i]) \in Int
  BY <1>2 DEF Turns
<1> QED BY <1>2, <1>3

\* Two files are the same in less, and in what both are with a third; whichever is first.
LEMMA AgreeBack == ASSUME NEW f, NEW g, NEW a, Agree(f, g, a) PROVE Agree(g, f, a)
  BY DEF Agree

LEMMA HasLess ==
  ASSUME NEW f \in Seq(Entries), NEW g, NEW b \in Int, Has(f, g, b), NEW a \in Int, a <= b PROVE Has(f, g, a)
<1> SUFFICES ASSUME NEW i \in 1..Len(f), TurnOf(f[i]) <= a PROVE i <= Len(g) /\ g[i] = f[i]
  BY DEF Has
<1>1. TurnOf(f[i]) \in Int
  BY TurnsOf
<1>2. TurnOf(f[i]) <= b
  BY <1>1
<1> QED BY <1>2 DEF Has

LEMMA AgreeLess ==
  ASSUME NEW f \in Seq(Entries), NEW g \in Seq(Entries), NEW b \in Int, Agree(f, g, b), NEW a \in Int, a <= b
  PROVE  Agree(f, g, a)
  BY HasLess DEF Agree

LEMMA HasThrough ==
  ASSUME NEW f, NEW g \in Seq(Entries), NEW h, NEW a, Has(f, g, a), Has(g, h, a) PROVE Has(f, h, a)
<1> SUFFICES ASSUME NEW i \in 1..Len(f), TurnOf(f[i]) <= a PROVE i <= Len(h) /\ h[i] = f[i]
  BY DEF Has
<1>1. i <= Len(g) /\ g[i] = f[i] /\ Len(g) \in Nat
  BY DEF Has
<1>2. i \in 1..Len(g) /\ TurnOf(g[i]) <= a
  BY <1>1
<1> QED BY <1>1, <1>2 DEF Has

LEMMA AgreeThrough ==
  ASSUME NEW f \in Seq(Entries), NEW g \in Seq(Entries), NEW h \in Seq(Entries), NEW a, Agree(f, g, a), Agree(g, h, a)
  PROVE  Agree(f, h, a)
  BY HasThrough DEF Agree

\* What a file shares with another has all they are the same in.
LEMMA SharedHas ==
  ASSUME NEW f, NEW R, FileOK(f, R), f # NoFile, NEW g \in Seq(Entries), NEW a \in Int, Agree(f, g, a),
         NEW k \in Seq(Entries), StartOf(k, f),
         \A n \in Nat : n <= Len(f) /\ n <= Len(g) /\ (\A i \in 1..n : f[i] = g[i]) => n <= Len(k)
  PROVE  Agree(f, k, a)
<1>1. f \in Seq(Entries) /\ Len(f) \in Nat /\ Len(g) \in Nat /\ Len(k) \in Nat
  BY FileIs
<1>2. ASSUME NEW i \in 1..Len(f), TurnOf(f[i]) <= a PROVE i <= Len(k) /\ k[i] = f[i]
  <2>1. ASSUME NEW h \in 1..i PROVE h <= Len(g) /\ g[h] = f[h]
    <3>1. h \in 1..Len(f) /\ h <= i
      BY <1>1
    <3>2. TurnOf(f[h]) <= TurnOf(f[i]) /\ TurnOf(f[h]) \in Int /\ TurnOf(f[i]) \in Int
      BY <3>1, InTurn
    <3>3. TurnOf(f[h]) <= a
      BY <1>2, <3>2
    <3> QED BY <3>1, <3>3 DEF Agree, Has
  <2>2. i \in Nat /\ i <= Len(f) /\ i <= Len(g) /\ \A h \in 1..i : f[h] = g[h]
    BY <1>1, <2>1
  <2>3. i <= Len(k)
    BY <2>2
  <2> QED BY <1>1, <2>3 DEF StartOf
<1>3. Has(k, f, a)
  BY <1>1 DEF Has, StartOf
<1> QED BY <1>2, <1>3 DEF Agree, Has

\* A cut leaves what is before the message it is about.
LEMMA CutAgrees ==
  ASSUME NEW f, NEW R, FileOK(f, R), f # NoFile, NEW t \in 1..Len(f), f[t] > 0, NEW a \in Int, a < f[t],
         NEW kind, NEW g, g = DropMessage(f, t, kind)
  PROVE  Agree(f, g, a) /\ g \in Seq(Entries)
<1>1. f \in Seq(Entries) /\ Len(f) \in Nat /\ Lines(f) = f
  BY FileIs
<1>2. f[t] \in Entries /\ f[t] \in Int /\ TurnOf(f[t]) = f[t]
  BY <1>1, EntryIs
<1>3. \A i \in 1..Len(f) : t <= i => ~ (TurnOf(f[i]) <= a)
  BY <1>2, InTurn
<1>4. CASE kind = "remove"
  <2>1. g = RemoveAt(f, t)
    BY <1>4 DEF DropMessage
  <2>2. /\ Len(g) = Len(f) - 1 /\ g \in Seq(Entries)
        /\ \A i \in 1..Len(g) : g[i] = IF i < t THEN f[i] ELSE f[i + 1]
    BY SMTT(20), <1>1, <2>1, RemovedIs
  <2>3. \A i \in 1..Len(f) : i < t => i \in 1..Len(g) /\ g[i] = f[i]
    BY <1>1, <2>2
  <2>4. Has(f, g, a)
    BY <1>1, <1>3, <2>3 DEF Has
  <2>5. ASSUME NEW i \in 1..Len(g), TurnOf(g[i]) <= a PROVE i < t
    <3>1. ASSUME ~ (i < t) PROVE FALSE
      <4>1. i + 1 \in 1..Len(f) /\ t <= i + 1 /\ g[i] = f[i + 1]
        BY <1>1, <2>2, <3>1
      <4> QED BY <1>3, <2>5, <4>1
    <3> QED BY <3>1
  <2>6. Has(g, f, a)
    BY <1>1, <2>2, <2>5 DEF Has
  <2> QED BY <2>2, <2>4, <2>6 DEF Agree
<1>5. CASE kind # "remove"
  <2>1. g = SubSeq(f, 1, t - 1)
    BY <1>5 DEF DropMessage
  <2>2. Len(g) = t - 1 /\ g \in Seq(Entries) /\ \A i \in 1..Len(g) : g[i] = f[i]
    BY <1>1, <2>1
  <2>3. Has(f, g, a)
    BY <1>1, <1>3, <2>2 DEF Has
  <2>4. Has(g, f, a)
    BY <1>1, <2>2 DEF Has
  <2> QED BY <2>2, <2>3, <2>4 DEF Agree
<1> QED BY <1>4, <1>5

\* The first of some turns after one of them, or from the start.
LEMMA FirstAfter ==
  ASSUME NEW T, T \subseteq Turns, NEW a \in Nat, NEW b \in T, a < b
  PROVE  \E n \in T : a < n /\ n <= b /\ \A m \in T : m <= a \/ n <= m
<1> DEFINE U == {m \in T : a < m}
<1>1. \A m \in T : m \in Nat
  BY ConversationAssumption DEF Turns
<1>2. U \subseteq Nat /\ b \in U
  BY <1>1
<1>3. PICK n \in U : \A m \in U : n <= m
  <2> HIDE DEF U
  <2> QED BY <1>2, Least
<1>4. n \in T /\ a < n /\ n <= b
  BY <1>2, <1>3
<1>5. \A m \in T : m <= a \/ n <= m
  BY <1>1, <1>3
<1> QED BY <1>4, <1>5

\* A version a file starts like still stands where the file changes only after a later turn
\* that is shown.
LEMMA StillStands ==
  ASSUME NEW F, NEW R, FileOK(F, R), F # NoFile, NEW G \in Seq(Entries), NEW b \in Nat, Agree(F, G, b),
         NEW x, x.prefix \in Seq(Entries), x.anchor \in Nat, x.seq \in Nat,
         FileStands(x, F), StartOK(x, R), x.anchor < b,
         NEW T, T \subseteq Turns, T \cap R \subseteq InFile(F), b \in T, Ahead(x, T, R)
  PROVE  FileStands(x, G)
<1> DEFINE p == x.prefix
<1>1. F \in Seq(Entries) /\ Lines(F) = F /\ Len(F) \in Nat /\ Len(G) \in Nat /\ Len(p) \in Nat
  BY FileIs
<1>2. p # NoFile /\ G # NoFile
  BY SeqIsFile
<1>3. StartOf(p, F)
  BY <1>1, <1>2, PrefixIs DEF FileStands
<1>4. PICK n \in T : x.anchor < n /\ n <= b /\ \A m \in T : m <= x.anchor \/ n <= m
  BY FirstAfter
<1>5. n \in Int /\ \A i \in 1..Len(p) : p[i] \in Int /\ TurnOf(p[i]) \in Int /\ p[i] = F[i] /\ i \in 1..Len(F)
  <2>1. n \in Int
    BY DEF Turns
  <2>2. \A i \in 1..Len(p) : p[i] \in Int /\ TurnOf(p[i]) \in Int
    BY TurnsOf
  <2> QED BY <1>1, <1>3, <2>1, <2>2 DEF StartOf
<1>6. ASSUME NEW i \in 1..Len(p) PROVE TurnOf(p[i]) <= b
  <2>1. CASE n \in R
    <3>1. n \in InFile(F)
      BY <2>1
    <3>2. PICK j \in 1..Len(F) : F[j] = n
      BY <1>1, <3>1, InFileIs
    <3>3. ~ (j <= i)
      <4> SUFFICES ASSUME j <= i PROVE FALSE
        OBVIOUS
      <4>1. j \in 1..Len(p)
        BY <1>1, <3>2
      <4>2. p[j] = n /\ p[j] <= x.anchor
        BY <1>5, <3>2, <4>1 DEF StartOK
      <4> QED BY <1>4, <1>5, <4>2
    <3>4. i \in 1..Len(F) /\ i <= j
      BY <1>1, <1>5, <3>2, <3>3
    <3>5. TurnOf(F[i]) <= TurnOf(F[j]) /\ TurnOf(F[i]) \in Int
      BY <3>2, <3>4, InTurn
    <3>6. TurnOf(F[j]) = n
      BY <1>5, <3>2, ConversationAssumption DEF TurnOf, Turns
    <3> QED BY <1>4, <1>5, <3>5, <3>6
  <2>2. CASE n \notin R
    <3>1. x.seq < n
      BY <1>4, <2>2 DEF Ahead
    <3>2. TurnOf(p[i]) <= x.seq
      BY DEF StartOK
    <3> QED BY SMTT(20), <1>4, <1>5, <3>1, <3>2
  <2> QED BY <2>1, <2>2
<1>7. \A i \in 1..Len(p) : i <= Len(G) /\ p[i] = G[i]
  BY <1>5, <1>6 DEF Agree, Has
<1>8. StartOf(p, G)
  <2>1. Len(p) = 0 \/ Len(p) \in 1..Len(p)
    BY <1>1
  <2>2. Len(p) <= Len(G)
    BY <1>1, <1>7, <2>1
  <2> QED BY <1>7, <2>2 DEF StartOf
<1> HIDE DEF p
<1>9. IsPrefix(p, G)
  BY <1>8, PrefixIs DEF p
<1> QED BY <1>2, <1>9 DEF FileStands, p

\* A file that starts like as many leads to as many.
LEMMA StillLeads ==
  ASSUME NEW F, NEW G, NEW W, NEW v, LeadsTo(F, W, v), \A x \in W : FileStands(x, F) => FileStands(x, G)
  PROVE  LeadsTo(G, W, v)
<1> SUFFICES ASSUME NEW S \in SUBSET W, Closed(S, G, W) PROVE v \in S
  BY DEF LeadsTo
<1>1. Closed(S, F, W)
  BY DEF Closed
<1> QED BY <1>1 DEF LeadsTo

\* What the file led to, the version that keeps it leads to, where that stands itself.
LEMMA KeptLeads ==
  ASSUME NEW F, NEW W, NEW v, LeadsTo(F, W, v), NEW k, FileFor(k) = F, NEW G, FileStands(k, G)
  PROVE  LeadsTo(G, W \cup {k}, v) /\ LeadsTo(G, W \cup {k}, k)
<1> SUFFICES ASSUME NEW S \in SUBSET (W \cup {k}), Closed(S, G, W \cup {k}) PROVE v \in S /\ k \in S
  BY DEF LeadsTo
<1>1. k \in S
  BY DEF Closed
<1>2. Closed(S \cap W, F, W)
  BY <1>1 DEF Closed
<1> QED BY <1>1, <1>2 DEF LeadsTo

\* And where another takes its place, whatever that led to its file leads to.
LEMMA SwitchLeads ==
  ASSUME NEW F, NEW W, NEW v, LeadsTo(F, W, v), NEW k, FileFor(k) = F, NEW w \in W, v # w, FileStands(k, FileFor(w))
  PROVE  LeadsTo(FileFor(w), (W \ {w}) \cup {k}, v)
<1> SUFFICES ASSUME NEW S \in SUBSET ((W \ {w}) \cup {k}), Closed(S, FileFor(w), (W \ {w}) \cup {k}) PROVE v \in S
  BY DEF LeadsTo
<1>1. k \in S
  BY DEF Closed
<1>2. Closed((S \cap W) \cup {w}, F, W)
  <2> SUFFICES ASSUME NEW x \in W, x # w,
                      FileStands(x, F) \/ (\E u \in (S \cap W) \cup {w} : FileStands(x, FileFor(u)))
               PROVE  x \in S
    BY DEF Closed
  <2>1. x \in (W \ {w}) \cup {k}
    OBVIOUS
  <2>2. FileStands(x, FileFor(w)) \/ \E u \in S : FileStands(x, FileFor(u))
    BY <1>1
  <2> QED BY <2>1, <2>2 DEF Closed
<1>3. (S \cap W) \cup {w} \in SUBSET W
  OBVIOUS
<1> QED BY <1>2, <1>3 DEF LeadsTo

\* What comes first after the anchor is the same.
LEMMA AheadUpTo ==
  ASSUME NEW v, v.anchor \in Int, NEW T, T \subseteq Turns, NEW R, Ahead(v, T, R), NEW b \in T, v.anchor < b,
         NEW U, U \subseteq Turns, \A n \in T \cup U : n <= b => (n \in T <=> n \in U)
  PROVE  Ahead(v, U, R)
<1>1. \A n \in T \cup U : n \in Int
  BY DEF Turns
<1> SUFFICES ASSUME NEW t \in U \ R, v.anchor < t, \A m \in U : m <= v.anchor \/ t <= m PROVE v.seq < t
  BY DEF Ahead
<1>2. t <= b
  BY <1>1
<1>3. t \in T \ R
  BY <1>2
<1>4. \A m \in T : m <= v.anchor \/ t <= m
  BY <1>1, <1>2
<1> QED BY <1>3, <1>4 DEF Ahead

LEMMA AheadFrom ==
  ASSUME NEW v, NEW T, NEW R, Ahead(v, T, R), NEW U, \A n \in T \cup U : n <= v.anchor \/ (n \in T <=> n \in U),
         v.anchor \in Int, \A n \in U : n \in Int
  PROVE  Ahead(v, U, R)
  BY DEF Ahead

\* What a version is made of, where there was a file.
LEMMA VersionHas ==
  ASSUME NEW v, NEW R, VersionOK(v, R)
  PROVE  /\ v.anchor \in Nat /\ v.rows \subseteq Turns /\ v.anchor \notin v.rows /\ v.anchor \in Int
         /\ v.prefix # NoFile => /\ v.prefix \in Seq(Entries) /\ FileFor(v) \in Seq(Entries) /\ FileFor(v) # NoFile
                                 /\ (StartOK(v, R) => v.seq \in Nat /\ v.seq \in Turns)
<1>1. v.prefix # NoFile => v.prefix \in Seq(Entries) /\ FileFor(v) \in Seq(Entries) /\ FileFor(v) # NoFile
  <2>1. v.prefix # NoFile => FileFor(v) = v.prefix \o v.tail /\ v.prefix \in Seq(Entries) /\ v.tail \in Seq(Entries)
    BY FileForIs DEF VersionOK
  <2>2. v.prefix # NoFile => v.prefix \o v.tail \in Seq(Entries)
    BY <2>1, ConcatProperties
  <2> QED BY <2>1, <2>2, SeqIsFile
<1>2. v.anchor \notin v.rows /\ v.anchor \in Nat /\ v.rows \subseteq Turns
  BY DEF VersionOK
<1>3. StartOK(v, R) => v.seq \in Turns /\ v.seq \in Nat
  BY <1>2, ConversationAssumption DEF StartOK, Turns
<1> QED BY <1>1, <1>2, <1>3

\* What a version goes on from stays so where the file changes only after a later turn
\* that is shown, and what is shown too.
LEMMA Unmoved ==
  ASSUME NEW R, NEW F, FileOK(F, R), NEW T, T \subseteq Turns, T \cap R \subseteq InFile(F),
         NEW V, \A x \in V : VersionOK(x, R), AllGoOn(F, T, V, R),
         NEW G \in Seq(Entries), NEW b \in T, Agree(F, G, b),
         NEW v \in V, v.prefix # NoFile, v.anchor \in {0} \cup T, v.anchor < b,
         NEW U, U \subseteq Turns, \A n \in T \cup U : n <= b => (n \in T <=> n \in U),
         NEW W, Group(W, v.anchor) = Group(V, v.anchor)
  PROVE  GoesOn(v, G, U, W, R)
<1>1. GoesOn(v, F, T, V, R)
  BY DEF AllGoOn
<1>2. F # NoFile /\ F \in Seq(Entries) /\ G # NoFile /\ b \in Nat /\ b \in Int
  <2>1. F # NoFile
    BY <1>1 DEF GoesOn
  <2>2. b \in Nat
    BY ConversationAssumption DEF Turns
  <2> QED BY <2>1, <2>2, FileIs, SeqIsFile
<1>3. v.anchor \in Int /\ v.prefix \in Seq(Entries)
  BY VersionHas
<1>4. ASSUME NEW x \in Group(V, v.anchor), FileStands(x, F) PROVE FileStands(x, G)
  <2>1. x \in V /\ x.anchor = v.anchor /\ VersionOK(x, R) /\ x.prefix # NoFile
    BY <1>2, <1>4 DEF Group, FileStands
  <2>2. StartOK(x, R) /\ Ahead(x, T, R)
    BY <2>1 DEF AllGoOn, GoesOn
  <2>3. x.prefix \in Seq(Entries) /\ x.anchor \in Nat /\ x.seq \in Nat
    BY <2>1, <2>2, VersionHas
  <2> QED BY <1>2, <1>4, <2>1, <2>2, <2>3, StillStands
<1>5. LeadsTo(G, Group(V, v.anchor), v)
  BY <1>1, <1>4, StillLeads DEF GoesOn
<1>6. Agree(G, v.prefix, v.anchor)
  <2>1. Agree(F, G, v.anchor)
    BY <1>2, <1>3, AgreeLess
  <2>2. Agree(G, F, v.anchor)
    BY <2>1, AgreeBack
  <2> QED BY <1>1, <1>2, <1>3, <2>2, AgreeThrough DEF GoesOn
<1>7. Ahead(v, U, R)
  BY <1>1, <1>3, AheadUpTo DEF GoesOn
<1> QED BY <1>2, <1>5, <1>6, <1>7 DEF GoesOn

\* And where the file is the same, and what comes after its anchor.
LEMMA Elsewhere ==
  ASSUME NEW v, NEW F, NEW T, NEW V, NEW R, GoesOn(v, F, T, V, R), v.anchor \in Int,
         NEW U, U \subseteq Turns, \A n \in T \cup U : n <= v.anchor \/ (n \in T <=> n \in U),
         NEW W, Group(W, v.anchor) = Group(V, v.anchor)
  PROVE  GoesOn(v, F, U, W, R)
<1>1. \A n \in U : n \in Int
  BY DEF Turns
<1>2. Ahead(v, U, R)
  BY <1>1, AheadFrom DEF GoesOn
<1> QED BY <1>2 DEF GoesOn

\* More turns may have got to pi.
LEMMA MoreReached ==
  ASSUME NEW F, NEW T, NEW V, NEW R, AllGoOn(F, T, V, R), NEW Q, R \subseteq Q PROVE AllGoOn(F, T, V, Q)
<1>1. \A v : StartOK(v, R) => StartOK(v, Q)
  BY DEF StartOK
<1>2. \A v, G, S : GoesOn(v, G, S, V, R) => GoesOn(v, G, S, V, Q)
  BY DEF GoesOn, Ahead
<1> QED BY <1>1, <1>2 DEF AllGoOn

\* What pi writes comes after all that was there.
LEMMA AgreeAppended ==
  ASSUME NEW F \in Seq(Entries), NEW n \in Turns, NEW a \in Int, a < n, NEW G, G = F \o <<n>> \/ G = F \o <<-n, n>>
  PROVE  G \in Seq(Entries) /\ StartOf(F, G) /\ Agree(F, G, a)
<1>1. n \in Entries /\ -n \in Entries /\ n \in Int /\ TurnOf(n) = n /\ TurnOf(-n) = n
  BY ConversationAssumption DEF Entries, Turns, TurnOf
<1>2. PICK e : G = F \o e /\ e \in Seq(Entries) /\ \A i \in 1..Len(e) : TurnOf(e[i]) = n
  <2>1. <<n>> \in Seq(Entries) /\ \A i \in 1..Len(<<n>>) : TurnOf(<<n>>[i]) = n
    BY <1>1
  <2>2. <<-n, n>> \in Seq(Entries) /\ \A i \in 1..Len(<<-n, n>>) : TurnOf(<<-n, n>>[i]) = n
    BY <1>1
  <2> QED BY <2>1, <2>2
<1>3. F \o e \in Seq(Entries) /\ Len(F \o e) = Len(F) + Len(e)
      /\ \A i \in 1..(Len(F) + Len(e)) : (F \o e)[i] = IF i <= Len(F) THEN F[i] ELSE e[i - Len(F)]
  BY <1>2, ConcatProperties
<1>4. G \in Seq(Entries) /\ Len(G) = Len(F) + Len(e) /\ Len(F) \in Nat /\ Len(e) \in Nat
      /\ \A i \in 1..Len(G) : G[i] = IF i <= Len(F) THEN F[i] ELSE e[i - Len(F)]
  BY <1>2, <1>3
<1>5. StartOf(F, G)
  BY <1>4 DEF StartOf
<1>6. ASSUME NEW i \in 1..Len(G), TurnOf(G[i]) <= a PROVE i <= Len(F)
  <2> SUFFICES ASSUME ~ (i <= Len(F)) PROVE FALSE
    OBVIOUS
  <2>1. i - Len(F) \in 1..Len(e) /\ G[i] = e[i - Len(F)]
    BY <1>4
  <2>2. TurnOf(G[i]) = n
    BY <1>2, <2>1
  <2> QED BY <1>1, <1>6, <2>2
<1>7. Has(G, F, a)
  BY <1>4, <1>6 DEF Has
<1>8. Has(F, G, a)
  BY <1>4, <1>5 DEF Has, StartOf
<1> QED BY <1>4, <1>5, <1>7, <1>8 DEF Agree

\* So what goes on from before it still does.
LEMMA WrittenGoOn ==
  ASSUME NEW F, NEW R, FileOK(F, R), NEW T, NEW V, \A x \in V : VersionOK(x, R), AllGoOn(F, T, V, R),
         NEW n \in Turns, \A x \in V : x.anchor < n, NEW G, G = Lines(F) \o <<n>> \/ G = Lines(F) \o <<-n, n>>
  PROVE  AllGoOn(G, T, V, R \cup {n})
<1>1. ASSUME NEW v \in V, v.prefix # NoFile, GoesOn(v, F, T, V, R) PROVE GoesOn(v, G, T, V, R)
  <2>1. F # NoFile /\ F \in Seq(Entries) /\ Lines(F) = F
    BY <1>1, FileIs DEF GoesOn
  <2>2. v.anchor \in Int /\ v.prefix \in Seq(Entries) /\ v.anchor < n
    BY <1>1, VersionHas
  <2>3. G \in Seq(Entries) /\ StartOf(F, G) /\ Agree(F, G, v.anchor)
    BY <2>1, <2>2, AgreeAppended
  <2>4. G # NoFile
    BY <2>3, SeqIsFile
  <2>5. ASSUME NEW x \in Group(V, v.anchor), FileStands(x, F) PROVE FileStands(x, G)
    <3>1. x.prefix # NoFile /\ x.prefix \in Seq(Entries)
      BY <2>1, <2>5, VersionHas DEF Group, FileStands
    <3>2. StartOf(x.prefix, F)
      BY <2>1, <2>5, <3>1, PrefixIs DEF FileStands
    <3>3. StartOf(x.prefix, G)
      <4>1. Len(x.prefix) \in Nat /\ Len(F) \in Nat /\ Len(G) \in Nat
        BY <2>1, <2>3, <3>1
      <4> QED BY <2>3, <3>2, <4>1 DEF StartOf
    <3>4. IsPrefix(x.prefix, G)
      BY <2>3, <3>1, <3>3, PrefixIs
    <3> QED BY <2>4, <3>1, <3>4 DEF FileStands
  <2>6. LeadsTo(G, Group(V, v.anchor), v)
    BY <1>1, <2>5, StillLeads DEF GoesOn
  <2>7. Agree(G, F, v.anchor)
    BY <2>3, AgreeBack
  <2>8. Agree(G, v.prefix, v.anchor)
    BY <1>1, <2>1, <2>2, <2>3, <2>7, AgreeThrough DEF GoesOn
  <2> QED BY <1>1, <2>4, <2>6, <2>8 DEF GoesOn
<1>2. AllGoOn(G, T, V, R)
  BY <1>1 DEF AllGoOn
<1> QED BY <1>2, MoreReached

\* A message that was sent comes after all there is.
LEMMA NewTurn ==
  ASSUME NEW F, NEW T, T \subseteq Turns, NEW V, NEW R, AllGoOn(F, T, V, R),
         NEW n \in Int, \A m \in T : m < n, \A v \in V : v.anchor < n /\ v.rows \subseteq Turns /\ \A m \in v.rows : m < n
  PROVE  AllGoOn(F, T \cup {n}, V, R)
<1> SUFFICES ASSUME NEW v \in V, v.prefix # NoFile, v.anchor \in {0} \cup T \cup {n}
             PROVE  GoesOn(v, F, T \cup {n}, V, R)
  BY DEF AllGoOn
<1>1. v.anchor \in {0} \cup T
  BY DEF Turns
<1>2. GoesOn(v, F, T, V, R) /\ StartOK(v, R)
  BY <1>1 DEF AllGoOn
<1>3. v.seq < n
  BY <1>2 DEF StartOK
<1>4. Ahead(v, T \cup {n}, R)
  BY <1>2, <1>3 DEF Ahead, GoesOn
<1> QED BY <1>2, <1>4 DEF GoesOn

\* A version is dropped where it goes on from a message that is left out, or from one inside
\* a version that is dropped, and for no other reason.
LEMMA DroppedIs ==
  ASSUME NEW A, NEW v \in versions
  PROVE  v \in Dropped(A) <=> v.anchor \in A \/ \E w \in Dropped(A) : v.anchor \in w.rows
<1> DEFINE D == Dropped(A)
           S == {x \in versions : x.anchor \in A \/ \E w \in D : x.anchor \in w.rows}
<1>1. \A x \in S : x \in D
  <2>1. \A x \in versions : x.anchor \in A => x \in D
    BY DroppedAt
  <2>2. ASSUME NEW x \in versions, NEW w \in D, x.anchor \in w.rows PROVE x \in D
    BY <2>2 DEF Dropped
  <2> QED BY <2>1, <2>2
<1>2. \A u \in versions : u.anchor \in A \/ (\E w \in S : u.anchor \in w.rows) => u \in S
  BY <1>1
<1>3. S \in SUBSET versions
  OBVIOUS
<1>4. \A x \in D : x \in S
  <2> HIDE DEF S
  <2> QED BY <1>2, <1>3 DEF Dropped
<1> QED BY <1>1, <1>4

\* The versions that are left, where one stays only with all others that go on from there.
Whole(W, V) == W \subseteq V /\ \A u, v \in V : u.anchor = v.anchor => (u \in W <=> v \in W)

LEMMA WholeGroup == ASSUME NEW W, NEW V, Whole(W, V), NEW v \in W PROVE Group(W, v.anchor) = Group(V, v.anchor)
  BY DEF Whole, Group

LEMMA SameGroup ==
  ASSUME NEW v, NEW F, NEW T, NEW V, NEW R, GoesOn(v, F, T, V, R), NEW W, Group(W, v.anchor) = Group(V, v.anchor)
  PROVE  GoesOn(v, F, T, W, R)
  BY DEF GoesOn

\* One message is taken out, with the versions of the one before it, and of those after.
LEMMA RemoveGoOn ==
  ASSUME NEW R, NEW F, FileOK(F, R), NEW T, T \subseteq Turns, T \cap R \subseteq InFile(F),
         NEW V, \A x \in V : VersionOK(x, R), AllGoOn(F, T, V, R),
         NEW seq \in T, NEW G,
         F = NoFile \/ \E t \in 1..Len(F) : F[t] = seq /\ G = DropMessage(F, t, "remove"),
         NEW W, Whole(W, V), NEW b, b \in {0} \cup T, b < seq, \A v \in W : v.anchor \in {0} \cup T => v.anchor < b
  PROVE  AllGoOn(G, T \ {seq}, W, R)
<1>1. W \subseteq V
  BY DEF Whole
<1>2. ASSUME NEW v \in W, v.prefix # NoFile, v.anchor \in {0} \cup (T \ {seq}) PROVE GoesOn(v, G, T \ {seq}, W, R)
  <2>1. v \in V /\ v.anchor \in {0} \cup T /\ v.anchor < b
    BY <1>1, <1>2
  <2>2. F # NoFile
    BY <1>2, <2>1 DEF AllGoOn, GoesOn
  <2>3. v.anchor \in Nat /\ seq \in Int /\ seq > 0 /\ b \in T /\ b \in Int
    <3>1. v.anchor \in Nat
      BY <2>1, VersionHas
    <3>2. seq \in Int /\ seq > 0
      BY ConversationAssumption DEF Turns
    <3>3. b # 0
      BY <2>1, <3>1
    <3> QED BY <3>1, <3>2, <3>3, ConversationAssumption DEF Turns
  <2>4. PICK t \in 1..Len(F) : F[t] = seq /\ G = DropMessage(F, t, "remove")
    BY <2>2
  <2>5. Agree(F, G, b) /\ G \in Seq(Entries)
    BY <2>2, <2>3, <2>4, CutAgrees
  <2>6. Group(W, v.anchor) = Group(V, v.anchor)
    BY <1>2, WholeGroup
  <2>7. \A n \in T \cup (T \ {seq}) : n <= b => (n \in T <=> n \in T \ {seq})
    BY <2>3
  <2> QED BY <1>2, <2>1, <2>3, <2>5, <2>6, <2>7, Unmoved
<1>3. ASSUME NEW v \in W, v.prefix # NoFile, NEW u \in W, v.anchor \in u.rows PROVE GoesOn(v, FileFor(u), u.rows, W, R)
  <2>1. GoesOn(v, FileFor(u), u.rows, V, R)
    BY <1>1, <1>3 DEF AllGoOn
  <2>2. Group(W, v.anchor) = Group(V, v.anchor)
    BY <1>3, WholeGroup
  <2> QED BY <2>1, <2>2, SameGroup
<1> QED BY <1>1, <1>2, <1>3 DEF AllGoOn

\* A version that stands by itself comes back, where nothing after its anchor is shown.
LEMMA StandsAtOnce ==
  ASSUME NEW k, NEW G, G # NoFile, NEW V, k \in V, FileStands(k, G), Agree(G, k.prefix, k.anchor),
         NEW T, NEW R, Ahead(k, T, R)
  PROVE  GoesOn(k, G, T, V, R)
  BY DEF GoesOn, LeadsTo, Closed, Group

\* What is kept with the start of its file, up to its first message, has a proper start.
LEMMA KeptStart ==
  ASSUME NEW R, NEW F, FileOK(F, R), F # NoFile, NEW t \in 1..Len(F), F[t] > 0,
         NEW k, VersionOK(k, R), FileFor(k) = F, k.seq = F[t], k.seq \in k.rows \cap R, \A n \in k.rows : k.seq <= n,
         NEW p \in Seq(Entries), k.prefix = p, StartOf(p, F), Len(p) < t, Agree(F, p, k.anchor),
         \A n \in InFile(F) : n <= k.anchor \/ n \in k.rows
  PROVE  StartOK(k, R)
<1>1. F \in Seq(Entries) /\ Lines(F) = F /\ Len(F) \in Nat /\ Len(p) \in Nat /\ k.anchor \in Nat
  BY FileIs DEF VersionOK
<1>2. F[t] \in Int /\ TurnOf(F[t]) = F[t]
  BY <1>1, EntryIs
<1>3. ASSUME NEW i \in 1..Len(p) PROVE p[i] <= k.anchor /\ TurnOf(p[i]) <= k.seq
  <2>1. p[i] = F[i] /\ i \in 1..Len(F) /\ i < t
    BY <1>1 DEF StartOf
  <2>2. TurnOf(F[i]) <= k.seq
    BY <1>2, <2>1, InTurn
  <2>3. F[i] \in Int
    BY <1>1, <2>1, EntryIs
  <2>4. CASE F[i] > 0
    <3>1. F[i] < k.seq
      BY <1>1, <2>1, <2>4, TurnsAscend
    <3>2. F[i] \in InFile(F)
      BY <1>1, <2>1, <2>4, InFileIs
    <3>3. F[i] \notin k.rows
      BY <1>2, <2>3, <3>1
    <3> QED BY <2>1, <2>2, <3>2, <3>3
  <2> QED BY <1>1, <2>1, <2>2, <2>3, <2>4
<1> QED BY <1>3 DEF StartOK

\* All from a message on is cut off and kept.
LEMMA ReplaceGoOn ==
  ASSUME NEW R, NEW F, FileOK(F, R), F # NoFile, NEW T, T \subseteq Turns, T \cap R \subseteq InFile(F), InFile(F) \subseteq T,
         NEW V, \A x \in V : VersionOK(x, R) /\ x.rows \cap T = {}, AllGoOn(F, T, V, R),
         NEW k, VersionOK(k, R), FileFor(k) = F, EndsIn(T, k), k.seq \in k.rows \cap R, \A n \in k.rows : k.seq <= n,
         NEW t \in 1..Len(F), F[t] = k.seq, NEW G, G = DropMessage(F, t, "replace"), k.prefix = G
  PROVE  AllGoOn(G, T \ k.rows, V \cup {k}, R)
<1> DEFINE a == k.anchor
           U == T \ k.rows
           W == V \cup {k}
<1>1. F \in Seq(Entries) /\ Len(F) \in Nat /\ a \in Nat /\ a \in Int /\ F[t] > 0 /\ F[t] \in Int /\ a < F[t]
  BY FileIs, ConversationAssumption DEF VersionOK, Turns
<1>2. Agree(F, G, a) /\ Agree(G, F, a) /\ G \in Seq(Entries) /\ G # NoFile
  <2>1. Agree(F, G, a) /\ G \in Seq(Entries)
    BY <1>1, CutAgrees
  <2> QED BY <2>1, AgreeBack, SeqIsFile
<1>3. StartOf(G, F) /\ Len(G) < t
  <2>1. G = SubSeq(F, 1, t - 1)
    BY DEF DropMessage
  <2>2. Len(G) = t - 1 /\ \A i \in 1..Len(G) : G[i] = F[i]
    BY <1>1, <2>1
  <2> QED BY <1>1, <2>2 DEF StartOf
<1>4. U \subseteq T /\ a \in {0} \cup U /\ (\A n \in T : n <= a \/ n \in k.rows) /\ \A n \in k.rows : a < n /\ n \in T /\ n \in Int
  BY DEF EndsIn, VersionOK, Turns
<1>5. StartOK(k, R)
  BY <1>1, <1>2, <1>3, <1>4, KeptStart
<1>6. \A v : v.anchor = a => Ahead(v, U, R)
  BY <1>1, <1>4 DEF Ahead, Turns
<1>7. FileStands(k, G)
  <2>1. StartOf(G, G)
    BY <1>2 DEF StartOf
  <2> QED BY <1>2, <2>1, PrefixIs DEF FileStands
<1>8. GoesOn(k, G, U, W, R)
  <2>1. Agree(G, G, a)
    BY <1>1, <1>2, AgreeThrough
  <2> QED BY <1>2, <1>6, <1>7, <2>1, StandsAtOnce
<1>9. ASSUME NEW v \in V, v.anchor # a PROVE Group(W, v.anchor) = Group(V, v.anchor)
  BY <1>9 DEF Group
<1>10. ASSUME NEW v \in V, v.prefix # NoFile, v.anchor \in {0} \cup U PROVE GoesOn(v, G, U, W, R)
  <2>1. GoesOn(v, F, T, V, R) /\ v.anchor \in {0} \cup T /\ v.anchor <= a
    <3>1. v.anchor \in {0} \cup T /\ v.anchor <= a
      BY <1>1, <1>4, <1>10
    <3> QED BY <1>10, <3>1 DEF AllGoOn
  <2>2. CASE v.anchor = a
    <3>1. LeadsTo(G, Group(V, a) \cup {k}, v)
      BY <1>7, <2>1, <2>2, KeptLeads DEF GoesOn
    <3>2. Group(W, v.anchor) = Group(V, a) \cup {k}
      BY <2>2 DEF Group
    <3>3. v.prefix \in Seq(Entries)
      BY <1>10, VersionHas
    <3>4. Agree(G, v.prefix, a)
      BY <1>1, <1>2, <2>1, <2>2, <3>3, AgreeThrough DEF GoesOn
    <3> QED BY <1>2, <1>6, <2>2, <3>1, <3>2, <3>4 DEF GoesOn
  <2>3. CASE v.anchor # a
    <3>1. v.anchor \in Nat
      BY VersionHas
    <3>2. v.anchor < a /\ a \in T
      BY <1>1, <1>4, <2>1, <2>3, <3>1
    <3>3. Group(W, v.anchor) = Group(V, v.anchor)
      BY <1>9, <2>3
    <3>4. \A n \in T \cup U : n <= a => (n \in T <=> n \in U)
      BY <1>1, <1>4
    <3> HIDE DEF W, U, a
    <3>5. U \subseteq Turns
      BY <1>4
    <3> QED BY <1>2, <1>10, <2>1, <3>2, <3>3, <3>4, <3>5, Unmoved
  <2> QED BY <2>2, <2>3
<1>11. ASSUME NEW v \in W, v.prefix # NoFile, NEW u \in W, v.anchor \in u.rows PROVE GoesOn(v, FileFor(u), u.rows, W, R)
  <2>1. CASE u = k
    <3>1. v # k /\ v \in V /\ v.anchor # a /\ v.anchor \in T /\ a < v.anchor /\ v.anchor \in Int
      BY <1>1, <1>4, <1>11, <2>1
    <3>2. GoesOn(v, F, T, V, R)
      BY <1>11, <3>1 DEF AllGoOn
    <3>3. Group(W, v.anchor) = Group(V, v.anchor)
      BY <1>9, <3>1
    <3>4. \A n \in T \cup k.rows : n <= v.anchor \/ (n \in T <=> n \in k.rows)
      BY <1>1, <1>4, <3>1 DEF Turns
    <3>5. k.rows \subseteq Turns
      BY DEF VersionOK
    <3> QED BY <2>1, <3>1, <3>2, <3>3, <3>4, <3>5, Elsewhere
  <2>2. CASE u # k
    <3>1. u \in V /\ 0 \notin u.rows /\ u.rows \cap T = {}
      BY <2>2, ConversationAssumption DEF VersionOK, Turns
    <3>2. v.anchor # a /\ v # k /\ v \in V
      BY <1>4, <1>11, <3>1
    <3>3. GoesOn(v, FileFor(u), u.rows, V, R)
      BY <1>11, <3>1, <3>2 DEF AllGoOn
    <3>4. Group(W, v.anchor) = Group(V, v.anchor)
      BY <1>9, <3>2
    <3> QED BY <3>3, <3>4, SameGroup
  <2> QED BY <2>1, <2>2
<1> HIDE DEF U
<1>12. \A v \in V : v.prefix # NoFile => StartOK(v, R)
  BY DEF AllGoOn
<1> QED BY <1>5, <1>8, <1>10, <1>11, <1>12 DEF AllGoOn, U

\* A version takes the place of what was after its anchor, which is kept with the start
\* that the two files share.
LEMMA SwitchGoOn ==
  ASSUME NEW R, NEW F, FileOK(F, R), F # NoFile,
         NEW w, NEW k, VersionOK(w, R), VersionOK(k, R), FileFor(k) = F, w.anchor = k.anchor,
         NEW X, X \subseteq Turns, EndsIn(X, w), k.rows \cap X = {}, NEW T, T = (X \ w.rows) \cup k.rows,
         T \cap R \subseteq InFile(F), InFile(F) \subseteq T, InFile(FileFor(w)) \subseteq X,
         NEW Y, NEW V, V = (Y \cup {w}) \ {k}, w \notin Y, k \in Y, w.prefix # NoFile,
         \A x \in Y : VersionOK(x, R) /\ x.rows \cap X = {}, AllGoOn(F, T, V, R),
         k.seq \in k.rows \cap R, \A n \in k.rows : k.seq <= n,
         NEW t \in 1..Len(F), F[t] = k.seq, k.prefix = LongestCommonPrefix({F, FileFor(w)})
  PROVE  AllGoOn(FileFor(w), X, Y, R)
<1> DEFINE a == k.anchor
           G == FileFor(w)
           p == k.prefix
<1>1. F \in Seq(Entries) /\ Lines(F) = F /\ Len(F) \in Nat /\ a \in Nat /\ a \in Int /\ F[t] > 0 /\ F[t] \in Int /\ F[t] \in Turns
  BY FileIs, ConversationAssumption DEF VersionOK, Turns
<1>2. w.prefix \in Seq(Entries) /\ G \in Seq(Entries) /\ G # NoFile /\ Lines(G) = G /\ FileOK(G, R) /\ Len(G) \in Nat
  BY VersionHas, SeqIsFile DEF VersionOK
<1>3. w \in V /\ k \notin V /\ (\A x \in V : VersionOK(x, R)) /\ T \subseteq Turns /\ \A x \in Y : x # k => x \in V
  BY DEF VersionOK
<1>4. /\ a \in {0} \cup (X \ w.rows) /\ a \in {0} \cup T /\ \A n \in X : n \in Int /\ (n <= a \/ n \in w.rows)
      /\ \A n \in w.rows : a < n /\ n \in X /\ n \in Int
      /\ \A n \in k.rows : a < n /\ n \in T /\ n \notin X /\ n \in Int
      /\ \A n \in T : n <= a \/ n \in k.rows
  BY DEF EndsIn, VersionOK, Turns
<1>5. GoesOn(w, F, T, V, R) /\ StartOK(w, R)
  BY <1>3, <1>4 DEF AllGoOn
<1>6. Agree(F, G, a)
  <2>1. Agree(F, w.prefix, a) /\ Agree(w.prefix, G, a)
    BY <1>5, AgreeBack DEF GoesOn, StartOK
  <2> QED BY <1>1, <1>2, <2>1, AgreeThrough
<1> HIDE DEF G
<1>7. /\ p \in Seq(Entries) /\ StartOf(p, F) /\ StartOf(p, G)
      /\ \A n \in Nat : n <= Len(F) /\ n <= Len(G) /\ (\A i \in 1..n : F[i] = G[i]) => n <= Len(p)
  <2>1. p = LongestCommonPrefix({F, G})
    BY DEF G
  <2> HIDE DEF p
  <2> QED BY <1>1, <1>2, <2>1, SharedIs
<1> HIDE DEF p
<1>8. p # NoFile /\ Len(p) \in Nat /\ Agree(F, p, a) /\ Agree(G, p, a) /\ FileStands(k, G)
  <2>1. Agree(F, p, a)
    BY <1>1, <1>2, <1>6, <1>7, SharedHas
  <2>2. Agree(G, p, a)
    BY <1>1, <1>2, <1>6, <1>7, <2>1, AgreeBack, AgreeThrough
  <2>3. p # NoFile /\ IsPrefix(p, G)
    BY <1>2, <1>7, PrefixIs, SeqIsFile
  <2>4. FileStands(k, G)
    BY <1>2, <2>3 DEF FileStands, p
  <2>5. Len(p) \in Nat
    BY <1>7
  <2> QED BY <2>1, <2>2, <2>3, <2>4, <2>5
<1>9. Len(p) < t
  <2> SUFFICES ASSUME ~ (Len(p) < t) PROVE FALSE
    OBVIOUS
  <2>1. t \in 1..Len(p)
    BY <1>1, <1>8
  <2>2. t \in 1..Len(G) /\ G[t] = F[t]
    BY <1>1, <1>2, <1>7, <2>1 DEF StartOf
  <2>3. F[t] \in InFile(G)
    BY <1>1, <1>2, <2>2, InFileIs
  <2> QED BY <1>4, <2>3 DEF G
<1>10. StartOK(k, R)
  <2>1. \A n \in InFile(F) : n <= k.anchor \/ n \in k.rows
    BY <1>4
  <2>2. k.prefix = p
    BY DEF p
  <2> QED BY <1>1, <1>7, <1>8, <1>9, <2>1, <2>2, KeptStart
<1>11. \A v : v.anchor = a => Ahead(v, X, R)
  <2>1. w.seq \in w.rows \cap R /\ \A n \in w.rows : w.seq <= n
    BY <1>5 DEF StartOK
  <2>2. ASSUME NEW n \in X \ R, a < n, \A m \in X : m <= a \/ n <= m PROVE FALSE
    <3>1. n \in w.rows /\ n \in Int /\ w.seq \in Int /\ w.seq \in X /\ a < w.seq
      <4>1. n \in Int /\ n \in w.rows
        BY <1>1, <1>4, <2>2
      <4>2. w.seq \in w.rows
        BY <2>1
      <4> QED BY <1>4, <4>1, <4>2
    <3>2. n <= w.seq /\ w.seq <= n
      BY <1>1, <2>1, <2>2, <3>1
    <3> QED BY <2>1, <2>2, <3>1, <3>2
  <2> QED BY <2>2 DEF Ahead
<1>12. GoesOn(k, G, X, Y, R)
  BY <1>2, <1>8, <1>11, StandsAtOnce DEF p
<1>13. ASSUME NEW v \in Y, v.anchor # a PROVE Group(Y, v.anchor) = Group(V, v.anchor) /\ v \in V
  BY <1>13 DEF Group
<1>14. ASSUME NEW v \in Y, v.prefix # NoFile, v.anchor \in {0} \cup X PROVE GoesOn(v, G, X, Y, R)
  <2>1. v.anchor \in Nat /\ v.anchor \in Int /\ v.prefix \in Seq(Entries)
    BY <1>14, VersionHas
  <2>2. CASE v = k
    BY <1>12, <2>2
  <2>3. CASE v # k /\ v.anchor = a
    <3>1. v \in V /\ GoesOn(v, F, T, V, R)
      BY <1>3, <1>4, <1>14, <2>3 DEF AllGoOn
    <3>2. LeadsTo(F, Group(V, a), v) /\ w \in Group(V, a) /\ v # w
      BY <1>3, <1>14, <2>3, <3>1 DEF GoesOn, Group
    <3>3. LeadsTo(G, (Group(V, a) \ {w}) \cup {k}, v)
      BY <1>8, <3>2, SwitchLeads DEF G
    <3>4. Group(Y, v.anchor) = (Group(V, a) \ {w}) \cup {k}
      BY <2>3 DEF Group
    <3>5. Agree(G, v.prefix, a)
      <4>1. Agree(F, v.prefix, a) /\ Agree(G, F, a)
        BY <1>6, <2>3, <3>1, AgreeBack DEF GoesOn
      <4> QED BY <1>1, <1>2, <2>1, <4>1, AgreeThrough
    <3> QED BY <1>2, <1>11, <2>3, <3>3, <3>4, <3>5 DEF GoesOn
  <2>4. CASE v.anchor < a
    <3>1. v.anchor # a /\ a \in T /\ v.anchor \in {0} \cup T
      BY <1>1, <1>4, <1>14, <2>1, <2>4
    <3>2. Group(Y, v.anchor) = Group(V, v.anchor) /\ v \in V
      BY <1>13, <3>1
    <3>3. \A n \in T \cup X : n <= a => (n \in T <=> n \in X)
      BY <1>1, <1>4
    <3> HIDE DEF a
    <3> QED BY <1>2, <1>3, <1>6, <1>14, <2>4, <3>1, <3>2, <3>3, Unmoved
  <2>5. CASE a < v.anchor
    <3>1. v.anchor # a /\ v.anchor \in w.rows
      BY <1>1, <1>4, <1>14, <2>1, <2>5
    <3>2. Group(Y, v.anchor) = Group(V, v.anchor) /\ v \in V
      BY <1>13, <3>1
    <3>3. GoesOn(v, G, w.rows, V, R)
      BY <1>3, <1>14, <3>1, <3>2 DEF AllGoOn, G
    <3>4. \A n \in w.rows \cup X : n <= v.anchor \/ (n \in w.rows <=> n \in X)
      <4>1. ASSUME NEW n \in w.rows \cup X PROVE n <= v.anchor \/ (n \in w.rows /\ n \in X)
        <5>1. n \in Int /\ n \in X /\ (n <= a \/ n \in w.rows)
          BY <1>4, <4>1
        <5> QED BY <1>1, <2>1, <2>5, <5>1
      <4> QED BY <4>1
    <3> QED BY <2>1, <3>2, <3>3, <3>4, Elsewhere
  <2> QED BY <1>1, <2>1, <2>2, <2>3, <2>4, <2>5
<1>15. ASSUME NEW v \in Y, v.prefix # NoFile, NEW u \in Y, v.anchor \in u.rows PROVE GoesOn(v, FileFor(u), u.rows, Y, R)
  <2>1. CASE u = k
    <3>1. v.anchor # a /\ v.anchor \in T /\ a < v.anchor /\ v.anchor \in Int
      BY <1>1, <1>4, <1>15, <2>1
    <3>2. Group(Y, v.anchor) = Group(V, v.anchor) /\ v \in V
      BY <1>13, <3>1
    <3>3. GoesOn(v, F, T, V, R)
      BY <1>15, <3>1, <3>2 DEF AllGoOn
    <3>4. \A n \in T \cup k.rows : n <= v.anchor \/ (n \in T <=> n \in k.rows)
      BY <1>1, <1>3, <1>4, <3>1 DEF Turns
    <3>5. k.rows \subseteq Turns
      BY DEF VersionOK
    <3> QED BY <2>1, <3>1, <3>2, <3>3, <3>4, <3>5, Elsewhere
  <2>2. CASE u # k
    <3>1. u \in V /\ 0 \notin u.rows /\ u.rows \cap X = {}
      BY <1>3, <2>2, ConversationAssumption DEF VersionOK, Turns
    <3>2. v.anchor # a
      BY <1>4, <1>15, <3>1
    <3>3. Group(Y, v.anchor) = Group(V, v.anchor) /\ v \in V
      BY <1>13, <3>2
    <3>4. GoesOn(v, FileFor(u), u.rows, V, R)
      BY <1>15, <3>1, <3>3 DEF AllGoOn
    <3> QED BY <3>3, <3>4, SameGroup
  <2> QED BY <2>1, <2>2
<1>16. \A v \in V : v.prefix # NoFile => StartOK(v, R)
  BY DEF AllGoOn
<1> QED BY <1>3, <1>10, <1>14, <1>15, <1>16 DEF AllGoOn, G

\* Where there was no file, none goes on from anything that is shown.
LEMMA NoneGoOn ==
  ASSUME NEW T, NEW V, NEW R, NEW F, F = NoFile
  PROVE  AllGoOn(F, T, V, R) <=> \A v \in V : v.prefix # NoFile =>
           /\ StartOK(v, R) /\ v.anchor \notin {0} \cup T
           /\ \A u \in V : v.anchor \in u.rows => GoesOn(v, FileFor(u), u.rows, V, R)
<1>1. \A v : ~ GoesOn(v, F, T, V, R)
  BY DEF GoesOn
<1> QED BY <1>1 DEF AllGoOn
-----------------------------------------------------------------------------
(* Every step keeps the versions coming back. *)

\* What is known while no way back has failed.
LEMMA StandKnows ==
  ASSUME FileInv, StandInv, ~MissAny, ~apart
  PROVE  PlaceInv /\ PlacesOK /\ Reliable /\ FilesTell /\ GoOnInv /\ SeqInv /\ RootedInv
  BY DEF FileInv, TellInv, Reliable, StandInv, PlaceInv

\* And of what each version has.
LEMMA VersionKnows ==
  ASSUME FileInv, ~MissAny, ~apart, NEW k \in versions, k.anchor \in {0} \cup transcript
  PROVE  Tells(FileFor(k), (transcript \cap (1..k.anchor)) \cup k.rows, reached, apart)
<1>1. PICK past \in Pasts : PastOK(past, transcript, versions) /\ VersionsTell(past)
  BY DEF FileInv, TellInv, Reliable
<1>2. past[k.anchor] = transcript \cap (1..k.anchor)
  BY <1>1 DEF PastOK, Begin
<1> QED BY <1>1, <1>2 DEF VersionsTell

\* No edit is under way, nor to be gone back from.
LEMMA RestStands ==
  ASSUME pc' = "idle", taken' = NoEdit, AllGoOn(file', transcript', versions', reached') PROVE GoOnInv' /\ SeqInv'
  BY DEF GoOnInv, SeqInv

\* Nothing that a version goes on from is lost.
LEMMA RootedStays ==
  ASSUME RootedInv, \A v \in versions' : v \in versions \/ v.anchor \in {0} \cup Kept',
         \A v \in versions \cap versions' : v.anchor \in Kept => v.anchor \in Kept'
  PROVE  RootedInv'
  BY DEF RootedInv

\* A message is sent.
LEMMA SendStands == ASSUME FileInv, StandInv, ~MissAny, ~apart, Send PROVE GoOnInv' /\ SeqInv' /\ RootedInv'
<1>1. PlaceInv /\ PlacesOK /\ GoOnInv /\ RootedInv
  BY StandKnows
<1>2. /\ pc = "idle" /\ pc' = "idle" /\ taken' = taken /\ run = 0 /\ transcript' = transcript \cup {latest + 1}
      /\ UNCHANGED <<versions, file, reached>>
  BY DEF Send, Resting
<1>3. taken' = NoEdit
  BY <1>1, <1>2, NoRun
<1>4. AllGoOn(file, transcript, versions, reached)
  BY <1>1, <1>2 DEF GoOnInv
<1>5. transcript \subseteq Turns /\ latest + 1 \in Int /\ (\A m \in transcript : m < latest + 1)
      /\ \A v \in versions : v.anchor < latest + 1 /\ v.rows \subseteq Turns /\ \A m \in v.rows : m < latest + 1
  <2>1. latest \in Nat /\ transcript \subseteq 1..latest /\ transcript \subseteq Turns
    BY <1>1, LatestIs, KeptTurns DEF Kept
  <2>2. ASSUME NEW v \in versions PROVE v.anchor < latest + 1 /\ v.rows \subseteq Turns /\ \A m \in v.rows : m < latest + 1
    <3>1. v.anchor \in Nat /\ v.anchor < latest /\ v.rows \subseteq 1..latest /\ v.rows \subseteq Turns
      BY <1>1, AnchorsBelow DEF PlacesOK, VersionOK
    <3> QED BY <2>1, <3>1
  <2> QED BY <2>1, <2>2
<1>6. AllGoOn(file', transcript', versions', reached')
  <2>1. AllGoOn(file, transcript \cup {latest + 1}, versions, reached)
    BY <1>4, <1>5, NewTurn
  <2> QED BY <1>2, <2>1
<1>7. RootedInv'
  BY <1>1, <1>2, RootedStays DEF Kept
<1> QED BY <1>2, <1>3, <1>6, <1>7, RestStands

\* pi gets to its message, or not; or the portal stops with no edit under way.
LEMMA RunStands ==
  ASSUME FileInv, StandInv, ~MissAny, ~apart, ~apart', RunAnswers \/ RunFails \/ Crash PROVE GoOnInv' /\ SeqInv' /\ RootedInv'
<1>1. PlaceInv /\ PlacesOK /\ GoOnInv /\ RootedInv
  BY StandKnows
<1>2. UNCHANGED <<transcript, versions>> /\ taken' = NoEdit
  BY DEF RunAnswers, RunFails, Crash
<1>3. (run # 0 /\ Written(run)) \/ UNCHANGED <<file, reached>>
  BY DEF RunAnswers, RunFails, Crash, Unwritten
<1>4. pc = "idle"
  <2>1. CASE RunAnswers \/ RunFails
    BY <1>1, <2>1 DEF RunAnswers, RunFails, PlaceInv, RunOK
  <2>2. CASE Crash
    BY <2>2, Zenon DEF Crash
  <2> QED BY <2>1, <2>2
<1>5. pc' = "idle" \/ (pc' = "undo" /\ taken # NoEdit /\ edit' = taken)
  BY <1>4 DEF RunAnswers, RunFails, Crash, GoTo
<1>6. AllGoOn(file, transcript, versions, reached)
  BY <1>1, <1>4 DEF GoOnInv
<1>7. AllGoOn(file', transcript', versions', reached') /\ reached \subseteq reached'
  <2>1. CASE run # 0 /\ Written(run)
    <3>1. FileOK(file, reached) /\ (\A v \in versions : VersionOK(v, reached)) /\ run \in Turns
          /\ \A v \in versions : v.anchor < run
      BY <1>1, <2>1, KeptTurns DEF PlacesOK, PlaceInv, RunOK, Kept
    <3>2. (file' = Lines(file) \o <<run>> \/ file' = Lines(file) \o <<-run, run>>) /\ reached' = reached \cup {run}
      BY <2>1 DEF Written
    <3>3. AllGoOn(file', transcript, versions, reached \cup {run})
      BY <1>6, <3>1, <3>2, WrittenGoOn
    <3> QED BY <1>2, <3>2, <3>3
  <2>2. CASE UNCHANGED <<file, reached>>
    BY <1>2, <1>6, <2>2
  <2> QED BY <1>3, <2>1, <2>2
<1>8. RootedInv'
  BY <1>1, <1>2, RootedStays DEF Kept
<1>9. CASE pc' = "idle"
  BY <1>2, <1>7, <1>8, <1>9, RestStands
<1>10. CASE pc' = "undo" /\ taken # NoEdit /\ edit' = taken
  <2>1. AllGoOn(taken.original, (transcript \cap (1..taken.before)) \cup taken.gone, versions \ {taken.kept}, reached)
    BY <1>1, <1>10 DEF GoOnInv, DidGoOn
  <2>2. AllGoOn(taken.original, (transcript \cap (1..taken.before)) \cup taken.gone, versions \ {taken.kept}, reached')
    BY <1>7, <2>1, MoreReached
  <2>3. DidGoOn(edit)'
    BY <1>2, <1>10, <2>2 DEF DidGoOn
  <2> QED BY <1>2, <1>8, <1>10, <2>3 DEF GoOnInv, SeqInv
<1> QED BY <1>5, <1>9, <1>10

\* A replacement is sent, or could not be.
LEMMA SendReplacementStands ==
  ASSUME FileInv, StandInv, ~MissAny, ~apart, SendReplacement PROVE GoOnInv' /\ SeqInv' /\ RootedInv'
<1>1. PlaceInv /\ PlacesOK /\ GoOnInv /\ RootedInv /\ edit.before = latest
  BY StandKnows DEF SendReplacement, PlaceInv, PhaseOK, AtTake
<1>2. /\ pc = "send" /\ (transcript' = transcript \cup {latest + 1} \/ transcript' = transcript)
      /\ UNCHANGED <<versions, file, reached>>
      /\ \/ pc' = "idle" /\ taken' = edit
         \/ pc' = "undo" /\ taken' = taken /\ edit' = edit
  BY DEF SendReplacement, GoTo
<1>3. taken = NoEdit
  BY <1>1, <1>2, NoRun
<1>4. AllGoOn(file, transcript, versions, reached) /\ DidGoOn(edit)
  BY <1>1, <1>2 DEF GoOnInv
<1>5. latest \in Nat /\ transcript \subseteq 1..latest /\ transcript \subseteq Turns
  BY <1>1, LatestIs, KeptTurns DEF Kept
<1>6. AllGoOn(file', transcript', versions', reached')
  <2>1. ASSUME NEW v \in versions PROVE v.anchor < latest + 1 /\ v.rows \subseteq Turns /\ \A m \in v.rows : m < latest + 1
    <3>1. v.anchor \in Nat /\ v.anchor < latest /\ v.rows \subseteq 1..latest /\ v.rows \subseteq Turns
      BY <1>1, AnchorsBelow DEF PlacesOK, VersionOK
    <3> QED BY <1>5, <3>1
  <2>2. latest + 1 \in Int /\ \A m \in transcript : m < latest + 1
    BY <1>5
  <2>3. AllGoOn(file, transcript \cup {latest + 1}, versions, reached)
    BY <1>4, <1>5, <2>1, <2>2, NewTurn
  <2> QED BY <1>2, <1>4, <2>3
<1>7. transcript' \cap (1..edit.before) = transcript \cap (1..edit.before)
  BY <1>1, <1>2, <1>5
<1>8. pc' = "idle" => DidGoOn(taken)'
  BY <1>2, <1>4, <1>7 DEF DidGoOn
<1>9. pc' = "undo" => DidGoOn(edit)'
  BY <1>2, <1>4, <1>7 DEF DidGoOn
<1>10. RootedInv'
  BY <1>1, <1>2, RootedStays DEF Kept
<1> QED BY <1>2, <1>3, <1>6, <1>8, <1>9, <1>10 DEF GoOnInv, SeqInv

\* An edit begins: the message is in the file, and what is left of it is the start of what it was.
LEMMA CutFileStands ==
  ASSUME FileInv, StandInv, ~MissAny, ~apart, NEW kind \in Kinds, NEW seq \in Turns, CutFile(kind, seq)
  PROVE  GoOnInv' /\ SeqInv' /\ RootedInv'
<1>1. PlaceInv /\ PlacesOK /\ GoOnInv /\ RootedInv /\ Reliable /\ FilesTell /\ MissedOK
  BY StandKnows DEF FileInv
<1>2. pc = "idle" /\ run = 0 /\ pc' = "cut" /\ UNCHANGED <<transcript, versions, reached, taken>>
  BY DEF CutFile, Begins, Resting
<1>3. taken' = NoEdit
  BY <1>1, <1>2, NoRun
<1>4. /\ seq \in transcript /\ edit'.kind = kind /\ edit'.seq = seq /\ edit'.original = file
      /\ edit'.gone = From(kind, seq) /\ edit'.kept.seq = seq
      /\ kind = "switch" => VersionOK(edit'.wanted, reached) /\ FileStands(edit'.wanted, file)
      /\ file # NoFile =>
           /\ Locate(file, seq) # 0 /\ file' = DropMessage(file, Locate(file, seq), kind)
           /\ edit'.kept.prefix = LongestCommonPrefix({file, Lines(IF kind = "switch" /\ FileFor(edit'.wanted) # NoFile
                                                                   THEN FileFor(edit'.wanted) ELSE file')})
  BY <1>1, CutFileIs DEF PlacesOK
<1>5. AllGoOn(edit'.original, transcript', versions', reached')
  BY <1>1, <1>2, <1>4 DEF GoOnInv
<1>6. GoOnInv'
  BY <1>2, <1>3, <1>5 DEF GoOnInv
<1>7. RootedInv'
  BY <1>1, <1>2, RootedStays DEF Kept
<1>8. CASE file = NoFile
  BY <1>2, <1>4, <1>6, <1>7, <1>8 DEF SeqInv, SeqOK
<1>9. CASE file # NoFile
  <2> DEFINE t == Locate(file, seq)
  <2>1. FileOK(file, reached) /\ file \in Seq(Entries) /\ Lines(file) = file /\ Len(file) \in Nat /\ transcript \subseteq Turns
        /\ seq \in Turns /\ seq > 0 /\ seq \in Int
    BY <1>1, <1>4, <1>9, FileIs, KeptTurns, ConversationAssumption DEF PlacesOK, Kept, Turns
  <2>2. file[t] = seq
    BY <1>1, <1>2, <1>4, <1>9, CutRight
  <2>3. t \in 1..Len(file) /\ FileOK(file', reached) /\ file' # NoFile
    BY <1>4, <1>9, <2>1, DroppedFile
  <2>4. file' = DropMessage(file, t, kind)
    BY <1>4, <1>9
  <2> HIDE DEF t
  <2>5. seq \in reached
    BY <2>1, <2>2, <2>3, InFileIs
  <2>6. kind # "remove" => seq \in From(kind, seq) /\ \A n \in From(kind, seq) : seq <= n
    BY <1>4, <2>1 DEF From
  <2>7. kind = "switch" => edit'.kept.prefix = LongestCommonPrefix({file, FileFor(edit'.wanted)})
    <3>1. ASSUME kind = "switch" PROVE FileFor(edit'.wanted) # NoFile
      BY <1>4, <1>9, <3>1, VersionHas DEF FileStands
    <3>2. \A f : f # NoFile => Lines(f) = f
      BY DEF Lines
    <3> QED BY <1>4, <1>9, <3>1, <3>2
  <2>8. kind = "replace" => edit'.kept.prefix = file'
    <3> SUFFICES ASSUME kind = "replace" PROVE edit'.kept.prefix = file'
      OBVIOUS
    <3> DEFINE g == file'
               p == edit'.kept.prefix
    <3>1. g = SubSeq(file, 1, t - 1)
      BY <2>4 DEF DropMessage
    <3> HIDE DEF g
    <3>2. g \in Seq(Entries) /\ Lines(g) = g /\ Len(g) = t - 1 /\ \A i \in 1..Len(g) : file[i] = g[i]
      <4>1. g \in Seq(Entries) /\ Len(g) = t - 1 /\ \A i \in 1..Len(g) : g[i] = file[i]
        BY <2>1, <2>3, <3>1
      <4> QED BY <4>1, SeqIsFile
    <3>3. p = LongestCommonPrefix({file, g})
      BY <1>4, <1>9, <3>2 DEF g
    <3> HIDE DEF p
    <3>4. p \in Seq(Entries) /\ StartOf(p, g)
          /\ \A n \in Nat : n <= Len(file) /\ n <= Len(g) /\ (\A i \in 1..n : file[i] = g[i]) => n <= Len(p)
      BY <2>1, <3>2, <3>3, SharedIs
    <3>5. Len(g) \in Nat /\ Len(g) <= Len(file) /\ Len(p) \in Nat
      BY <2>1, <2>3, <3>2, <3>4
    <3>6. Len(g) <= Len(p) /\ Len(p) <= Len(g) /\ \A i \in 1..Len(p) : p[i] = g[i]
      BY <3>2, <3>4, <3>5 DEF StartOf
    <3>7. p = g
      BY <3>2, <3>4, <3>5, <3>6, SeqEqual
    <3> QED BY <3>7 DEF p, g
  <2>9. SeqOK(edit', reached')
    BY <1>2, <1>4, <2>1, <2>2, <2>3, <2>5, <2>6, <2>7 DEF SeqOK
  <2>10. /\ \E i \in 1..Len(edit'.original) : edit'.original[i] = edit'.seq /\ file' = DropMessage(edit'.original, i, edit'.kind)
         /\ edit'.kind = "replace" => edit'.kept.prefix = file'
    BY <1>4, <2>2, <2>3, <2>4, <2>8
  <2>11. SeqInv'
    BY <1>2, <2>9, <2>10 DEF SeqInv, DropMessage
  <2> QED BY <1>6, <1>7, <2>11
<1> QED BY <1>8, <1>9

\* The turns go: one is taken out.
LEMMA RemoveStands ==
  ASSUME FileInv, StandInv, ~MissAny, ~apart, CutTranscript, edit.kind = "remove" PROVE GoOnInv' /\ SeqInv' /\ RootedInv'
<1> DEFINE D == Dropped({Anchor(edit.seq)} \cup {m \in transcript : m >= edit.seq})
           b == Anchor(edit.seq)
<1>1. PlaceInv /\ PlacesOK /\ GoOnInv /\ SeqInv /\ RootedInv /\ FilesTell
  BY StandKnows
<1>2. pc = "cut" /\ edit.gone = {edit.seq} /\ edit.seq \in transcript /\ Began(edit, latest, versions, reached, file)
  BY <1>1 DEF CutTranscript, PlaceInv, PhaseOK, AtCut
<1>3. /\ transcript' = transcript \ {edit.seq} /\ UNCHANGED <<file, run, reached, taken>>
      /\ pc' = "idle" /\ versions' = versions \ D
  BY <1>2, CutIs DEF Began
<1>4. taken' = NoEdit
  BY <1>1, <1>2, <1>3, NoRun
<1>5. transcript \subseteq Turns /\ edit.seq \in Nat /\ edit.seq > 0 /\ \A m \in transcript : m \in Nat
  BY <1>1, <1>2, KeptTurns, ConversationAssumption DEF Kept, Turns
<1>6. /\ b \in {0} \cup transcript /\ b \in Nat /\ b < edit.seq
      /\ \A m \in transcript : m < edit.seq => m <= b
  <2>1. latest \in Nat /\ transcript \subseteq 1..latest
    BY <1>1, LatestIs
  <2> QED BY <1>5, <2>1, AnchorIs
<1>7. \A v \in versions : v \in D <=> v.anchor \in {b} \cup {m \in transcript : m >= edit.seq} \/ \E w \in D : v.anchor \in w.rows
  BY DroppedIs
<1> HIDE DEF D, b
<1>8. Whole(versions', versions)
  BY <1>3, <1>7 DEF Whole
<1>9. ASSUME NEW v \in versions', v.anchor \in {0} \cup transcript PROVE v.anchor < b
  <2>1. v \in versions /\ v.anchor # b /\ ~ (v.anchor \in transcript /\ v.anchor >= edit.seq)
    BY <1>3, <1>7
  <2>2. CASE v.anchor = 0
    BY <1>6, <2>1, <2>2
  <2>3. CASE v.anchor \in transcript
    BY <1>5, <1>6, <2>1, <2>3
  <2> QED BY <1>9, <2>2, <2>3
<1>10. AllGoOn(file, transcript \ {edit.seq}, versions', reached)
  <2> DEFINE F == edit.original
  <2>1. AllGoOn(F, transcript, versions, reached)
    BY <1>1, <1>2 DEF GoOnInv
  <2>2. FileOK(F, reached)
    BY <1>2 DEF Began, VersionOK
  <2>3. transcript \cap reached \subseteq InFile(F)
    BY <1>2, <1>1 DEF FilesTell, Tells
  <2>4. F = NoFile \/ \E t \in 1..Len(F) : F[t] = edit.seq /\ file = DropMessage(F, t, "remove")
    BY <1>1, <1>2 DEF SeqInv
  <2>5. \A v \in versions : VersionOK(v, reached)
    BY <1>1 DEF PlacesOK
  <2> HIDE DEF F
  <2> QED BY <1>2, <1>5, <1>6, <1>8, <1>9, <2>1, <2>2, <2>3, <2>4, <2>5, RemoveGoOn
<1>11. AllGoOn(file', transcript', versions', reached')
  BY <1>3, <1>10
<1>12. RootedInv'
  <2>1. ASSUME NEW v \in versions' PROVE v.anchor \in {0} \cup Kept'
    <3>1. v \in versions /\ v.anchor \in {0} \cup Kept /\ v \notin D
      BY <1>1, <1>3 DEF RootedInv
    <3>2. CASE v.anchor \in {0} \cup transcript
      <4>1. v.anchor \in {0} \cup transcript'
        BY <1>3, <1>5, <1>7, <3>1, <3>2
      <4> QED BY <4>1 DEF Kept
    <3>3. CASE \E w \in versions : v.anchor \in w.rows
      <4>1. PICK w \in versions : v.anchor \in w.rows
        BY <3>3
      <4>2. w \in versions'
        BY <1>3, <1>7, <3>1, <4>1
      <4> QED BY <4>1, <4>2 DEF Kept
    <3> QED BY <3>1, <3>2, <3>3 DEF Kept
  <2> QED BY <2>1 DEF RootedInv
<1> QED BY <1>3, <1>4, <1>11, <1>12, RestStands

\* What the edit took away is kept, with the file it was told by, where there is one.
LEMMA KeptGoOn ==
  ASSUME FileInv, StandInv, ~MissAny, ~apart, pc = "cut", edit.kind = "replace",
         NEW V, V = versions \cup {edit.kept}, NEW T, T = transcript \ edit.gone
  PROVE  AllGoOn(file, T, V, reached)
<1> DEFINE F == edit.original
           k == edit.kept
<1>1. PlacesOK /\ GoOnInv /\ SeqInv /\ FilesTell /\ PhaseOK /\ transcript \subseteq Turns
  BY StandKnows, KeptTurns DEF PlaceInv, Kept
<1>2. VersionOK(k, reached) /\ FileFor(k) = F /\ edit.gone = k.rows /\ (F = NoFile => file = NoFile) /\ EndsIn(transcript, k)
  BY <1>1 DEF PhaseOK, Began, AtCut
<1>3. AllGoOn(F, transcript, versions, reached)
  BY <1>1 DEF GoOnInv
<1>4. \A v \in versions : VersionOK(v, reached) /\ v.rows \cap transcript = {}
  BY <1>1 DEF PlacesOK
<1>5. Tells(F, transcript, reached, FALSE)
  BY <1>1 DEF FilesTell, Tells
<1>6. CASE F # NoFile
  <2>1. /\ k.seq = edit.seq /\ k.seq \in k.rows \cap reached /\ \A n \in k.rows : k.seq <= n
    BY <1>1, <1>2, <1>6 DEF SeqInv, SeqOK
  <2>2. PICK t \in 1..Len(F) : F[t] = edit.seq /\ file = DropMessage(F, t, "replace")
    BY <1>1, <1>6 DEF SeqInv
  <2>3. k.prefix = file
    BY <1>1, <1>6 DEF SeqInv
  <2>4. FileOK(F, reached)
    BY <1>2 DEF VersionOK
  <2>5. transcript \cap reached \subseteq InFile(F) /\ InFile(F) \subseteq transcript
    BY <1>5 DEF Tells
  <2> HIDE DEF F, k
  <2>6. AllGoOn(file, transcript \ k.rows, versions \cup {k}, reached)
    BY <1>1, <1>2, <1>3, <1>4, <1>6, <2>1, <2>2, <2>3, <2>4, <2>5, ReplaceGoOn
  <2> QED BY <1>2, <2>6 DEF k
<1>7. CASE F = NoFile
  <2>1. k.prefix = NoFile /\ file = NoFile
    BY <1>2, <1>7, VersionHas
  <2> HIDE DEF F, k
  <2>2. ASSUME NEW v \in versions, v.prefix # NoFile
        PROVE  /\ StartOK(v, reached) /\ v.anchor \notin {0} \cup transcript
               /\ \A u \in versions : v.anchor \in u.rows => GoesOn(v, FileFor(u), u.rows, versions, reached)
    BY <1>3, <1>7, <2>2, NoneGoOn
  <2>3. ASSUME NEW v \in V, v.prefix # NoFile
        PROVE  /\ StartOK(v, reached) /\ v.anchor \notin {0} \cup T
               /\ \A u \in V : v.anchor \in u.rows => GoesOn(v, FileFor(u), u.rows, V, reached)
    <3>1. v \in versions
      BY <2>1, <2>3 DEF k
    <3>2. StartOK(v, reached) /\ v.anchor \notin {0} \cup transcript
      BY <2>2, <2>3, <3>1
    <3>3. v.anchor # k.anchor /\ v.anchor \notin k.rows
      BY <1>2, <3>2 DEF EndsIn
    <3>4. Group(V, v.anchor) = Group(versions, v.anchor)
      BY <3>3 DEF Group, k
    <3>5. ASSUME NEW u \in V, v.anchor \in u.rows PROVE GoesOn(v, FileFor(u), u.rows, V, reached)
      <4>1. u \in versions
        BY <3>3, <3>5 DEF k
      <4>2. GoesOn(v, FileFor(u), u.rows, versions, reached)
        BY <2>2, <2>3, <3>1, <3>5, <4>1
      <4> QED BY <3>4, <4>2, SameGroup
    <3> QED BY <3>2, <3>5
  <2> QED BY <2>1, <2>3, NoneGoOn
<1> QED BY <1>6, <1>7

\* Or they are kept as a version.
LEMMA KeepStands ==
  ASSUME FileInv, StandInv, ~MissAny, ~apart, CutTranscript, edit.kind # "remove" PROVE GoOnInv' /\ SeqInv' /\ RootedInv'
<1>1. PlaceInv /\ PlacesOK /\ GoOnInv /\ SeqInv /\ RootedInv
  BY StandKnows
<1>2. /\ pc = "cut" /\ Began(edit, latest, versions, reached, file) /\ edit.before = latest /\ edit.gone = edit.kept.rows
      /\ EndsIn(transcript, edit.kept) /\ VersionOK(edit.kept, reached)
  BY <1>1 DEF CutTranscript, PlaceInv, PhaseOK, AtCut, Began
<1>3. /\ transcript' = transcript \ edit.gone /\ UNCHANGED <<file, run, reached, taken>> /\ edit' = edit
      /\ (edit.kind = "replace" /\ pc' = "send") \/ (edit.kind = "switch" /\ pc' = "take")
      /\ versions' = versions \cup {edit.kept}
  BY <1>2, CutIs DEF Began
<1>4. taken' = NoEdit
  BY <1>1, <1>2, <1>3, NoRun
<1>5. transcript \subseteq 1..latest /\ edit.gone \subseteq transcript
  BY <1>1, <1>2, LatestIs DEF EndsIn
<1>6. (transcript' \cap (1..edit.before)) \cup edit.gone = transcript
  BY <1>2, <1>3, <1>5
<1>7. versions' \ {edit.kept} = versions
  <2>1. edit.kept \notin versions
    BY <1>1, <1>2, <1>5 DEF PlacesOK, VersionOK
  <2> QED BY <1>3, <2>1
<1>8. DidGoOn(edit)'
  <2>1. AllGoOn(edit.original, transcript, versions, reached)
    BY <1>1, <1>2 DEF GoOnInv
  <2>2. AllGoOn(edit'.original, (transcript' \cap (1..edit'.before)) \cup edit'.gone, versions' \ {edit'.kept}, reached')
    BY <1>3, <1>6, <1>7, <2>1
  <2> QED BY <2>2 DEF DidGoOn
<1>9. pc' = "send" => AllGoOn(file', transcript', versions', reached')
  <2>1. edit.kind = "replace" => AllGoOn(file, transcript', versions', reached)
    BY <1>2, <1>3, KeptGoOn
  <2> QED BY <1>3, <2>1
<1>10. SeqOK(edit, reached)'
  <2>1. SeqOK(edit, reached)
    BY <1>1, <1>2 DEF SeqInv
  <2> QED BY <1>3, <2>1
<1>11. RootedInv'
  <2>1. edit.kept.anchor \in {0} \cup transcript'
    <3>1. edit.kept.anchor \in {0} \cup transcript /\ edit.kept.anchor \notin edit.gone
      BY <1>2, VersionHas DEF EndsIn
    <3> QED BY <1>3, <3>1
  <2>2. Kept \subseteq Kept'
    BY <1>2, <1>3 DEF Kept
  <2>3. \A v \in versions' : v \in versions \/ v.anchor \in {0} \cup Kept'
    BY <1>3, <2>1 DEF Kept
  <2> QED BY <1>1, <2>2, <2>3, RootedStays
<1> QED BY <1>3, <1>4, <1>8, <1>9, <1>10, <1>11 DEF GoOnInv, SeqInv

\* A version comes into the transcript.
LEMMA TakeVersionStands ==
  ASSUME FileInv, StandInv, ~MissAny, ~apart, TakeVersion PROVE GoOnInv' /\ SeqInv' /\ RootedInv'
<1>1. PlaceInv /\ PlacesOK /\ GoOnInv /\ SeqInv /\ RootedInv
  BY StandKnows
<1>2. /\ pc = "take" /\ edit.wanted \in versions /\ edit.wanted # edit.kept /\ edit.before = latest
      /\ transcript \subseteq 1..latest /\ edit.wanted.rows \cap transcript = {}
  BY <1>1, LatestIs DEF TakeVersion, PlaceInv, PhaseOK, AtTake, PlacesOK
<1>3. /\ versions' = versions \ {edit.wanted} /\ transcript' = transcript \cup edit.wanted.rows
      /\ pc' = "rewrite" /\ edit' = edit /\ UNCHANGED <<run, reached, taken>>
  BY DEF TakeVersion, GoTo, Writing, agent
<1>4. taken' = NoEdit
  BY <1>1, <1>2, <1>3, NoRun
<1>5. (transcript' \ edit.wanted.rows) \cup edit.gone = (transcript \cap (1..edit.before)) \cup edit.gone
  BY <1>2, <1>3
<1>6. (versions' \cup {edit.wanted}) \ {edit.kept} = versions \ {edit.kept}
  BY <1>2, <1>3
<1>7. AllGoOn(edit'.original, (transcript' \ edit'.wanted.rows) \cup edit'.gone, (versions' \cup {edit'.wanted}) \ {edit'.kept}, reached')
  <2>1. DidGoOn(edit)
    BY <1>1, <1>2 DEF GoOnInv
  <2> QED BY <1>3, <1>5, <1>6, <2>1 DEF DidGoOn
<1>8. SeqOK(edit, reached)'
  <2>1. SeqOK(edit, reached)
    BY <1>1, <1>2 DEF SeqInv
  <2> QED BY <1>3, <2>1
<1>9. RootedInv'
  <2>1. Kept \subseteq Kept'
    BY <1>3 DEF Kept
  <2> QED BY <1>1, <1>3, <2>1, RootedStays
<1> QED BY <1>3, <1>4, <1>7, <1>8, <1>9 DEF GoOnInv, SeqInv

\* pi's file is as that version had it.
LEMMA RewriteStands ==
  ASSUME FileInv, StandInv, ~MissAny, ~apart, Rewrite PROVE GoOnInv' /\ SeqInv' /\ RootedInv'
<1> DEFINE F == edit.original
           k == edit.kept
           w == edit.wanted
           T == (transcript \ w.rows) \cup k.rows
           V == (versions \cup {w}) \ {k}
<1>1. PlaceInv /\ PlacesOK /\ GoOnInv /\ SeqInv /\ RootedInv /\ FilesTell
  BY StandKnows
<1>2. /\ pc = "rewrite" /\ edit.kind = "switch" /\ EndsIn(transcript, w) /\ k \in versions /\ edit.gone = k.rows
      /\ VersionOK(k, reached) /\ VersionOK(w, reached) /\ FileFor(k) = F /\ w.anchor = k.anchor
      /\ (F = NoFile => file = NoFile) /\ (w.prefix = NoFile <=> F = NoFile)
      /\ (\A v \in versions : v.rows \cap w.rows = {}) /\ transcript \subseteq Turns
  BY <1>1, KeptTurns DEF Rewrite, PlaceInv, PhaseOK, AtRewrite, Began, Kept
<1>3. /\ UNCHANGED <<transcript, versions, run, reached, taken>> /\ pc' = "idle"
      /\ file' = IF FileFor(w) = NoFile THEN file ELSE FileFor(w)
  BY DEF Rewrite, GoTo, Writing, agent
<1>4. taken' = NoEdit
  BY <1>1, <1>2, <1>3, NoRun
<1>5. RootedInv'
  BY <1>1, <1>3, RootedStays DEF Kept
<1>6. AllGoOn(F, T, V, reached)
  BY <1>1, <1>2 DEF GoOnInv
<1>7. w \notin versions
  BY <1>2 DEF VersionOK
<1>8. \A v \in versions : VersionOK(v, reached) /\ v.rows \cap transcript = {}
  BY <1>1 DEF PlacesOK
<1>9. k.anchor \in {0} \cup (transcript \ w.rows) /\ \A n \in transcript : n <= k.anchor \/ n \in w.rows
  <2>1. w.anchor \notin w.rows /\ \A n \in transcript : n <= w.anchor \/ n \in w.rows
    BY <1>2, VersionHas DEF EndsIn
  <2> QED BY <1>2, <2>1 DEF EndsIn
<1>10. CASE F # NoFile
  <2>1. w.prefix # NoFile /\ FileFor(w) # NoFile /\ file' = FileFor(w)
    BY <1>2, <1>3, <1>10, VersionHas
  <2>2. FileOK(F, reached)
    BY <1>2 DEF VersionOK
  <2>3. T \cap reached \subseteq InFile(F) /\ InFile(F) \subseteq T
    <3>1. Tells(FileFor(k), (transcript \cap (1..k.anchor)) \cup k.rows, reached, apart)
      BY <1>2, <1>9, VersionKnows
    <3>2. transcript \cap (1..k.anchor) = transcript \ w.rows
      <4>1. \A n \in transcript : n \in Int /\ 1 <= n
        <5>1. \A n \in Turns : n \in Int /\ 1 <= n
          BY ConversationAssumption DEF Turns
        <5>2. transcript \subseteq Turns
          BY <1>2
        <5> QED BY <5>1, <5>2
      <4>2. \A n \in w.rows : w.anchor < n
        BY <1>2 DEF VersionOK
      <4>3. w.anchor \in Nat /\ w.anchor = k.anchor
        BY <1>2, VersionHas
      <4> HIDE DEF w, k
      <4>4. ASSUME NEW n \in transcript PROVE n \in 1..k.anchor <=> n \notin w.rows
        <5>1. n \in Int /\ 1 <= n /\ (n <= k.anchor \/ n \in w.rows)
          BY <1>9, <4>1
        <5> QED BY <4>2, <4>3, <5>1
      <4> QED BY <4>4
    <3> QED BY <1>2, <3>1, <3>2 DEF Tells
  <2>4. InFile(FileFor(w)) \subseteq transcript
    BY <1>1, <1>2 DEF FilesTell, Tells
  <2>5. /\ k.seq \in k.rows \cap reached /\ (\A n \in k.rows : k.seq <= n) /\ k.prefix = LongestCommonPrefix({F, FileFor(w)})
        /\ \E t \in 1..Len(F) : F[t] = k.seq
    BY <1>1, <1>2, <1>10 DEF SeqInv, SeqOK
  <2>6. PICK t \in 1..Len(F) : F[t] = k.seq
    BY <2>5
  <2>7. k.rows \cap transcript = {}
    BY <1>2, <1>8
  <2> HIDE DEF F, k, w
  <2>8. AllGoOn(FileFor(w), transcript, versions, reached)
    BY <1>2, <1>6, <1>7, <1>8, <1>10, <2>1, <2>2, <2>3, <2>4, <2>5, <2>6, <2>7, SwitchGoOn
  <2>9. AllGoOn(file', transcript', versions', reached')
    BY <1>3, <2>1, <2>8
  <2> QED BY <1>3, <1>4, <1>5, <2>9, RestStands
<1>11. CASE F = NoFile
  <2>1. k.prefix = NoFile /\ w.prefix = NoFile /\ FileFor(w) = NoFile /\ file = NoFile /\ file' = NoFile
    BY <1>2, <1>3, <1>11, VersionHas, FileForIs
  <2>2. w \in V /\ \A v \in versions : v # k => v \in V
    BY <1>2, <1>7
  <2> HIDE DEF F, k, w, V
  <2>3. ASSUME NEW v \in V, v.prefix # NoFile
        PROVE  /\ StartOK(v, reached) /\ v.anchor \notin {0} \cup T
               /\ \A u \in V : v.anchor \in u.rows => GoesOn(v, FileFor(u), u.rows, V, reached)
    BY <1>6, <1>11, <2>3, NoneGoOn
  <2>4. ASSUME NEW v \in versions, v.prefix # NoFile
        PROVE  /\ StartOK(v, reached) /\ v.anchor \notin {0} \cup transcript
               /\ \A u \in versions : v.anchor \in u.rows => GoesOn(v, FileFor(u), u.rows, versions, reached)
    <3>1. v \in V /\ StartOK(v, reached) /\ v.anchor \notin {0} \cup T
      BY <2>1, <2>2, <2>3, <2>4
    <3>2. v.anchor \notin w.rows
      <4> SUFFICES ASSUME v.anchor \in w.rows PROVE FALSE
        OBVIOUS
      <4>1. GoesOn(v, FileFor(w), w.rows, V, reached)
        BY <2>2, <2>3, <2>4, <3>1
      <4> QED BY <2>1, <4>1 DEF GoesOn
    <3>3. v.anchor \notin {0} \cup transcript /\ v.anchor # k.anchor /\ v.anchor \notin k.rows
      BY <1>9, <3>1, <3>2
    <3>4. Group(versions, v.anchor) = Group(V, v.anchor)
      BY <1>2, <3>3 DEF Group, V
    <3>5. ASSUME NEW u \in versions, v.anchor \in u.rows PROVE GoesOn(v, FileFor(u), u.rows, versions, reached)
      <4>1. u \in V
        BY <2>2, <3>3, <3>5
      <4>2. GoesOn(v, FileFor(u), u.rows, V, reached)
        BY <2>3, <2>4, <3>1, <3>5, <4>1
      <4> QED BY <3>4, <4>2, SameGroup
    <3> QED BY <3>1, <3>3, <3>5
  <2>5. AllGoOn(file', transcript, versions, reached)
    BY <2>1, <2>4, NoneGoOn
  <2>6. AllGoOn(file', transcript', versions', reached')
    BY <1>3, <2>5
  <2> QED BY <1>3, <1>4, <1>5, <2>6, RestStands
<1> QED BY <1>10, <1>11

\* That fails: the version is set aside again.  Or it cannot be taken.
LEMMA RewriteFailsStands ==
  ASSUME FileInv, StandInv, ~MissAny, ~apart, ~apart', RewriteFails \/ TakeFails PROVE GoOnInv' /\ SeqInv' /\ RootedInv'
<1>1. PlaceInv /\ PlacesOK /\ GoOnInv /\ SeqInv /\ RootedInv
  BY StandKnows
<1>2. pc \in {"rewrite", "take"} /\ pc' = "undo" /\ edit' = edit /\ UNCHANGED <<run, reached, taken>>
  BY DEF RewriteFails, TakeFails, GoTo, Writing, agent
<1>3. taken' = NoEdit
  BY <1>1, <1>2, NoRun
<1>4. CASE TakeFails
  <2>1. pc = "take" /\ UNCHANGED <<transcript, versions>>
    BY <1>4 DEF TakeFails
  <2>2. DidGoOn(edit)'
    BY <1>1, <1>2, <2>1 DEF GoOnInv, DidGoOn
  <2>3. RootedInv'
    BY <1>1, <2>1, RootedStays DEF Kept
  <2> QED BY <1>2, <1>3, <2>2, <2>3 DEF GoOnInv, SeqInv
<1>5. CASE RewriteFails
  <2>1. /\ pc = "rewrite" /\ edit.before = latest /\ EndsIn(transcript, edit.wanted) /\ transcript \subseteq 1..latest
        /\ VersionOK(edit.wanted, reached)
    BY <1>1, <1>5, LatestIs DEF RewriteFails, PlaceInv, PhaseOK, AtRewrite, Began
  <2>2. versions' = versions \cup {edit.wanted} /\ transcript' = transcript \ edit.wanted.rows
    BY <1>5 DEF RewriteFails
  <2>3. (transcript' \cap (1..edit.before)) \cup edit.gone = (transcript \ edit.wanted.rows) \cup edit.gone
    BY <2>1, <2>2
  <2>4. AllGoOn(edit.original, (transcript \ edit.wanted.rows) \cup edit.gone, (versions \cup {edit.wanted}) \ {edit.kept}, reached)
    BY <1>1, <2>1 DEF GoOnInv
  <2>5. DidGoOn(edit)'
    BY <1>2, <2>2, <2>3, <2>4 DEF DidGoOn
  <2>6. RootedInv'
    <3>1. edit.wanted.anchor \in {0} \cup transcript'
      <4>1. edit.wanted.anchor \in {0} \cup transcript /\ edit.wanted.anchor \notin edit.wanted.rows
        BY <2>1, VersionHas DEF EndsIn
      <4> QED BY <2>2, <4>1
    <3>2. Kept \subseteq Kept'
      BY <2>2 DEF Kept
    <3>3. \A v \in versions' : v \in versions \/ v.anchor \in {0} \cup Kept'
      BY <2>2, <3>1 DEF Kept
    <3> QED BY <1>1, <3>2, <3>3, RootedStays
  <2> QED BY <1>2, <1>3, <2>5, <2>6 DEF GoOnInv, SeqInv
<1> QED BY <1>4, <1>5

\* The cut is not kept, and the file is as it was.
LEMMA CutUndoneStands ==
  ASSUME FileInv, StandInv, ~MissAny, ~apart, ~apart', CutUndone PROVE GoOnInv' /\ SeqInv' /\ RootedInv'
<1>1. PlaceInv /\ GoOnInv /\ RootedInv
  BY StandKnows
<1>2. pc = "cut" /\ pc' = "idle" /\ file' = edit.original /\ UNCHANGED <<transcript, versions, run, reached, taken>>
  BY DEF CutUndone, GoTo, Writing, agent
<1>3. taken' = NoEdit
  BY <1>1, <1>2, NoRun
<1>4. AllGoOn(file', transcript', versions', reached')
  BY <1>1, <1>2 DEF GoOnInv
<1>5. RootedInv'
  BY <1>1, <1>2, RootedStays DEF Kept
<1> QED BY <1>2, <1>3, <1>4, <1>5, RestStands

\* On the way back the turns come first, and are a version no more.
LEMMA UndoTranscriptStands ==
  ASSUME FileInv, StandInv, ~MissAny, ~apart, UndoTranscript PROVE GoOnInv' /\ SeqInv' /\ RootedInv'
<1>1. PlaceInv /\ GoOnInv /\ RootedInv
  BY StandKnows
<1>2. /\ pc = "undo" /\ edit.gone = edit.kept.rows /\ edit.gone \subseteq 1..edit.before
  BY <1>1 DEF UndoTranscript, PlaceInv, PhaseOK, Began
<1>3. /\ transcript' = transcript \cup edit.gone /\ versions' = versions \ {edit.kept}
      /\ pc' = "undoFile" /\ edit' = edit /\ UNCHANGED <<run, reached, taken>>
  BY DEF UndoTranscript, GoTo
<1>4. taken' = NoEdit
  BY <1>1, <1>2, <1>3, NoRun
<1>5. transcript' \cap (1..edit.before) = (transcript \cap (1..edit.before)) \cup edit.gone
  BY <1>2, <1>3
<1>6. DidGoOn(edit)
  BY <1>1, <1>2 DEF GoOnInv
<1>7. AllGoOn(edit'.original, transcript' \cap (1..edit'.before), versions', reached')
  BY <1>3, <1>5, <1>6 DEF DidGoOn
<1>8. RootedInv'
  <2>1. Kept \subseteq Kept'
    BY <1>2, <1>3 DEF Kept
  <2> QED BY <1>1, <1>3, <2>1, RootedStays
<1> QED BY <1>3, <1>4, <1>7, <1>8 DEF GoOnInv, SeqInv

\* Then the file.
LEMMA UndoFileStands ==
  ASSUME FileInv, StandInv, ~MissAny, ~apart, UndoFile PROVE GoOnInv' /\ SeqInv' /\ RootedInv'
<1>1. PlaceInv /\ GoOnInv /\ RootedInv
  BY StandKnows
<1>2. pc = "undoFile" /\ (edit.original = NoFile => file = NoFile)
      /\ (edit.kind # "replace" => transcript \subseteq 1..edit.before)
  BY <1>1 DEF UndoFile, PlaceInv, PhaseOK, Began
<1>3. file' = edit.original /\ UNCHANGED <<transcript, versions, run, reached, taken>>
  BY <1>2 DEF UndoFile, Writing, agent
<1>4. taken' = NoEdit
  BY <1>1, <1>2, <1>3, NoRun
<1>5. AllGoOn(edit.original, transcript \cap (1..edit.before), versions, reached)
  BY <1>1, <1>2 DEF GoOnInv
<1>6. RootedInv'
  BY <1>1, <1>3, RootedStays DEF Kept
<1>7. CASE edit.kind = "replace"
  <2>1. pc' = "undoLate" /\ edit' = edit
    BY <1>7 DEF UndoFile, GoTo, AfterUndo
  <2>2. AllGoOn(file', transcript' \cap (1..edit'.before), versions', reached')
        /\ AllGoOn(edit'.original, transcript' \cap (1..edit'.before), versions', reached')
    BY <1>3, <1>5, <2>1
  <2> QED BY <1>4, <1>6, <2>1, <2>2 DEF GoOnInv, SeqInv
<1>8. CASE edit.kind # "replace"
  <2>1. pc' = "idle" /\ transcript \cap (1..edit.before) = transcript
    BY <1>2, <1>8 DEF UndoFile, GoTo, AfterUndo
  <2>2. AllGoOn(file', transcript', versions', reached')
    BY <1>3, <1>5, <2>1
  <2> QED BY <1>4, <1>6, <2>1, <2>2, RestStands
<1> QED BY <1>7, <1>8

\* What the replacement recorded is gone, and nothing went on from it.
LEMMA UndoLateStands ==
  ASSUME FileInv, StandInv, ~MissAny, ~apart, ~apart', UndoLate PROVE GoOnInv' /\ SeqInv' /\ RootedInv'
<1>1. PlaceInv /\ GoOnInv /\ RootedInv /\ transcript \subseteq Turns
  BY StandKnows, KeptTurns DEF Kept
<1>2. pc = "undoLate" /\ edit.before \in Nat /\ \A v \in versions : v.anchor <= edit.before
  BY <1>1 DEF UndoLate, PlaceInv, PhaseOK, Began
<1>3. /\ transcript' = {m \in transcript : m <= edit.before} /\ pc' = "idle"
      /\ UNCHANGED <<versions, file, run, reached, taken>>
  BY DEF UndoLate, GoTo, Writing, agent
<1>4. taken' = NoEdit
  BY <1>1, <1>2, <1>3, NoRun
<1>5. transcript' = transcript \cap (1..edit.before)
  <2>1. \A n \in transcript : n \in 1..edit.before <=> n <= edit.before
    BY <1>1, <1>2, ConversationAssumption DEF Turns
  <2> QED BY <1>3, <2>1
<1>6. AllGoOn(file', transcript', versions', reached')
  BY <1>1, <1>2, <1>3, <1>5 DEF GoOnInv
<1>7. RootedInv'
  <2>1. \A v \in versions : v.anchor \in Kept => v.anchor \in Kept'
    BY <1>2, <1>3 DEF Kept
  <2> QED BY <1>1, <1>3, <2>1, RootedStays
<1> QED BY <1>3, <1>4, <1>6, <1>7, RestStands

\* So every step keeps all of that.
LEMMA StandStep == ~MissAny /\ FileInv /\ StandInv /\ [Next]_vars => StandInv'
<1> SUFFICES ASSUME ~MissAny, FileInv, StandInv, [Next]_vars, ~apart' PROVE GoOnInv' /\ SeqInv' /\ RootedInv'
  BY DEF StandInv
<1>1. CASE UNCHANGED vars
  <2>1. UNCHANGED <<transcript, versions, file, reached, pc, edit, taken, apart>>
    BY <1>1 DEF vars, stores, agent
  <2>2. ~apart
    BY <2>1
  <2>3. GoOnInv /\ SeqInv /\ RootedInv
    BY <2>2, StandKnows
  <2>4. GoOnInv'
    BY <2>1, <2>3 DEF GoOnInv, DidGoOn
  <2>5. SeqInv'
    BY <2>1, <2>3 DEF SeqInv, SeqOK, DropMessage
  <2>6. RootedInv'
    BY <2>1, <2>3 DEF RootedInv, Kept
  <2> QED BY <2>4, <2>5, <2>6
<1>2. CASE Next
  <2>1. PlaceInv
    BY DEF FileInv
  <2>2. ASSUME apart PROVE FALSE
    <3>1. CASE Crash
      BY <2>2, <3>1, Zenon DEF Crash
    <3>2. CASE EditStep
      BY <2>2, <3>2 DEF EditStep, CutFile, CutRefused, CutTranscript, CutUndone, SendReplacement, TakeVersion, TakeFails, Rewrite,
         RewriteFails, UndoTranscript, UndoTranscriptFails, UndoFile, UndoFileFails, UndoLate, Sound
    <3>3. CASE Send \/ RunAnswers \/ RunFails
      BY <2>2, <3>3 DEF Send, RunAnswers, RunFails
    <3> QED BY <1>2, <3>1, <3>2, <3>3 DEF Next
  <2>3. ~apart
    BY <2>2
  <2>4. CASE Send \/ RunAnswers \/ RunFails \/ Crash
    BY <2>3, <2>4, SendStands, RunStands
  <2>5. CASE \E kind \in Kinds, seq \in Turns : CutFile(kind, seq)
    BY <2>3, <2>5, CutFileStands
  <2>6. CASE CutRefused
    <3>1. UNCHANGED <<transcript, versions, file, reached, pc, edit, taken>>
      BY <2>6 DEF CutRefused, stores
    <3>2. GoOnInv /\ SeqInv /\ RootedInv
      BY <2>3, StandKnows
    <3>3. GoOnInv'
      BY <3>1, <3>2 DEF GoOnInv, DidGoOn
    <3>4. SeqInv'
      BY <3>1, <3>2 DEF SeqInv, SeqOK, DropMessage
    <3>5. RootedInv'
      BY <3>1, <3>2 DEF RootedInv, Kept
    <3> QED BY <3>3, <3>4, <3>5
  <2>7. CASE CutTranscript
    BY <2>3, <2>7, RemoveStands, KeepStands
  <2>8. CASE CutUndone \/ TakeFails \/ RewriteFails
    BY <2>3, <2>8, CutUndoneStands, RewriteFailsStands
  <2>9. CASE SendReplacement \/ TakeVersion \/ Rewrite
    BY <2>3, <2>9, SendReplacementStands, TakeVersionStands, RewriteStands
  <2>10. CASE UndoTranscript \/ UndoFile \/ UndoLate
    BY <2>3, <2>10, UndoTranscriptStands, UndoFileStands, UndoLateStands
  <2>11. CASE UndoTranscriptFails \/ UndoFileFails
    BY <2>11 DEF UndoTranscriptFails, UndoFileFails
  <2> QED BY <1>2, <2>4, <2>5, <2>6, <2>7, <2>8, <2>9, <2>10, <2>11 DEF Next, EditStep
<1> QED BY <1>1, <1>2

\* There are no versions at first.
LEMMA InitStand == Init => StandInv
<1> SUFFICES ASSUME Init PROVE GoOnInv /\ SeqInv /\ RootedInv
  BY DEF StandInv
<1>1. AllGoOn(file, transcript, versions, reached)
  BY DEF Init, AllGoOn
<1> QED BY <1>1 DEF Init, GoOnInv, SeqInv, RootedInv

\* So the versions that the page offers can come back.
LEMMA StandOffers == ASSUME AllGoOn(file, transcript, versions, reached) PROVE Offers
<1> SUFFICES ASSUME NEW S \in SUBSET Offered, ComeBack(S), NEW v \in Offered, v.prefix # NoFile PROVE v \in S
  BY DEF Offers
<1>1. v \in versions /\ v.anchor \in {0} \cup transcript /\ (\E m \in transcript : m > v.anchor)
  BY DEF Offered
<1>2. LeadsTo(file, Group(versions, v.anchor), v)
  BY <1>1 DEF AllGoOn, GoesOn
<1> DEFINE G == Group(versions, v.anchor)
<1>3. \A x \in G : x \in Offered /\ x.anchor = v.anchor
  BY <1>1 DEF Offered, Group
<1>4. v \in G
  BY <1>1 DEF Group
<1> HIDE DEF G
<1>5. Closed(S \cap G, file, G)
  <2> SUFFICES ASSUME NEW x \in G, FileStands(x, file) \/ (\E u \in S \cap G : FileStands(x, FileFor(u))) PROVE x \in S
    BY DEF Closed
  <2>1. x \in Offered /\ \A u \in S \cap G : u.anchor = x.anchor
    BY <1>3
  <2> QED BY <2>1 DEF ComeBack, Leads
<1>6. S \cap G \in SUBSET G
  OBVIOUS
<1>7. LeadsTo(file, G, v)
  BY <1>2 DEF G
<1> QED BY <1>5, <1>6, <1>7 DEF LeadsTo

\* A version goes on from a message that is shown or kept; and each that the page offers can
\* come back, by itself or by way of others, whatever was edited, failed and stopped before.
\* A message that says what another does gets to pi, and a run that fails leaves no file
\* where there was none.
THEOREM VersionsComeBack == ~MissAny /\ ~EarlyFile => (Spec => []VersionsStand)
<1> SUFFICES ASSUME ~MissAny, ~EarlyFile PROVE Spec => []VersionsStand
  OBVIOUS
<1>1. Init => FileInv /\ StandInv
  BY InitFile, InitStand
<1>2. FileInv /\ StandInv /\ [Next]_vars => (FileInv /\ StandInv)'
  BY FileStep, StandStep
<1>3. FileInv /\ StandInv => VersionsStand
  <2> SUFFICES ASSUME FileInv, StandInv, pc = "idle", ~apart PROVE Offers /\ Reachable
    BY DEF VersionsStand
  <2>1. GoOnInv /\ RootedInv /\ PlacesOK
    BY StandKnows
  <2>2. Offers
    BY <2>1, StandOffers DEF GoOnInv
  <2>3. Reachable
    <3>1. \A v \in versions : v.anchor \notin v.rows
      BY <2>1, VersionHas DEF PlacesOK
    <3> QED BY <2>1, <3>1 DEF Reachable, RootedInv, Kept
  <2> QED BY <2>2, <2>3
<1> QED BY <1>1, <1>2, <1>3, PTL DEF Spec
=============================================================================
