----------------------------- MODULE StartProofs -----------------------------
(* Proofs about the two things a start of the portal does before it serves.

   Handoff: a hand-off loses no file and is done once, however many files there
   are, however often the portal is stopped half way, and however often the person
   goes back.

   InstanceLock: for any number of servers, one has the data, as long as no two
   start beside each other, or no socket is made in the directory (the name's goes
   with its process, and nothing there is ever cleared); and no socket a dead one
   left keeps the next out of the directory.                                  *)
EXTENDS Handoff, InstanceLock, TLAPS

(* Hand-offs. *)

\* Where each step of a start leaves the disk.
PlacesOK ==
  /\ pc \in {"fill", "move", "place"} => left = Absent
  /\ pc = "move" => profile = Absent /\ partial # Absent /\ source # Absent
  /\ pc = "into" => taken = Absent /\ taking # Absent
  /\ pc \in {"aside", "read", "done"} => taken # Absent
  /\ pc \in {"read", "done"} => taking = Absent
  /\ pc = "done" => taken \subseteq given

\* A file is in the folder once, and what has its name where it is moved to is its copy.
NamesOK ==
  /\ \A f, g \in In(source) : Name(f) = Name(g) => f = g
  /\ \A f \in In(source) : \A g \in In(partial) : Name(f) = Name(g) => f = g

\* What is left of a hand-off that has been taken is in what was taken.
AsideOK == taken # Absent => In(taking) \subseteq taken \cup given

LostInv == TypeOK /\ PlacesOK /\ NamesOK /\ AsideOK /\ NothingLost

\* What the portal keeps and leaves, and what the extension has of it.
Upstream == In(source) \cup In(partial) \cup In(profile) \cup In(left)
Downstream == In(taking) \cup In(taken)

\* A file goes down once: it is not both left and taken, nor kept and left.
ApartOK ==
  /\ Upstream \cap Downstream = {}
  /\ In(left) \cap (In(source) \cup In(partial) \cup In(profile)) = {}
  /\ profile # Absent => In(source) = {} /\ In(partial) = {}

\* A copy is of what was moved aside to be taken.
CopyOK ==
  /\ copy # Absent => across /\ taken = Absent /\ taking # Absent /\ copy \subseteq taking

\* What is done was read, is of a folder made by now, and is in none of the places
\* that can still be taken from.
DoneOK ==
  /\ done \subseteq given
  /\ \A f \in made : f[2] <= gen
  /\ given \cup Upstream \cup Downstream \subseteq made
  /\ done \cap Upstream = {}
  /\ taken = Absent => done \cap In(taking) = {}

DoneInv == ApartOK /\ CopyOK /\ DoneOK

\* What an upgrade still has to hand off is whole, kept or half moved, and so is what
\* it left and what was taken of that, unless there was nothing to leave, or its
\* removal has begun.
Whole(S) == \A i \in Items : \E g \in Gens : <<i, g>> \in S
WholeInv ==
  /\ pc \in {"fill", "move", "place"} => needs
  /\ pc \notin {"down", "boot", "commit"} /\ left # Absent => ~needs
  /\ needs /\ profile = Absent /\ left = Absent => Whole(In(source) \cup In(partial))
  /\ profile # Absent => Whole(profile)
  /\ left # Absent => Whole(left) \/ left = {}
  /\ taken = Absent /\ taking # Absent => Whole(taking) \/ taking = {}
  /\ taken # Absent => Whole(taken) \/ taken \subseteq done
-----------------------------------------------------------------------------
\* A set of files is a folder that is there.
LEMMA NotAbsent == \A S \in SUBSET Files : S # Absent /\ S \in Folder /\ In(S) = S
  BY HandoffAssumption DEF In, Folder

\* A folder that is made has a file of each name, of its own making.
LEMMA MadeFacts ==
  ASSUME NEW g \in Gens
  PROVE  /\ Made(g) \subseteq Files
         /\ \A f \in Made(g) : f[2] = g
         /\ \A f, h \in Made(g) : Name(f) = Name(h) => f = h
  BY DEF Made, Files, Name

\* The places, the names and what was taken hold at the start.
LEMMA InitLost == Init => LostInv
<1> SUFFICES ASSUME Init PROVE LostInv
  OBVIOUS
<1>1. 1 \in Gens /\ In(Absent) = {}
  BY HandoffAssumption DEF Gens, In
<1>2. In(source) = Made(1) /\ source \in SUBSET Files
  BY <1>1, MadeFacts, NotAbsent DEF Init
<1>3. TypeOK
  <2>1. Made(1) \subseteq Files /\ Absent \in Folder /\ source \in Folder
    BY <1>1, <1>2, MadeFacts DEF Init, Folder
  <2>2. /\ partial \in Folder /\ profile \in Folder /\ left \in Folder
        /\ taking \in Folder /\ copy \in Folder /\ taken \in Folder
    BY <2>1 DEF Init
  <2>3. needs \in BOOLEAN /\ mounted \in BOOLEAN /\ reached \in BOOLEAN /\ across \in BOOLEAN
    BY Zenon DEF Init
  <2>4. /\ pc \in Phases /\ gen \in Gens /\ given \subseteq Files /\ done \subseteq Files
        /\ crashes \in 0..MaxCrashes
    BY <1>1, HandoffAssumption DEF Init, Phases
  <2>5. made \subseteq Files
    BY <2>1 DEF Init
  <2> QED
    BY <2>1, <2>2, <2>3, <2>4, <2>5 DEF TypeOK
<1>4. NamesOK
  BY <1>1, <1>2, MadeFacts DEF Init, NamesOK
<1> QED
  BY <1>1, <1>2, <1>3, <1>4 DEF Init, LostInv, PlacesOK, AsideOK, NothingLost, Somewhere

\* Every step keeps each file whole in a place that is looked in, or read.
LEMMA LostStep == LostInv /\ [Next]_vars => LostInv'
<1> SUFFICES ASSUME LostInv, [Next]_vars PROVE LostInv'
  OBVIOUS
<1>f. /\ source \in Folder /\ partial \in Folder /\ profile \in Folder /\ left \in Folder
      /\ taking \in Folder /\ copy \in Folder /\ taken \in Folder
  BY DEF LostInv, TypeOK
<1>a. In(Absent) = {} /\ In({}) = {} /\ {} # Absent
  BY HandoffAssumption DEF In
<1> USE <1>f, <1>a, HandoffAssumption
      DEF LostInv, TypeOK, PlacesOK, NamesOK, AsideOK, NothingLost, Somewhere,
          In, Folder, Phases, Go, disk, past
<1>1. CASE Boot
  BY <1>1 DEF Boot, SourceThere
<1>2. CASE Leave
  BY <1>2 DEF Leave, SourceThere
<1>3. CASE FillFails
  BY <1>3 DEF FillFails, SourceThere
<1>4. CASE FillNothing
  BY <1>4 DEF FillNothing, SourceThere
<1>5. CASE FillWhole
  BY <1>5 DEF FillWhole, SourceThere
<1>6. CASE FillBegins
  BY <1>6 DEF FillBegins, SourceThere
<1>7. ASSUME NEW f \in Files, MoveIn(f) PROVE LostInv'
  BY <1>7 DEF MoveIn, Names
<1>8. ASSUME NEW f \in Files, MoveRest(f) PROVE LostInv'
  BY <1>8 DEF MoveRest, Names
<1>9. CASE FillEnds
  BY <1>9 DEF FillEnds
<1>10. CASE Place
  BY <1>10 DEF Place
<1>11. CASE Commit
  <2>1. pc = "commit" /\ pc' = "up" /\ needs' = FALSE
        /\ UNCHANGED <<source, partial, profile, left, taking, copy, taken, gen, made, given, done, crashes>>
        /\ UNCHANGED <<mounted, reached, across>>
    BY <1>11 DEF Commit
  <2>2. TypeOK'
    BY <2>1
  <2>3. PlacesOK' /\ NamesOK' /\ AsideOK' /\ NothingLost'
    BY <2>1
  <2> QED BY <2>2, <2>3
<1>12. CASE Take
  BY <1>12 DEF Take
<1>13. CASE IntoWhole
  BY <1>13 DEF IntoWhole
<1>14. CASE CopyPlaced
  BY <1>14 DEF CopyPlaced
<1>15. CASE AsideGoes
  BY <1>15 DEF AsideGoes
<1>16. CASE Read
  BY <1>16 DEF Read
<1>17. CASE DoneGoes
  BY <1>17 DEF DoneGoes
<1>18. ASSUME NEW f \in Files, Copies(f) PROVE LostInv'
  BY <1>18 DEF Copies
<1>19. CASE Stop
  BY <1>19 DEF Stop
<1>20. CASE GoBackByTheBook
  BY <1>20, MadeFacts, NotAbsent DEF GoBackByTheBook, start, MadeAgain, Names, Gens
<1>21. CASE GoBack
  BY <1>21, MadeFacts, NotAbsent DEF GoBack, start, MadeAgain, Names, Gens
<1>22. CASE UNCHANGED vars
  BY <1>22 DEF vars, start
<1> QED
  BY <1>1, <1>2, <1>3, <1>4, <1>5, <1>6, <1>7, <1>8, <1>9, <1>10, <1>11, <1>12, <1>13, <1>14,
     <1>15, <1>16, <1>17, <1>18, <1>19, <1>20, <1>21, <1>22 DEF Next, UpgradeStep, ExtensionStep

\* Nothing an upgrade hands off is ever lost (leaveHandoff, moveFolderTo,
\* takeHandoff, handoffDone).
THEOREM HandoffLosesNothing == Spec => []NothingLost
<1>1. Spec => []LostInv
  BY InitLost, LostStep, PTL DEF Spec
<1> QED
  BY <1>1, PTL DEF LostInv

\* Nothing has been taken or done at the start.
LEMMA InitDone == Init => DoneInv
<1> SUFFICES ASSUME Init PROVE DoneInv
  OBVIOUS
<1>1. 1 \in Gens /\ In(Absent) = {}
  BY HandoffAssumption DEF Gens, In
<1>2. In(source) = Made(1)
  BY <1>1, MadeFacts, NotAbsent DEF Init
<1> QED
  BY <1>1, <1>2, MadeFacts DEF Init, DoneInv, ApartOK, CopyOK, DoneOK, Upstream, Downstream

\* Every step keeps what is left apart from what is taken, and what is done from both.
LEMMA DoneStep == LostInv /\ DoneInv /\ [Next]_vars => DoneInv'
<1> SUFFICES ASSUME LostInv, DoneInv, [Next]_vars PROVE DoneInv'
  OBVIOUS
<1>t. TypeOK /\ PlacesOK /\ AsideOK
  BY DEF LostInv
<1>f. /\ source \in Folder /\ partial \in Folder /\ profile \in Folder /\ left \in Folder
      /\ taking \in Folder /\ copy \in Folder /\ taken \in Folder /\ gen \in Nat
      /\ made \subseteq Files /\ given \subseteq Files
  BY <1>t DEF TypeOK, Gens
<1>a. In(Absent) = {} /\ In({}) = {} /\ {} # Absent
  BY HandoffAssumption DEF In
<1> USE <1>f, <1>a, HandoffAssumption
      DEF DoneInv, ApartOK, CopyOK, DoneOK, Upstream, Downstream, PlacesOK, AsideOK,
          In, Folder, Go, disk, past
<1>n. \A f \in made : f[2] <= gen
  BY DEF DoneInv, DoneOK
<1>1. CASE Boot
  BY <1>t, <1>1 DEF Boot, SourceThere
<1>2. CASE Leave
  BY <1>t, <1>2 DEF Leave, SourceThere
<1>3. CASE FillFails
  BY <1>t, <1>3 DEF FillFails, SourceThere
<1>4. CASE FillNothing
  BY <1>t, <1>4 DEF FillNothing, SourceThere
<1>5. CASE FillWhole
  BY <1>t, <1>5 DEF FillWhole, SourceThere
<1>6. CASE FillBegins
  BY <1>t, <1>6 DEF FillBegins, SourceThere
<1>7. ASSUME NEW f \in Files, MoveIn(f) PROVE DoneInv'
  BY <1>t, <1>7 DEF MoveIn
<1>8. ASSUME NEW f \in Files, MoveRest(f) PROVE DoneInv'
  BY <1>t, <1>8 DEF MoveRest
<1>9. CASE FillEnds
  BY <1>t, <1>9 DEF FillEnds
<1>10. CASE Place
  BY <1>t, <1>10 DEF Place
<1>11. CASE Commit
  BY <1>t, <1>11 DEF Commit
<1>12. CASE Take
  BY <1>t, <1>12 DEF Take
<1>13. CASE IntoWhole
  BY <1>t, <1>13 DEF IntoWhole
<1>14. CASE CopyPlaced
  BY <1>t, <1>14 DEF CopyPlaced
<1>15. CASE AsideGoes
  BY <1>t, <1>15 DEF AsideGoes
<1>16. CASE Read
  BY <1>t, <1>16 DEF Read
<1>17. CASE DoneGoes
  BY <1>t, <1>17 DEF DoneGoes
<1>18. ASSUME NEW f \in Files, Copies(f) PROVE DoneInv'
  BY <1>t, <1>18 DEF Copies
<1>19. CASE Stop
  BY <1>t, <1>19 DEF Stop
<1>m. ASSUME NEW there \in SUBSET made, MadeAgain(there)
      PROVE  /\ gen' = gen + 1 /\ In(source') = source' /\ made \subseteq made'
             /\ source' \subseteq there \cup (made' \ made) /\ made' \ made \subseteq source'
             /\ source' \subseteq made'
             /\ \A f \in made' : f[2] <= gen'
  <2>1. gen + 1 \in Gens
    BY <1>m, <1>f DEF MadeAgain, Gens
  <2>2. Made(gen + 1) \subseteq Files /\ \A f \in Made(gen + 1) : f[2] = gen + 1
    BY <2>1, MadeFacts
  <2>3. Made(gen + 1) \cap made = {}
    BY <2>2, <1>n, <1>f
  <2>4. source' \in SUBSET Files /\ source' \subseteq there \cup Made(gen + 1) /\ source' \subseteq made'
    BY <1>m, <1>f, <2>2 DEF MadeAgain
  <2>5. made' \subseteq made \cup Made(gen + 1) /\ \A f \in made' : f[2] <= gen + 1
    <3>1. \A f \in made : f[2] \in Nat
      BY <1>f DEF Files, Gens
    <3>2. \A f \in made \cup Made(gen + 1) : f[2] <= gen + 1
      BY <3>1, <1>n, <1>f, <2>2
    <3> QED
      BY <3>2, <1>m DEF MadeAgain
  <2>6. In(source') = source'
    BY <2>4, NotAbsent
  <2> QED
    BY <1>m, <2>2, <2>3, <2>4, <2>5, <2>6 DEF MadeAgain
<1>20. CASE GoBackByTheBook
  <2>1. Somewhere \ given \in SUBSET made
    BY DEF Somewhere, DoneInv, DoneOK, Upstream, Downstream
  <2>2. PICK there \in SUBSET made : there = Somewhere \ given /\ MadeAgain(there)
    BY <1>20, <2>1 DEF GoBackByTheBook
  <2>3. /\ gen' = gen + 1 /\ In(source') = source' /\ made \subseteq made' /\ source' \subseteq made'
        /\ source' \subseteq there \cup (made' \ made) /\ \A f \in made' : f[2] <= gen'
    BY <1>m, <2>2
  <2>4. /\ In(partial') = {} /\ In(profile') = {} /\ In(left') = {} /\ In(taking') = {} /\ In(taken') = {}
        /\ profile' = Absent /\ copy' = Absent /\ given' = given /\ done' = done
    BY <1>20, <1>a DEF GoBackByTheBook
  <2> QED
    BY <2>2, <2>3, <2>4
<1>21. CASE GoBack
  <2>1. In(source) \in SUBSET made
    BY DEF DoneInv, DoneOK, Upstream
  <2>2. PICK there \in SUBSET made : there = In(source) /\ MadeAgain(there)
    BY <1>21, <2>1 DEF GoBack
  <2>3. /\ gen' = gen + 1 /\ In(source') = source' /\ made \subseteq made' /\ source' \subseteq made'
        /\ source' \subseteq there \cup (made' \ made) /\ \A f \in made' : f[2] <= gen'
    BY <1>m, <2>2
  <2>4. /\ In(partial') = {} /\ In(profile') = {} /\ In(left') = {} /\ In(taking') = In(taking)
        /\ In(taken') = In(taken) /\ taking' = taking /\ taken' = taken /\ across' = across
        /\ profile' = Absent /\ copy' = copy /\ given' = given /\ done' = done
    BY <1>21, <1>a DEF GoBack, start
  <2> QED
    BY <2>2, <2>3, <2>4
<1>22. CASE UNCHANGED vars
  BY <1>n, <1>22 DEF vars, start
<1> QED
  BY <1>1, <1>2, <1>3, <1>4, <1>5, <1>6, <1>7, <1>8, <1>9, <1>10, <1>11, <1>12, <1>13, <1>14,
     <1>15, <1>16, <1>17, <1>18, <1>19, <1>20, <1>21, <1>22 DEF Next, UpgradeStep, ExtensionStep

\* What the extension has read and begun to remove does not come into its folder
\* again, after whatever stop or return to an older version (takeHandoff,
\* handoffDone).
THEOREM HandoffDoneOnce == Spec => DoneOnce
<1> DEFINE Again == \E f \in done : f \in In(taken') /\ f \notin In(taken)
<1>1. LostInv /\ DoneInv /\ [Next]_vars => ~Again
  <2> SUFFICES ASSUME LostInv, DoneInv, [Next]_vars PROVE ~Again
    OBVIOUS
  <2>t. TypeOK /\ PlacesOK
    BY DEF LostInv
  <2>a. In(Absent) = {} /\ In({}) = {}
    BY HandoffAssumption DEF In
  <2>1. CASE taken' = taken
    BY <2>1
  <2>2. CASE IntoWhole
    BY <2>t, <2>2 DEF IntoWhole, PlacesOK, DoneInv, DoneOK, In
  <2>3. CASE CopyPlaced
    BY <2>t, <2>a, <2>3 DEF CopyPlaced, PlacesOK, DoneInv, DoneOK, CopyOK, In
  <2>4. CASE DoneGoes
    BY <2>t, <2>a, <2>4 DEF DoneGoes, PlacesOK, In
  <2>5. CASE GoBackByTheBook
    BY <2>a, <2>5 DEF GoBackByTheBook
  <2> QED
    BY <2>1, <2>2, <2>3, <2>4, <2>5 DEF Next, UpgradeStep, ExtensionStep, Boot, Leave, FillFails,
       FillNothing, FillWhole, FillBegins, MoveIn, MoveRest, FillEnds, Place, Commit, Take, AsideGoes,
       Read, Copies, Stop, GoBack, vars, disk, past
<1>2. LostInv /\ DoneInv /\ [Next]_vars => [\A f \in done : f \in In(taken') => f \in In(taken)]_vars
  BY <1>1
<1>3. Init /\ [][Next]_vars => [](LostInv /\ DoneInv)
  BY InitLost, LostStep, InitDone, DoneStep, PTL
<1> QED
  BY <1>2, <1>3, PTL DEF Spec, DoneOnce

\* The folder is whole at the start.
LEMMA InitWhole == Init => WholeInv
<1>1. 1 \in Gens /\ Whole(Made(1))
  BY HandoffAssumption DEF Gens, Made, Whole
<1>2. Init => In(source) = Made(1)
  BY <1>1, MadeFacts, NotAbsent DEF Init
<1> QED
  BY <1>1, <1>2 DEF Init, WholeInv, Whole

\* Every step keeps what is to be handed off whole.
LEMMA WholeStep == LostInv /\ DoneInv /\ WholeInv /\ [Next]_vars => WholeInv'
<1> SUFFICES ASSUME LostInv, DoneInv, WholeInv, [Next]_vars PROVE WholeInv'
  OBVIOUS
<1>t. PlacesOK /\ NamesOK /\ CopyOK
  BY DEF LostInv, DoneInv
<1>f. /\ source \in Folder /\ partial \in Folder /\ profile \in Folder /\ left \in Folder
      /\ taking \in Folder /\ copy \in Folder /\ taken \in Folder /\ gen \in Gens
  BY DEF LostInv, TypeOK
<1>a. In(Absent) = {} /\ In({}) = {} /\ {} # Absent
  BY HandoffAssumption DEF In
<1>m. ASSUME NEW there \in SUBSET Files, MadeAgain(there)
      PROVE  Whole(In(source'))
  <2>1. gen + 1 \in Gens
    BY <1>f, <1>m, HandoffAssumption DEF MadeAgain, Gens
  <2>2. \A i \in Items : \E g \in Gens : <<i, g>> \in source'
    BY <1>m, <2>1 DEF MadeAgain, Made, Names, Name, Files
  <2>3. source' \in SUBSET Files
    BY <1>m, <2>1, MadeFacts DEF MadeAgain
  <2> QED
    BY <2>2, <2>3, NotAbsent DEF Whole
<1> USE <1>f, <1>a, HandoffAssumption
      DEF WholeInv, Whole, PlacesOK, In, Folder, Go, disk, past
<1>1. CASE Boot
  BY <1>t, <1>1 DEF Boot
<1>2. CASE Leave
  BY <1>t, <1>2 DEF Leave
<1>3. CASE FillFails
  BY <1>t, <1>3 DEF FillFails
<1>4. CASE FillNothing
  BY <1>t, <1>4 DEF FillNothing, SourceThere
<1>5. CASE FillWhole
  BY <1>t, <1>5 DEF FillWhole, SourceThere
<1>6. CASE FillBegins
  BY <1>t, <1>6 DEF FillBegins, SourceThere
<1>7. ASSUME NEW f \in Files, MoveIn(f) PROVE WholeInv'
  BY <1>t, <1>7 DEF MoveIn
<1>8. ASSUME NEW f \in Files, MoveRest(f) PROVE WholeInv'
  BY <1>t, <1>8 DEF MoveRest, NamesOK, Names
<1>9. CASE FillEnds
  BY <1>t, <1>9 DEF FillEnds
<1>10. CASE Place
  BY <1>t, <1>10 DEF Place
<1>11. CASE Commit
  BY <1>t, <1>11 DEF Commit
<1>12. CASE Take
  BY <1>t, <1>12 DEF Take
<1>13. CASE IntoWhole
  BY <1>t, <1>13 DEF IntoWhole
<1>14. CASE CopyPlaced
  BY <1>t, <1>14 DEF CopyPlaced, CopyOK
<1>15. CASE AsideGoes
  BY <1>t, <1>15 DEF AsideGoes
<1>16. CASE Read
  BY <1>t, <1>16 DEF Read
<1>17. CASE DoneGoes
  BY <1>t, <1>17 DEF DoneGoes
<1>18. ASSUME NEW f \in Files, Copies(f) PROVE WholeInv'
  BY <1>t, <1>18 DEF Copies
<1>19. CASE Stop
  BY <1>t, <1>19 DEF Stop
<1>20. CASE GoBackByTheBook
  <2>1. PICK there \in SUBSET Files : MadeAgain(there)
    BY <1>20 DEF GoBackByTheBook, Somewhere
  <2> QED
    BY <1>m, <1>20, <2>1 DEF GoBackByTheBook, start
<1>21. CASE GoBack
  <2>1. PICK there \in SUBSET Files : MadeAgain(there)
    BY <1>21 DEF GoBack
  <2> QED
    BY <1>m, <1>21, <2>1 DEF GoBack, start
<1>22. CASE UNCHANGED vars
  BY <1>22 DEF vars, start
<1> QED
  BY <1>1, <1>2, <1>3, <1>4, <1>5, <1>6, <1>7, <1>8, <1>9, <1>10, <1>11, <1>12, <1>13, <1>14,
     <1>15, <1>16, <1>17, <1>18, <1>19, <1>20, <1>21, <1>22 DEF Next, UpgradeStep, ExtensionStep

\* What an extension reads of a hand-off is all of it (moveFolderTo and moveTo put a
\* folder in place once it is whole; a removal cut off half way is not read).
THEOREM HandoffReadWhole == Spec => ReadWhole
<1>1. /\ LostInv /\ WholeInv /\ [Next]_vars
      => [given' # given => \A i \in Items : \E g \in Gens : <<i, g>> \in taken]_vars
  <2> SUFFICES ASSUME LostInv, WholeInv, [Next]_vars, given' # given
               PROVE  Whole(taken)
    BY DEF Whole
  <2>1. Read
    BY DEF Next, UpgradeStep, ExtensionStep, Boot, Leave, FillFails, FillNothing, FillWhole,
       FillBegins, MoveIn, MoveRest, FillEnds, Place, Commit, Take, IntoWhole, CopyPlaced,
       AsideGoes, DoneGoes, Copies, Stop, GoBackByTheBook, GoBack, vars, past
  <2>2. pc = "read" /\ ~Spoilt /\ given' = given \cup taken
    BY <2>1 DEF Read, past
  <2>3. taken # Absent
    BY <2>2 DEF LostInv, PlacesOK
  <2>4. taken \subseteq done => taken = {}
    BY <2>2, <2>3 DEF Spoilt, In
  <2> QED
    BY <2>2, <2>3, <2>4 DEF WholeInv
<1>2. Init /\ [][Next]_vars => [](LostInv /\ DoneInv /\ WholeInv)
  BY InitLost, LostStep, InitDone, DoneStep, InitWhole, WholeStep, PTL
<1> QED
  BY <1>1, <1>2, PTL DEF Spec, ReadWhole
-----------------------------------------------------------------------------
(* The lock on the data directory. *)

Sound == ~Overlap \/ "file" \in Broken \/ Places = <<"named">>

\* What it rests on.  All that get anywhere are at the first place that works; who
\* listens there has the address; and who clears it is alone, with nobody up.
FirstThatWorks ==
  \A p \in Servers :
    /\ place[p] = 2 => Places[1] \in Broken
    /\ stage[p] \in {"listen", "probe", "clear", "up"} => At(p) \notin Broken
HeldByItsOwn == \A p \in Servers : stage[p] \in {"listen", "up"} => Holder(p) = p
StartsAlone  == ~Overlap => \A p, q \in Servers : stage[p] \in Starting /\ stage[q] \in Starting => p = q
ClearsAlone  ==
  \A p \in Servers : stage[p] = "clear" => At(p) = "file" /\ ~Overlap /\ \A q \in Servers : stage[q] # "up"

IInv == LockTypeOK /\ FirstThatWorks /\ HeldByItsOwn /\ StartsAlone /\ ClearsAlone

-----------------------------------------------------------------------------
\* The places there can be.
LEMMA PlacesAre ==
  /\ Len(Places) \in {1, 2}
  /\ \A i \in 1..Len(Places) : i \in {1, 2} /\ Places[i] \in {"file", "named"}
  /\ \A i \in 1..Len(Places) : i < Len(Places) => i = 1 /\ i + 1 = 2 /\ i + 1 \in 1..Len(Places)
  /\ 1 \in 1..Len(Places)
  <1>1. CASE Places = <<"file", "named">>
    BY <1>1
  <1>2. CASE Places = <<"named">>
    BY <1>2
  <1> QED BY <1>1, <1>2, PlacesAssumption

\* The invariant holds at first.
LEMMA InitIInv == LockInit => IInv
  BY PlacesAre
  DEF LockInit, IInv, LockTypeOK, FirstThatWorks, HeldByItsOwn, StartsAlone, ClearsAlone, Stages, Starting

\* What holding the data takes of a place and its address, for the server that
\* tries it: the rest are left as they were.
LEMMA NextPlaceMoves ==
  ASSUME LockTypeOK, NEW p \in Servers, NextPlace(p)
  PROVE  /\ \/ stage' = [stage EXCEPT ![p] = "failed"] /\ place' = place /\ attempt' = attempt
            \/ /\ stage' = [stage EXCEPT ![p] = "bind"] /\ place[p] = 1
               /\ place' = [place EXCEPT ![p] = 2] /\ 2 \in 1..Len(Places)
               /\ attempt' = [attempt EXCEPT ![p] = 0]
  BY PlacesAre DEF LockTypeOK, NextPlace, Moves

\* Every step keeps the types.
LEMMA TypeStep == LockTypeOK /\ [LockNext]_lockVars => LockTypeOK'
<1> SUFFICES ASSUME LockTypeOK, [LockNext]_lockVars PROVE LockTypeOK'
  OBVIOUS
<1> USE DEF LockTypeOK, Stages, Starting
<1>1. ASSUME NEW p \in Servers, Start(p) PROVE LockTypeOK'
  BY <1>1, PlacesAre DEF Start, Moves
<1>2. ASSUME NEW p \in Servers, Bind(p) PROVE LockTypeOK'
  <2>1. CASE At(p) \in Broken
    <3>1. NextPlace(p) /\ UNCHANGED <<file, name>>
      BY <1>2, <2>1 DEF Bind
    <3> QED BY <3>1, NextPlaceMoves
  <2>2. CASE At(p) \notin Broken
    BY <1>2, <2>2 DEF Bind, Moves
  <2> QED BY <2>1, <2>2
<1>3. ASSUME NEW p \in Servers, Listen(p) PROVE LockTypeOK'
  BY <1>3 DEF Listen, Moves
<1>4. ASSUME NEW p \in Servers, Probe(p) PROVE LockTypeOK'
  BY <1>4 DEF Probe, Moves
<1>5. ASSUME NEW p \in Servers, Clear(p) PROVE LockTypeOK'
  BY <1>5 DEF Clear, Moves
<1>6. ASSUME NEW p \in Servers, End(p) PROVE LockTypeOK'
  BY <1>6 DEF End, Moves
<1>7. CASE UNCHANGED lockVars
  BY <1>7 DEF lockVars
<1> QED BY <1>1, <1>2, <1>3, <1>4, <1>5, <1>6, <1>7 DEF LockNext, HoldDataDir

-----------------------------------------------------------------------------
\* Two that get anywhere are at the same place.
LEMMA SamePlace ==
  ASSUME LockTypeOK, FirstThatWorks, NEW p \in Servers, NEW q \in Servers,
         stage[p] \in {"listen", "probe", "clear", "up"}, stage[q] \in {"listen", "probe", "clear", "up"}
  PROVE  At(p) = At(q)
  <1>1. place[p] \in {1, 2} /\ place[q] \in {1, 2}
    BY PlacesAre DEF LockTypeOK
  <1> QED BY <1>1 DEF FirstThatWorks, At

\* One has the data where each that listens has the address.
LEMMA HoldersAreOne == LockTypeOK /\ FirstThatWorks /\ HeldByItsOwn => OneServer
  <1> SUFFICES ASSUME LockTypeOK, FirstThatWorks, HeldByItsOwn,
                      NEW p \in Servers, NEW q \in Servers, stage[p] = "up", stage[q] = "up"
               PROVE  p = q
    BY DEF OneServer
  <1>1. At(p) = At(q)
    BY SamePlace
  <1> QED BY <1>1 DEF HeldByItsOwn, Holder

\* Every step keeps those that get anywhere at the first place that works.
LEMMA FirstStep == IInv /\ [LockNext]_lockVars => FirstThatWorks'
<1> SUFFICES ASSUME IInv, [LockNext]_lockVars PROVE FirstThatWorks'
  OBVIOUS
<1> USE DEF IInv, LockTypeOK, FirstThatWorks, At
<1>1. ASSUME NEW p \in Servers, Start(p) PROVE FirstThatWorks'
  BY <1>1 DEF Start, Moves
<1>2. ASSUME NEW p \in Servers, Bind(p) PROVE FirstThatWorks'
  <2>1. CASE At(p) \in Broken
    <3>1. NextPlace(p)
      BY <1>2, <2>1 DEF Bind
    <3> QED BY <2>1, <3>1, NextPlaceMoves
  <2>2. CASE At(p) \notin Broken
    BY <1>2, <2>2 DEF Bind, Moves
  <2> QED BY <2>1, <2>2
<1>3. ASSUME NEW p \in Servers, Listen(p) PROVE FirstThatWorks'
  BY <1>3 DEF Listen, Moves
<1>4. ASSUME NEW p \in Servers, Probe(p) PROVE FirstThatWorks'
  BY <1>4 DEF Probe, Moves
<1>5. ASSUME NEW p \in Servers, Clear(p) PROVE FirstThatWorks'
  BY <1>5 DEF Clear, Moves
<1>6. ASSUME NEW p \in Servers, End(p) PROVE FirstThatWorks'
  BY <1>6 DEF End, Moves
<1>7. CASE UNCHANGED lockVars
  BY <1>7 DEF lockVars
<1> QED BY <1>1, <1>2, <1>3, <1>4, <1>5, <1>6, <1>7 DEF LockNext, HoldDataDir

\* Every step keeps the address with who listens there: it is cleared under nobody.
LEMMA HeldStep == IInv /\ [LockNext]_lockVars => HeldByItsOwn'
<1> SUFFICES ASSUME IInv, [LockNext]_lockVars PROVE HeldByItsOwn'
  OBVIOUS
<1> USE ServersAssumption DEF IInv, LockTypeOK, HeldByItsOwn, Holder, At
<1>1. ASSUME NEW p \in Servers, Start(p) PROVE HeldByItsOwn'
  BY <1>1 DEF Start, Moves
<1>2. ASSUME NEW p \in Servers, Bind(p) PROVE HeldByItsOwn'
  <2>1. CASE At(p) \in Broken
    <3>1. NextPlace(p) /\ UNCHANGED <<file, name>>
      BY <1>2, <2>1 DEF Bind
    <3> QED BY <3>1, NextPlaceMoves
  <2>2. CASE At(p) \notin Broken
    BY <1>2, <2>2, PlacesAre DEF Bind, Moves
  <2> QED BY <2>1, <2>2
<1>3. ASSUME NEW p \in Servers, Listen(p) PROVE HeldByItsOwn'
  BY <1>3 DEF Listen, Moves
<1>4. ASSUME NEW p \in Servers, Probe(p) PROVE HeldByItsOwn'
  BY <1>4 DEF Probe, Moves
<1>5. ASSUME NEW p \in Servers, Clear(p) PROVE HeldByItsOwn'
  \* Nobody is up, and nobody else is starting.
  <2>1. \A q \in Servers : stage'[q] \notin {"listen", "up"}
    BY <1>5 DEF Clear, Moves, ClearsAlone, StartsAlone, Starting
  <2> QED BY <2>1
<1>6. ASSUME NEW p \in Servers, End(p) PROVE HeldByItsOwn'
  BY <1>6 DEF End, Moves
<1>7. CASE UNCHANGED lockVars
  BY <1>7 DEF lockVars
<1> QED BY <1>1, <1>2, <1>3, <1>4, <1>5, <1>6, <1>7 DEF LockNext, HoldDataDir

\* Every step keeps a start alone, where starts do not overlap.
LEMMA StartsStep == IInv /\ [LockNext]_lockVars => StartsAlone'
<1> SUFFICES ASSUME IInv, [LockNext]_lockVars, ~Overlap PROVE StartsAlone'
  BY DEF StartsAlone
<1> USE DEF IInv, LockTypeOK, StartsAlone, Starting
<1>1. ASSUME NEW p \in Servers, Start(p) PROVE StartsAlone'
  BY <1>1 DEF Start, Moves
<1>2. ASSUME NEW p \in Servers, Bind(p) PROVE StartsAlone'
  BY <1>2, NextPlaceMoves DEF Bind, Moves
<1>3. ASSUME NEW p \in Servers, Listen(p) PROVE StartsAlone'
  BY <1>3 DEF Listen, Moves
<1>4. ASSUME NEW p \in Servers, Probe(p) PROVE StartsAlone'
  BY <1>4 DEF Probe, Moves
<1>5. ASSUME NEW p \in Servers, Clear(p) PROVE StartsAlone'
  BY <1>5 DEF Clear, Moves
<1>6. ASSUME NEW p \in Servers, End(p) PROVE StartsAlone'
  BY <1>6 DEF End, Moves
<1>7. CASE UNCHANGED lockVars
  BY <1>7 DEF lockVars
<1> QED BY <1>1, <1>2, <1>3, <1>4, <1>5, <1>6, <1>7 DEF LockNext, HoldDataDir

\* A place that works and is the directory has no servers starting beside it.
LEMMA FileIsAlone ==
  ASSUME Sound, LockTypeOK, NEW p \in Servers, At(p) = "file", At(p) \notin Broken
  PROVE  ~Overlap
  <1>1. CASE Places = <<"named">>
    BY <1>1 DEF At, LockTypeOK
  <1> QED BY <1>1 DEF Sound

\* A socket is cleared only while nobody is up: it was silent, and the one place that
\* works is the one place another could be up at.
LEMMA ClearsStep == Sound /\ IInv /\ [LockNext]_lockVars => ClearsAlone'
<1> SUFFICES ASSUME Sound, IInv, [LockNext]_lockVars PROVE ClearsAlone'
  OBVIOUS
<1> USE DEF IInv, LockTypeOK, ClearsAlone, At
<1>1. ASSUME NEW p \in Servers, Start(p) PROVE ClearsAlone'
  BY <1>1 DEF Start, Moves
<1>2. ASSUME NEW p \in Servers, Bind(p) PROVE ClearsAlone'
  <2>1. CASE At(p) \in Broken
    <3>1. NextPlace(p)
      BY <1>2, <2>1 DEF Bind
    <3> QED BY <3>1, NextPlaceMoves
  <2>2. CASE At(p) \notin Broken
    BY <1>2, <2>2 DEF Bind, Moves
  <2> QED BY <2>1, <2>2
<1>3. ASSUME NEW p \in Servers, Listen(p) PROVE ClearsAlone'
  \* It was starting, so nobody is clearing.
  <2>1. \A q \in Servers : stage[q] # "clear"
    BY <1>3 DEF Listen, StartsAlone, Starting
  <2> QED BY <1>3, <2>1 DEF Listen, Moves
<1>4. ASSUME NEW p \in Servers, Probe(p) PROVE ClearsAlone'
  <2>1. CASE stage'[p] # "clear"
    BY <1>4, <2>1 DEF Probe, Moves
  <2>2. CASE stage'[p] = "clear"
    <3>1. stage[p] = "probe" /\ At(p) = "file" /\ ~Answers(p) /\ UNCHANGED <<place, attempt, file, name>>
      BY <1>4, <2>2 DEF Probe, Moves
    <3>2. ~Overlap
      BY <3>1, FileIsAlone DEF FirstThatWorks
    <3>3. \A q \in Servers : stage[q] # "up"
      <4> SUFFICES ASSUME NEW q \in Servers, stage[q] = "up" PROVE FALSE
        OBVIOUS
      <4>1. At(q) = At(p)
        BY <3>1, SamePlace
      <4>2. Holder(p) = q
        BY <4>1 DEF HeldByItsOwn, Holder
      <4> QED BY <3>1, <4>2 DEF Answers
    <3>4. \A q \in Servers : stage[q] = "clear" => q = p
      BY <3>1, <3>2 DEF StartsAlone, Starting
    <3>5. stage' = [stage EXCEPT ![p] = "clear"]
      BY <1>4, <2>2 DEF Probe, Moves
    <3> QED BY <3>1, <3>2, <3>3, <3>4, <3>5
  <2> QED BY <2>1, <2>2
<1>5. ASSUME NEW p \in Servers, Clear(p) PROVE ClearsAlone'
  BY <1>5 DEF Clear, Moves
<1>6. ASSUME NEW p \in Servers, End(p) PROVE ClearsAlone'
  BY <1>6 DEF End, Moves
<1>7. CASE UNCHANGED lockVars
  BY <1>7 DEF lockVars
<1> QED BY <1>1, <1>2, <1>3, <1>4, <1>5, <1>6, <1>7 DEF LockNext, HoldDataDir

-----------------------------------------------------------------------------
\* One server has the data (holdDataDir), whatever the servers before it left and
\* wherever they were killed, if none is started while another is starting, or if
\* the socket is the named one.
THEOREM OneHolder == Sound => (LockSpec => []OneServer)
<1> SUFFICES ASSUME Sound PROVE LockSpec => []OneServer
  OBVIOUS
<1>1. LockInit => IInv
  BY InitIInv
<1>2. IInv /\ [LockNext]_lockVars => IInv'
  BY TypeStep, FirstStep, HeldStep, StartsStep, ClearsStep DEF IInv
<1>3. IInv => OneServer
  BY HoldersAreOne DEF IInv
<1> QED BY <1>1, <1>2, <1>3, PTL DEF LockSpec

-----------------------------------------------------------------------------
\* Servers started one after another on a directory that has sockets: what the code
\* comes to outside Windows.  A named socket that is found in use and let go of before
\* it is asked turns its finder away with nobody there.
FileAlone == ~Overlap /\ Places[1] = "file" /\ "file" \notin Broken

\* What keeps a second try from failing: the first cleared the socket away, nobody
\* else has come since, and so it binds.
SecondTry ==
  FileAlone => \A p \in Servers : attempt[p] = 1 => (stage[p] = "bind" => file = Nobody) /\ stage[p] # "probe"

\* At the first place, whoever tries one: it is the directory's, and works.
LEMMA AtFile ==
  ASSUME FileAlone, IInv, NEW p \in Servers
  PROVE  At(p) = "file" /\ At(p) \notin Broken /\ Holder(p) = file
  <1>1. place[p] \in {1, 2}
    BY PlacesAre DEF IInv, LockTypeOK
  <1> QED BY <1>1 DEF IInv, FirstThatWorks, FileAlone, At, Holder

\* Every step keeps a second try sure of its place.
LEMMA SecondStep == IInv /\ SecondTry /\ [LockNext]_lockVars => SecondTry'
<1> SUFFICES ASSUME IInv, SecondTry, [LockNext]_lockVars, FileAlone PROVE SecondTry'
  BY DEF SecondTry
<1> USE DEF IInv, LockTypeOK, SecondTry
<1>a. ~Overlap
  BY DEF FileAlone
<1>1. ASSUME NEW p \in Servers, Start(p) PROVE SecondTry'
  BY <1>1 DEF Start, Moves
<1>2. ASSUME NEW p \in Servers, Bind(p) PROVE SecondTry'
  \* Nobody else is binding.
  <2>1. \A q \in Servers : stage[q] = "bind" => q = p
    BY <1>2, <1>a DEF Bind, StartsAlone, Starting
  <2>2. At(p) = "file" /\ At(p) \notin Broken /\ Holder(p) = file
    BY AtFile
  <2>3. attempt[p] = 1 => file = Nobody
    BY <1>2 DEF Bind
  <2>4. stage' = [stage EXCEPT ![p] = IF file = Nobody THEN "listen" ELSE "probe"] /\ attempt' = attempt
    BY <1>2, <2>2 DEF Bind, Moves
  <2> QED BY <2>1, <2>3, <2>4
<1>3. ASSUME NEW p \in Servers, Listen(p) PROVE SecondTry'
  BY <1>3 DEF Listen, Moves
<1>4. ASSUME NEW p \in Servers, Probe(p) PROVE SecondTry'
  BY <1>4 DEF Probe, Moves
<1>5. ASSUME NEW p \in Servers, Clear(p) PROVE SecondTry'
  BY <1>5 DEF Clear, Moves
<1>6. ASSUME NEW p \in Servers, End(p) PROVE SecondTry'
  BY <1>6, ServersAssumption DEF End, Moves
<1>7. CASE UNCHANGED lockVars
  BY <1>7 DEF lockVars
<1> QED BY <1>1, <1>2, <1>3, <1>4, <1>5, <1>6, <1>7 DEF LockNext, HoldDataDir

\* It holds at first.
LEMMA InitSecond == LockInit => SecondTry
  BY DEF LockInit, SecondTry

\* A server is turned away, or fails to start, only where another has the data or is
\* taking it (holdDataDir): nothing that a dead one left in the directory keeps the
\* next one out, if it is started on its own and the directory has sockets.
THEOREM NothingKeepsOut == FileAlone => (LockSpec => NothingLeftKeepsOut)
<1> SUFFICES ASSUME FileAlone PROVE LockSpec => NothingLeftKeepsOut
  OBVIOUS
<1>0. Sound
  BY DEF FileAlone, Sound
<1>1. LockInit => IInv /\ SecondTry
  BY InitIInv, InitSecond
<1>2. IInv /\ SecondTry /\ [LockNext]_lockVars => (IInv /\ SecondTry)'
  BY <1>0, TypeStep, FirstStep, HeldStep, StartsStep, ClearsStep, SecondStep DEF IInv
<1>3. ASSUME IInv, SecondTry, [LockNext]_lockVars
      PROVE  [\A p \in Servers :
                stage[p] \in Starting /\ stage'[p] \in {"refused", "failed"}
                  => \E q \in Servers \ {p} : stage[q] \in Starting \cup {"up"}]_lockVars
  <2> SUFFICES ASSUME NEW p \in Servers, stage[p] \in Starting, stage'[p] \in {"refused", "failed"}
               PROVE  \E q \in Servers \ {p} : stage[q] \in Starting \cup {"up"}
    OBVIOUS
  <2> USE DEF IInv, LockTypeOK
  <2>1. At(p) = "file" /\ At(p) \notin Broken /\ Holder(p) = file
    BY <1>3, AtFile
  <2>2. PICK r \in Servers : Start(r) \/ Bind(r) \/ Listen(r) \/ Probe(r) \/ Clear(r) \/ End(r)
    BY <1>3 DEF LockNext, HoldDataDir, lockVars, Starting
  <2>3. r = p /\ Probe(p)
    <3>1. At(r) \notin Broken
      BY <1>3, AtFile
    <3> QED BY <2>2, <3>1, <1>3 DEF Start, Bind, Listen, Probe, Clear, End, Moves, Starting
  \* The first try: had nobody answered, it would have cleared the socket away.
  <2>4. attempt[p] = 0
    BY <2>3, <1>3 DEF SecondTry, Probe
  <2>5. Answers(p)
    BY <2>1, <2>3, <2>4, <1>3 DEF Probe, Moves
  <2>6. file \in Servers /\ stage[file] = "up" /\ stage[p] = "probe"
    BY <2>1, <2>3, <2>5 DEF Answers, Probe
  <2> QED BY <2>6
<1> QED BY <1>1, <1>2, <1>3, PTL DEF LockSpec, NothingLeftKeepsOut
=============================================================================
