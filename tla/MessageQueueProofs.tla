-------------------------- MODULE MessageQueueProofs --------------------------
(* That messages go to pi one at a time, that each is placed in the chat by its own
   reading, that the account of them on the page is Delivery's, that what waits at
   rest is what pi holds, and that the chat is shown to work while pi does: for any
   number of messages, of Stops and of presses that take a message back, in any
   interleaving.

   Of a chat where pi starts no run that no message asked for, no preflight outlasts
   the five seconds a Stop waits for it, no Stop comes while a message is on its way
   to an idle pi, and no two messages can come to the same words (Tidy): without
   these some of what is stated here is refuted by a run.                       *)
EXTENDS MessageQueue, WellFoundedInduction, SequenceTheorems, FiniteSetTheorems, TLAPS

-----------------------------------------------------------------------------
(* Lists: what is in one, and what the folds of the model keep of one. *)

\* A set of numbers has a least.
LEMMA Least == ASSUME NEW T, T \subseteq Nat, T # {} PROVE \E n \in T : \A m \in T : n <= m
<1> DEFINE R == OpToRel(<, Nat)
<1>1. IsWellFoundedOn(R, Nat)
  BY NatLessThanWellFounded
<1>2. \A x, y \in Nat : x < y => <<x, y>> \in R
  BY DEF OpToRel
<1> HIDE DEF R
<1>3. PICK x \in T : \A y \in T : ~ (<<y, x>> \in R)
  BY <1>1, WFMin
<1>4. ASSUME NEW m \in T PROVE x <= m
  <2>1. m \in Nat /\ x \in Nat
    BY <1>3
  <2>2. ~ (m < x)
    BY <1>2, <1>3, <2>1
  <2> QED BY <2>1, <2>2
<1> QED BY <1>3, <1>4

\* Induction, over a set in place of a predicate.
LEMMA Induct == ASSUME NEW T, 0 \in T, \A n \in Nat : n \in T => n + 1 \in T PROVE Nat \subseteq T
<1> SUFFICES ASSUME Nat \ T # {} PROVE FALSE
  OBVIOUS
<1>1. PICK n \in Nat \ T : \A m \in Nat \ T : n <= m
  BY Least
<1>2. n # 0 /\ n - 1 \in Nat /\ (n - 1) + 1 = n
  BY <1>1
<1>3. n - 1 \in T
  BY <1>1, <1>2
<1> QED BY <1>1, <1>2, <1>3

\* The least of a set of positions, which SelectInSeq finds.
LEMMA MinIs == ASSUME NEW I, I \subseteq Nat, I # {} PROVE Min(I) \in I /\ \A i \in I : Min(I) <= i
<1>1. \E n \in I : \A m \in I : n <= m
  BY Least
<1> QED BY <1>1 DEF Min

\* The greatest of the positions up to one, which FoldLeft comes to last.
LEMMA MaxIs == ASSUME NEW S, NEW x \in S, S \subseteq Int, \A y \in S : x >= y PROVE Max(S) = x
<1>1. \A z \in S : (\A y \in S : z >= y) => z = x
  OBVIOUS
<1> QED BY <1>1 DEF Max

\* The greatest of the numbers up to n, and the others.
LEMMA MaxTo == ASSUME NEW n \in Nat, n # 0 PROVE Max(1..n) = n /\ (1..n) \ {n} = 1..(n - 1)
<1>1. n \in 1..n /\ (1..n) \subseteq Int /\ \A y \in 1..n : n >= y
  OBVIOUS
<1>2. Max(1..n) = n
  BY <1>1, MaxIs
<1> QED BY <1>2

\* A set of numbers that has one has a greatest.
LEMMA MaxIn == ASSUME NEW n \in Nat, NEW S \in SUBSET (1..n), S # {} PROVE Max(S) \in S
<1> DEFINE T == {k \in Nat : \A U \in SUBSET (1..k) : U # {} => \E x \in U : \A y \in U : x >= y}
<1>1. 0 \in T
  <2>1. 1..0 = {}
    OBVIOUS
  <2> QED BY <2>1
<1>2. ASSUME NEW k \in Nat, k \in T PROVE k + 1 \in T
  <2> SUFFICES ASSUME NEW U \in SUBSET (1..(k + 1)), U # {} PROVE \E x \in U : \A y \in U : x >= y
    OBVIOUS
  <2>1. CASE k + 1 \in U
    BY <2>1
  <2>2. CASE k + 1 \notin U
    <3>1. U \in SUBSET (1..k)
      BY <2>2
    <3> QED BY <1>2, <3>1
  <2> QED BY <2>1, <2>2
<1> HIDE DEF T
<1>3. n \in T
  BY <1>1, <1>2, Induct
<1>4. PICK x \in S : \A y \in S : x >= y
  BY <1>3 DEF T
<1>5. S \subseteq Int
  OBVIOUS
<1>6. Max(S) = x
  BY <1>4, <1>5, MaxIs
<1> QED BY <1>4, <1>6
-----------------------------------------------------------------------------
(* Lists of messages. *)

Distinct(list) == \A i, j \in 1..Len(list) : i # j => list[i] # list[j]

\* What is in a list that is empty, has one more, or one less at its head or inside.
LEMMA NoneIn == Range(<<>>) = {} /\ Distinct(<<>>)
  BY DEF Range, Distinct

\* One more at the end of a list.
LEMMA AppendIn ==
  ASSUME NEW T, NEW list \in Seq(T), NEW x \in T
  PROVE  /\ Append(list, x) \in Seq(T) /\ Range(Append(list, x)) = Range(list) \cup {x}
         /\ Distinct(list) /\ x \notin Range(list) => Distinct(Append(list, x))
<1>1. Append(list, x) \in Seq(T) /\ Len(Append(list, x)) = Len(list) + 1 /\ Len(list) \in Nat
  OBVIOUS
<1>2. \A i \in 1..(Len(list) + 1) : Append(list, x)[i] = IF i = Len(list) + 1 THEN x ELSE list[i]
  OBVIOUS
<1>3. DOMAIN list = 1..Len(list) /\ DOMAIN Append(list, x) = 1..(Len(list) + 1)
  OBVIOUS
<1>4. Range(Append(list, x)) = Range(list) \cup {x}
  <2>1. ASSUME NEW y \in Range(list) PROVE y \in Range(Append(list, x))
    <3>1. PICK i \in 1..Len(list) : y = list[i]
      BY <1>3, <2>1 DEF Range
    <3>2. i \in 1..(Len(list) + 1) /\ Append(list, x)[i] = y
      BY <1>1, <1>2, <3>1
    <3> QED BY <1>3, <3>2 DEF Range
  <2>2. x \in Range(Append(list, x))
    <3>1. Len(list) + 1 \in 1..(Len(list) + 1)
      BY <1>1
    <3> QED BY <1>2, <1>3, <3>1 DEF Range
  <2>3. ASSUME NEW y \in Range(Append(list, x)) PROVE y \in Range(list) \cup {x}
    <3>1. PICK i \in 1..(Len(list) + 1) : y = Append(list, x)[i]
      BY <1>3, <2>3 DEF Range
    <3>2. i \in 1..Len(list) \/ i = Len(list) + 1
      BY <1>1, <3>1
    <3> QED BY <1>2, <1>3, <3>1, <3>2 DEF Range
  <2> QED BY <2>1, <2>2, <2>3
<1>5. Distinct(list) /\ x \notin Range(list) => Distinct(Append(list, x))
  BY <1>1, <1>2, <1>3 DEF Distinct, Range
<1> QED BY <1>1, <1>4, <1>5

\* A list without its head.
LEMMA TailIn ==
  ASSUME NEW T, NEW list \in Seq(T), list # <<>>
  PROVE  /\ Tail(list) \in Seq(T) /\ Head(list) \in T
         /\ Range(list) = Range(Tail(list)) \cup {Head(list)}
         /\ Distinct(list) => Distinct(Tail(list)) /\ Head(list) \notin Range(Tail(list))
<1>1. Tail(list) \in Seq(T) /\ Len(Tail(list)) = Len(list) - 1 /\ Len(list) \in Nat /\ Len(list) # 0 /\ Head(list) = list[1]
  OBVIOUS
<1>2. \A i \in 1..(Len(list) - 1) : Tail(list)[i] = list[i + 1] /\ i + 1 \in 1..Len(list)
  BY <1>1
<1>3. DOMAIN list = 1..Len(list) /\ DOMAIN Tail(list) = 1..(Len(list) - 1) /\ 1 \in 1..Len(list)
  BY <1>1
<1>4. Range(list) = Range(Tail(list)) \cup {Head(list)}
  <2>1. ASSUME NEW y \in Range(list) PROVE y \in Range(Tail(list)) \cup {Head(list)}
    <3>1. PICK i \in 1..Len(list) : y = list[i]
      BY <1>3, <2>1 DEF Range
    <3>2. CASE i = 1
      BY <1>1, <3>1, <3>2
    <3>3. CASE i # 1
      <4>1. i - 1 \in 1..(Len(list) - 1) /\ (i - 1) + 1 = i
        BY <1>1, <3>1, <3>3
      <4> QED BY <1>2, <1>3, <3>1, <4>1 DEF Range
    <3> QED BY <3>2, <3>3
  <2>2. ASSUME NEW y \in Range(Tail(list)) PROVE y \in Range(list)
    BY <1>2, <1>3, <2>2 DEF Range
  <2>3. Head(list) \in Range(list)
    BY <1>1, <1>3 DEF Range
  <2> QED BY <2>1, <2>2, <2>3
<1>5. Distinct(list) => Distinct(Tail(list)) /\ Head(list) \notin Range(Tail(list))
  <2> SUFFICES ASSUME Distinct(list) PROVE Distinct(Tail(list)) /\ Head(list) \notin Range(Tail(list))
    OBVIOUS
  <2>1. \A i \in 1..(Len(list) - 1) : Tail(list)[i] # list[1]
    BY <1>1, <1>2, <1>3 DEF Distinct
  <2>2. \A i, j \in 1..(Len(list) - 1) : i # j => i + 1 # j + 1
    BY <1>1
  <2>3. Distinct(Tail(list))
    BY <1>1, <1>2, <2>2 DEF Distinct
  <2> QED BY <1>1, <1>3, <2>1, <2>3 DEF Range
<1>6. Head(list) \in T
  BY <1>1, <1>3
<1> QED BY <1>1, <1>4, <1>5, <1>6

\* A list without the one at some place.
LEMMA RemoveIn ==
  ASSUME NEW T, NEW list \in Seq(T), NEW i \in 1..Len(list)
  PROVE  /\ RemoveAt(list, i) \in Seq(T)
         /\ \A x \in Range(list) : x # list[i] => x \in Range(RemoveAt(list, i))
         /\ Range(RemoveAt(list, i)) \subseteq Range(list)
<1> DEFINE a == SubSeq(list, 1, i - 1)
           b == SubSeq(list, i + 1, Len(list))
<1>1. Len(list) \in Nat /\ i \in Nat /\ i >= 1 /\ i <= Len(list)
  OBVIOUS
<1>2. a \in Seq(T) /\ Len(a) = i - 1 /\ \A k \in 1..(i - 1) : a[k] = list[k]
  BY <1>1, SubSeqProperties
<1>3. b \in Seq(T) /\ Len(b) = Len(list) - i /\ \A k \in 1..(Len(list) - i) : b[k] = list[i + k]
  <2>1. CASE i = Len(list)
    <3>1. b = <<>>
      BY <1>1, <2>1, SubSeqEmpty
    <3> QED BY <1>1, <2>1, <3>1
  <2>2. CASE i < Len(list)
    BY <1>1, <2>2, SubSeqProperties
  <2> QED BY <1>1, <2>1, <2>2
<1>4. RemoveAt(list, i) = a \o b
  BY DEF RemoveAt
<1> HIDE DEF a, b
<1>5. a \o b \in Seq(T) /\ Len(a \o b) = (i - 1) + (Len(list) - i)
  <2>1. a \o b \in Seq(T) /\ Len(a \o b) = Len(a) + Len(b)
    BY <1>2, <1>3, ConcatProperties
  <2> QED BY <1>2, <1>3, <2>1
<1>6. ASSUME NEW x \in Range(list), x # list[i] PROVE x \in Range(a \o b)
  <2>1. PICK k \in 1..Len(list) : x = list[k]
    BY DEF Range
  <2>2. CASE k < i
    <3>1. k \in 1..Len(a) /\ (a \o b)[k] = a[k]
      BY <1>1, <1>2, <1>3, <2>2
    <3>2. k \in DOMAIN (a \o b)
      BY <1>1, <1>5, <2>2
    <3> QED BY <1>2, <2>1, <2>2, <3>1, <3>2 DEF Range
  <2>3. CASE k > i
    <3>1. k - i \in 1..(Len(list) - i) /\ i + (k - i) = k /\ k - 1 \in 1..Len(a \o b) /\ (k - 1) - Len(a) = k - i
      BY <1>1, <1>2, <1>5, <2>3
    <3>2. (a \o b)[k - 1] = b[k - i]
      BY <1>1, <1>2, <1>3, <2>3, <3>1
    <3>3. k - 1 \in DOMAIN (a \o b)
      BY <1>5, <3>1
    <3> QED BY <1>3, <2>1, <3>1, <3>2, <3>3 DEF Range
  <2> QED BY <1>1, <1>6, <2>1, <2>2, <2>3
<1>7. ASSUME NEW x \in Range(a \o b) PROVE x \in Range(list)
  <2>1. PICK j \in 1..((i - 1) + (Len(list) - i)) : x = (a \o b)[j]
    BY <1>5, <1>7 DEF Range
  <2>2. CASE j < i
    <3>1. j \in 1..(i - 1) /\ j \in 1..Len(list) /\ (a \o b)[j] = a[j]
      BY <1>1, <1>2, <1>3, <2>2
    <3> QED BY <1>2, <2>1, <3>1 DEF Range
  <2>3. CASE j >= i
    <3>1. j - (i - 1) \in 1..(Len(list) - i) /\ j + 1 \in 1..Len(list) /\ i + (j - (i - 1)) = j + 1
          /\ (a \o b)[j] = b[j - (i - 1)]
      BY <1>1, <1>2, <1>3, <2>3
    <3>2. x = list[j + 1]
      BY <1>3, <2>1, <3>1
    <3> QED BY <3>1, <3>2 DEF Range
  <2> QED BY <1>1, <2>2, <2>3
<1> QED BY <1>4, <1>5, <1>6, <1>7

\* FoldLeft of a list, as a function of the positions folded.
KeptOf(list, S) ==
  CHOOSE iter : iter = [P \in SUBSET (DOMAIN list) |->
    IF P = {} THEN <<>>
    ELSE IF list[Max(P)] \in S THEN iter[P \ {Max(P)}] ELSE Append(iter[P \ {Max(P)}], list[Max(P)])]
IsKept(iter, n, list, S) ==
  iter = [P \in SUBSET (1..n) |->
    IF P = {} THEN <<>>
    ELSE IF list[Max(P)] \in S THEN iter[P \ {Max(P)}] ELSE Append(iter[P \ {Max(P)}], list[Max(P)])]

\* The fold of Without is defined for every length.
LEMMA KeptExists == ASSUME NEW list, NEW S PROVE \A n \in Nat : \E iter : IsKept(iter, n, list, S)
<1> DEFINE T == {n \in Nat : \E iter : IsKept(iter, n, list, S)}
<1>1. 0 \in T
  <2> DEFINE it == [P \in SUBSET (1..0) |-> <<>>]
  <2>1. \A P \in SUBSET (1..0) : P = {}
    OBVIOUS
  <2>2. IsKept(it, 0, list, S)
    BY <2>1 DEF IsKept
  <2> QED BY <2>2
<1>2. ASSUME NEW n \in Nat, n \in T PROVE n + 1 \in T
  <2>1. PICK it : IsKept(it, n, list, S)
    BY <1>2
  <2> DEFINE val(P) == IF n + 1 \in P
                         THEN IF list[n + 1] \in S THEN it[P \ {n + 1}] ELSE Append(it[P \ {n + 1}], list[n + 1])
                         ELSE it[P]
             nx == [P \in SUBSET (1..(n + 1)) |-> val(P)]
  <2>2. ASSUME NEW P \in SUBSET (1..(n + 1))
        PROVE  nx[P] = IF P = {} THEN <<>>
                       ELSE IF list[Max(P)] \in S THEN nx[P \ {Max(P)}] ELSE Append(nx[P \ {Max(P)}], list[Max(P)])
    <3>1. CASE n + 1 \in P
      <4>1. P \subseteq Int /\ \A y \in P : n + 1 >= y
        OBVIOUS
      <4>2. Max(P) = n + 1
        BY <3>1, <4>1, MaxIs
      <4>3. P \ {n + 1} \in SUBSET (1..(n + 1)) /\ n + 1 \notin P \ {n + 1}
        OBVIOUS
      <4>4. nx[P \ {n + 1}] = it[P \ {n + 1}]
        BY <4>3
      <4>5. nx[P] = IF list[n + 1] \in S THEN it[P \ {n + 1}] ELSE Append(it[P \ {n + 1}], list[n + 1])
        BY <3>1
      <4> HIDE DEF nx
      <4> QED BY <3>1, <4>2, <4>4, <4>5
    <3>2. CASE n + 1 \notin P
      <4>1. P \in SUBSET (1..n)
        BY <3>2
      <4>2. nx[P] = it[P]
        BY <3>2
      <4>3. it[P] = IF P = {} THEN <<>>
                    ELSE IF list[Max(P)] \in S THEN it[P \ {Max(P)}] ELSE Append(it[P \ {Max(P)}], list[Max(P)])
        BY <2>1, <4>1 DEF IsKept
      <4>4. P \ {Max(P)} \in SUBSET (1..(n + 1)) /\ n + 1 \notin P \ {Max(P)}
        BY <3>2
      <4>5. nx[P \ {Max(P)}] = it[P \ {Max(P)}]
        BY <4>4
      <4> HIDE DEF nx
      <4> QED BY <4>2, <4>3, <4>5
    <3> QED BY <3>1, <3>2
  <2>3. nx = [P \in SUBSET (1..(n + 1)) |-> nx[P]]
    OBVIOUS
  <2> HIDE DEF nx
  <2>4. IsKept(nx, n + 1, list, S)
    BY <2>2, <2>3 DEF IsKept
  <2> QED BY <2>4
<1> HIDE DEF T
<1>3. Nat \subseteq T
  BY <1>1, <1>2, Induct
<1> QED BY <1>3 DEF T

\* Without takes out just those, and leaves the others in their order.
LEMMA WithoutIs ==
  ASSUME NEW T, NEW list \in Seq(T), NEW S
  PROVE  /\ Without(list, S) \in Seq(T) /\ Range(Without(list, S)) = Range(list) \ S
         /\ Distinct(list) => Distinct(Without(list, S))
<1> DEFINE k == KeptOf(list, S)
           upTo(n) == {list[i] : i \in 1..n}
           ok(n) == /\ k[1..n] \in Seq(T) /\ Range(k[1..n]) = upTo(n) \ S
                    /\ Distinct(list) => Distinct(k[1..n])
           P == {n \in Nat : n <= Len(list) => ok(n)}
<1>1. Len(list) \in Nat /\ DOMAIN list = 1..Len(list) /\ \A i \in 1..Len(list) : list[i] \in T
  OBVIOUS
<1>2. Without(list, S) = k[1..Len(list)]
  <2>1. Without(list, S) = k[DOMAIN list]
    BY DEF Without, FoldLeft, MapThenFoldSet, KeptOf
  <2> QED BY <1>1, <2>1
<1>3. IsKept(k, Len(list), list, S)
  <2>1. k = CHOOSE iter : IsKept(iter, Len(list), list, S)
    BY <1>1 DEF KeptOf, IsKept
  <2>2. \E iter : IsKept(iter, Len(list), list, S)
    BY <1>1, KeptExists
  <2> HIDE DEF k
  <2> QED BY <2>1, <2>2
<1> HIDE DEF k
<1>4. k[{}] = <<>>
  <2>1. {} \in SUBSET (1..Len(list))
    OBVIOUS
  <2> QED BY <1>3, <2>1 DEF IsKept
<1>5. ASSUME NEW n \in Nat, n + 1 <= Len(list)
      PROVE  k[1..(n + 1)] = IF list[n + 1] \in S THEN k[1..n] ELSE Append(k[1..n], list[n + 1])
  <2>1. 1..(n + 1) \in SUBSET (1..Len(list)) /\ 1..(n + 1) # {}
    <3>1. n + 1 \in 1..(n + 1)
      OBVIOUS
    <3>2. ASSUME NEW i \in 1..(n + 1) PROVE i \in 1..Len(list)
      BY <1>1, <1>5
    <3> QED BY <3>1, <3>2
  <2>2. Max(1..(n + 1)) = n + 1 /\ (1..(n + 1)) \ {n + 1} = 1..n
    <3>1. n + 1 \in Nat /\ n + 1 # 0 /\ (n + 1) - 1 = n
      OBVIOUS
    <3> QED BY <3>1, MaxTo
  <2> QED BY <1>3, <2>1, <2>2 DEF IsKept
<1>6. 0 \in P
  <2>1. 1..0 = {} /\ upTo(0) = {}
    OBVIOUS
  <2>2. k[1..0] = <<>>
    BY <1>4, <2>1
  <2>3. <<>> \in Seq(T)
    OBVIOUS
  <2>4. ok(0)
    BY <2>1, <2>2, <2>3, NoneIn
  <2> HIDE DEF ok
  <2> QED BY <2>4
<1>7. ASSUME NEW n \in Nat, n \in P PROVE n + 1 \in P
  <2> SUFFICES ASSUME n + 1 <= Len(list) PROVE ok(n + 1)
    OBVIOUS
  <2>1. ok(n)
    BY <1>1, <1>7
  <2>2. n + 1 \in 1..Len(list) /\ list[n + 1] \in T
    BY <1>1
  <2>3. upTo(n + 1) = upTo(n) \cup {list[n + 1]}
    <3>1. 1..(n + 1) = (1..n) \cup {n + 1}
      OBVIOUS
    <3> QED BY <3>1
  <2>4. Distinct(list) => list[n + 1] \notin upTo(n)
    BY <1>1, <2>2 DEF Distinct
  <2>5. CASE list[n + 1] \in S
    BY <1>5, <2>1, <2>3, <2>5
  <2>6. CASE list[n + 1] \notin S
    <3>1. k[1..(n + 1)] = Append(k[1..n], list[n + 1])
      BY <1>5, <2>6
    <3> QED BY <2>1, <2>2, <2>3, <2>4, <2>6, <3>1, AppendIn
  <2> QED BY <2>5, <2>6
<1>8. Len(list) \in P
  <2> HIDE DEF P
  <2> QED BY <1>1, <1>6, <1>7, Induct
<1>9. upTo(Len(list)) = Range(list)
  BY <1>1 DEF Range
<1> QED BY <1>1, <1>2, <1>8, <1>9
-----------------------------------------------------------------------------
(* The inductive invariant. *)

OwnWords == \A m, n \in Msgs : m # n => {Text[m], Rewritten[m]} \cap {Text[n], Rewritten[n]} = {}
Tidy == MaxRuns = 0 /\ ~Early /\ Patient /\ OwnWords

MsgPhases  == {"idle", "prompting", "ahead", "handing", "accepted", "done", "again", "gone"}
StopPhases == {"idle", "handed", "drop", "abort", "settle", "over", "again", "done"}
InChain    == {"ahead", "handing", "accepted", "drop", "abort", "settle", "over"}
ListTypes  == waiting \in Seq(Msgs) /\ fresh \in Seq(Msgs) /\ piQueue \in Queues /\ queue \in Queues
SetTypes   ==
  /\ queued \subseteq Msgs /\ queuedAs \subseteq Msgs /\ inPi \subseteq Msgs
  /\ read \subseteq Msgs /\ placed \subseteq Msgs /\ unsent \subseteq Msgs
MapTypes   ==
  /\ lane \in [Msgs -> Lanes] /\ outcome \in [Msgs -> Outcomes]
  /\ DOMAIN words = Msgs /\ \A m \in Msgs : words[m] \in {Text[m], Rewritten[m]}
  /\ ahead \in [Links -> SUBSET Links] /\ tail \in Links \cup {None}
  /\ sentBefore \in [Stops -> SUBSET Msgs] /\ chosen \in [Stops -> Msgs \cup {None}]
  /\ again \in [Stops -> Seq(Msgs)]
PcType     ==
  /\ pc \in [Links -> Phases]
  /\ \A m \in Msgs : pc[m] \in MsgPhases
  /\ \A s \in Stops : pc[s] \in StopPhases
Events     == [kind : {"start", "read", "queue", "settled"}, msg : Msgs \cup {None}, queue : Queues]
PlainTypes ==
  /\ inRun \in BOOLEAN /\ running \in BOOLEAN /\ piRun \in BOOLEAN /\ runs = 0
  /\ events \in Seq(Events)
Types == ListTypes /\ SetTypes /\ MapTypes /\ PcType /\ PlainTypes

\* The chain.
Dead(m) == pc[m] = "ahead" /\ m \in queued /\ ~Waits(m)
Live(m) == pc[m] \in {"ahead", "handing", "accepted"} /\ ~Dead(m)
Ordered   == \A m, n \in Msgs : m # n /\ Live(m) /\ Live(n) => m \in ahead[n] \/ n \in ahead[m]
Held      == \A m \in Msgs : Live(m) => tail # None /\ (m = tail \/ m \in ahead[tail])
TurnOK    == \A m \in Msgs : pc[m] \in {"handing", "accepted"} => \A j \in ahead[m] : Out(j)
AheadOK   == \A k \in Links : \A j \in ahead[k] : pc[j] \in InChain \cup {"done"} \/ (j \in Stops /\ pc[j] = "again")
TailOK    == tail # None => pc[tail] \in InChain
IdleOK    ==
  \A m \in Msgs \ queued :
    /\ pc[m] \in {"ahead", "handing", "accepted"} => ahead[m] = {}
    /\ pc[m] \in {"ahead", "handing"} \/ (pc[m] = "accepted" /\ outcome[m] # "started") => ~piRun
StartedOK == \A m \in Msgs : pc[m] = "accepted" /\ outcome[m] = "started" => piRun

\* A Stop, and what is ahead of it.
DropOK(s) ==
  \A m \in ahead[s] \cap Msgs :
    /\ pc[m] \in {"ahead", "handing"} => m \in queued
    /\ pc[m] = "accepted" => m \in queued \/ outcome[m] = "started"
    /\ pc[m] = "ahead" /\ Waits(m) => m \in sentBefore[s]
AbortOK(s) == \A m \in ahead[s] \cap Msgs : Live(m) => pc[m] = "accepted" /\ outcome[m] = "started"
OverOK(s)  == \A m \in ahead[s] \cap Msgs : ~Live(m)
StopsOK ==
  \A s \in Stops :
    /\ pc[s] = "drop" => DropOK(s)
    /\ pc[s] = "abort" => AbortOK(s)
    /\ pc[s] \in {"settle", "over"} => OverOK(s)

\* It is still in the chain while it waits for what is being handed over, and what was
\* sent since is behind it.
StopHeld(s) == Handed \/ (tail # None /\ (s = tail \/ s \in ahead[tail]))
PastOK(s)   == \A t \in Stops : pc[t] \in {"abort", "settle", "over"} /\ s \in ahead[t] => Handed
LateOK(s)   == \A m \in Range(waiting) \ sentBefore[s] : pc[m] = "ahead" /\ s \in ahead[m]
DropsOK == \A s \in Stops : pc[s] = "drop" => StopHeld(s) /\ PastOK(s) /\ LateOK(s)
ChainOK == Ordered /\ Held /\ TurnOK /\ AheadOK /\ TailOK /\ IdleOK /\ StartedOK /\ StopsOK /\ DropsOK

\* pi's events.
Reads(i) == events[i].kind = "read"
EventsOK ==
  /\ \A i \in 2..Len(events) : events[i].kind # "settled"
  /\ \A i \in 1..Len(events) : Reads(i) =>
       events[i].msg \in read /\ outcome[events[i].msg] \in {"started", "queued"}
  /\ \A i, j \in 1..Len(events) : Reads(i) /\ Reads(j) => i = j
  /\ \A i \in 1..Len(events) : Reads(i) /\ fresh # <<>> => events[i].msg = fresh[1]
  /\ \A i \in 1..Len(events) : Reads(i) /\ events[1].kind = "settled" => piRun
FreshOK ==
  /\ Len(fresh) <= 1
  /\ \A m \in Range(fresh) :
       \/ pc[m] = "handing" /\ ~piRun
       \/ pc[m] = "accepted" /\ outcome[m] \in {"handled", "refused"}
       \/ pc[m] \in {"accepted", "done"} /\ outcome[m] = "started" /\ \E i \in 1..Len(events) : Reads(i) /\ events[i].msg = m
Queues1(i) == events[i].kind = "queue"
TellsOK ==
  /\ (\A i \in 1..Len(events) : ~Queues1(i)) => piQueue = queue
  /\ \A i \in 1..Len(events) : Queues1(i) /\ (\A j \in (i + 1)..Len(events) : ~Queues1(j)) => events[i].queue = queue
  /\ events # <<>> /\ events[1].kind = "settled" =>
       /\ \A l \in Lanes : Range(queue[l]) \subseteq Range(piQueue[l])
       /\ piRun => \A m \in Msgs : pc[m] # "handing"

\* pi's queue, and what waits.
InQueue(m) ==
  /\ outcome[m] = "queued" /\ pc[m] \in {"accepted", "done"} /\ m \in queued
  /\ m \notin read /\ Waits(m) /\ (pc[m] = "done" => m \in inPi /\ m \in queuedAs)
QueueOK == \A l \in Lanes :
  /\ \A m \in Range(queue[l]) : l = lane[m] /\ InQueue(m)
  /\ Distinct(queue[l])
PiOK == \A m \in inPi : pc[m] = "done" /\ m \in queued /\ outcome[m] \in {"started", "queued", "handled"}
WaitOK ==
  /\ Distinct(waiting)
  /\ \A m \in Range(waiting) :
       /\ m \in queued /\ pc[m] \in {"ahead", "handing", "accepted", "done"}
       /\ m \notin placed \cup unsent
       /\ pc[m] = "done" => m \in inPi
       /\ m \in inPi /\ m \notin read => m \in Range(queue[lane[m]])
  /\ \A m \in queued : pc[m] = "handing" \/ (pc[m] = "accepted" /\ outcome[m] # "started") => Waits(m)
  /\ \A m \in queuedAs : m \in inPi /\ outcome[m] = "queued"
  /\ \A m \in Msgs : pc[m] = "accepted" /\ outcome[m] = "queued" => m \in queued /\ m \notin read /\ m \in Range(queue[lane[m]])

\* The account.
AccountOK ==
  /\ placed \subseteq read /\ placed \cap unsent = {}
  /\ \A m \in unsent : pc[m] \in {"ahead", "done"} /\ (pc[m] = "ahead" => m \in queued)
  /\ \A m \in read : pc[m] \in {"accepted", "done"} /\ outcome[m] \in {"started", "queued", "handled"}
  /\ \A m \in Msgs :
      /\ pc[m] \in {"idle", "prompting", "again", "gone"} => m \notin queued /\ m \notin unsent
      /\ pc[m] \in {"idle", "prompting", "ahead", "handing", "again", "gone"} => outcome[m] = "none"
      /\ pc[m] = "accepted" => outcome[m] # "none"
      /\ pc[m] = "accepted" /\ outcome[m] \in {"handled", "started"} => m \in read

AgainOK ==
  /\ \A s \in Stops : pc[s] \in {"idle", "handed"} => again[s] = <<>>
  /\ \A s \in Stops : \A m \in Range(again[s]) : pc[m] # "idle"
  /\ \A m \in Msgs : pc[m] = "prompting" /\ (\E s \in Stops : m \in Range(again[s]))
       => \E s \in Stops : again[s] # <<>> /\ m = Head(again[s])

IInv == Types /\ ChainOK /\ EventsOK /\ FreshOK /\ TellsOK /\ QueueOK /\ PiOK /\ WaitOK /\ AccountOK /\ AgainOK
-----------------------------------------------------------------------------
(* What the parts say, where they are used. *)

\* Messages and Stops are links, no message is a Stop, and None is neither.
LEMMA Apart == Msgs \subseteq Links /\ Stops \subseteq Links /\ (\A m \in Msgs : m \notin Stops) /\ None \notin Msgs /\ None \notin Links
BY LinksAssumption DEF Links

\* At the next turn of the event loop nothing is to be heard or to go on.
LEMMA Turn ==
  ASSUME NextTurn
  PROVE  /\ events = <<>> /\ \A k \in Links : pc[k] \notin {"accepted", "over"}
         /\ \A s \in Stops : (pc[s] = "drop" => ~Handed) /\ (pc[s] = "abort" => piRun)
BY DEF NextTurn, Settling

\* What the lists hold are messages.
LEMMA WaitsInMsgs ==
  ASSUME Types
  PROVE  /\ Range(waiting) \subseteq Msgs /\ Range(fresh) \subseteq Msgs
         /\ \A l \in Lanes : Range(queue[l]) \subseteq Msgs /\ Range(piQueue[l]) \subseteq Msgs
         /\ \A s \in Stops : Range(again[s]) \subseteq Msgs
BY DEF Types, ListTypes, MapTypes, Range, Queues

\* At most one message is expected to start a run.
LEMMA FreshOne ==
  ASSUME Types, FreshOK
  PROVE  fresh = <<>> \/ (fresh # <<>> /\ Len(fresh) = 1 /\ fresh[1] \in Msgs /\ Range(fresh) = {fresh[1]} /\ Tail(fresh) = <<>>)
<1>1. fresh \in Seq(Msgs) /\ Len(fresh) <= 1 /\ Len(fresh) \in Nat
  BY DEF Types, ListTypes, FreshOK
<1>2. Len(fresh) = 0 => fresh = <<>>
  BY <1>1
<1>3. ASSUME Len(fresh) = 1
      PROVE  fresh # <<>> /\ Len(fresh) = 1 /\ fresh[1] \in Msgs /\ Range(fresh) = {fresh[1]} /\ Tail(fresh) = <<>>
  <2>1. 1..1 = {1} /\ DOMAIN fresh = 1..1
    BY <1>1, <1>3
  <2>2. Range(fresh) = {fresh[1]}
    BY <2>1 DEF Range
  <2>3. fresh # <<>> /\ fresh[1] \in Msgs
    BY <1>1, <1>3
  <2>4. Tail(fresh) \in Seq(Msgs) /\ Len(Tail(fresh)) = 0
    BY <1>1, <1>3, <2>3
  <2>5. Tail(fresh) = <<>>
    BY <2>4, EmptySeq
  <2> QED BY <1>3, <2>2, <2>3, <2>5
<1>4. Len(fresh) = 0 \/ Len(fresh) = 1
  <2> DEFINE n == Len(fresh)
  <2>1. n \in Nat /\ n <= 1
    BY <1>1
  <2> HIDE DEF n
  <2>2. n = 0 \/ n = 1
    BY <2>1
  <2> QED BY <2>2 DEF n
<1> QED BY <1>2, <1>3, <1>4

\* AppendIn, of a list of messages.
LEMMA AppendMsg == ASSUME NEW list \in Seq(Msgs), NEW m \in Msgs PROVE Range(Append(list, m)) = Range(list) \cup {m}
BY AppendIn

\* It holds of a chat that nothing was sent into.
LEMMA InitOK == Tidy /\ Init => IInv
<1> SUFFICES ASSUME Tidy, Init PROVE IInv
  OBVIOUS
<1>0. Range(waiting) = {} /\ Distinct(waiting) /\ Len(events) = 0 /\ Len(fresh) = 0 /\ Range(fresh) = {} /\ \A l \in Lanes : Range(queue[l]) = {} /\ Distinct(queue[l])
  BY NoneIn DEF Init, Empty
<1>1. Types
  <2>1. Empty \in Queues
    BY DEF Empty, Queues
  <2>5. ListTypes /\ SetTypes
    BY <2>1 DEF Init, ListTypes, SetTypes
  <2>2. PlainTypes
    <3>1. events \in Seq(Events)
      BY DEF Init
    <3>2. inRun \in BOOLEAN /\ running \in BOOLEAN /\ piRun \in BOOLEAN /\ runs = 0
      BY Zenon DEF Init
    <3> QED BY <3>1, <3>2 DEF PlainTypes
  <2>3. MapTypes
    BY LinksAssumption DEF Init, MapTypes, Links, Lanes, Outcomes
  <2>4. PcType
    BY DEF Init, PcType, Phases, MsgPhases, StopPhases, Links
  <2> QED BY <2>2, <2>3, <2>4, <2>5 DEF Types
<1>2. ChainOK
  BY Apart DEF Init, ChainOK, Ordered, Held, TurnOK, AheadOK, TailOK, IdleOK, StartedOK, StopsOK, DropOK, AbortOK, OverOK, DropsOK, Live, Dead
<1>3. EventsOK /\ FreshOK
  BY <1>0 DEF Init, EventsOK, FreshOK, Reads
<1>4. TellsOK /\ QueueOK
  <2>1. events = <<>> /\ piQueue = queue
    BY DEF Init
  <2>2. TellsOK
    BY <1>0, <2>1 DEF TellsOK
  <2> QED BY <1>0, <2>2 DEF QueueOK
<1>5. PiOK /\ WaitOK
  BY <1>0, Apart DEF Init, PiOK, WaitOK, Waits
<1>6. AccountOK
  BY Apart DEF Init, AccountOK
<1>7. AgainOK
  BY NoneIn DEF Init, AgainOK, Links
<1> QED BY <1>1, <1>2, <1>3, <1>4, <1>5, <1>6, <1>7 DEF IInv
-----------------------------------------------------------------------------
(* A message is sent. *)

\* A message that is asked for is not in the chain yet.
LEMMA PromptKeeps == ASSUME Tidy, IInv, NEW m \in Msgs, Prompt(m) PROVE IInv'
<1> USE DEF IInv
<1>0. /\ m \in Links /\ pc[m] = "idle" /\ events = <<>>
      /\ pc' = [pc EXCEPT ![m] = "prompting"] /\ running' = TRUE /\ pc \in [Links -> Phases]
      /\ UNCHANGED <<waiting, fresh, tail, queued, queuedAs, inPi, piQueue, inRun, piRun, queue, runs, events, words, ahead, outcome, sentBefore, chosen, again, read, placed, unsent>>
  BY Apart DEF Prompt, Go, NextTurn, piVars, presses, account, Types, PcType
<1>1. pc'[m] = "prompting" /\ \A k \in Links : k # m => pc'[k] = pc[k]
  BY <1>0
<1>2. Types'
  <2>1. ListTypes' /\ SetTypes' /\ PlainTypes'
    BY <1>0 DEF Types, ListTypes, SetTypes, PlainTypes
  <2>2. MapTypes'
    BY <1>0 DEF Types, MapTypes, Prompt
  <2>3. PcType'
    BY <1>0, <1>1, Apart DEF Types, PcType, Phases, MsgPhases
  <2> QED BY <2>1, <2>2, <2>3 DEF Types
<1>3. ChainOK'
  <2>1. \A n \in Msgs : Live(n)' <=> Live(n)
    BY <1>0, <1>1, Apart DEF Live, Dead, Waits
  <2>2. Ordered' /\ Held'
    BY <1>0, <2>1 DEF ChainOK, Ordered, Held
  <2>3. TurnOK' /\ AheadOK' /\ TailOK'
    BY <1>0, <1>1, Apart DEF ChainOK, TurnOK, AheadOK, TailOK, Out, InChain, Types, MapTypes
  <2>4. IdleOK' /\ StartedOK'
    BY <1>0, <1>1, Apart DEF ChainOK, IdleOK, StartedOK
  <2>5. StopsOK'
    BY <1>0, <1>1, <2>1, Apart DEF ChainOK, StopsOK, DropOK, AbortOK, OverOK, Waits
  <2>6. DropsOK'
    <3>1. Handed' <=> Handed
      BY <1>0, <1>1, WaitsInMsgs, Apart DEF Handed
    <3> QED BY <1>0, <1>1, <3>1, WaitsInMsgs, Apart DEF ChainOK, DropsOK, StopHeld, PastOK, LateOK
  <2> QED BY <2>2, <2>3, <2>4, <2>5, <2>6 DEF ChainOK
<1>4. EventsOK' /\ FreshOK'
  BY <1>0, <1>1, WaitsInMsgs, Apart DEF EventsOK, FreshOK, Reads
<1>5. TellsOK'
  BY <1>0 DEF TellsOK, Queues1
<1>6. QueueOK'
  BY <1>0, <1>1, Apart DEF QueueOK, InQueue, Waits, Types, ListTypes, Queues, MapTypes, Prompt
<1>9. PiOK' /\ WaitOK'
  BY <1>0, <1>1, Apart DEF PiOK, WaitOK, Waits, Prompt
<1>7. AccountOK'
  BY <1>0, <1>1, Apart DEF AccountOK
<1>8. AgainOK'
  BY <1>0, <1>1, Apart, WaitsInMsgs DEF AgainOK
<1> QED BY <1>2, <1>3, <1>4, <1>5, <1>6, <1>7, <1>8, <1>9

\* A message that takes its place in the chain is behind all of it.
LEMMA SubmitKeeps == ASSUME Tidy, IInv, NEW m \in Msgs, Submit(m) PROVE IInv'
<1> USE DEF IInv
<1> DEFINE q == tail # None \/ piRun
<1>0. /\ m \in Links /\ pc[m] = "prompting" /\ events = <<>>
      /\ pc' = [pc EXCEPT ![m] = "ahead"] /\ pc \in [Links -> Phases]
      /\ queued' = (IF q THEN queued \cup {m} ELSE queued)
      /\ waiting' = (IF q THEN Append(waiting, m) ELSE waiting)
      /\ ahead' = [ahead EXCEPT ![m] = Chain] /\ tail' = m /\ ahead \in [Links -> SUBSET Links]
      /\ UNCHANGED <<fresh, queuedAs, inPi, piQueue, inRun, running, piRun, queue, runs, events, lane, words, outcome, sentBefore, chosen, again, read, placed, unsent>>
  BY Apart DEF Submit, Go, NextTurn, piVars, presses, account, Types, PcType, MapTypes
<1>1. /\ pc'[m] = "ahead" /\ \A k \in Links : k # m => pc'[k] = pc[k]
      /\ ahead'[m] = Chain /\ \A k \in Links : k # m => ahead'[k] = ahead[k]
  BY <1>0
<1>2. m \notin queued /\ m \notin Range(waiting) /\ m \notin unsent /\ m \notin inPi /\ m \notin read /\ outcome[m] = "none"
  BY <1>0 DEF AccountOK, WaitOK, PiOK
<1>3. /\ waiting' \in Seq(Msgs) /\ Distinct(waiting')
      /\ Range(waiting') = IF q THEN Range(waiting) \cup {m} ELSE Range(waiting)
  BY <1>0, <1>2, AppendIn DEF Types, ListTypes, WaitOK
<1>4. (\A n \in Msgs : n # m => (Waits(n)' <=> Waits(n))) /\ (Waits(m)' <=> q) /\ (m \in queued' <=> q)
  BY <1>0, <1>2, <1>3 DEF Waits
<1>5. Chain \subseteq Links /\ (~q => Chain = {} /\ ~piRun) /\ \A j \in Chain : pc[j] \in InChain \cup {"done"} \/ (j \in Stops /\ pc[j] = "again")
  BY Apart DEF Chain, Types, MapTypes, ChainOK, TailOK, AheadOK
<1> HIDE DEF q
<1>6. Types'
  <2>1. ListTypes' /\ SetTypes' /\ PlainTypes'
    BY <1>0, <1>3 DEF Types, ListTypes, SetTypes, PlainTypes
  <2>2. MapTypes'
    BY <1>0, <1>5 DEF Types, MapTypes
  <2>3. PcType'
    BY <1>0, <1>1, Apart DEF Types, PcType, Phases, MsgPhases
  <2> QED BY <2>1, <2>2, <2>3 DEF Types
<1>7. ChainOK'
  <2>1. \A n \in Msgs : n # m => (Live(n)' <=> Live(n))
    BY <1>0, <1>1, <1>4, Apart DEF Live, Dead
  <2>2. \A n \in Msgs : Live(n) => n \in Chain
    BY DEF ChainOK, Held, Chain
  <2>3. Ordered' /\ Held'
    BY <1>0, <1>1, <2>1, <2>2, Apart DEF ChainOK, Ordered, Held
  <2>4. \A k \in Links : m \notin ahead[k]
    BY <1>0, Apart DEF ChainOK, AheadOK, InChain
  <2>5. TurnOK'
    BY <1>0, <1>1, <2>4, Apart DEF ChainOK, TurnOK, Out, Types, MapTypes
  <2>6. AheadOK'
    BY <1>0, <1>1, <1>5, Apart DEF ChainOK, AheadOK, InChain, Types, MapTypes
  <2>7. TailOK'
    BY <1>0, <1>1 DEF TailOK, InChain
  <2>8. IdleOK' /\ StartedOK'
    BY <1>0, <1>1, <1>2, <1>4, <1>5, Apart DEF ChainOK, IdleOK, StartedOK
  <2>9. StopsOK'
    BY <1>0, <1>1, <1>4, <2>1, <2>4, Apart DEF ChainOK, StopsOK, DropOK, AbortOK, OverOK
  <2>10. DropsOK'
    <3>1. ASSUME NEW s \in Stops, pc[s] = "drop" PROVE s \in Chain /\ s # m /\ PastOK(s)'
      <4>1. ~Handed
        BY <3>1, Turn DEF Submit
      <4> QED BY <1>0, <1>1, <3>1, <4>1, Apart DEF ChainOK, DropsOK, StopHeld, PastOK, Chain
    <3> QED BY <1>0, <1>1, <1>3, <1>4, <3>1, WaitsInMsgs, Apart DEF ChainOK, DropsOK, StopHeld, LateOK
  <2> QED BY <2>3, <2>5, <2>6, <2>7, <2>8, <2>9, <2>10 DEF ChainOK
<1>8. EventsOK' /\ FreshOK'
  BY <1>0, <1>1, WaitsInMsgs, Apart DEF EventsOK, FreshOK, Reads
<1>9. TellsOK'
  BY <1>0 DEF TellsOK, Queues1
<1>10. QueueOK'
  <2>1. \A n \in Msgs : InQueue(n) => InQueue(n)'
    BY <1>0, <1>1, <1>2, <1>4, Apart DEF InQueue
  <2> QED BY <1>0, <2>1, WaitsInMsgs DEF QueueOK
<1>11. PiOK' /\ WaitOK'
  <2>1. PiOK'
    BY <1>0, <1>1, <1>2, <1>4, Apart DEF PiOK
  <2>2. m \notin placed /\ m \notin queuedAs
    BY <1>2 DEF AccountOK, WaitOK
  <2>3. WaitOK'
    BY <1>0, <1>1, <1>2, <1>3, <1>4, <2>2, Apart DEF WaitOK, Waits
  <2> QED BY <2>1, <2>3
<1>12. AccountOK'
  BY <1>0, <1>1, <1>2, <1>4, Apart DEF AccountOK
<1>13. AgainOK'
  BY <1>0, <1>1, Apart, WaitsInMsgs DEF AgainOK
<1> QED BY <1>6, <1>7, <1>8, <1>9, <1>10, <1>11, <1>12, <1>13

\* A message is handed over once nothing before it is in the chain.
LEMMA HandKeeps == ASSUME Tidy, IInv, NEW m \in Msgs, Hand(m) PROVE IInv'
<1> USE DEF IInv
<1>0. /\ m \in Links /\ pc[m] = "ahead" /\ events = <<>> /\ ~Settling
      /\ pc' = [pc EXCEPT ![m] = "handing"] /\ pc \in [Links -> Phases]
      /\ (m \in queued => Waits(m)) /\ \A j \in ahead[m] : Out(j)
      /\ fresh' = IF piRun THEN fresh ELSE Append(fresh, m)
      /\ UNCHANGED <<waiting, tail, queued, queuedAs, inPi, piQueue, inRun, running, piRun, queue, runs, events, lane, words, ahead, outcome, sentBefore, chosen, again, read, placed, unsent>>
  BY Apart DEF Hand, Go, NextTurn, piVars, presses, account, Types, PcType, Behind
<1>1. pc'[m] = "handing" /\ \A k \in Links : k # m => pc'[k] = pc[k]
  BY <1>0
<1>2. \A k \in Links : pc[k] \notin {"accepted", "over"}
  BY Turn DEF Hand
<1>3. Live(m) /\ \A n \in Msgs : Live(n)' <=> Live(n)
  BY <1>0, <1>1, Apart DEF Live, Dead, Waits

\* Nothing else is on its way into pi.
<1>4. ASSUME NEW n \in Msgs, pc[n] = "handing" PROVE FALSE
  <2>1. n # m /\ Live(n) /\ ~Out(m) /\ ~Out(n)
    BY <1>0, <1>4 DEF Live, Dead, Out
  <2> QED BY <1>0, <1>3, <1>4, <2>1 DEF ChainOK, Ordered, TurnOK
<1>5. fresh = <<>>
  <2>1. ASSUME NEW n \in Range(fresh) PROVE FALSE
    <3>1. n \in Msgs /\ n \in Links /\ Len(events) = 0
      BY <1>0, <2>1, WaitsInMsgs, Apart
    <3> QED BY <1>2, <1>4, <2>1, <3>1 DEF FreshOK
  <2> QED BY <2>1, FreshOne
<1>6. fresh' \in Seq(Msgs) /\ Len(fresh') <= 1 /\ Range(fresh') \subseteq {m} /\ (m \in Range(fresh') => ~piRun)
  <2>1. fresh \in Seq(Msgs) /\ Range(fresh) = {} /\ Len(fresh) = 0
    BY <1>5, NoneIn DEF Types, ListTypes
  <2>2. Append(fresh, m) \in Seq(Msgs) /\ Range(Append(fresh, m)) = {m}
    <3>1. Append(fresh, m) \in Seq(Msgs)
      BY <2>1
    <3>2. Range(Append(fresh, m)) = Range(fresh) \cup {m}
      BY <2>1, AppendMsg
    <3> QED BY <2>1, <3>1, <3>2
  <2>3. Len(Append(fresh, m)) = 1
    BY <2>1
  <2>4. CASE piRun
    BY <1>0, <2>1, <2>4
  <2>5. CASE ~piRun
    <3>1. fresh' = Append(fresh, m)
      BY <1>0, <2>5
    <3> QED BY <2>1, <2>2, <2>3, <2>5, <3>1
  <2> QED BY <2>4, <2>5
<1>7. Types'
  <2>1. ListTypes' /\ SetTypes' /\ PlainTypes'
    BY <1>0, <1>6 DEF Types, ListTypes, SetTypes, PlainTypes
  <2>2. MapTypes'
    BY <1>0 DEF Types, MapTypes
  <2>3. PcType'
    BY <1>0, <1>1, Apart DEF Types, PcType, Phases, MsgPhases
  <2> QED BY <2>1, <2>2, <2>3 DEF Types
<1>8. ChainOK'
  <2>1. Ordered' /\ Held'
    BY <1>0, <1>3 DEF ChainOK, Ordered, Held
  <2>2. TurnOK' /\ AheadOK' /\ TailOK'
    BY <1>0, <1>1, Apart DEF ChainOK, TurnOK, AheadOK, TailOK, Out, InChain, Types, MapTypes
  <2>3. IdleOK' /\ StartedOK'
    BY <1>0, <1>1, Apart DEF ChainOK, IdleOK, StartedOK
  <2>4. StopsOK'
    BY <1>0, <1>1, <1>3, Apart DEF ChainOK, StopsOK, DropOK, AbortOK, OverOK, Waits
  <2>5. DropsOK'
    <3>1. ASSUME NEW s \in Stops, pc[s] = "drop" PROVE ~Handed /\ s \notin ahead[m]
      BY <1>0, <3>1, Turn, Apart DEF Hand, Out
    <3> QED BY <1>0, <1>1, <3>1, WaitsInMsgs, Apart DEF ChainOK, DropsOK, StopHeld, PastOK, LateOK
  <2> QED BY <2>1, <2>2, <2>3, <2>4, <2>5 DEF ChainOK
<1>9. EventsOK'
  <2>1. Len(events) = 0
    BY <1>0
  <2> QED BY <1>0, <2>1 DEF EventsOK
<1>10. FreshOK'
  BY <1>0, <1>1, <1>6 DEF FreshOK
<1>11. TellsOK'
  BY <1>0 DEF TellsOK, Queues1
<1>12. QueueOK'
  <2>1. \A n \in Msgs : InQueue(n) => InQueue(n)'
    BY <1>0, <1>1, Apart DEF InQueue, Waits
  <2> QED BY <1>0, <2>1, WaitsInMsgs DEF QueueOK
<1>13. PiOK' /\ WaitOK'
  BY <1>0, <1>1, Apart DEF PiOK, WaitOK, Waits
<1>14. AccountOK'
  <2>1. m \notin unsent /\ m \notin read
    BY <1>0 DEF AccountOK, WaitOK, Waits
  <2> QED BY <1>0, <1>1, <2>1, Apart DEF AccountOK
<1>15. AgainOK'
  BY <1>0, <1>1, Apart, WaitsInMsgs DEF AgainOK
<1> QED BY <1>7, <1>8, <1>9, <1>10, <1>11, <1>12, <1>13, <1>14, <1>15

\* A message that was dropped leaves the chain.
LEMMA NotSentKeeps == ASSUME Tidy, IInv, NEW m \in Msgs, NotSent(m) PROVE IInv'
<1> USE DEF IInv
<1>0. /\ m \in Links /\ pc[m] = "ahead" /\ events = <<>> /\ m \in queued /\ ~Waits(m)
      /\ pc' = [pc EXCEPT ![m] = "done"] /\ pc \in [Links -> Phases]
      /\ tail' = IF tail = m THEN None ELSE tail
      /\ UNCHANGED <<waiting, fresh, queued, queuedAs, inPi, piQueue, inRun, running, piRun, queue, runs, events, lane, words, ahead, outcome, sentBefore, chosen, again, read, placed, unsent>>
  BY Apart DEF NotSent, Go, NextTurn, piVars, presses, account, Types, PcType, Leave
<1>1. pc'[m] = "done" /\ \A k \in Links : k # m => pc'[k] = pc[k]
  BY <1>0
<1>2. \A n \in Msgs : Live(n)' <=> Live(n)
  BY <1>0, <1>1, Apart DEF Live, Dead, Waits
<1>3. ~Live(m) /\ \A j \in ahead[m] : Out(j)
  BY <1>0 DEF Live, Dead, NotSent, Behind
<1>4. Types'
  <2>1. ListTypes' /\ SetTypes' /\ PlainTypes'
    BY <1>0 DEF Types, ListTypes, SetTypes, PlainTypes
  <2>2. MapTypes'
    BY <1>0 DEF Types, MapTypes
  <2>3. PcType'
    BY <1>0, <1>1, Apart DEF Types, PcType, Phases, MsgPhases
  <2> QED BY <2>1, <2>2, <2>3 DEF Types
<1>5. ChainOK'
  <2>1. Ordered'
    BY <1>0, <1>2 DEF ChainOK, Ordered
  <2>2. Held'
    <3>1. ASSUME NEW n \in Msgs, Live(n), tail = m PROVE FALSE
      <4>1. n # m /\ n \in ahead[m]
        BY <1>3, <3>1 DEF ChainOK, Held
      <4> QED BY <1>3, <3>1, <4>1 DEF Live, Out
    <3> QED BY <1>0, <1>2, <3>1 DEF ChainOK, Held
  <2>3. TurnOK' /\ AheadOK' /\ TailOK'
    BY <1>0, <1>1, Apart DEF ChainOK, TurnOK, AheadOK, TailOK, Out, InChain, Types, MapTypes
  <2>4. IdleOK' /\ StartedOK'
    BY <1>0, <1>1, Apart DEF ChainOK, IdleOK, StartedOK
  <2>5. StopsOK'
    BY <1>0, <1>1, <1>2, Apart DEF ChainOK, StopsOK, DropOK, AbortOK, OverOK, Waits
  <2>6. DropsOK'
    <3>1. \A s \in Stops : pc[s] = "drop" => s \notin ahead[m]
      BY <1>3 DEF Out
    <3>2. Handed' <=> Handed
      BY <1>0, <1>1, WaitsInMsgs, Apart DEF Handed, Waits
    <3> QED BY <1>0, <1>1, <3>1, <3>2, WaitsInMsgs, Apart DEF ChainOK, DropsOK, StopHeld, PastOK, LateOK, Waits
  <2> QED BY <2>1, <2>2, <2>3, <2>4, <2>5, <2>6 DEF ChainOK
<1>6. EventsOK' /\ FreshOK'
  BY <1>0, <1>1, WaitsInMsgs, Apart DEF EventsOK, FreshOK, Reads
<1>7. TellsOK'
  BY <1>0 DEF TellsOK, Queues1
<1>8. QueueOK'
  <2>1. \A n \in Msgs : InQueue(n) => InQueue(n)'
    BY <1>0, <1>1, Apart DEF InQueue, Waits
  <2> QED BY <1>0, <2>1, WaitsInMsgs DEF QueueOK
<1>9. PiOK' /\ WaitOK'
  BY <1>0, <1>1, Apart DEF PiOK, WaitOK, Waits
<1>10. AccountOK'
  BY <1>0, <1>1, Apart DEF AccountOK
<1>11. AgainOK'
  BY <1>0, <1>1, Apart, WaitsInMsgs DEF AgainOK
<1> QED BY <1>4, <1>5, <1>6, <1>7, <1>8, <1>9, <1>10, <1>11

\* Of the one start that may be expected, it stays expected or no more.
LEMMA FreshLess ==
  ASSUME Types, FreshOK, NEW S
  PROVE  Without(fresh, S) \in Seq(Msgs) /\ (Without(fresh, S) = <<>> \/ (Without(fresh, S) = fresh /\ fresh[1] \notin S))
<1> DEFINE w == Without(fresh, S)
<1>1. fresh \in Seq(Msgs) /\ Distinct(fresh)
  <2>1. fresh \in Seq(Msgs) /\ Len(fresh) <= 1
    BY DEF Types, ListTypes, FreshOK
  <2> QED BY <2>1 DEF Distinct
<1>2. w \in Seq(Msgs) /\ Range(w) = Range(fresh) \ S /\ Distinct(w)
  BY <1>1, WithoutIs
<1> HIDE DEF w
<1>3. ASSUME w # <<>> PROVE w = fresh /\ fresh[1] \notin S
  <2>1. Len(w) \in Nat \ {0} /\ DOMAIN w = 1..Len(w)
    BY <1>2, <1>3, EmptySeq
  <2>2. 1 \in 1..Len(w) /\ w[1] \in Range(w)
    BY <2>1 DEF Range
  <2>3. Len(fresh) = 1 /\ Range(fresh) = {fresh[1]} /\ fresh[1] \notin S /\ w[1] = fresh[1]
    BY <1>2, <2>2, FreshOne, NoneIn
  <2>4. ASSUME NEW i \in 1..Len(w) PROVE i = 1
    <3>1. w[i] \in Range(w)
      BY <2>1 DEF Range
    <3> QED BY <1>2, <2>2, <2>3, <3>1 DEF Distinct
  <2>5. Len(w) = 1
    <3>1. Len(w) \in 1..Len(w)
      BY <2>1
    <3> QED BY <2>4, <3>1
  <2>6. w = fresh
    <3>1. fresh \in Seq(Msgs) /\ w \in Seq(Msgs)
      BY <1>1, <1>2
    <3> QED BY <2>3, <2>5, <3>1
  <2> QED BY <2>3, <2>6
<1> QED BY <1>2, <1>3 DEF w

\* pi's answer has come: a message's own start is expected only where it has one.
LEMMA AcceptedKeeps == ASSUME Tidy, IInv, NEW m \in Msgs, Accepted(m) PROVE IInv'
<1> USE DEF IInv
<1> DEFINE o == outcome[m]
<1>0. /\ m \in Links /\ pc[m] = "accepted" /\ ~Hearing
      /\ pc' = [pc EXCEPT ![m] = "done"] /\ pc \in [Links -> Phases]
      /\ fresh' = Unfresh(m, o) /\ waiting' = WaitingAfter(m, o)
      /\ queued' = (IF o = "queued" THEN queued \cup {m} ELSE queued)
      /\ queuedAs' = (IF o = "queued" THEN queuedAs \cup {m} ELSE queuedAs)
      /\ placed' = (IF o = "handled" /\ Waits(m) THEN placed \cup {m} ELSE placed)
      /\ inPi' = (IF o # "refused" /\ m \in queued' THEN inPi \cup {m} ELSE inPi)
      /\ running' = RunningAfter(m, o)
      /\ tail' = IF tail = m THEN None ELSE tail
      /\ UNCHANGED <<piQueue, inRun, piRun, queue, runs, events, lane, words, ahead, outcome, sentBefore, chosen, again, read, unsent>>
  BY Apart DEF Accepted, Go, piVars, presses, Types, PcType, Leave
<1>1. pc'[m] = "done" /\ \A k \in Links : k # m => pc'[k] = pc[k]
  BY <1>0
<1>2. /\ o \in {"started", "queued", "handled", "refused"} /\ (o = "queued" => m \in queued)
      /\ queued' = queued
  BY <1>0 DEF AccountOK, WaitOK, Types, MapTypes, Outcomes
<1>3. /\ waiting' \in Seq(Msgs) /\ Distinct(waiting')
      /\ Range(waiting') = IF o \in {"handled", "refused"} THEN Range(waiting) \ {m} ELSE Range(waiting)
  <2>1. waiting \in Seq(Msgs) /\ Distinct(waiting)
    BY DEF Types, ListTypes, WaitOK
  <2>2. CASE o \in {"handled", "refused"}
    <3>1. waiting' = Without(waiting, {m})
      BY <1>0, <2>2 DEF WaitingAfter
    <3> QED BY <2>1, <2>2, <3>1, WithoutIs
  <2>3. CASE o \notin {"handled", "refused"}
    <3>1. waiting' = waiting
      BY <1>0, <1>2, <2>3 DEF WaitingAfter
    <3> QED BY <2>1, <2>3, <3>1
  <2> QED BY <2>2, <2>3
<1>4. fresh' \in Seq(Msgs) /\ (fresh' = <<>> \/ fresh' = fresh) /\ (m \in Range(fresh') => o = "started")
  <2>1. fresh \in Seq(Msgs)
    BY DEF Types, ListTypes
  <2>2. CASE o # "started" \/ ~piRun
    <3>1. fresh' = Without(fresh, {m})
      BY <1>0, <2>2 DEF Unfresh
    <3>2. m \notin Range(fresh')
      BY <2>1, <3>1, WithoutIs
    <3> QED BY <3>1, <3>2, FreshLess
  <2>3. CASE ~(o # "started" \/ ~piRun)
    <3>1. fresh' = fresh
      BY <1>0, <2>3 DEF Unfresh
    <3> QED BY <2>1, <2>3, <3>1
  <2> QED BY <2>2, <2>3
<1>5. Range(waiting') \subseteq Range(waiting) /\ \A n \in Msgs : n # m => (Waits(n)' <=> Waits(n))
  BY <1>3 DEF Waits
<1>6. \A j \in ahead[m] : Out(j)
  BY <1>0 DEF ChainOK, TurnOK
<1> HIDE DEF o
<1>7. Types'
  <2>1. ListTypes' /\ SetTypes'
    BY <1>0, <1>2, <1>3, <1>4 DEF Types, ListTypes, SetTypes
  <2>2. PlainTypes'
    <3>1. running' \in BOOLEAN
      BY <1>0, Zenon DEF RunningAfter
    <3> QED BY <1>0, <3>1 DEF Types, PlainTypes
  <2>3. MapTypes'
    BY <1>0 DEF Types, MapTypes
  <2>4. PcType'
    BY <1>0, <1>1, Apart DEF Types, PcType, Phases, MsgPhases
  <2> QED BY <2>1, <2>2, <2>3, <2>4 DEF Types
<1>8. ChainOK'
  <2>1. \A n \in Msgs : Live(n)' => Live(n) /\ n # m
    BY <1>0, <1>1, <1>2, <1>5, Apart DEF Live, Dead
  <2>2. Ordered'
    BY <1>0, <2>1 DEF ChainOK, Ordered
  <2>3. Held'
    <3>1. ASSUME NEW n \in Msgs, Live(n), n # m, tail = m PROVE FALSE
      <4>1. n \in ahead[m]
        BY <3>1 DEF ChainOK, Held
      <4> QED BY <1>6, <3>1, <4>1 DEF Live, Out
    <3> QED BY <1>0, <2>1, <3>1 DEF ChainOK, Held
  <2>4. TurnOK' /\ AheadOK' /\ TailOK'
    BY <1>0, <1>1, Apart DEF ChainOK, TurnOK, AheadOK, TailOK, Out, InChain, Types, MapTypes
  <2>5. IdleOK' /\ StartedOK'
    BY <1>0, <1>1, <1>2, Apart DEF ChainOK, IdleOK, StartedOK
  <2>6. StopsOK'
    BY <1>0, <1>1, <1>2, <1>5, <2>1, Apart DEF ChainOK, StopsOK, DropOK, AbortOK, OverOK
  <2>7. DropsOK'
    <3>1. \A s \in Stops : pc[s] = "drop" => s \notin ahead[m]
      BY <1>6 DEF Out
    <3>2. Handed => Handed'
      BY <1>0, <1>1, <1>5, WaitsInMsgs, Apart DEF Handed
    <3> QED BY <1>0, <1>1, <1>5, <3>1, <3>2, WaitsInMsgs, Apart DEF ChainOK, DropsOK, StopHeld, PastOK, LateOK
  <2> QED BY <2>2, <2>3, <2>4, <2>5, <2>6, <2>7 DEF ChainOK
<1>9. EventsOK'
  BY <1>0, <1>4 DEF EventsOK, Reads
<1>10. FreshOK'
  <2>1. CASE fresh' = <<>>
    BY <2>1, NoneIn DEF FreshOK
  <2>2. CASE fresh' = fresh
    BY <1>0, <1>1, <1>4, <2>2, WaitsInMsgs, Apart DEF FreshOK, Reads, o
  <2> QED BY <1>4, <2>1, <2>2
<1>11. TellsOK'
  BY <1>0, <1>1, Apart DEF TellsOK, Queues1
<1>12. QueueOK'
  <2>1. \A n \in Msgs : InQueue(n) => InQueue(n)'
    BY <1>0, <1>1, <1>2, <1>3, <1>5, Apart DEF InQueue, Waits, o
  <2> QED BY <1>0, <2>1, WaitsInMsgs DEF QueueOK
<1>13. PiOK'
  BY <1>0, <1>1, <1>2, Apart, Zenon DEF PiOK, o, Types, SetTypes
<1>14. WaitOK'
  <2>1. ASSUME NEW n \in Range(waiting')
        PROVE  /\ n \in queued' /\ pc'[n] \in {"ahead", "handing", "accepted", "done"}
               /\ n \notin placed' \cup unsent'
               /\ pc'[n] = "done" => n \in inPi'
               /\ n \in inPi' /\ n \notin read' => n \in Range(queue'[lane'[n]])
    <3>1. n \in Msgs /\ n \in Links /\ n \in Range(waiting) /\ (n = m => o \in {"started", "queued"})
      BY <1>2, <1>3, <1>5, <2>1, WaitsInMsgs, Apart
    <3>2. CASE n = m
      <4>1. n \in queued /\ n \notin placed \cup unsent /\ placed' = placed
        BY <1>0, <3>1, <3>2 DEF WaitOK
      <4>2. o = "started" => m \in read
        BY <1>0 DEF AccountOK, o
      <4>3. o = "queued" => m \in Range(queue[lane[m]])
        BY <1>0 DEF WaitOK, o
      <4> QED BY <1>0, <1>1, <1>2, <3>1, <3>2, <4>1, <4>2, <4>3
    <3>3. CASE n # m
      BY <1>0, <1>1, <1>2, <3>1, <3>3 DEF WaitOK
    <3> QED BY <3>2, <3>3
  <2>2. \A n \in queued' : pc'[n] = "handing" \/ (pc'[n] = "accepted" /\ outcome'[n] # "started") => Waits(n)'
    BY <1>0, <1>1, <1>2, <1>5, Apart DEF WaitOK, Types, SetTypes
  <2>3. \A n \in queuedAs' : n \in inPi' /\ outcome'[n] = "queued"
    BY <1>0, <1>2, Apart DEF WaitOK, Types, SetTypes, o
  <2>4. \A n \in Msgs : pc'[n] = "accepted" /\ outcome'[n] = "queued" => n \in queued' /\ n \notin read' /\ n \in Range(queue'[lane'[n]])
    BY <1>0, <1>1, <1>2, Apart DEF WaitOK
  <2> QED BY <1>3, <2>1, <2>2, <2>3, <2>4 DEF WaitOK
<1>15. AccountOK'
  <2>1. placed' \subseteq read' /\ placed' \cap unsent' = {}
    BY <1>0 DEF AccountOK, WaitOK, Waits, o
  <2> QED BY <1>0, <1>1, <1>2, <2>1, Apart DEF AccountOK
<1>16. AgainOK'
  BY <1>0, <1>1, Apart, WaitsInMsgs DEF AgainOK
<1> QED BY <1>7, <1>8, <1>9, <1>10, <1>11, <1>12, <1>13, <1>14, <1>15, <1>16
-----------------------------------------------------------------------------
(* pi's answers to what it is handed. *)

\* One that is being handed to pi is alone in that, and nothing has its answer still.
LEMMA Alone ==
  ASSUME IInv, NEW m \in Msgs, pc[m] = "handing", NEW n \in Msgs, pc[n] = "handing"
  PROVE  n = m
BY DEF IInv, ChainOK, Ordered, TurnOK, Live, Dead, Out

\* Its turn comes with all before it out of the way: no other is on its way to an idle
\* pi, and no Stop is past its gate.
LEMMA Handing ==
  ASSUME IInv, ~Hearing, ~Settling, NEW m \in Msgs, pc[m] = "handing"
  PROVE  /\ \A k \in Links : pc[k] \notin {"accepted", "over"}
         /\ \A s \in Stops : m \in ahead[s] => pc[s] \notin {"abort", "settle", "over"}
         /\ \A s \in Stops : pc[s] = "drop" => ~Handed
         /\ m \in queued => Waits(m)
         /\ m \notin inPi /\ m \notin read /\ m \notin unsent /\ outcome[m] = "none"
         /\ events = <<>> \/ events[1].kind = "settled"
<1> USE DEF IInv
<1>1. \A k \in Links : pc[k] \notin {"accepted", "over"}
  BY DEF Settling
<1>2. Live(m)
  BY DEF Live, Dead
<1>3. \A s \in Stops : m \in ahead[s] => pc[s] \notin {"abort", "settle", "over"}
  BY <1>2 DEF ChainOK, StopsOK, AbortOK, OverOK
<1>4. \A s \in Stops : pc[s] = "drop" => ~Handed
  BY DEF Settling
<1>5. m \in queued => Waits(m)
  BY DEF WaitOK
<1>6. m \notin inPi /\ m \notin read /\ m \notin unsent /\ outcome[m] = "none"
  BY DEF PiOK, AccountOK
<1>7. events = <<>> \/ events[1].kind = "settled"
  BY DEF Hearing
<1> QED BY <1>1, <1>3, <1>4, <1>5, <1>6, <1>7

\* How it ends up in the chain is the same for each of the answers.
LEMMA AnswerKeepsChain ==
  ASSUME IInv, ~Hearing, ~Settling, NEW m \in Msgs, pc[m] = "handing",
         pc' = [pc EXCEPT ![m] = "accepted"],
         \A n \in Msgs : n # m => outcome'[n] = outcome[n],
         \/ piRun /\ piRun' /\ outcome'[m] # "started"
         \/ ~piRun /\ piRun' /\ outcome'[m] = "started"
         \/ (piRun' <=> piRun) /\ outcome'[m] # "started",
         UNCHANGED <<waiting, tail, queued, ahead, sentBefore>>
  PROVE  ChainOK'
<1> USE DEF IInv
<1>1. /\ m \in Links /\ pc'[m] = "accepted" /\ \A k \in Links : k # m => pc'[k] = pc[k]
  BY Apart DEF Types, PcType
<1>2. \A n \in Msgs : Live(n)' <=> Live(n)
  BY <1>1, Apart DEF Live, Dead, Waits
<1>3. Ordered' /\ Held'
  BY <1>2 DEF ChainOK, Ordered, Held
<1>4. TurnOK' /\ AheadOK' /\ TailOK'
  BY <1>1, Apart DEF ChainOK, TurnOK, AheadOK, TailOK, Out, InChain, Types, MapTypes
<1>5. IdleOK'
  <2>1. ASSUME NEW n \in Msgs, n \notin queued, ~piRun, outcome'[m] = "started", pc'[n] \in {"ahead", "handing"} \/ (pc'[n] = "accepted" /\ outcome'[n] # "started") PROVE FALSE
    <3>1. n # m /\ pc[n] \in {"ahead", "handing"} /\ ahead[n] = {}
      BY <1>1, <2>1, Handing, Apart DEF ChainOK, IdleOK
    <3>2. Live(n) /\ Live(m)
      BY <2>1, <3>1 DEF Live, Dead
    <3>3. n \in ahead[m] /\ ~Out(n)
      BY <3>1, <3>2 DEF ChainOK, Ordered, Out
    <3> QED BY <3>3 DEF ChainOK, TurnOK
  <2> QED BY <1>1, <2>1, Apart DEF ChainOK, IdleOK
<1>6. StartedOK'
  BY <1>1, Handing, Apart DEF ChainOK, StartedOK
<1>7. StopsOK'
  BY <1>1, <1>2, Handing, Apart DEF ChainOK, StopsOK, DropOK, AbortOK, OverOK, Waits, IdleOK
<1>8. DropsOK'
  BY <1>1, Handing, WaitsInMsgs, Apart DEF ChainOK, DropsOK, StopHeld, PastOK, LateOK, TurnOK, Out
<1> QED BY <1>3, <1>4, <1>5, <1>6, <1>7, <1>8 DEF ChainOK

\* What pi says of its queue is heard last, and is the queue as it is now.
LEMMA SaysQueue ==
  ASSUME Types, queue' \in Queues, events' = events \o <<Event("queue", None, queue')>>
  PROVE  /\ events' \in Seq(Events) /\ Len(events) \in Nat /\ Len(events') = Len(events) + 1
         /\ \A i \in 1..Len(events) : events'[i] = events[i]
         /\ events'[Len(events) + 1].kind = "queue" /\ events'[Len(events) + 1].queue = queue'
         /\ (events = <<>> => events'[1].kind = "queue") /\ (events # <<>> => events'[1] = events[1])
<1> DEFINE e == Event("queue", None, queue')
<1>1. e \in Events /\ e.kind = "queue" /\ e.queue = queue'
  BY DEF Event, Events
<1>2. events \in Seq(Events)
  BY DEF Types, PlainTypes
<1> HIDE DEF e
<1>3. <<e>> \in Seq(Events) /\ Len(<<e>>) = 1 /\ <<e>>[1] = e
  BY <1>1
<1>4. events' = events \o <<e>>
  BY DEF e
<1>5. /\ events' \in Seq(Events) /\ Len(events) \in Nat /\ Len(events') = Len(events) + 1
      /\ \A i \in 1..Len(events) : events'[i] = events[i]
      /\ events'[Len(events) + 1] = e
  BY <1>2, <1>3, <1>4
<1>6. (events = <<>> => Len(events) + 1 = 1) /\ (events # <<>> => 1 \in 1..Len(events))
  BY <1>2
<1> QED BY <1>1, <1>5, <1>6

\* What pi says as it starts a run for a message.
LEMMA SaysStart ==
  ASSUME Types, NEW m \in Msgs, events' = events \o <<Event("start", None, Empty), Event("read", m, Empty)>>
  PROVE  /\ events' \in Seq(Events) /\ Len(events) \in Nat /\ Len(events') = Len(events) + 2
         /\ \A i \in 1..Len(events) : events'[i] = events[i]
         /\ events'[Len(events) + 1].kind = "start"
         /\ events'[Len(events) + 2].kind = "read" /\ events'[Len(events) + 2].msg = m
         /\ (events = <<>> => events'[1].kind = "start") /\ (events # <<>> => events'[1] = events[1])
<1> DEFINE e == Event("start", None, Empty)
           d == Event("read", m, Empty)
<1>1. e \in Events /\ e.kind = "start" /\ d \in Events /\ d.kind = "read" /\ d.msg = m
  <2>1. Empty \in Queues
    BY DEF Empty, Queues
  <2> QED BY <2>1 DEF Event, Events
<1>2. events \in Seq(Events)
  BY DEF Types, PlainTypes
<1>4. events' = events \o <<e, d>>
  OBVIOUS
<1> HIDE DEF e, d
<1>3. <<e, d>> \in Seq(Events) /\ Len(<<e, d>>) = 2 /\ <<e, d>>[1] = e /\ <<e, d>>[2] = d
  BY <1>1
<1>5. /\ events' \in Seq(Events) /\ Len(events) \in Nat /\ Len(events') = Len(events) + 2
      /\ \A i \in 1..Len(events) : events'[i] = events[i]
      /\ events'[Len(events) + 1] = e /\ events'[Len(events) + 2] = d
  BY <1>2, <1>3, <1>4
<1>6. (events = <<>> => Len(events) + 1 = 1) /\ (events # <<>> => 1 \in 1..Len(events))
  BY <1>2
<1> QED BY <1>1, <1>5, <1>6

\* What it says of its queue is no reading, and no end of a run.
LEMMA QueueSaid ==
  ASSUME Types, EventsOK, TellsOK, queue' \in Queues, events' = events \o <<Event("queue", None, queue')>>,
         \A m \in read : m \in read' /\ outcome'[m] = outcome[m],
         (piRun' <=> piRun), UNCHANGED <<fresh, piQueue>>,
         events # <<>> /\ events[1].kind = "settled" =>
           /\ \A l \in Lanes : Range(queue'[l]) \subseteq Range(piQueue[l])
           /\ piRun => \A m \in Msgs : pc'[m] # "handing"
  PROVE  EventsOK' /\ TellsOK'
<1>0. PICK n \in Nat : n = Len(events)
  BY SaysQueue
<1>1. /\ Len(events') = n + 1
      /\ \A i \in 1..n : events'[i] = events[i]
      /\ events'[n + 1].kind = "queue" /\ events'[n + 1].queue = queue'
      /\ (events = <<>> => events'[1].kind = "queue") /\ (events # <<>> => events'[1] = events[1])
  BY <1>0, SaysQueue
<1>6. events # <<>> <=> n # 0
  BY <1>0 DEF Types, PlainTypes
<1>2. \A i \in 1..(n + 1) : i \in 1..n \/ i = n + 1
  BY <1>1
<1>3. \A i \in 1..(n + 1) : Reads(i)' => i \in 1..n /\ Reads(i) /\ events'[i] = events[i]
  BY <1>1, <1>2 DEF Reads
<1>4. EventsOK'
  <2>1. \A i \in 2..(n + 1) : events'[i].kind # "settled"
    BY <1>1, <1>0, <1>2 DEF EventsOK
  <2>2. \A i \in 1..(n + 1) : Reads(i)' => events'[i].msg \in read' /\ outcome'[events'[i].msg] \in {"started", "queued"}
    BY <1>0, <1>3 DEF EventsOK
  <2>3. \A i, j \in 1..(n + 1) : Reads(i)' /\ Reads(j)' => i = j
    BY <1>0, <1>3 DEF EventsOK
  <2>4. \A i \in 1..(n + 1) : Reads(i)' /\ fresh' # <<>> => events'[i].msg = fresh'[1]
    BY <1>0, <1>3 DEF EventsOK
  <2>5. \A i \in 1..(n + 1) : Reads(i)' /\ events'[1].kind = "settled" => piRun'
    <3>1. ASSUME NEW i \in 1..(n + 1), Reads(i)', events'[1].kind = "settled" PROVE piRun
      <4>1. i \in 1..n /\ Reads(i)
        BY <1>3, <3>1
      <4>2. events'[1] = events[1]
        BY <1>1, <1>6, <4>1
      <4> QED BY <3>1, <4>1, <4>2, <1>0 DEF EventsOK
    <3> QED BY <3>1
  <2> QED BY <1>1, <2>1, <2>2, <2>3, <2>4, <2>5 DEF EventsOK
<1>5. TellsOK'
  <2>1. n + 1 \in 1..(n + 1) /\ Queues1(n + 1)'
    BY <1>1 DEF Queues1
  <2>2. \A i \in 1..(n + 1) : Queues1(i)' /\ (\A j \in (i + 1)..(n + 1) : ~Queues1(j)') => events'[i].queue = queue'
    <3>1. \A i \in 1..n : n + 1 \in (i + 1)..(n + 1)
      BY <1>1
    <3> QED BY <1>1, <1>2, <2>1, <3>1
  <2>3. events' # <<>> /\ events'[1].kind = "settled" => events # <<>> /\ events[1].kind = "settled"
    BY <1>1
  <2> QED BY <1>1, <2>1, <2>2, <2>3 DEF TellsOK
<1> QED BY <1>4, <1>5

\* A message goes into the run that is going.
LEMMA PiQueuesKeeps == ASSUME Tidy, IInv, NEW m \in Msgs, PiQueues(m) PROVE IInv'
<1> USE DEF IInv
<1>0. /\ m \in Links /\ pc[m] = "handing" /\ ~Hearing /\ ~Settling /\ piRun
      /\ pc' = [pc EXCEPT ![m] = "accepted"] /\ pc \in [Links -> Phases]
      /\ outcome' = [outcome EXCEPT ![m] = "queued"] /\ outcome \in [Msgs -> Outcomes]
      /\ queue' = [queue EXCEPT ![lane[m]] = Append(queue[lane[m]], m)] /\ lane[m] \in Lanes
      /\ events' = events \o <<Event("queue", None, queue')>>
      /\ UNCHANGED <<waiting, fresh, tail, queued, queuedAs, inPi, piQueue, inRun, running, piRun, runs, lane, ahead, sentBefore, chosen, again, read, placed, unsent>>
  BY Apart DEF PiQueues, Go, Say, manager, presses, account, Types, PcType, MapTypes
<1>1. /\ pc'[m] = "accepted" /\ \A k \in Links : k # m => pc'[k] = pc[k]
      /\ outcome'[m] = "queued" /\ \A n \in Msgs : n # m => outcome'[n] = outcome[n]
  BY <1>0
<1>2. /\ m \in queued /\ Waits(m) /\ m \notin read /\ m \notin inPi /\ m \notin unsent
      /\ \A k \in Links : pc[k] # "accepted"
  BY <1>0, Handing DEF ChainOK, IdleOK
<1>3. events = <<>>
  BY <1>0, Handing DEF TellsOK
<1>4. /\ queue' \in Queues /\ \A l \in Lanes : l # lane[m] => queue'[l] = queue[l]
      /\ Range(queue'[lane[m]]) = Range(queue[lane[m]]) \cup {m} /\ Distinct(queue'[lane[m]])
  <2>1. queue \in [Lanes -> Seq(Msgs)] /\ queue[lane[m]] \in Seq(Msgs)
    BY <1>0 DEF Types, ListTypes, Queues
  <2>2. m \notin Range(queue[lane[m]]) /\ Distinct(queue[lane[m]])
    BY <1>0 DEF QueueOK, InQueue
  <2>3. Append(queue[lane[m]], m) \in Seq(Msgs) /\ Distinct(Append(queue[lane[m]], m))
    BY <2>1, <2>2, AppendIn
  <2>4. Range(Append(queue[lane[m]], m)) = Range(queue[lane[m]]) \cup {m}
    BY <2>1, AppendMsg
  <2> QED BY <1>0, <2>1, <2>3, <2>4 DEF Queues
<1>5. Types'
  <2>1. ListTypes' /\ SetTypes'
    BY <1>0, <1>4 DEF Types, ListTypes, SetTypes
  <2>2. PlainTypes'
    BY <1>0, <1>4, SaysQueue DEF Types, PlainTypes
  <2>3. MapTypes'
    <3>1. \E w \in {Text[m], Rewritten[m]} : words' = [words EXCEPT ![m] = w]
      BY DEF PiQueues
    <3>2. DOMAIN words' = Msgs /\ \A n \in Msgs : words'[n] \in {Text[n], Rewritten[n]}
      BY <3>1 DEF Types, MapTypes
    <3>3. outcome' \in [Msgs -> Outcomes]
      BY <1>0 DEF Outcomes
    <3> QED BY <1>0, <3>2, <3>3 DEF Types, MapTypes
  <2>4. PcType'
    BY <1>0, <1>1, Apart DEF Types, PcType, Phases, MsgPhases
  <2> QED BY <2>1, <2>2, <2>3, <2>4 DEF Types
<1>6. ChainOK'
  BY <1>0, <1>1, AnswerKeepsChain
<1>7. EventsOK' /\ TellsOK'
  BY <1>0, <1>1, <1>2, <1>3, <1>4, QueueSaid
<1>8. FreshOK'
  <2>1. ASSUME NEW n \in Range(fresh) PROVE FALSE
    <3>1. n \in Msgs /\ n \in Links /\ Len(events) = 0
      BY <1>3, <2>1, WaitsInMsgs, Apart
    <3> QED BY <1>0, <1>2, <2>1, <3>1 DEF FreshOK
  <2> QED BY <1>0, <2>1 DEF FreshOK
<1>9. QueueOK'
  <2>1. \A n \in Msgs : InQueue(n) => InQueue(n)'
    BY <1>0, <1>1, <1>2, Apart DEF InQueue, Waits
  <2>2. InQueue(m)'
    BY <1>0, <1>1, <1>2 DEF InQueue, Waits
  <2> QED BY <1>0, <1>4, <2>1, <2>2, WaitsInMsgs DEF QueueOK
<1>10. PiOK'
  BY <1>0, <1>1, <1>2, Apart DEF PiOK, Types, SetTypes
<1>11. WaitOK'
  <2>1. \A l \in Lanes : Range(queue[l]) \subseteq Range(queue'[l])
    BY <1>0, <1>4
  <2>2. m \notin queuedAs /\ \A n \in Msgs : lane[n] \in Lanes
    BY <1>0, <1>2 DEF WaitOK, Types, MapTypes
  <2>3. \A n \in Range(waiting) : n \in Msgs /\ n \in Links
    BY WaitsInMsgs, Apart
  <2>4. \A n \in Range(waiting') :
          /\ n \in queued' /\ pc'[n] \in {"ahead", "handing", "accepted", "done"}
          /\ n \notin placed' \cup unsent'
          /\ pc'[n] = "done" => n \in inPi'
          /\ n \in inPi' /\ n \notin read' => n \in Range(queue'[lane'[n]])
    BY <1>0, <1>1, <1>2, <2>1, <2>2, <2>3 DEF WaitOK
  <2>5. \A n \in queued' : pc'[n] = "handing" \/ (pc'[n] = "accepted" /\ outcome'[n] # "started") => Waits(n)'
    BY <1>0, <1>1, <1>2, Apart DEF WaitOK, Types, SetTypes, Waits
  <2>6. \A n \in queuedAs' : n \in inPi' /\ outcome'[n] = "queued"
    BY <1>0, <1>1, <2>2, Apart DEF WaitOK, Types, SetTypes
  <2>7. \A n \in Msgs : pc'[n] = "accepted" /\ outcome'[n] = "queued" => n \in queued' /\ n \notin read' /\ n \in Range(queue'[lane'[n]])
    BY <1>0, <1>1, <1>2, <1>4, Apart
  <2> QED BY <1>0, <2>4, <2>5, <2>6, <2>7 DEF WaitOK
<1>12. AccountOK'
  BY <1>0, <1>1, <1>2, Apart DEF AccountOK
<1>13. AgainOK'
  BY <1>0, <1>1, Apart, WaitsInMsgs DEF AgainOK
<1> QED BY <1>5, <1>6, <1>7, <1>8, <1>9, <1>10, <1>11, <1>12, <1>13

\* A message starts a run of its own.
LEMMA PiStartsKeeps == ASSUME Tidy, IInv, NEW m \in Msgs, PiStarts(m) PROVE IInv'
<1> USE DEF IInv
<1>0. /\ m \in Links /\ pc[m] = "handing" /\ ~Hearing /\ ~Settling /\ ~piRun /\ piRun'
      /\ pc' = [pc EXCEPT ![m] = "accepted"] /\ pc \in [Links -> Phases]
      /\ outcome' = [outcome EXCEPT ![m] = "started"] /\ outcome \in [Msgs -> Outcomes]
      /\ events' = events \o <<Event("start", None, Empty), Event("read", m, Empty)>>
      /\ read' = read \cup {m}
      /\ UNCHANGED <<waiting, fresh, tail, queued, queuedAs, inPi, piQueue, inRun, running, queue, runs, lane, ahead, sentBefore, chosen, again, placed, unsent>>
  BY Apart DEF PiStarts, Go, Say, manager, presses, Types, PcType, MapTypes
<1>1. /\ pc'[m] = "accepted" /\ \A k \in Links : k # m => pc'[k] = pc[k]
      /\ outcome'[m] = "started" /\ \A n \in Msgs : n # m => outcome'[n] = outcome[n]
  BY <1>0
<1>2. /\ m \notin read /\ m \notin inPi /\ m \notin unsent /\ outcome[m] = "none"
      /\ \A k \in Links : pc[k] # "accepted"
      /\ events = <<>> \/ events[1].kind = "settled"
  BY <1>0, Handing
<1>3. PICK len \in Nat : len = Len(events)
  BY <1>0, SaysStart
<1>4. /\ events' \in Seq(Events) /\ Len(events') = len + 2
      /\ \A i \in 1..len : events'[i] = events[i] /\ ~Reads(i)
      /\ events'[len + 1].kind = "start"
      /\ events'[len + 2].kind = "read" /\ events'[len + 2].msg = m
      /\ (events = <<>> => events'[1].kind = "start") /\ (events # <<>> => events'[1] = events[1])
  <2>1. \A i \in 1..len : ~Reads(i)
    <3>1. events = <<>> => len = 0
      BY <1>3
    <3> QED BY <1>0, <1>2, <1>3, <3>1 DEF EventsOK
  <2> QED BY <1>0, <1>3, <2>1, SaysStart
<1>5. \A i \in 1..(len + 2) : i \in 1..len \/ i = len + 1 \/ i = len + 2
  BY <1>3
<1>6. Types'
  <2>1. ListTypes' /\ SetTypes'
    BY <1>0 DEF Types, ListTypes, SetTypes
  <2>2. PlainTypes'
    <3>1. piRun' = TRUE
      BY DEF PiStarts
    <3> QED BY <1>0, <1>4, <3>1 DEF Types, PlainTypes
  <2>3. MapTypes'
    <3>1. \E w \in {Text[m], Rewritten[m]} : words' = [words EXCEPT ![m] = w]
      BY DEF PiStarts
    <3>2. DOMAIN words' = Msgs /\ \A n \in Msgs : words'[n] \in {Text[n], Rewritten[n]}
      BY <3>1 DEF Types, MapTypes
    <3>3. outcome' \in [Msgs -> Outcomes]
      BY <1>0 DEF Outcomes
    <3> QED BY <1>0, <3>2, <3>3 DEF Types, MapTypes
  <2>4. PcType'
    BY <1>0, <1>1, Apart DEF Types, PcType, Phases, MsgPhases
  <2> QED BY <2>1, <2>2, <2>3, <2>4 DEF Types
<1>7. ChainOK'
  BY <1>0, <1>1, AnswerKeepsChain
<1>8. \A n \in Range(fresh) : n = m
  <2>1. ASSUME NEW n \in Range(fresh), n # m PROVE FALSE
    <3>1. n \in Msgs /\ n \in Links
      BY <2>1, WaitsInMsgs, Apart
    <3>2. pc[n] = "handing"
      BY <1>2, <1>3, <1>4, <2>1, <3>1 DEF FreshOK
    <3> QED BY <1>0, <2>1, <3>1, <3>2, Alone
  <2> QED BY <2>1
<1>9. EventsOK'
  <2>1. \A i \in 2..(len + 2) : events'[i].kind # "settled"
    BY <1>3, <1>4, <1>5 DEF EventsOK
  <2>2. \A i \in 1..(len + 2) : Reads(i)' => i = len + 2 /\ events'[i].msg = m
    BY <1>4, <1>5 DEF Reads
  <2>3. fresh' # <<>> => fresh'[1] = m
    BY <1>0, <1>8, FreshOne
  <2>4. \A i \in 1..(len + 2) : Reads(i)' =>
          /\ events'[i].msg \in read' /\ outcome'[events'[i].msg] \in {"started", "queued"}
          /\ fresh' # <<>> => events'[i].msg = fresh'[1]
          /\ piRun'
    BY <1>0, <1>1, <2>2, <2>3
  <2>5. \A i, j \in 1..(len + 2) : Reads(i)' /\ Reads(j)' => i = j
    BY <2>2
  <2> QED BY <1>4, <2>1, <2>4, <2>5 DEF EventsOK
<1>10. FreshOK'
  <2>1. len + 2 \in 1..(len + 2) /\ Reads(len + 2)'
    <3>1. Reads(len + 2)' <=> events'[len + 2].kind = "read"
      BY DEF Reads
    <3> QED BY <1>3, <1>4, <3>1
  <2> QED BY <1>0, <1>1, <1>4, <1>8, <2>1 DEF FreshOK
<1>11. TellsOK'
  <2>1. \A i \in 1..(len + 2) : Queues1(i)' <=> i \in 1..len /\ Queues1(i)
    BY <1>4, <1>5 DEF Queues1
  <2>2. (\A i \in 1..(len + 2) : ~Queues1(i)') => \A i \in 1..len : ~Queues1(i)
    BY <1>3, <2>1
  <2>3. ASSUME NEW i \in 1..(len + 2), Queues1(i)', \A j \in (i + 1)..(len + 2) : ~Queues1(j)' PROVE events'[i].queue = queue
    <3>1. i \in 1..len /\ Queues1(i)
      BY <2>1, <2>3
    <3>2. \A j \in (i + 1)..len : j \in 1..len /\ j \in 1..(len + 2) /\ j \in (i + 1)..(len + 2)
      BY <1>3
    <3> QED BY <1>3, <1>4, <2>1, <2>3, <3>1, <3>2 DEF TellsOK
  <2>4. events' # <<>> /\ events'[1].kind = "settled" => events # <<>> /\ events[1].kind = "settled"
    BY <1>4
  <2>5. \A n \in Msgs : pc'[n] # "handing"
    BY <1>0, <1>1, Alone, Apart
  <2> QED BY <1>0, <1>3, <1>4, <2>2, <2>3, <2>4, <2>5 DEF TellsOK
<1>12. QueueOK'
  <2>1. \A n \in Msgs : InQueue(n) => InQueue(n)'
    BY <1>0, <1>1, Apart DEF InQueue, Waits
  <2> QED BY <1>0, <2>1, WaitsInMsgs DEF QueueOK
<1>13. PiOK'
  BY <1>0, <1>1, <1>2, Apart DEF PiOK, Types, SetTypes
<1>14. WaitOK'
  <2>1. m \notin queuedAs
    BY <1>2 DEF WaitOK
  <2> QED BY <1>0, <1>1, <1>2, <2>1, WaitsInMsgs, Apart DEF WaitOK, Types, SetTypes, Waits
<1>15. AccountOK'
  BY <1>0, <1>1, <1>2, Apart DEF AccountOK
<1>16. AgainOK'
  BY <1>0, <1>1, Apart, WaitsInMsgs DEF AgainOK
<1> QED BY <1>6, <1>7, <1>9, <1>10, <1>11, <1>12, <1>13, <1>14, <1>15, <1>16

\* A message is taken by an extension, or refused.
LEMMA PiDeclinesKeeps == ASSUME Tidy, IInv, NEW m \in Msgs, PiDeclines(m) PROVE IInv'
<1> USE DEF IInv
<1>0. PICK o \in {"handled", "refused"} :
        outcome' = [outcome EXCEPT ![m] = o] /\ read' = IF o = "handled" THEN read \cup {m} ELSE read
  BY DEF PiDeclines
<1>1. /\ m \in Links /\ pc[m] = "handing" /\ ~Hearing /\ ~Settling
      /\ pc' = [pc EXCEPT ![m] = "accepted"] /\ pc \in [Links -> Phases] /\ outcome \in [Msgs -> Outcomes]
      /\ UNCHANGED <<waiting, fresh, tail, queued, queuedAs, inPi, piQueue, inRun, running, piRun, queue, runs, events, lane, words, ahead, sentBefore, chosen, again, placed, unsent>>
  BY Apart DEF PiDeclines, Go, manager, piVars, presses, Types, PcType, MapTypes
<1>2. /\ pc'[m] = "accepted" /\ \A k \in Links : k # m => pc'[k] = pc[k]
      /\ outcome'[m] = o /\ \A n \in Msgs : n # m => outcome'[n] = outcome[n]
  BY <1>0, <1>1
<1>3. /\ m \notin read /\ m \notin inPi /\ m \notin unsent /\ outcome[m] = "none"
      /\ \A k \in Links : pc[k] # "accepted" /\ (m \in queued => Waits(m))
  BY <1>1, Handing
<1>4. Types'
  <2>1. ListTypes' /\ SetTypes' /\ PlainTypes'
    BY <1>0, <1>1 DEF Types, ListTypes, SetTypes, PlainTypes
  <2>2. MapTypes'
    <3>1. outcome' \in [Msgs -> Outcomes]
      BY <1>0, <1>1 DEF Outcomes
    <3> QED BY <1>1, <3>1 DEF Types, MapTypes
  <2>3. PcType'
    BY <1>1, <1>2, Apart DEF Types, PcType, Phases, MsgPhases
  <2> QED BY <2>1, <2>2, <2>3 DEF Types
<1>5. ChainOK'
  BY <1>0, <1>1, <1>2, AnswerKeepsChain
<1>6. EventsOK'
  BY <1>0, <1>1, <1>2, <1>3 DEF EventsOK, Reads
<1>7. FreshOK'
  BY <1>0, <1>1, <1>2, WaitsInMsgs, Apart DEF FreshOK, Reads
<1>8. TellsOK'
  BY <1>1, <1>2, Apart DEF TellsOK, Queues1
<1>9. QueueOK'
  <2>1. \A n \in Msgs : InQueue(n) => InQueue(n)'
    BY <1>0, <1>1, <1>2, Apart DEF InQueue, Waits
  <2> QED BY <1>1, <2>1, WaitsInMsgs DEF QueueOK
<1>10. PiOK'
  BY <1>1, <1>2, <1>3, Apart DEF PiOK, Types, SetTypes
<1>11. WaitOK'
  <2>1. m \notin queuedAs
    BY <1>3 DEF WaitOK
  <2> QED BY <1>0, <1>1, <1>2, <1>3, <2>1, WaitsInMsgs, Apart DEF WaitOK, Types, SetTypes, Waits
<1>12. AccountOK'
  BY <1>0, <1>1, <1>2, <1>3, Apart DEF AccountOK
<1>13. AgainOK'
  BY <1>1, <1>2, Apart, WaitsInMsgs DEF AgainOK
<1> QED BY <1>4, <1>5, <1>6, <1>7, <1>8, <1>9, <1>10, <1>11, <1>12, <1>13
-----------------------------------------------------------------------------
(* pi's run. *)

\* With nothing left to hear while pi works, no start is expected.
LEMMA NoneFresh == ASSUME IInv, NextTurn, piRun PROVE fresh = <<>>
<1> USE DEF IInv
<1>1. ASSUME NEW n \in Range(fresh) PROVE FALSE
  <2>1. n \in Msgs /\ n \in Links /\ Len(events) = 0
    BY <1>1, Turn, WaitsInMsgs, Apart
  <2> QED BY <1>1, <2>1, Turn DEF FreshOK
<1> QED BY <1>1, FreshOne

\* In one run it goes by the accounts of pi and of the portal as they stand.
LEMMA RunKeepsChain ==
  ASSUME IInv, \A n \in Msgs : pc[n] = "accepted" /\ outcome[n] = "started" => piRun', piRun' => piRun,
         UNCHANGED <<waiting, tail, queued, ahead, sentBefore, pc, outcome>>
  PROVE  ChainOK'
<1> USE DEF IInv
<1>1. \A n \in Msgs : Live(n)' <=> Live(n)
  BY DEF Live, Dead, Waits
<1>2. Ordered' /\ Held'
  BY <1>1 DEF ChainOK, Ordered, Held
<1>3. TurnOK' /\ AheadOK' /\ TailOK'
  BY DEF ChainOK, TurnOK, AheadOK, TailOK, Out
<1>4. IdleOK' /\ StartedOK'
  BY DEF ChainOK, IdleOK, StartedOK
<1>5. StopsOK'
  BY <1>1 DEF ChainOK, StopsOK, DropOK, AbortOK, OverOK, Waits
<1>6. DropsOK'
  BY DEF ChainOK, DropsOK, StopHeld, PastOK, LateOK, Handed
<1> QED BY <1>2, <1>3, <1>4, <1>5, <1>6 DEF ChainOK

\* No run begins unasked here.
LEMMA PiWakesNever == ASSUME Tidy, IInv, PiWakes PROVE FALSE
BY DEF Tidy, PiWakes, IInv, Types, PlainTypes

\* pi reads the next of its queue.
LEMMA PiReadsKeeps == ASSUME Tidy, IInv, PiReads PROVE IInv'
<1> USE DEF IInv
<1>0. PICK l \in Lanes :
        /\ queue[l] # <<>> /\ queue' = [queue EXCEPT ![l] = Tail(queue[l])]
        /\ read' = read \cup {Head(queue[l])}
        /\ events' = events \o <<Event("queue", None, queue'), Event("read", Head(queue[l]), Empty)>>
  BY DEF PiReads, Say
<1>1. /\ piRun /\ events = <<>> /\ \A k \in Links : pc[k] # "accepted"
      /\ UNCHANGED <<waiting, fresh, tail, queued, queuedAs, inPi, piQueue, inRun, running, piRun, runs, pc, lane, words, ahead, outcome, sentBefore, chosen, again, placed, unsent>>
  BY Turn DEF PiReads, manager, reqs, presses
<1> DEFINE h == Head(queue[l])
<1>2. /\ queue \in [Lanes -> Seq(Msgs)] /\ queue[l] \in Seq(Msgs)
      /\ h \in Msgs /\ Tail(queue[l]) \in Seq(Msgs) /\ Range(queue[l]) = Range(Tail(queue[l])) \cup {h}
      /\ Distinct(Tail(queue[l])) /\ h \notin Range(Tail(queue[l]))
  <2>1. queue \in [Lanes -> Seq(Msgs)] /\ queue[l] \in Seq(Msgs)
    BY DEF Types, ListTypes, Queues
  <2>2. Distinct(queue[l])
    BY DEF QueueOK
  <2> QED BY <1>0, <2>1, <2>2, TailIn
<1>3. /\ l = lane[h] /\ InQueue(h) /\ queue' \in Queues
      /\ queue'[l] = Tail(queue[l]) /\ \A k \in Lanes : k # l => queue'[k] = queue[k]
  BY <1>0, <1>2 DEF QueueOK, Queues
<1> DEFINE e == Event("queue", None, queue')
           d == Event("read", h, Empty)
<1>4. e \in Events /\ e.kind = "queue" /\ e.queue = queue' /\ d \in Events /\ d.kind = "read" /\ d.msg = h
  <2>1. Empty \in Queues
    BY DEF Empty, Queues
  <2> QED BY <1>2, <1>3, <2>1 DEF Event, Events
<1>5. events' = events \o <<e, d>>
  BY <1>0
<1> HIDE DEF e, d, h
<1>6. <<e, d>> \in Seq(Events) /\ Len(<<e, d>>) = 2 /\ <<e, d>>[1] = e /\ <<e, d>>[2] = d
  BY <1>4
<1>7. /\ events' \in Seq(Events) /\ Len(events') = 2 /\ events'[1].kind = "queue" /\ events'[1].queue = queue'
      /\ events'[2].kind = "read" /\ events'[2].msg = h
  <2>1. events' = <<e, d>>
    BY <1>1, <1>5, <1>6, ConcatEmptySeq
  <2> QED BY <1>4, <1>6, <2>1
<1>8. \A i \in 1..2 : (i = 1 \/ i = 2) /\ (Reads(i)' <=> i = 2) /\ (Queues1(i)' <=> i = 1)
  <2>1. \A i \in 1..2 : i = 1 \/ i = 2
    OBVIOUS
  <2> QED BY <1>7, <2>1 DEF Reads, Queues1
<1>9. fresh = <<>>
  BY <1>1, NoneFresh DEF PiReads
<1>10. /\ read' = read \cup {h} /\ h \notin read /\ outcome[h] = "queued" /\ pc[h] = "done"
  BY <1>0, <1>1, <1>2, <1>3, Apart DEF InQueue, h
<1>11. Types'
  <2>1. ListTypes' /\ SetTypes'
    BY <1>1, <1>2, <1>3, <1>10 DEF Types, ListTypes, SetTypes
  <2>2. PlainTypes' /\ MapTypes' /\ PcType'
    BY <1>1, <1>7 DEF Types, PlainTypes, MapTypes, PcType
  <2> QED BY <2>1, <2>2 DEF Types
<1>12. ChainOK'
  BY <1>1, RunKeepsChain
<1>13. EventsOK'
  BY <1>1, <1>7, <1>8, <1>9, <1>10 DEF EventsOK
<1>14. FreshOK'
  BY <1>1, <1>9, NoneIn DEF FreshOK
<1>15. TellsOK'
  <2>1. 1 \in 1..2 /\ 2 \in (1 + 1)..2
    OBVIOUS
  <2> QED BY <1>7, <1>8, <2>1 DEF TellsOK
<1>16. QueueOK'
  <2>1. \A n \in Msgs : InQueue(n) /\ n # h => InQueue(n)'
    BY <1>1, <1>10 DEF InQueue, Waits
  <2>2. \A k \in Lanes : \A n \in Range(queue'[k]) : n \in Range(queue[k]) /\ n # h /\ n \in Msgs
    BY <1>2, <1>3, WaitsInMsgs DEF QueueOK
  <2>3. \A k \in Lanes : Distinct(queue'[k])
    BY <1>2, <1>3 DEF QueueOK
  <2> QED BY <1>1, <2>1, <2>2, <2>3 DEF QueueOK
<1>17. PiOK'
  BY <1>1 DEF PiOK
<1>18. WaitOK'
  <2>1. \A n \in Msgs : n # h /\ n \in Range(queue[lane[n]]) => n \in Range(queue'[lane[n]])
    BY <1>2, <1>3 DEF Types, MapTypes
  <2> QED BY <1>1, <1>10, <2>1, WaitsInMsgs, Apart DEF WaitOK, Waits
<1>19. AccountOK'
  BY <1>1, <1>10 DEF AccountOK
<1>20. AgainOK'
  BY <1>1 DEF AgainOK
<1> QED BY <1>11, <1>12, <1>13, <1>14, <1>15, <1>16, <1>17, <1>18, <1>19, <1>20

\* A run ends with its queue as it is.
LEMMA PiSettlesKeeps == ASSUME Tidy, IInv, PiSettles PROVE IInv'
<1> USE DEF IInv
<1> DEFINE e == Event("settled", None, Empty)
<1>1. /\ piRun /\ events = <<>> /\ \A k \in Links : pc[k] # "accepted"
      /\ ~piRun' /\ events' = events \o <<e>>
      /\ UNCHANGED <<waiting, fresh, tail, queued, queuedAs, inPi, piQueue, inRun, running, queue, runs, pc, lane, words, ahead, outcome, sentBefore, chosen, again, read, placed, unsent>>
  BY Turn DEF PiSettles, manager, reqs, presses, account, Say
<1>2. e \in Events /\ e.kind = "settled"
  <2>1. Empty \in Queues
    BY DEF Empty, Queues
  <2> QED BY <2>1 DEF Event, Events
<1> HIDE DEF e
<1>3. <<e>> \in Seq(Events) /\ Len(<<e>>) = 1 /\ <<e>>[1] = e
  BY <1>2
<1>4. events' \in Seq(Events) /\ Len(events') = 1 /\ events'[1].kind = "settled"
  <2>1. events' = <<e>>
    BY <1>1, <1>3, ConcatEmptySeq
  <2> QED BY <1>2, <1>3, <2>1
<1>5. \A i \in 1..1 : ~Reads(i)' /\ ~Queues1(i)'
  <2>1. \A i \in 1..1 : i = 1
    OBVIOUS
  <2> QED BY <1>4, <2>1 DEF Reads, Queues1
<1>6. fresh = <<>>
  BY <1>1, NoneFresh DEF PiSettles
<1>7. Types'
  <2>1. piRun' = FALSE
    BY DEF PiSettles
  <2> QED BY <1>1, <1>4, <2>1 DEF Types, ListTypes, SetTypes, PlainTypes, MapTypes, PcType
<1>8. ChainOK'
  BY <1>1, RunKeepsChain, Apart
<1>9. EventsOK' /\ FreshOK'
  BY <1>1, <1>4, <1>5, <1>6, NoneIn DEF EventsOK, FreshOK
<1>10. TellsOK'
  <2>1. piQueue = queue
    <3>1. Len(events) = 0
      BY <1>1
    <3> QED BY <3>1 DEF TellsOK
  <2> QED BY <1>1, <1>4, <1>5, <2>1 DEF TellsOK
<1>11. QueueOK' /\ PiOK' /\ WaitOK' /\ AccountOK' /\ AgainOK'
  BY <1>1 DEF QueueOK, InQueue, Waits, PiOK, WaitOK, AccountOK, AgainOK
<1> QED BY <1>7, <1>8, <1>9, <1>10, <1>11
-----------------------------------------------------------------------------
(* pi's events, heard one by one. *)

\* The events behind the first, which is heard.
LEMMA Heard ==
  ASSUME Types, events # <<>>, events' = Tail(events)
  PROVE  /\ events' \in Seq(Events) /\ Len(events') \in Nat /\ Len(events) = Len(events') + 1
         /\ events[1] \in Events /\ 1 \in 1..Len(events)
         /\ \A i \in 1..Len(events') : i + 1 \in 2..Len(events) /\ i + 1 \in 1..Len(events) /\ events'[i] = events[i + 1]
<1>1. events \in Seq(Events) /\ Len(events) \in Nat /\ Len(events) # 0
  BY DEF Types, PlainTypes
<1>2. events' \in Seq(Events) /\ Len(events') = Len(events) - 1 /\ events[1] \in Events
  BY <1>1
<1>3. \A i \in 1..(Len(events) - 1) : events'[i] = events[i + 1]
  BY <1>1
<1> QED BY <1>1, <1>2, <1>3

\* The events that are left once the first is heard.
LEMMA HeardKeeps ==
  ASSUME Types, EventsOK, TellsOK, events # <<>>, events' = Tail(events), (piRun' <=> piRun), fresh' = fresh \/ fresh' = <<>>,
         piQueue' = (IF events[1].kind = "queue" THEN events[1].queue ELSE piQueue),
         UNCHANGED <<read, outcome, queue>>
  PROVE  EventsOK' /\ TellsOK'
<1>9. Len(events') \in Nat
  BY Heard
<1>0. PICK n \in Nat : n = Len(events')
  BY <1>9
<1>1. /\ Len(events) = n + 1 /\ 1 \in 1..(n + 1)
      /\ \A i \in 1..n : i + 1 \in 2..(n + 1) /\ i + 1 \in 1..(n + 1) /\ events'[i] = events[i + 1]
  BY <1>0, Heard
<1>2. \A i \in 1..n : (Reads(i)' <=> Reads(i + 1)) /\ (Queues1(i)' <=> Queues1(i + 1)) /\ events'[i].kind # "settled"
  BY <1>1 DEF Reads, Queues1, EventsOK
<1>3. EventsOK'
  <2>1. \A i \in 1..n : Reads(i)' =>
          /\ events'[i].msg \in read' /\ outcome'[events'[i].msg] \in {"started", "queued"}
          /\ fresh' # <<>> => events'[i].msg = fresh'[1]
    BY <1>1, <1>2 DEF EventsOK
  <2>2. \A i, j \in 1..n : Reads(i)' /\ Reads(j)' => i = j
    <3>1. ASSUME NEW i \in 1..n, NEW j \in 1..n, Reads(i)', Reads(j)' PROVE i = j
      <4>1. i + 1 = j + 1
        BY <1>1, <1>2, <3>1 DEF EventsOK
      <4> QED BY <1>0, <4>1
    <3> QED BY <3>1
  <2>3. \A i \in 2..n : i \in 1..n
    OBVIOUS
  <2>4. \A i \in 1..n : 1 \in 1..n
    BY <1>0
  <2> QED BY <1>0, <1>2, <2>1, <2>2, <2>3, <2>4 DEF EventsOK
<1>4. TellsOK'
  <2>1. \A i \in 1..(n + 1) : i = 1 \/ \E k \in 1..n : i = k + 1
    <3>1. ASSUME NEW i \in 1..(n + 1), i # 1 PROVE \E k \in 1..n : i = k + 1
      <4>1. i - 1 \in 1..n /\ i = (i - 1) + 1
        BY <1>0, <3>1
      <4> QED BY <4>1
    <3> QED BY <3>1
  <2>2. ASSUME \A i \in 1..n : ~Queues1(i)' PROVE piQueue' = queue
    <3>1. \A i \in 2..(n + 1) : ~Queues1(i)
      <4>1. \A i \in 2..(n + 1) : i \in 1..(n + 1) /\ i # 1
        BY <1>0
      <4> QED BY <1>2, <2>1, <2>2, <4>1
    <3>2. CASE Queues1(1)
      <4>1. \A j \in (1 + 1)..Len(events) : ~Queues1(j)
        BY <1>1, <3>1
      <4> QED BY <1>1, <3>2, <4>1 DEF TellsOK, Queues1
    <3>3. CASE ~Queues1(1)
      <4>1. \A j \in 1..Len(events) : ~Queues1(j)
        <5>1. ASSUME NEW j \in 1..(n + 1) PROVE ~Queues1(j)
          <6>1. CASE j = 1
            BY <3>3, <6>1
          <6>2. CASE j # 1
            BY <1>2, <2>1, <2>2, <6>2
          <6> QED BY <6>1, <6>2
        <5> QED BY <1>1, <5>1
      <4>2. piQueue' = piQueue /\ piQueue = queue
        BY <1>1, <3>3, <4>1 DEF TellsOK, Queues1
      <4> QED BY <4>2
    <3> QED BY <3>2, <3>3
  <2>3. ASSUME NEW i \in 1..n, Queues1(i)', \A j \in (i + 1)..n : ~Queues1(j)' PROVE events'[i].queue = queue
    <3>1. ASSUME NEW j \in ((i + 1) + 1)..(n + 1) PROVE ~Queues1(j)
      <4>1. j - 1 \in (i + 1)..n /\ j - 1 \in 1..n /\ (j - 1) + 1 = j
        BY <1>0
      <4>2. PICK k \in (i + 1)..n : k \in 1..n /\ k + 1 = j
        BY <4>1
      <4> QED BY <1>2, <2>3, <4>2
    <3> QED BY <1>1, <1>2, <2>3, <3>1 DEF TellsOK
  <2>4. events' # <<>> => events'[1].kind # "settled"
    <3>1. events' # <<>> => 1 \in 1..n
      BY <1>0, Heard, EmptySeq
    <3> QED BY <1>2, <3>1
  <2> QED BY <1>0, <2>2, <2>3, <2>4 DEF TellsOK
<1> QED BY <1>3, <1>4

\* The start that is expected is still to be heard, but for the one that was.
LEMMA HeardFresh ==
  ASSUME Types, FreshOK, events # <<>>, events' = Tail(events), events[1].kind # "read",
         \A m \in Msgs : pc'[m] = pc[m], (piRun' <=> piRun), UNCHANGED <<fresh, outcome>>
  PROVE  FreshOK'
<1>9. Len(events') \in Nat
  BY Heard
<1>0. PICK n \in Nat : n = Len(events')
  BY <1>9
<1>1. /\ Len(events) = n + 1
      /\ \A i \in 1..n : i + 1 \in 1..(n + 1) /\ events'[i] = events[i + 1]
  BY <1>0, Heard
<1>2. ASSUME NEW m \in Msgs, NEW i \in 1..(n + 1), Reads(i), events[i].msg = m
      PROVE  \E j \in 1..n : Reads(j)' /\ events'[j].msg = m
  <2>1. i # 1
    BY <1>2 DEF Reads
  <2>2. i - 1 \in 1..n /\ (i - 1) + 1 = i
    BY <1>0, <2>1
  <2>3. events'[i - 1] = events[i]
    BY <1>1, <2>2
  <2>4. PICK j \in 1..n : events'[j] = events[i]
    BY <2>2, <2>3
  <2>5. Reads(j)' <=> events'[j].kind = "read"
    BY DEF Reads
  <2> QED BY <1>2, <2>4, <2>5 DEF Reads
<1> QED BY <1>0, <1>1, <1>2, WaitsInMsgs DEF FreshOK

\* The start of a run is heard.
LEMMA HearStartKeeps == ASSUME Tidy, IInv, HearStart PROVE IInv'
<1> USE DEF IInv
<1>1. /\ events # <<>> /\ events[1].kind = "start" /\ events' = Tail(events)
      /\ inRun' = TRUE /\ running' = TRUE
      /\ UNCHANGED <<waiting, fresh, tail, queued, queuedAs, inPi, piQueue, piRun, queue, runs, pc, lane, words, ahead, outcome, sentBefore, chosen, again, read, placed, unsent>>
  BY DEF HearStart, Hear, reqs, presses, account
<1>2. Types'
  BY <1>1, Heard DEF Types, ListTypes, SetTypes, PlainTypes, MapTypes, PcType
<1>3. ChainOK'
  BY <1>1, RunKeepsChain DEF ChainOK, StartedOK
<1>4. EventsOK' /\ TellsOK' /\ FreshOK'
  BY <1>1, HeardKeeps, HeardFresh
<1>5. QueueOK' /\ PiOK' /\ WaitOK' /\ AccountOK' /\ AgainOK'
  BY <1>1 DEF QueueOK, InQueue, Waits, PiOK, WaitOK, AccountOK, AgainOK
<1> QED BY <1>2, <1>3, <1>4, <1>5

\* What is in pi's queue is heard.
LEMMA HearQueueKeeps == ASSUME Tidy, IInv, HearQueue PROVE IInv'
<1> USE DEF IInv
<1>1. /\ events # <<>> /\ events[1].kind = "queue" /\ events' = Tail(events)
      /\ piQueue' = events[1].queue
      /\ UNCHANGED <<waiting, fresh, tail, queued, queuedAs, inPi, inRun, running, piRun, queue, runs, pc, lane, words, ahead, outcome, sentBefore, chosen, again, read, placed, unsent>>
  BY DEF HearQueue, Hear, reqs, presses, account
<1>2. Types'
  <2>1. events' \in Seq(Events) /\ events[1].queue \in Queues
    BY <1>1, Heard DEF Events
  <2> QED BY <1>1, <2>1 DEF Types, ListTypes, SetTypes, PlainTypes, MapTypes, PcType
<1>3. ChainOK'
  BY <1>1, RunKeepsChain DEF ChainOK, StartedOK
<1>4. EventsOK' /\ TellsOK' /\ FreshOK'
  BY <1>1, HeardKeeps, HeardFresh
<1>5. QueueOK' /\ PiOK' /\ WaitOK' /\ AccountOK' /\ AgainOK'
  BY <1>1 DEF QueueOK, InQueue, Waits, PiOK, WaitOK, AccountOK, AgainOK
<1> QED BY <1>2, <1>3, <1>4, <1>5

\* The message that a reading is taken to be of: the one expected to start, or one that
\* waits with the words that were read.
LEMMA TakenIs ==
  ASSUME IInv, OwnWords, NEW m \in Msgs, NEW t, t = TakenIn(words[m]), t # None
  PROVE  t = m /\ t \in Range(waiting)
<1> USE DEF IInv
<1>1. waiting \in Seq(Msgs) /\ Len(waiting) \in Nat
  BY DEF Types, ListTypes
<1> DEFINE lanes(l) == {i \in 1..Len(waiting) : waiting[i] \in queuedAs /\ lane[waiting[i]] = l /\ words[waiting[i]] = words[m]}
           sent     == {i \in 1..Len(waiting) : waiting[i] \notin queuedAs /\ Text[waiting[i]] = words[m]}
           head(I)  == IF I # {} THEN Min(I) ELSE 0
           pick(I)  == IF head(I) = 0 THEN None ELSE waiting[head(I)]
<1>2. t = IF pick(lanes("steering")) # None THEN pick(lanes("steering"))
          ELSE IF pick(lanes("followUp")) # None THEN pick(lanes("followUp")) ELSE pick(sent)
  BY DEF TakenIn, First, SelectInSeq
<1>3. ASSUME NEW I, I \subseteq 1..Len(waiting), pick(I) # None PROVE \E i \in I : pick(I) = waiting[i]
  <2>1. I # {} /\ I \subseteq Nat
    BY <1>1, <1>3
  <2>2. Min(I) \in I
    BY <2>1, MinIs
  <2> QED BY <1>3, <2>1, <2>2
<1> HIDE DEF pick
<1>4. \E i \in 1..Len(waiting) : t = waiting[i] /\ (words[t] = words[m] \/ Text[t] = words[m])
  <2>1. CASE \E l \in Lanes : t = pick(lanes(l))
    <3>1. PICK l \in Lanes : t = pick(lanes(l))
      BY <2>1
    <3>2. lanes(l) \subseteq 1..Len(waiting)
      OBVIOUS
    <3>3. PICK i \in lanes(l) : t = waiting[i]
      BY <1>3, <3>1, <3>2
    <3> QED BY <3>3
  <2>2. CASE t = pick(sent)
    <3>1. sent \subseteq 1..Len(waiting)
      OBVIOUS
    <3>2. PICK i \in sent : t = waiting[i]
      BY <1>3, <2>2, <3>1
    <3> QED BY <3>2
  <2> QED BY <1>2, <2>1, <2>2 DEF Lanes
<1>5. t \in Msgs /\ t \in Range(waiting)
  BY <1>1, <1>4 DEF Range
<1>6. words[m] \in {Text[m], Rewritten[m]} /\ words[t] \in {Text[t], Rewritten[t]}
  BY <1>5 DEF Types, MapTypes
<1> QED BY <1>4, <1>5, <1>6 DEF OwnWords

\* Messages that pi has read and that wait are placed: nothing else hung on their waiting.
Passed == {m \in read : pc[m] = "accepted" => outcome[m] = "started"}

\* What pi has read is placed where it took it in.
LEMMA PlaceKeeps ==
  ASSUME IInv, NEW S, S \cap Range(waiting) \subseteq Passed, Place(S),
         \A m \in Msgs : pc'[m] = pc[m],
         \A s \in Stops : pc'[s] = pc[s] \/ (pc[s] = "settle" /\ pc'[s] = "over"),
         UNCHANGED <<tail, queued, queuedAs, inPi, piRun, queue, lane, ahead, outcome, sentBefore, again, read, unsent>>
  PROVE  /\ waiting' \in Seq(Msgs) /\ placed' \subseteq Msgs /\ placed' \ placed \subseteq S
         /\ ChainOK' /\ QueueOK' /\ PiOK' /\ WaitOK' /\ AccountOK' /\ AgainOK'
<1> USE DEF IInv
<1>1. waiting' \in Seq(Msgs) /\ Distinct(waiting') /\ Range(waiting') = Range(waiting) \ S
  BY WithoutIs DEF Place, Types, ListTypes, WaitOK
<1>2. placed' = placed \cup (S \cap Range(waiting))
  BY DEF Place
<1>3. \A m \in S \cap Range(waiting) : /\ m \in Msgs /\ m \in read /\ pc[m] \in {"accepted", "done"} /\ m \in queued
                                       /\ pc[m] = "accepted" => outcome[m] = "started"
  BY WaitsInMsgs DEF AccountOK, WaitOK, Passed
<1>4. \A m \in Msgs : Live(m)' <=> Live(m)
  BY <1>1, <1>3 DEF Live, Dead, Waits
<1>5. \A k \in Links : (Out(k)' <=> Out(k)) /\ (pc'[k] \in InChain <=> pc[k] \in InChain) /\ (pc'[k] = pc[k] \/ k \in Stops)
  BY DEF Out, InChain, Links
<1>6. Handed => Handed'
  BY <1>1, WaitsInMsgs DEF Handed
<1>7. ChainOK'
  <2>1. Ordered' /\ Held'
    BY <1>4 DEF ChainOK, Ordered, Held
  <2>2. TurnOK'
    BY <1>5, Apart DEF ChainOK, TurnOK, Types, MapTypes
  <2>3. AheadOK' /\ TailOK'
    BY <1>5, Apart DEF ChainOK, AheadOK, TailOK, Types, MapTypes
  <2>4. IdleOK' /\ StartedOK'
    BY DEF ChainOK, IdleOK, StartedOK
  <2>5. StopsOK'
    BY <1>1, <1>4 DEF ChainOK, StopsOK, DropOK, AbortOK, OverOK, Waits
  <2>6. DropsOK'
    BY <1>1, <1>6, WaitsInMsgs DEF ChainOK, DropsOK, StopHeld, PastOK, LateOK
  <2> QED BY <2>1, <2>2, <2>3, <2>4, <2>5, <2>6 DEF ChainOK
<1>8. QueueOK'
  <2>1. \A n \in Msgs : InQueue(n) => InQueue(n)'
    BY <1>1, <1>3 DEF InQueue, Waits
  <2> QED BY <2>1, WaitsInMsgs DEF QueueOK
<1>9. PiOK'
  BY DEF PiOK, Types, SetTypes
<1>10. WaitOK'
  <2>1. \A n \in Range(waiting') :
          /\ n \in queued' /\ pc'[n] \in {"ahead", "handing", "accepted", "done"}
          /\ n \notin placed' \cup unsent'
          /\ pc'[n] = "done" => n \in inPi'
          /\ n \in inPi' /\ n \notin read' => n \in Range(queue'[lane'[n]])
    BY <1>1, <1>2, WaitsInMsgs DEF WaitOK
  <2>2. \A n \in queued' : pc'[n] = "handing" \/ (pc'[n] = "accepted" /\ outcome'[n] # "started") => Waits(n)'
    BY <1>1, <1>3 DEF WaitOK, Waits, Types, SetTypes
  <2>3. \A n \in queuedAs' : n \in inPi' /\ outcome'[n] = "queued"
    BY DEF WaitOK
  <2>4. \A n \in Msgs : pc'[n] = "accepted" /\ outcome'[n] = "queued" => n \in queued' /\ n \notin read' /\ n \in Range(queue'[lane'[n]])
    BY DEF WaitOK
  <2> QED BY <1>1, <2>1, <2>2, <2>3, <2>4 DEF WaitOK
<1>11. AccountOK'
  <2>1. placed' \subseteq read' /\ placed' \cap unsent' = {}
    BY <1>2, <1>3 DEF AccountOK, WaitOK
  <2> QED BY <2>1 DEF AccountOK, Types, SetTypes
<1>12. AgainOK'
  BY WaitsInMsgs DEF AgainOK
<1>13. placed' \subseteq Msgs /\ placed' \ placed \subseteq S
  BY <1>2, WaitsInMsgs DEF Types, SetTypes
<1> QED BY <1>1, <1>13, <1>7, <1>8, <1>9, <1>10, <1>11, <1>12

\* What is placed as pi reads is what it has read.
LEMMA ReadIsPlaced ==
  ASSUME Tidy, IInv, HearRead
  PROVE  /\ events # <<>> /\ events[1].msg \in Passed
         /\ \E S : Place(S) /\ S \cap Range(waiting) \subseteq {events[1].msg}
         /\ fresh' = <<>>
<1> USE DEF IInv
<1>1. events # <<>> /\ events[1].kind = "read" /\ events' = Tail(events)
  BY DEF HearRead, Hear
<1>2. 1 \in 1..Len(events) /\ Reads(1)
  BY <1>1, Heard DEF Reads
<1>3. events[1].msg \in Passed /\ (fresh # <<>> => fresh[1] = events[1].msg)
  <2>1. /\ events[1].msg \in read /\ outcome[events[1].msg] \in {"started", "queued"}
        /\ (fresh # <<>> => fresh[1] = events[1].msg)
    BY <1>2 DEF EventsOK
  <2>2. events[1].msg \in Msgs
    BY <2>1 DEF Types, SetTypes
  <2> QED BY <2>1, <2>2 DEF Passed, WaitOK
<1>4. CASE fresh # <<>>
  <2>1. Place({fresh[1]}) /\ fresh' = <<>>
    BY <1>4, FreshOne DEF HearRead
  <2> QED BY <1>1, <1>3, <1>4, <2>1
<1>5. CASE fresh = <<>>
  <2>1. events[1].msg \in Msgs
    BY <1>3 DEF Types, SetTypes, Passed
  <2> DEFINE t == TakenIn(words[events[1].msg])
  <2>2. Place({t}) /\ fresh' = <<>>
    BY <1>5 DEF HearRead
  <2>3. t # None => t = events[1].msg
    BY <2>1, TakenIs DEF Tidy
  <2>4. {t} \cap Range(waiting) \subseteq {events[1].msg}
    <3> HIDE DEF t
    <3> QED BY <2>3, WaitsInMsgs, Apart
  <2> HIDE DEF t
  <2> QED BY <1>1, <1>3, <2>2, <2>4
<1> QED BY <1>4, <1>5

\* The reading of a message is heard.
LEMMA HearReadKeeps == ASSUME Tidy, IInv, HearRead PROVE IInv'
<1> USE DEF IInv
<1>1. /\ events # <<>> /\ events[1].kind = "read" /\ events' = Tail(events)
      /\ UNCHANGED <<tail, queued, queuedAs, inPi, piQueue, inRun, running, piRun, queue, runs, pc, lane, words, ahead, outcome, sentBefore, chosen, again, read, unsent>>
  BY DEF HearRead, Hear, reqs, presses
<1>2. PICK S : Place(S) /\ S \cap Range(waiting) \subseteq Passed
  BY ReadIsPlaced
<1>3. fresh' = <<>> /\ <<>> \in Seq(Msgs)
  BY ReadIsPlaced
<1>4. /\ waiting' \in Seq(Msgs) /\ placed' \subseteq Msgs
      /\ ChainOK' /\ QueueOK' /\ PiOK' /\ WaitOK' /\ AccountOK' /\ AgainOK'
  BY <1>1, <1>2, PlaceKeeps
<1>5. Types'
  <2>1. events' \in Seq(Events) /\ fresh' \in Seq(Msgs)
    BY <1>1, <1>3, Heard
  <2> QED BY <1>1, <1>4, <2>1 DEF Types, ListTypes, SetTypes, PlainTypes, MapTypes, PcType
<1>6. EventsOK' /\ TellsOK'
  BY <1>1, <1>3, HeardKeeps
<1>7. FreshOK'
  BY <1>3, NoneIn DEF FreshOK
<1> QED BY <1>4, <1>5, <1>6, <1>7

\* One that waits is matched with an entry of pi's queue: only its own entry goes, and it
\* counts as taken in only if it has none.
Accounts == [queue : Queues, taken : SUBSET Msgs]

\* One message that waits against what is left of pi's queue: only one that is in pi, and
\* not in the queue in its own lane, counts as taken in.
LEMMA MatchOne ==
  ASSUME IInv, OwnWords, NEW acc \in Accounts, NEW x \in Msgs
  PROVE  /\ Match(acc, x) \in Accounts
         /\ \/ Match(acc, x).taken = acc.taken
            \/ /\ x \in inPi /\ Match(acc, x).taken = acc.taken \cup {x}
               /\ ~ (x \in queuedAs /\ x \in Range(acc.queue[lane[x]]))
         /\ \A l \in Lanes : \A m \in Range(acc.queue[l]) : m # x => m \in Range(Match(acc, x).queue[l])
         /\ \A l \in Lanes : Range(Match(acc, x).queue[l]) \subseteq Range(acc.queue[l])
         /\ x \in inPi /\ (\A l \in Lanes : x \notin Range(acc.queue[l])) => x \in Match(acc, x).taken
<1> USE DEF IInv
<1> DEFINE w       == IF x \in queuedAs THEN words[x] ELSE Text[x]
           I(l)    == {i \in 1..Len(acc.queue[l]) : words[acc.queue[l][i]] = w}
           at(l)   == IF I(l) # {} THEN Min(I(l)) ELSE 0
           hits(l) == (x \in queuedAs => l = lane[x]) /\ at(l) # 0
           hit     == IF hits("steering") THEN "steering" ELSE "followUp"
           r       == Match(acc, x)
<1>1. r = CASE x \notin inPi -> acc
            [] x \in inPi /\ (\A l \in Lanes : ~hits(l)) -> [acc EXCEPT !.taken = @ \cup {x}]
            [] OTHER -> [acc EXCEPT !.queue[hit] = RemoveAt(@, at(hit))]
  BY DEF Match, SelectInSeq
<1>2. \A l \in Lanes : acc.queue[l] \in Seq(Msgs) /\ Len(acc.queue[l]) \in Nat
  BY DEF Accounts, Queues
<1>3. ASSUME NEW l \in Lanes, at(l) # 0
      PROVE  at(l) \in 1..Len(acc.queue[l]) /\ acc.queue[l][at(l)] = x
  <2>1. I(l) # {} /\ I(l) \subseteq Nat /\ at(l) = Min(I(l))
    BY <1>2, <1>3
  <2> HIDE DEF at
  <2>2. at(l) \in I(l)
    BY <2>1, MinIs
  <2>3. at(l) \in 1..Len(acc.queue[l]) /\ words[acc.queue[l][at(l)]] = w
    BY <2>2
  <2>4. PICK y \in Msgs : y = acc.queue[l][at(l)] /\ words[y] = w
    BY <1>2, <2>3
  <2>5. words[x] \in {Text[x], Rewritten[x]} /\ words[y] \in {Text[y], Rewritten[y]}
    BY DEF Types, MapTypes
  <2>6. y = x
    <3>1. w \in {Text[x], Rewritten[x]}
      BY <2>5
    <3> HIDE DEF w
    <3> QED BY <2>4, <2>5, <3>1 DEF OwnWords
  <2> QED BY <2>3, <2>4, <2>6
<1>4. ASSUME x \in queuedAs, x \in Range(acc.queue[lane[x]]), lane[x] \in Lanes PROVE at(lane[x]) # 0
  <2>1. PICK i \in 1..Len(acc.queue[lane[x]]) : acc.queue[lane[x]][i] = x
    BY <1>2, <1>4 DEF Range
  <2>2. i \in I(lane[x])
    BY <1>4, <2>1
  <2>3. I(lane[x]) # {} /\ I(lane[x]) \subseteq Nat
    BY <1>2, <1>4, <2>2
  <2>4. Min(I(lane[x])) \in I(lane[x])
    BY <2>3, MinIs
  <2>5. 0 \notin I(lane[x])
    OBVIOUS
  <2>6. at(lane[x]) = Min(I(lane[x]))
    BY <2>3
  <2> HIDE DEF at, I
  <2> QED BY <2>4, <2>5, <2>6
<1> HIDE DEF at, r
<1>5. CASE x \notin inPi
  <2>1. r = acc
    BY <1>1, <1>5
  <2> QED BY <1>5, <2>1 DEF r
<1>6. CASE x \in inPi /\ \A l \in Lanes : ~hits(l)
  <2>1. r = [acc EXCEPT !.taken = acc.taken \cup {x}]
    BY <1>1, <1>6
  <2>2. r \in Accounts /\ r.queue = acc.queue /\ r.taken = acc.taken \cup {x}
    BY <2>1 DEF Accounts
  <2>3. ~ (x \in queuedAs /\ x \in Range(acc.queue[lane[x]]))
    BY <1>4, <1>6 DEF Types, MapTypes
  <2> QED BY <1>6, <2>2, <2>3 DEF r
<1>7. CASE x \in inPi /\ \E l \in Lanes : hits(l)
  <2>1. hit \in Lanes /\ hits(hit)
    BY <1>7 DEF Lanes
  <2>2. r = [acc EXCEPT !.queue[hit] = RemoveAt(acc.queue[hit], at(hit))]
    BY <1>1, <1>7
  <2> HIDE DEF hit
  <2>3. at(hit) \in 1..Len(acc.queue[hit]) /\ acc.queue[hit][at(hit)] = x
    BY <1>3, <2>1
  <2>4. /\ RemoveAt(acc.queue[hit], at(hit)) \in Seq(Msgs)
        /\ \A m \in Range(acc.queue[hit]) : m # x => m \in Range(RemoveAt(acc.queue[hit], at(hit)))
    BY <1>2, <2>1, <2>3, RemoveIn
  <2>6. Range(RemoveAt(acc.queue[hit], at(hit))) \subseteq Range(acc.queue[hit]) /\ x \in Range(acc.queue[hit])
    <3>1. at(hit) \in DOMAIN acc.queue[hit]
      BY <1>2, <2>1, <2>3
    <3> QED BY <1>2, <2>1, <2>3, <3>1, RemoveIn DEF Range
  <2>5. /\ r \in Accounts /\ r.taken = acc.taken
        /\ r.queue[hit] = RemoveAt(acc.queue[hit], at(hit)) /\ \A l \in Lanes : l # hit => r.queue[l] = acc.queue[l]
    BY <2>1, <2>2, <2>4 DEF Accounts, Queues
  <2> QED BY <2>1, <2>4, <2>5, <2>6 DEF r
<1> QED BY <1>5, <1>6, <1>7

\* The match of all that wait, as a function of those already matched.
MatchOf(list, base) ==
  CHOOSE iter : iter = [P \in SUBSET (DOMAIN list) |->
    IF P = {} THEN base ELSE Match(iter[P \ {Max(P)}], list[Max(P)])]
IsMatch(iter, n, list, base) ==
  iter = [P \in SUBSET (1..n) |-> IF P = {} THEN base ELSE Match(iter[P \ {Max(P)}], list[Max(P)])]

\* The fold of Settled is defined for every length.
LEMMA MatchExists == ASSUME NEW list, NEW base PROVE \A n \in Nat : \E iter : IsMatch(iter, n, list, base)
<1> DEFINE T == {n \in Nat : \E iter : IsMatch(iter, n, list, base)}
<1>1. 0 \in T
  <2> DEFINE it == [P \in SUBSET (1..0) |-> base]
  <2>1. \A P \in SUBSET (1..0) : P = {}
    OBVIOUS
  <2>2. IsMatch(it, 0, list, base)
    BY <2>1 DEF IsMatch
  <2> QED BY <2>2
<1>2. ASSUME NEW n \in Nat, n \in T PROVE n + 1 \in T
  <2>1. PICK it : IsMatch(it, n, list, base)
    BY <1>2
  <2> DEFINE val(P) == IF n + 1 \in P THEN Match(it[P \ {n + 1}], list[n + 1]) ELSE it[P]
             nx == [P \in SUBSET (1..(n + 1)) |-> val(P)]
  <2>2. ASSUME NEW P \in SUBSET (1..(n + 1))
        PROVE  nx[P] = IF P = {} THEN base ELSE Match(nx[P \ {Max(P)}], list[Max(P)])
    <3>1. CASE n + 1 \in P
      <4>1. P \subseteq Int /\ \A y \in P : n + 1 >= y
        OBVIOUS
      <4>2. Max(P) = n + 1
        BY <3>1, <4>1, MaxIs
      <4>3. P \ {n + 1} \in SUBSET (1..(n + 1)) /\ n + 1 \notin P \ {n + 1}
        OBVIOUS
      <4>4. nx[P \ {n + 1}] = it[P \ {n + 1}]
        BY <4>3
      <4>5. nx[P] = Match(it[P \ {n + 1}], list[n + 1])
        BY <3>1
      <4> HIDE DEF nx
      <4> QED BY <3>1, <4>2, <4>4, <4>5
    <3>2. CASE n + 1 \notin P
      <4>1. P \in SUBSET (1..n)
        BY <3>2
      <4>2. nx[P] = it[P]
        BY <3>2
      <4>3. it[P] = IF P = {} THEN base ELSE Match(it[P \ {Max(P)}], list[Max(P)])
        BY <2>1, <4>1 DEF IsMatch
      <4>4. P \ {Max(P)} \in SUBSET (1..(n + 1)) /\ n + 1 \notin P \ {Max(P)}
        BY <3>2
      <4>5. nx[P \ {Max(P)}] = it[P \ {Max(P)}]
        BY <4>4
      <4> HIDE DEF nx
      <4> QED BY <4>2, <4>3, <4>5
    <3> QED BY <3>1, <3>2
  <2>3. nx = [P \in SUBSET (1..(n + 1)) |-> nx[P]]
    OBVIOUS
  <2> HIDE DEF nx
  <2>4. IsMatch(nx, n + 1, list, base)
    BY <2>2, <2>3 DEF IsMatch
  <2> QED BY <2>4
<1> HIDE DEF T
<1>3. Nat \subseteq T
  BY <1>1, <1>2, Induct
<1> QED BY <1>3 DEF T

\* What is taken in as a run settles, pi has read.
LEMMA SettledIsRead ==
  ASSUME IInv, OwnWords, events # <<>>, events[1].kind = "settled"
  PROVE  /\ Settled \subseteq Range(waiting) \cap Passed
         /\ \A m \in Range(waiting) \cap inPi : (\A l \in Lanes : m \notin Range(piQueue[l])) => m \in Settled
<1> USE DEF IInv
<1> DEFINE base  == [queue |-> piQueue, taken |-> {}]
           k     == MatchOf(waiting, base)
           len   == Len(waiting)
           K     == {m \in queuedAs : m \in Range(piQueue[lane[m]])}
           gone(m) == m \in inPi /\ \A l \in Lanes : m \notin Range(piQueue[l])
           ok(n) == /\ k[1..n] \in Accounts
                    /\ k[1..n].taken \subseteq (Range(waiting) \cap inPi) \ K
                    /\ \A i \in (n + 1)..len : waiting[i] \in K => waiting[i] \in Range(k[1..n].queue[lane[waiting[i]]])
                    /\ \A l \in Lanes : Range(k[1..n].queue[l]) \subseteq Range(piQueue[l])
                    /\ \A i \in 1..n : gone(waiting[i]) => waiting[i] \in k[1..n].taken
           P     == {n \in Nat : n <= len => ok(n)}
<1>1. len \in Nat /\ DOMAIN waiting = 1..len /\ \A i \in 1..len : waiting[i] \in Msgs /\ waiting[i] \in Range(waiting)
  BY DEF Types, ListTypes, Range
<1>2. Settled = k[1..len].taken
  <2>1. Settled = k[DOMAIN waiting].taken
    BY DEF Settled, FoldLeft, MapThenFoldSet, MatchOf
  <2> QED BY <1>1, <2>1
<1>3. IsMatch(k, len, waiting, base)
  <2>1. k = CHOOSE iter : IsMatch(iter, len, waiting, base)
    BY <1>1 DEF MatchOf, IsMatch
  <2>2. \E iter : IsMatch(iter, len, waiting, base)
    BY <1>1, MatchExists
  <2> HIDE DEF k
  <2> QED BY <2>1, <2>2
<1> HIDE DEF k
<1>4. k[{}] = base
  <2>1. {} \in SUBSET (1..len)
    OBVIOUS
  <2> QED BY <1>3, <2>1 DEF IsMatch
<1>5. ASSUME NEW n \in Nat, n + 1 <= len
      PROVE  k[1..(n + 1)] = Match(k[1..n], waiting[n + 1])
  <2>1. 1..(n + 1) \in SUBSET (1..len) /\ 1..(n + 1) # {}
    <3>1. n + 1 \in 1..(n + 1)
      OBVIOUS
    <3>2. ASSUME NEW i \in 1..(n + 1) PROVE i \in 1..len
      BY <1>1, <1>5
    <3> QED BY <3>1, <3>2
  <2>2. Max(1..(n + 1)) = n + 1 /\ (1..(n + 1)) \ {n + 1} = 1..n
    <3>1. n + 1 \in Nat /\ n + 1 # 0 /\ (n + 1) - 1 = n
      OBVIOUS
    <3> QED BY <3>1, MaxTo
  <2> QED BY <1>3, <2>1, <2>2 DEF IsMatch
<1>6. 0 \in P
  <2>1. 1..0 = {}
    OBVIOUS
  <2>2. k[1..0] = base /\ base \in Accounts /\ base.queue = piQueue /\ base.taken = {}
    BY <1>4, <2>1 DEF Accounts, Types, ListTypes
  <2> HIDE DEF base
  <2>3. ok(0)
    BY <2>1, <2>2
  <2> HIDE DEF ok
  <2> QED BY <2>3
<1> HIDE DEF base
<1>7. ASSUME NEW n \in Nat, n \in P PROVE n + 1 \in P
  <2> HIDE DEF ok
  <2> SUFFICES ASSUME n + 1 <= len PROVE ok(n + 1)
    OBVIOUS
  <2>1. ok(n) /\ n + 1 \in 1..len
    BY <1>1, <1>7
  <2> USE DEF ok
  <2> DEFINE x == waiting[n + 1]
             a == k[1..n]
             r == k[1..(n + 1)]
  <2>2. x \in Msgs /\ x \in Range(waiting) /\ n + 1 \in (n + 1)..len
    BY <1>1, <2>1
  <2>3. r = Match(a, x)
    BY <1>5
  <2>4. /\ a \in Accounts /\ a.taken \subseteq (Range(waiting) \cap inPi) \ K
        /\ \A i \in (n + 1)..len : waiting[i] \in K => waiting[i] \in Range(a.queue[lane[waiting[i]]])
        /\ \A l \in Lanes : Range(a.queue[l]) \subseteq Range(piQueue[l])
        /\ \A i \in 1..n : gone(waiting[i]) => waiting[i] \in a.taken
    BY <2>1
  <2>5. \A i \in ((n + 1) + 1)..len : i \in (n + 1)..len /\ i \in 1..len /\ waiting[i] # x
    <3>1. \A i \in ((n + 1) + 1)..len : i \in (n + 1)..len /\ i \in 1..len /\ i # n + 1
      BY <1>1
    <3> QED BY <2>1, <3>1 DEF WaitOK, Distinct
  <2> HIDE DEF a, r, K, x, gone
  <2>6. /\ r \in Accounts
        /\ \/ r.taken = a.taken
           \/ x \in inPi /\ r.taken = a.taken \cup {x} /\ ~ (x \in queuedAs /\ x \in Range(a.queue[lane[x]]))
        /\ \A l \in Lanes : \A m \in Range(a.queue[l]) : m # x => m \in Range(r.queue[l])
        /\ \A l \in Lanes : Range(r.queue[l]) \subseteq Range(a.queue[l])
        /\ x \in inPi /\ (\A l \in Lanes : x \notin Range(a.queue[l])) => x \in r.taken
    BY <2>2, <2>3, <2>4, MatchOne
  <2>7. x \in K => x \in queuedAs /\ x \in Range(a.queue[lane[x]])
    BY <2>2, <2>4 DEF K, x
  <2>8. r.taken \subseteq (Range(waiting) \cap inPi) \ K
    BY <2>2, <2>4, <2>6, <2>7
  <2>9. \A i \in ((n + 1) + 1)..len : waiting[i] \in K => waiting[i] \in Range(r.queue[lane[waiting[i]]])
    BY <1>1, <2>4, <2>5, <2>6 DEF Types, MapTypes
  <2>10. \A l \in Lanes : Range(r.queue[l]) \subseteq Range(piQueue[l])
    BY <2>4, <2>6
  <2>11. \A i \in 1..(n + 1) : gone(waiting[i]) => waiting[i] \in r.taken
    <3>1. \A i \in 1..(n + 1) : i \in 1..n \/ i = n + 1
      OBVIOUS
    <3>2. \A i \in 1..n : gone(waiting[i]) => waiting[i] \in r.taken
      BY <2>4, <2>6
    <3>3. gone(x) => x \in r.taken
      BY <2>4, <2>6 DEF gone
    <3> QED BY <3>1, <3>2, <3>3 DEF x
  <2> QED BY <2>6, <2>8, <2>9, <2>10, <2>11 DEF r
<1>8. len \in P
  <2> HIDE DEF P, len
  <2> QED BY <1>1, <1>6, <1>7, Induct
<1>9. Settled \subseteq (Range(waiting) \cap inPi) \ K
  BY <1>1, <1>2, <1>8
<1>10. ASSUME NEW m \in (Range(waiting) \cap inPi) \ K PROVE m \in Passed
  <2>1. m \in Msgs /\ pc[m] = "done" /\ lane[m] \in Lanes
    BY WaitsInMsgs DEF PiOK, Types, MapTypes
  <2>2. m \in read
    <3>1. ASSUME m \notin read PROVE FALSE
      <4>1. m \in Range(queue[lane[m]]) /\ Range(queue[lane[m]]) \subseteq Range(piQueue[lane[m]])
        BY <2>1, <3>1 DEF WaitOK, TellsOK
      <4>2. m \in queuedAs
        BY <2>1, <4>1 DEF QueueOK, InQueue
      <4> QED BY <4>1, <4>2
    <3> QED BY <3>1
  <2> QED BY <2>1, <2>2 DEF Passed
<1>11. ASSUME NEW m \in Range(waiting) \cap inPi, \A l \in Lanes : m \notin Range(piQueue[l]) PROVE m \in Settled
  <2>1. PICK i \in 1..len : m = waiting[i]
    BY <1>1 DEF Range
  <2>2. gone(m)
    BY <1>11
  <2>3. \A j \in 1..len : gone(waiting[j]) => waiting[j] \in k[1..len].taken
    BY <1>1, <1>8
  <2> HIDE DEF gone
  <2> QED BY <1>2, <2>1, <2>2, <2>3
<1> QED BY <1>9, <1>10, <1>11

\* The end of a run is heard.
LEMMA HearSettledKeeps == ASSUME Tidy, IInv, HearSettled PROVE IInv'
<1> USE DEF IInv
<1>1. /\ events # <<>> /\ events[1].kind = "settled" /\ events' = Tail(events) /\ Place(Settled)
      /\ inRun' = FALSE /\ running' = (running /\ UnderWay)
      /\ pc' = [k \in Links |-> IF k \in Stops /\ pc[k] = "settle" THEN "over" ELSE pc[k]]
      /\ UNCHANGED <<fresh, tail, queued, queuedAs, inPi, piQueue, piRun, queue, runs, lane, words, ahead, outcome, sentBefore, chosen, again, read, unsent>>
  BY DEF HearSettled, Hear, presses
<1>2. /\ \A m \in Msgs : pc'[m] = pc[m]
      /\ \A s \in Stops : pc'[s] = pc[s] \/ (pc[s] = "settle" /\ pc'[s] = "over")
  BY <1>1, Apart
<1>3. Settled \cap Range(waiting) \subseteq Passed
  BY <1>1, SettledIsRead DEF Tidy
<1>4. /\ waiting' \in Seq(Msgs) /\ placed' \subseteq Msgs
      /\ ChainOK' /\ QueueOK' /\ PiOK' /\ WaitOK' /\ AccountOK' /\ AgainOK'
  <2> HIDE DEF IInv
  <2> QED BY <1>1, <1>2, <1>3, PlaceKeeps
<1>5. Types'
  <2>1. events' \in Seq(Events)
    BY <1>1, Heard
  <2>2. running' \in BOOLEAN
    BY <1>1, Zenon
  <2>3. ListTypes' /\ SetTypes' /\ PlainTypes' /\ MapTypes'
    BY <1>1, <1>4, <2>1, <2>2 DEF Types, ListTypes, SetTypes, PlainTypes, MapTypes
  <2>4. PcType'
    <3>1. pc \in [Links -> Phases] /\ (\A m \in Msgs : pc[m] \in MsgPhases) /\ (\A s \in Stops : pc[s] \in StopPhases)
      BY DEF Types, PcType
    <3>2. pc' \in [Links -> Phases]
      BY <1>1, <3>1 DEF Phases
    <3>3. \A s \in Stops : pc'[s] \in StopPhases
      BY <1>2, <3>1 DEF StopPhases
    <3> QED BY <1>2, <3>1, <3>2, <3>3 DEF PcType
  <2> QED BY <2>3, <2>4 DEF Types
<1>6. EventsOK' /\ TellsOK'
  BY <1>1, HeardKeeps
<1>7. FreshOK'
  BY <1>1, <1>2, HeardFresh
<1> QED BY <1>4, <1>5, <1>6, <1>7
-----------------------------------------------------------------------------
(* The Stop button. *)

\* One step of a press moves no message, and leaves pi's events as they are.
LEMMA PressKeeps ==
  ASSUME IInv, \A m \in Msgs : pc'[m] = pc[m],
         UNCHANGED <<waiting, fresh, queued, queuedAs, inPi, piQueue, piRun, queue, events, lane, outcome, read, placed, unsent>>
  PROVE  EventsOK' /\ FreshOK' /\ TellsOK' /\ QueueOK' /\ PiOK' /\ WaitOK' /\ AccountOK'
<1> USE DEF IInv
<1>1. EventsOK' /\ FreshOK' /\ TellsOK'
  <2>1. EventsOK'
    BY DEF EventsOK, Reads
  <2>2. FreshOK'
    BY WaitsInMsgs DEF FreshOK, Reads
  <2>3. TellsOK'
    BY DEF TellsOK, Queues1
  <2> QED BY <2>1, <2>2, <2>3
<1>2. QueueOK'
  BY WaitsInMsgs DEF QueueOK, InQueue, Waits
<1>3. PiOK' /\ WaitOK' /\ AccountOK'
  BY WaitsInMsgs DEF PiOK, WaitOK, AccountOK, Waits, Types, SetTypes
<1> QED BY <1>1, <1>2, <1>3

\* Whoever has a gate in the chain finds what is there out of an idle pi's way, or in its
\* run.
LEMMA ChainFound ==
  ASSUME IInv, Calm, ~Early, NEW m \in Msgs
  PROVE  /\ pc[m] \in {"ahead", "handing"} => m \in queued
         /\ pc[m] = "accepted" => m \in queued \/ outcome[m] = "started"
BY DEF IInv, Calm, Out, ChainOK, IdleOK

\* A Stop takes its place in the chain.
LEMMA StopBeginsKeeps == ASSUME Tidy, IInv, NEW s \in Stops, StopBegins(s) PROVE IInv'
<1> USE DEF IInv
<1>0. /\ s \in Links /\ pc[s] = "idle" /\ Calm /\ ~Early
      /\ pc' = [pc EXCEPT ![s] = "drop"] /\ pc \in [Links -> Phases]
      /\ ahead' = [ahead EXCEPT ![s] = Chain] /\ tail' = s /\ ahead \in [Links -> SUBSET Links]
      /\ sentBefore' = [sentBefore EXCEPT ![s] = Range(waiting)] /\ sentBefore \in [Stops -> SUBSET Msgs]
      /\ UNCHANGED <<waiting, fresh, queued, queuedAs, inPi, piQueue, inRun, running, piRun, queue, runs, events, lane, words, outcome, chosen, again, read, placed, unsent>>
  BY Apart DEF StopBegins, Go, piVars, account, Types, PcType, MapTypes, Tidy
<1>1. /\ pc'[s] = "drop" /\ \A k \in Links : k # s => pc'[k] = pc[k]
      /\ ahead'[s] = Chain /\ \A k \in Links : k # s => ahead'[k] = ahead[k]
      /\ sentBefore'[s] = Range(waiting) /\ \A k \in Stops : k # s => sentBefore'[k] = sentBefore[k]
      /\ \A m \in Msgs : m # s /\ pc'[m] = pc[m]
  BY <1>0, Apart
<1>2. Chain \subseteq Links /\ \A j \in Chain : pc[j] \in InChain \cup {"done"} \/ (j \in Stops /\ pc[j] = "again")
  BY Apart DEF Chain, Types, MapTypes, ChainOK, TailOK, AheadOK
<1>3. Types'
  <2>1. ListTypes' /\ SetTypes' /\ PlainTypes'
    BY <1>0 DEF Types, ListTypes, SetTypes, PlainTypes
  <2>2. MapTypes'
    BY <1>0, <1>2, WaitsInMsgs DEF Types, MapTypes
  <2>3. PcType'
    BY <1>0, <1>1, Apart DEF Types, PcType, Phases, StopPhases
  <2> QED BY <2>1, <2>2, <2>3 DEF Types
<1>4. ChainOK'
  <2>1. \A n \in Msgs : Live(n)' <=> Live(n)
    BY <1>0, <1>1, Apart DEF Live, Dead, Waits
  <2>2. \A n \in Msgs : Live(n) => n \in Chain
    BY DEF ChainOK, Held, Chain
  <2>3. Ordered' /\ Held'
    BY <1>0, <1>1, <2>1, <2>2, Apart DEF ChainOK, Ordered, Held
  <2>4. \A k \in Links : s \notin ahead[k]
    BY <1>0, Apart DEF ChainOK, AheadOK, InChain
  <2>5. TurnOK'
    BY <1>0, <1>1, <2>4, Apart DEF ChainOK, TurnOK, Out, Types, MapTypes
  <2>6. AheadOK' /\ TailOK'
    BY <1>0, <1>1, <1>2, Apart DEF ChainOK, AheadOK, TailOK, InChain, Types, MapTypes
  <2>7. IdleOK' /\ StartedOK'
    BY <1>0, <1>1, Apart DEF ChainOK, IdleOK, StartedOK
  <2>8. DropOK(s)'
    BY <1>0, <1>1, ChainFound, Apart DEF DropOK, Waits
  <2>9. StopsOK'
    BY <1>0, <1>1, <2>1, <2>8, Apart DEF ChainOK, StopsOK, DropOK, AbortOK, OverOK, Waits
  <2>10. DropsOK'
    <3>1. ASSUME NEW t \in Stops, t # s, pc[t] = "drop" PROVE t \in Chain /\ PastOK(t)' /\ LateOK(t)'
      <4>1. ~Handed
        BY <3>1, Turn DEF StopBegins
      <4>2. t \in Chain
        BY <3>1, <4>1 DEF ChainOK, DropsOK, StopHeld, Chain
      <4>3. PastOK(t)'
        BY <1>0, <1>1, <3>1, <4>1, Apart DEF ChainOK, DropsOK, PastOK
      <4>4. LateOK(t)'
        BY <1>0, <1>1, <3>1, WaitsInMsgs, Apart DEF ChainOK, DropsOK, LateOK
      <4> QED BY <4>2, <4>3, <4>4
    <3>2. PastOK(s)' /\ LateOK(s)'
      BY <1>0, <1>1, <2>4, Apart DEF PastOK, LateOK
    <3>3. \A t \in Stops : t \in Chain \/ t = s => StopHeld(t)'
      BY <1>0, <1>1, Apart DEF StopHeld
    <3> QED BY <1>1, <3>1, <3>2, <3>3, Apart DEF DropsOK
  <2> QED BY <2>3, <2>5, <2>6, <2>7, <2>9, <2>10 DEF ChainOK
<1>5. EventsOK' /\ FreshOK' /\ TellsOK' /\ QueueOK' /\ PiOK' /\ WaitOK' /\ AccountOK'
  <2> HIDE DEF IInv
  <2> QED BY <1>0, <1>1, PressKeeps
<1>6. AgainOK'
  BY <1>0, <1>1, Apart, WaitsInMsgs DEF AgainOK
<1> QED BY <1>3, <1>4, <1>5, <1>6

\* What pi is known to have come through with, when a press looks: nothing that waits is on
\* its way into pi's queue.
LEMMA HandedIs ==
  ASSUME IInv, Handed
  PROVE  /\ \A m \in Range(waiting) : pc[m] \in {"ahead", "done"}
         /\ \A m \in Msgs : pc[m] = "handing" => m \notin queued
         /\ \A m \in Msgs : pc[m] = "accepted" => outcome[m] # "queued" /\ (outcome[m] = "started" \/ m \notin queued)
         /\ \A l \in Lanes : \A m \in Range(queue[l]) : m \in Range(waiting) /\ m \in inPi /\ pc[m] = "done"
<1> USE DEF IInv
<1>1. \A m \in Range(waiting) : m \in Msgs /\ pc[m] \in {"ahead", "done"}
  BY WaitsInMsgs DEF Handed, WaitOK
<1>2. \A m \in Msgs : pc[m] = "handing" => m \notin queued
  BY <1>1 DEF WaitOK, Waits
<1>3. \A m \in Msgs : pc[m] = "accepted" => outcome[m] # "queued" /\ (outcome[m] = "started" \/ m \notin queued)
  BY <1>1 DEF WaitOK, Waits
<1>4. \A l \in Lanes : \A m \in Range(queue[l]) : m \in Range(waiting) /\ m \in inPi /\ pc[m] = "done"
  BY <1>1, WaitsInMsgs DEF QueueOK, InQueue, Waits
<1> QED BY <1>1, <1>2, <1>3, <1>4

\* pi's queue is emptied: nothing is left in it, as the last it says.
LEMMA Emptied ==
  ASSUME IInv, Handed, ~Hearing,
         \/ queue' = Empty /\ events' = events \o <<Event("queue", None, queue')>>
         \/ waiting = <<>> /\ UNCHANGED <<queue, events>>,
         \A m \in read : m \in read' /\ outcome'[m] = outcome[m],
         \A m \in Msgs : pc'[m] = "handing" => pc[m] = "handing",
         (piRun' <=> piRun), UNCHANGED <<fresh, piQueue>>
  PROVE  /\ queue' \in Queues /\ events' \in Seq(Events)
         /\ \A l \in Lanes : queue'[l] = <<>>
         /\ EventsOK' /\ TellsOK'
         /\ \A i \in 1..Len(events) : i \in 1..Len(events') /\ events'[i] = events[i]
<1> USE DEF IInv
<1>1. queue \in Queues /\ Empty \in Queues /\ events \in Seq(Events) /\ Len(events) \in Nat
  BY DEF Types, ListTypes, PlainTypes, Empty, Queues
<1>2. CASE queue' = Empty /\ events' = events \o <<Event("queue", None, queue')>>
  <2>1. \A l \in Lanes : queue'[l] = <<>> /\ Range(queue'[l]) = {}
    BY <1>2, NoneIn DEF Empty
  <2>2. queue' \in Queues
    BY <1>1, <1>2
  <2>3. EventsOK' /\ TellsOK'
    <3>1. events # <<>> /\ events[1].kind = "settled" =>
            /\ \A l \in Lanes : Range(queue'[l]) \subseteq Range(piQueue[l])
            /\ piRun => \A m \in Msgs : pc'[m] # "handing"
      BY <2>1 DEF TellsOK
    <3> QED BY <1>2, <2>2, <3>1, QueueSaid
  <2>4. events' \in Seq(Events) /\ Len(events') = Len(events) + 1 /\ \A i \in 1..Len(events) : events'[i] = events[i]
    BY <1>2, <2>2, SaysQueue
  <2>5. \A i \in 1..Len(events) : i \in 1..(Len(events) + 1)
    BY <1>1
  <2> QED BY <2>1, <2>2, <2>3, <2>4, <2>5
<1>3. CASE waiting = <<>> /\ UNCHANGED <<queue, events>>
  <2>1. \A l \in Lanes : queue[l] = <<>>
    <3>1. ASSUME NEW l \in Lanes, queue[l] # <<>> PROVE FALSE
      <4>1. queue[l] \in Seq(Msgs)
        BY <1>1 DEF Queues
      <4>2. Len(queue[l]) \in Nat \ {0} /\ DOMAIN queue[l] = 1..Len(queue[l])
        BY <3>1, <4>1, EmptySeq
      <4>3. 1 \in DOMAIN queue[l]
        BY <4>2
      <4>4. queue[l][1] \in Range(queue[l])
        BY <4>3 DEF Range
      <4>5. Range(waiting) = {}
        BY <1>3, NoneIn
      <4> QED BY <4>4, <4>5, HandedIs
    <3> QED BY <3>1
  <2>2. EventsOK'
    BY <1>3 DEF EventsOK, Reads
  <2>3. TellsOK'
    BY <1>3 DEF TellsOK, Queues1
  <2> QED BY <1>1, <1>3, <2>1, <2>2, <2>3
<1> QED BY <1>2, <1>3

\* A start that is expected is expected still where pi is only told to forget its queue.
LEMMA FreshStays ==
  ASSUME Types, FreshOK, \A i \in 1..Len(events) : i \in 1..Len(events') /\ events'[i] = events[i],
         \A m \in Range(fresh) : pc'[m] = pc[m] /\ outcome'[m] = outcome[m],
         (piRun' <=> piRun), UNCHANGED fresh
  PROVE  FreshOK'
<1>1. ASSUME NEW m \in Range(fresh), NEW i \in 1..Len(events), Reads(i), events[i].msg = m
      PROVE  \E j \in 1..Len(events') : Reads(j)' /\ events'[j].msg = m
  <2>1. i \in 1..Len(events') /\ events'[i] = events[i]
    BY <1>1
  <2>2. Reads(i)'
    BY <1>1, <2>1 DEF Reads
  <2> QED BY <1>1, <2>1, <2>2
<1> QED BY <1>1 DEF FreshOK

\* A Stop empties pi's queue, and what waited is not sent.
LEMMA StopDropsKeeps == ASSUME Tidy, IInv, NEW s \in Stops, StopDrops(s) PROVE IInv'
<1> USE DEF IInv
<1>0. /\ s \in Links /\ pc[s] = "drop" /\ Handed /\ ~Hearing
      /\ \/ queue' = Empty /\ events' = events \o <<Event("queue", None, queue')>>
         \/ waiting = <<>> /\ UNCHANGED <<queue, events>>
      /\ unsent' = unsent \cup (sentBefore[s] \cap Range(waiting))
      /\ waiting' = Without(waiting, sentBefore[s])
      /\ pc' = [pc EXCEPT ![s] = "abort"] /\ pc \in [Links -> Phases]
      /\ UNCHANGED <<fresh, tail, queued, queuedAs, inPi, piQueue, inRun, running, piRun, runs, lane, words, ahead, outcome, sentBefore, chosen, again, read, placed>>
  BY Apart DEF StopDrops, Go, Say, presses, Types, PcType, Tidy, Empty
<1>1. /\ pc'[s] = "abort" /\ \A k \in Links : k # s => pc'[k] = pc[k]
      /\ \A m \in Msgs : m # s /\ pc'[m] = pc[m]
  BY <1>0, Apart
<1>2. waiting' \in Seq(Msgs) /\ Distinct(waiting') /\ Range(waiting') = Range(waiting) \ sentBefore[s]
  BY <1>0, WithoutIs DEF Types, ListTypes, WaitOK
<1>3. \A m \in Msgs : Waits(m)' <=> Waits(m) /\ m \notin sentBefore[s]
  BY <1>2 DEF Waits
<1>4. /\ queue' \in Queues /\ events' \in Seq(Events)
      /\ \A l \in Lanes : queue'[l] = <<>>
      /\ EventsOK' /\ TellsOK'
      /\ \A i \in 1..Len(events) : i \in 1..Len(events') /\ events'[i] = events[i]
  <2> HIDE DEF IInv
  <2> QED BY <1>0, <1>1, Emptied
<1>5. \A l \in Lanes : Range(queue'[l]) = {} /\ Distinct(queue'[l])
  BY <1>4, NoneIn
<1>6. /\ \A m \in Range(waiting) : m \in Msgs /\ pc[m] \in {"ahead", "done"}
      /\ \A m \in Msgs : pc[m] = "handing" => m \notin queued
      /\ \A m \in Msgs : pc[m] = "accepted" => outcome[m] # "queued" /\ (outcome[m] = "started" \/ m \notin queued)
  BY <1>0, HandedIs, WaitsInMsgs
<1>7. Types'
  <2>1. ListTypes' /\ SetTypes'
    BY <1>0, <1>2, <1>4, WaitsInMsgs DEF Types, ListTypes, SetTypes
  <2>2. PlainTypes' /\ MapTypes'
    BY <1>0, <1>4 DEF Types, PlainTypes, MapTypes
  <2>3. PcType'
    BY <1>0, <1>1, Apart DEF Types, PcType, Phases, StopPhases
  <2> QED BY <2>1, <2>2, <2>3 DEF Types
<1>8. ChainOK'
  <2>1. \A n \in Msgs : Live(n)' => Live(n)
    BY <1>0, <1>1, <1>3 DEF Live, Dead
  <2>2. Ordered' /\ Held'
    BY <1>0, <2>1 DEF ChainOK, Ordered, Held
  <2>3. TurnOK' /\ AheadOK' /\ TailOK'
    BY <1>0, <1>1, Apart DEF ChainOK, TurnOK, AheadOK, TailOK, Out, InChain, Types, MapTypes
  <2>4. IdleOK' /\ StartedOK'
    BY <1>0, <1>1, Apart DEF ChainOK, IdleOK, StartedOK
  <2>5. AbortOK(s)'
    <3>1. ASSUME NEW m \in ahead[s] \cap Msgs, Live(m)' PROVE pc[m] = "accepted" /\ outcome[m] = "started"
      <4>1. DropOK(s)
        BY <1>0 DEF ChainOK, StopsOK
      <4>2. pc[m] # "handing"
        BY <1>6, <4>1 DEF DropOK
      <4>3. pc[m] # "ahead"
        BY <1>0, <1>1, <1>3, <3>1, <4>1 DEF DropOK, Live, Dead
      <4>4. pc[m] = "accepted"
        BY <2>1, <3>1, <4>2, <4>3 DEF Live
      <4> QED BY <1>6, <4>1, <4>4 DEF DropOK
    <3> QED BY <1>0, <1>1, <3>1 DEF AbortOK
  <2>6. StopsOK'
    BY <1>0, <1>1, <1>3, <2>1, <2>5, Apart DEF ChainOK, StopsOK, DropOK, AbortOK, OverOK
  <2>7. DropsOK'
    <3>1. Handed'
      BY <1>0, <1>1, <1>2, <1>6 DEF Handed
    <3> QED BY <1>0, <1>1, <1>2, <1>6, <3>1, Apart DEF ChainOK, DropsOK, StopHeld, PastOK, LateOK
  <2> QED BY <2>2, <2>3, <2>4, <2>6, <2>7 DEF ChainOK
<1>9. FreshOK'
  BY <1>0, <1>1, <1>4, WaitsInMsgs, FreshStays
<1>10. QueueOK'
  BY <1>5 DEF QueueOK
<1>11. PiOK'
  BY <1>0, <1>1 DEF PiOK, Types, SetTypes
<1>12. WaitOK'
  <2>1. \A n \in Range(waiting') : n \in Range(waiting) /\ n \in Msgs /\ pc[n] = "ahead" /\ n \notin inPi /\ n \notin sentBefore[s]
    BY <1>0, <1>2, <1>6 DEF ChainOK, DropsOK, LateOK, PiOK
  <2>2. \A n \in Range(waiting') :
          /\ n \in queued' /\ pc'[n] \in {"ahead", "handing", "accepted", "done"}
          /\ n \notin placed' \cup unsent'
          /\ pc'[n] = "done" => n \in inPi'
          /\ n \in inPi' /\ n \notin read' => n \in Range(queue'[lane'[n]])
    BY <1>0, <1>1, <2>1 DEF WaitOK
  <2>3. \A n \in queued' : pc'[n] = "handing" \/ (pc'[n] = "accepted" /\ outcome'[n] # "started") => Waits(n)'
    BY <1>0, <1>1, <1>6 DEF Types, SetTypes
  <2>4. \A n \in queuedAs' : n \in inPi' /\ outcome'[n] = "queued"
    BY <1>0 DEF WaitOK
  <2>5. \A n \in Msgs : pc'[n] = "accepted" /\ outcome'[n] = "queued" => n \in queued' /\ n \notin read' /\ n \in Range(queue'[lane'[n]])
    BY <1>0, <1>1, <1>6
  <2> QED BY <1>2, <2>2, <2>3, <2>4, <2>5 DEF WaitOK
<1>13. AccountOK'
  <2>1. placed' \subseteq read' /\ placed' \cap unsent' = {}
    BY <1>0 DEF AccountOK, WaitOK
  <2>2. \A m \in unsent' : m \in Msgs /\ pc'[m] \in {"ahead", "done"} /\ (pc'[m] = "ahead" => m \in queued')
    BY <1>0, <1>1, <1>6 DEF AccountOK, WaitOK, Types, SetTypes
  <2> QED BY <1>0, <1>1, <2>1, <2>2 DEF AccountOK, Types, SetTypes
<1>14. AgainOK'
  BY <1>0, <1>1, Apart, WaitsInMsgs DEF AgainOK
<1> QED BY <1>4, <1>7, <1>8, <1>9, <1>10, <1>11, <1>12, <1>13, <1>14

\* A Stop finds pi idle.
LEMMA StopAbortsKeeps == ASSUME Tidy, IInv, NEW s \in Stops, StopAborts(s) PROVE IInv'
<1> USE DEF IInv
<1>0. PICK p \in {"settle", "over"} : pc' = [pc EXCEPT ![s] = p]
  BY DEF StopAborts, Go
<1>1. /\ s \in Links /\ pc[s] = "abort" /\ ~piRun /\ pc \in [Links -> Phases]
      /\ UNCHANGED <<waiting, fresh, tail, queued, queuedAs, inPi, piQueue, inRun, running, piRun, queue, runs, events, lane, words, ahead, outcome, sentBefore, chosen, again, read, placed, unsent>>
  BY Apart DEF StopAborts, manager, piVars, presses, account, Types, PcType
<1>2. /\ pc'[s] = p /\ \A k \in Links : k # s => pc'[k] = pc[k]
      /\ \A m \in Msgs : m # s /\ pc'[m] = pc[m]
  BY <1>0, <1>1, Apart
<1>3. Types'
  <2>1. ListTypes' /\ SetTypes' /\ PlainTypes' /\ MapTypes'
    BY <1>1 DEF Types, ListTypes, SetTypes, PlainTypes, MapTypes
  <2>2. PcType'
    BY <1>0, <1>1, <1>2, Apart DEF Types, PcType, Phases, StopPhases
  <2> QED BY <2>1, <2>2 DEF Types
<1>4. ChainOK'
  <2>1. \A n \in Msgs : Live(n)' <=> Live(n)
    BY <1>1, <1>2, Apart DEF Live, Dead, Waits
  <2>2. Ordered' /\ Held'
    BY <1>1, <2>1 DEF ChainOK, Ordered, Held
  <2>3. TurnOK' /\ AheadOK' /\ TailOK'
    BY <1>0, <1>1, <1>2, Apart DEF ChainOK, TurnOK, AheadOK, TailOK, Out, InChain, Types, MapTypes
  <2>4. IdleOK' /\ StartedOK'
    BY <1>1, <1>2, Apart DEF ChainOK, IdleOK, StartedOK
  <2>5. OverOK(s)'
    BY <1>1, <2>1 DEF ChainOK, StopsOK, AbortOK, OverOK, StartedOK
  <2>6. StopsOK'
    BY <1>1, <1>2, <2>1, <2>5, Apart DEF ChainOK, StopsOK, DropOK, AbortOK, OverOK, Waits
  <2>7. DropsOK'
    <3>1. Handed' <=> Handed
      BY <1>1, <1>2, WaitsInMsgs DEF Handed
    <3> QED BY <1>1, <1>2, <3>1, WaitsInMsgs, Apart DEF ChainOK, DropsOK, StopHeld, PastOK, LateOK
  <2> QED BY <2>2, <2>3, <2>4, <2>6, <2>7 DEF ChainOK
<1>5. EventsOK' /\ FreshOK' /\ TellsOK' /\ QueueOK' /\ PiOK' /\ WaitOK' /\ AccountOK'
  <2> HIDE DEF IInv
  <2> QED BY <1>1, <1>2, PressKeeps
<1>6. AgainOK'
  BY <1>1, <1>2, Apart, WaitsInMsgs DEF AgainOK
<1> QED BY <1>3, <1>4, <1>5, <1>6

\* A Stop ends, and what was sent behind it goes on.
LEMMA StopEndsKeeps == ASSUME Tidy, IInv, NEW s \in Stops, StopEnds(s) PROVE IInv'
<1> USE DEF IInv
<1>0. PICK p \in {"done", "again"} : pc' = [pc EXCEPT ![s] = p]
  BY DEF StopEnds, Go
<1>1. /\ s \in Links /\ pc[s] = "over" /\ pc \in [Links -> Phases] /\ running' = FALSE
      /\ tail' = (IF tail = s THEN None ELSE tail)
      /\ UNCHANGED <<waiting, fresh, queued, queuedAs, inPi, piQueue, inRun, piRun, queue, runs, events, lane, words, ahead, outcome, sentBefore, chosen, again, read, placed, unsent>>
  BY Apart DEF StopEnds, Leave, piVars, presses, account, Types, PcType, Tidy
<1>2. /\ pc'[s] = p /\ \A k \in Links : k # s => pc'[k] = pc[k]
      /\ \A m \in Msgs : m # s /\ pc'[m] = pc[m]
  BY <1>0, <1>1, Apart
<1>3. Types'
  <2>1. ListTypes' /\ SetTypes' /\ PlainTypes' /\ MapTypes'
    BY <1>1 DEF Types, ListTypes, SetTypes, PlainTypes, MapTypes
  <2>2. PcType'
    BY <1>0, <1>1, <1>2, Apart DEF Types, PcType, Phases, StopPhases
  <2> QED BY <2>1, <2>2 DEF Types
<1>4. ChainOK'
  <2>1. \A n \in Msgs : Live(n)' <=> Live(n)
    BY <1>1, <1>2, Apart DEF Live, Dead, Waits
  <2>2. Ordered'
    BY <1>1, <2>1 DEF ChainOK, Ordered
  <2>8. Held'
    <3>1. OverOK(s)
      BY <1>1 DEF ChainOK, StopsOK
    <3>2. ASSUME NEW n \in Msgs, Live(n) PROVE tail # None /\ tail # s /\ (n = tail \/ n \in ahead[tail])
      BY <1>2, <3>1, <3>2 DEF ChainOK, Held, OverOK
    <3> QED BY <1>1, <2>1, <3>2 DEF Held
  <2>3. TurnOK' /\ AheadOK' /\ TailOK'
    BY <1>0, <1>1, <1>2, Apart DEF ChainOK, TurnOK, AheadOK, TailOK, Out, InChain, Types, MapTypes
  <2>4. IdleOK' /\ StartedOK'
    BY <1>1, <1>2, Apart DEF ChainOK, IdleOK, StartedOK
  <2>6. StopsOK'
    BY <1>0, <1>1, <1>2, <2>1, Apart DEF ChainOK, StopsOK, DropOK, AbortOK, OverOK, Waits
  <2>7. DropsOK'
    <3>1. Handed' <=> Handed
      BY <1>1, <1>2, WaitsInMsgs DEF Handed
    <3>2. ASSUME NEW t \in Stops, pc[t] = "drop" PROVE StopHeld(t)'
      <4>1. tail = s => Handed
        BY <1>1, <3>2 DEF ChainOK, DropsOK, StopHeld, PastOK
      <4> QED BY <1>1, <3>1, <3>2, <4>1 DEF ChainOK, DropsOK, StopHeld
    <3> QED BY <1>0, <1>1, <1>2, <3>1, <3>2, WaitsInMsgs, Apart DEF ChainOK, DropsOK, PastOK, LateOK
  <2> QED BY <2>2, <2>3, <2>4, <2>6, <2>7, <2>8 DEF ChainOK
<1>5. EventsOK' /\ FreshOK' /\ TellsOK' /\ QueueOK' /\ PiOK' /\ WaitOK' /\ AccountOK'
  <2> HIDE DEF IInv
  <2> QED BY <1>1, <1>2, PressKeeps
<1>6. AgainOK'
  BY <1>0, <1>1, <1>2, Apart, WaitsInMsgs DEF AgainOK
<1> QED BY <1>3, <1>4, <1>5, <1>6
-----------------------------------------------------------------------------
(* A message taken back. *)

\* A press that is not a Stop yet, or no more, is in nobody's way.
LEMMA AsideKeepsChain ==
  ASSUME IInv, NEW s \in Stops, pc[s] \in {"idle", "handed", "again"}, NEW p \in {"handed", "done"},
         pc[s] = "again" => p = "done", pc' = [pc EXCEPT ![s] = p],
         UNCHANGED <<waiting, tail, queued, piRun, ahead, outcome, sentBefore>>
  PROVE  PcType' /\ ChainOK' /\ \A m \in Msgs : pc'[m] = pc[m]
<1> USE DEF IInv
<1>1. /\ s \in Links /\ pc'[s] = p /\ \A k \in Links : k # s => pc'[k] = pc[k]
      /\ \A m \in Msgs : m # s /\ pc'[m] = pc[m]
  BY Apart DEF Types, PcType
<1>2. PcType'
  BY <1>1, Apart DEF Types, PcType, Phases, StopPhases
<1>3. ChainOK'
  <2>1. \A n \in Msgs : Live(n)' <=> Live(n)
    BY <1>1, Apart DEF Live, Dead, Waits
  <2>2. Ordered' /\ Held'
    BY <2>1 DEF ChainOK, Ordered, Held
  <2>3. \A k \in Links : \A j \in ahead[k] : j \in Links /\ (Out(j) => Out(j)')
    BY <1>1 DEF ChainOK, AheadOK, InChain, Out, Types, MapTypes
  <2>4. TurnOK'
    BY <1>1, <2>3, Apart DEF ChainOK, TurnOK
  <2>5. AheadOK' /\ TailOK'
    BY <1>1, Apart DEF ChainOK, AheadOK, TailOK, InChain, Types, MapTypes
  <2>6. IdleOK' /\ StartedOK'
    BY <1>1, Apart DEF ChainOK, IdleOK, StartedOK
  <2>7. StopsOK'
    BY <1>1, <2>1, Apart DEF ChainOK, StopsOK, DropOK, AbortOK, OverOK, Waits
  <2>8. DropsOK'
    <3>1. Handed' <=> Handed
      BY <1>1, WaitsInMsgs DEF Handed
    <3> QED BY <1>1, <3>1, WaitsInMsgs, Apart DEF ChainOK, DropsOK, StopHeld, PastOK, LateOK
  <2> QED BY <2>2, <2>4, <2>5, <2>6, <2>7, <2>8 DEF ChainOK
<1> QED BY <1>1, <1>2, <1>3

\* A press to take a message back waits for what is being handed over.
LEMMA TakeBeginsKeeps == ASSUME Tidy, IInv, NEW s \in Stops, TakeBegins(s) PROVE IInv'
<1> USE DEF IInv
<1>1. /\ pc[s] = "idle" /\ pc' = [pc EXCEPT ![s] = "handed"]
      /\ \E m \in Range(waiting) : chosen' = [chosen EXCEPT ![s] = m]
      /\ UNCHANGED <<waiting, fresh, tail, queued, queuedAs, inPi, piQueue, inRun, running, piRun, queue, runs, events, lane, words, ahead, outcome, sentBefore, again, read, placed, unsent>>
  BY DEF TakeBegins, Go, manager, piVars, account
<1>2. PcType' /\ ChainOK' /\ \A m \in Msgs : pc'[m] = pc[m]
  <2> HIDE DEF IInv
  <2> QED BY <1>1, AsideKeepsChain
<1>3. Types'
  <2>1. ListTypes' /\ SetTypes' /\ PlainTypes'
    BY <1>1 DEF Types, ListTypes, SetTypes, PlainTypes
  <2>2. MapTypes'
    BY <1>1, WaitsInMsgs DEF Types, MapTypes
  <2> QED BY <1>2, <2>1, <2>2 DEF Types
<1>4. EventsOK' /\ FreshOK' /\ TellsOK' /\ QueueOK' /\ PiOK' /\ WaitOK' /\ AccountOK'
  <2> HIDE DEF IInv
  <2> QED BY <1>1, <1>2, PressKeeps
<1>5. AgainOK'
  BY <1>1, <1>2, Apart, WaitsInMsgs DEF AgainOK, Types, PcType, Links
<1> QED BY <1>2, <1>3, <1>4, <1>5

\* A press to take a message back finds it gone.
LEMMA TakeRefusedKeeps == ASSUME Tidy, IInv, NEW s \in Stops, TakeRefused(s) PROVE IInv'
<1> USE DEF IInv
<1>1. /\ pc[s] = "handed" /\ pc' = [pc EXCEPT ![s] = "done"]
      /\ UNCHANGED <<waiting, fresh, tail, queued, queuedAs, inPi, piQueue, inRun, running, piRun, queue, runs, events, lane, words, ahead, outcome, sentBefore, chosen, again, read, placed, unsent>>
  BY DEF TakeRefused, TakeFinds, Go, manager, piVars, presses, account
<1>2. PcType' /\ ChainOK' /\ \A m \in Msgs : pc'[m] = pc[m]
  <2> HIDE DEF IInv
  <2> QED BY <1>1, AsideKeepsChain
<1>3. Types'
  <2>1. ListTypes' /\ SetTypes' /\ PlainTypes' /\ MapTypes'
    BY <1>1 DEF Types, ListTypes, SetTypes, PlainTypes, MapTypes
  <2> QED BY <1>2, <2>1 DEF Types
<1>4. EventsOK' /\ FreshOK' /\ TellsOK' /\ QueueOK' /\ PiOK' /\ WaitOK' /\ AccountOK'
  <2> HIDE DEF IInv
  <2> QED BY <1>1, <1>2, PressKeeps
<1>5. AgainOK'
  BY <1>1, <1>2, Apart, WaitsInMsgs DEF AgainOK, Types, PcType, Links
<1> QED BY <1>2, <1>3, <1>4, <1>5

\* A message sent again is in pi: the next one's turn.
LEMMA SentAgainKeeps == ASSUME Tidy, IInv, NEW s \in Stops, SentAgain(s) PROVE IInv'
<1> USE DEF IInv
<1>1. /\ again[s] # <<>> /\ pc[Head(again[s])] = "done" /\ again' = [again EXCEPT ![s] = Tail(again[s])] /\ pc[s] = "again"
      /\ UNCHANGED <<waiting, fresh, tail, queued, queuedAs, inPi, piQueue, inRun, running, piRun, queue, runs, events, pc, lane, words, ahead, outcome, sentBefore, chosen, read, placed, unsent>>
  BY DEF SentAgain, manager, piVars, account
<1>2. again \in [Stops -> Seq(Msgs)] /\ again[s] \in Seq(Msgs)
  BY DEF Types, MapTypes
<1>3. Tail(again[s]) \in Seq(Msgs) /\ Range(Tail(again[s])) \subseteq Range(again[s])
  BY <1>1, <1>2, TailIn
<1>4. again'[s] = Tail(again[s]) /\ \A t \in Stops : t # s => again'[t] = again[t]
  BY <1>1, <1>2
<1>5. Types'
  <2>1. ListTypes' /\ SetTypes' /\ PlainTypes' /\ PcType'
    BY <1>1 DEF Types, ListTypes, SetTypes, PlainTypes, PcType
  <2>2. MapTypes'
    BY <1>1, <1>2, <1>3 DEF Types, MapTypes
  <2> QED BY <2>1, <2>2 DEF Types
<1>6. ChainOK'
  BY <1>1, RunKeepsChain DEF ChainOK, StartedOK
<1>7. EventsOK' /\ FreshOK' /\ TellsOK' /\ QueueOK' /\ PiOK' /\ WaitOK' /\ AccountOK'
  <2> HIDE DEF IInv
  <2> QED BY <1>1, PressKeeps
<1>8. AgainOK'
  BY <1>1, <1>3, <1>4 DEF AgainOK
<1> QED BY <1>5, <1>6, <1>7, <1>8

\* A press to take a message back ends.
LEMMA TakeEndsKeeps == ASSUME Tidy, IInv, NEW s \in Stops, TakeEnds(s) PROVE IInv'
<1> USE DEF IInv
<1>1. /\ pc[s] = "again" /\ pc' = [pc EXCEPT ![s] = "done"] /\ again' = [again EXCEPT ![s] = <<>>]
      /\ again[s] # <<>> => pc[Head(again[s])] = "done"
      /\ UNCHANGED <<waiting, fresh, tail, queued, queuedAs, inPi, piQueue, inRun, running, piRun, queue, runs, events, lane, words, ahead, outcome, sentBefore, chosen, read, placed, unsent>>
  BY DEF TakeEnds, Go, manager, piVars, account
<1>2. PcType' /\ ChainOK' /\ \A m \in Msgs : pc'[m] = pc[m]
  <2> HIDE DEF IInv
  <2> QED BY <1>1, AsideKeepsChain
<1>3. again'[s] = <<>> /\ \A t \in Stops : t # s => again'[t] = again[t]
  BY <1>1 DEF Types, MapTypes
<1>4. Types'
  <2>1. ListTypes' /\ SetTypes' /\ PlainTypes'
    BY <1>1 DEF Types, ListTypes, SetTypes, PlainTypes
  <2>2. MapTypes'
    <3>1. <<>> \in Seq(Msgs)
      OBVIOUS
    <3> QED BY <1>1, <3>1 DEF Types, MapTypes
  <2> QED BY <1>2, <2>1, <2>2 DEF Types
<1>5. EventsOK' /\ FreshOK' /\ TellsOK' /\ QueueOK' /\ PiOK' /\ WaitOK' /\ AccountOK'
  <2> HIDE DEF IInv
  <2> QED BY <1>1, <1>2, PressKeeps
<1>6. AgainOK'
  <2>1. \A t \in Stops : pc'[t] \in {"idle", "handed"} => again'[t] = <<>>
    BY <1>1, <1>3 DEF AgainOK, Types, PcType, Links
  <2>2. \A t \in Stops : Range(again'[t]) \subseteq Range(again[t])
    BY <1>3, NoneIn
  <2>3. \A t \in Stops : \A m \in Range(again'[t]) : pc'[m] # "idle"
    BY <1>2, <2>2, WaitsInMsgs DEF AgainOK
  <2>4. ASSUME NEW m \in Msgs, pc'[m] = "prompting", \E t \in Stops : m \in Range(again'[t])
        PROVE  \E t \in Stops : again'[t] # <<>> /\ m = Head(again'[t])
    <3>1. PICK t \in Stops : again[t] # <<>> /\ m = Head(again[t])
      BY <1>2, <2>2, <2>4 DEF AgainOK
    <3>2. t # s
      BY <1>1, <1>2, <2>4, <3>1
    <3> QED BY <1>3, <3>1, <3>2
  <2> QED BY <2>1, <2>3, <2>4 DEF AgainOK
<1> QED BY <1>2, <1>4, <1>5, <1>6

\* A message is sent again.
LEMMA SendsAgainKeeps == ASSUME Tidy, IInv, NEW s \in Stops, SendsAgain(s) PROVE IInv'
<1> USE DEF IInv
<1> DEFINE m == Head(again[s])
<1>1. m \in Msgs
  BY TailIn DEF SendsAgain, Types, MapTypes
<1>0. /\ m \in Links /\ pc[m] = "again" /\ again[s] # <<>> /\ running' = TRUE
      /\ pc' = [pc EXCEPT ![m] = "prompting"] /\ pc \in [Links -> Phases]
      /\ UNCHANGED <<waiting, fresh, tail, queued, queuedAs, inPi, piQueue, inRun, piRun, queue, runs, events, lane, words, ahead, outcome, sentBefore, chosen, again, read, placed, unsent>>
  BY <1>1, Apart DEF SendsAgain, Go, piVars, presses, account, Types, PcType
<1>2. pc'[m] = "prompting" /\ \A k \in Links : k # m => pc'[k] = pc[k]
  BY <1>0
<1>3. again[s] # <<>> /\ m = Head(again[s])
  BY <1>0
<1> HIDE DEF m
<1>4. Types'
  <2>1. ListTypes' /\ SetTypes' /\ PlainTypes' /\ MapTypes'
    BY <1>0 DEF Types, ListTypes, SetTypes, PlainTypes, MapTypes
  <2>2. PcType'
    BY <1>0, <1>1, <1>2, Apart DEF Types, PcType, Phases, MsgPhases
  <2> QED BY <2>1, <2>2 DEF Types
<1>5. ChainOK'
  <2>1. \A n \in Msgs : Live(n)' <=> Live(n)
    BY <1>0, <1>2, Apart DEF Live, Dead, Waits
  <2>2. Ordered' /\ Held'
    BY <1>0, <2>1 DEF ChainOK, Ordered, Held
  <2>3. TurnOK' /\ AheadOK' /\ TailOK'
    BY <1>0, <1>1, <1>2, Apart DEF ChainOK, TurnOK, AheadOK, TailOK, Out, InChain, Types, MapTypes
  <2>4. IdleOK' /\ StartedOK'
    BY <1>0, <1>2, Apart DEF ChainOK, IdleOK, StartedOK
  <2>5. StopsOK'
    BY <1>0, <1>1, <1>2, <2>1, Apart DEF ChainOK, StopsOK, DropOK, AbortOK, OverOK, Waits
  <2>6. DropsOK'
    <3>1. Handed' <=> Handed
      BY <1>0, <1>2, WaitsInMsgs, Apart DEF Handed
    <3> QED BY <1>0, <1>1, <1>2, <3>1, WaitsInMsgs, Apart DEF ChainOK, DropsOK, StopHeld, PastOK, LateOK
  <2> QED BY <2>2, <2>3, <2>4, <2>5, <2>6 DEF ChainOK
<1>6. EventsOK' /\ FreshOK'
  BY <1>0, <1>2, WaitsInMsgs, Apart DEF EventsOK, FreshOK, Reads
<1>7. TellsOK'
  BY <1>0, <1>2, Apart DEF TellsOK, Queues1
<1>8. QueueOK'
  <2>1. \A n \in Msgs : InQueue(n) => InQueue(n)'
    BY <1>0, <1>2, Apart DEF InQueue, Waits
  <2> QED BY <1>0, <2>1, WaitsInMsgs DEF QueueOK
<1>9. PiOK' /\ WaitOK'
  BY <1>0, <1>2, Apart, WaitsInMsgs DEF PiOK, WaitOK, Waits, Types, SetTypes
<1>10. AccountOK'
  BY <1>0, <1>1, <1>2, Apart DEF AccountOK
<1>11. AgainOK'
  BY <1>0, <1>1, <1>2, <1>3, Apart, WaitsInMsgs DEF AgainOK
<1> QED BY <1>4, <1>5, <1>6, <1>7, <1>8, <1>9, <1>10, <1>11

\* One more at the head of a list.
LEMMA ConsIn ==
  ASSUME NEW list \in Seq(Msgs), NEW m \in Msgs
  PROVE  <<m>> \o list \in Seq(Msgs) /\ Range(<<m>> \o list) = Range(list) \cup {m} /\ Head(<<m>> \o list) = m
<1>1. <<m>> \in Seq(Msgs) /\ Len(<<m>>) = 1 /\ <<m>>[1] = m /\ Len(list) \in Nat
  OBVIOUS
<1> DEFINE c == <<m>> \o list
<1>2. /\ c \in Seq(Msgs) /\ Len(c) = 1 + Len(list) /\ c[1] = m
      /\ \A i \in 1..Len(list) : c[i + 1] = list[i]
  BY <1>1
<1> HIDE DEF c
<1>3. DOMAIN c = 1..(Len(list) + 1) /\ DOMAIN list = 1..Len(list)
  BY <1>1, <1>2
<1>4. Range(c) = Range(list) \cup {m}
  <2>1. m \in Range(c)
    <3>1. 1 \in DOMAIN c
      BY <1>1, <1>3
    <3> QED BY <1>2, <3>1 DEF Range
  <2>2. ASSUME NEW x \in Range(list) PROVE x \in Range(c)
    <3>1. PICK i \in 1..Len(list) : x = list[i]
      BY <1>3, <2>2 DEF Range
    <3>2. i + 1 \in DOMAIN c
      BY <1>1, <1>3
    <3> QED BY <1>2, <3>1, <3>2 DEF Range
  <2>3. ASSUME NEW x \in Range(c) PROVE x \in Range(list) \cup {m}
    <3>1. PICK i \in 1..(Len(list) + 1) : x = c[i]
      BY <1>3, <2>3 DEF Range
    <3>2. CASE i = 1
      BY <1>2, <3>1, <3>2
    <3>3. CASE i # 1
      <4>1. PICK j \in 1..Len(list) : i = j + 1
        <5>1. i - 1 \in 1..Len(list) /\ i = (i - 1) + 1
          BY <1>1, <3>3
        <5> QED BY <5>1
      <4> QED BY <1>2, <1>3, <3>1, <4>1 DEF Range
    <3> QED BY <3>2, <3>3
  <2> QED BY <2>1, <2>2, <2>3
<1>5. Head(c) = m
  BY <1>2
<1> QED BY <1>2, <1>4, <1>5 DEF c

\* Those that pi had in its queue are taken out of every account of it.
LEMMA TakesBackIs ==
  ASSUME Tidy, IInv, NEW s \in Stops, TakesBack(s)
  PROVE  LET P == Range(waiting) \cap inPi
         IN  /\ P \subseteq Msgs /\ chosen[s] \in P /\ \A m \in P : m \notin read /\ pc[m] = "done"
             /\ \E list \in Seq(Msgs), phase \in {"again", "drop"} :
                  /\ Range(list) \subseteq P /\ P \ Range(list) \subseteq {chosen[s]}
                  /\ again' = [again EXCEPT ![s] = list]
                  /\ pc' = [k \in Links |-> CASE k = s -> phase
                                              [] k \in Range(list) -> "again"
                                              [] k \in P \ Range(list) -> "gone"
                                              [] OTHER -> pc[k]]
                  /\ \/ /\ phase = "again"
                        /\ ahead' = [k \in Links |-> ahead[k] \ P]
                        /\ UNCHANGED <<lane, tail, sentBefore>>
                     \/ /\ phase = "drop" /\ Calm
                        /\ lane' = [m \in Msgs |-> IF m \in P THEN "followUp" ELSE lane[m]]
                        /\ ahead' = [k \in Links |-> (IF k = s THEN Chain ELSE ahead[k]) \ P] /\ tail' = s
                        /\ sentBefore' = [sentBefore EXCEPT ![s] = Range(waiting')]
<1> USE DEF IInv
<1> DEFINE P      == Range(waiting) \cap inPi
           others == Without(waiting, (Msgs \ P) \cup {chosen[s]})
<1>1. P \subseteq Msgs /\ chosen[s] \in P /\ \A m \in P : m \notin read /\ pc[m] = "done"
  BY WaitsInMsgs DEF TakesBack, TakeFinds, Told, Tidy, PiOK
<1>2. others \in Seq(Msgs) /\ Range(others) \subseteq P /\ P \ Range(others) \subseteq {chosen[s]}
  <2>1. waiting \in Seq(Msgs)
    BY DEF Types, ListTypes
  <2>2. Without(waiting, (Msgs \ P) \cup {chosen[s]}) \in Seq(Msgs)
        /\ Range(Without(waiting, (Msgs \ P) \cup {chosen[s]})) = Range(waiting) \ ((Msgs \ P) \cup {chosen[s]})
    <3> HIDE DEF P
    <3> QED BY <2>1, WithoutIs
  <2> QED BY <1>1, <2>2, WaitsInMsgs
<1>3. /\ <<chosen[s]>> \o others \in Seq(Msgs) /\ Range(<<chosen[s]>> \o others) \subseteq P
      /\ P \ Range(<<chosen[s]>> \o others) \subseteq {chosen[s]}
  <2> HIDE DEF others
  <2> QED BY <1>1, <1>2, ConsIn
<1>4. CASE /\ again' = [again EXCEPT ![s] = others]
           /\ pc' = [k \in Links |-> CASE k = s -> "again"
                                       [] k \in Range(others) -> "again"
                                       [] k \in P \ Range(others) -> "gone"
                                       [] OTHER -> pc[k]]
           /\ ahead' = [k \in Links |-> ahead[k] \ P]
           /\ UNCHANGED <<lane, tail, sentBefore>>
  <2> HIDE DEF others
  <2> QED BY <1>1, <1>2, <1>4
<1>5. CASE /\ Calm
           /\ again' = [again EXCEPT ![s] = <<chosen[s]>> \o others]
           /\ pc' = [k \in Links |-> CASE k = s -> "drop"
                                       [] k \in Range(<<chosen[s]>> \o others) -> "again"
                                       [] k \in P \ Range(<<chosen[s]>> \o others) -> "gone"
                                       [] OTHER -> pc[k]]
           /\ lane' = [m \in Msgs |-> IF m \in P THEN "followUp" ELSE lane[m]]
           /\ ahead' = [k \in Links |-> (IF k = s THEN Chain ELSE ahead[k]) \ P] /\ tail' = s
           /\ sentBefore' = [sentBefore EXCEPT ![s] = Range(waiting')]
  <2> HIDE DEF others
  <2> QED BY <1>1, <1>3, <1>5
<1> QED BY <1>4, <1>5 DEF TakesBack

\* A press empties pi's queue, and what it held is out of the chat.
LEMMA TakesBackKeeps == ASSUME Tidy, IInv, NEW s \in Stops, TakesBack(s) PROVE IInv'
<1> USE DEF IInv
<1>0. PICK P : P = Range(waiting) \cap inPi
  OBVIOUS
<1>1. P \subseteq Msgs /\ chosen[s] \in P /\ \A m \in P : m \notin read /\ pc[m] = "done"
  BY <1>0, TakesBackIs
<1>2. PICK list \in Seq(Msgs), phase \in {"again", "drop"} :
        /\ Range(list) \subseteq P
        /\ again' = [again EXCEPT ![s] = list]
        /\ pc' = [k \in Links |-> CASE k = s -> phase
                                    [] k \in Range(list) -> "again"
                                    [] k \in P \ Range(list) -> "gone"
                                    [] OTHER -> pc[k]]
        /\ \/ /\ phase = "again"
              /\ ahead' = [k \in Links |-> ahead[k] \ P]
              /\ UNCHANGED <<lane, tail, sentBefore>>
           \/ /\ phase = "drop" /\ Calm
              /\ lane' = [m \in Msgs |-> IF m \in P THEN "followUp" ELSE lane[m]]
              /\ ahead' = [k \in Links |-> (IF k = s THEN Chain ELSE ahead[k]) \ P] /\ tail' = s
              /\ sentBefore' = [sentBefore EXCEPT ![s] = Range(waiting')]
  BY <1>0, TakesBackIs
<1>3. /\ s \in Links /\ pc[s] = "handed" /\ Handed /\ ~Hearing /\ ~Early
      /\ waiting' = Without(waiting, P)
      /\ queue' = Empty /\ events' = events \o <<Event("queue", None, queue')>>
      /\ inPi' = inPi \ P /\ queued' = queued \ P /\ queuedAs' = queuedAs \ P
      /\ words' = [m \in Msgs |-> IF m \in P THEN Text[m] ELSE words[m]]
      /\ outcome' = [m \in Msgs |-> IF m \in P THEN "none" ELSE outcome[m]]
      /\ UNCHANGED <<fresh, piQueue, inRun, running, piRun, runs, chosen, read, placed, unsent>>
  BY <1>0, Apart DEF TakesBack, TakeFinds, Tidy, Say, Empty, account
<1>4. /\ pc'[s] = phase
      /\ \A m \in P : pc'[m] \in {"again", "gone"}
      /\ \A m \in Msgs : m \notin P => pc'[m] = pc[m]
      /\ \A t \in Stops : t # s => pc'[t] = pc[t]
  BY <1>1, <1>2, <1>3, Apart
<1>5. waiting' \in Seq(Msgs) /\ Distinct(waiting') /\ Range(waiting') = Range(waiting) \ P
  BY <1>3, WithoutIs DEF Types, ListTypes, WaitOK
<1>6. \A m \in Msgs : (Waits(m)' <=> Waits(m) /\ m \notin P) /\ (m \in P => outcome'[m] = "none") /\ (m \notin P => outcome'[m] = outcome[m])
  BY <1>3, <1>5 DEF Waits
<1>7. /\ queue' \in Queues /\ events' \in Seq(Events)
      /\ \A l \in Lanes : queue'[l] = <<>>
      /\ EventsOK' /\ TellsOK'
      /\ \A i \in 1..Len(events) : i \in 1..Len(events') /\ events'[i] = events[i]
  <2>1. \A m \in read : m \in read' /\ outcome'[m] = outcome[m]
    BY <1>1, <1>3, <1>6 DEF Types, SetTypes
  <2>2. \A m \in Msgs : pc'[m] = "handing" => pc[m] = "handing"
    BY <1>4
  <2> HIDE DEF IInv
  <2> QED BY <1>3, <2>1, <2>2, Emptied
<1>8. \A l \in Lanes : Range(queue'[l]) = {} /\ Distinct(queue'[l])
  BY <1>7, NoneIn
<1>9. /\ \A m \in Range(waiting) : m \in Msgs /\ pc[m] \in {"ahead", "done"}
      /\ \A m \in Msgs : pc[m] = "handing" => m \notin queued
      /\ \A m \in Msgs : pc[m] = "accepted" => outcome[m] # "queued" /\ (outcome[m] = "started" \/ m \notin queued)
  BY <1>3, HandedIs, WaitsInMsgs
<1>10. Chain \subseteq Links /\ \A j \in Chain : pc[j] \in InChain \cup {"done"} \/ (j \in Stops /\ pc[j] = "again")
  BY Apart DEF Chain, Types, MapTypes, ChainOK, TailOK, AheadOK

\* The chain is the same but for them, or has the press behind it.
<1>11. /\ ahead' \in [Links -> SUBSET Links]
       /\ \A k \in Links : k # s \/ phase = "again" => ahead'[k] = ahead[k] \ P
       /\ phase = "drop" => ahead'[s] = Chain \ P /\ tail' = s /\ sentBefore'[s] = Range(waiting') /\ Calm
       /\ phase = "again" => tail' = tail /\ sentBefore' = sentBefore
       /\ \A t \in Stops : t # s => sentBefore'[t] = sentBefore[t]
       /\ sentBefore' \in [Stops -> SUBSET Msgs] /\ lane' \in [Msgs -> Lanes]
  <2>1. /\ ahead \in [Links -> SUBSET Links] /\ sentBefore \in [Stops -> SUBSET Msgs]
        /\ lane \in [Msgs -> Lanes] /\ \A m \in Range(waiting') : m \in Msgs
    BY <1>5, WaitsInMsgs DEF Types, MapTypes
  <2>2. Range(waiting') \subseteq Msgs
    BY <2>1
  <2>3. CASE phase = "again"
    <3>1. ahead' = [k \in Links |-> ahead[k] \ P] /\ UNCHANGED <<lane, tail, sentBefore>>
      BY <1>2, <2>3
    <3> QED BY <2>1, <2>3, <3>1
  <2>4. CASE phase = "drop"
    <3>1. /\ lane' = [m \in Msgs |-> IF m \in P THEN "followUp" ELSE lane[m]]
          /\ ahead' = [k \in Links |-> (IF k = s THEN Chain ELSE ahead[k]) \ P] /\ tail' = s
          /\ sentBefore' = [sentBefore EXCEPT ![s] = Range(waiting')] /\ Calm
      BY <1>2, <2>4
    <3>2. lane' \in [Msgs -> Lanes]
      BY <2>1, <3>1 DEF Lanes
    <3>3. ahead' \in [Links -> SUBSET Links]
      BY <1>10, <2>1, <3>1
    <3>4. \A k \in Links : k # s => ahead'[k] = ahead[k] \ P
      BY <3>1
    <3>5. ahead'[s] = Chain \ P
      BY <1>3, <3>1
    <3>6. sentBefore' \in [Stops -> SUBSET Msgs] /\ sentBefore'[s] = Range(waiting')
          /\ \A t \in Stops : t # s => sentBefore'[t] = sentBefore[t]
      BY <2>1, <2>2, <3>1
    <3> QED BY <2>4, <3>1, <3>2, <3>3, <3>4, <3>5, <3>6
  <2> QED BY <2>3, <2>4
<1>12. Types'
  <2>1. ListTypes' /\ SetTypes'
    BY <1>3, <1>5, <1>7 DEF Types, ListTypes, SetTypes
  <2>2. PlainTypes'
    BY <1>3, <1>7 DEF Types, PlainTypes
  <2>3. MapTypes'
    <3>1. words' \in [Msgs -> {words'[m] : m \in Msgs}] /\ \A m \in Msgs : words'[m] \in {Text[m], Rewritten[m]}
      BY <1>3 DEF Types, MapTypes
    <3>2. DOMAIN words' = Msgs
      BY <1>3
    <3>3. outcome' \in [Msgs -> Outcomes]
      BY <1>3 DEF Types, MapTypes, Outcomes
    <3>4. tail' \in Links \cup {None} /\ again' \in [Stops -> Seq(Msgs)] /\ chosen' \in [Stops -> Msgs \cup {None}]
      BY <1>2, <1>3, <1>11 DEF Types, MapTypes
    <3> QED BY <1>11, <3>1, <3>2, <3>3, <3>4 DEF MapTypes
  <2>4. PcType'
    <3>1. \A m \in Msgs : pc'[m] \in MsgPhases
      BY <1>4 DEF Types, PcType, MsgPhases
    <3>2. \A t \in Stops : pc'[t] \in StopPhases
      BY <1>4 DEF Types, PcType, StopPhases
    <3>3. \A k \in Links : pc'[k] \in Phases
      BY <3>1, <3>2 DEF Links, Phases, MsgPhases, StopPhases
    <3>4. pc' \in [Links -> Phases]
      <4>1. pc' = [k \in Links |-> pc'[k]]
        BY <1>2
      <4> QED BY <3>3, <4>1
    <3> QED BY <3>1, <3>2, <3>4 DEF PcType
  <2> QED BY <2>1, <2>2, <2>3, <2>4 DEF Types
<1>13. ChainOK'
  <2>1. \A n \in Msgs : (Live(n)' <=> Live(n)) /\ (Live(n) => n \notin P)
    BY <1>1, <1>3, <1>4, <1>6 DEF Live, Dead
  <2>2. \A n \in Msgs : Live(n) => n \in Chain
    BY DEF ChainOK, Held, Chain
  <2>3. Ordered'
    BY <1>11, <2>1, Apart DEF ChainOK, Ordered
  <2>4. Held'
    <3>1. CASE phase = "drop"
      BY <1>3, <1>11, <2>1, <2>2, <3>1, Apart DEF Held
    <3>2. CASE phase = "again"
      <4>1. \A n \in Msgs : Live(n) => tail \in Links /\ n \notin P /\ tail' = tail /\ (tail # None => ahead'[tail] = ahead[tail] \ P)
        BY <1>11, <2>1, <3>2 DEF Types, MapTypes, ChainOK, Held
      <4> QED BY <2>1, <4>1 DEF ChainOK, Held
    <3> QED BY <3>1, <3>2
  <2>5. \A k \in Links : s \notin ahead[k]
    BY <1>3, Apart DEF ChainOK, AheadOK, InChain
  <2>6. \A k \in Links : k \notin P /\ k # s => pc'[k] = pc[k]
    BY <1>4 DEF Links
  <2>7. TurnOK'
    <3>1. ASSUME NEW m \in Msgs, pc'[m] \in {"handing", "accepted"}, NEW j \in ahead'[m] PROVE Out(j)'
      <4>1. m \notin P /\ m # s /\ m \in Links /\ pc[m] = pc'[m]
        BY <1>4, <3>1, Apart
      <4>2. ahead'[m] = ahead[m] \ P /\ ahead[m] \subseteq Links
        BY <1>11, <4>1 DEF Types, MapTypes
      <4>3. j \in ahead[m] /\ j \notin P /\ j \in Links /\ j # s
        BY <2>5, <3>1, <4>1, <4>2
      <4>4. Out(j)
        BY <3>1, <4>1, <4>3 DEF ChainOK, TurnOK
      <4> QED BY <2>6, <4>3, <4>4 DEF Out
    <3> QED BY <3>1 DEF TurnOK
  <2>8. AheadOK'
    <3>1. ASSUME NEW k \in Links, NEW j \in ahead'[k]
          PROVE  pc'[j] \in InChain \cup {"done"} \/ (j \in Stops /\ pc'[j] = "again")
      <4>1. j \in Links /\ j \notin P /\ (j \in ahead[k] \/ j \in Chain)
        BY <1>10, <1>11, <3>1 DEF Types, MapTypes
      <4>2. pc[j] \in InChain \cup {"done"} \/ (j \in Stops /\ pc[j] = "again")
        BY <1>10, <3>1, <4>1 DEF ChainOK, AheadOK
      <4>3. j # s
        BY <1>3, <4>2 DEF InChain
      <4> QED BY <2>6, <4>1, <4>2, <4>3
    <3> QED BY <3>1 DEF AheadOK
  <2>9. TailOK'
    <3>1. tail # None => tail \notin P /\ tail # s /\ tail \in Links
      BY <1>1, <1>3 DEF ChainOK, TailOK, InChain, Types, MapTypes
    <3> QED BY <1>4, <1>11, <2>6, <3>1 DEF ChainOK, TailOK, InChain
  <2>10. IdleOK' /\ StartedOK'
    <3>1. ASSUME NEW m \in Msgs, pc'[m] \in {"ahead", "handing", "accepted"}
          PROVE  m \notin P /\ m \in Links /\ m # s /\ pc[m] = pc'[m] /\ outcome'[m] = outcome[m]
      BY <1>4, <1>6, <3>1, Apart
    <3>2. \A m \in Msgs : m \notin P => (m \in queued' <=> m \in queued)
      BY <1>3
    <3>3. StartedOK'
      BY <1>3, <3>1 DEF ChainOK, StartedOK
    <3>4. ASSUME NEW m \in Msgs \ queued'
          PROVE  /\ pc'[m] \in {"ahead", "handing", "accepted"} => ahead'[m] = {}
                 /\ pc'[m] \in {"ahead", "handing"} \/ (pc'[m] = "accepted" /\ outcome'[m] # "started") => ~piRun'
      <4>1. CASE pc'[m] \in {"ahead", "handing", "accepted"}
        <5>1. m \in Msgs \ queued /\ pc[m] = pc'[m] /\ outcome'[m] = outcome[m] /\ ahead'[m] = ahead[m] \ P
          BY <1>11, <3>1, <3>2, <3>4, <4>1
        <5> QED BY <1>3, <4>1, <5>1 DEF ChainOK, IdleOK
      <4> QED BY <4>1
    <3> QED BY <3>3, <3>4 DEF IdleOK
  <2>11. phase = "drop" => DropOK(s)'
    BY <1>1, <1>3, <1>4, <1>5, <1>6, <1>11, ChainFound, Apart DEF DropOK, Waits
  <2>12. StopsOK'
    <3>1. ASSUME NEW t \in Stops, t # s
          PROVE  /\ pc'[t] = "drop" => DropOK(t)'
                 /\ pc'[t] = "abort" => AbortOK(t)'
                 /\ pc'[t] \in {"settle", "over"} => OverOK(t)'
      <4>1. pc'[t] = pc[t] /\ sentBefore'[t] = sentBefore[t] /\ ahead'[t] = ahead[t] \ P
        BY <1>4, <1>11, <3>1, Apart
      <4>2. \A m \in Msgs : m \notin P => pc'[m] = pc[m] /\ outcome'[m] = outcome[m] /\ (m \in queued' <=> m \in queued) /\ (Waits(m)' => Waits(m))
        BY <1>3, <1>4, <1>6
      <4>3. pc[t] = "drop" => DropOK(t)'
        BY <4>1, <4>2 DEF ChainOK, StopsOK, DropOK
      <4>4. pc[t] = "abort" => AbortOK(t)'
        BY <2>1, <4>1, <4>2 DEF ChainOK, StopsOK, AbortOK
      <4>5. pc[t] \in {"settle", "over"} => OverOK(t)'
        BY <2>1, <4>1 DEF ChainOK, StopsOK, OverOK
      <4> QED BY <4>1, <4>3, <4>4, <4>5
    <3> QED BY <1>4, <2>11, <3>1 DEF StopsOK
  <2>13. DropsOK'
    <3>1. Handed'
      BY <1>4, <1>5, <1>9 DEF Handed
    <3>2. ASSUME NEW t \in Stops, t # s, pc[t] = "drop" PROVE LateOK(t)'
      <4>1. \A n \in Range(waiting) \ sentBefore[t] : pc[n] = "ahead" /\ t \in ahead[n]
        BY <3>2 DEF ChainOK, DropsOK, LateOK
      <4>2. \A n \in Range(waiting') : n \in Range(waiting) /\ n \in Msgs /\ n \in Links /\ n # s /\ pc'[n] = pc[n] /\ ahead'[n] = ahead[n] \ P
        BY <1>4, <1>5, <1>9, <1>11, Apart
      <4> QED BY <1>1, <1>11, <3>2, <4>1, <4>2, Apart DEF LateOK
    <3>3. phase = "drop" => LateOK(s)'
      BY <1>11 DEF LateOK
    <3> QED BY <1>4, <3>1, <3>2, <3>3 DEF DropsOK, StopHeld, PastOK
  <2> QED BY <2>3, <2>4, <2>7, <2>8, <2>9, <2>10, <2>12, <2>13 DEF ChainOK
<1>14. FreshOK'
  <2>1. ASSUME NEW m \in Range(fresh) PROVE m \in Msgs /\ m \notin P
    <3>1. m \in Msgs
      BY <2>1, WaitsInMsgs
    <3>2. pc[m] # "done" \/ m \in read
      BY <2>1, <3>1 DEF FreshOK, EventsOK
    <3> QED BY <1>1, <3>1, <3>2
  <2> QED BY <1>3, <1>4, <1>6, <1>7, <2>1, FreshStays
<1>15. QueueOK'
  BY <1>8 DEF QueueOK
<1>16. PiOK'
  BY <1>3, <1>4, <1>6 DEF PiOK, Types, SetTypes
<1>17. WaitOK'
  <2>1. \A n \in Range(waiting') :
          /\ n \in queued' /\ pc'[n] \in {"ahead", "handing", "accepted", "done"}
          /\ n \notin placed' \cup unsent'
          /\ pc'[n] = "done" => n \in inPi'
          /\ n \in inPi' /\ n \notin read' => n \in Range(queue'[lane'[n]])
    BY <1>0, <1>3, <1>4, <1>5, <1>9 DEF WaitOK
  <2>2. \A n \in queued' : pc'[n] = "handing" \/ (pc'[n] = "accepted" /\ outcome'[n] # "started") => Waits(n)'
    BY <1>3, <1>4, <1>6, <1>9 DEF Types, SetTypes
  <2>3. \A n \in queuedAs' : n \in inPi' /\ outcome'[n] = "queued"
    BY <1>3, <1>6 DEF WaitOK, Types, SetTypes
  <2>4. \A n \in Msgs : pc'[n] = "accepted" /\ outcome'[n] = "queued" => n \in queued' /\ n \notin read' /\ n \in Range(queue'[lane'[n]])
    BY <1>4, <1>6, <1>9
  <2> QED BY <1>5, <2>1, <2>2, <2>3, <2>4 DEF WaitOK
<1>18. AccountOK'
  <2>1. placed' \subseteq read' /\ placed' \cap unsent' = {}
    BY <1>3 DEF AccountOK
  <2>2. \A m \in unsent : m \in Msgs /\ m \notin P
    BY <1>0 DEF WaitOK, Types, SetTypes
  <2>3. \A m \in read : m \in Msgs /\ m \notin P
    BY <1>1 DEF Types, SetTypes
  <2>4. \A m \in unsent' : pc'[m] \in {"ahead", "done"} /\ (pc'[m] = "ahead" => m \in queued')
    BY <1>3, <1>4, <2>2 DEF AccountOK
  <2>5. \A m \in read' : pc'[m] \in {"accepted", "done"} /\ outcome'[m] \in {"started", "queued", "handled"}
    BY <1>3, <1>4, <1>6, <2>3 DEF AccountOK
  <2>6. ASSUME NEW m \in Msgs
        PROVE  /\ pc'[m] \in {"idle", "prompting", "again", "gone"} => m \notin queued' /\ m \notin unsent'
               /\ pc'[m] \in {"idle", "prompting", "ahead", "handing", "again", "gone"} => outcome'[m] = "none"
               /\ pc'[m] = "accepted" => outcome'[m] # "none"
               /\ pc'[m] = "accepted" /\ outcome'[m] \in {"handled", "started"} => m \in read'
    <3>1. CASE m \in P
      BY <1>3, <1>4, <1>6, <2>2, <3>1
    <3>2. CASE m \notin P
      <4>1. pc'[m] = pc[m] /\ outcome'[m] = outcome[m] /\ (m \in queued' <=> m \in queued) /\ (m \in unsent' <=> m \in unsent) /\ (m \in read' <=> m \in read)
        BY <1>3, <1>4, <1>6, <3>2
      <4> QED BY <4>1 DEF AccountOK
    <3> QED BY <3>1, <3>2
  <2> QED BY <2>1, <2>4, <2>5, <2>6 DEF AccountOK
<1>19. AgainOK'
  <2>1. again'[s] = list /\ \A t \in Stops : t # s => again'[t] = again[t]
    BY <1>2 DEF Types, MapTypes
  <2>2. again[s] = <<>>
    BY <1>3 DEF AgainOK
  <2>3. \A t \in Stops : pc'[t] \in {"idle", "handed"} => again'[t] = <<>>
    BY <1>4, <2>1 DEF AgainOK
  <2>4. \A t \in Stops : \A m \in Range(again'[t]) : pc'[m] # "idle"
    BY <1>1, <1>2, <1>4, <2>1, WaitsInMsgs DEF AgainOK
  <2>5. ASSUME NEW m \in Msgs, pc'[m] = "prompting", \E t \in Stops : m \in Range(again'[t])
        PROVE  \E t \in Stops : again'[t] # <<>> /\ m = Head(again'[t])
    <3>1. m \notin P /\ pc[m] = "prompting"
      BY <1>4, <2>5
    <3>2. \E t \in Stops : m \in Range(again[t])
      BY <1>2, <2>1, <2>5, <3>1
    <3>3. PICK t \in Stops : again[t] # <<>> /\ m = Head(again[t])
      BY <3>1, <3>2 DEF AgainOK
    <3> QED BY <2>1, <2>2, <3>3
  <2> QED BY <2>3, <2>4, <2>5 DEF AgainOK
<1> QED BY <1>7, <1>12, <1>13, <1>14, <1>15, <1>16, <1>17, <1>18, <1>19
-----------------------------------------------------------------------------
(* The invariant, and what it gives. *)

\* Nothing changes, and nothing is disturbed.
LEMMA StutterKeeps == ASSUME IInv, UNCHANGED vars PROVE IInv'
<1> USE DEF IInv
<1>1. UNCHANGED <<waiting, fresh, tail, queued, queuedAs, inPi, piQueue, inRun, running, piRun, queue, runs, events, pc, lane, words, ahead, outcome, sentBefore, chosen, again, read, placed, unsent>>
  BY DEF vars, manager, piVars, reqs, presses, account
<1>2. Types'
  BY <1>1 DEF Types, ListTypes, SetTypes, MapTypes, PlainTypes, PcType
<1>3. ChainOK'
  BY <1>1, RunKeepsChain DEF ChainOK, StartedOK
<1>4. EventsOK' /\ FreshOK' /\ TellsOK' /\ QueueOK' /\ PiOK' /\ WaitOK' /\ AccountOK'
  <2> HIDE DEF IInv
  <2> QED BY <1>1, PressKeeps
<1>5. AgainOK'
  BY <1>1 DEF AgainOK
<1> QED BY <1>2, <1>3, <1>4, <1>5

\* Every step keeps it.
LEMMA InvStep == Tidy /\ IInv /\ [Next]_vars => IInv'
<1> SUFFICES ASSUME Tidy, IInv, [Next]_vars PROVE IInv'
  OBVIOUS
<1>1. CASE \E m \in Msgs : Prompt(m) \/ MessageStep(m) \/ PreflightEnds(m)
  <2>1. PICK m \in Msgs : Prompt(m) \/ MessageStep(m) \/ PreflightEnds(m)
    BY <1>1
  <2>2. CASE Prompt(m)
    BY <2>2, PromptKeeps
  <2>3. CASE MessageStep(m)
    BY <2>3, SubmitKeeps, HandKeeps, NotSentKeeps, AcceptedKeeps DEF MessageStep
  <2>4. CASE PreflightEnds(m)
    BY <2>4, PiQueuesKeeps, PiStartsKeeps, PiDeclinesKeeps DEF PreflightEnds
  <2> QED BY <2>1, <2>2, <2>3, <2>4
<1>2. CASE PiWakes \/ PiReads \/ PiSettles
  BY <1>2, PiWakesNever, PiReadsKeeps, PiSettlesKeeps
<1>3. CASE HearStep
  BY <1>3, HearStartKeeps, HearQueueKeeps, HearReadKeeps, HearSettledKeeps DEF HearStep
<1>4. CASE \E s \in Stops : StopBegins(s) \/ StopStep(s) \/ TakeBegins(s) \/ TakeStep(s)
  <2>1. PICK s \in Stops : StopBegins(s) \/ StopStep(s) \/ TakeBegins(s) \/ TakeStep(s)
    BY <1>4
  <2>2. CASE StopBegins(s) \/ StopStep(s)
    BY <2>2, StopBeginsKeeps, StopDropsKeeps, StopAbortsKeeps, StopEndsKeeps DEF StopStep
  <2>3. CASE TakeBegins(s) \/ TakeStep(s)
    BY <2>3, TakeBeginsKeeps, TakeRefusedKeeps, TakesBackKeeps, SendsAgainKeeps, SentAgainKeeps, TakeEndsKeeps DEF TakeStep
  <2> QED BY <2>1, <2>2, <2>3
<1>5. CASE UNCHANGED vars
  BY <1>5, StutterKeeps
<1> QED BY <1>1, <1>2, <1>3, <1>4, <1>5 DEF Next

\* The inductive invariant holds all along.
LEMMA Invariance == Tidy => (Spec => []IInv)
<1> SUFFICES ASSUME Tidy PROVE Spec => []IInv
  OBVIOUS
<1>1. Init => IInv
  BY InitOK
<1>2. IInv /\ [Next]_vars => IInv'
  BY InvStep
<1> QED BY <1>1, <1>2, PTL DEF Spec

\* Messages go to pi one at a time (the chain `sending` of submit() and abort()).
THEOREM HandedSingly == Tidy => (Spec => []OneAtATime)
<1> SUFFICES ASSUME Tidy PROVE Spec => []OneAtATime
  OBVIOUS
<1>1. IInv => OneAtATime
  <2> SUFFICES ASSUME IInv PROVE OneAtATime
    OBVIOUS
  <2>1. CASE \A m \in Msgs : pc[m] # "handing"
    <3>1. {m \in Msgs : pc[m] = "handing"} = {}
      BY <2>1
    <3> QED BY <3>1, FS_EmptySet DEF OneAtATime
  <2>2. CASE \E m \in Msgs : pc[m] = "handing"
    <3>1. PICK m \in Msgs : pc[m] = "handing"
      BY <2>2
    <3>2. {n \in Msgs : pc[n] = "handing"} = {m}
      BY <3>1, Alone
    <3>3. Cardinality({n \in Msgs : pc[n] = "handing"}) = 1
      BY <3>2, FS_Singleton
    <3> QED BY <3>3 DEF OneAtATime
  <2> QED BY <2>1, <2>2
<1> QED BY <1>1, Invariance, PTL

\* A message is placed in the chat by its own reading (takeIn, with fresh and queuedAs).
THEOREM PlacedByItsReading == Tidy => (Spec => PlacedAsRead)
<1> SUFFICES ASSUME Tidy PROVE Spec => PlacedAsRead
  OBVIOUS
<1>1. ASSUME IInv, HearRead PROVE \A m \in placed' \ placed : Text[m] = Text[events[1].msg]
  <2>1. PICK S : Place(S) /\ S \cap Range(waiting) \subseteq {events[1].msg}
    BY <1>1, ReadIsPlaced
  <2>2. placed' \ placed \subseteq {events[1].msg}
    BY <2>1 DEF Place
  <2> QED BY <2>2
<1>2. IInv /\ [Next]_vars => [HearRead => \A m \in placed' \ placed : Text[m] = Text[events[1].msg]]_vars
  BY <1>1
<1>3. PlacedAsRead <=> [][HearRead => \A m \in placed' \ placed : Text[m] = Text[events[1].msg]]_vars
  BY DEF PlacedAsRead
<1> QED BY <1>2, <1>3, Invariance, PTL DEF Spec
-----------------------------------------------------------------------------
(* The account on the page is Delivery's. *)

Anew(m)    == pc[m] = "again" \/ (pc[m] = "prompting" /\ Sending(m))
Refused(m) == pc[m] = "done" /\ outcome[m] = "refused"

\* Where a message stands.
LEMMA StandingIs ==
  /\ Standing = [m \in Msgs |-> Standing[m]]
  /\ \A m \in Msgs :
       Standing[m] =
         CASE pc[m] = "gone" -> "gone"
           [] Anew(m) -> "again"
           [] m \in placed -> "placed"
           [] m \in unsent -> "unsent"
           [] Waits(m) -> "waits"
           [] Refused(m) -> "refused"
           [] pc[m] \in {"idle", "prompting"} /\ ~Anew(m) -> "new"
           [] OTHER -> "shown"
<1>1. Standing = [m \in Msgs |-> Standing[m]]
  BY DEF Standing
<1>2. ASSUME NEW m \in Msgs
      PROVE  Standing[m] =
               CASE pc[m] = "gone" -> "gone"
                 [] Anew(m) -> "again"
                 [] m \in placed -> "placed"
                 [] m \in unsent -> "unsent"
                 [] Waits(m) -> "waits"
                 [] Refused(m) -> "refused"
                 [] pc[m] \in {"idle", "prompting"} /\ ~Anew(m) -> "new"
                 [] OTHER -> "shown"
  BY <1>2 DEF Standing, Anew, Sending, Refused
<1> QED BY <1>1, <1>2

\* And after a step.
LEMMA StandingThen ==
  /\ Standing' = [m \in Msgs |-> Standing'[m]]
  /\ \A m \in Msgs :
       Standing'[m] =
         CASE pc'[m] = "gone" -> "gone"
           [] Anew(m)' -> "again"
           [] m \in placed' -> "placed"
           [] m \in unsent' -> "unsent"
           [] Waits(m)' -> "waits"
           [] Refused(m)' -> "refused"
           [] pc'[m] \in {"idle", "prompting"} /\ ~Anew(m)' -> "new"
           [] OTHER -> "shown"
<1>1. Standing' = [m \in Msgs |-> Standing'[m]]
  BY DEF Standing
<1>2. ASSUME NEW m \in Msgs
      PROVE  Standing'[m] =
               CASE pc'[m] = "gone" -> "gone"
                 [] Anew(m)' -> "again"
                 [] m \in placed' -> "placed"
                 [] m \in unsent' -> "unsent"
                 [] Waits(m)' -> "waits"
                 [] Refused(m)' -> "refused"
                 [] pc'[m] \in {"idle", "prompting"} /\ ~Anew(m)' -> "new"
                 [] OTHER -> "shown"
  BY <1>2 DEF Standing, Anew, Sending, Refused
<1> QED BY <1>1, <1>2

\* It stands as it stood where nothing of this has changed.
Unmoved(m) ==
  /\ pc'[m] = pc[m] \/ {pc'[m], pc[m]} \subseteq {"ahead", "handing", "accepted", "done"}
  /\ (Refused(m)' <=> Refused(m)) /\ (Anew(m)' <=> Anew(m)) /\ (Waits(m)' <=> Waits(m))
  /\ (m \in placed' <=> m \in placed) /\ (m \in unsent' <=> m \in unsent)

\* What has not moved stands as it stood.
LEMMA UnmovedStands ==
  ASSUME NEW m \in Msgs, Unmoved(m)
  PROVE  Standing'[m] = Standing[m]
<1>1. /\ (pc'[m] = "gone" <=> pc[m] = "gone") /\ (pc'[m] \in {"idle", "prompting"} <=> pc[m] \in {"idle", "prompting"})
      /\ (Refused(m)' <=> Refused(m)) /\ (Anew(m)' <=> Anew(m)) /\ (Waits(m)' <=> Waits(m))
      /\ (m \in placed' <=> m \in placed) /\ (m \in unsent' <=> m \in unsent)
  BY DEF Unmoved
<1>2. Standing'[m] =
        CASE pc'[m] = "gone" -> "gone"
          [] Anew(m)' -> "again"
          [] m \in placed' -> "placed"
          [] m \in unsent' -> "unsent"
          [] Waits(m)' -> "waits"
          [] Refused(m)' -> "refused"
          [] pc'[m] \in {"idle", "prompting"} /\ ~Anew(m)' -> "new"
          [] OTHER -> "shown"
  BY StandingThen
<1> QED BY <1>1, <1>2, StandingIs

\* Where all do, and pi reads nothing, Delivery sees nothing.
LEMMA AllStand ==
  ASSUME \A m \in Msgs : Unmoved(m), read' = read
  PROVE  UNCHANGED Delivered!vars
<1>1. Standing' = [m \in Msgs |-> Standing'[m]]
  BY StandingThen
<1>2. \A m \in Msgs : Standing'[m] = Standing[m]
  BY UnmovedStands
<1>3. Standing' = Standing
  BY <1>1, <1>2, StandingIs
<1> QED BY <1>3 DEF Delivered!vars

\* One message is moved, and no other.
LEMMA OneMoves ==
  ASSUME NEW m \in Msgs, \A n \in Msgs : n # m => Unmoved(n)
  PROVE  Delivered!Stands(m, Standing'[m])
<1>1. \A n \in Msgs : n # m => Standing'[n] = Standing[n]
  BY UnmovedStands
<1> QED BY <1>1, StandingIs, StandingThen DEF Delivered!Stands

\* Some are moved alike, and no other.
LEMMA SomeMove ==
  ASSUME NEW S \in SUBSET Msgs, NEW st, \A m \in S : Standing'[m] = st, \A n \in Msgs : n \notin S => Unmoved(n)
  PROVE  Delivered!All(S, st)
<1>1. \A n \in Msgs : n \notin S => Standing'[n] = Standing[n]
  BY UnmovedStands
<1>2. Standing' = [n \in Msgs |-> IF n \in S THEN st ELSE Standing[n]]
  BY <1>1, StandingThen
<1> QED BY <1>2 DEF Delivered!All

\* A message that is handed over, or in pi, is shown or waits.
LEMMA OnItsWay ==
  ASSUME IInv, NEW m \in Msgs, pc[m] \in {"handing", "accepted"}, m \notin placed
  PROVE  /\ m \notin unsent /\ (Standing[m] = IF Waits(m) THEN "waits" ELSE "shown")
<1>1. m \notin unsent
  BY DEF IInv, AccountOK
<1>2. ~Anew(m) /\ ~Refused(m) /\ pc[m] \notin {"gone", "idle", "prompting"}
  BY DEF Anew, Refused
<1> QED BY <1>1, <1>2, StandingIs

\* A message that is asked for is not in the chat yet.
LEMMA PromptStands == ASSUME IInv, NEW m \in Msgs, Prompt(m) PROVE UNCHANGED Delivered!vars
<1>1. /\ pc[m] = "idle" /\ pc'[m] = "prompting" /\ \A n \in Msgs : n # m => pc'[n] = pc[n]
      /\ UNCHANGED <<waiting, outcome, again, read, placed, unsent>>
  BY Apart DEF Prompt, Go, presses, account, IInv, Types, PcType
<1>2. /\ m \notin placed /\ m \notin unsent /\ ~Waits(m) /\ ~Sending(m)
  BY <1>1 DEF IInv, AccountOK, WaitOK, AgainOK, Waits, Sending
<1>3. \A n \in Msgs : n # m => Unmoved(n)
  BY <1>1 DEF Unmoved, Refused, Anew, Sending, Waits
<1>4. Standing[m] = "new"
  BY <1>1, <1>2, StandingIs DEF Anew, Refused
<1>5. Standing'[m] = "new"
  <2>1. pc'[m] = "prompting" /\ ~Anew(m)' /\ ~Refused(m)' /\ ~Waits(m)' /\ m \notin placed' /\ m \notin unsent'
    BY <1>1, <1>2 DEF Anew, Refused, Sending, Waits
  <2> QED BY <2>1, StandingThen
<1>6. \A n \in Msgs : Standing'[n] = Standing[n]
  BY <1>3, <1>4, <1>5, UnmovedStands
<1> QED BY <1>1, <1>6, StandingIs, StandingThen DEF Delivered!vars

\* It is recorded: Delivery sends it.
LEMMA SubmitStands == ASSUME IInv, NEW m \in Msgs, Submit(m) PROVE Delivered!Send(m)
<1> DEFINE q == tail # None \/ piRun
<1>1. /\ pc[m] = "prompting" /\ pc'[m] = "ahead" /\ \A n \in Msgs : n # m => pc'[n] = pc[n]
      /\ waiting' = (IF q THEN Append(waiting, m) ELSE waiting)
      /\ UNCHANGED <<outcome, again, read, placed, unsent>>
  BY Apart DEF Submit, Go, presses, account, IInv, Types, PcType
<1>2. m \notin placed /\ m \notin unsent /\ ~Waits(m)
  BY <1>1 DEF IInv, AccountOK, WaitOK, Waits
<1>3. \A n \in Msgs : n # m => (Waits(n)' <=> Waits(n))
  BY <1>1, AppendMsg DEF Waits, IInv, Types, ListTypes
<1>4. \A n \in Msgs : n # m => Unmoved(n)
  BY <1>1, <1>3 DEF Unmoved, Refused, Anew, Sending
<1>5. Standing[m] \in {"new", "again"}
  BY <1>1, <1>2, StandingIs DEF Anew, Refused
<1>6. Standing'[m] \in {"shown", "waits"}
  <2>1. pc'[m] = "ahead" /\ ~Anew(m)' /\ ~Refused(m)' /\ m \notin placed' /\ m \notin unsent'
    BY <1>1, <1>2 DEF Anew, Refused
  <2> QED BY <2>1, StandingThen
<1> QED BY <1>1, <1>4, <1>5, <1>6, OneMoves DEF Delivered!Send

\* On its way from one hand to the next it stands as it stood.
LEMMA HandStands == ASSUME IInv, NEW m \in Msgs, Hand(m) \/ NotSent(m) PROVE UNCHANGED Delivered!vars
<1>1. /\ pc[m] = "ahead" /\ pc'[m] \in {"handing", "done"} /\ \A n \in Msgs : n # m => pc'[n] = pc[n]
      /\ UNCHANGED <<waiting, outcome, again, read, placed, unsent>>
  BY Apart DEF Hand, NotSent, Go, presses, account, IInv, Types, PcType
<1>2. outcome[m] = "none"
  BY <1>1 DEF IInv, AccountOK
<1>3. \A n \in Msgs : Unmoved(n)
  BY <1>1, <1>2 DEF Unmoved, Refused, Anew, Sending, Waits
<1> QED BY <1>1, <1>3, AllStand

\* What client.prompt() came back with: Delivery refuses it, places it, or sees nothing.
LEMMA AcceptedStands == ASSUME Tidy, IInv, NEW m \in Msgs, Accepted(m) PROVE [Delivered!Next]_Delivered!vars
<1>1. /\ pc[m] = "accepted" /\ pc'[m] = "done" /\ \A n \in Msgs : n # m => pc'[n] = pc[n]
      /\ waiting' = WaitingAfter(m, outcome[m])
      /\ placed' = (IF outcome[m] = "handled" /\ Waits(m) THEN placed \cup {m} ELSE placed)
      /\ UNCHANGED <<outcome, again, read, unsent>>
  BY Apart DEF Accepted, Go, presses, IInv, Types, PcType
<1>2. waiting \in Seq(Msgs) /\ m \notin unsent /\ outcome[m] \in Outcomes
  BY <1>1 DEF IInv, AccountOK, Types, ListTypes, MapTypes
<1>3. CASE outcome[m] \in {"handled", "refused"}
  <2>1. waiting' = Without(waiting, {m})
    BY <1>1, <1>3 DEF WaitingAfter
  <2>2. Range(waiting') = Range(waiting) \ {m}
    BY <1>2, <2>1, WithoutIs
  <2>3. \A n \in Msgs : n # m => Unmoved(n)
    BY <1>1, <2>2 DEF Unmoved, Refused, Anew, Sending, Waits
  <2>4. ~Waits(m)' /\ ~Anew(m)' /\ pc'[m] = "done" /\ (Refused(m)' <=> outcome[m] = "refused") /\ m \notin unsent'
    BY <1>1, <1>2, <2>2 DEF Waits, Anew, Refused
  <2>5. CASE outcome[m] = "refused"
    <3>1. m \notin read /\ m \notin placed /\ m \notin placed'
      BY <1>1, <2>5 DEF IInv, AccountOK
    <3>2. Standing[m] \in {"waits", "shown"}
      BY <1>1, <3>1, OnItsWay
    <3>3. Standing'[m] = "refused"
      BY <2>4, <2>5, <3>1, StandingThen
    <3>4. Delivered!Stands(m, "refused")
      BY <2>3, <3>3, OneMoves
    <3> QED BY <1>1, <3>1, <3>2, <3>4 DEF Delivered!Refuse, Delivered!Next
  <2>6. CASE outcome[m] = "handled" /\ Waits(m)
    <3>1. m \in read /\ m \notin placed /\ m \in placed'
      BY <1>1, <2>6 DEF IInv, AccountOK, WaitOK, Waits
    <3>2. Standing[m] = "waits"
      BY <1>1, <2>6, <3>1, OnItsWay
    <3>3. Standing'[m] = "placed"
      BY <2>4, <2>6, <3>1, StandingThen
    <3>4. Delivered!All({m}, "placed")
      BY <2>3, <3>3, SomeMove
    <3>5. {m} # {} /\ {m} \subseteq Delivered!Waiting \cap read /\ {m} \in SUBSET Msgs
      BY <3>1, <3>2 DEF Delivered!Waiting
    <3> QED BY <1>1, <3>4, <3>5 DEF Delivered!Place, Delivered!Next
  <2>7. CASE outcome[m] = "handled" /\ ~Waits(m)
    <3>1. Unmoved(m)
      BY <1>1, <2>4, <2>7 DEF Unmoved, Refused, Anew
    <3> QED BY <1>1, <2>3, <3>1, AllStand
  <2> QED BY <1>3, <2>5, <2>6, <2>7
<1>4. CASE outcome[m] \notin {"handled", "refused"}
  <2>1. outcome[m] = "queued" => m \in queued
    BY <1>1 DEF IInv, WaitOK
  <2>2. waiting' = waiting /\ placed' = placed
    BY <1>1, <1>4, <2>1 DEF WaitingAfter
  <2>3. \A n \in Msgs : Unmoved(n)
    BY <1>1, <1>4, <2>2 DEF Unmoved, Refused, Anew, Sending, Waits
  <2> QED BY <1>1, <2>3, AllStand
<1> QED BY <1>3, <1>4

\* A message in pi's queue stands as it stood.
LEMMA PiQueuesStands == ASSUME IInv, NEW m \in Msgs, PiQueues(m) PROVE UNCHANGED Delivered!vars
<1>1. /\ pc[m] = "handing" /\ pc'[m] = "accepted" /\ (\A n \in Msgs : n # m => pc'[n] = pc[n] /\ outcome'[n] = outcome[n])
      /\ UNCHANGED <<waiting, again, read, placed, unsent>>
  BY Apart DEF PiQueues, Go, presses, account, manager, IInv, Types, PcType, MapTypes
<1>2. \A n \in Msgs : Unmoved(n)
  BY <1>1 DEF Unmoved, Refused, Anew, Sending, Waits
<1> QED BY <1>1, <1>2, AllStand

\* pi reads a message that is shown or waits, for the first time.
LEMMA ReadOnce ==
  ASSUME NEW m \in Msgs, Standing[m] \in {"shown", "waits"}, m \notin read, read' = read \cup {m}, \A n \in Msgs : Unmoved(n)
  PROVE  Delivered!Next
<1>1. \A n \in Msgs : Standing'[n] = Standing[n]
  BY UnmovedStands
<1>2. Standing' = Standing
  BY <1>1, StandingIs, StandingThen
<1> QED BY <1>2 DEF Delivered!Next, Delivered!Read

\* A message that starts a run, or that an extension takes, is read.
LEMMA PiAnswersStands ==
  ASSUME IInv, NEW m \in Msgs, PiStarts(m) \/ PiDeclines(m) PROVE [Delivered!Next]_Delivered!vars
<1>1. /\ pc[m] = "handing" /\ pc'[m] = "accepted" /\ (\A n \in Msgs : n # m => pc'[n] = pc[n] /\ outcome'[n] = outcome[n])
      /\ read' = read \cup {m} \/ read' = read
      /\ UNCHANGED <<waiting, again, placed, unsent>>
  BY Apart DEF PiStarts, PiDeclines, Go, presses, account, manager, IInv, Types, PcType, MapTypes
<1>2. \A n \in Msgs : Unmoved(n)
  BY <1>1 DEF Unmoved, Refused, Anew, Sending, Waits
<1>3. m \notin read /\ m \notin placed
  BY <1>1 DEF IInv, AccountOK
<1>4. Standing[m] \in {"shown", "waits"}
  BY <1>1, <1>3, OnItsWay
<1> QED BY <1>1, <1>2, <1>3, <1>4, AllStand, ReadOnce

\* A message from the queue is read.
LEMMA PiReadsStands == ASSUME IInv, PiReads PROVE Delivered!Next
<1>1. PICK l \in Lanes : queue[l] # <<>> /\ read' = read \cup {Head(queue[l])}
  BY DEF PiReads
<1>2. UNCHANGED <<waiting, pc, outcome, again, placed, unsent>>
  BY DEF PiReads, manager, reqs, presses
<1>3. queue[l] \in Seq(Msgs)
  BY DEF IInv, Types, ListTypes, Queues
<1> DEFINE m == Head(queue[l])
<1>4. m \in Msgs /\ m \in Range(queue[l])
  BY <1>1, <1>3, TailIn
<1>5. InQueue(m)
  BY <1>4 DEF IInv, QueueOK
<1>6. m \notin read /\ m \notin placed /\ m \notin unsent /\ Waits(m) /\ pc[m] \in {"accepted", "done"} /\ outcome[m] = "queued"
  BY <1>5 DEF InQueue, IInv, WaitOK, Waits
<1>7. read' = read \cup {m}
  BY <1>1
<1> HIDE DEF m
<1>8. Standing[m] = "waits"
  BY <1>4, <1>6, StandingIs DEF Anew, Refused
<1>9. \A n \in Msgs : Unmoved(n)
  BY <1>2 DEF Unmoved, Refused, Anew, Sending, Waits
<1> QED BY <1>4, <1>6, <1>7, <1>8, <1>9, ReadOnce

\* Nothing happens to the messages.
LEMMA NoneMoved ==
  ASSUME \A n \in Msgs : pc'[n] = pc[n], UNCHANGED <<waiting, outcome, again, read, placed, unsent>>
  PROVE  UNCHANGED Delivered!vars
<1>1. \A n \in Msgs : Unmoved(n)
  BY DEF Unmoved, Refused, Anew, Sending, Waits
<1> QED BY <1>1, AllStand

\* Of what waits, what pi has read is placed.
LEMMA PlaceStands ==
  ASSUME IInv, NEW S, S \cap Range(waiting) \subseteq Passed, Place(S), \A n \in Msgs : pc'[n] = pc[n],
         UNCHANGED <<outcome, again, read, unsent>>
  PROVE  [Delivered!Next]_Delivered!vars
<1>1. PICK T : T = S \cap Range(waiting)
  OBVIOUS
<1>2. T \in SUBSET Msgs /\ T \subseteq Passed
  BY <1>1, WaitsInMsgs DEF IInv
<1>3. Range(waiting') = Range(waiting) \ T /\ placed' = placed \cup T
  BY <1>1, WithoutIs DEF Place, IInv, Types, ListTypes
<1>4. \A n \in Msgs : n \notin T => Unmoved(n)
  BY <1>3 DEF Unmoved, Refused, Anew, Sending, Waits
<1>5. ASSUME NEW n \in T PROVE Standing[n] = "waits" /\ Standing'[n] = "placed" /\ n \in read
  <2>1. n \in Msgs /\ Waits(n) /\ n \notin placed /\ n \notin unsent /\ n \in read /\ n \in placed'
    BY <1>1, <1>2, <1>3 DEF IInv, WaitOK, Waits, Passed
  <2>2. pc[n] \in {"accepted", "done"} /\ outcome[n] # "refused"
    BY <2>1 DEF IInv, AccountOK
  <2>3. Standing[n] = "waits"
    BY <2>1, <2>2, StandingIs DEF Anew, Refused
  <2>4. ~Anew(n)' /\ pc'[n] \in {"accepted", "done"} /\ ~Refused(n)' /\ n \notin unsent' /\ ~Waits(n)'
    BY <1>3, <1>5, <2>1, <2>2 DEF Anew, Refused, Waits
  <2> QED BY <2>1, <2>3, <2>4, StandingThen
<1>6. Delivered!All(T, "placed")
  BY <1>2, <1>4, <1>5, SomeMove
<1>7. CASE T = {}
  <2>1. \A n \in Msgs : Unmoved(n)
    BY <1>4, <1>7
  <2> QED BY <2>1, AllStand
<1>8. CASE T # {}
  <2>1. T \subseteq Delivered!Waiting \cap read
    BY <1>2, <1>5 DEF Delivered!Waiting
  <2> QED BY <1>2, <1>6, <1>8, <2>1 DEF Delivered!Place, Delivered!Next
<1> QED BY <1>7, <1>8

\* What is heard places what pi has read, or nothing.
LEMMA HearStands == ASSUME Tidy, IInv, HearStep PROVE [Delivered!Next]_Delivered!vars
<1>1. CASE HearStart \/ HearQueue
  <2>1. \A n \in Msgs : pc'[n] = pc[n]
    BY <1>1 DEF HearStart, HearQueue, reqs
  <2>2. UNCHANGED <<waiting, outcome, again, read, placed, unsent>>
    BY <1>1 DEF HearStart, HearQueue, reqs, presses, account
  <2> QED BY <2>1, <2>2, NoneMoved
<1>2. CASE HearRead
  <2>1. PICK S : Place(S) /\ S \cap Range(waiting) \subseteq Passed
    BY <1>2, ReadIsPlaced
  <2>2. UNCHANGED <<pc, outcome, again, read, unsent>>
    BY <1>2 DEF HearRead, reqs, presses
  <2> QED BY <2>1, <2>2, PlaceStands
<1>3. CASE HearSettled
  <2>1. Place(Settled) /\ UNCHANGED <<outcome, again, read, unsent>> /\ events # <<>> /\ events[1].kind = "settled"
    BY <1>3 DEF HearSettled, Hear, presses
  <2>2. Settled \cap Range(waiting) \subseteq Passed
    BY <2>1, SettledIsRead DEF Tidy
  <2>3. \A n \in Msgs : pc'[n] = pc[n]
    BY <1>3, Apart DEF HearSettled
  <2> QED BY <2>1, <2>2, <2>3, PlaceStands
<1> QED BY <1>1, <1>2, <1>3 DEF HearStep

\* What waited when the Stop was pressed is marked as not sent.
LEMMA StopDropsStands == ASSUME IInv, NEW s \in Stops, StopDrops(s) PROVE [Delivered!Next]_Delivered!vars
<1>1. PICK T : T = sentBefore[s] \cap Range(waiting)
  OBVIOUS
<1>2. T \in SUBSET Msgs
  BY <1>1, WaitsInMsgs DEF IInv
<1>3. /\ unsent' = unsent \cup T /\ (\A n \in Msgs : pc'[n] = pc[n])
      /\ UNCHANGED <<outcome, again, read, placed>>
  BY <1>1, Apart DEF StopDrops, Go, presses
<1>4. Range(waiting') = Range(waiting) \ T
  BY <1>1, WithoutIs DEF StopDrops, IInv, Types, ListTypes
<1>5. \A n \in Msgs : n \notin T => Unmoved(n)
  BY <1>3, <1>4 DEF Unmoved, Refused, Anew, Sending, Waits
<1>6. ASSUME NEW n \in T PROVE Standing[n] = "waits" /\ Standing'[n] = "unsent"
  <2>1. n \in Msgs /\ Waits(n) /\ n \notin placed /\ n \notin unsent /\ n \in unsent'
    BY <1>1, <1>2, <1>3 DEF IInv, WaitOK, Waits
  <2>2. pc[n] \in {"ahead", "handing", "accepted", "done"} /\ ~Refused(n)
    <3>1. pc[n] \in {"ahead", "handing", "accepted", "done"} /\ (pc[n] = "done" => n \in inPi)
      BY <2>1 DEF IInv, WaitOK, Waits
    <3>2. n \in inPi => outcome[n] # "refused"
      BY DEF IInv, PiOK
    <3> QED BY <3>1, <3>2 DEF Refused
  <2>3. Standing[n] = "waits"
    BY <2>1, <2>2, StandingIs DEF Anew
  <2>4. ~Anew(n)' /\ pc'[n] \in {"ahead", "handing", "accepted", "done"} /\ ~Refused(n)' /\ n \notin placed' /\ ~Waits(n)'
    BY <1>3, <1>4, <1>6, <2>1, <2>2 DEF Anew, Refused, Waits
  <2> QED BY <2>1, <2>3, <2>4, StandingThen
<1>7. Delivered!All(T, "unsent")
  BY <1>2, <1>5, <1>6, SomeMove
<1>8. CASE T = {}
  <2>1. \A n \in Msgs : Unmoved(n)
    BY <1>5, <1>8
  <2> QED BY <1>3, <2>1, AllStand
<1>9. CASE T # {}
  <2>1. T \subseteq Delivered!Waiting
    BY <1>2, <1>6 DEF Delivered!Waiting
  <2> QED BY <1>2, <1>3, <1>7, <1>9, <2>1 DEF Delivered!Drop, Delivered!Next
<1> QED BY <1>8, <1>9

\* The rest of a Stop, and of a press that takes nothing back, is no message's.
LEMMA StopStands ==
  ASSUME IInv, NEW s \in Stops, StopBegins(s) \/ StopAborts(s) \/ StopEnds(s) \/ TakeBegins(s) \/ TakeRefused(s)
  PROVE  UNCHANGED Delivered!vars
<1>1. \A n \in Msgs : pc'[n] = pc[n]
  <2>1. \E p : pc' = [pc EXCEPT ![s] = p]
    BY DEF StopBegins, StopAborts, StopEnds, TakeBegins, TakeRefused, Go
  <2> QED BY <2>1, Apart DEF IInv, Types, PcType
<1>2. UNCHANGED <<waiting, outcome, again, read, placed, unsent>>
  BY DEF StopBegins, StopAborts, StopEnds, TakeBegins, TakeRefused, presses, account, manager
<1> QED BY <1>1, <1>2, NoneMoved

\* What pi had not read is taken out of the chat, all to be sent again but the one
\* that is not wanted any more.
LEMMA TakesBackStands == ASSUME Tidy, IInv, NEW s \in Stops, TakesBack(s) PROVE Delivered!Next
<1>0. PICK P : P = Range(waiting) \cap inPi
  OBVIOUS
<1>1. P \subseteq Msgs /\ chosen[s] \in P /\ \A m \in P : m \notin read /\ pc[m] = "done"
  BY <1>0, TakesBackIs
<1>2. PICK list \in Seq(Msgs), phase \in {"again", "drop"} :
        /\ Range(list) \subseteq P /\ P \ Range(list) \subseteq {chosen[s]}
        /\ again' = [again EXCEPT ![s] = list]
        /\ pc' = [k \in Links |-> CASE k = s -> phase
                                    [] k \in Range(list) -> "again"
                                    [] k \in P \ Range(list) -> "gone"
                                    [] OTHER -> pc[k]]
  <2>1. \E list \in Seq(Msgs), phase \in {"again", "drop"} :
          /\ Range(list) \subseteq P /\ P \ Range(list) \subseteq {chosen[s]}
          /\ again' = [again EXCEPT ![s] = list]
          /\ pc' = [k \in Links |-> CASE k = s -> phase
                                      [] k \in Range(list) -> "again"
                                      [] k \in P \ Range(list) -> "gone"
                                      [] OTHER -> pc[k]]
    BY <1>0, TakesBackIs
  <2> QED BY <2>1
<1>3. /\ s \in Links /\ pc[s] = "handed"
      /\ waiting' = Without(waiting, P)
      /\ outcome' = [m \in Msgs |-> IF m \in P THEN "none" ELSE outcome[m]]
      /\ UNCHANGED <<read, placed, unsent>>
  BY <1>0, Apart DEF TakesBack, TakeFinds, account
<1>4. /\ \A m \in P : pc'[m] = IF m \in Range(list) THEN "again" ELSE "gone"
      /\ \A m \in Msgs : m \notin P => pc'[m] = pc[m]
  BY <1>1, <1>2, <1>3, Apart
<1>5. Range(waiting') = Range(waiting) \ P
  BY <1>3, WithoutIs DEF IInv, Types, ListTypes
<1>6. again[s] = <<>> /\ again'[s] = list /\ \A t \in Stops : t # s => again'[t] = again[t]
  BY <1>2, <1>3 DEF IInv, AgainOK, Types, MapTypes
<1>7. \A n \in Msgs : n \notin P => (Sending(n)' <=> Sending(n))
  BY <1>2, <1>6, NoneIn DEF Sending
<1>8. \A n \in Msgs : n \notin P => Unmoved(n)
  BY <1>3, <1>4, <1>5, <1>7 DEF Unmoved, Refused, Anew, Waits
<1>9. ASSUME NEW n \in P PROVE Standing[n] = "waits" /\ Standing'[n] = IF n \in Range(list) THEN "again" ELSE "gone"
  <2>1. n \in Msgs /\ Waits(n) /\ n \notin placed /\ n \notin unsent /\ pc[n] = "done" /\ outcome[n] # "refused"
    BY <1>0, <1>1 DEF IInv, WaitOK, PiOK, Waits
  <2>2. Standing[n] = "waits"
    BY <2>1, StandingIs DEF Anew, Refused
  <2>3. n \notin placed' /\ n \notin unsent' /\ ~Waits(n)' /\ ~Refused(n)'
    BY <1>3, <1>4, <1>5, <1>9, <2>1 DEF Waits, Refused
  <2>4. CASE n \in Range(list)
    BY <1>4, <2>1, <2>2, <2>3, <2>4, StandingThen DEF Anew
  <2>5. CASE n \notin Range(list)
    BY <1>4, <2>1, <2>2, <2>3, <2>5, StandingThen DEF Anew
  <2> QED BY <2>4, <2>5
<1>10. \A n \in Msgs : n \notin P => Standing'[n] = Standing[n]
  BY <1>8, UnmovedStands
<1>11. PICK m \in P : m = chosen[s]
  BY <1>1
<1>12. PICK st \in {"gone", "again"} : st = IF m \in Range(list) THEN "again" ELSE "gone"
  OBVIOUS
<1>13. \A n \in Msgs : Standing'[n] = IF n = m THEN st ELSE IF n \in P THEN "again" ELSE Standing[n]
  BY <1>2, <1>9, <1>10, <1>11, <1>12
<1>14. Standing' = [n \in Msgs |-> IF n = m THEN st ELSE IF n \in P THEN "again" ELSE Standing[n]]
  BY <1>13, StandingThen
<1>15. P \in SUBSET Msgs /\ P \subseteq Delivered!Waiting \ read
  BY <1>1, <1>9 DEF Delivered!Waiting
<1>16. Delivered!TakeBack(P, m)
  BY <1>3, <1>11, <1>14, <1>15 DEF Delivered!TakeBack
<1> QED BY <1>11, <1>15, <1>16 DEF Delivered!Next

\* What is to be sent again is so until it is sent.
LEMMA AgainStands ==
  ASSUME IInv, NEW s \in Stops, SendsAgain(s) \/ SentAgain(s) \/ TakeEnds(s)
  PROVE  UNCHANGED Delivered!vars
<1>1. UNCHANGED <<waiting, outcome, read, placed, unsent>>
  BY DEF SendsAgain, SentAgain, TakeEnds, manager, account
<1>2. again[s] \in Seq(Msgs)
  BY DEF IInv, Types, MapTypes
<1>3. CASE SendsAgain(s)
  <2>0. PICK m : m = Head(again[s])
    OBVIOUS
  <2>1. again[s] # <<>> /\ pc[m] = "again" /\ pc' = [pc EXCEPT ![m] = "prompting"] /\ again' = again
    BY <1>3, <2>0 DEF SendsAgain, Go, presses
  <2>2. m \in Msgs /\ m \in Range(again[s])
    BY <1>2, <2>0, <2>1, TailIn
  <2>3. pc'[m] = "prompting" /\ \A n \in Msgs : n # m => pc'[n] = pc[n]
    BY <2>1, <2>2, Apart DEF IInv, Types, PcType
  <2>4. Sending(m)'
    BY <2>1, <2>2 DEF Sending
  <2>5. \A n \in Msgs : n # m => Unmoved(n)
    BY <1>1, <2>1, <2>3 DEF Unmoved, Refused, Anew, Sending, Waits
  <2>6. m \notin placed /\ m \notin unsent /\ ~Waits(m)
    BY <2>1, <2>2 DEF IInv, AccountOK, WaitOK, Waits
  <2>7. Standing[m] = "again"
    BY <2>1, <2>2, <2>6, StandingIs DEF Anew, Refused
  <2>8. Anew(m)' /\ ~Refused(m)' /\ m \notin placed' /\ m \notin unsent' /\ ~Waits(m)' /\ pc'[m] = "prompting"
    BY <1>1, <2>3, <2>4, <2>6 DEF Anew, Refused, Waits
  <2>9. Standing'[m] = "again"
    BY <2>2, <2>8, StandingThen
  <2>10. \A n \in Msgs : Standing'[n] = Standing[n]
    BY <2>5, <2>7, <2>9, UnmovedStands
  <2> QED BY <1>1, <2>10, StandingIs, StandingThen DEF Delivered!vars
<1>4. CASE SentAgain(s) \/ TakeEnds(s)
  <2>1. \A n \in Msgs : pc'[n] = pc[n]
    <3>1. CASE SentAgain(s)
      BY <3>1 DEF SentAgain
    <3>2. CASE TakeEnds(s)
      BY <3>2, Apart DEF TakeEnds, Go, IInv, Types, PcType
    <3> QED BY <1>4, <3>1, <3>2
  <2>2. \A t \in Stops : t # s => again'[t] = again[t]
    <3>1. \E list : again' = [again EXCEPT ![s] = list]
      BY <1>4 DEF SentAgain, TakeEnds
    <3> QED BY <3>1 DEF IInv, Types, MapTypes
  <2>3. Range(again'[s]) \subseteq Range(again[s]) /\ again' \in [Stops -> Seq(Msgs)]
    <3>1. CASE SentAgain(s)
      <4>1. again[s] # <<>> /\ again' = [again EXCEPT ![s] = Tail(again[s])]
        BY <3>1 DEF SentAgain
      <4> QED BY <1>2, <4>1, TailIn DEF IInv, Types, MapTypes
    <3>2. CASE TakeEnds(s)
      <4>1. again' = [again EXCEPT ![s] = <<>>] /\ <<>> \in Seq(Msgs)
        BY <3>2 DEF TakeEnds
      <4> QED BY <4>1, NoneIn DEF IInv, Types, MapTypes
    <3> QED BY <1>4, <3>1, <3>2
  <2>4. \A n \in Msgs : Sending(n)' => Sending(n)
    BY <2>2, <2>3 DEF Sending
  <2>5. again[s] # <<>> => pc[Head(again[s])] = "done"
    BY <1>4 DEF SentAgain, TakeEnds
  <2>6. ASSUME NEW n \in Msgs, pc[n] = "prompting", Sending(n) PROVE Sending(n)'
    <3>1. PICK t \in Stops : again[t] # <<>> /\ n = Head(again[t])
      BY <2>6 DEF IInv, AgainOK, Sending
    <3>2. t # s
      BY <2>5, <2>6, <3>1
    <3>3. again[t] \in Seq(Msgs)
      BY DEF IInv, Types, MapTypes
    <3>4. n \in Range(again[t])
      BY <3>1, <3>3, TailIn
    <3> QED BY <2>2, <3>2, <3>4 DEF Sending
  <2>7. \A n \in Msgs : Anew(n)' <=> Anew(n)
    BY <2>1, <2>4, <2>6 DEF Anew
  <2>8. \A n \in Msgs : Unmoved(n)
    BY <1>1, <2>1, <2>7 DEF Unmoved, Refused, Waits
  <2> QED BY <1>1, <2>8, AllStand
<1> QED BY <1>3, <1>4

\* No message is in the chat at first.
LEMMA InitStands == ASSUME Init PROVE Delivered!Init
<1>1. \A m \in Msgs : pc[m] = "idle" /\ ~Anew(m) /\ ~Refused(m) /\ m \notin placed /\ m \notin unsent /\ ~Waits(m)
  BY NoneIn, Apart DEF Init, Anew, Refused, Waits
<1>2. \A m \in Msgs : Standing[m] = "new"
  BY <1>1, StandingIs
<1>3. Standing = [m \in Msgs |-> "new"]
  BY <1>2, StandingIs
<1> QED BY <1>3 DEF Init, Delivered!Init

\* Every step of the queue is one of Delivery's, or none.
LEMMA DeliveredStep == ASSUME Tidy, IInv, [Next]_vars PROVE [Delivered!Next]_Delivered!vars
<1>1. CASE \E m \in Msgs : Prompt(m) \/ MessageStep(m) \/ PreflightEnds(m)
  <2>1. PICK m \in Msgs : Prompt(m) \/ MessageStep(m) \/ PreflightEnds(m)
    BY <1>1
  <2>2. CASE Prompt(m)
    BY <2>2, PromptStands
  <2>3. CASE MessageStep(m)
    <3>1. CASE Submit(m)
      <4>1. Delivered!Send(m)
        BY <3>1, SubmitStands
      <4> QED BY <4>1 DEF Delivered!Next
    <3>2. CASE Hand(m) \/ NotSent(m)
      BY <3>2, HandStands
    <3>3. CASE Accepted(m)
      BY <3>3, AcceptedStands
    <3> QED BY <2>3, <3>1, <3>2, <3>3 DEF MessageStep
  <2>4. CASE PreflightEnds(m)
    BY <2>4, PiQueuesStands, PiAnswersStands DEF PreflightEnds
  <2> QED BY <2>1, <2>2, <2>3, <2>4
<1>2. CASE PiWakes \/ PiReads \/ PiSettles
  <2>1. CASE PiSettles
    <3>1. UNCHANGED <<pc, waiting, outcome, again, read, placed, unsent>>
      BY <2>1 DEF PiSettles, manager, reqs, presses, account
    <3> QED BY <3>1, NoneMoved
  <2> QED BY <1>2, <2>1, PiWakesNever, PiReadsStands
<1>3. CASE HearStep
  BY <1>3, HearStands
<1>4. CASE \E s \in Stops : StopBegins(s) \/ StopStep(s) \/ TakeBegins(s) \/ TakeStep(s)
  <2>1. PICK s \in Stops : StopBegins(s) \/ StopStep(s) \/ TakeBegins(s) \/ TakeStep(s)
    BY <1>4
  <2>2. CASE StopDrops(s)
    BY <2>2, StopDropsStands
  <2>3. CASE StopBegins(s) \/ StopAborts(s) \/ StopEnds(s) \/ TakeBegins(s) \/ TakeRefused(s)
    BY <2>3, StopStands
  <2>4. CASE TakesBack(s)
    BY <2>4, TakesBackStands
  <2>5. CASE SendsAgain(s) \/ SentAgain(s) \/ TakeEnds(s)
    BY <2>5, AgainStands
  <2> QED BY <2>1, <2>2, <2>3, <2>4, <2>5 DEF StopStep, TakeStep
<1>5. CASE UNCHANGED vars
  <2>1. UNCHANGED <<pc, waiting, outcome, again, read, placed, unsent>>
    BY <1>5 DEF vars, manager, reqs, presses, account
  <2> QED BY <2>1, NoneMoved
<1> QED BY <1>1, <1>2, <1>3, <1>4, <1>5 DEF Next

\* The account of the messages on the page is Delivery's (submit(), takeIn,
\* settleWaiting, dropWaiting, placeTaken, takeBackWaiting and unfresh together).
THEOREM StandsAsPromised == Tidy => (Spec => Delivers)
<1> SUFFICES ASSUME Tidy PROVE Spec => Delivers
  OBVIOUS
<1>1. Init => Delivered!Init
  BY InitStands
<1>2. IInv /\ [Next]_vars => [Delivered!Next]_Delivered!vars
  BY DeliveredStep
<1>3. Delivers <=> Delivered!Init /\ [][Delivered!Next]_Delivered!vars
  BY DEF Delivers, Delivered!Spec
<1> QED BY <1>1, <1>2, <1>3, Invariance, PTL DEF Spec
-----------------------------------------------------------------------------
(* What waits at rest is what pi holds. *)

\* The end of a run is what is heard next.
EndNext == events # <<>> /\ events[1].kind = "settled"

\* What pi has read and still waits is placed as its hand-over ends, or as the run is
\* over: its reading may have been told in words that were not known yet.
ReadOK ==
  \A m \in Range(waiting) \cap read : (pc[m] = "accepted" /\ outcome[m] = "handled") \/ piRun \/ EndNext

\* What pi had in its queue as its run ended it has not read since.
HadOK == EndNext => \A l \in Lanes : \A m \in Range(piQueue[l]) : m \notin read /\ pc[m] \notin {"ahead", "handing"}

\* Nothing that is said behind the rest is the end of a run.
LEMMA SaidBehind ==
  ASSUME Types, NEW said \in Seq(Events), said # <<>>, said[1].kind # "settled", events' = events \o said
  PROVE  EndNext' <=> EndNext
<1>1. events \in Seq(Events)
  BY DEF Types, PlainTypes
<1>2. CASE events = <<>>
  BY <1>1, <1>2, ConcatEmptySeq DEF EndNext
<1>3. CASE events # <<>>
  <2>1. Len(events) \in Nat /\ Len(events) # 0 /\ Len(said) \in Nat
    BY <1>1, <1>3, EmptySeq
  <2>2. events' \in Seq(Events) /\ Len(events') = Len(events) + Len(said) /\ events'[1] = events[1]
    BY <1>1, <2>1, ConcatProperties
  <2>3. events' # <<>>
    BY <2>1, <2>2
  <2> QED BY <1>3, <2>2, <2>3 DEF EndNext
<1> QED BY <1>2, <1>3

\* Nothing is read, and nothing more waits that was.
LEMMA NothingRead ==
  ASSUME IInv, ReadOK, HadOK, UNCHANGED <<piRun, piQueue, read>>, EndNext' <=> EndNext,
         \A m \in Range(waiting') \cap read :
           /\ m \in Range(waiting)
           /\ pc[m] = "accepted" /\ outcome[m] = "handled" => pc'[m] = "accepted" /\ outcome'[m] = "handled",
         ~EndNext \/ \A m \in Msgs : pc'[m] \in {"ahead", "handing"} => pc[m] \in {"ahead", "handing"}
  PROVE  ReadOK' /\ HadOK'
<1>1. ReadOK'
  BY DEF ReadOK
<1>2. HadOK'
  BY WaitsInMsgs DEF HadOK, IInv
<1> QED BY <1>1, <1>2

\* Where pi says nothing either.
LEMMA Quiet ==
  ASSUME IInv, ReadOK, HadOK, UNCHANGED <<piRun, piQueue, read, events, outcome>>,
         \A m \in Range(waiting') \cap read : m \in Range(waiting),
         \A m \in Msgs : pc[m] = "accepted" => pc'[m] = "accepted",
         events = <<>> \/ \A m \in Msgs : pc'[m] \in {"ahead", "handing"} => pc[m] \in {"ahead", "handing"}
  PROVE  ReadOK' /\ HadOK'
<1>1. EndNext' <=> EndNext
  BY DEF EndNext
<1>2. events = <<>> => ~EndNext
  BY DEF EndNext
<1>3. read \subseteq Msgs
  BY DEF IInv, Types, SetTypes
<1> QED BY <1>1, <1>2, <1>3, NothingRead

\* A message before it is accepted.
LEMMA OnTheWayQuiet ==
  ASSUME IInv, ReadOK, HadOK, NEW m \in Msgs, Prompt(m) \/ Submit(m) \/ Hand(m) \/ NotSent(m)
  PROVE  ReadOK' /\ HadOK'
<1>1. /\ events = <<>> /\ UNCHANGED <<piRun, piQueue, read, events, outcome>>
      /\ waiting' = waiting \/ (Submit(m) /\ waiting' = Append(waiting, m))
  BY DEF Prompt, Submit, Hand, NotSent, NextTurn, piVars, account
<1>2. pc[m] \in {"idle", "prompting", "ahead"} /\ \A n \in Msgs : n # m => pc'[n] = pc[n]
  BY Apart DEF Prompt, Submit, Hand, NotSent, Go, IInv, Types, PcType
<1>3. m \notin read
  BY <1>2 DEF IInv, AccountOK
<1>4. \A n \in Range(waiting') \cap read : n \in Range(waiting)
  <2>1. Range(waiting') \subseteq Range(waiting) \cup {m}
    BY <1>1, AppendMsg DEF IInv, Types, ListTypes
  <2> QED BY <1>3, <2>1
<1>5. \A n \in Msgs : pc[n] = "accepted" => pc'[n] = "accepted"
  BY <1>2
<1> QED BY <1>1, <1>4, <1>5, Quiet

\* A message is placed, or refused, as client.prompt() comes back.
LEMMA AcceptedRead ==
  ASSUME IInv, ReadOK, HadOK, NEW m \in Msgs, Accepted(m) PROVE ReadOK' /\ HadOK'
<1>1. /\ pc[m] = "accepted" /\ pc'[m] = "done" /\ \A n \in Msgs : n # m => pc'[n] = pc[n]
      /\ waiting' = WaitingAfter(m, outcome[m])
      /\ UNCHANGED <<piRun, piQueue, read, events, outcome>>
  BY Apart DEF Accepted, Go, piVars, IInv, Types, PcType
<1>2. outcome[m] = "queued" => m \in queued
  BY <1>1 DEF IInv, WaitOK
<1>3. Range(waiting') = IF outcome[m] \in {"handled", "refused"} THEN Range(waiting) \ {m} ELSE Range(waiting)
  <2>1. CASE outcome[m] \in {"handled", "refused"}
    <3>1. waiting' = Without(waiting, {m})
      BY <1>1, <2>1 DEF WaitingAfter
    <3>2. waiting \in Seq(Msgs)
      BY DEF IInv, Types, ListTypes
    <3> QED BY <2>1, <3>1, <3>2, WithoutIs
  <2>2. CASE outcome[m] \notin {"handled", "refused"}
    <3>1. waiting' = waiting
      BY <1>1, <1>2, <2>2 DEF WaitingAfter
    <3> QED BY <2>2, <3>1
  <2> QED BY <2>1, <2>2
<1>4. EndNext' <=> EndNext
  BY <1>1 DEF EndNext
<1>5. \A n \in Range(waiting') \cap read :
        /\ n \in Range(waiting)
        /\ pc[n] = "accepted" /\ outcome[n] = "handled" => pc'[n] = "accepted" /\ outcome'[n] = "handled"
  BY <1>1, <1>3 DEF IInv, Types, SetTypes
<1>6. \A n \in Msgs : pc'[n] \in {"ahead", "handing"} => pc[n] \in {"ahead", "handing"}
  BY <1>1
<1> QED BY <1>1, <1>4, <1>5, <1>6, NothingRead

\* pi answers, and its run goes on, or has begun.
LEMMA AnsweredRead ==
  ASSUME IInv, ReadOK, HadOK, NEW m \in Msgs, PiQueues(m) \/ PiStarts(m) PROVE ReadOK' /\ HadOK'
<1>1. /\ pc[m] = "handing" /\ pc'[m] = "accepted" /\ (\A n \in Msgs : n # m => pc'[n] = pc[n]) /\ piRun' /\ piQueue' = piQueue
      /\ read' \subseteq read \cup {m}
  BY Apart DEF PiQueues, PiStarts, Go, manager, account, IInv, Types, PcType
<1>2. ReadOK'
  BY <1>1 DEF ReadOK
<1>3. EndNext' <=> EndNext
  <2>1. Empty \in Queues
    BY DEF Empty, Queues
  <2>2. CASE PiQueues(m)
    <3> DEFINE e == Event("queue", None, queue')
    <3>1. queue' \in Queues
      BY <2>2 DEF PiQueues, IInv, Types, ListTypes, MapTypes, Queues
    <3>2. e \in Events /\ e.kind = "queue" /\ events' = events \o <<e>>
      BY <2>2, <3>1 DEF PiQueues, Say, Event, Events
    <3> HIDE DEF e
    <3>3. <<e>> \in Seq(Events) /\ <<e>> # <<>> /\ <<e>>[1].kind # "settled"
      BY <3>2
    <3> QED BY <3>2, <3>3, SaidBehind DEF IInv
  <2>3. CASE PiStarts(m)
    <3> DEFINE e == Event("start", None, Empty)
               d == Event("read", m, Empty)
    <3>2. e \in Events /\ e.kind = "start" /\ d \in Events /\ events' = events \o <<e, d>>
      BY <2>1, <2>3 DEF PiStarts, Say, Event, Events
    <3> HIDE DEF e, d
    <3>3. <<e, d>> \in Seq(Events) /\ <<e, d>> # <<>> /\ <<e, d>>[1].kind # "settled"
      BY <3>2
    <3> QED BY <3>2, <3>3, SaidBehind DEF IInv
  <2> QED BY <2>2, <2>3
<1>4. HadOK'
  <2>1. ASSUME EndNext, NEW l \in Lanes, NEW n \in Range(piQueue[l]) PROVE n \in Msgs /\ n \notin read /\ n # m /\ pc[n] \notin {"ahead", "handing"}
    BY <1>1, <2>1, WaitsInMsgs DEF HadOK, IInv
  <2> QED BY <1>1, <1>3, <2>1 DEF HadOK
<1> QED BY <1>2, <1>4

\* An extension takes a message, or its preflight fails.
LEMMA DeclinedRead ==
  ASSUME IInv, ReadOK, HadOK, NEW m \in Msgs, PiDeclines(m) PROVE ReadOK' /\ HadOK'
<1>1. PICK o \in {"handled", "refused"} :
        outcome' = [outcome EXCEPT ![m] = o] /\ read' = IF o = "handled" THEN read \cup {m} ELSE read
  BY DEF PiDeclines
<1>2. /\ pc[m] = "handing" /\ pc'[m] = "accepted" /\ \A n \in Msgs : n # m => pc'[n] = pc[n]
      /\ UNCHANGED <<waiting, piRun, piQueue, events>>
  BY Apart DEF PiDeclines, Go, manager, piVars, IInv, Types, PcType
<1>3. outcome'[m] = o /\ \A n \in Msgs : n # m => outcome'[n] = outcome[n]
  BY <1>1 DEF IInv, Types, MapTypes
<1>4. EndNext' <=> EndNext
  BY <1>2 DEF EndNext
<1>5. m \notin read
  BY <1>2 DEF IInv, AccountOK
<1>6. ReadOK'
  BY <1>1, <1>2, <1>3, <1>4, <1>5, WaitsInMsgs DEF ReadOK, IInv
<1>7. HadOK'
  <2>1. ASSUME EndNext, NEW l \in Lanes, NEW n \in Range(piQueue[l]) PROVE n \in Msgs /\ n \notin read /\ n # m /\ pc[n] \notin {"ahead", "handing"}
    BY <1>2, <2>1, WaitsInMsgs DEF HadOK, IInv
  <2> QED BY <1>1, <1>2, <1>4, <2>1 DEF HadOK
<1> QED BY <1>6, <1>7

\* pi goes on with its queue.
LEMMA PiReadsRead == ASSUME IInv, ReadOK, HadOK, PiReads PROVE ReadOK' /\ HadOK'
<1>1. events = <<>> /\ piRun /\ piRun' = piRun
  BY DEF PiReads, NextTurn
<1>2. PICK l \in Lanes : /\ queue[l] # <<>> /\ queue' = [queue EXCEPT ![l] = Tail(queue[l])]
                         /\ Say(<<Event("queue", None, queue'), Event("read", Head(queue[l]), Empty)>>)
  BY DEF PiReads
<1>3. queue \in Queues
  BY DEF IInv, Types, ListTypes
<1>4. queue' \in Queues /\ Head(queue[l]) \in Msgs /\ Empty \in Queues
  BY <1>2, <1>3, TailIn DEF Queues, Empty
<1> DEFINE e == Event("queue", None, queue')
           d == Event("read", Head(queue[l]), Empty)
<1>5. e \in Events /\ e.kind = "queue" /\ d \in Events /\ events' = events \o <<e, d>>
  BY <1>2, <1>4 DEF Say, Event, Events
<1> HIDE DEF e, d
<1>6. <<e, d>> \in Seq(Events) /\ <<e, d>> # <<>> /\ <<e, d>>[1].kind # "settled"
  BY <1>5
<1>7. EndNext' <=> EndNext
  BY <1>5, <1>6, SaidBehind DEF IInv
<1>8. ~EndNext
  BY <1>1 DEF EndNext
<1> QED BY <1>1, <1>7, <1>8 DEF ReadOK, HadOK

\* Its run ends: what is in its queue then, it has told of, and has not read.
LEMMA PiSettlesRead == ASSUME IInv, ReadOK, HadOK, PiSettles PROVE ReadOK' /\ HadOK'
<1>1. events = <<>> /\ events' = events \o <<Event("settled", None, Empty)>> /\ UNCHANGED <<queue, piQueue, pc, read>>
  BY DEF PiSettles, NextTurn, Say, manager, reqs, account
<1>2. EndNext'
  BY <1>1 DEF EndNext, Event
<1>3. piQueue = queue
  BY <1>1 DEF IInv, TellsOK
<1>4. HadOK'
  BY <1>1, <1>3 DEF HadOK, IInv, QueueOK, InQueue
<1> QED BY <1>2, <1>4 DEF ReadOK

\* Of what is heard, only the first can be the end of a run.
LEMMA NextIsNotTheEnd == ASSUME IInv, events # <<>>, events' = Tail(events) PROVE ~EndNext'
<1> SUFFICES ASSUME events' # <<>> PROVE events'[1].kind # "settled"
  BY DEF EndNext
<1>1. /\ events' \in Seq(Events) /\ Len(events') \in Nat
      /\ \A i \in 1..Len(events') : i + 1 \in 2..Len(events) /\ events'[i] = events[i + 1]
  BY Heard DEF IInv
<1>2. 1 \in 1..Len(events')
  BY <1>1, EmptySeq
<1>3. 1 + 1 \in 2..Len(events) /\ events'[1] = events[1 + 1]
  BY <1>1, <1>2
<1> QED BY <1>3 DEF IInv, EventsOK

\* The start of a run, its queue and its readings are heard.
LEMMA HearOthersRead == ASSUME Tidy, IInv, ReadOK, HadOK, HearStart \/ HearQueue \/ HearRead PROVE ReadOK' /\ HadOK'
<1>1. events # <<>> /\ events[1].kind # "settled" /\ events' = Tail(events) /\ UNCHANGED <<piRun, read, pc, outcome>>
  BY DEF HearStart, HearQueue, HearRead, Hear, reqs, account
<1>2. ~EndNext
  BY <1>1 DEF EndNext
<1>3. ~EndNext'
  BY <1>1, NextIsNotTheEnd
<1>4. Range(waiting') \subseteq Range(waiting)
  <2>1. CASE HearStart \/ HearQueue
    BY <2>1 DEF HearStart, HearQueue
  <2>2. CASE HearRead
    <3>1. PICK S : Place(S)
      BY <2>2, ReadIsPlaced
    <3> QED BY <3>1, WithoutIs DEF Place, IInv, Types, ListTypes
  <2> QED BY <2>1, <2>2
<1>5. ReadOK'
  BY <1>1, <1>2, <1>4 DEF ReadOK
<1> QED BY <1>3, <1>5 DEF HadOK

\* The run is over, and all of it that pi took in is placed.
LEMMA HearSettledRead == ASSUME Tidy, IInv, ReadOK, HadOK, HearSettled PROVE ReadOK' /\ HadOK'
<1>1. /\ events # <<>> /\ events[1].kind = "settled" /\ events' = Tail(events) /\ Place(Settled)
      /\ ~Settling /\ UNCHANGED <<piRun, read>>
  BY DEF HearSettled, Hear
<1>2. EndNext
  BY <1>1 DEF EndNext
<1>3. ~EndNext'
  BY <1>1, NextIsNotTheEnd
<1>4. Range(waiting') = Range(waiting) \ Settled
  BY <1>1, WithoutIs DEF Place, IInv, Types, ListTypes
<1>5. ASSUME NEW m \in Range(waiting) \cap read PROVE m \in Settled
  <2>1. m \in Msgs /\ m \in Links
    BY WaitsInMsgs, Apart DEF IInv
  <2>2. pc[m] \in {"accepted", "done"}
    BY DEF IInv, AccountOK
  <2>3. pc[m] # "accepted"
    BY <1>1, <2>1 DEF Settling
  <2>4. m \in inPi
    BY <2>2, <2>3 DEF IInv, WaitOK
  <2>5. \A l \in Lanes : m \notin Range(piQueue[l])
    BY <1>2 DEF HadOK
  <2> QED BY <1>1, <2>4, <2>5, SettledIsRead DEF Tidy
<1>6. Range(waiting') \cap read' = {}
  BY <1>1, <1>4, <1>5
<1> QED BY <1>3, <1>6 DEF ReadOK, HadOK

\* What a Stop drops pi has not read, or it stands where it was read.
LEMMA StopDropsRead == ASSUME Tidy, IInv, ReadOK, HadOK, NEW s \in Stops, StopDrops(s) PROVE ReadOK' /\ HadOK'
<1>1. /\ (queue' = Empty /\ events' = events \o <<Event("queue", None, Empty)>>) \/ events' = events
      /\ waiting' = Without(waiting, sentBefore[s])
      /\ \A m \in Msgs : pc'[m] = pc[m]
      /\ UNCHANGED <<piRun, piQueue, read, outcome>>
  BY Apart DEF StopDrops, Go, Say, IInv, Types, PcType
<1>2. EndNext' <=> EndNext
  <2>1. CASE events' = events
    BY <2>1 DEF EndNext
  <2>2. CASE events' = events \o <<Event("queue", None, Empty)>>
    <3> DEFINE e == Event("queue", None, Empty)
    <3>1. e \in Events /\ e.kind = "queue" /\ events' = events \o <<e>>
      BY <2>2 DEF Event, Events, Empty, Queues
    <3> HIDE DEF e
    <3>2. <<e>> \in Seq(Events) /\ <<e>> # <<>> /\ <<e>>[1].kind # "settled"
      BY <3>1
    <3> QED BY <3>1, <3>2, SaidBehind DEF IInv
  <2> QED BY <1>1, <2>1, <2>2
<1>3. Range(waiting') \subseteq Range(waiting)
  BY <1>1, WithoutIs DEF IInv, Types, ListTypes
<1>4. Range(waiting) \subseteq Msgs
  BY WaitsInMsgs DEF IInv
<1> QED BY <1>1, <1>2, <1>3, <1>4, NothingRead

\* What is taken back pi has not read.
LEMMA TakesBackRead == ASSUME Tidy, IInv, ReadOK, HadOK, NEW s \in Stops, TakesBack(s) PROVE ReadOK' /\ HadOK'
<1>0. PICK P : P = Range(waiting) \cap inPi
  OBVIOUS
<1>1. P \subseteq Msgs /\ \A m \in P : m \notin read /\ pc[m] = "done"
  BY <1>0, TakesBackIs
<1>2. PICK list \in Seq(Msgs), phase \in {"again", "drop"} :
        /\ Range(list) \subseteq P
        /\ pc' = [k \in Links |-> CASE k = s -> phase
                                    [] k \in Range(list) -> "again"
                                    [] k \in P \ Range(list) -> "gone"
                                    [] OTHER -> pc[k]]
  BY <1>0, TakesBackIs
<1>3. /\ waiting' = Without(waiting, P)
      /\ outcome' = [m \in Msgs |-> IF m \in P THEN "none" ELSE outcome[m]]
      /\ events' = events \o <<Event("queue", None, Empty)>>
      /\ UNCHANGED <<piRun, piQueue, read>>
  BY <1>0 DEF TakesBack, Say, account
<1>4. /\ \A m \in P : pc'[m] \in {"again", "gone"}
      /\ \A m \in Msgs : m \notin P => pc'[m] = pc[m] /\ outcome'[m] = outcome[m]
  BY <1>1, <1>2, <1>3, Apart
<1>5. Range(waiting') \subseteq Range(waiting)
  BY <1>3, WithoutIs DEF IInv, Types, ListTypes
<1>6. EndNext' <=> EndNext
  <2> DEFINE e == Event("queue", None, Empty)
  <2>1. e \in Events /\ e.kind = "queue" /\ events' = events \o <<e>>
    BY <1>3 DEF Event, Events, Empty, Queues
  <2> HIDE DEF e
  <2>2. <<e>> \in Seq(Events) /\ <<e>> # <<>> /\ <<e>>[1].kind # "settled"
    BY <2>1
  <2> QED BY <2>1, <2>2, SaidBehind DEF IInv
<1>7. Range(waiting) \subseteq Msgs
  BY WaitsInMsgs DEF IInv
<1>8. \A m \in Range(waiting') \cap read :
        /\ m \in Range(waiting)
        /\ pc[m] = "accepted" /\ outcome[m] = "handled" => pc'[m] = "accepted" /\ outcome'[m] = "handled"
  BY <1>1, <1>4, <1>5, <1>7
<1>9. \A m \in Msgs : pc'[m] \in {"ahead", "handing"} => pc[m] \in {"ahead", "handing"}
  BY <1>4
<1> QED BY <1>3, <1>6, <1>8, <1>9, NothingRead

\* The rest of a press is no message's but the one it sends again.
LEMMA PressRead ==
  ASSUME IInv, ReadOK, HadOK, NEW s \in Stops,
         \/ StopBegins(s) \/ StopAborts(s) \/ StopEnds(s)
         \/ TakeBegins(s) \/ TakeRefused(s) \/ SendsAgain(s) \/ SentAgain(s) \/ TakeEnds(s)
  PROVE  ReadOK' /\ HadOK'
<1>1. UNCHANGED <<waiting, piRun, piQueue, read, events, outcome>>
  BY DEF StopBegins, StopAborts, StopEnds, TakeBegins, TakeRefused, SendsAgain, SentAgain, TakeEnds, manager, piVars, presses, account
<1>2. \A m \in Msgs : pc'[m] = pc[m] \/ (pc[m] = "again" /\ pc'[m] = "prompting")
  <2>1. CASE SendsAgain(s)
    <3>1. PICK n : n = Head(again[s])
      OBVIOUS
    <3>2. pc[n] = "again" /\ pc' = [pc EXCEPT ![n] = "prompting"]
      BY <2>1, <3>1 DEF SendsAgain, Go
    <3> QED BY <3>2, Apart DEF IInv, Types, PcType
  <2>2. CASE SentAgain(s)
    BY <2>2 DEF SentAgain
  <2>3. CASE StopBegins(s) \/ StopAborts(s) \/ StopEnds(s) \/ TakeBegins(s) \/ TakeRefused(s) \/ TakeEnds(s)
    <3>1. \E p : pc' = [pc EXCEPT ![s] = p]
      BY <2>3 DEF StopBegins, StopAborts, StopEnds, TakeBegins, TakeRefused, TakeEnds, Go
    <3> QED BY <3>1, Apart DEF IInv, Types, PcType
  <2> QED BY <2>1, <2>2, <2>3
<1>3. \A m \in Msgs : pc[m] = "accepted" => pc'[m] = "accepted"
  BY <1>2
<1>4. \A m \in Msgs : pc'[m] \in {"ahead", "handing"} => pc[m] \in {"ahead", "handing"}
  BY <1>2
<1> QED BY <1>1, <1>3, <1>4, Quiet

\* Every step keeps both.
LEMMA ReadStep == Tidy /\ IInv /\ ReadOK /\ HadOK /\ [Next]_vars => ReadOK' /\ HadOK'
<1> SUFFICES ASSUME Tidy, IInv, ReadOK, HadOK, [Next]_vars PROVE ReadOK' /\ HadOK'
  OBVIOUS
<1>1. CASE \E m \in Msgs : Prompt(m) \/ MessageStep(m) \/ PreflightEnds(m)
  <2>1. PICK m \in Msgs : Prompt(m) \/ MessageStep(m) \/ PreflightEnds(m)
    BY <1>1
  <2> QED BY <2>1, OnTheWayQuiet, AcceptedRead, AnsweredRead, DeclinedRead DEF MessageStep, PreflightEnds
<1>2. CASE PiWakes \/ PiReads \/ PiSettles
  BY <1>2, PiWakesNever, PiReadsRead, PiSettlesRead
<1>3. CASE HearStep
  BY <1>3, HearOthersRead, HearSettledRead DEF HearStep
<1>4. CASE \E s \in Stops : StopBegins(s) \/ StopStep(s) \/ TakeBegins(s) \/ TakeStep(s)
  <2>1. PICK s \in Stops : StopBegins(s) \/ StopStep(s) \/ TakeBegins(s) \/ TakeStep(s)
    BY <1>4
  <2> QED BY <2>1, StopDropsRead, TakesBackRead, PressRead DEF StopStep, TakeStep
<1>5. CASE UNCHANGED vars
  <2>1. UNCHANGED <<waiting, piRun, piQueue, read, events, outcome, pc>>
    BY <1>5 DEF vars, manager, piVars, reqs, account
  <2> QED BY <2>1, Quiet
<1> QED BY <1>1, <1>2, <1>3, <1>4, <1>5 DEF Next

\* A list that names each once is as long as the set it names.
LEMMA Counted ==
  ASSUME NEW T, NEW list \in Seq(T), Distinct(list)
  PROVE  IsFiniteSet(Range(list)) /\ Cardinality(Range(list)) = Len(list)
<1>1. Len(list) \in Nat /\ DOMAIN list = 1..Len(list) /\ list \in [1..Len(list) -> T]
  OBVIOUS
<1>2. list \in [1..Len(list) -> Range(list)]
  BY <1>1 DEF Range
<1>3. list \in Injection(1..Len(list), Range(list))
  BY <1>2 DEF Distinct, Injection, IsInjective
<1>4. list \in Surjection(1..Len(list), Range(list))
  BY <1>1, <1>2 DEF Surjection, Range
<1>5. ExistsBijection(1..Len(list), Range(list))
  BY <1>3, <1>4 DEF ExistsBijection, Bijection
<1>6. IsFiniteSet(1..Len(list))
  BY <1>1, FS_Interval
<1> QED BY <1>1, <1>5, <1>6, FS_Bijection, FS_CountingElements

\* At rest what waits is in pi's queue, each in its own lane.
LEMMA RestWaits ==
  ASSUME IInv, ReadOK, AtRest
  PROVE  /\ Range(waiting) = Range(queue["steering"]) \cup Range(queue["followUp"])
         /\ Range(queue["steering"]) \cap Range(queue["followUp"]) = {}
<1>1. ~piRun /\ ~EndNext /\ \A m \in Msgs : Out(m)
  BY Apart DEF AtRest, EndNext
<1>2. Range(waiting) \subseteq Msgs
  BY WaitsInMsgs DEF IInv
<1>3. ASSUME NEW m \in Range(waiting) PROVE \E l \in Lanes : m \in Range(queue[l])
  <2>1. pc[m] = "done" /\ m \in inPi
    BY <1>1, <1>2 DEF IInv, WaitOK, Out
  <2>2. m \notin read
    BY <1>1, <2>1 DEF ReadOK
  <2>3. lane[m] \in Lanes
    BY <1>2 DEF IInv, Types, MapTypes
  <2> QED BY <2>1, <2>2, <2>3 DEF IInv, WaitOK
<1>4. ASSUME NEW l \in Lanes, NEW m \in Range(queue[l]) PROVE m \in Range(waiting) /\ l = lane[m]
  BY DEF IInv, QueueOK, InQueue, Waits
<1>5. Lanes = {"steering", "followUp"}
  BY DEF Lanes
<1> QED BY <1>3, <1>4, <1>5

\* What waits at rest is what pi holds for its next run.
THEOREM WaitsIsHeld == Tidy => (Spec => []WaitsForPi)
<1> SUFFICES ASSUME Tidy PROVE Spec => []WaitsForPi
  OBVIOUS
<1>1. Init => IInv /\ ReadOK /\ HadOK
  <2> SUFFICES ASSUME Init PROVE IInv /\ ReadOK /\ HadOK
    OBVIOUS
  <2>1. Range(waiting) = {} /\ events = <<>>
    BY NoneIn DEF Init
  <2> QED BY <2>1, InitOK DEF ReadOK, HadOK, EndNext
<1>2. IInv /\ ReadOK /\ HadOK /\ [Next]_vars => (IInv /\ ReadOK /\ HadOK)'
  BY InvStep, ReadStep
<1>3. IInv /\ ReadOK => WaitsForPi
  <2> SUFFICES ASSUME IInv, ReadOK, AtRest PROVE Len(waiting) = Len(queue["steering"]) + Len(queue["followUp"])
    BY DEF WaitsForPi
  <2> DEFINE a == queue["steering"]
             b == queue["followUp"]
  <2>1. waiting \in Seq(Msgs) /\ a \in Seq(Msgs) /\ b \in Seq(Msgs) /\ Distinct(waiting) /\ Distinct(a) /\ Distinct(b)
    BY DEF IInv, Types, ListTypes, Queues, Lanes, WaitOK, QueueOK
  <2>2. Range(waiting) = Range(a) \cup Range(b) /\ Range(a) \cap Range(b) = {}
    BY RestWaits
  <2> HIDE DEF a, b
  <2>3. /\ Cardinality(Range(waiting)) = Len(waiting) /\ Len(waiting) \in Nat
        /\ IsFiniteSet(Range(a)) /\ Cardinality(Range(a)) = Len(a) /\ Len(a) \in Nat
        /\ IsFiniteSet(Range(b)) /\ Cardinality(Range(b)) = Len(b) /\ Len(b) \in Nat
    BY <2>1, Counted
  <2>4. Cardinality(Range(a) \cap Range(b)) = 0
    BY <2>2, FS_EmptySet
  <2>5. Cardinality(Range(waiting)) = Len(a) + Len(b) - 0
    BY <2>2, <2>3, <2>4, FS_Union
  <2>6. Len(waiting) = Len(a) + Len(b)
    BY <2>3, <2>5
  <2> QED BY <2>6 DEF a, b
<1> QED BY <1>1, <1>2, <1>3, PTL DEF Spec
-----------------------------------------------------------------------------
(* The chat is shown as it is. *)

\* The start of a run is still to be heard; a message is on its way.
StartToCome == \E i \in 1..Len(events) : events[i].kind = "start"
Lively == \E m \in Msgs : pc[m] = "prompting" \/ Live(m)

\* pi's runs, as they are told.
ToldOK ==
  /\ StartToCome => piRun
  /\ EndNext /\ piRun => StartToCome
  /\ inRun /\ ~piRun => EndNext

\* The chat is shown to work for a run, its end that is still to come, a Stop or a
\* message; and a run has it shown, or is about to.
RunningOK == running => piRun \/ EndNext \/ UnderWay \/ Lively
WorkOK    == piRun => running \/ UnderWay \/ StartToCome
MarksOK   == ToldOK /\ RunningOK /\ WorkOK

\* A Stop past its gate is in the chain and every message on its way on one side of it,
\* or pi is idle and nothing new can begin; no run begins once it waits for one's end.
Linked(s)  == tail # None /\ (s = tail \/ s \in ahead[tail])
Related(s) == \A m \in Msgs : Live(m) => m \in ahead[s] \/ s \in ahead[m]
LinkedAt(s) ==
  /\ pc[s] \in {"drop", "abort"} => Related(s) /\ (Linked(s) \/ (~piRun /\ (pc[s] = "drop" => Handed)))
  /\ pc[s] \in {"settle", "over"} => ~piRun
  /\ pc[s] = "settle" => EndNext
  /\ pc[s] \in {"abort", "settle", "over"} => \A m \in Msgs : pc[m] # "handing"
LinkedOK == \A s \in Stops : LinkedAt(s)
ShownInv == MarksOK /\ LinkedOK

\* What is said leaves what was to be heard next, and before.
LEMMA SaidStart ==
  ASSUME Types, NEW said \in Seq(Events), said # <<>>, said[1].kind # "settled", events' = events \o said
  PROVE  /\ EndNext' <=> EndNext
         /\ StartToCome => StartToCome'
         /\ (\E i \in 1..Len(said) : said[i].kind = "start") => StartToCome'
         /\ (\A i \in 1..Len(said) : said[i].kind # "start") => (StartToCome' <=> StartToCome)
<1>1. EndNext' <=> EndNext
  BY SaidBehind
<1>2. events \in Seq(Events) /\ Len(events) \in Nat /\ Len(said) \in Nat
  BY DEF Types, PlainTypes
<1>3. PICK n \in Nat, k \in Nat : n = Len(events) /\ k = Len(said)
  BY <1>2
<1>4. /\ Len(events') = n + k
      /\ \A i \in 1..n : events'[i] = events[i]
      /\ \A i \in (n + 1)..(n + k) : events'[i] = said[i - n]
  BY <1>2, <1>3, ConcatProperties
<1>5. StartToCome => StartToCome'
  BY <1>3, <1>4 DEF StartToCome
<1>6. ASSUME NEW i \in 1..k, said[i].kind = "start" PROVE StartToCome'
  <2>1. n + i \in (n + 1)..(n + k) /\ (n + i) - n = i /\ n + i \in 1..(n + k)
    BY <1>3
  <2> QED BY <1>4, <1>6, <2>1 DEF StartToCome
<1>7. ASSUME \A i \in 1..k : said[i].kind # "start", StartToCome' PROVE StartToCome
  <2>1. PICK j \in 1..(n + k) : events'[j].kind = "start"
    BY <1>4, <1>7 DEF StartToCome
  <2>2. CASE j \in 1..n
    BY <1>3, <1>4, <2>1, <2>2 DEF StartToCome
  <2>3. CASE j \notin 1..n
    <3>1. j \in (n + 1)..(n + k) /\ j - n \in 1..k
      BY <1>3, <2>1, <2>3
    <3> QED BY <1>4, <1>7, <2>1, <3>1
  <2> QED BY <2>2, <2>3
<1> QED BY <1>1, <1>3, <1>5, <1>6, <1>7

\* What pi says of its queue is no start, and no end.
LEMMA SaysQueueOnly ==
  ASSUME Types, NEW q \in Queues, events' = events \o <<Event("queue", None, q)>>
  PROVE  (EndNext' <=> EndNext) /\ (StartToCome' <=> StartToCome)
<1> DEFINE e == Event("queue", None, q)
<1>1. e \in Events /\ e.kind = "queue" /\ events' = events \o <<e>>
  BY DEF Event, Events
<1> HIDE DEF e
<1>2. <<e>> \in Seq(Events) /\ <<e>> # <<>> /\ Len(<<e>>) = 1 /\ \A i \in 1..1 : <<e>>[i] = e
  BY <1>1
<1>3. <<e>>[1].kind # "settled" /\ \A i \in 1..Len(<<e>>) : <<e>>[i].kind # "start"
  BY <1>1, <1>2
<1> QED BY <1>1, <1>2, <1>3, SaidStart

\* What is heard is the start of a run, or leaves it to come.
LEMMA HeardStart ==
  ASSUME IInv, events # <<>>, events' = Tail(events)
  PROVE  /\ ~EndNext'
         /\ StartToCome' => StartToCome
         /\ events[1].kind # "start" => (StartToCome' <=> StartToCome)
<1>1. ~EndNext'
  BY NextIsNotTheEnd
<1>2. /\ Len(events') \in Nat /\ Len(events) = Len(events') + 1
      /\ \A i \in 1..Len(events') : i + 1 \in 1..Len(events) /\ events'[i] = events[i + 1]
  BY Heard DEF IInv
<1>9. Len(events') \in Nat
  BY <1>2
<1>3. PICK n \in Nat : n = Len(events')
  BY <1>9
<1>4. ASSUME StartToCome' PROVE StartToCome
  <2>1. PICK i \in 1..n : events'[i].kind = "start"
    BY <1>3, <1>4 DEF StartToCome
  <2>2. i + 1 \in 1..Len(events) /\ events'[i] = events[i + 1]
    BY <1>2, <1>3, <2>1
  <2> QED BY <2>1, <2>2 DEF StartToCome
<1>5. ASSUME events[1].kind # "start", StartToCome PROVE StartToCome'
  <2>1. PICK i \in 1..(n + 1) : events[i].kind = "start"
    BY <1>2, <1>3, <1>5 DEF StartToCome
  <2>2. PICK j \in Nat : i = j + 1
    BY <2>1
  <2>3. j \in 1..n
    BY <1>3, <1>5, <2>1, <2>2
  <2> QED BY <1>2, <1>3, <2>1, <2>2, <2>3 DEF StartToCome
<1> QED BY <1>1, <1>4, <1>5

\* The marks stay where pi's run, what is heard of it and the chat's status do.
LEMMA MarksKeep ==
  ASSUME MarksOK, UNCHANGED <<piRun, inRun, running>>, EndNext' <=> EndNext, StartToCome' <=> StartToCome,
         UnderWay => UnderWay', Lively => Lively' \/ UnderWay'
  PROVE  MarksOK'
BY DEF MarksOK, ToldOK, RunningOK, WorkOK

\* A Stop stays where it is in the chain.
LEMMA LinkedKeeps ==
  ASSUME LinkedOK, piRun' => piRun, NEW s \in Stops, pc'[s] = pc[s] \/ pc'[s] \notin {"drop", "abort", "settle", "over"},
         pc[s] \in {"drop", "abort"} => (Linked(s) => Linked(s)') /\ (Related(s) => Related(s)'),
         pc[s] = "drop" /\ Handed => Handed',
         pc[s] = "settle" /\ EndNext => EndNext',
         pc[s] \in {"abort", "settle", "over"} => \A m \in Msgs : pc'[m] = "handing" => pc[m] = "handing"
  PROVE  LinkedAt(s)'
<1>1. LinkedAt(s)
  BY DEF LinkedOK
<1>2. pc'[s] \in {"drop", "abort", "settle", "over"} => pc'[s] = pc[s]
  OBVIOUS
<1> QED BY <1>1, <1>2 DEF LinkedAt

\* As pi is at work on nothing, a Stop past its gate is in the chain.
LEMMA TurnLinked ==
  ASSUME LinkedOK, NextTurn, NEW s \in Stops
  PROVE  pc[s] \notin {"settle", "over"} /\ (pc[s] \in {"drop", "abort"} => Linked(s) /\ Related(s)) /\ (pc[s] = "drop" => ~Handed) /\ ~EndNext
<1>1. /\ events = <<>> /\ pc[s] # "over"
      /\ (pc[s] = "drop" => ~Handed) /\ (pc[s] = "abort" => piRun)
  BY Turn, Apart
<1>2. LinkedAt(s) /\ ~EndNext
  BY <1>1 DEF LinkedOK, EndNext
<1> QED BY <1>1, <1>2 DEF LinkedAt

\* A message before it is accepted.
LEMMA PromptShown == ASSUME IInv, ShownInv, NEW m \in Msgs, Prompt(m) PROVE ShownInv'
<1>1. /\ NextTurn /\ pc[m] = "idle" /\ pc'[m] = "prompting" /\ (\A k \in Links : k # m => pc'[k] = pc[k]) /\ running' = TRUE
      /\ UNCHANGED <<piRun, inRun, events, tail, ahead, queued, waiting>>
  BY Apart DEF Prompt, Go, piVars, IInv, Types, PcType
<1>2. EndNext' <=> EndNext
  BY <1>1 DEF EndNext
<1>3. StartToCome' <=> StartToCome
  BY <1>1 DEF StartToCome
<1>4. Lively'
  BY <1>1 DEF Lively
<1>5. MarksOK'
  BY <1>1, <1>2, <1>3, <1>4 DEF ShownInv, MarksOK, ToldOK, RunningOK, WorkOK
<1>6. \A n \in Msgs : Live(n)' => Live(n)
  BY <1>1, Apart DEF Live, Dead, Waits
<1>7. ASSUME NEW s \in Stops PROVE LinkedAt(s)'
  <2>1. pc'[s] = pc[s]
    BY <1>1, Apart
  <2>2. Linked(s)' <=> Linked(s)
    BY <1>1 DEF Linked
  <2>3. Related(s) => Related(s)'
    BY <1>1, <1>6 DEF Related
  <2>4. \A n \in Msgs : pc'[n] = "handing" => pc[n] = "handing"
    BY <1>1, Apart
  <2>5. pc[s] # "settle" /\ (pc[s] = "drop" => ~Handed)
    BY <1>1, TurnLinked DEF ShownInv
  <2> QED BY <1>1, <2>1, <2>2, <2>3, <2>4, <2>5, LinkedKeeps DEF ShownInv
<1> QED BY <1>5, <1>7 DEF ShownInv, LinkedOK

\* It takes its place behind the whole chain.
LEMMA SubmitShown == ASSUME IInv, ShownInv, NEW m \in Msgs, Submit(m) PROVE ShownInv'
<1>1. /\ NextTurn /\ pc[m] = "prompting" /\ pc'[m] = "ahead" /\ (\A k \in Links : k # m => pc'[k] = pc[k])
      /\ tail' = m /\ ahead' = [ahead EXCEPT ![m] = Chain] /\ ahead \in [Links -> SUBSET Links] /\ m \in Links
      /\ UNCHANGED <<piRun, inRun, running, events>>
  BY Apart DEF Submit, Go, piVars, IInv, Types, PcType, MapTypes
<1>2. \/ queued' = queued \cup {m} /\ waiting' = Append(waiting, m)
      \/ queued' = queued /\ waiting' = waiting
  BY DEF Submit
<1>3. Range(waiting') \subseteq Range(waiting) \cup {m} /\ Range(waiting) \subseteq Range(waiting') /\ (m \in queued' => m \in queued \/ m \in Range(waiting'))
  BY <1>2, AppendMsg DEF IInv, Types, ListTypes
<1>4. m \notin queued
  BY <1>1 DEF IInv, AccountOK
<1>5. Live(m)'
  BY <1>1, <1>3, <1>4 DEF Live, Dead, Waits
<1>6. \A n \in Msgs : n # m => (Live(n)' <=> Live(n))
  BY <1>1, <1>2, <1>3, Apart DEF Live, Dead, Waits
<1>7. EndNext' <=> EndNext
  BY <1>1 DEF EndNext
<1>8. StartToCome' <=> StartToCome
  BY <1>1 DEF StartToCome
<1>9. UnderWay' <=> UnderWay
  BY <1>1, Apart DEF UnderWay
<1>10. MarksOK'
  BY <1>1, <1>5, <1>7, <1>8, <1>9, MarksKeep DEF ShownInv, Lively
<1>11. ahead'[m] = Chain /\ \A k \in Links : k # m => ahead'[k] = ahead[k]
  BY <1>1
<1>12. ASSUME NEW s \in Stops PROVE LinkedAt(s)'
  <2>1. pc'[s] = pc[s] /\ s \in Links /\ s # m
    BY <1>1, Apart
  <2>2. pc[s] # "settle" /\ (pc[s] = "drop" => ~Handed) /\ (pc[s] \in {"drop", "abort"} => Linked(s) /\ Related(s))
    BY <1>1, TurnLinked DEF ShownInv
  <2>3. Linked(s) => s \in ahead'[m]
    BY <1>11 DEF Linked, Chain
  <2>4. m # None
    BY Apart
  <2>5. Linked(s) => Linked(s)'
    BY <1>1, <2>3, <2>4 DEF Linked
  <2>6. Linked(s) /\ Related(s) => Related(s)'
    BY <1>6, <1>11, <2>1, <2>3, Apart DEF Related
  <2>7. \A n \in Msgs : pc'[n] = "handing" => pc[n] = "handing"
    BY <1>1, Apart
  <2> QED BY <1>1, <2>1, <2>2, <2>5, <2>6, <2>7, LinkedKeeps DEF ShownInv
<1> QED BY <1>10, <1>12 DEF ShownInv, LinkedOK

\* Its turn comes with no Stop waiting for its run to end.
LEMMA HandShown == ASSUME IInv, ShownInv, NEW m \in Msgs, Hand(m) PROVE ShownInv'
<1>1. /\ NextTurn /\ pc[m] = "ahead" /\ pc'[m] = "handing" /\ (\A k \in Links : k # m => pc'[k] = pc[k])
      /\ (m \in queued => Waits(m)) /\ (\A j \in ahead[m] : Out(j))
      /\ UNCHANGED <<piRun, inRun, running, events, tail, ahead, queued, waiting>>
  BY Apart DEF Hand, Go, piVars, Behind, IInv, Types, PcType
<1>2. EndNext' <=> EndNext
  BY <1>1 DEF EndNext
<1>3. StartToCome' <=> StartToCome
  BY <1>1 DEF StartToCome
<1>4. \A n \in Msgs : Live(n)' <=> Live(n)
  BY <1>1, Apart DEF Live, Dead, Waits
<1>5. UnderWay' <=> UnderWay
  BY <1>1, Apart DEF UnderWay
<1>6. Lively => Lively'
  BY <1>1, <1>4, Apart DEF Lively
<1>7. MarksOK'
  BY <1>1, <1>2, <1>3, <1>5, <1>6, MarksKeep DEF ShownInv
<1>8. ASSUME NEW s \in Stops PROVE LinkedAt(s)'
  <2>1. pc'[s] = pc[s] /\ s \in Links /\ s # m
    BY <1>1, Apart
  <2>2. Linked(s)' <=> Linked(s)
    BY <1>1 DEF Linked
  <2>3. Related(s) => Related(s)'
    BY <1>1, <1>4 DEF Related
  <2>4. pc[s] \notin {"settle", "over"} /\ (pc[s] = "drop" => ~Handed) /\ (pc[s] = "abort" => Related(s))
    BY <1>1, TurnLinked DEF ShownInv
  <2>5. Live(m)
    BY <1>1 DEF Live, Dead
  <2>6. pc[s] # "abort"
    <3> SUFFICES ASSUME pc[s] = "abort" PROVE FALSE
      OBVIOUS
    <3>1. m \in ahead[s] \/ s \in ahead[m]
      BY <2>4, <2>5 DEF Related
    <3>2. s \notin ahead[m]
      BY <1>1 DEF Out
    <3>3. AbortOK(s)
      BY DEF IInv, ChainOK, StopsOK
    <3> QED BY <1>1, <2>5, <3>1, <3>2, <3>3 DEF AbortOK
  <2> QED BY <1>1, <2>1, <2>2, <2>3, <2>4, <2>6, LinkedKeeps DEF ShownInv
<1> QED BY <1>7, <1>8 DEF ShownInv, LinkedOK

\* A message that leaves the chain was at its head: no Stop there was behind it.
LEMMA LeavesAlone ==
  ASSUME IInv, NEW m \in Msgs, Leave(m), UNCHANGED ahead, \A j \in ahead[m] : Out(j),
         NEW s \in Stops, pc[s] \in {"drop", "abort"}, Linked(s)
  PROVE  Linked(s)'
<1>1. s # m /\ s \notin ahead[m]
  BY Apart DEF Out
<1> QED BY <1>1 DEF Leave, Linked

\* It is not sent: a Stop that dropped it stands before it.
LEMMA NotSentShown == ASSUME IInv, ShownInv, NEW m \in Msgs, NotSent(m) PROVE ShownInv'
<1>1. /\ NextTurn /\ pc[m] = "ahead" /\ pc'[m] = "done" /\ (\A k \in Links : k # m => pc'[k] = pc[k])
      /\ m \in queued /\ ~Waits(m) /\ (\A j \in ahead[m] : Out(j)) /\ Leave(m)
      /\ UNCHANGED <<piRun, inRun, running, events, ahead, queued, waiting>>
  BY Apart DEF NotSent, Go, piVars, Behind, IInv, Types, PcType
<1>2. EndNext' <=> EndNext
  BY <1>1 DEF EndNext
<1>3. StartToCome' <=> StartToCome
  BY <1>1 DEF StartToCome
<1>4. \A n \in Msgs : Live(n)' <=> Live(n)
  BY <1>1, Apart DEF Live, Dead, Waits
<1>5. UnderWay' <=> UnderWay
  BY <1>1, Apart DEF UnderWay
<1>6. Lively => Lively'
  BY <1>1, <1>4, Apart DEF Lively
<1>7. MarksOK'
  BY <1>1, <1>2, <1>3, <1>5, <1>6, MarksKeep DEF ShownInv
<1>8. ASSUME NEW s \in Stops PROVE LinkedAt(s)'
  <2>1. pc'[s] = pc[s]
    BY <1>1, Apart
  <2>2. pc[s] \in {"drop", "abort"} /\ Linked(s) => Linked(s)'
    BY <1>1, LeavesAlone
  <2>3. Related(s) => Related(s)'
    BY <1>1, <1>4 DEF Related
  <2>4. pc[s] # "settle" /\ (pc[s] = "drop" => ~Handed)
    BY <1>1, TurnLinked DEF ShownInv
  <2>5. \A n \in Msgs : pc'[n] = "handing" => pc[n] = "handing"
    BY <1>1, Apart
  <2> QED BY <1>1, <2>1, <2>2, <2>3, <2>4, <2>5, LinkedKeeps DEF ShownInv
<1> QED BY <1>7, <1>8 DEF ShownInv, LinkedOK

\* It is accepted: a message refused ends no run on the page but one that never was.
LEMMA AcceptedShown == ASSUME IInv, ShownInv, NEW m \in Msgs, Accepted(m) PROVE ShownInv'
<1>1. /\ pc[m] = "accepted" /\ pc'[m] = "done" /\ (\A k \in Links : k # m => pc'[k] = pc[k])
      /\ Leave(m) /\ running' = RunningAfter(m, outcome[m])
      /\ waiting' = WaitingAfter(m, outcome[m])
      /\ UNCHANGED <<piRun, inRun, events, ahead>>
  BY Apart DEF Accepted, Go, piVars, IInv, Types, PcType
<1>2. outcome[m] = "queued" => m \in queued
  BY <1>1 DEF IInv, WaitOK
<1>3. queued' = queued
  BY <1>2 DEF Accepted, IInv, Types, SetTypes
<1>4. Range(waiting') = Range(waiting) \/ Range(waiting') = Range(waiting) \ {m}
  <2>1. CASE outcome[m] \in {"handled", "refused"}
    <3>1. waiting' = Without(waiting, {m})
      BY <1>1, <2>1 DEF WaitingAfter
    <3>2. waiting \in Seq(Msgs)
      BY DEF IInv, Types, ListTypes
    <3> QED BY <3>1, <3>2, WithoutIs
  <2>2. CASE outcome[m] \notin {"handled", "refused"}
    BY <1>1, <1>2, <2>2 DEF WaitingAfter
  <2> QED BY <2>1, <2>2
<1>5. \A n \in Msgs : n # m => (Live(n)' <=> Live(n))
  BY <1>1, <1>3, <1>4, Apart DEF Live, Dead, Waits
<1>6. ~Live(m)'
  BY <1>1 DEF Live
<1>7. EndNext' <=> EndNext
  BY <1>1 DEF EndNext
<1>8. StartToCome' <=> StartToCome
  BY <1>1 DEF StartToCome
<1>9. UnderWay' <=> UnderWay
  BY <1>1, Apart DEF UnderWay
<1>10. running \in BOOLEAN /\ piRun \in BOOLEAN
  BY DEF IInv, Types, PlainTypes
<1>11. running' => piRun
  BY <1>1, <1>10 DEF RunningAfter
<1>12. piRun /\ running => running'
  <2>1. piRun => (outcome[m] = "refused" => m \in queued)
    BY <1>1 DEF IInv, ChainOK, IdleOK
  <2> QED BY <1>1, <2>1 DEF RunningAfter
<1>13. MarksOK'
  <2>1. ToldOK'
    BY <1>1, <1>7, <1>8 DEF ShownInv, MarksOK, ToldOK
  <2>2. RunningOK'
    BY <1>1, <1>11 DEF RunningOK
  <2>3. WorkOK'
    BY <1>1, <1>8, <1>9, <1>12 DEF ShownInv, MarksOK, WorkOK
  <2> QED BY <2>1, <2>2, <2>3 DEF MarksOK
<1>14. \A j \in ahead[m] : Out(j)
  BY <1>1 DEF IInv, ChainOK, TurnOK
<1>15. ASSUME NEW s \in Stops PROVE LinkedAt(s)'
  <2>1. pc'[s] = pc[s]
    BY <1>1, Apart
  <2>2. pc[s] \in {"drop", "abort"} /\ Linked(s) => Linked(s)'
    BY <1>1, <1>14, LeavesAlone
  <2>3. Related(s) => Related(s)'
    BY <1>1, <1>5, <1>6 DEF Related
  <2>4. Handed => Handed'
    <3>1. Range(waiting) \subseteq Msgs
      BY WaitsInMsgs DEF IInv
    <3> QED BY <1>1, <1>4, <3>1, Apart DEF Handed
  <2>5. \A n \in Msgs : pc'[n] = "handing" => pc[n] = "handing"
    BY <1>1, Apart
  <2> QED BY <1>1, <1>7, <2>1, <2>2, <2>3, <2>4, <2>5, LinkedKeeps DEF ShownInv
<1> QED BY <1>13, <1>15 DEF ShownInv, LinkedOK

\* pi's answer to a message: it is on its way still, and the Stops with it.
LEMMA AnswerShown ==
  ASSUME IInv, ShownInv, NEW m \in Msgs, pc[m] = "handing", pc'[m] = "accepted", \A k \in Links : k # m => pc'[k] = pc[k],
         ~Settling, UNCHANGED <<waiting, queued, tail, ahead>>, EndNext => EndNext',
         piRun' => piRun \/ \A s \in Stops : pc[s] \notin {"settle", "over"}
  PROVE  LinkedOK' /\ (UnderWay' <=> UnderWay) /\ (Lively => Lively')
<1>1. \A n \in Msgs : Live(n)' <=> Live(n)
  BY Apart DEF Live, Dead, Waits
<1>2. (UnderWay' <=> UnderWay) /\ (Lively => Lively')
  <2>1. UnderWay' <=> UnderWay
    BY Apart DEF UnderWay
  <2>2. Lively => Lively'
    BY <1>1, Apart DEF Lively
  <2> QED BY <2>1, <2>2
<1>3. ASSUME NEW s \in Stops PROVE LinkedAt(s)'
  <2>1. pc'[s] = pc[s] /\ (Linked(s)' <=> Linked(s)) /\ LinkedAt(s)
    BY Apart DEF Linked, ShownInv, LinkedOK
  <2>2. Related(s) => Related(s)'
    BY <1>1 DEF Related
  <2>3. pc[s] # "over" /\ (pc[s] = "drop" => ~Handed) /\ (pc[s] = "abort" => piRun)
    BY Apart DEF Settling
  <2>4. pc[s] \in {"drop", "abort"} => Linked(s)
    BY <2>1, <2>3 DEF LinkedAt
  <2>5. \A n \in Msgs : pc'[n] = "handing" => pc[n] = "handing"
    BY Apart
  <2> QED BY <2>1, <2>2, <2>3, <2>4, <2>5 DEF LinkedAt
<1> QED BY <1>2, <1>3 DEF LinkedOK

\* It goes into the run that is going.
LEMMA PiQueuesShown == ASSUME IInv, ShownInv, NEW m \in Msgs, PiQueues(m) PROVE ShownInv'
<1>1. /\ pc[m] = "handing" /\ pc'[m] = "accepted" /\ (\A k \in Links : k # m => pc'[k] = pc[k]) /\ ~Settling /\ piRun
      /\ events' = events \o <<Event("queue", None, queue')>>
      /\ UNCHANGED <<waiting, queued, tail, ahead, piRun, inRun, running>>
  BY Apart DEF PiQueues, Go, Say, manager, IInv, Types, PcType
<1>2. queue' \in Queues
  BY DEF PiQueues, IInv, Types, ListTypes, MapTypes, Queues
<1>3. (EndNext' <=> EndNext) /\ (StartToCome' <=> StartToCome)
  BY <1>1, <1>2, SaysQueueOnly DEF IInv
<1>4. LinkedOK' /\ (UnderWay' <=> UnderWay) /\ (Lively => Lively')
  BY <1>1, <1>3, AnswerShown
<1>5. MarksOK'
  BY <1>1, <1>3, <1>4, MarksKeep DEF ShownInv
<1> QED BY <1>4, <1>5 DEF ShownInv

\* Its run begins with no Stop waiting for one to end.
LEMMA PiStartsShown == ASSUME IInv, ShownInv, NEW m \in Msgs, PiStarts(m) PROVE ShownInv'
<1>1. /\ pc[m] = "handing" /\ pc'[m] = "accepted" /\ (\A k \in Links : k # m => pc'[k] = pc[k]) /\ ~Settling /\ piRun'
      /\ events' = events \o <<Event("start", None, Empty), Event("read", m, Empty)>>
      /\ UNCHANGED <<waiting, queued, tail, ahead, inRun, running>>
  BY Apart DEF PiStarts, Go, Say, manager, IInv, Types, PcType
<1> DEFINE e == Event("start", None, Empty)
           d == Event("read", m, Empty)
<1>2. e \in Events /\ e.kind = "start" /\ d \in Events /\ events' = events \o <<e, d>>
  BY <1>1 DEF Event, Events, Empty, Queues
<1> HIDE DEF e, d
<1>3. <<e, d>> \in Seq(Events) /\ <<e, d>> # <<>> /\ <<e, d>>[1].kind = "start" /\ 1 \in 1..Len(<<e, d>>)
  BY <1>2
<1>4. (EndNext' <=> EndNext) /\ StartToCome'
  BY <1>2, <1>3, SaidStart DEF IInv
<1>5. \A s \in Stops : pc[s] \notin {"settle", "over"}
  BY <1>1 DEF ShownInv, LinkedOK, LinkedAt
<1>6. LinkedOK'
  BY <1>1, <1>4, <1>5, AnswerShown
<1>7. MarksOK'
  BY <1>1, <1>4 DEF MarksOK, ToldOK, RunningOK, WorkOK
<1> QED BY <1>6, <1>7 DEF ShownInv

\* An extension takes it, or its preflight fails, beside whatever run there is.
LEMMA PiDeclinesShown == ASSUME IInv, ShownInv, NEW m \in Msgs, PiDeclines(m) PROVE ShownInv'
<1>1. /\ pc[m] = "handing" /\ pc'[m] = "accepted" /\ (\A k \in Links : k # m => pc'[k] = pc[k]) /\ ~Settling
      /\ UNCHANGED <<waiting, queued, tail, ahead, piRun, inRun, running, events>>
  BY Apart DEF PiDeclines, Go, manager, piVars, IInv, Types, PcType
<1>2. EndNext' <=> EndNext
  BY <1>1 DEF EndNext
<1>3. StartToCome' <=> StartToCome
  BY <1>1 DEF StartToCome
<1>4. LinkedOK' /\ (UnderWay' <=> UnderWay) /\ (Lively => Lively')
  BY <1>1, <1>2, AnswerShown
<1>5. MarksOK'
  BY <1>1, <1>2, <1>3, <1>4, MarksKeep DEF ShownInv
<1> QED BY <1>4, <1>5 DEF ShownInv

\* Nothing happens to what is on its way, and no run begins.
LEMMA AllStay ==
  ASSUME IInv, ShownInv,
         \A s \in Stops : pc'[s] = pc[s] \/ {pc[s], pc'[s]} \cap {"drop", "abort", "settle", "over"} = {},
         \A m \in Msgs : pc'[m] = pc[m], UNCHANGED <<queued, tail, ahead>>,
         Range(waiting') \subseteq Range(waiting), \A m \in Range(waiting) : pc[m] = "ahead" => m \in Range(waiting'),
         piRun' => piRun, EndNext => EndNext'
  PROVE  LinkedOK' /\ (UnderWay' <=> UnderWay) /\ (Lively' <=> Lively)
<1>1. ASSUME NEW n \in Msgs PROVE Live(n)' <=> Live(n)
  <2>1. pc[n] = "ahead" => (n \in Range(waiting') <=> n \in Range(waiting))
    OBVIOUS
  <2> QED BY <2>1 DEF Live, Dead, Waits
<1>2. UnderWay' <=> UnderWay
  BY DEF UnderWay
<1>3. Lively' <=> Lively
  BY <1>1 DEF Lively
<1>4. ASSUME NEW s \in Stops PROVE LinkedAt(s)'
  <2>1. (Linked(s)' <=> Linked(s)) /\ LinkedAt(s)
    BY DEF Linked, ShownInv, LinkedOK
  <2>2. Related(s) => Related(s)'
    BY <1>1 DEF Related
  <2>3. Handed => Handed'
    BY WaitsInMsgs DEF Handed, IInv
  <2>4. \A m \in Msgs : pc'[m] = "handing" => pc[m] = "handing"
    OBVIOUS
  <2> QED BY <2>1, <2>2, <2>3, <2>4, LinkedKeeps DEF ShownInv
<1> QED BY <1>2, <1>3, <1>4 DEF LinkedOK

\* pi goes on with its queue, in the run it is in.
LEMMA PiReadsShown == ASSUME IInv, ShownInv, PiReads PROVE ShownInv'
<1>1. /\ NextTurn /\ piRun /\ UNCHANGED <<waiting, queued, tail, ahead, piRun, inRun, running, pc>>
  BY DEF PiReads, manager, reqs
<1>2. PICK l \in Lanes : /\ queue[l] # <<>> /\ queue' = [queue EXCEPT ![l] = Tail(queue[l])]
                         /\ Say(<<Event("queue", None, queue'), Event("read", Head(queue[l]), Empty)>>)
  BY DEF PiReads
<1>3. queue \in Queues
  BY DEF IInv, Types, ListTypes
<1>4. queue' \in Queues /\ Head(queue[l]) \in Msgs /\ Empty \in Queues
  BY <1>2, <1>3, TailIn DEF Queues, Empty
<1> DEFINE e == Event("queue", None, queue')
           d == Event("read", Head(queue[l]), Empty)
<1>5. e \in Events /\ e.kind = "queue" /\ d \in Events /\ d.kind = "read" /\ events' = events \o <<e, d>>
  BY <1>2, <1>4 DEF Say, Event, Events
<1> HIDE DEF e, d
<1>6. <<e, d>> \in Seq(Events) /\ <<e, d>> # <<>> /\ <<e, d>>[1].kind # "settled" /\ \A i \in 1..Len(<<e, d>>) : <<e, d>>[i].kind # "start"
  BY <1>5
<1>7. (EndNext' <=> EndNext) /\ (StartToCome' <=> StartToCome)
  BY <1>5, <1>6, SaidStart DEF IInv
<1>8. LinkedOK' /\ (UnderWay' <=> UnderWay) /\ (Lively' <=> Lively)
  BY <1>1, <1>7, AllStay
<1>9. MarksOK'
  BY <1>1, <1>7, <1>8, MarksKeep DEF ShownInv
<1> QED BY <1>8, <1>9 DEF ShownInv

\* The end of a run is the only thing that is to be heard of it then.
LEMMA PiSettlesShown == ASSUME IInv, ShownInv, PiSettles PROVE ShownInv'
<1>1. /\ events = <<>> /\ ~piRun' /\ events' = events \o <<Event("settled", None, Empty)>>
      /\ UNCHANGED <<waiting, queued, tail, ahead, inRun, running, pc>>
  BY DEF PiSettles, NextTurn, Say, manager, reqs
<1>2. events' = <<Event("settled", None, Empty)>>
  BY <1>1
<1>3. EndNext' /\ ~StartToCome'
  BY <1>2 DEF EndNext, StartToCome, Event
<1>4. LinkedOK'
  BY <1>1, <1>3, AllStay
<1>5. MarksOK'
  BY <1>1, <1>3 DEF MarksOK, ToldOK, RunningOK, WorkOK
<1> QED BY <1>4, <1>5 DEF ShownInv

\* pi's events.
LEMMA HearStartShown == ASSUME IInv, ShownInv, HearStart PROVE ShownInv'
<1>1. /\ events # <<>> /\ events[1].kind = "start" /\ events' = Tail(events) /\ inRun' = TRUE /\ running' = TRUE
      /\ UNCHANGED <<waiting, queued, tail, ahead, piRun, pc>>
  BY DEF HearStart, Hear, reqs
<1>2. 1 \in 1..Len(events) /\ ~EndNext
  BY <1>1, Heard DEF IInv, EndNext
<1>3. StartToCome
  BY <1>1, <1>2 DEF StartToCome
<1>4. piRun
  BY <1>3 DEF ShownInv, MarksOK, ToldOK
<1>5. ~EndNext'
  BY <1>1, NextIsNotTheEnd
<1>6. MarksOK'
  BY <1>1, <1>4, <1>5 DEF MarksOK, ToldOK, RunningOK, WorkOK
<1>7. LinkedOK'
  BY <1>1, <1>2, AllStay
<1> QED BY <1>6, <1>7 DEF ShownInv

\* What its queue holds has nothing to do with the marks.
LEMMA HearQueueShown == ASSUME IInv, ShownInv, HearQueue PROVE ShownInv'
<1>1. /\ events # <<>> /\ events[1].kind = "queue" /\ events' = Tail(events)
      /\ UNCHANGED <<waiting, queued, tail, ahead, piRun, inRun, running, pc>>
  BY DEF HearQueue, Hear, reqs
<1>2. ~EndNext
  BY <1>1 DEF EndNext
<1>3. ~EndNext' /\ (StartToCome' <=> StartToCome)
  BY <1>1, HeardStart
<1>4. LinkedOK' /\ (UnderWay' <=> UnderWay) /\ (Lively' <=> Lively)
  BY <1>1, <1>2, AllStay
<1>5. MarksOK'
  BY <1>1, <1>2, <1>3, <1>4, MarksKeep DEF ShownInv
<1> QED BY <1>4, <1>5 DEF ShownInv

\* Nor has what it read, which is no longer on its way.
LEMMA HearReadShown == ASSUME Tidy, IInv, ShownInv, HearRead PROVE ShownInv'
<1>1. /\ events # <<>> /\ events[1].kind = "read" /\ events' = Tail(events)
      /\ UNCHANGED <<queued, tail, ahead, piRun, inRun, running, pc>>
  BY DEF HearRead, Hear, reqs
<1>2. ~EndNext
  BY <1>1 DEF EndNext
<1>3. ~EndNext' /\ (StartToCome' <=> StartToCome)
  BY <1>1, HeardStart
<1>4. PICK S : Place(S) /\ S \cap Range(waiting) \subseteq Passed
  BY ReadIsPlaced
<1>5. Range(waiting') = Range(waiting) \ S
  BY <1>4, WithoutIs DEF Place, IInv, Types, ListTypes
<1>6. \A m \in Passed : pc[m] # "ahead"
  BY DEF Passed, IInv, AccountOK
<1>7. LinkedOK' /\ (UnderWay' <=> UnderWay) /\ (Lively' <=> Lively)
  BY <1>1, <1>2, <1>4, <1>5, <1>6, AllStay
<1>8. MarksOK'
  BY <1>1, <1>2, <1>3, <1>7, MarksKeep DEF ShownInv
<1> QED BY <1>7, <1>8 DEF ShownInv

\* The end of a run: another may have begun, and a start is to come then.
LEMMA HearSettledShown == ASSUME Tidy, IInv, ShownInv, HearSettled PROVE ShownInv'
<1>1. /\ events # <<>> /\ events[1].kind = "settled" /\ events' = Tail(events)
      /\ Place(Settled) /\ inRun' = FALSE /\ running' = (running /\ UnderWay)
      /\ pc' = [k \in Links |-> IF k \in Stops /\ pc[k] = "settle" THEN "over" ELSE pc[k]]
      /\ UNCHANGED <<queued, tail, ahead, piRun>>
  BY DEF HearSettled, Hear
<1>2. EndNext
  BY <1>1 DEF EndNext
<1>3. ~EndNext' /\ (StartToCome' <=> StartToCome)
  BY <1>1, HeardStart
<1>4. Range(waiting') = Range(waiting) \ Settled
  BY <1>1, WithoutIs DEF Place, IInv, Types, ListTypes
<1>5. \A m \in Settled : pc[m] # "ahead"
  <2>1. Settled \subseteq Passed
    BY <1>1, SettledIsRead DEF Tidy
  <2> QED BY <2>1 DEF Passed, IInv, AccountOK
<1>6. /\ \A m \in Msgs : pc'[m] = pc[m]
      /\ \A s \in Stops : pc'[s] = IF pc[s] = "settle" THEN "over" ELSE pc[s]
  BY <1>1, Apart
<1>7. UnderWay => UnderWay'
  BY <1>6 DEF UnderWay
<1>8. MarksOK'
  <2>1. ToldOK'
    BY <1>1, <1>3 DEF ToldOK, ShownInv, MarksOK
  <2>2. RunningOK'
    BY <1>1, <1>7 DEF RunningOK
  <2>3. WorkOK'
    BY <1>1, <1>2, <1>3 DEF WorkOK, ShownInv, MarksOK, ToldOK
  <2> QED BY <2>1, <2>2, <2>3 DEF MarksOK
<1>9. ASSUME NEW s \in Stops PROVE LinkedAt(s)'
  <2>1. \A n \in Msgs : Live(n)' => Live(n)
    BY <1>1, <1>4, <1>5, <1>6 DEF Live, Dead, Waits
  <2>2. (Linked(s)' <=> Linked(s)) /\ LinkedAt(s)
    BY <1>1 DEF Linked, ShownInv, LinkedOK
  <2>3. Related(s) => Related(s)'
    BY <1>1, <2>1 DEF Related
  <2>4. Handed => Handed'
    BY <1>4, <1>6, WaitsInMsgs DEF Handed, IInv
  <2>5. \A n \in Msgs : pc'[n] = "handing" => pc[n] = "handing"
    BY <1>6
  <2>6. CASE pc[s] = "settle"
    <3>1. pc'[s] = "over"
      BY <1>6, <2>6
    <3> QED BY <1>1, <2>2, <2>5, <2>6, <3>1 DEF LinkedAt
  <2>7. CASE pc[s] # "settle"
    <3>1. pc'[s] = pc[s]
      BY <1>6, <2>7
    <3> QED BY <1>1, <2>2, <2>3, <2>4, <2>5, <2>7, <3>1, LinkedKeeps DEF ShownInv
  <2> QED BY <2>6, <2>7
<1> QED BY <1>8, <1>9 DEF ShownInv, LinkedOK

\* The Stop button.
LEMMA StopBeginsShown == ASSUME IInv, ShownInv, NEW s \in Stops, StopBegins(s) PROVE ShownInv'
<1>1. /\ NextTurn /\ s \in Links /\ pc[s] = "idle" /\ pc'[s] = "drop" /\ (\A k \in Links : k # s => pc'[k] = pc[k])
      /\ tail' = s /\ ahead'[s] = Chain /\ (\A k \in Links : k # s => ahead'[k] = ahead[k])
      /\ UNCHANGED <<piRun, inRun, running, events, queued, waiting>>
  BY Apart DEF StopBegins, Go, piVars, IInv, Types, PcType, MapTypes
<1>2. EndNext' <=> EndNext
  BY <1>1 DEF EndNext
<1>3. StartToCome' <=> StartToCome
  BY <1>1 DEF StartToCome
<1>4. UnderWay'
  BY <1>1 DEF UnderWay
<1>5. MarksOK'
  BY <1>1, <1>2, <1>3, <1>4, MarksKeep DEF ShownInv
<1>6. \A n \in Msgs : (Live(n)' <=> Live(n)) /\ pc'[n] = pc[n] /\ ahead'[n] = ahead[n]
  BY <1>1, Apart DEF Live, Dead, Waits
<1>7. ASSUME NEW t \in Stops PROVE LinkedAt(t)'
  <2>1. CASE t = s
    <3>1. Related(s)'
      <4>1. \A n \in Msgs : Live(n) => n \in Chain
        BY DEF IInv, ChainOK, Held, Chain
      <4> QED BY <1>1, <1>6, <4>1 DEF Related
    <3>2. Linked(s)'
      BY <1>1, Apart DEF Linked
    <3> QED BY <1>1, <2>1, <3>1, <3>2 DEF LinkedAt
  <2>2. CASE t # s
    <3>1. t \in Links /\ pc'[t] = pc[t] /\ ahead'[t] = ahead[t]
      BY <1>1, <2>2, Apart
    <3>2. pc[t] # "settle" /\ (pc[t] = "drop" => ~Handed)
      BY <1>1, TurnLinked DEF ShownInv
    <3>3. Linked(t) => Linked(t)'
      BY <1>1, Apart DEF Linked, Chain
    <3>4. Related(t) => Related(t)'
      BY <1>6, <3>1 DEF Related
    <3> QED BY <1>1, <1>6, <3>1, <3>2, <3>3, <3>4, LinkedKeeps DEF ShownInv
  <2> QED BY <2>1, <2>2
<1> QED BY <1>5, <1>7 DEF ShownInv, LinkedOK

\* What is being handed over is in pi as a Stop goes on, and nothing follows it.
LEMMA StopDropsShown == ASSUME Tidy, IInv, ShownInv, NEW s \in Stops, StopDrops(s) PROVE ShownInv'
<1>1. /\ s \in Links /\ pc[s] = "drop" /\ pc'[s] = "abort" /\ (\A k \in Links : k # s => pc'[k] = pc[k]) /\ Handed
      /\ events' = events \o <<Event("queue", None, Empty)>> \/ events' = events
      /\ waiting' = Without(waiting, sentBefore[s])
      /\ UNCHANGED <<piRun, inRun, running, tail, ahead, queued>>
  BY Apart DEF StopDrops, Go, Say, Tidy, IInv, Types, PcType
<1>2. (EndNext' <=> EndNext) /\ (StartToCome' <=> StartToCome)
  <2>1. CASE events' = events
    BY <2>1 DEF EndNext, StartToCome
  <2>2. CASE events' = events \o <<Event("queue", None, Empty)>>
    <3>1. Empty \in Queues
      BY DEF Empty, Queues
    <3> QED BY <2>2, <3>1, SaysQueueOnly DEF IInv
  <2> QED BY <1>1, <2>1, <2>2
<1>3. UnderWay'
  BY <1>1 DEF UnderWay
<1>4. MarksOK'
  BY <1>1, <1>2, <1>3, MarksKeep DEF ShownInv
<1>5. Range(waiting') \subseteq Range(waiting)
  BY <1>1, WithoutIs DEF IInv, Types, ListTypes
<1>6. \A n \in Msgs : (Live(n)' => Live(n)) /\ pc'[n] = pc[n]
  BY <1>1, <1>5, Apart DEF Live, Dead, Waits
<1>7. ASSUME NEW t \in Stops PROVE LinkedAt(t)'
  <2>1. LinkedAt(t) /\ (Linked(t)' <=> Linked(t)) /\ (Related(t) => Related(t)')
    BY <1>1, <1>6 DEF ShownInv, LinkedOK, Linked, Related
  <2>2. CASE t = s
    <3>1. ASSUME NEW n \in Msgs, pc[n] = "handing" PROVE FALSE
      <4>1. n \notin queued
        BY <1>1, <3>1, HandedIs
      <4>2. Live(n)
        BY <3>1 DEF Live, Dead
      <4>3. n \in ahead[s] \/ s \in ahead[n]
        BY <1>1, <2>1, <2>2, <4>2 DEF LinkedAt, Related
      <4>4. DropOK(s) /\ TurnOK
        BY <1>1 DEF IInv, ChainOK, StopsOK
      <4> QED BY <1>1, <3>1, <4>1, <4>3, <4>4 DEF DropOK, TurnOK, Out
    <3> QED BY <1>1, <1>6, <2>1, <2>2, <3>1 DEF LinkedAt
  <2>3. CASE t # s
    <3>1. pc'[t] = pc[t]
      BY <1>1, <2>3, Apart
    <3>2. Handed'
      BY <1>1, <1>5, <1>6, WaitsInMsgs DEF Handed, IInv
    <3> QED BY <1>1, <1>2, <1>6, <2>1, <3>1, <3>2, LinkedKeeps DEF ShownInv
  <2> QED BY <2>2, <2>3
<1> QED BY <1>4, <1>7 DEF ShownInv, LinkedOK

\* pi is idle: the end of its run, if it was in one, is still to be heard.
LEMMA StopAbortsShown == ASSUME IInv, ShownInv, NEW s \in Stops, StopAborts(s) PROVE ShownInv'
<1>1. /\ s \in Links /\ pc[s] = "abort" /\ ~piRun /\ (\A k \in Links : k # s => pc'[k] = pc[k])
      /\ pc'[s] = IF inRun THEN "settle" ELSE "over"
      /\ UNCHANGED <<waiting, queued, tail, ahead, piRun, inRun, running, events>>
  BY Apart DEF StopAborts, Go, manager, piVars, IInv, Types, PcType
<1>2. EndNext' <=> EndNext
  BY <1>1 DEF EndNext
<1>3. StartToCome' <=> StartToCome
  BY <1>1 DEF StartToCome
<1>4. UnderWay'
  BY <1>1 DEF UnderWay
<1>5. MarksOK'
  BY <1>1, <1>2, <1>3, <1>4, MarksKeep DEF ShownInv
<1>6. \A n \in Msgs : (Live(n)' => Live(n)) /\ pc'[n] = pc[n]
  BY <1>1, Apart DEF Live, Dead, Waits
<1>7. inRun => EndNext
  BY <1>1 DEF ShownInv, MarksOK, ToldOK
<1>8. ASSUME NEW t \in Stops PROVE LinkedAt(t)'
  <2>1. LinkedAt(t) /\ (Linked(t)' <=> Linked(t)) /\ (Related(t) => Related(t)')
    BY <1>1, <1>6 DEF ShownInv, LinkedOK, Linked, Related
  <2>2. CASE t = s
    <3>1. pc'[t] \notin {"drop", "abort"} /\ (pc'[t] = "settle" => EndNext')
      BY <1>1, <1>2, <1>7, <2>2
    <3>2. \A n \in Msgs : pc'[n] # "handing"
      BY <1>1, <1>6, <2>1, <2>2 DEF LinkedAt
    <3> QED BY <1>1, <3>1, <3>2 DEF LinkedAt
  <2>3. CASE t # s
    <3>1. pc'[t] = pc[t]
      BY <1>1, <2>3, Apart
    <3>2. Handed => Handed'
      BY <1>1, <1>6, WaitsInMsgs DEF Handed, IInv
    <3> QED BY <1>1, <1>2, <1>6, <2>1, <3>1, <3>2, LinkedKeeps DEF ShownInv
  <2> QED BY <2>2, <2>3
<1> QED BY <1>5, <1>8 DEF ShownInv, LinkedOK

\* The chat is marked idle, and pi is.
LEMMA StopEndsShown == ASSUME Tidy, IInv, ShownInv, NEW s \in Stops, StopEnds(s) PROVE ShownInv'
<1>1. /\ s \in Links /\ pc[s] = "over" /\ (\A k \in Links : k # s => pc'[k] = pc[k]) /\ pc'[s] \in {"done", "again"}
      /\ Leave(s) /\ running' = FALSE
      /\ UNCHANGED <<waiting, queued, ahead, piRun, inRun, events>>
  BY Apart DEF StopEnds, Go, piVars, Tidy, IInv, Types, PcType
<1>2. EndNext' <=> EndNext
  BY <1>1 DEF EndNext
<1>3. StartToCome' <=> StartToCome
  BY <1>1 DEF StartToCome
<1>4. ~piRun
  BY <1>1 DEF ShownInv, LinkedOK, LinkedAt
<1>5. MarksOK'
  BY <1>1, <1>2, <1>3, <1>4 DEF ShownInv, MarksOK, ToldOK, RunningOK, WorkOK
<1>6. \A n \in Msgs : (Live(n)' => Live(n)) /\ pc'[n] = pc[n]
  BY <1>1, Apart DEF Live, Dead, Waits
<1>7. ASSUME NEW t \in Stops PROVE LinkedAt(t)'
  <2>1. CASE t = s
    BY <1>1, <2>1 DEF LinkedAt
  <2>2. CASE t # s
    <3>1. pc'[t] = pc[t]
      BY <1>1, <2>2, Apart
    <3>2. LinkedAt(t) /\ (Related(t) => Related(t)')
      BY <1>1, <1>6 DEF ShownInv, LinkedOK, Related
    <3>3. (Handed => Handed') /\ \A n \in Msgs : pc'[n] = "handing" => pc[n] = "handing"
      BY <1>1, <1>6, WaitsInMsgs DEF Handed, IInv
    <3>4. pc[t] = "drop" /\ t \in ahead[s] => Handed
      BY <1>1 DEF IInv, ChainOK, DropsOK, PastOK
    <3>5. tail # s => (Linked(t)' <=> Linked(t))
      BY <1>1 DEF Leave, Linked
    <3>6. tail = s /\ Linked(t) => t \in ahead[s]
      BY <2>2 DEF Linked
    <3> QED BY <1>1, <1>2, <1>4, <3>1, <3>2, <3>3, <3>4, <3>5, <3>6 DEF LinkedAt
  <2> QED BY <2>1, <2>2
<1> QED BY <1>5, <1>7 DEF ShownInv, LinkedOK

\* A press that takes nothing back, and what it sends again.
LEMMA AsideShown ==
  ASSUME IInv, ShownInv, NEW s \in Stops, TakeBegins(s) \/ TakeRefused(s) \/ SentAgain(s) \/ TakeEnds(s)
  PROVE  ShownInv'
<1>1. UNCHANGED <<waiting, queued, tail, ahead, piRun, inRun, running, events>>
  BY DEF TakeBegins, TakeRefused, SentAgain, TakeEnds, manager, piVars
<1>2. /\ \A m \in Msgs : pc'[m] = pc[m]
      /\ \A t \in Stops : pc'[t] = pc[t] \/ {pc[t], pc'[t]} \cap {"drop", "abort", "settle", "over"} = {}
  <2>1. CASE SentAgain(s)
    BY <2>1 DEF SentAgain
  <2>2. CASE TakeBegins(s) \/ TakeRefused(s) \/ TakeEnds(s)
    <3>1. PICK p \in {"handed", "done"} : pc' = [pc EXCEPT ![s] = p]
      BY <2>2 DEF TakeBegins, TakeRefused, TakeEnds, Go
    <3>2. pc[s] \in {"idle", "handed", "again"}
      BY <2>2 DEF TakeBegins, TakeRefused, TakeFinds, TakeEnds
    <3>3. pc'[s] = p /\ \A k \in Links : k # s => pc'[k] = pc[k]
      BY <3>1, Apart DEF IInv, Types, PcType
    <3> QED BY <3>2, <3>3, Apart
  <2> QED BY <2>1, <2>2
<1>3. EndNext' <=> EndNext
  BY <1>1 DEF EndNext
<1>4. StartToCome' <=> StartToCome
  BY <1>1 DEF StartToCome
<1>5. LinkedOK' /\ (UnderWay' <=> UnderWay) /\ (Lively' <=> Lively)
  BY <1>1, <1>2, <1>3, AllStay
<1>6. MarksOK'
  BY <1>1, <1>3, <1>4, <1>5, MarksKeep DEF ShownInv
<1> QED BY <1>5, <1>6 DEF ShownInv

\* A message is sent again: the chat is marked running.
LEMMA SendsAgainShown == ASSUME IInv, ShownInv, NEW s \in Stops, SendsAgain(s) PROVE ShownInv'
<1>1. PICK m \in Msgs : m = Head(again[s])
  BY TailIn DEF SendsAgain, IInv, Types, MapTypes
<1>2. /\ pc[m] = "again" /\ pc'[m] = "prompting" /\ (\A k \in Links : k # m => pc'[k] = pc[k]) /\ running' = TRUE
      /\ UNCHANGED <<waiting, queued, tail, ahead, piRun, inRun, events>>
  BY <1>1, Apart DEF SendsAgain, Go, piVars, IInv, Types, PcType
<1>3. EndNext' <=> EndNext
  BY <1>2 DEF EndNext
<1>4. StartToCome' <=> StartToCome
  BY <1>2 DEF StartToCome
<1>5. Lively'
  BY <1>2 DEF Lively
<1>6. MarksOK'
  BY <1>2, <1>3, <1>4, <1>5 DEF ShownInv, MarksOK, ToldOK, RunningOK, WorkOK
<1>7. \A n \in Msgs : Live(n)' => Live(n)
  BY <1>2, Apart DEF Live, Dead, Waits
<1>8. ASSUME NEW t \in Stops PROVE LinkedAt(t)'
  <2>1. pc'[t] = pc[t] /\ (Linked(t)' <=> Linked(t)) /\ (Related(t) => Related(t)')
    BY <1>2, <1>7, Apart DEF Linked, Related
  <2>2. Handed => Handed'
    BY <1>2, WaitsInMsgs, Apart DEF Handed, IInv
  <2>3. \A n \in Msgs : pc'[n] = "handing" => pc[n] = "handing"
    BY <1>2, Apart
  <2> QED BY <1>2, <1>3, <2>1, <2>2, <2>3, LinkedKeeps DEF ShownInv
<1> QED BY <1>6, <1>8 DEF ShownInv, LinkedOK

\* What is taken back was in pi's queue, and not on its way there.
LEMMA TakesBackShown == ASSUME Tidy, IInv, ShownInv, NEW s \in Stops, TakesBack(s) PROVE ShownInv'
<1>0. PICK P : P = Range(waiting) \cap inPi
  OBVIOUS
<1>1. P \subseteq Msgs /\ \A m \in P : pc[m] = "done"
  BY <1>0, TakesBackIs
<1>2. PICK list \in Seq(Msgs), phase \in {"again", "drop"} :
        /\ Range(list) \subseteq P
        /\ pc' = [k \in Links |-> CASE k = s -> phase
                                    [] k \in Range(list) -> "again"
                                    [] k \in P \ Range(list) -> "gone"
                                    [] OTHER -> pc[k]]
        /\ \/ /\ phase = "again"
              /\ ahead' = [k \in Links |-> ahead[k] \ P]
              /\ UNCHANGED tail
           \/ /\ phase = "drop"
              /\ ahead' = [k \in Links |-> (IF k = s THEN Chain ELSE ahead[k]) \ P] /\ tail' = s
  BY <1>0, TakesBackIs
<1>3. /\ s \in Links /\ pc[s] = "handed"
      /\ waiting' = Without(waiting, P) /\ queued' = queued \ P
      /\ events' = events \o <<Event("queue", None, Empty)>>
      /\ UNCHANGED <<inRun, running, piRun>>
  BY <1>0, Apart DEF TakesBack, TakeFinds, Say
<1>4. /\ pc'[s] = phase
      /\ \A m \in P : pc'[m] \in {"again", "gone"}
      /\ \A m \in Msgs : m \notin P => pc'[m] = pc[m]
      /\ \A t \in Stops : t # s => pc'[t] = pc[t]
  BY <1>1, <1>2, <1>3, Apart
<1>5. Range(waiting') = Range(waiting) \ P
  BY <1>3, WithoutIs DEF IInv, Types, ListTypes
<1>6. \A n \in Msgs : Live(n)' <=> Live(n)
  BY <1>1, <1>3, <1>4, <1>5 DEF Live, Dead, Waits
<1>7. (EndNext' <=> EndNext) /\ (StartToCome' <=> StartToCome)
  <2>1. Empty \in Queues
    BY DEF Empty, Queues
  <2> QED BY <1>3, <2>1, SaysQueueOnly DEF IInv
<1>8. Lively => Lively'
  BY <1>1, <1>4, <1>6 DEF Lively
<1>9. UnderWay => UnderWay'
  BY <1>3, <1>4 DEF UnderWay
<1>10. MarksOK'
  BY <1>3, <1>7, <1>8, <1>9, MarksKeep DEF ShownInv
<1>11. Handed => Handed'
  BY <1>4, <1>5, WaitsInMsgs DEF Handed, IInv
<1>12. \A n \in Msgs : pc'[n] = "handing" => pc[n] = "handing"
  BY <1>4

\* Nobody leaves the chain, and the press is behind it.
<1>13. /\ ahead \in [Links -> SUBSET Links] /\ tail \in Links \cup {None}
       /\ \A k \in Links : k # s => ahead'[k] = ahead[k] \ P
       /\ phase = "drop" => ahead'[s] = Chain \ P /\ tail' = s
       /\ phase = "again" => ahead'[s] = ahead[s] \ P /\ tail' = tail
  <2>1. ahead \in [Links -> SUBSET Links] /\ tail \in Links \cup {None}
    BY DEF IInv, Types, MapTypes
  <2>2. CASE phase = "again"
    <3>1. ahead' = [k \in Links |-> ahead[k] \ P] /\ UNCHANGED tail
      BY <1>2, <2>2
    <3> QED BY <1>3, <2>1, <2>2, <3>1
  <2>3. CASE phase = "drop"
    <3>1. ahead' = [k \in Links |-> (IF k = s THEN Chain ELSE ahead[k]) \ P] /\ tail' = s
      BY <1>2, <2>3
    <3> QED BY <1>3, <2>1, <2>3, <3>1
  <2> QED BY <2>2, <2>3
<1>14. ASSUME NEW t \in Stops, t # s PROVE LinkedAt(t)'
  <2>1. t \in Links /\ t \notin P /\ pc'[t] = pc[t] /\ ahead'[t] = ahead[t] \ P
    BY <1>1, <1>4, <1>13, <1>14, Apart
  <2>2. Linked(t) => Linked(t)'
    <3>1. CASE phase = "again"
      <4>1. tail' = tail /\ (tail # None => ahead'[tail] = ahead[tail] \ P)
        BY <1>13, <3>1
      <4> QED BY <2>1, <4>1 DEF Linked
    <3>2. CASE phase = "drop"
      <4>1. Linked(t) => t \in Chain
        BY DEF Linked, Chain
      <4> QED BY <1>3, <1>13, <2>1, <3>2, <4>1, Apart DEF Linked
    <3> QED BY <3>1, <3>2
  <2>3. Related(t) => Related(t)'
    <3> SUFFICES ASSUME Related(t), NEW n \in Msgs, Live(n)' PROVE n \in ahead'[t] \/ t \in ahead'[n]
      BY DEF Related
    <3>1. Live(n) /\ n \notin P
      BY <1>1, <1>6 DEF Live
    <3>2. n \in ahead[t] \/ t \in ahead[n]
      BY <3>1 DEF Related
    <3>3. ahead'[n] = ahead[n] \ P
      BY <1>13, Apart
    <3> QED BY <2>1, <3>1, <3>2, <3>3
  <2> QED BY <1>3, <1>7, <1>11, <1>12, <2>1, <2>2, <2>3, LinkedKeeps DEF ShownInv
<1>15. LinkedAt(s)'
  <2>1. CASE phase = "again"
    BY <1>4, <2>1 DEF LinkedAt
  <2>2. CASE phase = "drop"
    <3>1. Linked(s)'
      BY <1>3, <1>13, <2>2, Apart DEF Linked
    <3>2. \A n \in Msgs : Live(n) => n \in Chain
      BY DEF IInv, ChainOK, Held, Chain
    <3>3. \A n \in Msgs : Live(n)' => n \in Chain /\ n \notin P
      BY <1>1, <1>6, <3>2 DEF Live
    <3>4. Related(s)'
      BY <1>13, <2>2, <3>3 DEF Related
    <3> QED BY <1>4, <2>2, <3>1, <3>4 DEF LinkedAt
  <2> QED BY <2>1, <2>2
<1> QED BY <1>10, <1>14, <1>15 DEF ShownInv, LinkedOK

\* pi and the chat are idle at first.
LEMMA InitShown == ASSUME Init PROVE ShownInv
<1>1. events = <<>> /\ ~piRun /\ ~running /\ ~inRun /\ \A s \in Stops : pc[s] = "idle"
  BY Apart DEF Init
<1>2. ~StartToCome
  <2>1. Len(events) = 0
    BY <1>1
  <2> QED BY <2>1 DEF StartToCome
<1>3. LinkedOK
  BY <1>1 DEF LinkedOK, LinkedAt
<1>4. MarksOK
  BY <1>1, <1>2 DEF MarksOK, ToldOK, RunningOK, WorkOK, EndNext
<1> QED BY <1>3, <1>4 DEF ShownInv

\* Every step keeps the marks true, and the Stops linked.
LEMMA ShownStep == Tidy /\ IInv /\ ShownInv /\ [Next]_vars => ShownInv'
<1> SUFFICES ASSUME Tidy, IInv, ShownInv, [Next]_vars PROVE ShownInv'
  OBVIOUS
<1>1. CASE \E m \in Msgs : Prompt(m) \/ MessageStep(m) \/ PreflightEnds(m)
  <2>1. PICK m \in Msgs : Prompt(m) \/ MessageStep(m) \/ PreflightEnds(m)
    BY <1>1
  <2>2. CASE Prompt(m) \/ MessageStep(m)
    BY <2>2, PromptShown, SubmitShown, HandShown, NotSentShown, AcceptedShown DEF MessageStep
  <2>3. CASE PreflightEnds(m)
    BY <2>3, PiQueuesShown, PiStartsShown, PiDeclinesShown DEF PreflightEnds
  <2> QED BY <2>1, <2>2, <2>3
<1>2. CASE PiWakes \/ PiReads \/ PiSettles
  BY <1>2, PiWakesNever, PiReadsShown, PiSettlesShown
<1>3. CASE HearStep
  BY <1>3, HearStartShown, HearQueueShown, HearReadShown, HearSettledShown DEF HearStep
<1>4. CASE \E s \in Stops : StopBegins(s) \/ StopStep(s) \/ TakeBegins(s) \/ TakeStep(s)
  <2>1. PICK s \in Stops : StopBegins(s) \/ StopStep(s) \/ TakeBegins(s) \/ TakeStep(s)
    BY <1>4
  <2>2. CASE StopBegins(s) \/ StopStep(s)
    BY <2>2, StopBeginsShown, StopDropsShown, StopAbortsShown, StopEndsShown DEF StopStep
  <2>3. CASE TakeBegins(s) \/ TakeStep(s)
    BY <2>3, TakesBackShown, AsideShown, SendsAgainShown DEF TakeStep
  <2> QED BY <2>1, <2>2, <2>3
<1>5. CASE UNCHANGED vars
  <2>1. UNCHANGED <<waiting, queued, tail, ahead, piRun, inRun, running, events, pc>>
    BY <1>5 DEF vars, manager, piVars, reqs
  <2>2. EndNext' <=> EndNext
    BY <2>1 DEF EndNext
  <2>3. StartToCome' <=> StartToCome
    BY <2>1 DEF StartToCome
  <2>4. LinkedOK' /\ (UnderWay' <=> UnderWay) /\ (Lively' <=> Lively)
    BY <2>1, <2>2, AllStay
  <2>5. MarksOK'
    BY <2>1, <2>2, <2>3, <2>4, MarksKeep DEF ShownInv
  <2> QED BY <2>4, <2>5 DEF ShownInv
<1> QED BY <1>1, <1>2, <1>3, <1>4, <1>5 DEF Next

\* The page says that the agent works while it does, and not at rest.
THEOREM ShowsItsWork == Tidy => (Spec => []ShownAsItIs)
<1> SUFFICES ASSUME Tidy PROVE Spec => []ShownAsItIs
  OBVIOUS
<1>1. Init => IInv /\ ShownInv
  BY InitOK, InitShown
<1>2. IInv /\ ShownInv /\ [Next]_vars => (IInv /\ ShownInv)'
  BY InvStep, ShownStep
<1>3. IInv /\ ShownInv => ShownAsItIs
  <2> SUFFICES ASSUME IInv, ShownInv PROVE RestIsIdle /\ WorkIsShown
    BY DEF ShownAsItIs
  <2>1. events = <<>> => ~EndNext /\ ~StartToCome
    <3>1. events = <<>> => Len(events) = 0
      OBVIOUS
    <3> QED BY <3>1 DEF EndNext, StartToCome
  <2>2. (\A s \in Stops : Out(s)) => ~UnderWay
    BY DEF UnderWay, Out
  <2>3. ASSUME AtRest PROVE ~running /\ fresh = <<>>
    <3>1. events = <<>> /\ ~piRun /\ (\A m \in Msgs : Out(m)) /\ \A s \in Stops : Out(s)
      BY <2>3, Apart DEF AtRest
    <3>2. ~Lively
      BY <3>1 DEF Lively, Live, Out
    <3>3. ~running
      BY <2>1, <2>2, <3>1, <3>2 DEF ShownInv, MarksOK, RunningOK
    <3>4. ASSUME fresh # <<>> PROVE FALSE
      <4>1. fresh[1] \in Msgs /\ fresh[1] \in Range(fresh)
        BY <3>4, FreshOne DEF IInv
      <4>2. Len(events) = 0
        BY <3>1
      <4>3. pc[fresh[1]] \in {"handing", "accepted"} \/ \E i \in 1..Len(events) : Reads(i)
        BY <4>1 DEF IInv, FreshOK
      <4> QED BY <3>1, <4>1, <4>2, <4>3 DEF Out
    <3> QED BY <3>3, <3>4
  <2>4. WorkIsShown
    BY <2>1, <2>2 DEF WorkIsShown, ShownInv, MarksOK, WorkOK
  <2> QED BY <2>3, <2>4 DEF RestIsIdle
<1> QED BY <1>1, <1>2, <1>3, PTL DEF Spec

=============================================================================
