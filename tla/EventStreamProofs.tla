-------------------------- MODULE EventStreamProofs --------------------------
(* Proofs about EventStream, for any number of events, reloads, answers and
   pieces of them, any page and any window, whenever the stream breaks, the page
   is left, and pi dies: what a reader holds is in order and once, what it shows
   is the chat as it is stored, and what it shows of an answer being written is
   what was said of it.

   They rest on one inductive invariant, built in four parts: CourseOK, the course
   of a stream and the order of all that is on its way; CountOK, that each removal
   has a count of its own; ChatOK, that what is stored is held or comes, and what
   is not will be taken away; AnswerOK, that the pieces shown and on their way are
   all that were said.  What the model folds over a list of messages is reasoned
   about position by position.                                                *)
EXTENDS EventStream, WellFoundedInduction, SequenceTheorems, FiniteSetTheorems, TLAPS

-----------------------------------------------------------------------------
(* Numbers and sets of them. *)

\* A set of numbers that is not empty has a least.
LEMMA Least == ASSUME NEW T, T \subseteq Nat, T # {} PROVE \E n \in T : \A m \in T : n <= m
<1> DEFINE R == OpToRel(<, Nat)
<1>1. IsWellFoundedOn(R, Nat)
  BY NatLessThanWellFounded
<1>2. \A x, y \in Nat : x < y => <<x, y>> \in R
  BY DEF OpToRel
<1> HIDE DEF R
<1>3. PICK x \in T : \A y \in T : ~ (<<y, x>> \in R)
  BY <1>1, WFMin
<1>4. \A m \in T : m \in Nat /\ ~ (m < x)
  BY <1>2, <1>3
<1> QED BY <1>3, <1>4

\* Induction, over a set in place of a predicate.
LEMMA Induct == ASSUME NEW T, 0 \in T, \A n \in Nat : n \in T => n + 1 \in T PROVE Nat \subseteq T
<1> SUFFICES ASSUME Nat \ T # {} PROVE FALSE
  OBVIOUS
<1>1. PICK n \in Nat \ T : \A m \in Nat \ T : n <= m
  BY Least
<1>2. n # 0 /\ n - 1 \in Nat /\ (n - 1) + 1 = n
  BY <1>1
<1>3. n - 1 \in T
  BY <1>1, <1>2
<1> QED BY <1>1, <1>2, <1>3

\* The greatest of a set, which FoldLeft comes to last.
LEMMA MaxIs == ASSUME NEW S, NEW x \in S, S \subseteq Int, \A y \in S : x >= y PROVE Max(S) = x
<1>1. \A z \in S : (\A y \in S : z >= y) => z = x
  OBVIOUS
<1> QED BY <1>1 DEF Max

\* The greatest of the numbers up to n, and the others.
LEMMA MaxTo == ASSUME NEW n \in Nat, n # 0 PROVE Max(1..n) = n /\ (1..n) \ {n} = 1..(n - 1)
<1>1. n \in 1..n /\ (1..n) \subseteq Int /\ \A y \in 1..n : n >= y
  OBVIOUS
<1>2. Max(1..n) = n
  BY <1>1, MaxIs
<1> QED BY <1>2

\* Numbers up to one have a greatest.
LEMMA MaxIn == ASSUME NEW n \in Nat, NEW S \in SUBSET (0..n), S # {} PROVE Max(S) \in S /\ \A y \in S : y <= Max(S)
<1> DEFINE T == {k \in Nat : \A U \in SUBSET (0..k) : U # {} => \E x \in U : \A y \in U : x >= y}
<1>1. 0 \in T
  <2> SUFFICES ASSUME NEW U \in SUBSET (0..0), U # {} PROVE \E x \in U : \A y \in U : x >= y
    OBVIOUS
  <2>1. \A x \in U : x = 0 /\ x >= x
    OBVIOUS
  <2>2. PICK x \in U : TRUE
    OBVIOUS
  <2>3. \A y \in U : x >= y
    BY <2>1
  <2> QED BY <2>3
<1>2. ASSUME NEW k \in Nat, k \in T PROVE k + 1 \in T
  <2> SUFFICES ASSUME NEW U \in SUBSET (0..(k + 1)), U # {} PROVE \E x \in U : \A y \in U : x >= y
    OBVIOUS
  <2>1. CASE k + 1 \in U
    BY <2>1
  <2>2. CASE k + 1 \notin U
    <3>1. U \in SUBSET (0..k)
      BY <2>2
    <3> QED BY <1>2, <3>1
  <2> QED BY <2>1, <2>2
<1> HIDE DEF T
<1>3. n \in T
  BY <1>1, <1>2, Induct
<1>4. PICK x \in S : \A y \in S : x >= y
  BY <1>3 DEF T
<1>5. S \subseteq Int
  OBVIOUS
<1>6. Max(S) = x
  BY <1>4, <1>5, MaxIs
<1> QED BY <1>4, <1>6
-----------------------------------------------------------------------------
(* Sets in order. *)

\* A set of numbers up to one has a list of its elements in order.
LEMMA SortedExists ==
  ASSUME NEW n \in Nat
  PROVE  \A S \in SUBSET (1..n) : \E s \in [1..Cardinality(S) -> S] : Ascending(s)
<1> DEFINE T == {k \in Nat : \A S \in SUBSET (1..k) : \E s \in [1..Cardinality(S) -> S] : Ascending(s)}
<1>1. 0 \in T
  <2> SUFFICES ASSUME NEW S \in SUBSET (1..0) PROVE \E s \in [1..Cardinality(S) -> S] : Ascending(s)
    OBVIOUS
  <2>1. S = {}
    OBVIOUS
  <2>2. Cardinality(S) = 0
    BY <2>1, FS_EmptySet
  <2> DEFINE e == [i \in 1..0 |-> 0]
  <2>3. e \in [1..Cardinality(S) -> S] /\ Ascending(e)
    BY <2>2 DEF Ascending
  <2> QED BY <2>3
<1>2. ASSUME NEW k \in Nat, k \in T PROVE k + 1 \in T
  <2> SUFFICES ASSUME NEW S \in SUBSET (1..(k + 1)) PROVE \E s \in [1..Cardinality(S) -> S] : Ascending(s)
    OBVIOUS
  <2> DEFINE U == S \ {k + 1}
  <2>1. U \in SUBSET (1..k)
    OBVIOUS
  <2>2. PICK u \in [1..Cardinality(U) -> U] : Ascending(u)
    BY <1>2, <2>1
  <2>3. CASE k + 1 \notin S
    BY <2>2, <2>3
  <2>4. CASE k + 1 \in S
    <3>1. IsFiniteSet(U)
      <4>1. IsFiniteSet(1..k)
        BY FS_Interval
      <4> QED BY <2>1, <4>1, FS_Subset
    <3>2. U \cup {k + 1} = S /\ k + 1 \notin U
      BY <2>4
    <3>3. Cardinality(S) = Cardinality(U) + 1 /\ Cardinality(U) \in Nat
      <4>1. Cardinality(U \cup {k + 1}) = Cardinality(U) + 1
        BY <3>1, <3>2, FS_AddElement
      <4> QED BY <3>1, <3>2, <4>1, FS_CardinalityType
    <3>4. PICK c : c = Cardinality(U)
      OBVIOUS
    <3> DEFINE s == [i \in 1..(c + 1) |-> IF i = c + 1 THEN k + 1 ELSE u[i]]
    <3>a. c \in Nat
      BY <3>3, <3>4
    <3>b. u \in [1..c -> U]
      BY <2>2, <3>4
    <3>c. \A i \in 1..(c + 1) : i = c + 1 \/ i \in 1..c
      BY <3>a
    <3>5. c \in Nat /\ u \in [1..c -> U] /\ \A i \in 1..(c + 1) : i = c + 1 \/ i \in 1..c
      BY <3>a, <3>b, <3>c
    <3>6. \A i \in 1..c : u[i] \in S /\ u[i] \in 1..k
      BY <2>1, <3>5
    <3>7. s \in [1..(c + 1) -> S]
      BY <2>4, <3>5, <3>6
    <3>8. \A i, j \in 1..c : i < j => u[i] < u[j]
      BY <2>2, <3>5 DEF Ascending
    <3>9. ASSUME NEW i \in 1..(c + 1), NEW j \in 1..(c + 1), i < j PROVE s[i] < s[j]
      <4>1. i \in 1..c
        BY <3>5, <3>9
      <4>2. CASE j = c + 1
        <5>1. i # c + 1 /\ c + 1 \in 1..(c + 1)
          BY <3>a, <4>1
        <5>2. s[i] = u[i] /\ s[j] = k + 1 /\ u[i] \in 1..k
          BY <3>6, <4>1, <4>2, <5>1
        <5> HIDE DEF s
        <5> QED BY <5>2
      <4>3. CASE j \in 1..c /\ j # c + 1
        <5>1. i # c + 1
          BY <3>a, <4>1
        <5>2. s[i] = u[i] /\ s[j] = u[j]
          BY <4>1, <4>3, <5>1
        <5>3. u[i] < u[j]
          BY <3>8, <3>9, <4>1, <4>3
        <5> HIDE DEF s
        <5> QED BY <5>2, <5>3
      <4> QED BY <3>5, <4>2, <4>3
    <3>10. Ascending(s)
      BY <3>9 DEF Ascending
    <3> HIDE DEF s
    <3> QED BY <3>3, <3>4, <3>7, <3>10
  <2> QED BY <2>3, <2>4
<1> HIDE DEF T
<1>3. n \in T
  BY <1>1, <1>2, Induct
<1> QED BY <1>3 DEF T

\* Sorted lists each of them, in order.
LEMMA SortedIs ==
  ASSUME NEW n \in Nat, NEW S \in SUBSET (1..n)
  PROVE  /\ Sorted(S) \in Seq(S) /\ Len(Sorted(S)) = Cardinality(S) /\ Cardinality(S) \in Nat
         /\ Ascending(Sorted(S)) /\ Range(Sorted(S)) = S
<1>1. PICK s : s = Sorted(S)
  OBVIOUS
<1>2. s \in [1..Cardinality(S) -> S] /\ Ascending(s)
  <2>1. \E t \in [1..Cardinality(S) -> S] : Ascending(t)
    BY SortedExists
  <2> QED BY <1>1, <2>1 DEF Sorted
<1>3. IsFiniteSet(S) /\ Cardinality(S) \in Nat
  <2>1. IsFiniteSet(1..n)
    BY FS_Interval
  <2>2. IsFiniteSet(S)
    BY <2>1, FS_Subset
  <2> QED BY <2>2, FS_CardinalityType
<1>4. s \in Seq(S) /\ Len(s) = Cardinality(S) /\ DOMAIN s = 1..Cardinality(S)
  BY <1>2, <1>3
<1>5. Range(s) = S
  <2>a. PICK c \in Nat : c = Cardinality(S)
    BY <1>3
  <2>b. \A x \in S : x \in Int
    OBVIOUS
  <2>1. IsFiniteSet(1..c) /\ Cardinality(1..c) = c
    BY FS_Interval
  <2>2. ASSUME NEW i \in 1..c, NEW j \in 1..c, i # j PROVE s[i] # s[j]
    <3>1. s[i] \in S /\ s[j] \in S
      BY <1>2, <2>a
    <3>2. i < j \/ j < i
      BY <2>2
    <3>a. s[i] \in Int /\ s[j] \in Int
      BY <2>b, <3>1
    <3>b. DOMAIN s = 1..c
      BY <1>4, <2>a
    <3>3. s[i] \in Int /\ s[j] \in Int /\ DOMAIN s = 1..c
      BY <3>a, <3>b
    <3> QED BY <1>2, <1>4, <3>1, <3>2, <3>3 DEF Ascending
  <2>3. s \in Surjection(1..c, Range(s))
    BY <1>4, <2>a DEF Surjection, Range
  <2>4. s \in Injection(1..c, Range(s))
    BY <1>4, <2>a, <2>2, <2>3 DEF Injection, Surjection, IsInjective
  <2>5. ExistsBijection(1..c, Range(s))
    BY <2>3, <2>4 DEF ExistsBijection, Bijection
  <2>6. Cardinality(Range(s)) = c
    BY <2>1, <2>5, FS_Bijection
  <2>7. Range(s) \subseteq S
    BY <1>2, <1>4 DEF Range
  <2> QED BY <1>3, <2>a, <2>6, <2>7, FS_Subset
<1> QED BY <1>1, <1>2, <1>3, <1>4, <1>5

\* What is in one of two lists in order is in the other at the same place, where both
\* list the same numbers.
LEMMA AscendingAlike ==
  ASSUME NEW s \in Seq(Int), NEW t \in Seq(Int), Ascending(s), Ascending(t), Range(s) = Range(t),
         NEW k \in Nat, k + 1 <= Len(s), \A i \in 1..k : i <= Len(t) /\ s[i] = t[i]
  PROVE  k + 1 <= Len(t) /\ t[k + 1] <= s[k + 1]
<1>1. k + 1 \in 1..Len(s) /\ DOMAIN s = 1..Len(s) /\ DOMAIN t = 1..Len(t) /\ Len(s) \in Nat /\ Len(t) \in Nat
  OBVIOUS
<1>2. PICK j \in 1..Len(t) : t[j] = s[k + 1]
  BY <1>1 DEF Range
<1>3. j >= k + 1
  <2> SUFFICES ASSUME j < k + 1 PROVE FALSE
    BY <1>1
  <2>1. j \in 1..k /\ j \in 1..Len(s) /\ j < k + 1
    BY <1>1
  <2>2. s[j] = s[k + 1]
    BY <1>2, <2>1
  <2>3. s[j] < s[k + 1]
    BY <1>1, <2>1 DEF Ascending
  <2>4. s[j] \in Int /\ s[k + 1] \in Int
    BY <1>1, <2>1
  <2> QED BY <2>2, <2>3, <2>4
<1>4. k + 1 <= Len(t) /\ k + 1 \in 1..Len(t)
  BY <1>1, <1>3
<1>5. t[k + 1] <= t[j]
  <2>1. t[k + 1] \in Int /\ t[j] \in Int
    BY <1>4
  <2>2. CASE j = k + 1
    BY <2>1, <2>2
  <2>3. CASE k + 1 < j
    <3>1. k + 1 \in DOMAIN t /\ j \in DOMAIN t
      BY <1>1, <1>4
    <3>2. t[k + 1] < t[j]
      BY <2>3, <3>1 DEF Ascending
    <3> QED BY <2>1, <3>2
  <2> QED BY <1>3, <2>2, <2>3
<1> QED BY <1>2, <1>4, <1>5

\* There is one list of a set of numbers in order.
LEMMA AscendingOnly ==
  ASSUME NEW s \in Seq(Int), NEW t \in Seq(Int), Ascending(s), Ascending(t), Range(s) = Range(t) PROVE s = t
<1> DEFINE T == {k \in Nat : k <= Len(s) => \A i \in 1..k : i <= Len(t) /\ s[i] = t[i]}
<1>1. 0 \in T
  OBVIOUS
<1>2. ASSUME NEW k \in Nat, k \in T PROVE k + 1 \in T
  <2> SUFFICES ASSUME k + 1 <= Len(s) PROVE \A i \in 1..(k + 1) : i <= Len(t) /\ s[i] = t[i]
    OBVIOUS
  <2>1. \A i \in 1..k : i <= Len(t) /\ s[i] = t[i]
    BY <1>2
  <2>2. k + 1 <= Len(t) /\ t[k + 1] <= s[k + 1]
    BY <2>1, AscendingAlike
  <2>3. \A i \in 1..k : i <= Len(s) /\ t[i] = s[i]
    BY <2>1
  <2>4. s[k + 1] <= t[k + 1]
    BY <2>2, <2>3, AscendingAlike
  <2>5. s[k + 1] \in Int /\ t[k + 1] \in Int
    BY <2>2
  <2>6. s[k + 1] = t[k + 1]
    BY <2>2, <2>4, <2>5
  <2> SUFFICES ASSUME NEW i \in 1..(k + 1) PROVE i <= Len(t) /\ s[i] = t[i]
    OBVIOUS
  <2> QED BY <2>1, <2>2, <2>6
<1> HIDE DEF T
<1>3. Len(s) \in Nat /\ Len(t) \in Nat
  OBVIOUS
<1>4. \A i \in 1..Len(s) : i <= Len(t) /\ s[i] = t[i]
  <2>1. Nat \subseteq T
    BY <1>1, <1>2, Induct
  <2>2. Len(s) \in T
    BY <1>3, <2>1
  <2> QED BY <1>3, <2>2 DEF T
<1>5. Len(s) <= Len(t)
  BY <1>3, <1>4
<1>6. Len(t) <= Len(s)
  <2> SUFFICES ASSUME Len(s) + 1 <= Len(t) PROVE FALSE
    BY <1>3
  <2>1. \A i \in 1..Len(s) : i <= Len(s) /\ t[i] = s[i]
    BY <1>3, <1>4
  <2>2. Len(s) + 1 <= Len(s)
    BY <1>3, <2>1, AscendingAlike
  <2> QED BY <1>3, <2>2
<1>7. Len(s) = Len(t)
  BY <1>3, <1>5, <1>6
<1> QED BY <1>4, <1>7
-----------------------------------------------------------------------------
(* What FoldLeft picks out of a list: News, RowsOf and Uncovered. *)

\* The fold, as a function of the positions folded: what is at those in K.
IsPick(iter, n, K, v) ==
  iter = [P \in SUBSET (1..n) |->
    IF P = {} THEN <<>>
    ELSE IF Max(P) \in K THEN Append(iter[P \ {Max(P)}], v[Max(P)]) ELSE iter[P \ {Max(P)}]]

\* It is defined for every length.
LEMMA PickExists == ASSUME NEW K, NEW v PROVE \A n \in Nat : \E iter : IsPick(iter, n, K, v)
<1> DEFINE T == {n \in Nat : \E iter : IsPick(iter, n, K, v)}
<1>1. 0 \in T
  <2> DEFINE it == [P \in SUBSET (1..0) |-> <<>>]
  <2>1. \A P \in SUBSET (1..0) : P = {}
    OBVIOUS
  <2>2. IsPick(it, 0, K, v)
    BY <2>1 DEF IsPick
  <2> QED BY <2>2
<1>2. ASSUME NEW n \in Nat, n \in T PROVE n + 1 \in T
  <2>1. PICK it : IsPick(it, n, K, v)
    BY <1>2
  <2> DEFINE val(P) == IF n + 1 \in P
                         THEN IF n + 1 \in K THEN Append(it[P \ {n + 1}], v[n + 1]) ELSE it[P \ {n + 1}]
                         ELSE it[P]
             nx == [P \in SUBSET (1..(n + 1)) |-> val(P)]
  <2>2. ASSUME NEW P \in SUBSET (1..(n + 1))
        PROVE  nx[P] = IF P = {} THEN <<>>
                       ELSE IF Max(P) \in K THEN Append(nx[P \ {Max(P)}], v[Max(P)]) ELSE nx[P \ {Max(P)}]
    <3>1. CASE n + 1 \in P
      <4>1. P \subseteq Int /\ \A y \in P : n + 1 >= y
        OBVIOUS
      <4>2. Max(P) = n + 1
        BY <3>1, <4>1, MaxIs
      <4>3. P \ {n + 1} \in SUBSET (1..(n + 1)) /\ n + 1 \notin P \ {n + 1}
        OBVIOUS
      <4>4. nx[P \ {n + 1}] = it[P \ {n + 1}]
        BY <4>3
      <4>5. nx[P] = IF n + 1 \in K THEN Append(it[P \ {n + 1}], v[n + 1]) ELSE it[P \ {n + 1}]
        BY <3>1
      <4> HIDE DEF nx
      <4> QED BY <3>1, <4>2, <4>4, <4>5
    <3>2. CASE n + 1 \notin P
      <4>1. P \in SUBSET (1..n)
        BY <3>2
      <4>2. nx[P] = it[P]
        BY <3>2
      <4>3. it[P] = IF P = {} THEN <<>>
                    ELSE IF Max(P) \in K THEN Append(it[P \ {Max(P)}], v[Max(P)]) ELSE it[P \ {Max(P)}]
        BY <2>1, <4>1 DEF IsPick
      <4>4. P \ {Max(P)} \in SUBSET (1..(n + 1)) /\ n + 1 \notin P \ {Max(P)}
        BY <3>2
      <4>5. nx[P \ {Max(P)}] = it[P \ {Max(P)}]
        BY <4>4
      <4> HIDE DEF nx
      <4> QED BY <4>2, <4>3, <4>5
    <3> QED BY <3>1, <3>2
  <2>3. nx = [P \in SUBSET (1..(n + 1)) |-> nx[P]]
    OBVIOUS
  <2> HIDE DEF nx
  <2>4. IsPick(nx, n + 1, K, v)
    BY <2>2, <2>3 DEF IsPick
  <2> QED BY <2>4
<1> HIDE DEF T
<1>3. Nat \subseteq T
  BY <1>1, <1>2, Induct
<1> QED BY <1>3 DEF T

\* A list r of what is at the positions in K, in their order: e says which.
Picked(r, e, n, K, v) ==
  /\ Len(r) \in Nat /\ e \in [1..Len(r) -> 1..n]
  /\ \A i, j \in 1..Len(r) : i < j => e[i] < e[j]
  /\ \A j \in 1..Len(r) : e[j] \in K /\ r[j] = v[e[j]]
  /\ \A i \in 1..n : i \in K => \E j \in 1..Len(r) : e[j] = i

\* One position more.
LEMMA PickMore ==
  ASSUME NEW T, NEW r \in Seq(T), NEW e, NEW n \in Nat, NEW K, NEW v, Picked(r, e, n, K, v), n + 1 \in K => v[n + 1] \in T
  PROVE  \E d : Picked(IF n + 1 \in K THEN Append(r, v[n + 1]) ELSE r, d, n + 1, K, v)
<1>1. Len(r) \in Nat /\ e \in [1..Len(r) -> 1..n]
  BY DEF Picked
<1>2. CASE n + 1 \notin K
  <2>1. e \in [1..Len(r) -> 1..(n + 1)]
    BY <1>1
  <2>2. Picked(r, e, n + 1, K, v)
    BY <1>2, <2>1 DEF Picked
  <2> QED BY <1>2, <2>2
<1>3. CASE n + 1 \in K
  <2> DEFINE q == Append(r, v[n + 1])
             d == [j \in 1..(Len(r) + 1) |-> IF j = Len(r) + 1 THEN n + 1 ELSE e[j]]
  <2>1. Len(q) = Len(r) + 1 /\ \A j \in 1..(Len(r) + 1) : q[j] = IF j = Len(r) + 1 THEN v[n + 1] ELSE r[j]
    OBVIOUS
  <2>2. \A j \in 1..(Len(r) + 1) : j = Len(r) + 1 \/ j \in 1..Len(r)
    BY <1>1
  <2>3. \A j \in 1..Len(r) : d[j] = e[j] /\ e[j] \in 1..n /\ j # Len(r) + 1 /\ j \in 1..(Len(r) + 1)
    BY <1>1
  <2>4. Len(r) + 1 \in 1..(Len(r) + 1) /\ d[Len(r) + 1] = n + 1
    BY <1>1
  <2>5. d \in [1..(Len(r) + 1) -> 1..(n + 1)]
    BY <1>1, <2>2
  <2> HIDE DEF q, d
  <2>6. \A i, j \in 1..(Len(r) + 1) : i < j => d[i] < d[j]
    <3> SUFFICES ASSUME NEW i \in 1..(Len(r) + 1), NEW j \in 1..(Len(r) + 1), i < j PROVE d[i] < d[j]
      OBVIOUS
    <3>1. i \in 1..Len(r)
      BY <1>1, <2>2
    <3>2. CASE j \in 1..Len(r)
      BY <2>3, <3>1, <3>2 DEF Picked
    <3>3. CASE j = Len(r) + 1
      BY <2>3, <2>4, <3>1, <3>3
    <3> QED BY <2>2, <3>2, <3>3
  <2>7. \A j \in 1..(Len(r) + 1) : d[j] \in K /\ q[j] = v[d[j]]
    BY <1>3, <2>1, <2>2, <2>3, <2>4 DEF Picked
  <2>8. \A i \in 1..(n + 1) : i \in K => \E j \in 1..(Len(r) + 1) : d[j] = i
    <3> SUFFICES ASSUME NEW i \in 1..(n + 1), i \in K PROVE \E j \in 1..(Len(r) + 1) : d[j] = i
      OBVIOUS
    <3>1. CASE i = n + 1
      BY <2>4, <3>1
    <3>2. CASE i \in 1..n
      BY <2>3, <3>2 DEF Picked
    <3> QED BY <3>1, <3>2
  <2>9. Picked(q, d, n + 1, K, v)
    BY <1>1, <2>1, <2>5, <2>6, <2>7, <2>8 DEF Picked
  <2> QED BY <1>3, <2>9 DEF q
<1> QED BY <1>2, <1>3

\* So the fold is a list of what is at those positions, in their order.
LEMMA PickIs ==
  ASSUME NEW T, NEW n \in Nat, NEW K, NEW v, \A i \in 1..n : i \in K => v[i] \in T, NEW iter, IsPick(iter, n, K, v)
  PROVE  iter[1..n] \in Seq(T) /\ \E e : Picked(iter[1..n], e, n, K, v)
<1> DEFINE ok(k) == iter[1..k] \in Seq(T) /\ \E e : Picked(iter[1..k], e, k, K, v)
           P == {k \in Nat : k <= n => ok(k)}
<1>1. 0 \in P
  <2>1. 1..0 = {} /\ {} \in SUBSET (1..n)
    OBVIOUS
  <2>2. iter[1..0] = <<>>
    BY <2>1 DEF IsPick
  <2> DEFINE e == [j \in 1..0 |-> 0]
  <2>3. Picked(<<>>, e, 0, K, v)
    BY <2>1 DEF Picked
  <2>4. <<>> \in Seq(T)
    OBVIOUS
  <2> QED BY <2>2, <2>3, <2>4
<1>2. ASSUME NEW k \in Nat, k \in P PROVE k + 1 \in P
  <2> SUFFICES ASSUME k + 1 <= n PROVE ok(k + 1)
    OBVIOUS
  <2>1. ok(k) /\ (k + 1 \in K => v[k + 1] \in T)
    BY <1>2
  <2> HIDE DEF ok
  <2>2. 1..(k + 1) \in SUBSET (1..n) /\ 1..(k + 1) # {}
    <3>1. k + 1 \in 1..(k + 1)
      OBVIOUS
    <3>2. ASSUME NEW i \in 1..(k + 1) PROVE i \in 1..n
      OBVIOUS
    <3> QED BY <3>1, <3>2
  <2>3. Max(1..(k + 1)) = k + 1 /\ (1..(k + 1)) \ {k + 1} = 1..k
    <3>1. k + 1 \in Nat /\ k + 1 # 0 /\ (k + 1) - 1 = k
      OBVIOUS
    <3> QED BY <3>1, MaxTo
  <2>4. iter[1..(k + 1)] = IF k + 1 \in K THEN Append(iter[1..k], v[k + 1]) ELSE iter[1..k]
    BY <2>2, <2>3 DEF IsPick
  <2>5. iter[1..k] \in Seq(T)
    BY <2>1 DEF ok
  <2>6. \E d : Picked(iter[1..(k + 1)], d, k + 1, K, v)
    BY <2>1, <2>4, <2>5, PickMore DEF ok
  <2>7. iter[1..(k + 1)] \in Seq(T)
    BY <2>1, <2>4, <2>5
  <2> QED BY <2>6, <2>7 DEF ok
<1> HIDE DEF ok
<1>3. n \in P
  <2> HIDE DEF P
  <2> QED BY <1>1, <1>2, Induct
<1> QED BY <1>3 DEF ok

-----------------------------------------------------------------------------
(* Lists. *)

\* A list after its first message, position by position.
LEMMA TailIs ==
  ASSUME NEW T, NEW s \in Seq(T), s # <<>>
  PROVE  /\ Tail(s) \in Seq(T) /\ Len(s) \in Nat \ {0} /\ Len(Tail(s)) = Len(s) - 1 /\ Head(s) = s[1] /\ s[1] \in T
         /\ \A i \in 1..Len(Tail(s)) : i + 1 \in 1..Len(s) /\ Tail(s)[i] = s[i + 1]
         /\ \A i \in 2..Len(s) : i - 1 \in 1..Len(Tail(s)) /\ Tail(s)[i - 1] = s[i]
<1>1. Len(s) \in Nat /\ Len(s) # 0
  BY EmptySeq
<1>2. Tail(s) \in Seq(T) /\ Len(Tail(s)) = Len(s) - 1
  BY <1>1
<1>3. Head(s) = s[1] /\ s[1] \in T
  BY <1>1
<1>4. \A i \in 1..(Len(s) - 1) : i + 1 \in 1..Len(s) /\ Tail(s)[i] = s[i + 1]
  BY <1>1
<1>5. \A i \in 2..Len(s) : i - 1 \in 1..(Len(s) - 1) /\ Tail(s)[i - 1] = s[i]
  <2> SUFFICES ASSUME NEW i \in 2..Len(s) PROVE i - 1 \in 1..(Len(s) - 1) /\ Tail(s)[i - 1] = s[i]
    OBVIOUS
  <2>1. i - 1 \in 1..(Len(s) - 1) /\ (i - 1) + 1 = i
    BY <1>1
  <2> QED BY <1>4, <2>1
<1> QED BY <1>1, <1>2, <1>3, <1>4, <1>5

\* A list with one more at its end.
LEMMA AppendIs ==
  ASSUME NEW T, NEW s \in Seq(T), NEW x \in T
  PROVE  /\ Append(s, x) \in Seq(T) /\ Len(s) \in Nat /\ Len(Append(s, x)) = Len(s) + 1
         /\ Append(s, x)[Len(s) + 1] = x /\ Len(s) + 1 \in 1..Len(Append(s, x))
         /\ \A i \in 1..Len(s) : i \in 1..Len(Append(s, x)) /\ Append(s, x)[i] = s[i] /\ i # Len(s) + 1
         /\ \A i \in 1..Len(Append(s, x)) : i \in 1..Len(s) \/ i = Len(s) + 1
<1>1. Len(s) \in Nat /\ Append(s, x) \in Seq(T) /\ Len(Append(s, x)) = Len(s) + 1
  OBVIOUS
<1>2. Append(s, x)[Len(s) + 1] = x /\ \A i \in 1..Len(s) : Append(s, x)[i] = s[i]
  OBVIOUS
<1> QED BY <1>1, <1>2

\* One list after another.
LEMMA ConcatIs ==
  ASSUME NEW T, NEW s \in Seq(T), NEW t \in Seq(T)
  PROVE  /\ s \o t \in Seq(T) /\ Len(s) \in Nat /\ Len(t) \in Nat /\ Len(s \o t) = Len(s) + Len(t)
         /\ \A i \in 1..Len(s) : i \in 1..Len(s \o t) /\ (s \o t)[i] = s[i]
         /\ \A i \in 1..Len(t) : Len(s) + i \in 1..Len(s \o t) /\ (s \o t)[Len(s) + i] = t[i]
         /\ \A i \in 1..Len(s \o t) : i \in 1..Len(s) \/ (i > Len(s) /\ i - Len(s) \in 1..Len(t) /\ (s \o t)[i] = t[i - Len(s)])
<1>1. Len(s) \in Nat /\ Len(t) \in Nat /\ s \o t \in Seq(T) /\ Len(s \o t) = Len(s) + Len(t)
  OBVIOUS
<1>2. \A i \in 1..Len(s \o t) : (s \o t)[i] = IF i <= Len(s) THEN s[i] ELSE t[i - Len(s)]
  OBVIOUS
<1>3. \A i \in 1..Len(s) : i \in 1..Len(s \o t) /\ (s \o t)[i] = s[i]
  BY <1>1, <1>2
<1>4. \A i \in 1..Len(t) : Len(s) + i \in 1..Len(s \o t) /\ (s \o t)[Len(s) + i] = t[i]
  <2> SUFFICES ASSUME NEW i \in 1..Len(t) PROVE Len(s) + i \in 1..Len(s \o t) /\ (s \o t)[Len(s) + i] = t[i]
    OBVIOUS
  <2>1. Len(s) + i \in 1..Len(s \o t) /\ ~(Len(s) + i <= Len(s)) /\ (Len(s) + i) - Len(s) = i
    BY <1>1
  <2> QED BY <1>2, <2>1
<1>5. \A i \in 1..Len(s \o t) : i \in 1..Len(s) \/ (i > Len(s) /\ i - Len(s) \in 1..Len(t) /\ (s \o t)[i] = t[i - Len(s)])
  BY <1>1, <1>2
<1> QED BY <1>1, <1>3, <1>4, <1>5

-----------------------------------------------------------------------------
(* The folds of the stream. *)

NewsOf(ms, sent) ==
  CHOOSE iter : iter = [P \in SUBSET (DOMAIN ms) |->
    IF P = {} THEN <<>>
    ELSE IF IsNews(ms[Max(P)], sent) THEN Append(iter[P \ {Max(P)}], ms[Max(P)]) ELSE iter[P \ {Max(P)}]]
RowsOfOf(ms) ==
  CHOOSE iter : iter = [P \in SUBSET (DOMAIN ms) |->
    IF P = {} THEN <<>>
    ELSE IF ms[Max(P)].kind = "row" THEN Append(iter[P \ {Max(P)}], ms[Max(P)].row) ELSE iter[P \ {Max(P)}]]
UncoveredOf(s, gone) ==
  CHOOSE iter : iter = [P \in SUBSET (DOMAIN s) |->
    IF P = {} THEN <<>>
    ELSE IF s[Max(P)] \in gone THEN iter[P \ {Max(P)}] ELSE Append(iter[P \ {Max(P)}], s[Max(P)])]

\* Of a set of positions, the last is one of them.
LEMMA LastIn == ASSUME NEW n \in Nat, NEW P \in SUBSET (1..n), P # {} PROVE Max(P) \in 1..n
<1>1. P \in SUBSET (0..n)
  OBVIOUS
<1>2. Max(P) \in P
  BY <1>1, MaxIn
<1> QED BY <1>2

\* The one pick of a list.
LEMMA PickChosen ==
  ASSUME NEW T, NEW n \in Nat, NEW K, NEW v, \A i \in 1..n : i \in K => v[i] \in T,
         NEW it, it = CHOOSE iter : IsPick(iter, n, K, v)
  PROVE  it[1..n] \in Seq(T) /\ \E e : Picked(it[1..n], e, n, K, v)
<1>1. \E iter : IsPick(iter, n, K, v)
  BY PickExists
<1>2. IsPick(it, n, K, v)
  BY <1>1
<1> QED BY <1>2, PickIs

\* What is new of a list of messages, in its order.
LEMMA NewsIs ==
  ASSUME NEW T, NEW ms \in Seq(T), NEW sent
  PROVE  /\ News(ms, sent) \in Seq(T)
         /\ \E e : Picked(News(ms, sent), e, Len(ms), {i \in 1..Len(ms) : IsNews(ms[i], sent)}, ms)
<1> DEFINE n == Len(ms)
           K == {i \in 1..n : IsNews(ms[i], sent)}
           it == CHOOSE iter : IsPick(iter, n, K, ms)
<1>1. n \in Nat /\ DOMAIN ms = 1..n /\ \A i \in 1..n : ms[i] \in T
  OBVIOUS
<1>2. News(ms, sent) = NewsOf(ms, sent)[1..n]
  <2>1. News(ms, sent) = NewsOf(ms, sent)[DOMAIN ms]
    BY DEF News, FoldLeft, MapThenFoldSet, NewsOf
  <2> QED BY <1>1, <2>1
<1>3. ASSUME NEW P \in SUBSET (1..n), P # {} PROVE IsNews(ms[Max(P)], sent) <=> Max(P) \in K
  BY <1>1, <1>3, LastIn
<1>4. \A iter : (iter = [P \in SUBSET (DOMAIN ms) |->
                  IF P = {} THEN <<>>
                  ELSE IF IsNews(ms[Max(P)], sent) THEN Append(iter[P \ {Max(P)}], ms[Max(P)]) ELSE iter[P \ {Max(P)}]])
                <=> IsPick(iter, n, K, ms)
  <2> HIDE DEF K
  <2> QED BY <1>1, <1>3 DEF IsPick
<1>5. NewsOf(ms, sent) = it
  BY <1>4 DEF NewsOf
<1>6. it[1..n] \in Seq(T) /\ \E e : Picked(it[1..n], e, n, K, ms)
  <2>1. \A i \in 1..n : i \in K => ms[i] \in T
    BY <1>1
  <2> HIDE DEF K
  <2> QED BY <1>1, <2>1, PickChosen
<1> QED BY <1>2, <1>5, <1>6

\* The events of a list of messages, in its order.
LEMMA RowsOfIs ==
  ASSUME NEW T, NEW ms, NEW M, ms \in Seq(M), \A i \in 1..Len(ms) : ms[i].kind = "row" => ms[i].row \in T
  PROVE  /\ RowsOf(ms) \in Seq(T)
         /\ \E e : Picked(RowsOf(ms), e, Len(ms), {i \in 1..Len(ms) : ms[i].kind = "row"}, [i \in 1..Len(ms) |-> ms[i].row])
<1> DEFINE n == Len(ms)
           K == {i \in 1..n : ms[i].kind = "row"}
           v == [i \in 1..n |-> ms[i].row]
           it == CHOOSE iter : IsPick(iter, n, K, v)
<1>1. n \in Nat /\ DOMAIN ms = 1..n
  OBVIOUS
<1>2. RowsOf(ms) = RowsOfOf(ms)[1..n]
  <2>1. RowsOf(ms) = RowsOfOf(ms)[DOMAIN ms]
    BY DEF RowsOf, FoldLeft, MapThenFoldSet, RowsOfOf
  <2> QED BY <1>1, <2>1
<1>3. ASSUME NEW P \in SUBSET (1..n), P # {} PROVE (ms[Max(P)].kind = "row" <=> Max(P) \in K) /\ v[Max(P)] = ms[Max(P)].row
  BY <1>1, <1>3, LastIn
<1>4. \A iter : (iter = [P \in SUBSET (DOMAIN ms) |->
                  IF P = {} THEN <<>>
                  ELSE IF ms[Max(P)].kind = "row" THEN Append(iter[P \ {Max(P)}], ms[Max(P)].row) ELSE iter[P \ {Max(P)}]])
                <=> IsPick(iter, n, K, v)
  <2> HIDE DEF K, v
  <2> QED BY <1>1, <1>3 DEF IsPick
<1>5. RowsOfOf(ms) = it
  BY <1>4 DEF RowsOfOf
<1>6. it[1..n] \in Seq(T) /\ \E e : Picked(it[1..n], e, n, K, v)
  <2>1. \A i \in 1..n : i \in K => v[i] \in T
    OBVIOUS
  <2> HIDE DEF K, v
  <2> QED BY <1>1, <2>1, PickChosen
<1> QED BY <1>2, <1>5, <1>6

\* What a removal leaves of a list, in its order.
LEMMA UncoveredIs ==
  ASSUME NEW T, NEW s \in Seq(T), NEW gone
  PROVE  /\ Uncovered(s, gone) \in Seq(T)
         /\ \E e : Picked(Uncovered(s, gone), e, Len(s), {i \in 1..Len(s) : s[i] \notin gone}, s)
<1> DEFINE n == Len(s)
           K == {i \in 1..n : s[i] \notin gone}
           it == CHOOSE iter : IsPick(iter, n, K, s)
<1>1. n \in Nat /\ DOMAIN s = 1..n /\ \A i \in 1..n : s[i] \in T
  OBVIOUS
<1>2. Uncovered(s, gone) = UncoveredOf(s, gone)[1..n]
  <2>1. Uncovered(s, gone) = UncoveredOf(s, gone)[DOMAIN s]
    BY DEF Uncovered, FoldLeft, MapThenFoldSet, UncoveredOf
  <2> QED BY <1>1, <2>1
<1>3. ASSUME NEW P \in SUBSET (1..n), P # {} PROVE s[Max(P)] \notin gone <=> Max(P) \in K
  BY <1>1, <1>3, LastIn
<1>4. \A iter : (iter = [P \in SUBSET (DOMAIN s) |->
                  IF P = {} THEN <<>>
                  ELSE IF s[Max(P)] \in gone THEN iter[P \ {Max(P)}] ELSE Append(iter[P \ {Max(P)}], s[Max(P)])])
                <=> IsPick(iter, n, K, s)
  <2> HIDE DEF K
  <2>1. \A iter : \A P \in SUBSET (1..n) :
          (IF P = {} THEN <<>>
           ELSE IF s[Max(P)] \in gone THEN iter[P \ {Max(P)}] ELSE Append(iter[P \ {Max(P)}], s[Max(P)]))
          = IF P = {} THEN <<>>
            ELSE IF Max(P) \in K THEN Append(iter[P \ {Max(P)}], s[Max(P)]) ELSE iter[P \ {Max(P)}]
    BY <1>3
  <2> QED BY <1>1, <2>1 DEF IsPick
<1>5. UncoveredOf(s, gone) = it
  BY <1>4 DEF UncoveredOf
<1>6. it[1..n] \in Seq(T) /\ \E e : Picked(it[1..n], e, n, K, s)
  <2>1. \A i \in 1..n : i \in K => s[i] \in T
    BY <1>1
  <2> HIDE DEF K
  <2> QED BY <1>1, <2>1, PickChosen
<1> QED BY <1>2, <1>5, <1>6

-----------------------------------------------------------------------------
(* What is said over the stream, and the types. *)

Counts  == 0..MaxReloads
Spoken  == {"row", "delta", "removed", "reload"}

\* What can be said over the stream of a chat with n events.
Messages(n) ==
  [kind : {"row"}, row : 1..n, of : 0..MaxAnswers] \cup [kind : {"delta"}, of : Answers]
  \cup [kind : {"snapshot"}, of : Answers, said : Nat] \cup [kind : {"reloads", "reload"}, count : Counts]
  \cup [kind : {"removed"}, from : Seqs, to : 1..Open, count : Counts] \cup [kind : {"caughtUp"}]

StoreT ==
  /\ rows \subseteq 1..last /\ aside \subseteq 1..last /\ last \in 0..LastSeq
  /\ ends \in [Seqs -> 0..MaxAnswers] /\ count \in Counts
  /\ answers \in 0..MaxAnswers /\ live \in 0..MaxAnswers /\ said \in Nat
StreamT ==
  /\ stream \in {"off", "replay", "live"} /\ read \in 0..last /\ lastSent \in 0..last
  /\ batch \in Seq(1..last) /\ more \in BOOLEAN
  /\ wire \in Seq(Messages(last)) /\ waiting \in Seq(Messages(last))
ReaderT ==
  /\ panel \in BOOLEAN /\ online \in BOOLEAN /\ fresh \in BOOLEAN /\ replacing \in BOOLEAN /\ gathering \in BOOLEAN
  /\ at \in 0..last /\ known \in {-1} \cup Counts
  /\ buffer \in Seq(Messages(last)) /\ shown \in Seq(1..last) /\ above \in Seq(1..last)
  /\ answered # Idle => answered \in Seq(1..last)
  /\ floor \in 0..last /\ endHeld \in BOOLEAN
Types == StoreT /\ StreamT /\ ReaderT

\* A longer chat has no fewer.
LEMMA MessagesUp == ASSUME NEW n \in Nat, NEW k \in Nat, n <= k PROVE Messages(n) \subseteq Messages(k)
<1>1. 1..n \subseteq 1..k
  OBVIOUS
<1> QED BY <1>1 DEF Messages

\* What is in a message of each kind.
LEMMA MessageIs ==
  ASSUME NEW n \in Nat, NEW m \in Messages(n)
  PROVE  /\ m.kind \in Spoken \cup {"snapshot", "reloads", "caughtUp"}
         /\ m.kind = "row" => m.row \in 1..n /\ m.of \in 0..MaxAnswers
         /\ m.kind = "delta" => m.of \in Answers
         /\ m.kind = "snapshot" => m.of \in Answers /\ m.said \in Nat
         /\ m.kind \in {"reloads", "reload", "removed"} => m.count \in Counts
         /\ m.kind = "removed" => m.from \in Seqs /\ m.to \in 1..Open
BY DEF Messages, Spoken

\* A list over a set is one over a larger set.
LEMMA SeqUp == ASSUME NEW S, NEW T, S \subseteq T, NEW s \in Seq(S) PROVE s \in Seq(T)
OBVIOUS

\* A step by which the server says m: it is written, or waits for the end of a replay.
Says(m) ==
  /\ stream = "live" => wire' = Append(wire, m) /\ waiting' = waiting
  /\ stream = "replay" => wire' = wire /\ waiting' = IF m.kind = "delta" THEN waiting ELSE Append(waiting, m)
  /\ stream = "off" => wire' = wire /\ waiting' = waiting
Speaks(m) ==
  /\ m \in Messages(last') /\ m.kind \in Spoken
  /\ last' \in 0..LastSeq /\ last <= last'
  /\ m.kind = "row" => last' = last + 1 /\ m.row = last + 1
  /\ Says(m) /\ lastSent' \in 0..last'
  /\ UNCHANGED <<stream, read, batch, more, reader>>

\* Emit says it: what is new is after all that was sent.
LEMMA EmitSays ==
  ASSUME Types, NEW m, m \in Messages(last'), m.kind \in Spoken, last' \in 0..LastSeq, last <= last',
         m.kind = "row" => last' = last + 1 /\ m.row = last + 1, EmitOnly(m)
  PROVE  Speaks(m)
<1>1. stream \in {"off", "replay", "live"} /\ lastSent \in 0..last /\ last \in Nat
  BY DEF Types, StreamT, StoreT
<1>2. IsNews(m, lastSent)
  BY <1>1 DEF IsNews
<1>3. Says(m) /\ lastSent' \in 0..last'
  <2>1. CASE stream = "live"
    BY <1>1, <1>2, <2>1 DEF EmitOnly, Emit, Sends, Says
  <2>2. CASE stream # "live"
    BY <1>1, <2>2 DEF EmitOnly, Emit, InSnapshot, Says
  <2> QED BY <2>1, <2>2
<1> QED BY <1>3 DEF Speaks, EmitOnly

\* What the server says: an event it keeps.
LEMMA KeepSpeaks ==
  ASSUME Types, NEW a \in 0..MaxAnswers, Keep(a)
  PROVE  /\ Speaks(Row(last + 1)) /\ Row(last + 1).kind = "row" /\ Row(last + 1).row = last + 1 /\ Row(last + 1).of = a
         /\ ends' = [ends EXCEPT ![last + 1] = a] /\ last + 1 \in Seqs
<1> DEFINE m == [kind |-> "row", row |-> last + 1, of |-> ends'[last + 1]]
<1>1. last \in 0..LastSeq /\ last + 1 \in Seqs /\ last' = last + 1 /\ ends \in [Seqs -> 0..MaxAnswers]
  BY EventStreamAssumption DEF Types, StoreT, Keep, Seqs
<1>2. ends' = [ends EXCEPT ![last + 1] = a] /\ ends'[last + 1] = a
  BY <1>1 DEF Keep
<1>3. m = Row(last + 1)
  BY DEF Row
<1>4. m \in Messages(last')
  <2>1. m \in [kind : {"row"}, row : 1..(last'), of : 0..MaxAnswers]
    BY <1>1, <1>2
  <2> QED BY <2>1 DEF Messages
<1>5. m.kind = "row" /\ m.row = last + 1 /\ m.of = a
  BY <1>2
<1> HIDE DEF m
<1>6. Speaks(m)
  <2>1. last' \in 0..LastSeq /\ last <= last'
    BY <1>1, EventStreamAssumption DEF Seqs
  <2>2. EmitOnly(m)
    BY <1>3 DEF Keep
  <2> QED BY <1>1, <1>4, <1>5, <2>1, <2>2, EmitSays DEF Spoken
<1> QED BY <1>1, <1>2, <1>3, <1>5, <1>6

\* A piece of an answer.
LEMMA UpdateSpeaks ==
  ASSUME Types, MessageUpdates
  PROVE  live' \in Answers /\ Speaks(Delta(live')) /\ Delta(live').kind = "delta" /\ Delta(live').of = live'
<1>1. live' \in Answers
  <2>1. live \in 0..MaxAnswers /\ answers \in 0..MaxAnswers /\ MaxAnswers \in Nat
    BY EventStreamAssumption DEF Types, StoreT
  <2> QED BY <2>1 DEF MessageUpdates, Answers
<1>2. last' = last /\ last \in 0..LastSeq
  BY DEF MessageUpdates, store, Types, StoreT
<1>3. Delta(live') \in Messages(last') /\ Delta(live').kind = "delta" /\ Delta(live').of = live'
  BY <1>1 DEF Delta, Messages
<1>4. EmitOnly(Delta(live'))
  BY DEF MessageUpdates
<1> QED BY <1>1, <1>2, <1>3, <1>4, EmitSays DEF Spoken

\* What an edit takes out.
LEMMA TakeOutSpeaks ==
  ASSUME Types, NEW from \in Seqs, NEW to \in 1..Open, TakeOut(from, to)
  PROVE  /\ Speaks(Removed(from, to, count + 1))
         /\ LET m == Removed(from, to, count + 1)
            IN m.kind = "removed" /\ m.from = from /\ m.to = to /\ m.count = count + 1
<1>1. count + 1 \in Counts
  BY EventStreamAssumption DEF TakeOut, Types, StoreT, Counts
<1>2. last' = last /\ last \in 0..LastSeq
  BY DEF TakeOut, Types, StoreT
<1>3. Removed(from, to, count + 1) \in Messages(last')
  BY <1>1 DEF Removed, Messages
<1>4. EmitOnly(Removed(from, to, count + 1))
  BY DEF TakeOut
<1>5. LET m == Removed(from, to, count + 1)
      IN m.kind = "removed" /\ m.from = from /\ m.to = to /\ m.count = count + 1
  BY DEF Removed
<1> QED BY <1>2, <1>3, <1>4, <1>5, EmitSays DEF Spoken

\* That the chat is to be read again.
LEMMA GoBackSpeaks ==
  ASSUME Types, GoBack
  PROVE  /\ Speaks(Reload(count + 1)) /\ Reload(count + 1).kind = "reload" /\ Reload(count + 1).count = count + 1
<1>1. count + 1 \in Counts
  BY EventStreamAssumption DEF GoBack, Types, StoreT, Counts
<1>2. last' = last /\ last \in 0..LastSeq
  BY DEF GoBack, Types, StoreT
<1>3. Reload(count + 1) \in Messages(last') /\ Reload(count + 1).kind = "reload" /\ Reload(count + 1).count = count + 1
  BY <1>1 DEF Reload, Messages
<1>4. EmitOnly(Reload(count + 1))
  BY DEF GoBack
<1> QED BY <1>2, <1>3, <1>4, EmitSays DEF Spoken

\* The bounds of the removal of a turn, and of a tail.
LEMMA RemovedTo ==
  ASSUME Types, NEW from \in Seqs
  PROVE  /\ \A to \in (from + 1)..last \cup {Open} : to \in 1..Open
         /\ last + 1 \in 1..Open
BY EventStreamAssumption DEF Types, StoreT, Open, Seqs

\* All the steps by which the server says something.
Speech ==
  \/ Record \/ MessageUpdates \/ MessageEnds
  \/ \E from \in Seqs : \E to \in (from + 1)..last \cup {Open} : RemoveTurn(from, to)
  \/ \E from \in Seqs : ReplaceTail(from)
  \/ GoBack

\* Each of what is said is one message, for whoever is connected or waits.
LEMMA SpeechSpeaks == ASSUME Types, Speech PROVE \E m : Speaks(m)
<1>1. CASE Record
  <2>1. 0 \in 0..MaxAnswers /\ Keep(0)
    BY <1>1, EventStreamAssumption DEF Record
  <2> QED BY <2>1, KeepSpeaks
<1>2. CASE MessageEnds
  <2>1. live \in 0..MaxAnswers /\ Keep(live)
    BY <1>2 DEF MessageEnds, Types, StoreT
  <2> QED BY <2>1, KeepSpeaks
<1>3. CASE MessageUpdates
  BY <1>3, UpdateSpeaks
<1>4. ASSUME NEW from \in Seqs, NEW to \in (from + 1)..last \cup {Open}, RemoveTurn(from, to) PROVE \E m : Speaks(m)
  <2>1. to \in 1..Open /\ TakeOut(from, to)
    BY <1>4, RemovedTo DEF RemoveTurn
  <2> QED BY <2>1, TakeOutSpeaks
<1>5. ASSUME NEW from \in Seqs, ReplaceTail(from) PROVE \E m : Speaks(m)
  <2>1. last + 1 \in 1..Open /\ TakeOut(from, last + 1)
    BY <1>5, RemovedTo DEF ReplaceTail
  <2> QED BY <2>1, TakeOutSpeaks
<1>6. CASE GoBack
  BY <1>6, GoBackSpeaks
<1> QED BY <1>1, <1>2, <1>3, <1>4, <1>5, <1>6 DEF Speech

\* The steps, those by which the server says something in one.
LEMMA Steps ==
  ASSUME Next
  PROVE  \/ Speech \/ PiGone \/ Connect \/ ReplayRow \/ ReplayPage \/ GoLive
         \/ HearReloads \/ HearEvent \/ HearRemoved \/ HearReload \/ HearCaughtUp \/ Cut \/ OlderAnswered \/ HearOlder
BY DEF Next, Speech, ServerStep, ReaderStep

-----------------------------------------------------------------------------
(* The course of a stream: off, replayed, and live. *)

KindsIn(ms, K) == \A i \in 1..Len(ms) : ms[i].kind \in K

OffOK == stream = "off" => wire = <<>> /\ waiting = <<>> /\ batch = <<>> /\ ~gathering
ReplayOK ==
  stream = "replay" => gathering /\ KindsIn(wire, {"reloads", "row"}) /\ KindsIn(waiting, {"row", "removed", "reload"})
LiveOK == stream = "live" => waiting = <<>> /\ batch = <<>> /\ ~more

\* The reader will hear at c that the replay is over: what comes before, and after.
Comes(c) ==
  /\ wire[c].kind = "caughtUp"
  /\ \A i \in 1..Len(wire) :
       /\ i < c => wire[i].kind \in {"reloads", "row", "snapshot"} /\ (wire[i].kind = "snapshot" => i = c - 1)
       /\ i > c => wire[i].kind \in Spoken
  /\ \A i \in 1..Len(buffer) : buffer[i].kind = "snapshot" => c = 1
CaughtOK ==
  stream = "live" => IF gathering THEN \E c \in 1..Len(wire) : Comes(c) ELSE KindsIn(wire, Spoken)
BufferOK ==
  /\ ~gathering => buffer = <<>>
  /\ \A i \in 1..Len(buffer) :
       buffer[i].kind \in {"row", "snapshot"} /\ (buffer[i].kind = "snapshot" => i = Len(buffer) /\ stream = "live")
  /\ \A i \in 1..Len(wire) : wire[i].kind = "reloads" => i = 1 /\ buffer = <<>>
ReaderOK ==
  /\ online <=> stream # "off"
  /\ replacing => ~panel /\ (online => gathering) /\ (~online => at = 0)
  /\ online /\ at = 0 => fresh
  /\ gathering /\ fresh /\ at # 0 => buffer # <<>>
  /\ known = -1 => at = 0 /\ (online => gathering /\ wire # <<>> /\ wire[1].kind = "reloads")
StreamOK == OffOK /\ ReplayOK /\ LiveOK /\ CaughtOK /\ BufferOK /\ ReaderOK

\* What holds of the kinds in a list holds of what is left of it.
LEMMA KindsTail ==
  ASSUME NEW T, NEW ms \in Seq(T), ms # <<>>, NEW K, KindsIn(ms, K) PROVE KindsIn(Tail(ms), K) /\ Head(ms).kind \in K
<1>1. 1 \in 1..Len(ms)
  BY TailIs
<1>2. \A i \in 1..Len(Tail(ms)) : i + 1 \in 1..Len(ms) /\ Tail(ms)[i] = ms[i + 1]
  BY TailIs
<1>3. Head(ms) = ms[1]
  BY TailIs
<1> QED BY <1>1, <1>2, <1>3 DEF KindsIn

\* And of one more of such a kind.
LEMMA KindsAppend ==
  ASSUME NEW T, NEW ms \in Seq(T), NEW m \in T, NEW K, KindsIn(ms, K), m.kind \in K PROVE KindsIn(Append(ms, m), K)
BY AppendIs DEF KindsIn

\* What the reader hears, and when.
LEMMA HeadIs ==
  ASSUME Types, StreamOK, wire # <<>>
  PROVE  /\ Head(wire) = wire[1] /\ wire[1] \in Messages(last) /\ 1 \in 1..Len(wire)
         /\ online /\ stream \in {"replay", "live"}
         /\ wire[1].kind \in {"removed", "reload", "delta"} => ~gathering /\ stream = "live"
         /\ wire[1].kind \in {"caughtUp", "snapshot", "reloads"} => gathering
         /\ wire[1].kind \in {"caughtUp", "snapshot"} => stream = "live"
         /\ wire[1].kind = "reloads" => buffer = <<>>
         /\ ~gathering => stream = "live" /\ KindsIn(wire, Spoken)
         /\ gathering /\ stream = "live" =>
              \E c \in 1..Len(wire) : Comes(c) /\ (wire[1].kind = "caughtUp" <=> c = 1) /\ (wire[1].kind = "snapshot" => c = 2)
<1>1. wire \in Seq(Messages(last)) /\ stream \in {"off", "replay", "live"}
  BY DEF Types, StreamT
<1>2. Head(wire) = wire[1] /\ wire[1] \in Messages(last) /\ 1 \in 1..Len(wire)
  BY <1>1, TailIs
<1>3. stream # "off" /\ online
  BY DEF StreamOK, OffOK, ReaderOK
<1>4. wire[1].kind = "reloads" => buffer = <<>>
  BY <1>2 DEF StreamOK, BufferOK
<1>5. CASE stream = "replay"
  <2>1. gathering /\ wire[1].kind \in {"reloads", "row"}
    BY <1>2, <1>5 DEF StreamOK, ReplayOK, KindsIn
  <2> QED BY <1>2, <1>3, <1>4, <1>5, <2>1
<1>6. CASE stream = "live" /\ gathering
  <2>1. PICK c \in 1..Len(wire) : Comes(c)
    BY <1>6 DEF StreamOK, CaughtOK
  <2>2. CASE c = 1
    <3>1. wire[1].kind = "caughtUp"
      BY <2>1, <2>2 DEF Comes
    <3> QED BY <1>2, <1>3, <1>4, <1>6, <2>1, <2>2, <3>1
  <2>3. CASE c # 1
    <3>1. 1 < c /\ c \in Nat
      BY <2>3
    <3>2. wire[1].kind \in {"reloads", "row", "snapshot"} /\ (wire[1].kind = "snapshot" => 1 = c - 1)
      BY <1>2, <2>1, <3>1 DEF Comes
    <3>3. wire[1].kind = "snapshot" => c = 2
      BY <3>1, <3>2
    <3> QED BY <1>2, <1>3, <1>4, <1>6, <2>1, <2>3, <3>2, <3>3
  <2> QED BY <2>2, <2>3
<1>7. CASE stream = "live" /\ ~gathering
  <2>1. KindsIn(wire, Spoken) /\ wire[1].kind \in Spoken
    BY <1>2, <1>7 DEF StreamOK, CaughtOK, KindsIn
  <2> QED BY <1>2, <1>3, <1>4, <1>7, <2>1 DEF Spoken
<1> QED BY <1>1, <1>3, <1>5, <1>6, <1>7

\* What is said in a step changes nothing of that.
LEMMA SpeechStream == ASSUME Types, StreamOK, NEW m, Speaks(m) PROVE StreamOK'
<1>1. /\ wire \in Seq(Messages(last')) /\ waiting \in Seq(Messages(last')) /\ m \in Messages(last')
      /\ stream \in {"off", "replay", "live"} /\ m.kind \in Spoken
  <2>1. Messages(last) \subseteq Messages(last')
    BY MessagesUp, EventStreamAssumption DEF Speaks, Types, StoreT
  <2> QED BY <2>1, SeqUp DEF Types, StreamT, Speaks
<1>2. UNCHANGED <<stream, batch, more, panel, online, at, known, fresh, replacing, gathering, buffer>>
  BY DEF Speaks, reader
<1>3. CASE stream = "off"
  <2>1. wire' = wire /\ waiting' = waiting
    BY <1>3 DEF Speaks, Says
  <2> QED BY <1>2, <1>3, <2>1 DEF StreamOK, OffOK, ReplayOK, LiveOK, CaughtOK, BufferOK, ReaderOK
<1>4. CASE stream = "replay"
  <2>1. wire' = wire /\ waiting' = IF m.kind = "delta" THEN waiting ELSE Append(waiting, m)
    BY <1>4 DEF Speaks, Says
  <2>2. KindsIn(waiting, {"row", "removed", "reload"})'
    BY <1>1, <1>4, <2>1, KindsAppend DEF StreamOK, ReplayOK, Spoken
  <2>3. ReplayOK'
    BY <1>2, <1>4, <2>1, <2>2 DEF StreamOK, ReplayOK
  <2> QED BY <1>2, <1>4, <2>1, <2>3 DEF StreamOK, OffOK, LiveOK, CaughtOK, BufferOK, ReaderOK
<1>5. CASE stream = "live"
  <2>1. wire' = Append(wire, m) /\ waiting' = waiting
    BY <1>5 DEF Speaks, Says
  <2>2. /\ Len(wire) \in Nat
        /\ \A i \in 1..Len(wire) : i \in 1..Len(wire') /\ wire'[i] = wire[i] /\ i # Len(wire) + 1
        /\ \A i \in 1..Len(wire') : i \in 1..Len(wire) \/ (i = Len(wire) + 1 /\ wire'[i] = m)
    <3>1. /\ Len(wire) \in Nat /\ Append(wire, m)[Len(wire) + 1] = m
          /\ \A i \in 1..Len(wire) : i \in 1..Len(Append(wire, m)) /\ Append(wire, m)[i] = wire[i] /\ i # Len(wire) + 1
          /\ \A i \in 1..Len(Append(wire, m)) : i \in 1..Len(wire) \/ i = Len(wire) + 1
      BY <1>1, AppendIs
    <3> QED BY <2>1, <3>1
  <2>3. CaughtOK'
    <3>1. CASE gathering
      <4>1. PICK c \in 1..Len(wire) : Comes(c)
        BY <1>5, <3>1 DEF StreamOK, CaughtOK
      <4>2. c \in 1..Len(wire') /\ wire'[c] = wire[c]
        BY <2>2
      <4>3. \A i \in 1..Len(wire') : (i \in 1..Len(wire) /\ wire'[i] = wire[i]) \/ (i > c /\ wire'[i] = m)
        BY <2>2
      <4>4. Comes(c)'
        BY <1>1, <1>2, <4>1, <4>2, <4>3 DEF Comes
      <4> QED BY <1>2, <3>1, <4>2, <4>4 DEF CaughtOK
    <3>2. CASE ~gathering
      <4>1. KindsIn(wire, Spoken)'
        BY <1>1, <1>5, <2>1, <3>2, KindsAppend DEF StreamOK, CaughtOK
      <4> QED BY <1>2, <3>2, <4>1 DEF CaughtOK
    <3> QED BY <3>1, <3>2
  <2>4. BufferOK'
    <3>1. \A i \in 1..Len(wire') : wire'[i].kind = "reloads" => i = 1 /\ buffer = <<>>
      BY <1>1, <2>2 DEF StreamOK, BufferOK, Spoken
    <3> QED BY <1>2, <3>1 DEF StreamOK, BufferOK
  <2>5. ReaderOK'
    <3>1. wire # <<>> => wire' # <<>> /\ wire'[1] = wire[1]
      <4> SUFFICES ASSUME wire # <<>> PROVE wire' # <<>> /\ wire'[1] = wire[1]
        OBVIOUS
      <4>1. 1 \in 1..Len(wire)
        BY <1>1, TailIs
      <4>2. 1 \in 1..Len(wire') /\ wire'[1] = wire[1]
        BY <2>2, <4>1
      <4> QED BY <4>2
    <3> QED BY <1>2, <3>1 DEF StreamOK, ReaderOK
  <2> QED BY <1>2, <1>5, <2>1, <2>3, <2>4, <2>5 DEF StreamOK, OffOK, ReplayOK, LiveOK
<1> QED BY <1>1, <1>3, <1>4, <1>5

\* What is left to read, of what was.
LEMMA RestIs ==
  ASSUME Types, wire # <<>>, wire' = Tail(wire)
  PROVE  /\ \A i \in 1..Len(wire') : i + 1 \in 1..Len(wire) /\ wire'[i] = wire[i + 1]
         /\ \A i \in 1..Len(wire) : i # 1 => i - 1 \in 1..Len(wire') /\ wire'[i - 1] = wire[i]
         /\ wire' \in Seq(Messages(last)) /\ Len(wire) \in Nat
<1>1. wire \in Seq(Messages(last))
  BY DEF Types, StreamT
<1>2. \A i \in 1..Len(wire') : i + 1 \in 1..Len(wire) /\ wire'[i] = wire[i + 1]
  BY <1>1, TailIs
<1>3. \A i \in 2..Len(wire) : i - 1 \in 1..Len(wire') /\ wire'[i - 1] = wire[i]
  BY <1>1, TailIs
<1>4. Len(wire) \in Nat /\ wire' \in Seq(Messages(last))
  BY <1>1, TailIs
<1>5. \A i \in 1..Len(wire) : i # 1 => i \in 2..Len(wire)
  BY <1>4
<1> QED BY <1>2, <1>3, <1>4, <1>5

\* A stream that is closed has nothing in it.
LEMMA ClosedStream ==
  ASSUME stream' = "off", wire' = <<>>, waiting' = <<>>, batch' = <<>>, gathering' = FALSE, buffer' = <<>>, online' = FALSE,
         replacing' => ~panel' /\ at' = 0, known' = -1 => at' = 0
  PROVE  StreamOK'
<1>1. Len(<<>>) = 0
  OBVIOUS
<1> QED BY <1>1 DEF StreamOK, OffOK, ReplayOK, LiveOK, CaughtOK, BufferOK, ReaderOK, KindsIn

\* One that is read goes on.
LEMMA ReadStream ==
  ASSUME Types, StreamOK, wire # <<>>, wire' = Tail(wire), UNCHANGED <<stream, waiting, batch, more, online, panel>>,
         wire[1].kind = "caughtUp" => ~gathering' /\ ~replacing',
         wire[1].kind # "caughtUp" => gathering' = gathering /\ replacing' = replacing,
         ~gathering' => buffer' = <<>>,
         buffer' = buffer \/ buffer' = <<>> \/ (wire[1].kind \in {"row", "snapshot"} /\ gathering /\ buffer' = Append(buffer, wire[1])),
         at' = 0 => at = 0,
         fresh' = fresh, gathering' /\ fresh' /\ at' # 0 => buffer' # <<>>,
         known' = known \/ known' # -1, wire[1].kind = "reloads" => known' # -1
  PROVE  StreamOK'
<1>1. /\ Head(wire) = wire[1] /\ wire[1] \in Messages(last) /\ 1 \in 1..Len(wire)
      /\ online /\ stream \in {"replay", "live"}
      /\ wire[1].kind \in {"caughtUp", "snapshot", "reloads"} => gathering
      /\ wire[1].kind \in {"caughtUp", "snapshot"} => stream = "live"
      /\ ~gathering => stream = "live" /\ KindsIn(wire, Spoken)
      /\ gathering /\ stream = "live" =>
           \E c \in 1..Len(wire) : Comes(c) /\ (wire[1].kind = "caughtUp" <=> c = 1) /\ (wire[1].kind = "snapshot" => c = 2)
  BY HeadIs
<1>2. /\ \A i \in 1..Len(wire') : i + 1 \in 1..Len(wire) /\ wire'[i] = wire[i + 1]
      /\ \A i \in 1..Len(wire) : i # 1 => i - 1 \in 1..Len(wire') /\ wire'[i - 1] = wire[i]
      /\ wire' \in Seq(Messages(last)) /\ Len(wire) \in Nat
  BY RestIs
<1>3. wire \in Seq(Messages(last)) /\ buffer \in Seq(Messages(last))
  BY DEF Types, StreamT, ReaderT
<1>4. OffOK' /\ LiveOK'
  BY <1>1 DEF OffOK, LiveOK, StreamOK
<1>5. ReplayOK'
  <2> SUFFICES ASSUME stream = "replay" PROVE ReplayOK'
    BY DEF ReplayOK
  <2>1. gathering /\ KindsIn(wire, {"reloads", "row"}) /\ wire[1].kind \in {"reloads", "row"}
    BY <1>1 DEF StreamOK, ReplayOK, KindsIn
  <2>2. KindsIn(wire, {"reloads", "row"})'
    BY <1>3, <2>1, KindsTail
  <2> QED BY <2>1, <2>2 DEF StreamOK, ReplayOK, KindsIn
<1>6. \A i \in 1..Len(buffer') :
        \/ i \in 1..Len(buffer) /\ buffer'[i] = buffer[i] /\ (buffer' = buffer \/ (wire[1].kind \in {"row", "snapshot"} /\ gathering))
        \/ wire[1].kind \in {"row", "snapshot"} /\ gathering /\ i = Len(buffer') /\ buffer'[i] = wire[1]
  <2>1. CASE buffer' = buffer
    BY <2>1
  <2>2. CASE buffer' = <<>>
    BY <2>2
  <2>3. CASE wire[1].kind \in {"row", "snapshot"} /\ gathering /\ buffer' = Append(buffer, wire[1])
    <3>1. /\ \A i \in 1..Len(buffer) : buffer'[i] = buffer[i]
          /\ buffer'[Len(buffer) + 1] = wire[1] /\ Len(buffer') = Len(buffer) + 1
          /\ \A i \in 1..Len(buffer') : i \in 1..Len(buffer) \/ i = Len(buffer) + 1
      BY <1>1, <1>3, <2>3, AppendIs
    <3> QED BY <2>3, <3>1
  <2> QED BY <2>1, <2>2, <2>3
<1>7. ASSUME wire[1].kind \in {"row", "snapshot"}, gathering PROVE \A i \in 1..Len(buffer) : buffer[i].kind # "snapshot"
  <2>1. CASE stream = "replay"
    BY <2>1 DEF StreamOK, BufferOK
  <2>2. CASE stream = "live"
    <3>1. PICK c \in 1..Len(wire) : Comes(c) /\ (wire[1].kind = "caughtUp" <=> c = 1)
      BY <1>1, <1>7, <2>2
    <3>2. c # 1
      BY <1>7, <3>1
    <3> QED BY <3>1, <3>2 DEF Comes
  <2> QED BY <1>1, <2>1, <2>2
<1>8. CaughtOK'
  <2> SUFFICES ASSUME stream = "live" PROVE CaughtOK'
    BY DEF CaughtOK
  <2>1. CASE ~gathering
    <3>1. KindsIn(wire, Spoken)
      BY <1>1, <2>1
    <3>2. KindsIn(wire, Spoken)'
      BY <1>3, <3>1, KindsTail
    <3>3. ~gathering'
      BY <2>1
    <3> QED BY <3>2, <3>3 DEF CaughtOK
  <2>2. CASE gathering
    <3>1. PICK c \in 1..Len(wire) : Comes(c) /\ (wire[1].kind = "caughtUp" <=> c = 1) /\ (wire[1].kind = "snapshot" => c = 2)
      BY <1>1, <2>2
    <3>2. CASE c = 1
      <4>1. \A i \in 1..Len(wire') : i + 1 \in 1..Len(wire) /\ i + 1 > c
        BY <1>2, <3>2
      <4>2. KindsIn(wire, Spoken)'
        BY <1>2, <3>1, <4>1 DEF Comes, KindsIn
      <4> QED BY <3>1, <3>2, <4>2 DEF CaughtOK
    <3>3. CASE c # 1
      <4>1. c - 1 \in 1..Len(wire') /\ wire'[c - 1] = wire[c] /\ gathering'
        BY <1>2, <2>2, <3>1, <3>3
      <4>2. ASSUME NEW i \in 1..Len(wire')
            PROVE  /\ i < c - 1 => wire'[i].kind \in {"reloads", "row", "snapshot"} /\ (wire'[i].kind = "snapshot" => i = (c - 1) - 1)
                   /\ i > c - 1 => wire'[i].kind \in Spoken
        <5>1. i + 1 \in 1..Len(wire) /\ wire'[i] = wire[i + 1] /\ i \in Nat /\ c \in Nat
          BY <1>2
        <5>2. (i < c - 1 <=> i + 1 < c) /\ (i > c - 1 <=> i + 1 > c) /\ (i + 1 = c - 1 <=> i = (c - 1) - 1)
          BY <5>1
        <5> QED BY <3>1, <5>1, <5>2 DEF Comes
      <4>3. ASSUME NEW i \in 1..Len(buffer'), buffer'[i].kind = "snapshot" PROVE c - 1 = 1
        <5>1. CASE wire[1].kind = "snapshot"
          BY <3>1, <5>1
        <5>2. CASE wire[1].kind # "snapshot"
          <6>1. i \in 1..Len(buffer) /\ buffer[i].kind = "snapshot"
            BY <1>6, <4>3, <5>2
          <6> QED BY <3>1, <3>3, <6>1 DEF Comes
        <5> QED BY <5>1, <5>2
      <4>4. Comes(c - 1)'
        BY <3>1, <4>1, <4>2, <4>3 DEF Comes
      <4> QED BY <4>1, <4>4 DEF CaughtOK
    <3> QED BY <3>2, <3>3
  <2> QED BY <2>1, <2>2
<1>9. BufferOK'
  <2>1. \A i \in 1..Len(buffer') :
          buffer'[i].kind \in {"row", "snapshot"} /\ (buffer'[i].kind = "snapshot" => i = Len(buffer') /\ stream = "live")
    <3> SUFFICES ASSUME NEW i \in 1..Len(buffer')
                 PROVE  buffer'[i].kind \in {"row", "snapshot"} /\ (buffer'[i].kind = "snapshot" => i = Len(buffer') /\ stream = "live")
      OBVIOUS
    <3>1. CASE i \in 1..Len(buffer) /\ buffer'[i] = buffer[i] /\ buffer' = buffer
      BY <3>1 DEF StreamOK, BufferOK
    <3>2. CASE i \in 1..Len(buffer) /\ buffer'[i] = buffer[i] /\ wire[1].kind \in {"row", "snapshot"} /\ gathering
      BY <1>7, <3>2 DEF StreamOK, BufferOK
    <3>3. CASE wire[1].kind \in {"row", "snapshot"} /\ gathering /\ i = Len(buffer') /\ buffer'[i] = wire[1]
      BY <1>1, <3>3
    <3> QED BY <1>6, <3>1, <3>2, <3>3
  <2>2. ASSUME NEW i \in 1..Len(wire'), wire'[i].kind = "reloads" PROVE FALSE
    <3>1. i + 1 = 1
      BY <1>2, <2>2 DEF StreamOK, BufferOK
    <3> QED BY <3>1
  <2> QED BY <2>1, <2>2 DEF BufferOK
<1>10. ReaderOK'
  <2>1. known' = -1 => FALSE
    <3> SUFFICES ASSUME known' = -1, known = -1 PROVE FALSE
      OBVIOUS
    <3>1. wire[1].kind = "reloads"
      BY <1>1 DEF StreamOK, ReaderOK
    <3> QED BY <3>1
  <2> QED BY <1>1, <2>1 DEF StreamOK, ReaderOK
<1> QED BY <1>4, <1>5, <1>8, <1>9, <1>10 DEF StreamOK

\* What a reader that reads its chat again leaves.
LEMMA AgainStream == ASSUME ReadAgain, known' # -1 PROVE StreamOK'
<1>1. replacing' => ~panel' /\ at' = 0
  BY DEF ReadAgain
<1>2. known' = -1 => at' = 0
  OBVIOUS
<1> QED BY <1>1, <1>2, ClosedStream DEF ReadAgain

\* A stream that is opened, and replayed.
LEMMA OpenStream ==
  ASSUME Types, StreamOK, Connect \/ ReplayRow \/ ReplayPage PROVE StreamOK'
<1>1. wire \in Seq(Messages(last)) /\ known \in {-1} \cup Counts /\ at \in Nat /\ waiting \in Seq(Messages(last))
  BY EventStreamAssumption DEF Types, StreamT, ReaderT, StoreT
<1>2. CASE Connect
  <2> DEFINE m == Reloads(count)
  <2>1. m.kind = "reloads"
    BY DEF Reloads
  <2>2. wire' = <<m>> /\ waiting' = <<>> /\ stream' = "replay" /\ gathering' = TRUE /\ buffer' = <<>> /\ online' = TRUE
        /\ fresh' = (at = 0) /\ UNCHANGED <<panel, at, known, replacing>> /\ ~online
    BY <1>2 DEF Connect
  <2> HIDE DEF m
  <2>3. /\ Len(wire') = 1 /\ wire'[1] = m /\ wire' # <<>> /\ Len(waiting') = 0 /\ Len(buffer') = 0
        /\ \A i \in 1..Len(wire') : i = 1 /\ wire'[i] = m
    BY <2>2
  <2>4. ReplayOK' /\ OffOK' /\ LiveOK' /\ CaughtOK'
    BY <2>1, <2>2, <2>3 DEF ReplayOK, OffOK, LiveOK, CaughtOK, KindsIn
  <2>5. BufferOK'
    BY <2>1, <2>2, <2>3 DEF BufferOK
  <2>6. ReaderOK'
    <3>1. fresh' <=> at = 0
      BY <2>2
    <3> QED BY <2>1, <2>2, <2>3, <3>1 DEF ReaderOK, StreamOK
  <2> QED BY <2>4, <2>5, <2>6 DEF StreamOK
<1>3. CASE ReplayRow
  <2> DEFINE m == [kind |-> "row", row |-> Head(batch), of |-> ends[Head(batch)]]
  <2>1. m.kind = "row"
    OBVIOUS
  <2>2. wire' = Append(wire, m) /\ stream = "replay"
        /\ UNCHANGED <<stream, waiting, more, panel, online, at, known, fresh, replacing, gathering, buffer>>
    BY <1>3 DEF ReplayRow, reader
  <2> HIDE DEF m
  <2>3. /\ \A i \in 1..Len(wire) : i \in 1..Len(wire') /\ wire'[i] = wire[i]
        /\ \A i \in 1..Len(wire') : i \in 1..Len(wire) \/ wire'[i] = m
    BY <1>1, <2>2
  <2>4. ReplayOK' /\ OffOK' /\ LiveOK' /\ CaughtOK'
    BY <2>1, <2>2, <2>3 DEF ReplayOK, OffOK, LiveOK, CaughtOK, KindsIn, StreamOK
  <2>5. BufferOK'
    BY <2>1, <2>2, <2>3 DEF BufferOK, StreamOK
  <2>6. ReaderOK'
    <3>1. wire # <<>> => wire' # <<>> /\ wire'[1] = wire[1]
      <4> SUFFICES ASSUME wire # <<>> PROVE wire' # <<>> /\ wire'[1] = wire[1]
        OBVIOUS
      <4>1. 1 \in 1..Len(wire)
        BY <1>1, TailIs
      <4>2. 1 \in 1..Len(wire') /\ wire'[1] = wire[1]
        BY <2>3, <4>1
      <4> QED BY <4>2
    <3> QED BY <2>2, <3>1 DEF ReaderOK, StreamOK
  <2> QED BY <2>4, <2>5, <2>6 DEF StreamOK
<1>4. CASE ReplayPage
  <2>1. stream = "replay" /\ UNCHANGED <<stream, waiting, wire, panel, online, at, known, fresh, replacing, gathering, buffer>>
    BY <1>4 DEF ReplayPage, reader
  <2> QED BY <2>1 DEF StreamOK, OffOK, ReplayOK, LiveOK, CaughtOK, BufferOK, ReaderOK, KindsIn, Comes
<1> QED BY <1>2, <1>3, <1>4

\* What a stream has in it that goes live: what was replayed, the snapshot, the word
\* that the replay is over at c, and what waited, those of it that are news.
Goes(c, N, e) ==
  /\ wire' \in Seq(Messages(last)) /\ Len(wire) \in Nat /\ c \in 1..Len(wire')
  /\ c = IF live = 0 THEN Len(wire) + 1 ELSE Len(wire) + 2
  /\ wire'[c] = CaughtUp
  /\ \A i \in 1..Len(wire) : i \in 1..Len(wire') /\ i < c /\ wire'[i] = wire[i]
  /\ live # 0 => c - 1 \in 1..Len(wire') /\ wire'[c - 1] = Snapshot(live, said)
  /\ \A i \in 1..Len(N) : c + i \in 1..Len(wire') /\ wire'[c + i] = N[i]
  /\ \A i \in 1..Len(wire') :
       \/ i < c /\ i \in 1..Len(wire) /\ wire'[i] = wire[i]
       \/ i < c /\ i = c - 1 /\ live # 0 /\ wire'[i] = Snapshot(live, said)
       \/ i = c
       \/ i > c /\ i - c \in 1..Len(N) /\ wire'[i] = N[i - c]
  /\ N \in Seq(Messages(last))
  /\ Picked(N, e, Len(waiting), {i \in 1..Len(waiting) : IsNews(waiting[i], read)}, waiting)

\* The end of a replay: what waited is written, between the marks of the snapshot.
LEMMA GoLiveIs == ASSUME Types, GoLive PROVE \E c, N, e : Goes(c, N, e)
<1> DEFINE M == Messages(last)
           N == News(waiting, read)
           S == IF live = 0 THEN <<>> ELSE <<Snapshot(live, said)>>
           c == IF live = 0 THEN Len(wire) + 1 ELSE Len(wire) + 2
<1>1. wire \in Seq(M) /\ waiting \in Seq(M)
  BY DEF Types, StreamT
<1>2. N \in Seq(M) /\ \E e : Picked(N, e, Len(waiting), {i \in 1..Len(waiting) : IsNews(waiting[i], read)}, waiting)
  BY <1>1, NewsIs
<1>3. CaughtUp \in M
  BY DEF CaughtUp, Messages
<1>4. live # 0 => Snapshot(live, said) \in M
  BY EventStreamAssumption DEF Types, StoreT, Snapshot, Messages, Answers
<1>5. wire' = ((wire \o S) \o <<CaughtUp>>) \o N
  BY DEF GoLive
<1>6. S \in Seq(M) /\ Len(S) = IF live = 0 THEN 0 ELSE 1
  BY <1>4
<1>7. live # 0 => S[1] = Snapshot(live, said)
  OBVIOUS
<1> HIDE DEF M, N, S
<1>a. wire \in Seq(M)
  BY <1>1
<1>b. S \in Seq(M)
  BY <1>6
<1>c. /\ wire \o S \in Seq(M) /\ Len(wire \o S) = Len(wire) + Len(S) /\ Len(wire) \in Nat
      /\ \A i \in 1..Len(wire) : i \in 1..Len(wire \o S) /\ (wire \o S)[i] = wire[i]
      /\ \A i \in 1..Len(S) : Len(wire) + i \in 1..Len(wire \o S) /\ (wire \o S)[Len(wire) + i] = S[i]
      /\ \A i \in 1..Len(wire \o S) : i \in 1..Len(wire) \/ (i > Len(wire) /\ i - Len(wire) \in 1..Len(S) /\ (wire \o S)[i] = S[i - Len(wire)])
  BY <1>a, <1>b, ConcatIs
<1> DEFINE A == wire \o S
           B == A \o <<CaughtUp>>
<1>8. /\ A \in Seq(M) /\ Len(A) = Len(wire) + Len(S) /\ Len(wire) \in Nat
      /\ \A i \in 1..Len(wire) : i \in 1..Len(A) /\ A[i] = wire[i]
      /\ \A i \in 1..Len(S) : Len(wire) + i \in 1..Len(A) /\ A[Len(wire) + i] = S[i]
      /\ \A i \in 1..Len(A) : i \in 1..Len(wire) \/ (i > Len(wire) /\ i - Len(wire) \in 1..Len(S) /\ A[i] = S[i - Len(wire)])
  BY <1>c
<1>9. Len(A) + 1 = c /\ c \in Nat
  BY <1>6, <1>8
<1>10. /\ B \in Seq(M) /\ Len(B) = c /\ B[c] = CaughtUp /\ c \in 1..Len(B)
       /\ \A i \in 1..Len(A) : i \in 1..Len(B) /\ i < c /\ B[i] = A[i]
       /\ \A i \in 1..Len(B) : i \in 1..Len(A) \/ i = c
  <2>1. <<CaughtUp>> \in Seq(M) /\ Len(<<CaughtUp>>) = 1 /\ <<CaughtUp>>[1] = CaughtUp
    BY <1>3
  <2> HIDE DEF A, c
  <2> QED BY <1>8, <1>9, <2>1
<1>11. live # 0 => Len(wire) + 1 = c - 1 /\ Len(wire) + 1 \in 1..Len(A) /\ A[Len(wire) + 1] = Snapshot(live, said)
  BY <1>6, <1>7, <1>8
<1>12. \A i \in 1..Len(A) : (i \in 1..Len(wire) /\ A[i] = wire[i]) \/ (i = c - 1 /\ live # 0 /\ A[i] = Snapshot(live, said))
  <2> SUFFICES ASSUME NEW i \in 1..Len(A), i \notin 1..Len(wire) PROVE i = c - 1 /\ live # 0 /\ A[i] = Snapshot(live, said)
    BY <1>8
  <2>1. i > Len(wire) /\ i - Len(wire) \in 1..Len(S)
    BY <1>8
  <2>2. live # 0 /\ i = Len(wire) + 1
    BY <1>6, <1>8, <2>1
  <2> QED BY <1>11, <2>2
<1> HIDE DEF A, B
<1>13. wire' = B \o N
  BY <1>5 DEF A, B
<1>d. B \in Seq(M)
  BY <1>10
<1>e. N \in Seq(M)
  BY <1>2
<1>14. /\ B \o N \in Seq(M)
       /\ \A i \in 1..Len(B) : i \in 1..Len(B \o N) /\ (B \o N)[i] = B[i]
       /\ \A i \in 1..Len(N) : Len(B) + i \in 1..Len(B \o N) /\ (B \o N)[Len(B) + i] = N[i]
       /\ \A i \in 1..Len(B \o N) : i \in 1..Len(B) \/ (i > Len(B) /\ i - Len(B) \in 1..Len(N) /\ (B \o N)[i] = N[i - Len(B)])
  BY <1>d, <1>e, ConcatIs
<1>15. c = IF live = 0 THEN Len(wire) + 1 ELSE Len(wire) + 2
  OBVIOUS
<1> HIDE DEF c
<1>16. wire' \in Seq(M) /\ c \in 1..Len(wire') /\ wire'[c] = CaughtUp
  BY <1>10, <1>13, <1>14
<1>17. \A i \in 1..Len(wire) : i \in 1..Len(wire') /\ i < c /\ wire'[i] = wire[i]
  BY <1>8, <1>10, <1>13, <1>14
<1>18. live # 0 => c - 1 \in 1..Len(wire') /\ wire'[c - 1] = Snapshot(live, said)
  BY <1>10, <1>11, <1>13, <1>14
<1>19. \A i \in 1..Len(N) : c + i \in 1..Len(wire') /\ wire'[c + i] = N[i]
  BY <1>10, <1>13, <1>14
<1>20. \A i \in 1..Len(wire') :
         \/ i < c /\ i \in 1..Len(wire) /\ wire'[i] = wire[i]
         \/ i < c /\ i = c - 1 /\ live # 0 /\ wire'[i] = Snapshot(live, said)
         \/ i = c
         \/ i > c /\ i - c \in 1..Len(N) /\ wire'[i] = N[i - c]
  <2> SUFFICES ASSUME NEW i \in 1..Len(wire')
               PROVE  \/ i < c /\ i \in 1..Len(wire) /\ wire'[i] = wire[i]
                      \/ i < c /\ i = c - 1 /\ live # 0 /\ wire'[i] = Snapshot(live, said)
                      \/ i = c
                      \/ i > c /\ i - c \in 1..Len(N) /\ wire'[i] = N[i - c]
    OBVIOUS
  <2>1. CASE i \in 1..Len(B)
    BY <1>10, <1>12, <1>13, <1>14, <2>1
  <2>2. CASE i \notin 1..Len(B)
    BY <1>10, <1>13, <1>14, <2>2
  <2> QED BY <2>1, <2>2
<1>21. N \in Seq(M)
  BY <1>2
<1>22. ASSUME NEW e, Picked(N, e, Len(waiting), {i \in 1..Len(waiting) : IsNews(waiting[i], read)}, waiting) PROVE Goes(c, N, e)
  BY <1>8, <1>15, <1>16, <1>17, <1>18, <1>19, <1>20, <1>21, <1>22 DEF Goes, M
<1> QED BY <1>2, <1>22

\* A stream that goes live: what waited has no snapshot in it.
LEMMA LiveStream == ASSUME Types, StreamOK, GoLive PROVE StreamOK'
<1>1. PICK c, N, e : Goes(c, N, e)
  BY GoLiveIs
<1>2. stream = "replay" /\ stream' = "live" /\ waiting' = <<>> /\ batch' = <<>> /\ ~more'
      /\ UNCHANGED <<panel, online, at, known, fresh, replacing, gathering, buffer>>
  BY DEF GoLive, reader
<1>3. gathering /\ KindsIn(wire, {"reloads", "row"}) /\ KindsIn(waiting, {"row", "removed", "reload"})
  BY <1>2 DEF StreamOK, ReplayOK
<1>4. \A i \in 1..Len(N) : N[i].kind \in {"row", "removed", "reload"}
  BY <1>1, <1>3 DEF Goes, Picked, KindsIn
<1>5. CaughtUp.kind = "caughtUp" /\ Snapshot(live, said).kind = "snapshot"
  BY DEF CaughtUp, Snapshot
<1>6. \A i \in 1..Len(buffer) : buffer[i].kind # "snapshot"
  BY <1>2 DEF StreamOK, BufferOK
<1>7. Comes(c)'
  <2>1. ASSUME NEW i \in 1..Len(wire')
        PROVE  /\ i < c => wire'[i].kind \in {"reloads", "row", "snapshot"} /\ (wire'[i].kind = "snapshot" => i = c - 1)
               /\ i > c => wire'[i].kind \in Spoken
    <3>1. c \in Nat
      BY <1>1 DEF Goes
    <3>2. CASE i < c /\ i \in 1..Len(wire) /\ wire'[i] = wire[i]
      BY <1>3, <3>1, <3>2 DEF KindsIn
    <3>3. CASE i < c /\ i = c - 1 /\ live # 0 /\ wire'[i] = Snapshot(live, said)
      BY <1>5, <3>1, <3>3
    <3>4. CASE i = c
      BY <3>1, <3>4
    <3>5. CASE i > c /\ i - c \in 1..Len(N) /\ wire'[i] = N[i - c]
      BY <1>4, <3>1, <3>5 DEF Spoken
    <3> QED BY <1>1, <3>2, <3>3, <3>4, <3>5 DEF Goes
  <2> QED BY <1>1, <1>2, <1>5, <1>6, <2>1 DEF Comes, Goes
<1>8. CaughtOK' /\ OffOK' /\ ReplayOK' /\ LiveOK'
  BY <1>1, <1>2, <1>3, <1>7 DEF CaughtOK, OffOK, ReplayOK, LiveOK, Goes
<1>9. BufferOK'
  <2>1. ASSUME NEW i \in 1..Len(wire'), wire'[i].kind = "reloads" PROVE i = 1 /\ buffer = <<>>
    <3>1. c \in Nat
      BY <1>1 DEF Goes
    <3>2. CASE i \in 1..Len(wire) /\ wire'[i] = wire[i]
      BY <2>1, <3>2 DEF StreamOK, BufferOK
    <3>3. CASE wire'[i] = Snapshot(live, said)
      BY <1>5, <2>1, <3>3
    <3>4. CASE i = c
      BY <1>1, <1>5, <2>1, <3>4 DEF Goes
    <3>5. CASE i > c /\ i - c \in 1..Len(N) /\ wire'[i] = N[i - c]
      BY <1>4, <2>1, <3>1, <3>5
    <3> QED BY <1>1, <3>2, <3>3, <3>4, <3>5 DEF Goes
  <2> QED BY <1>2, <1>3, <1>6, <2>1 DEF StreamOK, BufferOK
<1>10. ReaderOK'
  <2>1. wire # <<>> => wire' # <<>> /\ wire'[1] = wire[1]
    <3> SUFFICES ASSUME wire # <<>> PROVE wire' # <<>> /\ wire'[1] = wire[1]
      OBVIOUS
    <3>1. wire \in Seq(Messages(last))
      BY DEF Types, StreamT
    <3>2. 1 \in 1..Len(wire)
      BY <3>1, TailIs
    <3>3. 1 \in 1..Len(wire') /\ wire'[1] = wire[1]
      BY <1>1, <3>2 DEF Goes
    <3> QED BY <3>3
  <2> QED BY <1>2, <2>1 DEF ReaderOK, StreamOK
<1> QED BY <1>8, <1>9, <1>10 DEF StreamOK

\* The reader reads what the stream has.
LEMMA HeardStream ==
  ASSUME Types, StreamOK, HearReloads \/ HearEvent \/ HearRemoved \/ HearReload \/ HearCaughtUp PROVE StreamOK'
<1>1. wire # <<>>
  BY DEF HearReloads, HearEvent, HearRemoved, HearReload, HearCaughtUp, Hear
<1>2. /\ Head(wire) = wire[1] /\ wire[1] \in Messages(last) /\ online /\ stream \in {"replay", "live"}
      /\ wire[1].kind \in {"removed", "reload", "delta"} => ~gathering /\ stream = "live"
      /\ wire[1].kind \in {"caughtUp", "snapshot", "reloads"} => gathering
      /\ wire[1].kind = "reloads" => buffer = <<>>
  BY <1>1, HeadIs
<1>3. /\ wire[1].kind \in {"reloads", "reload", "removed"} => wire[1].count \in Counts
      /\ wire[1].kind = "row" => wire[1].row \in 1..last
  <2>1. last \in Nat
    BY EventStreamAssumption DEF Types, StoreT
  <2> QED BY <1>2, <2>1, MessageIs
<1>4. wire[1].kind \in {"reloads", "reload", "removed"} => wire[1].count # -1
  BY <1>3, EventStreamAssumption DEF Counts
<1>a. buffer \in Seq(Messages(last)) /\ (~gathering => buffer = <<>>)
  BY DEF StreamOK, BufferOK, Types, ReaderT
<1>5. CASE HearReloads
  <2>1. wire[1].kind = "reloads" /\ known' = wire[1].count
    BY <1>2, <1>5 DEF HearReloads, Hear
  <2>2. CASE ReadAgain
    BY <1>4, <2>1, <2>2, AgainStream
  <2>3. CASE wire' = Tail(wire)
             /\ UNCHANGED <<server, panel, online, at, fresh, replacing, gathering, buffer, shown, above, answered>>
    <3>1. UNCHANGED <<stream, waiting, batch, more, online, panel, gathering, replacing, at, fresh, buffer>>
      BY <2>3 DEF server
    <3>2. buffer' = <<>> /\ gathering /\ known' # -1
      BY <1>2, <1>4, <2>1, <3>1
    <3>3. ~(gathering' /\ fresh' /\ at' # 0)
      BY <1>2, <2>1, <3>1 DEF StreamOK, ReaderOK
    <3> QED BY <1>1, <2>1, <2>3, <3>1, <3>2, <3>3, ReadStream
  <2> QED BY <1>5, <2>2, <2>3 DEF HearReloads
<1>6. CASE HearReload
  <2>1. wire[1].kind = "reload" /\ known' = wire[1].count /\ ReadAgain
    BY <1>2, <1>6 DEF HearReload, Hear
  <2> QED BY <1>4, <2>1, AgainStream
<1>7. CASE HearEvent
  <2>1. wire[1].kind \in {"row", "delta", "snapshot"}
    BY <1>2, <1>7 DEF HearEvent, Hear
  <2>2. wire' = Tail(wire) /\ UNCHANGED <<stream, waiting, batch, more, panel, online, known, fresh, replacing, gathering>>
    BY <1>7 DEF HearEvent, server
  <2>3. at' = (IF wire[1].kind = "row" THEN wire[1].row ELSE at) /\ (at' = 0 => at = 0)
    <3>1. at' = (IF wire[1].kind = "row" THEN wire[1].row ELSE at)
      BY <1>2, <1>7 DEF HearEvent
    <3>2. wire[1].kind = "row" => wire[1].row # 0
      BY <1>3
    <3> QED BY <3>1, <3>2
  <2>4. buffer' = IF gathering THEN Append(buffer, wire[1]) ELSE buffer
    BY <1>2, <1>7 DEF HearEvent
  <2>5. gathering => wire[1].kind \in {"row", "snapshot"} /\ buffer' # <<>>
    BY <1>2, <1>a, <2>1, <2>4
  <2>6. ~gathering' => buffer' = <<>>
    BY <1>a, <2>2, <2>4
  <2>7. wire[1].kind # "caughtUp" /\ wire[1].kind # "reloads"
    BY <2>1
  <2> QED BY <1>1, <2>2, <2>3, <2>4, <2>5, <2>6, <2>7, ReadStream
<1>8. CASE HearRemoved
  <2>1. wire[1].kind = "removed" /\ known' = wire[1].count /\ ~gathering
    BY <1>2, <1>8 DEF HearRemoved, Hear
  <2>2. wire' = Tail(wire)
        /\ UNCHANGED <<stream, waiting, batch, more, panel, online, at, fresh, replacing, gathering, buffer>>
    BY <1>8, <2>1 DEF HearRemoved, server
  <2>3. known' # -1 /\ wire[1].kind # "caughtUp" /\ ~gathering' /\ buffer' = <<>>
    BY <1>4, <1>a, <2>1, <2>2
  <2> QED BY <1>1, <2>2, <2>3, ReadStream
<1>9. CASE HearCaughtUp
  <2>1. wire[1].kind = "caughtUp" /\ wire' = Tail(wire) /\ gathering' = FALSE /\ buffer' = <<>> /\ replacing' = FALSE
        /\ UNCHANGED <<stream, waiting, batch, more, panel, online, at, known, fresh>>
    BY <1>2, <1>9 DEF HearCaughtUp, Hear, server
  <2> QED BY <1>1, <2>1, ReadStream
<1> QED BY <1>5, <1>6, <1>7, <1>8, <1>9

\* Nothing that takes place brings a stream off its course.
LEMMA StreamStep == ASSUME Types, StreamOK, Next PROVE StreamOK'
<1>1. CASE Speech
  BY <1>1, SpeechSpeaks, SpeechStream
<1>2. CASE PiGone \/ OlderAnswered \/ HearOlder
  <2>1. UNCHANGED <<stream, wire, waiting, batch, more, panel, online, at, known, fresh, replacing, gathering, buffer>>
    BY <1>2 DEF PiGone, OlderAnswered, HearOlder, server, reader
  <2> QED BY <2>1 DEF StreamOK, OffOK, ReplayOK, LiveOK, CaughtOK, BufferOK, ReaderOK, KindsIn, Comes
<1>3. CASE Cut
  <2>1. replacing' => ~panel' /\ at' = 0
    BY <1>3 DEF Cut, StreamOK, ReaderOK
  <2>2. known' = -1 => at' = 0
    BY <1>3 DEF Cut, StreamOK, ReaderOK, Added
  <2> QED BY <1>3, <2>1, <2>2, ClosedStream DEF Cut
<1> QED BY <1>1, <1>2, <1>3, Steps, OpenStream, LiveStream, HeardStream

-----------------------------------------------------------------------------
(* What a query of the database returns. *)

\* A part of a list, position by position.
LEMMA SubSeqIs ==
  ASSUME NEW T, NEW s \in Seq(T), NEW m \in Nat \ {0}, NEW n \in 0..Len(s), m <= n + 1
  PROVE  /\ SubSeq(s, m, n) \in Seq(T) /\ Len(SubSeq(s, m, n)) = (n - m) + 1
         /\ \A i \in 1..((n - m) + 1) : (m + i) - 1 \in 1..Len(s) /\ SubSeq(s, m, n)[i] = s[(m + i) - 1]
<1>1. Len(s) \in Nat /\ DOMAIN s = 1..Len(s)
  OBVIOUS
<1>2. SubSeq(s, m, n) = [i \in 1..((n - m) + 1) |-> s[(i + m) - 1]] /\ Len(SubSeq(s, m, n)) = (n - m) + 1
  BY <1>1
<1>3. \A i \in 1..((n - m) + 1) : (m + i) - 1 \in 1..Len(s) /\ (i + m) - 1 = (m + i) - 1
  BY <1>1
<1>4. \A i \in 1..((n - m) + 1) : s[(m + i) - 1] \in T
  BY <1>3
<1>5. (n - m) + 1 \in Nat
  BY <1>1
<1>6. SubSeq(s, m, n) \in Seq(T)
  BY <1>2, <1>3, <1>4, <1>5
<1> QED BY <1>2, <1>3, <1>6

\* A part of a list in order is in order.
LEMMA SubSeqUp ==
  ASSUME NEW s \in Seq(Int), Ascending(s), NEW m \in Nat \ {0}, NEW n \in 0..Len(s), m <= n + 1
  PROVE  Ascending(SubSeq(s, m, n))
<1> DEFINE q == SubSeq(s, m, n)
<1>1. q \in Seq(Int) /\ Len(q) = (n - m) + 1 /\ \A i \in 1..((n - m) + 1) : (m + i) - 1 \in 1..Len(s) /\ q[i] = s[(m + i) - 1]
  BY SubSeqIs
<1> HIDE DEF q
<1>2. DOMAIN q = 1..((n - m) + 1) /\ DOMAIN s = 1..Len(s)
  BY <1>1
<1>3. ASSUME NEW i \in DOMAIN q, NEW j \in DOMAIN q, i < j PROVE q[i] < q[j]
  <2>1. (m + i) - 1 \in DOMAIN s /\ (m + j) - 1 \in DOMAIN s /\ q[i] = s[(m + i) - 1] /\ q[j] = s[(m + j) - 1]
    BY <1>1, <1>2
  <2>2. (m + i) - 1 < (m + j) - 1
    BY <1>2, <1>3
  <2> QED BY <2>1, <2>2 DEF Ascending
<1> QED BY <1>3 DEF Ascending, q

\* eventsSince: the first of what comes after, all of it where it is less than a page.
LEMMA EventsSinceIs ==
  ASSUME Types, NEW r \in Int
  PROVE  /\ EventsSince(r) \in Seq({k \in rows : k > r}) /\ Ascending(EventsSince(r)) /\ EventsSince(r) \in Seq(1..last)
         /\ \A k \in rows : k > r =>
              \/ k \in Range(EventsSince(r))
              \/ Len(EventsSince(r)) = Page /\ \A i \in DOMAIN EventsSince(r) : EventsSince(r)[i] < k
<1> DEFINE S == {k \in rows : k > r}
<1>1. last \in Nat /\ S \in SUBSET (1..last) /\ Page \in Nat \ {0}
  <2>1. last \in Nat /\ rows \subseteq 1..last /\ Page \in Nat \ {0}
    BY EventStreamAssumption DEF Types, StoreT
  <2>2. S \subseteq rows
    OBVIOUS
  <2> HIDE DEF S
  <2> QED BY <2>1, <2>2
<1>2. PICK s : s = Sorted(S)
  OBVIOUS
<1> HIDE DEF S
<1>3. s \in Seq(S) /\ Len(s) \in Nat /\ Ascending(s) /\ Range(s) = S
  BY <1>1, <1>2, SortedIs
<1>4. PICK n : n = IF Len(s) < Page THEN Len(s) ELSE Page
  OBVIOUS
<1>5. n \in 0..Len(s) /\ (n = Len(s) \/ (n = Page /\ n < Len(s))) /\ n \in Nat
  BY <1>1, <1>3, <1>4
<1>6. PICK q : q = SubSeq(s, 1, n)
  OBVIOUS
<1>7. EventsSince(r) = q
  BY <1>2, <1>4, <1>6 DEF EventsSince, S
<1>8. q \in Seq(S) /\ Len(q) = (n - 1) + 1 /\ \A i \in 1..((n - 1) + 1) : q[i] = s[(1 + i) - 1]
  <2>1. 1 \in Nat \ {0} /\ 1 <= n + 1
    BY <1>5
  <2> QED BY <1>3, <1>5, <1>6, <2>1, SubSeqIs
<1>9. Len(q) = n /\ DOMAIN q = 1..n /\ \A i \in 1..n : q[i] = s[i]
  <2>1. (n - 1) + 1 = n
    BY <1>5
  <2>2. \A i \in 1..n : (1 + i) - 1 = i
    OBVIOUS
  <2> QED BY <1>5, <1>8, <2>1, <2>2
<1>a. s \in Seq(Int)
  <2>1. S \subseteq Int
    BY <1>1
  <2> QED BY <1>3, <2>1, SeqUp
<1>10. Ascending(q)
  <2>1. 1 \in Nat \ {0} /\ 1 <= n + 1
    BY <1>5
  <2> QED BY <1>a, <1>3, <1>5, <1>6, <2>1, SubSeqUp
<1>11. q \in Seq(1..last)
  BY <1>1, <1>8, SeqUp
<1>12. ASSUME NEW k \in S PROVE k \in Range(q) \/ (Len(q) = Page /\ \A i \in DOMAIN q : q[i] < k)
  <2>1. PICK j \in 1..Len(s) : s[j] = k
    BY <1>3 DEF Range
  <2>2. CASE j <= n
    <3>1. j \in 1..n /\ q[j] = k
      BY <1>5, <1>9, <2>1, <2>2
    <3> QED BY <1>9, <3>1 DEF Range
  <2>3. CASE j > n
    <3>1. Len(q) = Page
      BY <1>3, <1>5, <1>9, <2>3
    <3>2. ASSUME NEW i \in DOMAIN q PROVE q[i] < k
      <4>1. i \in 1..Len(s) /\ j \in 1..Len(s) /\ i < j /\ q[i] = s[i] /\ DOMAIN s = 1..Len(s)
        BY <1>3, <1>5, <1>9, <2>3
      <4> QED BY <1>3, <2>1, <4>1 DEF Ascending
    <3> QED BY <3>1, <3>2
  <2> QED BY <1>5, <2>2, <2>3
<1> QED BY <1>7, <1>8, <1>10, <1>11, <1>12 DEF S

\* Where the last events begin.
LEMMA ReplayStartIs == ASSUME Types PROVE ReplayStart \in 0..last
<1>1. last \in Nat /\ rows \in SUBSET (1..last) /\ Window \in Nat \ {0}
  BY EventStreamAssumption DEF Types, StoreT
<1>2. PICK s : s = Sorted(rows)
  OBVIOUS
<1>3. s \in Seq(rows) /\ Len(s) \in Nat
  BY <1>1, <1>2, SortedIs
<1>4. CASE Len(s) > Window
  <2>1. Len(s) - Window \in 1..Len(s)
    BY <1>1, <1>3, <1>4
  <2>2. s[Len(s) - Window] \in rows
    BY <1>3, <2>1
  <2>3. ReplayStart = s[Len(s) - Window]
    BY <1>2, <1>4 DEF ReplayStart
  <2>4. s[Len(s) - Window] \in 1..last
    BY <1>1, <2>2
  <2> QED BY <1>1, <2>3, <2>4
<1>5. CASE ~(Len(s) > Window)
  BY <1>1, <1>2, <1>5 DEF ReplayStart
<1> QED BY <1>4, <1>5

\* A query leaves what is after the cursor to be sent.
LEMMA QueryIs ==
  ASSUME Types, NEW r \in 0..last, Query(r)
  PROVE  /\ read' = r /\ batch' \in Seq(1..last) /\ Ascending(batch') /\ more' \in BOOLEAN
         /\ \A i \in DOMAIN batch' : batch'[i] \in rows /\ r < batch'[i]
         /\ \A k \in rows : k > r => k \in Range(batch') \/ (more' /\ \A i \in DOMAIN batch' : batch'[i] < k)
<1>1. r \in Int
  BY EventStreamAssumption DEF Types, StoreT
<1>2. /\ EventsSince(r) \in Seq({k \in rows : k > r}) /\ Ascending(EventsSince(r)) /\ EventsSince(r) \in Seq(1..last)
      /\ \A k \in rows : k > r =>
           \/ k \in Range(EventsSince(r))
           \/ Len(EventsSince(r)) = Page /\ \A i \in DOMAIN EventsSince(r) : EventsSince(r)[i] < k
  BY <1>1, EventsSinceIs
<1>3. read' = r /\ batch' = EventsSince(r) /\ more' = (Len(EventsSince(r)) = Page)
  BY DEF Query
<1>4. \A i \in DOMAIN batch' : batch'[i] \in {k \in rows : k > r}
  BY <1>2, <1>3
<1>5. \A i \in DOMAIN batch' : batch'[i] \in rows /\ r < batch'[i]
  <2>1. \A k \in rows : k \in Int
    BY EventStreamAssumption DEF Types, StoreT
  <2> QED BY <1>1, <1>4, <2>1
<1>6. more' \in BOOLEAN /\ (Len(EventsSince(r)) = Page => more')
  BY <1>3
<1> QED BY <1>2, <1>3, <1>5, <1>6

-----------------------------------------------------------------------------
(* The types are kept. *)

\* The events that are gathered are of the chat.
LEMMA RowsOfTyped == ASSUME NEW n \in Nat, NEW ms \in Seq(Messages(n)) PROVE RowsOf(ms) \in Seq(1..n)
<1>1. \A i \in 1..Len(ms) : ms[i].kind = "row" => ms[i].row \in 1..n
  <2> SUFFICES ASSUME NEW i \in 1..Len(ms), ms[i].kind = "row" PROVE ms[i].row \in 1..n
    OBVIOUS
  <2>1. ms[i] \in Messages(n)
    OBVIOUS
  <2> QED BY <2>1, MessageIs
<1> QED BY <1>1, RowsOfIs

\* What is stored.
LEMMA StoreTyped == ASSUME Types, Next PROVE StoreT'
<1>1. /\ rows \subseteq 1..last /\ aside \subseteq 1..last /\ last \in 0..LastSeq /\ LastSeq \in Nat /\ MaxAnswers \in Nat
      /\ ends \in [Seqs -> 0..MaxAnswers] /\ count \in Counts
      /\ answers \in 0..MaxAnswers /\ live \in 0..MaxAnswers /\ said \in Nat /\ MaxReloads \in Nat
  BY EventStreamAssumption DEF Types, StoreT
<1>2. ASSUME NEW a \in 0..MaxAnswers, Keep(a), answers' = answers, live' \in {0, live}, said' \in {0, said} PROVE StoreT'
  <2>1. ends' = [ends EXCEPT ![last + 1] = a] /\ last + 1 \in Seqs
    BY <1>2, KeepSpeaks
  <2>2. ends' \in [Seqs -> 0..MaxAnswers]
    BY <1>1, <2>1
  <2>3. last' = last + 1 /\ rows' = rows \cup {last + 1} /\ last < LastSeq /\ UNCHANGED <<count, aside>>
    BY <1>2 DEF Keep
  <2>4. rows' \subseteq 1..last' /\ aside' \subseteq 1..last' /\ last' \in 0..LastSeq
    BY <1>1, <2>3
  <2> QED BY <1>1, <1>2, <2>2, <2>3, <2>4 DEF StoreT
<1>3. CASE Record
  BY <1>1, <1>2, <1>3 DEF Record, writer
<1>4. CASE MessageEnds
  BY <1>1, <1>2, <1>4 DEF MessageEnds
<1>5. CASE MessageUpdates
  <2>1. live' \in 0..MaxAnswers /\ answers' \in 0..MaxAnswers
    BY <1>1, <1>5 DEF MessageUpdates
  <2>2. said' \in Nat
    BY <1>1, <1>5 DEF MessageUpdates
  <2> QED BY <1>1, <1>5, <2>1, <2>2 DEF MessageUpdates, store, StoreT
<1>6. CASE PiGone
  BY <1>1, <1>6 DEF PiGone, store, StoreT
<1>7. ASSUME NEW from \in Seqs, NEW to, TakeOut(from, to), aside' \subseteq rows PROVE StoreT'
  <2>1. rows' \subseteq rows /\ count' = count + 1 /\ count < MaxReloads /\ UNCHANGED <<last, ends, live, said, answers>>
    BY <1>7 DEF TakeOut, writer
  <2>2. count' \in Counts
    BY <1>1, <2>1 DEF Counts
  <2> QED BY <1>1, <1>7, <2>1, <2>2 DEF StoreT
<1>8. CASE GoBack
  <2>1. rows' \subseteq rows \cup aside /\ aside' \subseteq rows /\ count' = count + 1 /\ count < MaxReloads
        /\ UNCHANGED <<last, ends, live, said, answers>>
    BY <1>8 DEF GoBack, writer
  <2>2. count' \in Counts
    BY <1>1, <2>1 DEF Counts
  <2> QED BY <1>1, <2>1, <2>2 DEF StoreT
<1>9. ASSUME NEW from \in Seqs, NEW to, RemoveTurn(from, to) PROVE StoreT'
  BY <1>7, <1>9 DEF RemoveTurn
<1>10. ASSUME NEW from \in Seqs, ReplaceTail(from) PROVE StoreT'
  BY <1>7, <1>10 DEF ReplaceTail
<1>11. CASE Connect \/ ReplayRow \/ ReplayPage \/ GoLive \/ HearReloads \/ HearEvent \/ HearRemoved \/ HearReload
            \/ HearCaughtUp \/ Cut \/ OlderAnswered \/ HearOlder
  <2>1. UNCHANGED <<store, writer>>
    BY <1>11 DEF Connect, ReplayRow, ReplayPage, GoLive, HearReloads, HearEvent, HearRemoved, HearReload, HearCaughtUp, Cut,
                 OlderAnswered, HearOlder
  <2> QED BY <1>1, <2>1 DEF store, writer, StoreT
<1> QED BY <1>3, <1>4, <1>5, <1>6, <1>8, <1>9, <1>10, <1>11, Steps DEF Speech

\* The types of the stream and the reader, where nothing but what is named changes.
LEMMA TypedUp ==
  ASSUME Types, last' \in Nat, last <= last'
  PROVE  /\ Messages(last) \subseteq Messages(last') /\ 0..last \subseteq 0..last'
         /\ \A s \in Seq(Messages(last)) : s \in Seq(Messages(last'))
         /\ \A s \in Seq(1..last) : s \in Seq(1..last')
<1>1. last \in Nat
  BY EventStreamAssumption DEF Types, StoreT
<1>2. Messages(last) \subseteq Messages(last')
  BY <1>1, MessagesUp
<1>3. 1..last \subseteq 1..last' /\ 0..last \subseteq 0..last'
  BY <1>1
<1> QED BY <1>2, <1>3, SeqUp

\* No messages are a list of any.
LEMMA EmptyTyped == ASSUME NEW S PROVE <<>> \in Seq(S)
OBVIOUS

\* Each step leaves the stream with messages of what is stored.
LEMMA StreamTyped == ASSUME Types, StreamOK, Next PROVE StreamT'
<1>1. /\ stream \in {"off", "replay", "live"} /\ read \in 0..last /\ lastSent \in 0..last
      /\ batch \in Seq(1..last) /\ more \in BOOLEAN
      /\ wire \in Seq(Messages(last)) /\ waiting \in Seq(Messages(last)) /\ last \in Nat /\ at \in 0..last
      /\ count \in Counts /\ ends \in [Seqs -> 0..MaxAnswers] /\ 1..last \subseteq Seqs
  BY EventStreamAssumption DEF Types, StoreT, StreamT, ReaderT, Seqs
<1>2. CASE Speech
  <2>1. PICK m : Speaks(m)
    BY <1>2, SpeechSpeaks
  <2>2. last' \in Nat /\ last <= last' /\ m \in Messages(last') /\ lastSent' \in 0..last' /\ Says(m)
        /\ UNCHANGED <<stream, read, batch, more>>
    BY <2>1, EventStreamAssumption DEF Speaks
  <2>3. /\ read \in 0..last' /\ wire \in Seq(Messages(last')) /\ waiting \in Seq(Messages(last')) /\ batch \in Seq(1..last')
    BY <1>1, <2>2, TypedUp
  <2>4. wire' \in Seq(Messages(last')) /\ waiting' \in Seq(Messages(last'))
    <3>1. Append(wire, m) \in Seq(Messages(last')) /\ Append(waiting, m) \in Seq(Messages(last'))
      BY <2>2, <2>3
    <3> QED BY <1>1, <2>2, <2>3, <3>1 DEF Says
  <2> QED BY <1>1, <2>2, <2>3, <2>4 DEF StreamT
<1>3. CASE PiGone \/ OlderAnswered \/ HearOlder
  BY <1>1, <1>3 DEF PiGone, OlderAnswered, HearOlder, server, store, StreamT
<1>4. CASE Connect
  <2>1. PICK r : r = IF at = 0 THEN ReplayStart ELSE at
    OBVIOUS
  <2>2. r \in 0..last /\ Query(r)
    BY <1>1, <1>4, <2>1, ReplayStartIs DEF Connect
  <2>3. read' = r /\ batch' \in Seq(1..last) /\ more' \in BOOLEAN
    BY <2>2, QueryIs
  <2>4. Reloads(count) \in Messages(last)
    BY <1>1 DEF Reloads, Messages
  <2>5. wire' = <<Reloads(count)>> /\ waiting' = <<>> /\ stream' = "replay" /\ lastSent' = 0 /\ last' = last
    BY <1>4 DEF Connect, store
  <2> QED BY <1>1, <2>2, <2>3, <2>4, <2>5 DEF StreamT
<1>5. CASE ReplayRow
  <2>1. Head(batch) \in 1..last /\ Tail(batch) \in Seq(1..last)
    BY <1>1, <1>5, TailIs DEF ReplayRow
  <2>2. [kind |-> "row", row |-> Head(batch), of |-> ends[Head(batch)]] \in Messages(last)
    <3>1. ends[Head(batch)] \in 0..MaxAnswers
      BY <1>1, <2>1
    <3> QED BY <2>1, <3>1 DEF Messages
  <2>3. wire' = Append(wire, [kind |-> "row", row |-> Head(batch), of |-> ends[Head(batch)]])
        /\ read' = Head(batch) /\ batch' = Tail(batch) /\ UNCHANGED <<stream, more, waiting, lastSent, last>>
    BY <1>5 DEF ReplayRow, store
  <2>4. wire' \in Seq(Messages(last)) /\ read' \in 0..last
    BY <1>1, <2>1, <2>2, <2>3
  <2> QED BY <1>1, <2>1, <2>3, <2>4 DEF StreamT
<1>6. CASE ReplayPage
  <2>1. batch' \in Seq(1..last) /\ more' \in BOOLEAN /\ read' = read
    BY <1>1, <1>6, QueryIs DEF ReplayPage
  <2> QED BY <1>1, <1>6, <2>1 DEF ReplayPage, store, StreamT
<1>7. CASE GoLive
  <2>1. PICK c, N, e : Goes(c, N, e)
    BY <1>7, GoLiveIs
  <2>2. lastSent' \in 0..last
    <3> DEFINE K == {k \in Range(waiting) : k.kind = "row"}
               S == {read} \cup {m.row : m \in K}
    <3>1. \A m \in K : m.row \in 1..last
      <4> SUFFICES ASSUME NEW m \in K PROVE m.row \in 1..last
        OBVIOUS
      <4>1. m \in Messages(last) /\ m.kind = "row"
        BY <1>1 DEF Range
      <4> QED BY <1>1, <4>1, MessageIs
    <3>2. S \in SUBSET (0..last) /\ S # {}
      BY <1>1, <3>1
    <3>3. lastSent' = Max(S)
      BY <1>7 DEF GoLive, SentOf
    <3> HIDE DEF S
    <3>4. Max(S) \in S
      BY <1>1, <3>2, MaxIn
    <3> QED BY <3>2, <3>3, <3>4
  <2>3. wire' \in Seq(Messages(last))
    BY <2>1 DEF Goes
  <2> QED BY <1>1, <1>7, <2>2, <2>3 DEF GoLive, store, StreamT
<1>c. ASSUME stream' = "off", waiting' = <<>>, batch' = <<>>, more' = FALSE, read' = 0, lastSent' = 0, wire' = <<>>, last' = last
      PROVE  StreamT'
  <2>1. waiting' \in Seq(Messages(last)) /\ wire' \in Seq(Messages(last)) /\ batch' \in Seq(1..last)
    BY <1>c, EmptyTyped
  <2>2. read' \in 0..last /\ lastSent' \in 0..last
    BY <1>1, <1>c
  <2> QED BY <1>c, <2>1, <2>2 DEF StreamT
<1>8. ASSUME ReadAgain, last' = last PROVE StreamT'
  BY <1>c, <1>8 DEF ReadAgain
<1>9. CASE Cut
  BY <1>c, <1>9 DEF Cut, store
<1>10. ASSUME wire # <<>>, wire' = Tail(wire), UNCHANGED <<server, last>> PROVE StreamT'
  BY <1>1, <1>10, TailIs DEF server, StreamT
<1>11. CASE HearReloads
  BY <1>8, <1>10, <1>11 DEF HearReloads, Hear, store
<1>12. CASE HearEvent \/ HearRemoved \/ HearCaughtUp
  BY <1>10, <1>12 DEF HearEvent, HearRemoved, HearCaughtUp, Hear, store
<1>13. CASE HearReload
  BY <1>8, <1>13 DEF HearReload, store
<1> QED BY <1>2, <1>3, <1>4, <1>5, <1>6, <1>7, <1>9, <1>11, <1>12, <1>13, Steps

\* What is fetched is the last of what is stored above the first that is held.
LEMMA OlderIs ==
  ASSUME Types, OlderAnswered
  PROVE  /\ ~panel /\ answered = Idle /\ above \o shown # <<>> /\ answered' \in Seq(1..last) /\ answered' # Idle
         /\ Ascending(answered') /\ \A i \in DOMAIN answered' : answered'[i] < Head(above \o shown)
<1>1. ~panel /\ answered = Idle /\ above \o shown # <<>>
  BY DEF OlderAnswered
<1>2. PICK h : h = Head(above \o shown)
  OBVIOUS
<1> DEFINE S == {r \in rows : r < h}
<1>3. last \in Nat /\ Window \in Nat \ {0} /\ S \in SUBSET (1..last)
  <2>1. last \in Nat /\ rows \subseteq 1..last /\ Window \in Nat \ {0}
    BY EventStreamAssumption DEF Types, StoreT
  <2> QED BY <2>1
<1>4. PICK s : s = Sorted(S)
  OBVIOUS
<1>5. PICK n : n = IF Len(s) > Window THEN (Len(s) - Window) + 1 ELSE 1
  OBVIOUS
<1>6. answered' = SubSeq(s, n, Len(s)) /\ s # <<>>
  BY <1>2, <1>4, <1>5 DEF OlderAnswered
<1>7. \A k \in S : k \in 1..last /\ k < h /\ k \in Int
  BY <1>3
<1> HIDE DEF S
<1>8. s \in Seq(S) /\ Len(s) \in Nat /\ Ascending(s)
  BY <1>3, <1>4, SortedIs
<1>9. n \in Nat \ {0} /\ Len(s) \in 0..Len(s) /\ n <= Len(s) + 1
  BY <1>3, <1>5, <1>8
<1>10. answered' \in Seq(S)
  BY <1>6, <1>8, <1>9, SubSeqIs
<1>11. Ascending(answered')
  <2>1. s \in Seq(Int)
    BY <1>7, <1>8, SeqUp
  <2> QED BY <1>6, <1>8, <1>9, <2>1, SubSeqUp
<1>12. answered' \in Seq(1..last)
  BY <1>7, <1>10, SeqUp
<1>13. \A i \in DOMAIN answered' : answered'[i] \in S
  BY <1>10
<1>14. answered' # Idle
  <2> SUFFICES ASSUME answered' = Idle PROVE FALSE
    OBVIOUS
  <2>1. 1 \in DOMAIN answered' /\ answered'[1] = 0
    BY DEF Idle
  <2> QED BY <1>7, <1>13, <2>1
<1> QED BY <1>1, <1>2, <1>7, <1>11, <1>12, <1>13, <1>14

\* Each step leaves the reader with events of what is stored.
LEMMA ReaderTyped == ASSUME Types, StreamOK, Next PROVE ReaderT'
<1>1. /\ panel \in BOOLEAN /\ online \in BOOLEAN /\ fresh \in BOOLEAN /\ replacing \in BOOLEAN /\ gathering \in BOOLEAN
      /\ at \in 0..last /\ known \in {-1} \cup Counts
      /\ buffer \in Seq(Messages(last)) /\ shown \in Seq(1..last) /\ above \in Seq(1..last)
      /\ (answered # Idle => answered \in Seq(1..last))
      /\ floor \in 0..last /\ endHeld \in BOOLEAN /\ last \in Nat
  BY EventStreamAssumption DEF Types, StoreT, ReaderT
<1>a. ASSUME wire # <<>>
      PROVE  /\ Head(wire) = wire[1] /\ wire[1] \in Messages(last)
             /\ wire[1].kind = "row" => wire[1].row \in 1..last
             /\ wire[1].kind \in {"reloads", "reload", "removed"} => wire[1].count \in Counts
             /\ wire[1].kind = "removed" => ~gathering
  <2>1. Head(wire) = wire[1] /\ wire[1] \in Messages(last) /\ (wire[1].kind = "removed" => ~gathering)
    BY <1>a, HeadIs
  <2> QED BY <1>1, <2>1, MessageIs
<1>b. RowsOf(buffer) \in Seq(1..last)
  BY <1>1, RowsOfTyped
<1>2. CASE Speech
  <2>1. PICK m : Speaks(m)
    BY <1>2, SpeechSpeaks
  <2>2. last' \in Nat /\ last <= last' /\ UNCHANGED reader
    BY <2>1, EventStreamAssumption DEF Speaks
  <2>3. floor' = floor /\ endHeld' \in BOOLEAN
    BY <1>1, <1>2 DEF Speech, Record, MessageUpdates, MessageEnds, Keep, RemoveTurn, ReplaceTail, TakeOut, GoBack, past
  <2>4. at \in 0..last' /\ floor \in 0..last' /\ buffer \in Seq(Messages(last')) /\ shown \in Seq(1..last')
        /\ above \in Seq(1..last') /\ (answered # Idle => answered \in Seq(1..last'))
    BY <1>1, <2>2, TypedUp
  <2> QED BY <1>1, <2>2, <2>3, <2>4 DEF reader, ReaderT
<1>3. CASE PiGone \/ ReplayRow \/ ReplayPage \/ GoLive
  BY <1>1, <1>3 DEF PiGone, ReplayRow, ReplayPage, GoLive, reader, past, store, ReaderT
<1>4. CASE Connect
  <2>1. floor' \in 0..last /\ endHeld' \in BOOLEAN /\ fresh' \in BOOLEAN
    BY <1>1, <1>4, ReplayStartIs DEF Connect
  <2> QED BY <1>1, <1>4, <2>1 DEF Connect, store, ReaderT
<1>5. ASSUME ReadAgain, known' \in Counts, UNCHANGED <<last, floor, endHeld>> PROVE ReaderT'
  <2>1. buffer' = <<>> /\ buffer' \in Seq(Messages(last)) /\ at' = 0 /\ at' \in 0..last
    BY <1>1, <1>5, EmptyTyped DEF ReadAgain
  <2>2. replacing' \in BOOLEAN
    BY <1>5 DEF ReadAgain
  <2> QED BY <1>1, <1>5, <2>1, <2>2 DEF ReadAgain, ReaderT
<1>6. CASE HearReloads
  <2>1. known' \in Counts
    BY <1>a, <1>6 DEF HearReloads, Hear
  <2>2. CASE ReadAgain
    BY <1>5, <1>6, <2>1, <2>2 DEF HearReloads, store, past
  <2>3. CASE UNCHANGED <<server, panel, online, at, fresh, replacing, gathering, buffer, shown, above, answered>>
    BY <1>1, <1>6, <2>1, <2>3 DEF HearReloads, store, past, ReaderT
  <2> QED BY <1>6, <2>2, <2>3 DEF HearReloads
<1>7. CASE HearReload
  <2>1. known' \in Counts
    BY <1>a, <1>7 DEF HearReload, Hear
  <2> QED BY <1>5, <1>7, <2>1 DEF HearReload, store, past
<1>8. CASE HearEvent
  <2>1. wire # <<>> /\ Head(wire) = wire[1] /\ wire[1] \in Messages(last) /\ (wire[1].kind = "row" => wire[1].row \in 1..last)
    BY <1>a, <1>8 DEF HearEvent, Hear
  <2>2. at' \in 0..last
    BY <1>1, <1>8, <2>1 DEF HearEvent
  <2>3. buffer' \in Seq(Messages(last))
    <3>1. buffer' = buffer \/ buffer' = Append(buffer, wire[1])
      BY <1>8, <2>1 DEF HearEvent
    <3>2. Append(buffer, wire[1]) \in Seq(Messages(last))
      BY <1>1, <2>1
    <3> QED BY <1>1, <3>1, <3>2
  <2>4. shown' \in Seq(1..last)
    <3>1. shown' = shown \/ (wire[1].kind = "row" /\ shown' = Append(shown, wire[1].row))
      BY <1>8, <2>1 DEF HearEvent
    <3>2. wire[1].kind = "row" => Append(shown, wire[1].row) \in Seq(1..last)
      BY <1>1, <2>1
    <3> QED BY <1>1, <3>1, <3>2
  <2> QED BY <1>1, <1>8, <2>2, <2>3, <2>4 DEF HearEvent, store, past, ReaderT
<1>9. CASE HearRemoved
  <2>1. PICK gone : gone = Covered(Head(wire).from, Head(wire).to)
    OBVIOUS
  <2>2. ~gathering /\ known' \in Counts
    BY <1>a, <1>9 DEF HearRemoved, Hear
  <2>3. shown' = Uncovered(shown, gone) /\ above' = Uncovered(above, gone) /\ buffer' = buffer
    BY <1>9, <2>1, <2>2 DEF HearRemoved
  <2>4. shown' \in Seq(1..last) /\ above' \in Seq(1..last)
    BY <1>1, <2>3, UncoveredIs
  <2> QED BY <1>1, <1>9, <2>2, <2>3, <2>4 DEF HearRemoved, store, past, ReaderT
<1>c. ASSUME Added PROVE shown' \in Seq(1..last) /\ UNCHANGED <<above, answered>>
  BY <1>1, <1>b, <1>c DEF Added
<1>d. ASSUME Replaced PROVE shown' \in Seq(1..last) /\ above' = <<>> /\ answered' = Idle
  BY <1>1, <1>b, <1>d DEF Replaced
<1>10. CASE HearCaughtUp
  <2>1. shown' \in Seq(1..last) /\ above' \in Seq(1..last) /\ (answered' # Idle => answered' \in Seq(1..last))
    <3>1. CASE Added
      BY <1>1, <1>c, <3>1
    <3>2. CASE Replaced
      <4>1. above' \in Seq(1..last)
        BY <1>d, <3>2, EmptyTyped
      <4> QED BY <1>d, <3>2, <4>1
    <3> QED BY <1>10, <3>1, <3>2 DEF HearCaughtUp
  <2>2. buffer' \in Seq(Messages(last)) /\ gathering' = FALSE /\ replacing' = FALSE
    BY <1>10, EmptyTyped DEF HearCaughtUp
  <2> QED BY <1>1, <1>10, <2>1, <2>2 DEF HearCaughtUp, store, past, ReaderT
<1>11. CASE Cut
  <2>1. shown' \in Seq(1..last) /\ above' = above /\ answered' = answered /\ at' \in 0..last
    BY <1>1, <1>c, <1>11 DEF Cut
  <2>2. buffer' \in Seq(Messages(last)) /\ gathering' = FALSE /\ online' = FALSE
    BY <1>11, EmptyTyped DEF Cut
  <2> QED BY <1>1, <1>11, <2>1, <2>2 DEF Cut, store, ReaderT
<1>12. CASE OlderAnswered
  <2>1. answered' \in Seq(1..last)
    BY <1>12, OlderIs
  <2> QED BY <1>1, <1>12, <2>1 DEF OlderAnswered, store, past, ReaderT
<1>13. CASE HearOlder
  <2>1. above' \in Seq(1..last) /\ answered' = Idle
    BY <1>1, <1>13 DEF HearOlder
  <2> QED BY <1>1, <1>13, <2>1 DEF HearOlder, store, past, ReaderT
<1> QED BY <1>2, <1>3, <1>4, <1>6, <1>7, <1>8, <1>9, <1>10, <1>11, <1>12, <1>13, Steps

-----------------------------------------------------------------------------
(* What is held, in its order. *)

Before(S, T) == \A x \in S, y \in T : x < y
IsRow(ms, i) == ms[i].kind = "row"
RowSet(ms)   == {ms[i].row : i \in {k \in 1..Len(ms) : IsRow(ms, k)}}
\* The events of a list of messages are in order, after lo and up to hi.
RowsUp(ms, lo, hi) ==
  /\ \A i \in 1..Len(ms) : IsRow(ms, i) => lo < ms[i].row /\ ms[i].row <= hi
  /\ \A i, j \in 1..Len(ms) : i < j /\ IsRow(ms, i) /\ IsRow(ms, j) => ms[i].row < ms[j].row

\* One more is held.
LEMMA RangeAppend ==
  ASSUME NEW T, NEW s \in Seq(T), NEW x \in T PROVE Range(Append(s, x)) = Range(s) \cup {x}
<1>1. DOMAIN s = 1..Len(s) /\ DOMAIN Append(s, x) = 1..Len(Append(s, x))
  OBVIOUS
<1>2. /\ Append(s, x)[Len(s) + 1] = x /\ Len(s) + 1 \in 1..Len(Append(s, x))
      /\ \A i \in 1..Len(s) : i \in 1..Len(Append(s, x)) /\ Append(s, x)[i] = s[i]
      /\ \A i \in 1..Len(Append(s, x)) : i \in 1..Len(s) \/ i = Len(s) + 1
  BY AppendIs
<1>3. ASSUME NEW y \in Range(Append(s, x)) PROVE y \in Range(s) \cup {x}
  BY <1>1, <1>2 DEF Range
<1>4. ASSUME NEW y \in Range(s) \cup {x} PROVE y \in Range(Append(s, x))
  <2>1. CASE y \in Range(s)
    <3>1. PICK i \in 1..Len(s) : s[i] = y
      BY <1>1, <2>1 DEF Range
    <3> QED BY <1>1, <1>2, <3>1 DEF Range
  <2>2. CASE y = x
    BY <1>1, <1>2, <2>2 DEF Range
  <2> QED BY <2>1, <2>2
<1> QED BY <1>3, <1>4

\* What two lists hold together.
LEMMA RangeOfConcat ==
  ASSUME NEW T, NEW s \in Seq(T), NEW t \in Seq(T) PROVE Range(s \o t) = Range(s) \cup Range(t)
<1>1. DOMAIN s = 1..Len(s) /\ DOMAIN t = 1..Len(t) /\ DOMAIN (s \o t) = 1..Len(s \o t)
  OBVIOUS
<1>2. /\ \A i \in 1..Len(s) : i \in 1..Len(s \o t) /\ (s \o t)[i] = s[i]
      /\ \A i \in 1..Len(t) : Len(s) + i \in 1..Len(s \o t) /\ (s \o t)[Len(s) + i] = t[i]
      /\ \A i \in 1..Len(s \o t) : i \in 1..Len(s) \/ (i > Len(s) /\ i - Len(s) \in 1..Len(t) /\ (s \o t)[i] = t[i - Len(s)])
  BY ConcatIs
<1>3. ASSUME NEW y \in Range(s \o t) PROVE y \in Range(s) \cup Range(t)
  <2>1. PICK i \in 1..Len(s \o t) : (s \o t)[i] = y
    BY <1>1 DEF Range
  <2>2. CASE i \in 1..Len(s)
    BY <1>1, <1>2, <2>1, <2>2 DEF Range
  <2>3. CASE i - Len(s) \in 1..Len(t) /\ (s \o t)[i] = t[i - Len(s)]
    BY <1>1, <2>1, <2>3 DEF Range
  <2> QED BY <1>2, <2>2, <2>3
<1>4. ASSUME NEW y \in Range(s) PROVE y \in Range(s \o t)
  <2>1. PICK i \in 1..Len(s) : s[i] = y
    BY <1>1, <1>4 DEF Range
  <2> QED BY <1>1, <1>2, <2>1 DEF Range
<1>5. ASSUME NEW y \in Range(t) PROVE y \in Range(s \o t)
  <2>1. PICK i \in 1..Len(t) : t[i] = y
    BY <1>1, <1>5 DEF Range
  <2>2. Len(s) + i \in 1..Len(s \o t) /\ (s \o t)[Len(s) + i] = y
    BY <1>2, <2>1
  <2> QED BY <1>1, <2>2 DEF Range
<1> QED BY <1>3, <1>4, <1>5

\* What is in a list is at a position of it.
LEMMA RangeIs == ASSUME NEW T, NEW s \in Seq(T) PROVE Range(s) \subseteq T /\ DOMAIN s = 1..Len(s) /\ \A x : x \in Range(s) <=> \E i \in 1..Len(s) : s[i] = x
BY DEF Range

\* A list is its first and the rest.
LEMMA RangeTail ==
  ASSUME NEW T, NEW s \in Seq(T), s # <<>> PROVE Range(s) = {Head(s)} \cup Range(Tail(s))
<1>1. /\ Tail(s) \in Seq(T) /\ Len(s) \in Nat \ {0} /\ Head(s) = s[1]
      /\ \A i \in 1..Len(Tail(s)) : i + 1 \in 1..Len(s) /\ Tail(s)[i] = s[i + 1]
      /\ \A i \in 2..Len(s) : i - 1 \in 1..Len(Tail(s)) /\ Tail(s)[i - 1] = s[i]
  BY TailIs
<1>2. /\ \A x : x \in Range(s) <=> \E i \in 1..Len(s) : s[i] = x
      /\ \A x : x \in Range(Tail(s)) <=> \E i \in 1..Len(Tail(s)) : Tail(s)[i] = x
  <2>1. Tail(s) \in Seq(T)
    BY <1>1
  <2>2. \A x : x \in Range(s) <=> \E i \in 1..Len(s) : s[i] = x
    BY RangeIs
  <2>3. \A x : x \in Range(Tail(s)) <=> \E i \in 1..Len(Tail(s)) : Tail(s)[i] = x
    BY <2>1, RangeIs
  <2> QED BY <2>2, <2>3
<1>3. ASSUME NEW x \in Range(s) PROVE x \in {Head(s)} \cup Range(Tail(s))
  <2>1. PICK i \in 1..Len(s) : s[i] = x
    BY <1>2
  <2>2. CASE i = 1
    BY <1>1, <2>1, <2>2
  <2>3. CASE i # 1
    <3>1. i \in 2..Len(s)
      BY <2>3
    <3>2. i - 1 \in 1..Len(Tail(s)) /\ Tail(s)[i - 1] = x
      BY <1>1, <2>1, <3>1
    <3> QED BY <1>2, <3>2
  <2> QED BY <2>2, <2>3
<1>4. ASSUME NEW x \in Range(Tail(s)) PROVE x \in Range(s)
  <2>1. PICK i \in 1..Len(Tail(s)) : Tail(s)[i] = x
    BY <1>2
  <2> QED BY <1>1, <1>2, <2>1
<1>5. Head(s) \in Range(s)
  <2>1. 1 \in 1..Len(s)
    BY <1>1
  <2> QED BY <1>1, <1>2, <2>1
<1> QED BY <1>3, <1>4, <1>5

\* One list behind another.
LEMMA AscendingConcat ==
  ASSUME NEW s \in Seq(Int), NEW t \in Seq(Int)
  PROVE  Ascending(s \o t) <=> Ascending(s) /\ Ascending(t) /\ Before(Range(s), Range(t))
<1>1. DOMAIN s = 1..Len(s) /\ DOMAIN t = 1..Len(t) /\ DOMAIN (s \o t) = 1..Len(s \o t)
  OBVIOUS
<1>2. /\ Len(s) \in Nat /\ Len(t) \in Nat
      /\ \A i \in 1..Len(s) : i \in 1..Len(s \o t) /\ (s \o t)[i] = s[i]
      /\ \A i \in 1..Len(t) : Len(s) + i \in 1..Len(s \o t) /\ (s \o t)[Len(s) + i] = t[i]
      /\ \A i \in 1..Len(s \o t) : i \in 1..Len(s) \/ (i > Len(s) /\ i - Len(s) \in 1..Len(t) /\ (s \o t)[i] = t[i - Len(s)])
  BY ConcatIs
<1>3. ASSUME Ascending(s \o t) PROVE Ascending(s) /\ Ascending(t) /\ Before(Range(s), Range(t))
  <2>1. Ascending(s)
    BY <1>1, <1>2, <1>3 DEF Ascending
  <2>2. ASSUME NEW i \in DOMAIN t, NEW j \in DOMAIN t, i < j PROVE t[i] < t[j]
    <3>1. Len(s) + i < Len(s) + j /\ Len(s) + i \in 1..Len(s \o t) /\ Len(s) + j \in 1..Len(s \o t)
          /\ (s \o t)[Len(s) + i] = t[i] /\ (s \o t)[Len(s) + j] = t[j]
      BY <1>1, <1>2, <2>2
    <3> QED BY <1>1, <1>3, <3>1 DEF Ascending
  <2>3. ASSUME NEW i \in 1..Len(s), NEW j \in 1..Len(t) PROVE s[i] < t[j]
    <3>1. i < Len(s) + j /\ i \in 1..Len(s \o t) /\ Len(s) + j \in 1..Len(s \o t)
          /\ (s \o t)[i] = s[i] /\ (s \o t)[Len(s) + j] = t[j]
      BY <1>2
    <3> QED BY <1>1, <1>3, <3>1 DEF Ascending
  <2>4. Before(Range(s), Range(t))
    BY <1>1, <2>3 DEF Before, Range
  <2> QED BY <2>1, <2>2, <2>4 DEF Ascending
<1>4. ASSUME Ascending(s), Ascending(t), Before(Range(s), Range(t)) PROVE Ascending(s \o t)
  <2>1. ASSUME NEW i \in 1..Len(s), NEW j \in 1..Len(t) PROVE s[i] < t[j]
    <3>1. s[i] \in Range(s) /\ t[j] \in Range(t)
      BY <1>1 DEF Range
    <3> QED BY <1>4, <3>1 DEF Before
  <2>2. ASSUME NEW i \in 1..Len(s \o t), NEW j \in 1..Len(s \o t), i < j PROVE (s \o t)[i] < (s \o t)[j]
    <3>1. CASE i \in 1..Len(s) /\ j \in 1..Len(s)
      <4>1. (s \o t)[i] = s[i] /\ (s \o t)[j] = s[j]
        BY <1>2, <3>1
      <4>2. s[i] < s[j]
        BY <1>1, <1>4, <2>2, <3>1 DEF Ascending
      <4> QED BY <4>1, <4>2
    <3>2. CASE i \in 1..Len(s) /\ j - Len(s) \in 1..Len(t) /\ (s \o t)[j] = t[j - Len(s)]
      BY <1>2, <2>1, <3>2
    <3>3. CASE i > Len(s) /\ i - Len(s) \in 1..Len(t) /\ (s \o t)[i] = t[i - Len(s)]
      <4>1. j - Len(s) \in 1..Len(t) /\ (s \o t)[j] = t[j - Len(s)]
        BY <1>2, <2>2, <3>3
      <4>2. i - Len(s) < j - Len(s)
        BY <1>2, <2>2
      <4>3. t[i - Len(s)] < t[j - Len(s)]
        BY <1>1, <1>4, <3>3, <4>1, <4>2 DEF Ascending
      <4> QED BY <3>3, <4>1, <4>3
    <3> QED BY <1>2, <3>1, <3>2, <3>3
  <2> QED BY <1>1, <2>2 DEF Ascending
<1> QED BY <1>3, <1>4

\* What comes after all that is held is held in order.
LEMMA AscendingAppend ==
  ASSUME NEW s \in Seq(Int), NEW x \in Int, Ascending(s), \A y \in Range(s) : y < x PROVE Ascending(Append(s, x))
<1>1. <<x>> \in Seq(Int) /\ Ascending(<<x>>) /\ Range(<<x>>) = {x}
  BY DEF Ascending, Range
<1>2. Append(s, x) = s \o <<x>>
  OBVIOUS
<1>3. Before(Range(s), Range(<<x>>))
  BY <1>1 DEF Before
<1> QED BY <1>1, <1>2, <1>3, AscendingConcat

\* What a removal leaves.
LEMMA UncoveredUp ==
  ASSUME NEW s \in Seq(Int), NEW gone
  PROVE  /\ Range(Uncovered(s, gone)) = Range(s) \ gone
         /\ Ascending(s) => Ascending(Uncovered(s, gone))
<1> DEFINE u == Uncovered(s, gone)
<1>1. u \in Seq(Int) /\ \E e : Picked(u, e, Len(s), {i \in 1..Len(s) : s[i] \notin gone}, s)
  BY UncoveredIs
<1> HIDE DEF u
<1>2. PICK e : Picked(u, e, Len(s), {i \in 1..Len(s) : s[i] \notin gone}, s)
  BY <1>1
<1>3. DOMAIN s = 1..Len(s) /\ DOMAIN u = 1..Len(u)
  BY <1>1
<1>4. ASSUME NEW x \in Range(u) PROVE x \in Range(s) \ gone
  BY <1>2, <1>3 DEF Range, Picked
<1>5. ASSUME NEW x \in Range(s) \ gone PROVE x \in Range(u)
  <2>1. PICK i \in 1..Len(s) : s[i] = x
    BY <1>3 DEF Range
  <2>2. PICK j \in 1..Len(u) : e[j] = i
    BY <1>2, <2>1 DEF Picked
  <2>3. u[j] = x
    BY <1>2, <2>1, <2>2 DEF Picked
  <2> QED BY <1>3, <2>3 DEF Range
<1>6. ASSUME Ascending(s) PROVE Ascending(u)
  BY <1>2, <1>3, <1>6 DEF Ascending, Picked
<1> QED BY <1>4, <1>5, <1>6 DEF u

\* The events of what is gathered.
LEMMA RowsOfUp ==
  ASSUME NEW n \in Nat, NEW ms \in Seq(Messages(n)), NEW lo, NEW hi, RowsUp(ms, lo, hi)
  PROVE  /\ RowsOf(ms) \in Seq(1..n) /\ Range(RowsOf(ms)) = RowSet(ms) /\ Ascending(RowsOf(ms))
         /\ \A r \in RowSet(ms) : lo < r /\ r <= hi /\ r \in 1..n
<1> DEFINE u == RowsOf(ms)
           K == {i \in 1..Len(ms) : ms[i].kind = "row"}
           v == [i \in 1..Len(ms) |-> ms[i].row]
<1>0. \A i \in 1..Len(ms) : ms[i].kind = "row" => ms[i].row \in 1..n
  <2> SUFFICES ASSUME NEW i \in 1..Len(ms), ms[i].kind = "row" PROVE ms[i].row \in 1..n
    OBVIOUS
  <2>1. ms[i] \in Messages(n)
    OBVIOUS
  <2> QED BY <2>1, MessageIs
<1>1. u \in Seq(1..n) /\ \E e : Picked(u, e, Len(ms), K, v)
  BY <1>0, RowsOfIs
<1>2. PICK e : Picked(u, e, Len(ms), K, v)
  BY <1>1
<1>3. \A i \in 1..Len(ms) : v[i] = ms[i].row /\ (i \in K <=> IsRow(ms, i))
  BY DEF IsRow
<1>4. RowSet(ms) = {v[i] : i \in K}
  BY <1>3 DEF RowSet
<1>5. K \subseteq 1..Len(ms)
  OBVIOUS
<1> HIDE DEF u, K, v
<1>6. DOMAIN u = 1..Len(u)
  BY <1>1
<1>7. ASSUME NEW x \in Range(u) PROVE x \in RowSet(ms)
  BY <1>2, <1>4, <1>6 DEF Range, Picked
<1>8. ASSUME NEW x \in RowSet(ms) PROVE x \in Range(u) /\ lo < x /\ x <= hi /\ x \in 1..n
  <2>1. PICK i \in K : v[i] = x
    BY <1>4
  <2>2. PICK j \in 1..Len(u) : e[j] = i
    BY <1>2, <1>5, <2>1 DEF Picked
  <2>3. u[j] = x
    BY <1>2, <2>1, <2>2 DEF Picked
  <2>4. lo < x /\ x <= hi /\ x \in 1..n
    BY <1>0, <1>3, <1>5, <2>1 DEF RowsUp, IsRow
  <2> QED BY <1>6, <2>3, <2>4 DEF Range
<1>9. ASSUME NEW i \in 1..Len(u), NEW j \in 1..Len(u), i < j PROVE u[i] < u[j]
  <2>1. e[i] \in 1..Len(ms) /\ e[j] \in 1..Len(ms) /\ e[i] < e[j] /\ e[i] \in K /\ e[j] \in K /\ u[i] = v[e[i]] /\ u[j] = v[e[j]]
    BY <1>2, <1>9 DEF Picked
  <2> QED BY <1>3, <2>1 DEF RowsUp
<1> QED BY <1>1, <1>6, <1>7, <1>8, <1>9 DEF Ascending, u

\* No messages bring no events.
LEMMA RowSetEmpty == RowSet(<<>>) = {} /\ \A lo, hi : RowsUp(<<>>, lo, hi)
BY DEF RowSet, RowsUp

\* The events of a list with one more message.
LEMMA RowSetAppend ==
  ASSUME NEW T, NEW ms \in Seq(T), NEW m \in T
  PROVE  RowSet(Append(ms, m)) = RowSet(ms) \cup (IF m.kind = "row" THEN {m.row} ELSE {})
<1>1. /\ Append(ms, m)[Len(ms) + 1] = m /\ Len(ms) + 1 \in 1..Len(Append(ms, m))
      /\ \A i \in 1..Len(ms) : i \in 1..Len(Append(ms, m)) /\ Append(ms, m)[i] = ms[i]
      /\ \A i \in 1..Len(Append(ms, m)) : i \in 1..Len(ms) \/ i = Len(ms) + 1
  BY AppendIs
<1>2. ASSUME NEW r \in RowSet(Append(ms, m)) PROVE r \in RowSet(ms) \cup (IF m.kind = "row" THEN {m.row} ELSE {})
  BY <1>1 DEF RowSet, IsRow
<1>3. ASSUME NEW r \in RowSet(ms) PROVE r \in RowSet(Append(ms, m))
  BY <1>1 DEF RowSet, IsRow
<1>4. m.kind = "row" => m.row \in RowSet(Append(ms, m))
  BY <1>1 DEF RowSet, IsRow
<1> QED BY <1>2, <1>3, <1>4

\* The events of a list without its first message.
LEMMA RowSetTail ==
  ASSUME NEW T, NEW ms \in Seq(T), ms # <<>>
  PROVE  RowSet(ms) = RowSet(Tail(ms)) \cup (IF ms[1].kind = "row" THEN {ms[1].row} ELSE {})
<1>1. /\ Len(ms) \in Nat \ {0}
      /\ \A i \in 1..Len(Tail(ms)) : i + 1 \in 1..Len(ms) /\ Tail(ms)[i] = ms[i + 1]
      /\ \A i \in 2..Len(ms) : i - 1 \in 1..Len(Tail(ms)) /\ Tail(ms)[i - 1] = ms[i]
  BY TailIs
<1>2. 1 \in 1..Len(ms) /\ \A i \in 1..Len(ms) : i = 1 \/ i \in 2..Len(ms)
  BY <1>1
<1>3. ASSUME NEW r \in RowSet(ms) PROVE r \in RowSet(Tail(ms)) \cup (IF ms[1].kind = "row" THEN {ms[1].row} ELSE {})
  BY <1>1, <1>2 DEF RowSet, IsRow
<1>4. ASSUME NEW r \in RowSet(Tail(ms)) PROVE r \in RowSet(ms)
  BY <1>1 DEF RowSet, IsRow
<1>5. ms[1].kind = "row" => ms[1].row \in RowSet(ms)
  BY <1>2 DEF RowSet, IsRow
<1> QED BY <1>3, <1>4, <1>5

\* Events in order between two bounds are so between wider ones.
LEMMA RowsUpWiden ==
  ASSUME NEW n \in Nat, NEW ms \in Seq(Messages(n)), NEW lo \in Int, NEW hi \in Int, NEW l \in Int, NEW h \in Int,
         l <= lo, hi <= h, RowsUp(ms, lo, hi)
  PROVE  RowsUp(ms, l, h)
<1>1. \A i \in 1..Len(ms) : IsRow(ms, i) => ms[i].row \in Int
  <2> SUFFICES ASSUME NEW i \in 1..Len(ms), IsRow(ms, i) PROVE ms[i].row \in Int
    OBVIOUS
  <2>1. ms[i] \in Messages(n) /\ ms[i].kind = "row"
    BY DEF IsRow
  <2> QED BY <2>1, MessageIs
<1> QED BY <1>1 DEF RowsUp

\* One more event, past the last, is in order.
LEMMA RowsUpAppend ==
  ASSUME NEW n \in Nat, NEW ms \in Seq(Messages(n)), NEW m \in Messages(n), NEW lo \in Int, NEW hi \in Int, NEW h \in Int,
         RowsUp(ms, lo, hi), lo <= hi, hi <= h, m.kind = "row" => hi < m.row /\ m.row <= h
  PROVE  RowsUp(Append(ms, m), lo, h)
<1>1. /\ Append(ms, m)[Len(ms) + 1] = m /\ Len(ms) \in Nat
      /\ \A i \in 1..Len(ms) : Append(ms, m)[i] = ms[i]
      /\ \A i \in 1..Len(Append(ms, m)) : i \in 1..Len(ms) \/ i = Len(ms) + 1
  BY AppendIs
<1>2. RowsUp(ms, lo, h) /\ (m.kind = "row" => m.row \in Int)
  <2>1. m.kind = "row" => m.row \in Int
    BY MessageIs
  <2>2. lo <= lo
    OBVIOUS
  <2> QED BY <2>1, <2>2, RowsUpWiden
<1>3. \A i \in 1..Len(ms) : IsRow(ms, i) => ms[i].row \in Int /\ ms[i].row <= hi
  <2> SUFFICES ASSUME NEW i \in 1..Len(ms), IsRow(ms, i) PROVE ms[i].row \in Int /\ ms[i].row <= hi
    OBVIOUS
  <2>1. ms[i] \in Messages(n) /\ ms[i].kind = "row"
    BY DEF IsRow
  <2> QED BY <2>1, MessageIs DEF RowsUp
<1> DEFINE q == Append(ms, m)
<1>4. ASSUME NEW i \in 1..Len(q), IsRow(q, i) PROVE lo < q[i].row /\ q[i].row <= h
  <2>1. CASE i \in 1..Len(ms)
    BY <1>1, <1>2, <1>4, <2>1 DEF RowsUp, IsRow
  <2>2. CASE i = Len(ms) + 1
    BY <1>1, <1>2, <1>4, <2>2 DEF IsRow
  <2> QED BY <1>1, <2>1, <2>2
<1>5. ASSUME NEW i \in 1..Len(q), NEW j \in 1..Len(q), i < j, IsRow(q, i), IsRow(q, j) PROVE q[i].row < q[j].row
  <2>1. i \in 1..Len(ms)
    BY <1>1, <1>5
  <2>2. CASE j \in 1..Len(ms)
    BY <1>1, <1>5, <2>1, <2>2 DEF RowsUp, IsRow
  <2>3. CASE j = Len(ms) + 1
    <3>1. q[i] = ms[i] /\ q[j] = m /\ IsRow(ms, i) /\ m.kind = "row"
      BY <1>1, <1>5, <2>1, <2>3 DEF IsRow
    <3>2. ms[i].row \in Int /\ ms[i].row <= hi /\ hi < m.row /\ m.row \in Int
      BY <1>2, <1>3, <2>1, <3>1
    <3> QED BY <3>1, <3>2
  <2> QED BY <1>1, <2>2, <2>3
<1> QED BY <1>4, <1>5 DEF RowsUp

\* Once the first is heard, the rest come after it.
LEMMA RowsUpTail ==
  ASSUME NEW n \in Nat, NEW ms \in Seq(Messages(n)), ms # <<>>, NEW lo, NEW hi, RowsUp(ms, lo, hi)
  PROVE  /\ RowsUp(Tail(ms), lo, hi)
         /\ ms[1].kind = "row" => lo < ms[1].row /\ ms[1].row <= hi /\ RowsUp(Tail(ms), ms[1].row, hi)
<1>1. /\ Len(ms) \in Nat \ {0}
      /\ \A i \in 1..Len(Tail(ms)) : i + 1 \in 1..Len(ms) /\ Tail(ms)[i] = ms[i + 1]
  BY TailIs
<1> DEFINE t == Tail(ms)
<1>2. ASSUME NEW i \in 1..Len(t), IsRow(t, i)
      PROVE  /\ lo < t[i].row /\ t[i].row <= hi
             /\ ms[1].kind = "row" => ms[1].row < t[i].row
  <2>1. i + 1 \in 1..Len(ms) /\ t[i] = ms[i + 1] /\ IsRow(ms, i + 1) /\ 1 \in 1..Len(ms) /\ 1 < i + 1
    BY <1>1, <1>2 DEF IsRow
  <2> QED BY <2>1 DEF RowsUp, IsRow
<1>3. ASSUME NEW i \in 1..Len(t), NEW j \in 1..Len(t), i < j, IsRow(t, i), IsRow(t, j) PROVE t[i].row < t[j].row
  <2>1. i + 1 \in 1..Len(ms) /\ t[i] = ms[i + 1] /\ IsRow(ms, i + 1) /\ j + 1 \in 1..Len(ms) /\ t[j] = ms[j + 1] /\ IsRow(ms, j + 1)
        /\ i + 1 < j + 1
    BY <1>1, <1>3 DEF IsRow
  <2> QED BY <2>1 DEF RowsUp
<1>4. ms[1].kind = "row" => lo < ms[1].row /\ ms[1].row <= hi
  <2>1. 1 \in 1..Len(ms)
    BY <1>1
  <2> QED BY <2>1 DEF RowsUp, IsRow
<1> QED BY <1>2, <1>3, <1>4 DEF RowsUp
-----------------------------------------------------------------------------
(* The order: what is held, gathered, written and waiting. *)

Adds     == ~replacing /\ ~(panel /\ fresh)
\* Where the cursor is at the last of what is held.
HoldsUp  == IF panel THEN IF online THEN ~gathering \/ ~fresh ELSE at # 0 ELSE ~replacing
Fetched  == IF answered = Idle THEN <<>> ELSE answered
HeldSet  == Range(Fetched) \cup Range(above) \cup Range(shown)
HeldOK ==
  /\ Ascending(Fetched) /\ Ascending(above) /\ Ascending(shown)
  /\ Before(Range(Fetched), Range(above) \cup Range(shown)) /\ Before(Range(above), Range(shown))
  /\ panel => answered = Idle /\ above = <<>>
  /\ HoldsUp => \A x \in HeldSet : x <= at
SaidInOrder ==
  /\ RowsUp(buffer, 0, at) /\ RowsUp(waiting, 0, last)
  /\ Adds => Before(HeldSet, RowSet(buffer))
  /\ RowsUp(wire, at, IF stream = "replay" THEN read ELSE last)
  /\ stream = "replay" => at <= read /\ Ascending(batch) /\ \A i \in DOMAIN batch : read < batch[i]
OrderOK == HeldOK /\ SaidInOrder

\* What the types say of the lists that are kept in order.
LEMMA OrderTyped ==
  ASSUME Types
  PROVE  /\ at \in 0..last /\ read \in 0..last /\ last \in Nat /\ at \in Int /\ read \in Int /\ last \in Int
         /\ wire \in Seq(Messages(last)) /\ waiting \in Seq(Messages(last)) /\ buffer \in Seq(Messages(last))
         /\ Fetched \in Seq(1..last) /\ above \in Seq(1..last) /\ shown \in Seq(1..last) /\ batch \in Seq(1..last)
         /\ Fetched \in Seq(Int) /\ above \in Seq(Int) /\ shown \in Seq(Int) /\ batch \in Seq(Int)
         /\ Range(Fetched) \subseteq 1..last /\ Range(above) \subseteq 1..last /\ Range(shown) \subseteq 1..last
         /\ HeldSet \subseteq 1..last
<1>1. at \in 0..last /\ read \in 0..last /\ last \in Nat /\ at \in Int /\ read \in Int /\ last \in Int
  BY EventStreamAssumption DEF Types, StoreT, StreamT, ReaderT
<1>2. wire \in Seq(Messages(last)) /\ waiting \in Seq(Messages(last)) /\ buffer \in Seq(Messages(last))
      /\ above \in Seq(1..last) /\ shown \in Seq(1..last) /\ batch \in Seq(1..last)
  BY DEF Types, StreamT, ReaderT
<1>3. Fetched \in Seq(1..last)
  BY EmptyTyped DEF Fetched, Types, ReaderT
<1>4. 1..last \subseteq Int
  BY <1>1
<1>5. Fetched \in Seq(Int) /\ above \in Seq(Int) /\ shown \in Seq(Int) /\ batch \in Seq(Int)
  BY <1>2, <1>3, <1>4, SeqUp
<1>6. Range(Fetched) \subseteq 1..last
  BY <1>3, RangeIs
<1>7. Range(above) \subseteq 1..last /\ Range(shown) \subseteq 1..last
  BY <1>2, RangeIs
<1> QED BY <1>1, <1>2, <1>3, <1>5, <1>6, <1>7 DEF HeldSet

\* What is said in a step comes after all that was.
LEMMA SpeechOrder == ASSUME Types, StreamOK, OrderOK, NEW m, Speaks(m) PROVE OrderOK'
<1>1. /\ at \in 0..last /\ read \in 0..last /\ last \in Nat /\ at \in Int /\ read \in Int /\ last \in Int
      /\ wire \in Seq(Messages(last)) /\ waiting \in Seq(Messages(last))
  BY OrderTyped
<1>2. m \in Messages(last') /\ last' \in Nat /\ last' \in Int /\ last <= last' /\ (m.kind = "row" => last < m.row /\ m.row <= last')
      /\ UNCHANGED <<stream, read, batch>> /\ UNCHANGED reader /\ Says(m) /\ stream \in {"off", "replay", "live"}
  BY <1>1, EventStreamAssumption DEF Speaks, Types, StreamT
<1>3. wire \in Seq(Messages(last')) /\ waiting \in Seq(Messages(last'))
  BY <1>2, TypedUp, <1>1
<1>4. HeldOK'
  BY <1>2 DEF OrderOK, HeldOK, HeldSet, HoldsUp, Fetched, reader
<1>5. RowsUp(waiting, 0, last) /\ RowsUp(wire, at, IF stream = "replay" THEN read ELSE last)
  BY DEF OrderOK, SaidInOrder
<1>6. RowsUp(waiting, 0, last') /\ RowsUp(Append(waiting, m), 0, last')
  <2>1. 0 \in Int /\ 0 <= 0 /\ 0 <= last
    BY <1>1
  <2> QED BY <1>1, <1>2, <1>3, <1>5, <2>1, RowsUpWiden, RowsUpAppend
<1>7. RowsUp(waiting', 0, last')
  BY <1>2, <1>6 DEF Says
<1>8. RowsUp(wire', at', IF stream' = "replay" THEN read' ELSE last')
  <2>1. at' = at
    BY <1>2 DEF reader
  <2>2. CASE stream = "replay"
    BY <1>2, <1>5, <2>1, <2>2 DEF Says
  <2>3. CASE stream = "live"
    <3>1. at <= last /\ RowsUp(wire, at, last)
      BY <1>1, <1>5, <2>3
    <3>2. RowsUp(Append(wire, m), at, last')
      BY <1>1, <1>2, <1>3, <3>1, RowsUpAppend
    <3> QED BY <1>2, <2>1, <2>3, <3>2 DEF Says
  <2>4. CASE stream = "off"
    <3>1. wire' = <<>>
      BY <1>2, <2>4 DEF Says, StreamOK, OffOK
    <3> QED BY <3>1, RowSetEmpty
  <2> QED BY <1>2, <2>2, <2>3, <2>4
<1>9. SaidInOrder'
  <2>1. UNCHANGED <<at, buffer, replacing, panel, fresh, answered, above, shown>>
    BY <1>2 DEF reader
  <2> QED BY <1>2, <1>7, <1>8, <2>1 DEF OrderOK, SaidInOrder, Adds, HeldSet, Fetched
<1> QED BY <1>4, <1>9 DEF OrderOK

\* A replay sends what comes after all it has sent.
LEMMA ReplayOrder == ASSUME Types, StreamOK, OrderOK, Connect \/ ReplayRow \/ ReplayPage PROVE OrderOK'
<1>1. /\ at \in 0..last /\ read \in 0..last /\ last \in Nat /\ at \in Int /\ read \in Int /\ last \in Int
      /\ wire \in Seq(Messages(last)) /\ waiting \in Seq(Messages(last)) /\ batch \in Seq(1..last) /\ batch \in Seq(Int)
  BY OrderTyped
<1>2. CASE Connect
  <2>1. PICK r : r = IF at = 0 THEN ReplayStart ELSE at
    OBVIOUS
  <2>2. r \in 0..last /\ Query(r)
    BY <1>1, <1>2, <2>1, ReplayStartIs DEF Connect
  <2>3. read' = r /\ Ascending(batch') /\ (\A i \in DOMAIN batch' : r < batch'[i]) /\ at <= r
    BY <1>1, <2>1, <2>2, QueryIs
  <2>4. wire' = <<Reloads(count)>> /\ waiting' = <<>> /\ buffer' = <<>> /\ online' = TRUE /\ gathering' = TRUE /\ stream' = "replay"
        /\ fresh' = (at = 0) /\ UNCHANGED <<at, last, panel, replacing, answered, above, shown>> /\ ~online
    BY <1>2 DEF Connect, store
  <2>5. Reloads(count).kind = "reloads"
    BY DEF Reloads
  <2>6. \A lo, hi : RowsUp(wire', lo, hi)
    BY <2>4, <2>5 DEF RowsUp, IsRow
  <2>7. HoldsUp' => HoldsUp
    BY <2>4 DEF HoldsUp
  <2>8. HeldOK'
    BY <2>4, <2>7 DEF OrderOK, HeldOK, HeldSet, Fetched
  <2>9. SaidInOrder'
    BY <2>3, <2>4, <2>6, RowSetEmpty DEF SaidInOrder, Before
  <2> QED BY <2>8, <2>9 DEF OrderOK
<1>3. CASE ReplayRow
  <2>1. stream = "replay" /\ batch # <<>> /\ read' = Head(batch) /\ batch' = Tail(batch)
        /\ wire' = Append(wire, [kind |-> "row", row |-> Head(batch), of |-> ends[Head(batch)]])
        /\ UNCHANGED <<stream, waiting, last>> /\ UNCHANGED reader
    BY <1>3 DEF ReplayRow, store
  <2>2. at <= read /\ Ascending(batch) /\ (\A i \in DOMAIN batch : read < batch[i]) /\ RowsUp(wire, at, read)
    BY <2>1 DEF OrderOK, SaidInOrder
  <2>3. /\ Len(batch) \in Nat \ {0} /\ Head(batch) = batch[1] /\ batch[1] \in 1..last
        /\ \A i \in 1..Len(Tail(batch)) : i + 1 \in 1..Len(batch) /\ Tail(batch)[i] = batch[i + 1]
        /\ Tail(batch) \in Seq(1..last)
    BY <1>1, <2>1, TailIs
  <2>4. DOMAIN batch = 1..Len(batch) /\ DOMAIN Tail(batch) = 1..Len(Tail(batch)) /\ 1 \in DOMAIN batch
    BY <1>1, <2>3
  <2>5. read < batch[1] /\ batch[1] \in Int
    BY <2>2, <2>3, <2>4
  <2>6. \A i \in DOMAIN batch' : read' < batch'[i]
    <3> SUFFICES ASSUME NEW i \in DOMAIN Tail(batch) PROVE batch[1] < Tail(batch)[i]
      BY <2>1, <2>3
    <3>1. i + 1 \in DOMAIN batch /\ 1 < i + 1 /\ Tail(batch)[i] = batch[i + 1]
      BY <2>3, <2>4
    <3> QED BY <2>2, <2>4, <3>1 DEF Ascending
  <2>7. Ascending(batch')
    <3> SUFFICES ASSUME NEW i \in DOMAIN Tail(batch), NEW j \in DOMAIN Tail(batch), i < j PROVE Tail(batch)[i] < Tail(batch)[j]
      BY <2>1 DEF Ascending
    <3>1. i + 1 \in DOMAIN batch /\ Tail(batch)[i] = batch[i + 1] /\ j + 1 \in DOMAIN batch /\ Tail(batch)[j] = batch[j + 1] /\ i + 1 < j + 1
      BY <2>3, <2>4
    <3> QED BY <2>2, <3>1 DEF Ascending
  <2> DEFINE m == [kind |-> "row", row |-> Head(batch), of |-> ends[Head(batch)]]
  <2>8. m \in Messages(last) /\ m.row = batch[1]
    <3>1. ends[Head(batch)] \in 0..MaxAnswers
      BY <2>3, EventStreamAssumption DEF Types, StoreT, Seqs
    <3> QED BY <2>3, <3>1 DEF Messages
  <2> HIDE DEF m
  <2>9. RowsUp(wire', at, read')
    <3>1. RowsUp(Append(wire, m), at, batch[1])
      <4>1. read <= batch[1] /\ (m.kind = "row" => read < m.row /\ m.row <= batch[1])
        BY <1>1, <2>5, <2>8
      <4> QED BY <1>1, <2>2, <2>5, <2>8, <4>1, RowsUpAppend
    <3> QED BY <2>1, <2>3, <3>1 DEF m
  <2>10. at <= read'
    BY <1>1, <2>1, <2>2, <2>3, <2>5
  <2> QED BY <2>1, <2>6, <2>7, <2>9, <2>10 DEF OrderOK, SaidInOrder, HeldOK, HeldSet, HoldsUp, Adds, Fetched, reader
<1>4. CASE ReplayPage
  <2>1. stream = "replay" /\ Query(read) /\ UNCHANGED <<stream, waiting, wire, last>> /\ UNCHANGED reader
    BY <1>4 DEF ReplayPage, store
  <2>2. read' = read /\ Ascending(batch') /\ (\A i \in DOMAIN batch' : read < batch'[i])
    BY <1>1, <2>1, QueryIs
  <2> QED BY <2>1, <2>2 DEF OrderOK, SaidInOrder, HeldOK, HeldSet, HoldsUp, Adds, Fetched, reader
<1> QED BY <1>2, <1>3, <1>4

\* What waited comes after the replay, but for what the replay covered.
LEMMA LiveOrder == ASSUME Types, StreamOK, OrderOK, GoLive PROVE OrderOK'
<1>1. /\ at \in 0..last /\ read \in 0..last /\ last \in Nat /\ at \in Int /\ read \in Int /\ last \in Int
      /\ wire \in Seq(Messages(last)) /\ waiting \in Seq(Messages(last)) /\ read <= last
  BY OrderTyped
<1>2. PICK c, N, e : Goes(c, N, e)
  BY GoLiveIs
<1>3. stream = "replay" /\ stream' = "live" /\ waiting' = <<>> /\ UNCHANGED <<last, read>> /\ UNCHANGED reader
  BY DEF GoLive, store
<1>4. at <= read /\ RowsUp(wire, at, read) /\ RowsUp(waiting, 0, last)
  BY <1>3 DEF OrderOK, SaidInOrder
<1>5. Picked(N, e, Len(waiting), {i \in 1..Len(waiting) : IsNews(waiting[i], read)}, waiting) /\ N \in Seq(Messages(last))
  BY <1>2 DEF Goes
<1>6. ASSUME NEW i \in 1..Len(N), IsRow(N, i)
      PROVE  read < N[i].row /\ N[i].row <= last /\ N[i].row \in Int
  <2>1. e[i] \in 1..Len(waiting) /\ N[i] = waiting[e[i]] /\ IsNews(waiting[e[i]], read)
    BY <1>5 DEF Picked
  <2>2. IsRow(waiting, e[i]) /\ waiting[e[i]] \in Messages(last)
    BY <1>1, <1>6, <2>1 DEF IsRow
  <2>3. waiting[e[i]].row \in 1..last
    BY <1>1, <2>2, MessageIs DEF IsRow
  <2> QED BY <1>1, <2>1, <2>2, <2>3 DEF IsNews, IsRow
<1>7. ASSUME NEW i \in 1..Len(N), NEW j \in 1..Len(N), i < j, IsRow(N, i), IsRow(N, j) PROVE N[i].row < N[j].row
  <2>1. e[i] \in 1..Len(waiting) /\ N[i] = waiting[e[i]] /\ e[j] \in 1..Len(waiting) /\ N[j] = waiting[e[j]] /\ e[i] < e[j]
    BY <1>5, <1>7 DEF Picked
  <2> QED BY <1>4, <1>7, <2>1 DEF RowsUp, IsRow
<1>8. \A i \in 1..Len(wire) : IsRow(wire, i) => at < wire[i].row /\ wire[i].row <= read /\ wire[i].row \in Int
  <2> SUFFICES ASSUME NEW i \in 1..Len(wire), IsRow(wire, i) PROVE at < wire[i].row /\ wire[i].row <= read /\ wire[i].row \in Int
    OBVIOUS
  <2>1. wire[i] \in Messages(last)
    BY <1>1
  <2>2. wire[i].row \in 1..last
    BY <1>1, <2>1, MessageIs DEF IsRow
  <2> QED BY <1>4, <2>2 DEF RowsUp
<1>9. \A i \in 1..Len(wire') :
        IsRow(wire', i) => \/ i < c /\ i \in 1..Len(wire) /\ wire'[i] = wire[i] /\ IsRow(wire, i)
                           \/ i > c /\ i - c \in 1..Len(N) /\ wire'[i] = N[i - c] /\ IsRow(N, i - c)
  <2> SUFFICES ASSUME NEW i \in 1..Len(wire'), IsRow(wire', i)
               PROVE  \/ i < c /\ i \in 1..Len(wire) /\ wire'[i] = wire[i] /\ IsRow(wire, i)
                      \/ i > c /\ i - c \in 1..Len(N) /\ wire'[i] = N[i - c] /\ IsRow(N, i - c)
    OBVIOUS
  <2>1. Snapshot(live, said).kind = "snapshot" /\ CaughtUp.kind = "caughtUp"
    BY DEF Snapshot, CaughtUp
  <2>2. \/ i < c /\ i \in 1..Len(wire) /\ wire'[i] = wire[i]
        \/ wire'[i] = Snapshot(live, said)
        \/ wire'[i] = CaughtUp
        \/ i > c /\ i - c \in 1..Len(N) /\ wire'[i] = N[i - c]
    BY <1>2 DEF Goes
  <2> QED BY <2>1, <2>2 DEF IsRow
<1>10. c \in Nat
  BY <1>2 DEF Goes
<1>11. RowsUp(wire', at, last)
  <2>1. ASSUME NEW i \in 1..Len(wire'), IsRow(wire', i) PROVE at < wire'[i].row /\ wire'[i].row <= last
    <3>1. CASE i < c /\ i \in 1..Len(wire) /\ wire'[i] = wire[i] /\ IsRow(wire, i)
      BY <1>1, <1>8, <3>1
    <3>2. CASE i > c /\ i - c \in 1..Len(N) /\ wire'[i] = N[i - c] /\ IsRow(N, i - c)
      <4>1. read < N[i - c].row /\ N[i - c].row <= last /\ N[i - c].row \in Int
        BY <1>6, <3>2
      <4> QED BY <1>1, <1>4, <3>2, <4>1
    <3> QED BY <1>9, <2>1, <3>1, <3>2
  <2>2. ASSUME NEW i \in 1..Len(wire'), NEW j \in 1..Len(wire'), i < j, IsRow(wire', i), IsRow(wire', j) PROVE wire'[i].row < wire'[j].row
    <3>1. CASE (i < c /\ i \in 1..Len(wire) /\ wire'[i] = wire[i] /\ IsRow(wire, i))
               /\ (j < c /\ j \in 1..Len(wire) /\ wire'[j] = wire[j] /\ IsRow(wire, j))
      BY <1>4, <2>2, <3>1 DEF RowsUp
    <3>2. CASE (i < c /\ i \in 1..Len(wire) /\ wire'[i] = wire[i] /\ IsRow(wire, i))
               /\ (j > c /\ j - c \in 1..Len(N) /\ wire'[j] = N[j - c] /\ IsRow(N, j - c))
      <4>1. read < N[j - c].row /\ N[j - c].row \in Int
        BY <1>6, <3>2
      <4>2. wire[i].row <= read /\ wire[i].row \in Int
        BY <1>8, <3>2
      <4> QED BY <1>1, <3>2, <4>1, <4>2
    <3>3. CASE (i > c /\ i - c \in 1..Len(N) /\ wire'[i] = N[i - c] /\ IsRow(N, i - c))
               /\ (j > c /\ j - c \in 1..Len(N) /\ wire'[j] = N[j - c] /\ IsRow(N, j - c))
      <4>1. i - c < j - c
        BY <1>10, <2>2
      <4> QED BY <1>7, <3>3, <4>1
    <3>4. CASE i > c /\ j < c
      BY <1>10, <2>2, <3>4
    <3> QED BY <1>9, <2>2, <3>1, <3>2, <3>3, <3>4
  <2> QED BY <2>1, <2>2 DEF RowsUp
<1> QED BY <1>3, <1>11, RowSetEmpty DEF OrderOK, SaidInOrder, HeldOK, HeldSet, HoldsUp, Adds, Fetched, reader

\* A stream that is closed leaves what is held.
LEMMA ClosedOrder ==
  ASSUME HeldOK, UNCHANGED <<panel, shown, above, answered>>,
         buffer' = <<>>, waiting' = <<>>, wire' = <<>>, stream' = "off", HoldsUp' => (HoldsUp /\ at' = at)
  PROVE  OrderOK'
<1>1. HeldSet' = HeldSet /\ Fetched' = Fetched
  BY DEF HeldSet, Fetched
<1>2. HeldOK'
  BY <1>1 DEF HeldOK
<1>3. SaidInOrder'
  BY RowSetEmpty DEF SaidInOrder, Before
<1> QED BY <1>2, <1>3 DEF OrderOK

\* Reading the chat again starts from nothing, which is in order.
LEMMA AgainOrder == ASSUME OrderOK, ReadAgain PROVE OrderOK'
<1>1. ~HoldsUp'
  <2>1. CASE panel
    BY <2>1 DEF ReadAgain, HoldsUp
  <2>2. CASE ~panel
    BY <2>2 DEF ReadAgain, HoldsUp
  <2> QED BY <2>1, <2>2
<1> QED BY <1>1, ClosedOrder DEF ReadAgain, OrderOK

\* A list in order, and what comes behind it.
LEMMA HeldMore ==
  ASSUME Types, HeldOK, NEW more_ \in Seq(1..last), Ascending(more_), Before(HeldSet, Range(more_)), shown' = shown \o more_,
         UNCHANGED <<panel, above, answered>>, HoldsUp' => \A x \in HeldSet \cup Range(more_) : x <= at'
  PROVE  HeldOK'
<1>1. /\ Fetched \in Seq(Int) /\ above \in Seq(Int) /\ shown \in Seq(Int) /\ last \in Nat
  BY OrderTyped
<1>2. more_ \in Seq(Int)
  BY <1>1, SeqUp
<1>3. Range(shown') = Range(shown) \cup Range(more_)
  BY <1>1, <1>2, RangeOfConcat
<1>4. Ascending(shown) /\ Before(Range(shown), Range(more_)) /\ Before(Range(Fetched), Range(more_)) /\ Before(Range(above), Range(more_))
  BY DEF HeldOK, HeldSet, Before
<1>5. Ascending(shown')
  BY <1>1, <1>2, <1>4, AscendingConcat
<1>6. Fetched' = Fetched /\ HeldSet' = HeldSet \cup Range(more_)
  BY <1>3 DEF Fetched, HeldSet
<1>7. Before(Range(Fetched), Range(above) \cup Range(shown')) /\ Before(Range(above), Range(shown'))
  BY <1>3, <1>4 DEF HeldOK, Before
<1> QED BY <1>5, <1>6, <1>7 DEF HeldOK

\* What the reader hears comes after what it has.
LEMMA EventOrder == ASSUME Types, StreamOK, OrderOK, HearEvent PROVE OrderOK'
<1>1. /\ at \in 0..last /\ read \in 0..last /\ last \in Nat /\ at \in Int /\ read \in Int /\ last \in Int
      /\ wire \in Seq(Messages(last)) /\ buffer \in Seq(Messages(last)) /\ HeldSet \subseteq 1..last
  BY OrderTyped
<1>2. wire # <<>> /\ wire' = Tail(wire) /\ UNCHANGED <<stream, read, batch, waiting, last, panel, online, fresh, replacing, gathering, above, answered>>
  BY DEF HearEvent, Hear, server, store
<1>3. Head(wire) = wire[1] /\ wire[1] \in Messages(last) /\ online
  BY <1>2, HeadIs
<1> DEFINE m == wire[1]
           hi == IF stream = "replay" THEN read ELSE last
<1>4. m.kind = "row" => m.row \in 1..last
  BY <1>1, <1>3, MessageIs
<1>5. RowsUp(wire', at, hi) /\ (m.kind = "row" => at < m.row /\ m.row <= hi /\ RowsUp(wire', m.row, hi))
  <2>1. RowsUp(wire, at, hi)
    BY DEF OrderOK, SaidInOrder
  <2> QED BY <1>1, <1>2, <2>1, RowsUpTail
<1>6. at' = (IF m.kind = "row" THEN m.row ELSE at)
  BY <1>3 DEF HearEvent
<1>7. at <= at' /\ at' \in Int /\ RowsUp(wire', at', hi) /\ (at' = at \/ at' <= hi)
  BY <1>1, <1>4, <1>5, <1>6
<1>8. stream = "replay" => at' <= read
  BY <1>7 DEF OrderOK, SaidInOrder
<1>9. hi' = hi
  BY <1>2
<1>10. CASE gathering
  <2>1. buffer' = Append(buffer, m) /\ shown' = shown
    BY <1>3, <1>10 DEF HearEvent
  <2>2. HoldsUp' = HoldsUp /\ HeldSet' = HeldSet /\ Fetched' = Fetched /\ Adds' = Adds
    BY <1>2, <1>3, <2>1 DEF HoldsUp, HeldSet, Fetched, Adds
  <2>3. HeldOK'
    <3>1. HoldsUp => \A x \in HeldSet : x <= at'
      <4>1. HoldsUp => \A x \in HeldSet : x <= at /\ x \in Int
        BY <1>1 DEF OrderOK, HeldOK
      <4> QED BY <1>1, <1>7, <4>1
    <3> QED BY <1>2, <2>1, <2>2, <3>1 DEF OrderOK, HeldOK
  <2>4. RowsUp(buffer', 0, at')
    <3>1. RowsUp(buffer, 0, at) /\ 0 <= at /\ 0 \in Int /\ (m.kind = "row" => at < m.row /\ m.row <= at')
      BY <1>1, <1>4, <1>5, <1>6 DEF OrderOK, SaidInOrder
    <3> HIDE DEF m
    <3> QED BY <1>1, <1>3, <1>7, <2>1, <3>1, RowsUpAppend DEF m
  <2>5. Adds => Before(HeldSet, RowSet(buffer'))
    <3> SUFFICES ASSUME Adds PROVE Before(HeldSet, RowSet(buffer'))
      OBVIOUS
    <3>1. HoldsUp
      BY <1>3 DEF Adds, HoldsUp
    <3>2. \A x \in HeldSet : x <= at /\ x \in Int
      BY <1>1, <3>1 DEF OrderOK, HeldOK
    <3>3. RowSet(buffer') = RowSet(buffer) \cup (IF m.kind = "row" THEN {m.row} ELSE {})
      BY <1>1, <1>3, <2>1, RowSetAppend
    <3>4. ASSUME NEW x \in HeldSet, NEW y \in RowSet(buffer') PROVE x < y
      <4>1. CASE y \in RowSet(buffer)
        BY <4>1 DEF OrderOK, SaidInOrder, Before
      <4>2. CASE m.kind = "row" /\ y = m.row
        BY <1>1, <1>4, <1>5, <3>2, <4>2
      <4> QED BY <3>3, <4>1, <4>2
    <3> QED BY <3>4 DEF Before
  <2>6. SaidInOrder'
    BY <1>2, <1>7, <1>8, <2>2, <2>4, <2>5 DEF OrderOK, SaidInOrder
  <2> QED BY <2>3, <2>6 DEF OrderOK
<1>11. CASE ~gathering
  <2>1. buffer = <<>> /\ buffer' = <<>> /\ HoldsUp /\ stream = "live"
    <3>1. HoldsUp
      BY <1>3, <1>11 DEF HoldsUp, StreamOK, ReaderOK
    <3>2. buffer = <<>> /\ stream = "live"
      BY <1>2, <1>11, HeadIs DEF StreamOK, BufferOK
    <3> QED BY <1>11, <3>1, <3>2 DEF HearEvent
  <2>2. shown' = IF m.kind = "row" THEN Append(shown, m.row) ELSE shown
    BY <1>3, <1>11 DEF HearEvent
  <2>3. \A x \in HeldSet : x <= at /\ x \in Int
    BY <1>1, <2>1 DEF OrderOK, HeldOK
  <2>4. HeldOK'
    <3>1. CASE m.kind = "row"
      <4> DEFINE s == <<m.row>>
      <4>1. s \in Seq(1..last) /\ Ascending(s) /\ Range(s) = {m.row}
        BY <1>4, <3>1 DEF Ascending, Range
      <4>2. shown \in Seq(1..last)
        BY OrderTyped
      <4>3. shown' = shown \o s
        BY <1>4, <2>2, <3>1, <4>2
      <4>a. at' = m.row /\ at < m.row /\ m.row \in Int
        BY <1>4, <1>5, <1>6, <3>1
      <4>b. \A x \in HeldSet : x < m.row
        BY <1>1, <2>3, <4>a
      <4>4. Before(HeldSet, Range(s))
        BY <4>1, <4>b DEF Before
      <4>5. \A x \in HeldSet \cup Range(s) : x <= at'
        BY <1>1, <2>3, <4>1, <4>a, <4>b
      <4> HIDE DEF s
      <4> QED BY <1>2, <4>1, <4>3, <4>4, <4>5, HeldMore DEF OrderOK
    <3>2. CASE m.kind # "row"
      <4>1. shown' = shown /\ at' = at
        BY <1>6, <2>2, <3>2
      <4> QED BY <1>2, <2>3, <4>1 DEF OrderOK, HeldOK, HeldSet, HoldsUp, Fetched
    <3> QED BY <3>1, <3>2
  <2>5. SaidInOrder'
    BY <1>2, <1>7, <2>1, RowSetEmpty DEF OrderOK, SaidInOrder, Before
  <2> QED BY <2>4, <2>5 DEF OrderOK
<1> QED BY <1>10, <1>11

\* A removal leaves what is held in its order.
LEMMA RemovedOrder == ASSUME Types, StreamOK, OrderOK, HearRemoved PROVE OrderOK'
<1>1. /\ at \in Int /\ read \in Int /\ last \in Int /\ last \in Nat
      /\ Fetched \in Seq(Int) /\ above \in Seq(Int) /\ shown \in Seq(Int)
      /\ wire \in Seq(Messages(last))
  BY OrderTyped
<1>2. wire # <<>> /\ wire' = Tail(wire)
      /\ UNCHANGED <<stream, read, batch, waiting, last, panel, online, at, fresh, replacing, gathering, answered>>
  BY DEF HearRemoved, Hear, server, store
<1>3. Head(wire) = wire[1] /\ ~gathering
  <2>1. Head(wire).kind = "removed"
    BY DEF HearRemoved, Hear
  <2> QED BY <1>2, <2>1, HeadIs
<1>4. PICK gone : gone = Covered(Head(wire).from, Head(wire).to)
  OBVIOUS
<1>5. shown' = Uncovered(shown, gone) /\ above' = Uncovered(above, gone) /\ buffer' = buffer
  BY <1>3, <1>4 DEF HearRemoved
<1>6. /\ Range(shown') = Range(shown) \ gone /\ Range(above') = Range(above) \ gone
      /\ (Ascending(shown) => Ascending(shown')) /\ (Ascending(above) => Ascending(above'))
  BY <1>1, <1>5, UncoveredUp
<1>7. panel => above' = <<>>
  <2> SUFFICES ASSUME panel PROVE above' = <<>>
    OBVIOUS
  <2>1. above = <<>>
    BY DEF OrderOK, HeldOK
  <2>2. above' \in Seq(Int) /\ Range(above') = {}
    <3>1. Range(above) = {}
      BY <2>1 DEF Range
    <3>2. above' \in Seq(Int)
      BY <1>1, <1>5, UncoveredIs
    <3> QED BY <1>6, <3>1, <3>2
  <2> SUFFICES ASSUME above' # <<>> PROVE FALSE
    OBVIOUS
  <2>3. Range(above') = {Head(above')} \cup Range(Tail(above'))
    BY <2>2, RangeTail
  <2> QED BY <2>2, <2>3
<1>8. Fetched' = Fetched /\ HeldSet' \subseteq HeldSet /\ HoldsUp' = HoldsUp /\ Adds' = Adds
  BY <1>2, <1>6 DEF Fetched, HeldSet, HoldsUp, Adds
<1>9. HeldOK'
  <2>1. Before(Range(Fetched'), Range(above') \cup Range(shown')) /\ Before(Range(above'), Range(shown'))
    BY <1>6, <1>8 DEF OrderOK, HeldOK, Before
  <2>2. HoldsUp' => \A x \in HeldSet' : x <= at'
    BY <1>2, <1>8 DEF OrderOK, HeldOK
  <2> QED BY <1>2, <1>6, <1>7, <1>8, <2>1, <2>2 DEF OrderOK, HeldOK
<1>10. RowsUp(wire', at', IF stream = "replay" THEN read ELSE last)
  BY <1>1, <1>2, RowsUpTail DEF OrderOK, SaidInOrder
<1>11. SaidInOrder'
  BY <1>2, <1>5, <1>8, <1>10 DEF OrderOK, SaidInOrder, Before
<1> QED BY <1>9, <1>11 DEF OrderOK

\* What a replay brought comes behind what is held.
LEMMA AddedOrder ==
  ASSUME Types, StreamOK, OrderOK, Added, Adds, online, UNCHANGED <<panel, at>>
  PROVE  HeldOK'
<1>1. /\ at \in Int /\ last \in Nat /\ buffer \in Seq(Messages(last)) /\ HeldSet \subseteq 1..last
  BY OrderTyped
<1>2. PICK s : s = RowsOf(buffer)
  OBVIOUS
<1>3. s \in Seq(1..last) /\ Range(s) = RowSet(buffer) /\ Ascending(s) /\ \A r \in RowSet(buffer) : r <= at
  BY <1>1, <1>2, RowsOfUp DEF OrderOK, SaidInOrder
<1>4. Before(HeldSet, Range(s))
  BY <1>3 DEF OrderOK, SaidInOrder
<1>5. HoldsUp
  BY DEF Adds, HoldsUp
<1>6. \A x \in HeldSet \cup Range(s) : x <= at
  BY <1>3, <1>5 DEF OrderOK, HeldOK
<1>7. shown' = shown \o s /\ UNCHANGED <<above, answered>>
  BY <1>2 DEF Added
<1> QED BY <1>3, <1>4, <1>6, <1>7, HeldMore DEF OrderOK

\* Or in its place.
LEMMA ReplacedOrder ==
  ASSUME Types, StreamOK, OrderOK, Replaced, UNCHANGED <<panel, at>>
  PROVE  HeldOK'
<1>1. /\ at \in Int /\ last \in Nat /\ buffer \in Seq(Messages(last))
  BY OrderTyped
<1>2. Ascending(RowsOf(buffer)) /\ Range(RowsOf(buffer)) = RowSet(buffer) /\ \A r \in RowSet(buffer) : r <= at
  BY <1>1, RowsOfUp DEF OrderOK, SaidInOrder
<1>3. shown' = RowsOf(buffer) /\ above' = <<>> /\ Fetched' = <<>> /\ answered' = Idle /\ panel' = panel /\ at' = at
  BY DEF Replaced, Fetched
<1>4. Range(<<>>) = {} /\ Ascending(<<>>)
  BY DEF Range, Ascending
<1>5. Range(Fetched') = {} /\ Range(above') = {} /\ Range(shown') = RowSet(buffer)
      /\ Ascending(Fetched') /\ Ascending(above') /\ Ascending(shown')
  BY <1>2, <1>3, <1>4
<1>6. HeldSet' = RowSet(buffer)
  BY <1>5 DEF HeldSet
<1>7. \A x \in HeldSet' : x <= at'
  BY <1>2, <1>3, <1>6
<1> QED BY <1>3, <1>5, <1>7 DEF HeldOK, Before

\* What was gathered comes after what was held.
LEMMA CaughtUpOrder == ASSUME Types, StreamOK, OrderOK, HearCaughtUp PROVE OrderOK'
<1>1. /\ at \in Int /\ read \in Int /\ last \in Int /\ last \in Nat /\ wire \in Seq(Messages(last))
  BY OrderTyped
<1>2. wire # <<>> /\ wire' = Tail(wire) /\ buffer' = <<>>
      /\ UNCHANGED <<stream, read, batch, waiting, last, panel, online, at, fresh>>
  BY DEF HearCaughtUp, Hear, server, store
<1>3. online
  BY <1>2, HeadIs
<1>4. HeldOK'
  <2>1. CASE replacing \/ (panel /\ fresh)
    BY <1>2, <2>1, ReplacedOrder DEF HearCaughtUp
  <2>2. CASE ~(replacing \/ (panel /\ fresh))
    BY <1>2, <1>3, <2>2, AddedOrder DEF HearCaughtUp, Adds
  <2> QED BY <2>1, <2>2
<1>5. RowsUp(wire', at', IF stream = "replay" THEN read ELSE last)
  BY <1>1, <1>2, RowsUpTail DEF OrderOK, SaidInOrder
<1>6. SaidInOrder'
  BY <1>2, <1>5, RowSetEmpty DEF OrderOK, SaidInOrder, Before
<1> QED BY <1>4, <1>6 DEF OrderOK

\* A cut leaves what is held in order.
LEMMA CutOrder == ASSUME Types, StreamOK, OrderOK, Cut PROVE OrderOK'
<1>1. online /\ online' = FALSE /\ buffer' = <<>> /\ waiting' = <<>> /\ wire' = <<>> /\ stream' = "off" /\ UNCHANGED <<panel, replacing, fresh>>
  BY DEF Cut
<1>2. CASE replacing \/ panel
  <2>1. UNCHANGED <<shown, above, answered>> /\ at' = IF replacing \/ buffer # <<>> THEN 0 ELSE at
    BY <1>2 DEF Cut
  <2>2. HoldsUp' => HoldsUp /\ at' = at
    <3> SUFFICES ASSUME HoldsUp' PROVE HoldsUp /\ at' = at
      OBVIOUS
    <3>1. panel /\ at' # 0
      BY <1>1, <1>2 DEF HoldsUp
    <3>2. at' = at /\ buffer = <<>> /\ ~replacing
      BY <2>1, <3>1
    <3> QED BY <1>1, <3>1, <3>2 DEF HoldsUp, StreamOK, ReaderOK
  <2> QED BY <1>1, <2>1, <2>2, ClosedOrder DEF OrderOK
<1>3. CASE ~(replacing \/ panel)
  <2>1. Added /\ at' = at
    BY <1>3 DEF Cut
  <2>2. HeldOK'
    BY <1>1, <1>3, <2>1, AddedOrder DEF Adds
  <2>3. SaidInOrder'
    BY <1>1, RowSetEmpty DEF SaidInOrder, Before
  <2> QED BY <2>2, <2>3 DEF OrderOK
<1> QED BY <1>2, <1>3

\* What is fetched comes before what is held.
LEMMA OlderOrder == ASSUME Types, StreamOK, OrderOK, OlderAnswered PROVE OrderOK'
<1>1. /\ at \in Int /\ last \in Nat /\ above \in Seq(1..last) /\ shown \in Seq(1..last) /\ above \in Seq(Int) /\ shown \in Seq(Int)
      /\ HeldSet \subseteq 1..last
  BY OrderTyped
<1>2. /\ ~panel /\ answered = Idle /\ above \o shown # <<>> /\ answered' \in Seq(1..last) /\ answered' # Idle
      /\ Ascending(answered') /\ \A i \in DOMAIN answered' : answered'[i] < Head(above \o shown)
  BY OlderIs
<1>3. UNCHANGED <<stream, read, batch, waiting, wire, last, panel, online, at, fresh, replacing, gathering, buffer, shown, above>>
  BY DEF OlderAnswered, server, store
<1> DEFINE s == above \o shown
           h == Head(s)
<1>4. s \in Seq(1..last) /\ Range(s) = Range(above) \cup Range(shown) /\ Ascending(s)
  <2>1. Ascending(above) /\ Ascending(shown) /\ Before(Range(above), Range(shown))
    BY DEF OrderOK, HeldOK
  <2>2. Ascending(above \o shown)
    BY <1>1, <2>1, AscendingConcat
  <2>3. Range(above \o shown) = Range(above) \cup Range(shown)
    BY <1>1, RangeOfConcat
  <2>4. above \o shown \in Seq(1..last)
    BY <1>1, ConcatIs
  <2> QED BY <2>2, <2>3, <2>4
<1>b. Range(s) \subseteq 1..last
  <2>1. Range(above) \subseteq 1..last /\ Range(shown) \subseteq 1..last
    BY OrderTyped
  <2> QED BY <1>4, <2>1
<1>5. s # <<>>
  BY <1>2
<1>6. \A i \in DOMAIN answered' : answered'[i] < h
  BY <1>2
<1> HIDE DEF s
<1>7. h = s[1] /\ h \in 1..last /\ 1 \in 1..Len(s) /\ DOMAIN s = 1..Len(s)
  <2>1. Len(s) \in Nat \ {0} /\ Head(s) = s[1] /\ s[1] \in 1..last
    BY <1>4, <1>5, TailIs
  <2> QED BY <1>4, <2>1
<1>8. \A x \in Range(s) : h <= x /\ x \in Int
  <2> SUFFICES ASSUME NEW x \in Range(s) PROVE h <= x /\ x \in Int
    OBVIOUS
  <2>1. PICK i \in DOMAIN s : s[i] = x
    BY DEF Range
  <2>2. s[i] \in 1..last
    BY <1>b, <2>1
  <2>3. i = 1 \/ 1 < i
    BY <1>7
  <2> QED BY <1>1, <1>4, <1>7, <2>1, <2>2, <2>3 DEF Ascending
<1>9. Range(answered') \subseteq 1..last /\ \A x \in Range(answered') : x < h
  BY <1>2, <1>6, RangeIs DEF Range
<1>10. Fetched = <<>> /\ Fetched' = answered' /\ Range(<<>>) = {}
  BY <1>2 DEF Fetched, Range
<1>11. HeldSet = Range(s) /\ HeldSet' = Range(answered') \cup Range(s)
  BY <1>3, <1>4, <1>10 DEF HeldSet
<1>12. Before(Range(answered'), Range(s))
  BY <1>1, <1>7, <1>8, <1>9 DEF Before
<1>13. h \in HeldSet
  BY <1>7, <1>11 DEF Range
<1>14. HoldsUp' = HoldsUp /\ Adds' = Adds
  BY <1>3 DEF HoldsUp, Adds
<1>15. HoldsUp => \A x \in HeldSet' : x <= at
  <2> SUFFICES ASSUME HoldsUp, NEW x \in HeldSet' PROVE x <= at
    OBVIOUS
  <2>1. \A y \in HeldSet : y <= at
    BY DEF OrderOK, HeldOK
  <2>2. CASE x \in Range(s)
    BY <1>11, <2>1, <2>2
  <2>3. CASE x \in Range(answered')
    <3>1. x < h /\ x \in Int /\ h <= at /\ h \in Int
      BY <1>7, <1>9, <1>13, <2>1, <2>3
    <3> QED BY <1>1, <3>1
  <2> QED BY <1>11, <2>2, <2>3
<1>16. Adds => Before(HeldSet', RowSet(buffer))
  <2> SUFFICES ASSUME Adds, NEW x \in HeldSet', NEW y \in RowSet(buffer) PROVE x < y
    BY DEF Before
  <2>1. \A z \in HeldSet : z < y
    BY DEF OrderOK, SaidInOrder, Before
  <2>2. CASE x \in Range(s)
    BY <1>11, <2>1, <2>2
  <2>3. CASE x \in Range(answered')
    <3>1. x < h /\ x \in Int /\ h < y /\ h \in Int
      BY <1>7, <1>9, <1>13, <2>1, <2>3
    <3>2. y \in Int
      <4>1. buffer \in Seq(Messages(last))
        BY OrderTyped
      <4>2. \A r \in RowSet(buffer) : r \in 1..last
        BY <1>1, <4>1, RowsOfUp DEF OrderOK, SaidInOrder
      <4> QED BY <4>2
    <3> QED BY <3>1, <3>2
  <2> QED BY <1>11, <2>2, <2>3
<1>17. HeldOK'
  <2>1. Before(Range(Fetched'), Range(above') \cup Range(shown'))
    BY <1>3, <1>4, <1>10, <1>12
  <2>2. Ascending(Fetched') /\ Ascending(above') /\ Ascending(shown') /\ Before(Range(above'), Range(shown'))
    BY <1>2, <1>3, <1>10 DEF OrderOK, HeldOK
  <2> QED BY <1>2, <1>3, <1>14, <1>15, <2>1, <2>2 DEF HeldOK
<1>18. SaidInOrder'
  BY <1>3, <1>14, <1>16 DEF OrderOK, SaidInOrder
<1> QED BY <1>17, <1>18 DEF OrderOK

\* A page of older events comes before all that is held.
LEMMA HeardOlderOrder == ASSUME Types, StreamOK, OrderOK, HearOlder PROVE OrderOK'
<1>1. /\ Fetched \in Seq(Int) /\ above \in Seq(Int) /\ shown \in Seq(Int)
  BY OrderTyped
<1>2. answered # Idle /\ above' = answered \o above /\ answered' = Idle
      /\ UNCHANGED <<stream, read, batch, waiting, wire, last, panel, online, at, fresh, replacing, gathering, buffer, shown>>
  BY DEF HearOlder, server, store
<1>3. Fetched = answered /\ Fetched' = <<>> /\ Range(<<>>) = {} /\ Ascending(<<>>)
  BY <1>2 DEF Fetched, Range, Ascending
<1>4. Range(above') = Range(Fetched) \cup Range(above)
  BY <1>1, <1>2, <1>3, RangeOfConcat
<1>5. Ascending(above')
  <2>1. Ascending(Fetched) /\ Ascending(above) /\ Before(Range(Fetched), Range(above))
    BY DEF OrderOK, HeldOK, Before
  <2> QED BY <1>1, <1>2, <1>3, <2>1, AscendingConcat
<1>6. HeldSet' = HeldSet /\ HoldsUp' = HoldsUp /\ Adds' = Adds
  BY <1>2, <1>3, <1>4 DEF HeldSet, HoldsUp, Adds
<1>7. Before(Range(above'), Range(shown)) /\ Before(Range(Fetched'), Range(above') \cup Range(shown'))
  BY <1>3, <1>4 DEF OrderOK, HeldOK, Before
<1>8. ~panel
  BY <1>2 DEF OrderOK, HeldOK
<1>9. HeldOK'
  BY <1>2, <1>3, <1>5, <1>6, <1>7, <1>8 DEF OrderOK, HeldOK
<1>10. SaidInOrder'
  BY <1>2, <1>6 DEF OrderOK, SaidInOrder
<1> QED BY <1>9, <1>10 DEF OrderOK

\* Every step keeps the order.
LEMMA OrderStep == ASSUME Types, StreamOK, OrderOK, Next PROVE OrderOK'
<1>1. CASE Speech
  BY <1>1, SpeechSpeaks, SpeechOrder
<1>2. CASE PiGone
  BY <1>2 DEF PiGone, store, server, reader, OrderOK, SaidInOrder, HeldOK, HeldSet, HoldsUp, Adds, Fetched
<1>3. CASE HearReloads
  <2>1. CASE ReadAgain
    BY <2>1, AgainOrder
  <2>2. CASE wire' = Tail(wire)
             /\ UNCHANGED <<server, panel, online, at, fresh, replacing, gathering, buffer, shown, above, answered>>
    <3>1. wire # <<>> /\ UNCHANGED <<stream, read, batch, waiting, last>>
      BY <1>3, <2>2 DEF HearReloads, Hear, server, store
    <3>2. last \in Nat /\ wire \in Seq(Messages(last))
      BY OrderTyped
    <3>3. RowsUp(wire', at, IF stream = "replay" THEN read ELSE last)
      BY <2>2, <3>1, <3>2, RowsUpTail DEF OrderOK, SaidInOrder
    <3> QED BY <2>2, <3>1, <3>3 DEF OrderOK, SaidInOrder, HeldOK, HeldSet, HoldsUp, Adds, Fetched
  <2> QED BY <1>3, <2>1, <2>2 DEF HearReloads
<1>4. CASE HearReload
  BY <1>4, AgainOrder DEF HearReload
<1> QED BY <1>1, <1>2, <1>3, <1>4, Steps, ReplayOrder, LiveOrder, EventOrder, RemovedOrder, CaughtUpOrder, CutOrder, OlderOrder,
           HeardOlderOrder

\* So it starts, and so it goes on.
CourseOK == Types /\ StreamOK /\ OrderOK

\* A reader that has nothing, of a chat that has nothing.
LEMMA CourseInit == ASSUME Init PROVE CourseOK
<1>1. StoreT
  BY EventStreamAssumption DEF Init, StoreT, Counts
<1>2. /\ wire = <<>> /\ waiting = <<>> /\ batch = <<>> /\ buffer = <<>> /\ shown = <<>> /\ above = <<>> /\ answered = Idle
      /\ stream = "off" /\ read = 0 /\ lastSent = 0 /\ more = FALSE /\ at = 0 /\ known = -1 /\ floor = 0 /\ endHeld = FALSE
      /\ panel \in BOOLEAN /\ online = FALSE /\ fresh = TRUE /\ replacing = FALSE /\ gathering = FALSE /\ last \in Nat
  BY EventStreamAssumption DEF Init
<1>3. StreamT /\ ReaderT
  <2>1. \A S : <<>> \in Seq(S)
    BY EmptyTyped
  <2>2. wire \in Seq(Messages(last)) /\ waiting \in Seq(Messages(last)) /\ buffer \in Seq(Messages(last))
        /\ batch \in Seq(1..last) /\ shown \in Seq(1..last) /\ above \in Seq(1..last)
    BY <1>2, <2>1
  <2>3. 0 \in 0..last
    BY <1>2
  <2>4. StreamT
    BY <1>2, <2>2, <2>3 DEF StreamT
  <2>5. ReaderT
    BY <1>2, <2>2, <2>3 DEF ReaderT
  <2> QED BY <2>4, <2>5
<1>4. StreamOK
  BY <1>2 DEF StreamOK, OffOK, ReplayOK, LiveOK, CaughtOK, BufferOK, ReaderOK
<1>5. OrderOK
  <2>1. Fetched = <<>> /\ Range(<<>>) = {} /\ Ascending(<<>>)
    BY <1>2 DEF Fetched, Range, Ascending
  <2>2. HeldSet = {}
    BY <1>2, <2>1 DEF HeldSet
  <2> QED BY <1>2, <2>1, <2>2, RowSetEmpty DEF OrderOK, SaidInOrder, HeldOK, Before
<1> QED BY <1>1, <1>3, <1>4, <1>5 DEF CourseOK, Types

\* Every step keeps the course of the stream and the order of what it brings.
LEMMA CourseStep == ASSUME CourseOK, [Next]_vars PROVE CourseOK'
<1>1. CASE Next
  BY <1>1, StoreTyped, StreamTyped, ReaderTyped, StreamStep, OrderStep DEF CourseOK, Types
<1>2. CASE UNCHANGED vars
  <2>1. UNCHANGED <<store, writer, server, wire, reader, past>>
    BY <1>2 DEF vars
  <2>2. Types'
    BY <2>1 DEF store, writer, server, reader, past, CourseOK, Types, StoreT, StreamT, ReaderT
  <2>3. StreamOK'
    BY <2>1 DEF server, reader, CourseOK, StreamOK, OffOK, ReplayOK, LiveOK, CaughtOK, BufferOK, ReaderOK, KindsIn, Comes
  <2>4. OrderOK'
    <3>1. HeldOK'
      BY <2>1 DEF server, reader, CourseOK, OrderOK, HeldOK, HeldSet, HoldsUp, Adds, Fetched
    <3>2. SaidInOrder'
      BY <2>1 DEF store, server, reader, CourseOK, OrderOK, SaidInOrder, HeldSet, Adds, Fetched
    <3> QED BY <3>1, <3>2 DEF OrderOK
  <2> QED BY <2>2, <2>3, <2>4 DEF CourseOK
<1> QED BY <1>1, <1>2

\* The course and the order hold throughout.
LEMMA CourseAlways == Spec => []CourseOK
BY CourseInit, CourseStep, PTL DEF Spec

\* What is held is in order, each event once.
LEMMA CourseInOrder == ASSUME CourseOK PROVE InOrder
<1>1. above \in Seq(Int) /\ shown \in Seq(Int)
  BY OrderTyped DEF CourseOK
<1>2. Ascending(above) /\ Ascending(shown) /\ Before(Range(above), Range(shown))
  BY DEF CourseOK, OrderOK, HeldOK
<1> QED BY <1>1, <1>2, AscendingConcat DEF InOrder

\* The events a reader holds are in order and each is there once, at any moment: what
\* the stream brought, what came of a replay, and what was fetched from above them
\* (the cursor, appendLiveEvents, what replaces what).
THEOREM HeldInOrder == Spec => []InOrder
BY CourseAlways, CourseInOrder, PTL

-----------------------------------------------------------------------------
(* The counts: every removal has one of its own, and the reader learns them in turn. *)

Counted == {"reloads", "removed", "reload"}
Chain(ms) == \A i, j \in 1..Len(ms) : i < j /\ ms[i].kind \in Counted /\ ms[j].kind \in Counted => ms[i].count < ms[j].count
CountOK ==
  /\ known <= count
  /\ \A i \in 1..Len(wire) : wire[i].kind \in Counted =>
       known <= wire[i].count /\ wire[i].count <= count /\ (wire[i].kind # "reloads" => known < wire[i].count)
  /\ \A i \in 1..Len(waiting) : waiting[i].kind \in Counted => known < waiting[i].count /\ waiting[i].count <= count
  /\ Chain(wire) /\ Chain(waiting)
  /\ \A i \in 1..Len(wire), j \in 1..Len(waiting) :
       wire[i].kind \in Counted /\ waiting[j].kind \in Counted => wire[i].count < waiting[j].count

\* What is said in a step, and what becomes of the chat.
Utters(m) ==
  /\ Speaks(m) /\ floor' = floor
  /\ \/ m.kind = "row" /\ m.row = last + 1 /\ last' = last + 1 /\ rows' = rows \cup {last + 1} /\ count' = count /\ endHeld' = endHeld
     \/ m.kind = "delta" /\ UNCHANGED <<rows, last, count, endHeld>>
     \/ /\ m.kind = "removed" /\ rows' = rows \ Covered(m.from, m.to) /\ m.count = count + 1 /\ count' = count + 1 /\ last' = last
        /\ endHeld => endHeld'
        /\ stream = "replay" /\ ~endHeld' => m.to <= last + 1
        /\ stream # "replay" => endHeld' = endHeld
     \/ m.kind = "reload" /\ m.count = count + 1 /\ count' = count + 1 /\ last' = last /\ endHeld' = endHeld

\* Each of what is said changes what is stored as it says.
LEMMA SpeechUtters == ASSUME Types, Speech PROVE \E m : Utters(m)
<1>0. last \in Nat /\ endHeld \in BOOLEAN
  BY EventStreamAssumption DEF Types, StoreT, ReaderT
<1>1. CASE Record
  <2>1. 0 \in 0..MaxAnswers /\ Keep(0)
    BY <1>1, EventStreamAssumption DEF Record
  <2>2. Speaks(Row(last + 1)) /\ Row(last + 1).kind = "row" /\ Row(last + 1).row = last + 1
    BY <2>1, KeepSpeaks
  <2>3. Utters(Row(last + 1))
    BY <2>1, <2>2 DEF Utters, Keep, past
  <2> QED BY <2>3
<1>2. CASE MessageEnds
  <2>1. live \in 0..MaxAnswers /\ Keep(live)
    BY <1>2 DEF MessageEnds, Types, StoreT
  <2>2. Speaks(Row(last + 1)) /\ Row(last + 1).kind = "row" /\ Row(last + 1).row = last + 1
    BY <2>1, KeepSpeaks
  <2>3. Utters(Row(last + 1))
    BY <2>1, <2>2 DEF Utters, Keep, past
  <2> QED BY <2>3
<1>3. CASE MessageUpdates
  <2>1. Speaks(Delta(live')) /\ Delta(live').kind = "delta"
    BY <1>3, UpdateSpeaks
  <2>2. Utters(Delta(live'))
    BY <1>3, <2>1 DEF Utters, MessageUpdates, store, past
  <2> QED BY <2>2
<1>4. ASSUME NEW from \in Seqs, NEW to \in (from + 1)..last \cup {Open}, RemoveTurn(from, to) PROVE \E m : Utters(m)
  <2>1. to \in 1..Open /\ TakeOut(from, to)
    BY <1>4, RemovedTo DEF RemoveTurn
  <2> DEFINE m == Removed(from, to, count + 1)
  <2>2. Speaks(m) /\ m.kind = "removed" /\ m.from = from /\ m.to = to /\ m.count = count + 1
    BY <2>1, TakeOutSpeaks
  <2> HIDE DEF m
  <2>3. endHeld' = (endHeld \/ (to = Open /\ stream = "replay"))
    BY <1>4 DEF RemoveTurn
  <2>a. endHeld => endHeld'
    BY <2>3
  <2>b. stream # "replay" => endHeld' = endHeld
    BY <1>0, <2>3
  <2>4. stream = "replay" /\ ~endHeld' => to <= last + 1
    <3> SUFFICES ASSUME stream = "replay", ~endHeld' PROVE to <= last + 1
      OBVIOUS
    <3>1. to # Open
      BY <2>3
    <3>2. to \in (from + 1)..last
      BY <3>1
    <3> QED BY <1>0, <3>2 DEF Seqs
  <2>5. rows' = rows \ Covered(m.from, m.to) /\ count' = count + 1 /\ last' = last /\ floor' = floor
    BY <2>1, <2>2 DEF TakeOut
  <2>6. Utters(m)
    BY <2>2, <2>a, <2>b, <2>4, <2>5 DEF Utters
  <2> QED BY <2>6
<1>5. ASSUME NEW from \in Seqs, ReplaceTail(from) PROVE \E m : Utters(m)
  <2>1. last + 1 \in 1..Open /\ TakeOut(from, last + 1)
    BY <1>5, RemovedTo DEF ReplaceTail
  <2> DEFINE m == Removed(from, last + 1, count + 1)
  <2>2. Speaks(m) /\ m.kind = "removed" /\ m.from = from /\ m.to = last + 1 /\ m.count = count + 1
    BY <2>1, TakeOutSpeaks
  <2> HIDE DEF m
  <2>3. rows' = rows \ Covered(m.from, m.to) /\ count' = count + 1 /\ last' = last /\ floor' = floor /\ endHeld' = endHeld
    BY <1>5, <2>1, <2>2 DEF TakeOut, ReplaceTail
  <2>4. m.to <= last + 1
    BY <1>0, <2>2
  <2>5. Utters(m)
    BY <2>2, <2>3, <2>4 DEF Utters
  <2> QED BY <2>5
<1>6. CASE GoBack
  <2> DEFINE m == Reload(count + 1)
  <2>1. Speaks(m) /\ m.kind = "reload" /\ m.count = count + 1
    BY <1>6, GoBackSpeaks
  <2> HIDE DEF m
  <2>2. Utters(m)
    BY <1>6, <2>1 DEF Utters, GoBack, past
  <2> QED BY <2>2
<1> QED BY <1>1, <1>2, <1>3, <1>4, <1>5, <1>6 DEF Speech

\* Counts are numbers.
LEMMA CountTyped ==
  ASSUME Types
  PROVE  /\ known \in Int /\ count \in Int
         /\ \A i \in 1..Len(wire) : wire[i].kind \in Counted => wire[i].count \in Nat
         /\ \A i \in 1..Len(waiting) : waiting[i].kind \in Counted => waiting[i].count \in Nat
<1>1. known \in Int /\ count \in Int /\ last \in Nat /\ wire \in Seq(Messages(last)) /\ waiting \in Seq(Messages(last)) /\ Counts \subseteq Nat
  BY EventStreamAssumption DEF Types, StoreT, StreamT, ReaderT, Counts
<1>2. ASSUME NEW m \in Messages(last), m.kind \in Counted PROVE m.count \in Nat
  <2>1. m.kind \in {"reloads", "reload", "removed"}
    BY <1>2 DEF Counted
  <2>2. m.count \in Counts
    BY <1>1, <2>1, MessageIs
  <2> QED BY <1>1, <2>2
<1> QED BY <1>1, <1>2

\* What is said raises the count, or leaves it.
LEMMA SpeechCount == ASSUME CourseOK, CountOK, NEW m, Utters(m) PROVE CountOK'
<1>0. Types /\ StreamOK
  BY DEF CourseOK
<1>1. /\ known \in Int /\ count \in Int
      /\ \A i \in 1..Len(wire) : wire[i].kind \in Counted => wire[i].count \in Nat
      /\ \A i \in 1..Len(waiting) : waiting[i].kind \in Counted => waiting[i].count \in Nat
  BY <1>0, CountTyped
<1>2. Speaks(m) /\ known' = known /\ count <= count' /\ count' \in Int /\ stream \in {"off", "replay", "live"} /\ stream' = stream
      /\ (m.kind \in Counted => m.count = count + 1 /\ count' = count + 1 /\ m.kind # "reloads")
  BY <1>0, <1>1 DEF Utters, Speaks, reader, Counted, Types, StreamT
<1>3. Says(m) /\ m \in Messages(last') /\ wire \in Seq(Messages(last')) /\ waiting \in Seq(Messages(last'))
  <2>1. last' \in Nat /\ last <= last'
    BY <1>2, EventStreamAssumption DEF Speaks
  <2>2. wire \in Seq(Messages(last)) /\ waiting \in Seq(Messages(last))
    BY <1>0 DEF Types, StreamT
  <2> QED BY <1>0, <1>2, <2>1, <2>2, TypedUp DEF Speaks
<1>4. /\ known <= count
      /\ \A i \in 1..Len(wire) : wire[i].kind \in Counted =>
           known <= wire[i].count /\ wire[i].count <= count /\ (wire[i].kind # "reloads" => known < wire[i].count)
      /\ \A i \in 1..Len(waiting) : waiting[i].kind \in Counted => known < waiting[i].count /\ waiting[i].count <= count
      /\ Chain(wire) /\ Chain(waiting)
      /\ \A i \in 1..Len(wire), j \in 1..Len(waiting) :
           wire[i].kind \in Counted /\ waiting[j].kind \in Counted => wire[i].count < waiting[j].count
  BY DEF CountOK
<1>5. CASE wire' = wire /\ waiting' = waiting
  BY <1>1, <1>2, <1>4, <1>5 DEF CountOK
<1>6. CASE stream = "live"
  <2>1. wire' = Append(wire, m) /\ waiting' = <<>>
    BY <1>0, <1>3, <1>6 DEF Says, StreamOK, LiveOK
  <2>2. /\ Len(wire) \in Nat /\ wire'[Len(wire) + 1] = m
        /\ \A i \in 1..Len(wire) : wire'[i] = wire[i] /\ i # Len(wire) + 1
        /\ \A i \in 1..Len(wire') : i \in 1..Len(wire) \/ i = Len(wire) + 1
    BY <1>3, <2>1, AppendIs
  <2>3. \A i \in 1..Len(wire') : wire'[i].kind \in Counted =>
          known <= wire'[i].count /\ wire'[i].count <= count' /\ (wire'[i].kind # "reloads" => known < wire'[i].count)
    BY <1>1, <1>2, <1>4, <2>2
  <2>4. ASSUME NEW i \in 1..Len(wire'), NEW j \in 1..Len(wire'), i < j, wire'[i].kind \in Counted, wire'[j].kind \in Counted
        PROVE  wire'[i].count < wire'[j].count
    <3>1. i \in 1..Len(wire) /\ wire'[i] = wire[i]
      BY <2>2, <2>4
    <3>2. CASE j \in 1..Len(wire)
      BY <1>4, <2>2, <2>4, <3>1, <3>2 DEF Chain
    <3>3. CASE j = Len(wire) + 1
      BY <1>1, <1>2, <1>4, <2>2, <2>4, <3>1, <3>3
    <3> QED BY <2>2, <3>2, <3>3
  <2>5. Chain(wire')
    BY <2>4 DEF Chain
  <2>6. Chain(waiting') /\ Len(waiting') = 0
    BY <2>1 DEF Chain
  <2> QED BY <1>1, <1>2, <1>4, <2>3, <2>5, <2>6 DEF CountOK
<1>7. CASE stream = "replay" /\ m.kind # "delta"
  <2>1. wire' = wire /\ waiting' = Append(waiting, m)
    BY <1>3, <1>7 DEF Says
  <2>2. /\ Len(waiting) \in Nat /\ waiting'[Len(waiting) + 1] = m
        /\ \A i \in 1..Len(waiting) : waiting'[i] = waiting[i] /\ i # Len(waiting) + 1
        /\ \A i \in 1..Len(waiting') : i \in 1..Len(waiting) \/ i = Len(waiting) + 1
    BY <1>3, <2>1, AppendIs
  <2>3. \A i \in 1..Len(waiting') : waiting'[i].kind \in Counted => known < waiting'[i].count /\ waiting'[i].count <= count'
    BY <1>1, <1>2, <1>4, <2>2
  <2>4. ASSUME NEW i \in 1..Len(waiting'), NEW j \in 1..Len(waiting'), i < j, waiting'[i].kind \in Counted, waiting'[j].kind \in Counted
        PROVE  waiting'[i].count < waiting'[j].count
    <3>1. i \in 1..Len(waiting) /\ waiting'[i] = waiting[i]
      BY <2>2, <2>4
    <3>2. CASE j \in 1..Len(waiting)
      BY <1>4, <2>2, <2>4, <3>1, <3>2 DEF Chain
    <3>3. CASE j = Len(waiting) + 1
      BY <1>1, <1>2, <1>4, <2>2, <2>4, <3>1, <3>3
    <3> QED BY <2>2, <3>2, <3>3
  <2>5. Chain(waiting')
    BY <2>4 DEF Chain
  <2>6. \A i \in 1..Len(wire), j \in 1..Len(waiting') :
           wire[i].kind \in Counted /\ waiting'[j].kind \in Counted => wire[i].count < waiting'[j].count
    BY <1>1, <1>2, <1>4, <2>2
  <2>7. \A i \in 1..Len(wire) : wire[i].kind \in Counted =>
           known <= wire[i].count /\ wire[i].count <= count' /\ (wire[i].kind # "reloads" => known < wire[i].count)
    BY <1>1, <1>2, <1>4
  <2> QED BY <1>1, <1>2, <1>4, <2>1, <2>3, <2>5, <2>6, <2>7 DEF CountOK
<1> QED BY <1>2, <1>3, <1>5, <1>6, <1>7 DEF Says

\* What is heard is learnt, and what comes after counts on.
LEMMA HeardCount ==
  ASSUME CourseOK, CountOK, wire # <<>>, wire' = Tail(wire) \/ wire' = <<>>, waiting' = waiting \/ waiting' = <<>>, count' = count,
         IF wire[1].kind \in Counted THEN known' = wire[1].count ELSE known' = known
  PROVE  CountOK'
<1>0. Types /\ StreamOK
  BY DEF CourseOK
<1>1. /\ known \in Int /\ count \in Int
      /\ \A i \in 1..Len(wire) : wire[i].kind \in Counted => wire[i].count \in Nat
      /\ \A i \in 1..Len(waiting) : waiting[i].kind \in Counted => waiting[i].count \in Nat
  BY <1>0, CountTyped
<1>2. 1 \in 1..Len(wire)
  BY <1>0, HeadIs
<1>3. /\ known <= count
      /\ \A i \in 1..Len(wire) : wire[i].kind \in Counted =>
           known <= wire[i].count /\ wire[i].count <= count /\ (wire[i].kind # "reloads" => known < wire[i].count)
      /\ \A i \in 1..Len(waiting) : waiting[i].kind \in Counted => known < waiting[i].count /\ waiting[i].count <= count
      /\ Chain(wire) /\ Chain(waiting)
      /\ \A i \in 1..Len(wire), j \in 1..Len(waiting) :
           wire[i].kind \in Counted /\ waiting[j].kind \in Counted => wire[i].count < waiting[j].count
  BY DEF CountOK
<1>4. \A i \in 1..Len(wire') : i + 1 \in 1..Len(wire) /\ wire'[i] = wire[i + 1] /\ 1 < i + 1
  <2>1. CASE wire' = <<>>
    BY <2>1
  <2>2. CASE wire' = Tail(wire)
    BY <1>0, <2>2, RestIs
  <2> QED BY <2>1, <2>2
<1>5. \A i \in 1..Len(waiting') : i \in 1..Len(waiting) /\ waiting'[i] = waiting[i]
  OBVIOUS
<1>6. known' <= count' /\ known' \in Int /\ known <= known'
  BY <1>1, <1>2, <1>3
<1>7. ASSUME NEW i \in 1..Len(wire'), wire'[i].kind \in Counted
      PROVE  known' < wire'[i].count /\ wire'[i].count <= count'
  <2>1. wire'[i].kind # "reloads"
    BY <1>0, <1>4 DEF StreamOK, BufferOK
  <2>2. CASE wire[1].kind \in Counted
    <3>1. wire[1].count < wire[i + 1].count
      BY <1>2, <1>3, <1>4, <1>7, <2>2 DEF Chain
    <3> QED BY <1>3, <1>4, <1>7, <2>2, <3>1
  <2>3. CASE wire[1].kind \notin Counted
    BY <1>3, <1>4, <1>7, <2>1, <2>3
  <2> QED BY <2>2, <2>3
<1>8. ASSUME NEW i \in 1..Len(waiting'), waiting'[i].kind \in Counted
      PROVE  known' < waiting'[i].count /\ waiting'[i].count <= count'
  BY <1>2, <1>3, <1>5, <1>8
<1>9. Chain(wire')
  <2> SUFFICES ASSUME NEW i \in 1..Len(wire'), NEW j \in 1..Len(wire'), i < j, wire'[i].kind \in Counted, wire'[j].kind \in Counted
               PROVE  wire'[i].count < wire'[j].count
    BY DEF Chain
  <2>1. i + 1 < j + 1
    OBVIOUS
  <2> QED BY <1>3, <1>4, <2>1 DEF Chain
<1>10. Chain(waiting')
  BY <1>3, <1>5 DEF Chain
<1>11. \A i \in 1..Len(wire'), j \in 1..Len(waiting') :
         wire'[i].kind \in Counted /\ waiting'[j].kind \in Counted => wire'[i].count < waiting'[j].count
  BY <1>3, <1>4, <1>5
<1>12. \A i \in 1..Len(wire') : wire'[i].kind \in Counted =>
           known' <= wire'[i].count /\ wire'[i].count <= count' /\ (wire'[i].kind # "reloads" => known' < wire'[i].count)
  <2>1. \A i \in 1..Len(wire') : wire'[i].kind \in Counted => wire'[i].count \in Nat
    BY <1>1, <1>4
  <2> QED BY <1>6, <1>7, <2>1
<1> QED BY <1>6, <1>8, <1>9, <1>10, <1>11, <1>12 DEF CountOK

\* What waited counts on from what was written.
LEMMA LiveCount == ASSUME CourseOK, CountOK, GoLive PROVE CountOK'
<1>0. Types /\ StreamOK
  BY DEF CourseOK
<1>1. PICK c, N, e : Goes(c, N, e)
  BY <1>0, GoLiveIs
<1>2. waiting' = <<>> /\ UNCHANGED <<known, count>>
  BY DEF GoLive, store, reader
<1>3. Picked(N, e, Len(waiting), {i \in 1..Len(waiting) : IsNews(waiting[i], read)}, waiting) /\ c \in Nat
  BY <1>1 DEF Goes
<1>4. \A i \in 1..Len(N) : e[i] \in 1..Len(waiting) /\ N[i] = waiting[e[i]]
  BY <1>3 DEF Picked
<1>5. \A i \in 1..Len(wire') :
        wire'[i].kind \in Counted => \/ i < c /\ i \in 1..Len(wire) /\ wire'[i] = wire[i]
                                     \/ i > c /\ i - c \in 1..Len(N) /\ wire'[i] = N[i - c]
  <2>1. Snapshot(live, said).kind \notin Counted /\ CaughtUp.kind \notin Counted
    BY DEF Snapshot, CaughtUp, Counted
  <2> QED BY <1>1, <2>1 DEF Goes
<1>6. /\ known \in Int /\ count \in Int
      /\ \A i \in 1..Len(wire) : wire[i].kind \in Counted => wire[i].count \in Nat
      /\ \A i \in 1..Len(waiting) : waiting[i].kind \in Counted => waiting[i].count \in Nat
  BY <1>0, CountTyped
<1>7. /\ known <= count
      /\ \A i \in 1..Len(wire) : wire[i].kind \in Counted =>
           known <= wire[i].count /\ wire[i].count <= count /\ (wire[i].kind # "reloads" => known < wire[i].count)
      /\ \A i \in 1..Len(waiting) : waiting[i].kind \in Counted => known < waiting[i].count /\ waiting[i].count <= count
      /\ Chain(wire) /\ Chain(waiting)
      /\ \A i \in 1..Len(wire), j \in 1..Len(waiting) :
           wire[i].kind \in Counted /\ waiting[j].kind \in Counted => wire[i].count < waiting[j].count
  BY DEF CountOK
<1>8. \A i \in 1..Len(wire') : wire'[i].kind \in Counted =>
           known <= wire'[i].count /\ wire'[i].count <= count /\ (wire'[i].kind # "reloads" => known < wire'[i].count)
  <2> SUFFICES ASSUME NEW i \in 1..Len(wire'), wire'[i].kind \in Counted
      PROVE  known <= wire'[i].count /\ wire'[i].count <= count /\ (wire'[i].kind # "reloads" => known < wire'[i].count)
    OBVIOUS
  <2>1. CASE i \in 1..Len(wire) /\ wire'[i] = wire[i]
    BY <1>7, <2>1
  <2>2. CASE i - c \in 1..Len(N) /\ wire'[i] = N[i - c]
    <3>1. e[i - c] \in 1..Len(waiting) /\ wire'[i] = waiting[e[i - c]]
      BY <1>4, <2>2
    <3>2. known < wire'[i].count /\ wire'[i].count <= count /\ wire'[i].count \in Nat
      BY <1>6, <1>7, <3>1
    <3> QED BY <1>6, <3>2
  <2> QED BY <1>5, <2>1, <2>2
<1>9. ASSUME NEW i \in 1..Len(wire'), NEW j \in 1..Len(wire'), i < j, wire'[i].kind \in Counted, wire'[j].kind \in Counted
      PROVE  wire'[i].count < wire'[j].count
  <2>1. CASE (i \in 1..Len(wire) /\ wire'[i] = wire[i]) /\ (j \in 1..Len(wire) /\ wire'[j] = wire[j])
    BY <1>7, <1>9, <2>1 DEF Chain
  <2>2. CASE (i \in 1..Len(wire) /\ wire'[i] = wire[i]) /\ (j > c /\ j - c \in 1..Len(N) /\ wire'[j] = N[j - c])
    BY <1>4, <1>7, <1>9, <2>2
  <2>3. CASE (i > c /\ i - c \in 1..Len(N) /\ wire'[i] = N[i - c]) /\ (j > c /\ j - c \in 1..Len(N) /\ wire'[j] = N[j - c])
    <3>1. i - c < j - c
      BY <1>3, <1>9
    <3>2. e[i - c] < e[j - c]
      BY <1>3, <2>3, <3>1 DEF Picked
    <3>3. /\ e[i - c] \in 1..Len(waiting) /\ wire'[i] = waiting[e[i - c]]
          /\ e[j - c] \in 1..Len(waiting) /\ wire'[j] = waiting[e[j - c]]
      BY <1>4, <2>3
    <3>4. Chain(waiting)
      BY <1>7
    <3> QED BY <1>9, <3>2, <3>3, <3>4 DEF Chain
  <2>4. CASE i > c /\ j < c
    BY <1>3, <1>9, <2>4
  <2> QED BY <1>5, <1>9, <2>1, <2>2, <2>3, <2>4
<1>10. Chain(wire') /\ Chain(waiting') /\ Len(waiting') = 0
  BY <1>2, <1>9 DEF Chain
<1> QED BY <1>2, <1>7, <1>8, <1>10 DEF CountOK

\* Every step keeps the counts.
LEMMA CountStep == ASSUME CourseOK, CountOK, Next PROVE CountOK'
<1>0. Types /\ StreamOK /\ count \in Nat
  BY EventStreamAssumption DEF CourseOK, Types, StoreT, Counts
<1>1. CASE Speech
  BY <1>0, <1>1, SpeechUtters, SpeechCount
<1>2. CASE PiGone \/ ReplayPage \/ OlderAnswered \/ HearOlder
  BY <1>2 DEF PiGone, ReplayPage, OlderAnswered, HearOlder, store, server, reader, CountOK, Chain
<1>3. CASE Connect
  <2> DEFINE m == Reloads(count)
  <2>1. m.kind = "reloads" /\ m.count = count
    BY DEF Reloads
  <2> HIDE DEF m
  <2>2. wire' = <<m>> /\ waiting' = <<>> /\ UNCHANGED <<known, count>>
    BY <1>3 DEF Connect, store, m
  <2>3. Len(wire') = 1 /\ wire'[1] = m /\ Len(waiting') = 0 /\ \A i \in 1..Len(wire') : i = 1
    BY <2>2
  <2>4. Chain(wire') /\ Chain(waiting')
    BY <2>3 DEF Chain
  <2> QED BY <1>0, <2>1, <2>2, <2>3, <2>4 DEF CountOK
<1>4. CASE ReplayRow
  <2> DEFINE m == [kind |-> "row", row |-> Head(batch), of |-> ends[Head(batch)]]
  <2>1. m.kind \notin Counted
    BY DEF Counted
  <2> HIDE DEF m
  <2>2. wire' = Append(wire, m) /\ UNCHANGED <<known, count, waiting>>
    BY <1>4 DEF ReplayRow, store, reader, m
  <2>3. wire \in Seq(Messages(last))
    BY <1>0 DEF Types, StreamT
  <2>4. \A i \in 1..Len(wire') : wire'[i].kind \in Counted => i \in 1..Len(wire) /\ wire'[i] = wire[i]
    BY <2>1, <2>2, <2>3
  <2>5. Chain(wire')
    BY <2>4 DEF CountOK, Chain
  <2> QED BY <2>2, <2>4, <2>5 DEF CountOK
<1>5. CASE HearReloads
  <2>1. wire # <<>> /\ wire[1].kind \in Counted /\ known' = wire[1].count
    <3>1. wire # <<>> /\ Head(wire).kind = "reloads" /\ known' = Head(wire).count
      BY <1>5 DEF HearReloads, Hear
    <3> QED BY <1>0, <3>1, HeadIs DEF Counted
  <2>2. (wire' = Tail(wire) \/ wire' = <<>>) /\ (waiting' = waiting \/ waiting' = <<>>) /\ count' = count
    BY <1>5 DEF HearReloads, ReadAgain, server, store
  <2> QED BY <2>1, <2>2, HeardCount
<1>6. CASE HearReload
  <2>1. wire # <<>> /\ wire[1].kind \in Counted /\ known' = wire[1].count
    <3>1. wire # <<>> /\ Head(wire).kind = "reload" /\ known' = Head(wire).count
      BY <1>6 DEF HearReload, Hear
    <3> QED BY <1>0, <3>1, HeadIs DEF Counted
  <2>2. (wire' = Tail(wire) \/ wire' = <<>>) /\ (waiting' = waiting \/ waiting' = <<>>) /\ count' = count
    BY <1>6 DEF HearReload, ReadAgain, store
  <2> QED BY <2>1, <2>2, HeardCount
<1>7. CASE HearRemoved
  <2>1. wire # <<>> /\ wire[1].kind \in Counted /\ known' = wire[1].count
    <3>1. wire # <<>> /\ Head(wire).kind = "removed" /\ known' = Head(wire).count
      BY <1>7 DEF HearRemoved, Hear
    <3> QED BY <1>0, <3>1, HeadIs DEF Counted
  <2>2. wire' = Tail(wire) /\ waiting' = waiting /\ count' = count
    BY <1>7 DEF HearRemoved, server, store
  <2> QED BY <2>1, <2>2, HeardCount
<1>8. CASE HearEvent \/ HearCaughtUp
  <2>1. wire # <<>> /\ wire[1].kind \notin Counted /\ known' = known
    <3>1. wire # <<>> /\ Head(wire).kind \in {"row", "delta", "snapshot", "caughtUp"} /\ known' = known
      BY <1>8 DEF HearEvent, HearCaughtUp, Hear
    <3>2. Head(wire) = wire[1]
      BY <1>0, <3>1, HeadIs
    <3> QED BY <3>1, <3>2 DEF Counted
  <2>2. wire' = Tail(wire) /\ waiting' = waiting /\ count' = count
    BY <1>8 DEF HearEvent, HearCaughtUp, server, store
  <2> QED BY <2>1, <2>2, HeardCount
<1>9. CASE Cut
  <2>1. wire' = <<>> /\ waiting' = <<>> /\ UNCHANGED <<known, count>>
    BY <1>9 DEF Cut, store
  <2>2. Len(wire') = 0 /\ Len(waiting') = 0
    BY <2>1
  <2> QED BY <2>1, <2>2 DEF CountOK, Chain
<1> QED BY <1>1, <1>2, <1>3, <1>4, <1>5, <1>6, <1>7, <1>8, <1>9, Steps, LiveCount

\* The counts, from the start on.
LEMMA CountInit == ASSUME Init PROVE CountOK
<1>1. wire = <<>> /\ waiting = <<>> /\ known = -1 /\ count = 0
  BY DEF Init
<1>2. Len(wire) = 0 /\ Len(waiting) = 0
  BY <1>1
<1> QED BY <1>1, <1>2 DEF CountOK, Chain

\* Every step keeps the course and the counts.
LEMMA CountNext == ASSUME CourseOK, CountOK, [Next]_vars PROVE CountOK'
<1>1. CASE UNCHANGED vars
  BY <1>1 DEF vars, store, server, reader, CountOK, Chain
<1> QED BY <1>1, CountStep

-----------------------------------------------------------------------------
(* The chat: what the reader has, what comes to it, and what will be taken from it. *)

\* It will hear that it has to read the chat again.
Doomed ==
  \/ \E i \in 1..Len(wire) :
       wire[i].kind = "reload" \/ (wire[i].kind = "reloads" /\ wire[i].count # known /\ ~fresh)
  \/ \E i \in 1..Len(waiting) : waiting[i].kind = "reload"
\* What it will show of its stream, of what it has.
Has == RowSet(buffer) \cup (IF Adds \/ ~gathering THEN Range(shown) ELSE {})
Takes(m, r) == m.kind = "removed" /\ r \in Covered(m.from, m.to)
TakenAfter(ms, j, r) == \E i \in 1..Len(ms) : j < i /\ Takes(ms[i], r)
\* What the replay will read of the chat as it is.
ToCome ==
  {r \in rows : read < r /\ (r \in Range(batch) \/ ((more \/ r \in RowSet(waiting)) /\ \A i \in DOMAIN batch : batch[i] < r))}
\* What is stored is there, or comes.
Complete == \A r \in rows : floor < r => r \in Has \/ r \in RowSet(wire) \/ (stream = "replay" /\ r \in ToCome)
\* Nothing stored is taken from the reader, but to come again.
Stays ==
  /\ \A i \in 1..Len(wire) : \A r \in rows :
       Takes(wire[i], r) => \E j \in 1..Len(wire) : i < j /\ IsRow(wire, j) /\ wire[j].row = r
  /\ \A i \in 1..Len(waiting) : waiting[i].kind = "removed" => waiting[i].to <= last + 1 /\ \A r \in rows : ~Takes(waiting[i], r)
\* What is stored no longer will be taken from it.
Leaves ==
  /\ \A r \in Has \ rows : TakenAfter(wire, 0, r) \/ TakenAfter(waiting, 0, r)
  /\ \A j \in 1..Len(wire) : IsRow(wire, j) /\ wire[j].row \notin rows =>
        TakenAfter(wire, j, wire[j].row) \/ TakenAfter(waiting, 0, wire[j].row)
  /\ \A i \in DOMAIN batch : batch[i] \notin rows => TakenAfter(waiting, 0, batch[i])
  /\ \A j \in 1..Len(waiting) : IsRow(waiting, j) /\ waiting[j].row \notin rows => TakenAfter(waiting, j, waiting[j].row)
FloorOK ==
  /\ at # 0 => floor <= at
  /\ \A i \in 1..Len(wire) : IsRow(wire, i) => floor < wire[i].row
  /\ stream = "replay" => floor <= read
OnlineOK  == online /\ ~endHeld /\ ~Doomed => Complete /\ Stays /\ Leaves /\ \A r \in Has : floor < r
OfflineOK ==
  ~online /\ ~endHeld /\ at # 0 /\ known = count => \A r \in Seqs : r \in Range(shown) <=> r \in rows /\ floor < r /\ r <= at
ChatOK == FloorOK /\ OnlineOK /\ OfflineOK

\* The first of the wire is heard.
LEMMA ReadChat ==
  ASSUME Types, StreamOK, OnlineOK, ~endHeld, ~Doomed, online, wire # <<>>, wire' = Tail(wire),
         UNCHANGED <<rows, last, floor, stream, read, batch, more, waiting>>,
         \A r : r \in Has' <=> (r \in Has /\ ~Takes(wire[1], r)) \/ (wire[1].kind = "row" /\ wire[1].row = r),
         wire[1].kind = "row" => floor < wire[1].row
  PROVE  Complete' /\ Stays' /\ Leaves' /\ \A r \in Has' : floor' < r
<1>1. /\ \A i \in 1..Len(wire') : i + 1 \in 1..Len(wire) /\ wire'[i] = wire[i + 1]
      /\ \A i \in 1..Len(wire) : i # 1 => i - 1 \in 1..Len(wire') /\ wire'[i - 1] = wire[i]
      /\ wire \in Seq(Messages(last)) /\ 1 \in 1..Len(wire)
  BY RestIs, HeadIs DEF Types, StreamT
<1>2. Complete /\ Stays /\ Leaves /\ \A r \in Has : floor < r
  BY DEF OnlineOK
<1>3. RowSet(wire) = RowSet(wire') \cup (IF wire[1].kind = "row" THEN {wire[1].row} ELSE {})
  BY <1>1, RowSetTail
<1>4. ASSUME NEW r, NEW j \in Nat, TakenAfter(wire, j + 1, r) PROVE TakenAfter(wire', j, r)
  <2>1. PICK i \in 1..Len(wire) : j + 1 < i /\ Takes(wire[i], r)
    BY <1>4 DEF TakenAfter
  <2>2. i - 1 \in 1..Len(wire') /\ wire'[i - 1] = wire[i] /\ j < i - 1
    BY <1>1, <2>1
  <2> QED BY <2>1, <2>2 DEF TakenAfter
<1>5. ASSUME NEW r, TakenAfter(wire, 0, r), ~Takes(wire[1], r) PROVE TakenAfter(wire', 0, r)
  <2>1. PICK i \in 1..Len(wire) : 0 < i /\ Takes(wire[i], r)
    BY <1>5 DEF TakenAfter
  <2>2. i # 1
    BY <1>5, <2>1
  <2>3. i - 1 \in 1..Len(wire') /\ wire'[i - 1] = wire[i] /\ 0 < i - 1
    BY <1>1, <2>1, <2>2
  <2> QED BY <2>1, <2>3 DEF TakenAfter
<1>6. ASSUME NEW i \in 1..Len(wire), NEW r \in rows, Takes(wire[i], r)
      PROVE  \E j \in 1..Len(wire') : i <= j /\ IsRow(wire', j) /\ wire'[j].row = r
  <2>1. PICK j \in 1..Len(wire) : i < j /\ IsRow(wire, j) /\ wire[j].row = r
    BY <1>2, <1>6 DEF Stays
  <2>2. j # 1 /\ i <= j - 1
    BY <2>1
  <2>3. j - 1 \in 1..Len(wire') /\ wire'[j - 1] = wire[j]
    BY <1>1, <2>2
  <2> QED BY <2>1, <2>2, <2>3 DEF IsRow
<1>7. Complete'
  <2> SUFFICES ASSUME NEW r \in rows, floor < r PROVE r \in Has' \/ r \in RowSet(wire') \/ (stream = "replay" /\ r \in ToCome')
    BY DEF Complete
  <2>1. CASE r \in Has /\ Takes(wire[1], r)
    <3>1. PICK j \in 1..Len(wire') : IsRow(wire', j) /\ wire'[j].row = r
      BY <1>1, <1>6, <2>1
    <3> QED BY <3>1 DEF RowSet
  <2>2. CASE r \in Has /\ ~Takes(wire[1], r)
    BY <2>2
  <2>3. CASE r \in RowSet(wire)
    BY <1>3, <2>3
  <2>4. CASE stream = "replay" /\ r \in ToCome
    BY <2>4 DEF ToCome
  <2> QED BY <1>2, <2>1, <2>2, <2>3, <2>4 DEF Complete
<1>8. Stays'
  <2>1. ASSUME NEW i \in 1..Len(wire'), NEW r \in rows, Takes(wire'[i], r)
        PROVE  \E j \in 1..Len(wire') : i < j /\ IsRow(wire', j) /\ wire'[j].row = r
    <3>1. i + 1 \in 1..Len(wire) /\ Takes(wire[i + 1], r)
      BY <1>1, <2>1
    <3>2. PICK j \in 1..Len(wire') : i + 1 <= j /\ IsRow(wire', j) /\ wire'[j].row = r
      BY <1>6, <3>1
    <3> QED BY <3>2
  <2> QED BY <1>2, <2>1 DEF Stays
<1>9. Leaves'
  <2>1. ASSUME NEW r \in Has' \ rows PROVE TakenAfter(wire', 0, r) \/ TakenAfter(waiting, 0, r)
    <3>1. CASE r \in Has /\ ~Takes(wire[1], r)
      BY <1>2, <1>5, <2>1, <3>1 DEF Leaves
    <3>2. CASE wire[1].kind = "row" /\ wire[1].row = r
      <4>1. TakenAfter(wire, 1, r) \/ TakenAfter(waiting, 0, r)
        BY <1>1, <1>2, <2>1, <3>2 DEF Leaves, IsRow
      <4>2. TakenAfter(wire, 0 + 1, r) => TakenAfter(wire', 0, r)
        BY <1>4
      <4> QED BY <4>1, <4>2
    <3> QED BY <2>1, <3>1, <3>2
  <2>2. ASSUME NEW j \in 1..Len(wire'), IsRow(wire', j), wire'[j].row \notin rows
        PROVE  TakenAfter(wire', j, wire'[j].row) \/ TakenAfter(waiting, 0, wire'[j].row)
    <3>1. j + 1 \in 1..Len(wire) /\ IsRow(wire, j + 1) /\ wire'[j].row = wire[j + 1].row /\ j \in Nat
      BY <1>1, <2>2 DEF IsRow
    <3>2. TakenAfter(wire, j + 1, wire'[j].row) \/ TakenAfter(waiting, 0, wire'[j].row)
      BY <1>2, <2>2, <3>1 DEF Leaves
    <3> QED BY <1>4, <3>1, <3>2
  <2> QED BY <1>2, <2>1, <2>2 DEF Leaves
<1>10. \A r \in Has' : floor' < r
  BY <1>2
<1> QED BY <1>7, <1>8, <1>9, <1>10

\* What a list takes at its end.
LEMMA TakenMore ==
  ASSUME NEW T, NEW ms \in Seq(T), NEW m \in T
  PROVE  \A j, r : TakenAfter(ms, j, r) => TakenAfter(Append(ms, m), j, r)
<1> SUFFICES ASSUME NEW j, NEW r, TakenAfter(ms, j, r) PROVE TakenAfter(Append(ms, m), j, r)
  OBVIOUS
<1>1. PICK i \in 1..Len(ms) : j < i /\ Takes(ms[i], r)
  BY DEF TakenAfter
<1>2. i \in 1..Len(Append(ms, m)) /\ Append(ms, m)[i] = ms[i]
  BY AppendIs
<1> QED BY <1>1, <1>2 DEF TakenAfter

\* A removal that comes last takes away what came before it.
LEMMA TakenLast ==
  ASSUME NEW T, NEW ms \in Seq(T), NEW m \in T, NEW r, Takes(m, r)
  PROVE  \A j \in 0..Len(ms) : TakenAfter(Append(ms, m), j, r)
<1>1. Len(ms) + 1 \in 1..Len(Append(ms, m)) /\ Append(ms, m)[Len(ms) + 1] = m /\ Len(ms) \in Nat
  BY AppendIs
<1>2. \A j \in 0..Len(ms) : j < Len(ms) + 1
  BY <1>1
<1> QED BY <1>1, <1>2 DEF TakenAfter

\* What the server says of a chat it changes.
LEMMA SpeechChat == ASSUME CourseOK, CountOK, ChatOK, NEW m, Utters(m) PROVE ChatOK'
<1>0. Types /\ StreamOK /\ OrderOK /\ FloorOK /\ OnlineOK /\ OfflineOK
  BY DEF CourseOK, ChatOK
<1>1. /\ Speaks(m) /\ Says(m) /\ m \in Messages(last') /\ m.kind \in Spoken /\ floor' = floor
      /\ UNCHANGED <<stream, read, batch, more, panel, online, at, known, fresh, replacing, gathering, buffer, shown>>
      /\ stream \in {"off", "replay", "live"}
  BY <1>0 DEF Utters, Speaks, reader, Types, StreamT
<1>2. last \in 0..LastSeq /\ last' \in 0..LastSeq /\ last <= last' /\ last \in Nat /\ last' \in Nat /\ LastSeq \in Nat
  BY <1>0, <1>1, EventStreamAssumption DEF Types, StoreT, Speaks
<1>3. wire \in Seq(Messages(last')) /\ waiting \in Seq(Messages(last')) /\ wire \in Seq(Messages(last)) /\ waiting \in Seq(Messages(last))
  BY <1>0, <1>2, TypedUp DEF Types, StreamT
<1>4. Has' = Has
  BY <1>1 DEF Has, Adds
<1>t. /\ batch \in Seq(1..last) /\ read \in 0..last /\ floor \in 0..last /\ rows \subseteq 1..last /\ at \in 0..last
      /\ Has \subseteq 1..last
  <2>1. \A i \in 1..Len(buffer) : IsRow(buffer, i) => buffer[i].row \in 1..last
    BY <1>0, <1>2, MessageIs DEF Types, ReaderT, IsRow
  <2>2. RowSet(buffer) \subseteq 1..last
    BY <2>1 DEF RowSet
  <2>3. Range(shown) \subseteq 1..last
    BY <1>0, OrderTyped
  <2> QED BY <1>0, <2>2, <2>3 DEF Types, StoreT, StreamT, ReaderT, Has
<1>5. FloorOK'
  <2>1. \A i \in 1..Len(wire') : IsRow(wire', i) => floor < wire'[i].row
    <3>1. CASE wire' = wire
      BY <1>0, <3>1 DEF FloorOK, IsRow
    <3>2. CASE wire' = Append(wire, m)
      <4>1. Append(wire, m)[Len(wire) + 1] = m
            /\ \A i \in 1..Len(Append(wire, m)) : (i \in 1..Len(wire) /\ Append(wire, m)[i] = wire[i]) \/ i = Len(wire) + 1
        BY <1>1, <1>3, AppendIs
      <4>2. m.kind = "row" => floor < m.row
        BY <1>1, <1>2, <1>t DEF Speaks
      <4> QED BY <1>0, <3>2, <4>1, <4>2 DEF FloorOK, IsRow
    <3> QED BY <1>1, <3>1, <3>2 DEF Says
  <2> QED BY <1>0, <1>1, <2>1 DEF FloorOK
<1>6. known <= count /\ known \in Int /\ count \in Int
  BY <1>0, CountTyped DEF CountOK
<1>7. OfflineOK'
  <2> SUFFICES ASSUME ~online, ~endHeld', at # 0, known = count', NEW r \in Seqs
               PROVE  r \in Range(shown) <=> r \in rows' /\ floor < r /\ r <= at
    BY <1>1 DEF OfflineOK
  <2>1. stream = "off"
    BY <1>0, <1>1 DEF StreamOK, ReaderOK
  <2>2. m.kind \in {"row", "delta"} /\ count' = count
    BY <1>6 DEF Utters
  <2>3. ~endHeld /\ (rows' = rows \/ rows' = rows \cup {last + 1})
    BY <2>2 DEF Utters
  <2>4. r \in Range(shown) <=> r \in rows /\ floor < r /\ r <= at
    BY <1>0, <2>2, <2>3 DEF OfflineOK
  <2>5. ~(last + 1 <= at)
    BY <1>2, <1>t
  <2> QED BY <2>3, <2>4, <2>5
<1>8. OnlineOK'
  <2> SUFFICES ASSUME online, ~endHeld', ~Doomed' PROVE Complete' /\ Stays' /\ Leaves' /\ \A r \in Has' : floor' < r
    BY <1>1 DEF OnlineOK
  <2>1. stream \in {"replay", "live"} /\ ~endHeld
    BY <1>0, <1>1 DEF StreamOK, ReaderOK, Utters
  <2>a. CASE stream = "replay"
    <3>1. wire' = wire /\ waiting' = IF m.kind = "delta" THEN waiting ELSE Append(waiting, m)
      BY <1>1, <2>a DEF Says
    <3>a. /\ Len(waiting) \in Nat /\ Append(waiting, m)[Len(waiting) + 1] = m /\ Len(waiting) + 1 \in 1..Len(Append(waiting, m))
          /\ \A i \in 1..Len(waiting) : i \in 1..Len(Append(waiting, m)) /\ Append(waiting, m)[i] = waiting[i] /\ i # Len(waiting) + 1
          /\ \A i \in 1..Len(Append(waiting, m)) : i \in 1..Len(waiting) \/ i = Len(waiting) + 1
          /\ RowSet(Append(waiting, m)) = RowSet(waiting) \cup (IF m.kind = "row" THEN {m.row} ELSE {})
          /\ \A j, r : TakenAfter(waiting, j, r) => TakenAfter(Append(waiting, m), j, r)
      BY <1>1, <1>3, AppendIs, RowSetAppend, TakenMore
    <3>2. m.kind # "reload" /\ ~Doomed
      BY <1>1, <3>1, <3>a DEF Doomed
    <3>3. Complete /\ Stays /\ Leaves /\ \A r \in Has : floor < r
      BY <1>0, <2>1, <3>2 DEF OnlineOK
    <3>k. \A i \in 1..Len(wire) : ~\E r : Takes(wire[i], r)
      BY <1>0, <2>a DEF StreamOK, ReplayOK, KindsIn, Takes
    <3>4. CASE m.kind = "delta"
      <4>1. UNCHANGED <<rows, last, wire, waiting>>
        BY <3>1, <3>4 DEF Utters
      <4> QED BY <1>1, <1>4, <3>3, <4>1 DEF Complete, Stays, Leaves, ToCome
    <3>5. CASE m.kind = "row"
      <4>1. m.row = last + 1 /\ last' = last + 1 /\ rows' = rows \cup {last + 1} /\ waiting' = Append(waiting, m)
        BY <3>1, <3>5 DEF Utters
      <4>2. Complete'
        <5> SUFFICES ASSUME NEW r \in rows', floor < r PROVE r \in Has \/ r \in RowSet(wire) \/ r \in ToCome'
          BY <1>1, <1>4, <2>a, <3>1 DEF Complete
        <5>1. CASE r \in rows
          BY <1>1, <3>3, <3>5, <3>a, <4>1, <5>1 DEF Complete, ToCome
        <5>2. CASE r = last + 1
          <6>1. r \in RowSet(waiting') /\ read < r
            BY <1>2, <1>t, <3>5, <3>a, <4>1, <5>2
          <6>2. \A i \in DOMAIN batch : batch[i] < r
            BY <1>2, <1>t, <5>2
          <6> QED BY <1>1, <4>1, <5>2, <6>1, <6>2 DEF ToCome
        <5> QED BY <4>1, <5>1, <5>2
      <4>3. Stays'
        <5>1. ASSUME NEW i \in 1..Len(waiting'), waiting'[i].kind = "removed"
              PROVE  waiting'[i].to <= last' + 1 /\ \A r \in rows' : ~Takes(waiting'[i], r)
          <6>1. i \in 1..Len(waiting) /\ waiting'[i] = waiting[i]
            BY <3>5, <3>a, <4>1, <5>1
          <6>2. waiting[i].to <= last + 1 /\ (\A r \in rows : ~Takes(waiting[i], r)) /\ waiting[i] \in Messages(last)
            BY <1>3, <3>3, <5>1, <6>1 DEF Stays
          <6>3. waiting[i].to \in 1..Open
            BY <1>2, <5>1, <6>1, <6>2, MessageIs
          <6>4. waiting[i].to # Open /\ waiting[i].to <= last' + 1
            BY <1>2, <4>1, <6>2, <6>3 DEF Open
          <6>5. last + 1 \notin Covered(waiting[i].from, waiting[i].to)
            <7>1. ~(last + 1 < waiting[i].to)
              BY <1>2, <6>2, <6>3 DEF Open
            <7> QED BY <6>4, <7>1 DEF Covered
          <6> QED BY <4>1, <6>1, <6>2, <6>4, <6>5 DEF Takes
        <5>2. \A i \in 1..Len(wire') : \A r \in rows' :
                Takes(wire'[i], r) => \E j \in 1..Len(wire') : i < j /\ IsRow(wire', j) /\ wire'[j].row = r
          BY <3>1, <3>k
        <5> QED BY <5>1, <5>2 DEF Stays
      <4>4. Leaves'
        <5>1. \A j \in 1..Len(waiting') : IsRow(waiting', j) /\ waiting'[j].row \notin rows' =>
                 TakenAfter(waiting', j, waiting'[j].row)
          <6> SUFFICES ASSUME NEW j \in 1..Len(waiting'), IsRow(waiting', j), waiting'[j].row \notin rows'
                       PROVE  TakenAfter(waiting', j, waiting'[j].row)
            OBVIOUS
          <6>1. j # Len(waiting) + 1
            BY <3>a, <4>1
          <6>2. j \in 1..Len(waiting) /\ waiting'[j] = waiting[j]
            BY <3>a, <4>1, <6>1
          <6>3. TakenAfter(waiting, j, waiting[j].row)
            BY <3>3, <4>1, <6>2 DEF Leaves, IsRow
          <6> QED BY <3>a, <4>1, <6>2, <6>3
        <5>2. \A r \in Has' \ rows' : TakenAfter(wire', 0, r) \/ TakenAfter(waiting', 0, r)
          BY <1>4, <3>1, <3>3, <3>a, <4>1 DEF Leaves
        <5>3. \A j \in 1..Len(wire') : IsRow(wire', j) /\ wire'[j].row \notin rows' =>
                 TakenAfter(wire', j, wire'[j].row) \/ TakenAfter(waiting', 0, wire'[j].row)
          BY <3>1, <3>3, <3>a, <4>1 DEF Leaves, IsRow
        <5>4. \A i \in DOMAIN batch' : batch'[i] \notin rows' => TakenAfter(waiting', 0, batch'[i])
          BY <1>1, <3>3, <3>a, <4>1 DEF Leaves
        <5> QED BY <5>1, <5>2, <5>3, <5>4 DEF Leaves
      <4> QED BY <1>1, <1>4, <3>3, <4>2, <4>3, <4>4
    <3>6. CASE m.kind = "removed"
      <4>1. rows' = rows \ Covered(m.from, m.to) /\ last' = last /\ m.to <= last + 1 /\ waiting' = Append(waiting, m)
        BY <2>a, <3>1, <3>6 DEF Utters
      <4>2. Complete'
        <5> SUFFICES ASSUME NEW r \in rows', floor < r PROVE r \in Has \/ r \in RowSet(wire) \/ r \in ToCome'
          BY <1>1, <1>4, <2>a, <3>1 DEF Complete
        <5> QED BY <1>1, <3>3, <3>6, <3>a, <4>1 DEF Complete, ToCome
      <4>3. Stays'
        <5>1. ASSUME NEW i \in 1..Len(waiting'), waiting'[i].kind = "removed"
              PROVE  waiting'[i].to <= last' + 1 /\ \A r \in rows' : ~Takes(waiting'[i], r)
          <6>1. CASE i \in 1..Len(waiting)
            BY <3>3, <3>a, <4>1, <5>1, <6>1 DEF Stays
          <6>2. CASE i = Len(waiting) + 1
            BY <3>a, <4>1, <6>2 DEF Takes
          <6> QED BY <3>a, <4>1, <6>1, <6>2
        <5>2. \A i \in 1..Len(wire') : \A r \in rows' :
                Takes(wire'[i], r) => \E j \in 1..Len(wire') : i < j /\ IsRow(wire', j) /\ wire'[j].row = r
          BY <3>1, <3>k
        <5> QED BY <5>1, <5>2 DEF Stays
      <4>4. Leaves'
        <5>0. ASSUME NEW r \in rows, r \notin rows' PROVE \A j \in 0..Len(waiting) : TakenAfter(waiting', j, r)
          <6>1. Takes(m, r)
            BY <3>6, <4>1, <5>0 DEF Takes
          <6> QED BY <1>1, <1>3, <4>1, <6>1, TakenLast
        <5>1. \A j \in 1..Len(waiting') : IsRow(waiting', j) /\ waiting'[j].row \notin rows' =>
                 TakenAfter(waiting', j, waiting'[j].row)
          <6> SUFFICES ASSUME NEW j \in 1..Len(waiting'), IsRow(waiting', j), waiting'[j].row \notin rows'
                       PROVE  TakenAfter(waiting', j, waiting'[j].row)
            OBVIOUS
          <6>1. j # Len(waiting) + 1
            BY <3>6, <3>a, <4>1 DEF IsRow
          <6>2. j \in 1..Len(waiting) /\ waiting'[j] = waiting[j] /\ j \in 0..Len(waiting)
            BY <3>a, <4>1, <6>1
          <6>3. CASE waiting[j].row \in rows
            BY <5>0, <6>2, <6>3
          <6>4. CASE waiting[j].row \notin rows
            BY <3>3, <3>a, <4>1, <6>2, <6>4 DEF Leaves, IsRow
          <6> QED BY <6>3, <6>4
        <5>a. 0 \in 0..Len(waiting)
          BY <3>a
        <5>2. \A r \in Has' \ rows' : TakenAfter(wire', 0, r) \/ TakenAfter(waiting', 0, r)
          BY <1>4, <3>1, <3>3, <3>a, <4>1, <5>0, <5>a DEF Leaves
        <5>3. \A j \in 1..Len(wire') : IsRow(wire', j) /\ wire'[j].row \notin rows' =>
                 TakenAfter(wire', j, wire'[j].row) \/ TakenAfter(waiting', 0, wire'[j].row)
          BY <3>1, <3>3, <3>a, <4>1, <5>0, <5>a DEF Leaves, IsRow
        <5>4. \A i \in DOMAIN batch' : batch'[i] \notin rows' => TakenAfter(waiting', 0, batch'[i])
          BY <1>1, <3>3, <3>a, <4>1, <5>0, <5>a DEF Leaves
        <5> QED BY <5>1, <5>2, <5>3, <5>4 DEF Leaves
      <4> QED BY <1>1, <1>4, <3>3, <4>2, <4>3, <4>4
    <3> QED BY <1>1, <3>2, <3>4, <3>5, <3>6 DEF Spoken
  <2>b. CASE stream = "live"
    <3>1. wire' = Append(wire, m) /\ waiting' = waiting /\ waiting = <<>> /\ batch = <<>>
      BY <1>0, <1>1, <2>b DEF Says, StreamOK, LiveOK
    <3>a. /\ Len(wire) \in Nat /\ wire'[Len(wire) + 1] = m /\ Len(wire) + 1 \in 1..Len(wire')
          /\ \A i \in 1..Len(wire) : i \in 1..Len(wire') /\ wire'[i] = wire[i] /\ i # Len(wire) + 1 /\ i < Len(wire) + 1
          /\ \A i \in 1..Len(wire') : i \in 1..Len(wire) \/ i = Len(wire) + 1
          /\ RowSet(wire') = RowSet(wire) \cup (IF m.kind = "row" THEN {m.row} ELSE {})
          /\ \A j, r : TakenAfter(wire, j, r) => TakenAfter(wire', j, r)
      BY <1>1, <1>3, <3>1, AppendIs, RowSetAppend, TakenMore
    <3>2. m.kind # "reload" /\ ~Doomed
      BY <1>1, <3>1, <3>a DEF Doomed
    <3>3. Complete /\ Stays /\ Leaves /\ \A r \in Has : floor < r
      BY <1>0, <2>1, <3>2 DEF OnlineOK
    <3>4. rows' \subseteq rows \cup {last + 1}
          /\ (m.kind = "delta" => rows' = rows)
          /\ (m.kind = "row" => rows' = rows \cup {last + 1} /\ m.row = last + 1)
          /\ (m.kind = "removed" => rows' = rows \ Covered(m.from, m.to))
      BY <3>2 DEF Utters
    <3>5. Complete'
      <4> SUFFICES ASSUME NEW r \in rows', floor < r PROVE r \in Has \/ r \in RowSet(wire')
        BY <1>1, <1>4 DEF Complete
      <4> QED BY <1>1, <2>b, <3>2, <3>3, <3>4, <3>a DEF Complete, Spoken
    <3>6. Stays'
      <4>1. ASSUME NEW i \in 1..Len(wire'), NEW r \in rows', Takes(wire'[i], r)
            PROVE  \E j \in 1..Len(wire') : i < j /\ IsRow(wire', j) /\ wire'[j].row = r
        <5>1. i # Len(wire) + 1
          BY <3>4, <3>a, <4>1 DEF Takes
        <5>2. i \in 1..Len(wire) /\ wire'[i] = wire[i] /\ i < Len(wire) + 1
          BY <3>a, <5>1
        <5>3. CASE r \in rows
          <6>1. PICK j \in 1..Len(wire) : i < j /\ IsRow(wire, j) /\ wire[j].row = r
            BY <3>3, <4>1, <5>2, <5>3 DEF Stays
          <6> QED BY <3>a, <6>1 DEF IsRow
        <5>4. CASE r \notin rows
          <6>1. m.kind = "row" /\ m.row = r
            BY <1>1, <3>2, <3>4, <5>4 DEF Spoken
          <6> QED BY <3>a, <5>2, <6>1 DEF IsRow
        <5> QED BY <5>3, <5>4
      <4>2. Len(waiting') = 0
        BY <3>1
      <4> QED BY <4>1, <4>2 DEF Stays
    <3>7. Leaves'
      <4>0. ASSUME NEW r \in rows, r \notin rows' PROVE \A j \in 0..Len(wire) : TakenAfter(wire', j, r)
        <5>1. Takes(m, r)
          BY <1>1, <3>2, <3>4, <4>0 DEF Takes, Spoken
        <5> QED BY <1>1, <1>3, <3>1, <5>1, TakenLast
      <4>a. 0 \in 0..Len(wire) /\ Len(waiting) = 0
        BY <3>1, <3>a
      <4>b. \A j, r : ~TakenAfter(waiting, j, r)
        BY <4>a DEF TakenAfter
      <4>c. rows' = rows \/ m.kind # "delta"
        BY <3>4
      <4>1. ASSUME NEW r \in Has' \ rows' PROVE TakenAfter(wire', 0, r)
        <5>1. CASE r \in rows
          BY <4>0, <4>1, <4>a, <5>1
        <5>2. CASE r \notin rows
          BY <1>4, <3>3, <3>a, <4>1, <4>b, <5>2 DEF Leaves
        <5> QED BY <5>1, <5>2
      <4>2. ASSUME NEW j \in 1..Len(wire'), IsRow(wire', j), wire'[j].row \notin rows' PROVE TakenAfter(wire', j, wire'[j].row)
        <5>1. j # Len(wire) + 1
          BY <3>4, <3>a, <4>2 DEF IsRow
        <5>2. j \in 1..Len(wire) /\ wire'[j] = wire[j] /\ j \in 0..Len(wire)
          BY <3>a, <5>1
        <5>3. CASE wire[j].row \in rows
          BY <4>0, <4>2, <5>2, <5>3
        <5>4. CASE wire[j].row \notin rows
          <6>1. TakenAfter(wire, j, wire[j].row)
            BY <3>3, <4>2, <4>b, <5>2, <5>4 DEF Leaves, IsRow
          <6> QED BY <3>a, <5>2, <6>1
        <5> QED BY <5>3, <5>4
      <4>3. batch' = <<>> /\ waiting' = <<>>
        BY <1>1, <3>1
      <4> QED BY <4>1, <4>2, <4>3 DEF Leaves
    <3> QED BY <1>1, <1>4, <3>3, <3>5, <3>6, <3>7
  <2> QED BY <2>1, <2>a, <2>b
<1> QED BY <1>5, <1>7, <1>8 DEF ChatOK

\* The stream is opened: a reader that goes on has all up to its cursor.
LEMMA ConnectChat == ASSUME CourseOK, CountOK, ChatOK, Connect PROVE ChatOK'
<1>0. Types /\ StreamOK /\ OrderOK /\ FloorOK /\ OfflineOK
  BY DEF CourseOK, ChatOK
<1> DEFINE cursor == IF at = 0 THEN ReplayStart ELSE at
           m == Reloads(count)
<1>1. cursor \in 0..last /\ last \in Nat /\ at \in 0..last /\ floor \in 0..last
  BY <1>0, ReplayStartIs, OrderTyped DEF Types, ReaderT
<1>2. Query(cursor) /\ floor' = IF at = 0 THEN cursor ELSE floor
  BY DEF Connect
<1>m. m.kind = "reloads" /\ m.count = count
  BY DEF Reloads
<1> HIDE DEF m
<1>3. /\ ~online /\ online' = TRUE /\ fresh' = (at = 0) /\ gathering' = TRUE /\ buffer' = <<>>
      /\ stream' = "replay" /\ waiting' = <<>> /\ wire' = <<m>> /\ endHeld' = (endHeld /\ at # 0)
      /\ UNCHANGED <<rows, last, count, panel, at, known, replacing, shown>>
  BY DEF Connect, store, m
<1>4. read' = cursor /\ batch' \in Seq(1..last)
      /\ (\A i \in DOMAIN batch' : batch'[i] \in rows)
      /\ \A k \in rows : k > cursor => k \in Range(batch') \/ (more' /\ \A i \in DOMAIN batch' : batch'[i] < k)
  BY <1>0, <1>1, <1>2, QueryIs
<1> HIDE DEF cursor
<1>5. Len(wire') = 1 /\ wire'[1] = m /\ Len(waiting') = 0 /\ (\A i \in 1..Len(wire') : i = 1) /\ RowSet(buffer') = {}
  BY <1>3, RowSetEmpty
<1>6. FloorOK'
  BY <1>0, <1>1, <1>2, <1>3, <1>4, <1>5, <1>m DEF FloorOK, IsRow, cursor
<1>7. ASSUME NEW r \in rows, cursor < r PROVE r \in ToCome'
  <2>1. r \in Range(batch') \/ (more' /\ \A i \in DOMAIN batch' : batch'[i] < r)
    BY <1>0, <1>1, <1>4, <1>7 DEF Types, StoreT
  <2> QED BY <1>3, <1>4, <1>7, <2>1 DEF ToCome
<1>8. ASSUME ~endHeld', ~Doomed' PROVE Complete' /\ (\A r \in Has' : r \in rows /\ floor' < r)
  <2>1. CASE at = 0
    <3>1. Has' = {}
      <4>1. (Adds \/ ~gathering)' => HoldsUp
        BY <1>3, <2>1 DEF Adds, HoldsUp
      <4>2. HoldsUp => Range(shown) = {}
        <5> SUFFICES ASSUME HoldsUp, NEW x \in Range(shown) PROVE FALSE
          OBVIOUS
        <5>1. x \in 1..last /\ x <= at
          BY <1>0, OrderTyped DEF OrderOK, HeldOK, HeldSet
        <5> QED BY <1>1, <2>1, <5>1
      <4> QED BY <1>3, <1>5, <4>1, <4>2 DEF Has
    <3> QED BY <1>2, <1>3, <1>7, <2>1, <3>1 DEF Complete
  <2>2. CASE at # 0
    <3>0. ~fresh'
      BY <1>3, <2>2
    <3>a. 1 \in 1..Len(wire') /\ wire'[1].kind = "reloads" /\ wire'[1].count = count /\ known' = known
      BY <1>3, <1>5, <1>m
    <3>1. known = count
      BY <1>8, <3>0, <3>a DEF Doomed
    <3>2. \A r \in Seqs : r \in Range(shown) <=> r \in rows /\ floor < r /\ r <= at
      BY <1>0, <1>3, <1>8, <2>2, <3>1 DEF OfflineOK
    <3>3. Has' = Range(shown)
      BY <1>0, <1>3, <1>5, <2>2 DEF Has, Adds, StreamOK, ReaderOK
    <3>4. rows \subseteq Seqs /\ Range(shown) \subseteq Seqs /\ last <= LastSeq
      BY <1>0, OrderTyped, EventStreamAssumption DEF Types, StoreT, Seqs
    <3>5. ASSUME NEW r \in rows, floor < r PROVE r \in Range(shown) \/ at < r
      <4>1. r \in Int /\ at \in Int /\ r \in Seqs
        BY <1>1, <3>4 DEF Seqs
      <4> QED BY <3>2, <3>5, <4>1
    <3> QED BY <1>2, <1>3, <1>7, <2>2, <3>2, <3>3, <3>4, <3>5 DEF Complete, cursor
  <2> QED BY <2>1, <2>2
<1>9. Stays' /\ \A j \in 1..Len(wire') : ~IsRow(wire', j)
  BY <1>5, <1>m DEF Stays, Takes, IsRow
<1>10. OnlineOK'
  BY <1>3, <1>4, <1>5, <1>8, <1>9 DEF OnlineOK, Leaves
<1>11. OfflineOK'
  BY <1>3 DEF OfflineOK
<1> QED BY <1>6, <1>10, <1>11 DEF ChatOK

\* An event of the replay is written.
LEMMA ReplayRowChat == ASSUME CourseOK, CountOK, ChatOK, ReplayRow PROVE ChatOK'
<1>0. Types /\ StreamOK /\ OrderOK /\ FloorOK /\ OnlineOK /\ OfflineOK
  BY DEF CourseOK, ChatOK
<1> DEFINE b == Head(batch)
           m == [kind |-> "row", row |-> b, of |-> ends[b]]
<1>1. m.kind = "row" /\ m.row = b
  OBVIOUS
<1>2. m \in Messages(last) /\ wire \in Seq(Messages(last)) /\ last \in Nat
  <2>1. wire \in Seq(Messages(last)) /\ b \in 1..last /\ ends \in [Seqs -> 0..MaxAnswers] /\ last \in 0..LastSeq /\ 1..last \subseteq Seqs
    BY <1>0, EventStreamAssumption, TailIs DEF Types, StoreT, StreamT, ReplayRow, Seqs
  <2>2. m \in [kind : {"row"}, row : 1..last, of : 0..MaxAnswers]
    BY <2>1
  <2> QED BY <2>1, <2>2, EventStreamAssumption DEF Messages
<1> HIDE DEF m
<1>3. /\ stream = "replay" /\ batch # <<>> /\ wire' = Append(wire, m) /\ read' = b /\ batch' = Tail(batch)
      /\ UNCHANGED <<rows, last, count, stream, more, waiting, panel, online, at, known, fresh, replacing, gathering,
                     buffer, shown, floor, endHeld>>
  BY DEF ReplayRow, store, reader, past, m
<1>4. batch \in Seq(1..last) /\ Ascending(batch) /\ (\A i \in DOMAIN batch : read < batch[i]) /\ read \in 0..last /\ floor \in 0..last
  BY <1>0, <1>3 DEF Types, StreamT, ReaderT, OrderOK, SaidInOrder
<1>5. /\ b = batch[1] /\ b \in 1..last /\ 1 \in DOMAIN batch
      /\ \A i \in DOMAIN batch' : i + 1 \in DOMAIN batch /\ batch'[i] = batch[i + 1] /\ b < batch'[i]
  <2>1. /\ b = batch[1] /\ b \in 1..last /\ 1 \in DOMAIN batch /\ DOMAIN batch = 1..Len(batch) /\ DOMAIN batch' = 1..Len(batch')
        /\ \A i \in 1..Len(batch') : i + 1 \in 1..Len(batch) /\ batch'[i] = batch[i + 1]
    <3>1. batch # <<>> /\ batch' = Tail(batch)
      BY <1>3
    <3>2. /\ Tail(batch) \in Seq(1..last) /\ Len(batch) \in Nat \ {0} /\ Head(batch) = batch[1] /\ batch[1] \in 1..last
          /\ \A i \in 1..Len(Tail(batch)) : i + 1 \in 1..Len(batch) /\ Tail(batch)[i] = batch[i + 1]
      BY <1>4, <3>1, TailIs
    <3>3. DOMAIN batch = 1..Len(batch) /\ DOMAIN Tail(batch) = 1..Len(Tail(batch))
      BY <1>4, <3>2, RangeIs
    <3> QED BY <3>1, <3>2, <3>3
  <2>2. \A i \in 1..Len(batch') : 1 < i + 1
    OBVIOUS
  <2> QED BY <1>4, <2>1, <2>2 DEF Ascending
<1>6. Range(batch) = {b} \cup Range(batch')
  BY <1>3, <1>4, RangeTail
<1>a. /\ Len(wire) \in Nat /\ wire'[Len(wire) + 1] = m /\ Len(wire) + 1 \in 1..Len(wire')
      /\ \A i \in 1..Len(wire) : i \in 1..Len(wire') /\ wire'[i] = wire[i]
      /\ \A i \in 1..Len(wire') : i \in 1..Len(wire) \/ i = Len(wire) + 1
      /\ RowSet(wire') = RowSet(wire) \cup {b}
  BY <1>1, <1>2, <1>3, AppendIs, RowSetAppend
<1>7. FloorOK'
  <2>1. floor < b
    BY <1>0, <1>3, <1>4, <1>5 DEF FloorOK
  <2>2. \A i \in 1..Len(wire') : IsRow(wire', i) => floor < wire'[i].row
    BY <1>0, <1>1, <1>a, <2>1 DEF FloorOK, IsRow
  <2>3. floor <= b
    BY <1>4, <1>5, <2>1
  <2> QED BY <1>0, <1>3, <2>2, <2>3 DEF FloorOK
<1>8. OnlineOK'
  <2> SUFFICES ASSUME online, ~endHeld, ~Doomed' PROVE Complete' /\ Stays' /\ Leaves' /\ \A r \in Has' : floor' < r
    BY <1>3 DEF OnlineOK
  <2>1. ~Doomed
    BY <1>1, <1>3, <1>a DEF Doomed
  <2>2. Complete /\ Stays /\ Leaves /\ \A r \in Has : floor < r
    BY <1>0, <2>1 DEF OnlineOK
  <2>3. Has' = Has
    BY <1>3 DEF Has, Adds
  <2>4. Complete'
    <3> SUFFICES ASSUME NEW r \in rows, floor < r PROVE r \in Has \/ r \in RowSet(wire') \/ r \in ToCome'
      BY <1>3, <2>3 DEF Complete
    <3>1. CASE r \in Has \/ r \in RowSet(wire)
      BY <1>a, <3>1
    <3>2. CASE r \in ToCome /\ r \in Range(batch)
      <4>1. CASE r = b
        BY <1>a, <4>1
      <4>2. CASE r # b
        <5>1. r \in Range(batch')
          BY <1>6, <3>2, <4>2
        <5>2. b < r
          BY <1>5, <5>1 DEF Range
        <5> QED BY <1>3, <5>1, <5>2 DEF ToCome
      <4> QED BY <4>1, <4>2
    <3>3. CASE r \in ToCome /\ r \notin Range(batch)
      <4>1. (more \/ r \in RowSet(waiting)) /\ \A i \in DOMAIN batch : batch[i] < r
        BY <3>3 DEF ToCome
      <4>2. b < r /\ \A i \in DOMAIN batch' : batch'[i] < r
        BY <1>5, <4>1
      <4> QED BY <1>3, <4>1, <4>2 DEF ToCome
    <3> QED BY <2>2, <3>1, <3>2, <3>3 DEF Complete
  <2>5. Stays'
    <3>1. \A i \in 1..Len(wire') : \A r : ~Takes(wire'[i], r)
      BY <1>0, <1>1, <1>3, <1>a DEF StreamOK, ReplayOK, KindsIn, Takes
    <3> QED BY <1>3, <2>2, <3>1 DEF Stays
  <2>6. Leaves'
    <3>1. \A r, j : TakenAfter(wire, j, r) => TakenAfter(wire', j, r)
      BY <1>2, <1>3, TakenMore
    <3>2. \A r \in Has' \ rows' : TakenAfter(wire', 0, r) \/ TakenAfter(waiting', 0, r)
      BY <1>3, <2>2, <2>3, <3>1 DEF Leaves
    <3>3. ASSUME NEW j \in 1..Len(wire'), IsRow(wire', j), wire'[j].row \notin rows
          PROVE  TakenAfter(wire', j, wire'[j].row) \/ TakenAfter(waiting, 0, wire'[j].row)
      <4>1. CASE j \in 1..Len(wire)
        <5>1. IsRow(wire, j) /\ wire[j].row = wire'[j].row
          BY <1>a, <3>3, <4>1 DEF IsRow
        <5> QED BY <2>2, <3>1, <3>3, <4>1, <5>1 DEF Leaves
      <4>2. CASE j = Len(wire) + 1
        BY <1>1, <1>5, <1>a, <2>2, <3>3, <4>2 DEF Leaves
      <4> QED BY <1>a, <4>1, <4>2
    <3>4. \A i \in DOMAIN batch' : batch'[i] \notin rows' => TakenAfter(waiting', 0, batch'[i])
      BY <1>3, <1>5, <2>2 DEF Leaves
    <3> QED BY <1>3, <2>2, <3>2, <3>3, <3>4 DEF Leaves
  <2> QED BY <1>3, <2>2, <2>3, <2>4, <2>5, <2>6
<1>9. OfflineOK'
  BY <1>0, <1>3 DEF OfflineOK
<1> QED BY <1>7, <1>8, <1>9 DEF ChatOK

\* The next page of it is read.
LEMMA ReplayPageChat == ASSUME CourseOK, CountOK, ChatOK, ReplayPage PROVE ChatOK'
<1>0. Types /\ StreamOK /\ OrderOK /\ FloorOK /\ OnlineOK /\ OfflineOK
  BY DEF CourseOK, ChatOK
<1>1. /\ stream = "replay" /\ batch = <<>> /\ Query(read)
      /\ UNCHANGED <<rows, last, count, stream, waiting, wire, panel, online, at, known, fresh, replacing, gathering,
                     buffer, shown, floor, endHeld>>
  BY DEF ReplayPage, store, reader, past
<1>2. read \in 0..last /\ rows \subseteq 1..last /\ last \in Nat
  BY <1>0, EventStreamAssumption DEF Types, StoreT, StreamT
<1>3. read' = read /\ (\A i \in DOMAIN batch' : batch'[i] \in rows)
      /\ \A k \in rows : k > read => k \in Range(batch') \/ (more' /\ \A i \in DOMAIN batch' : batch'[i] < k)
  BY <1>0, <1>1, <1>2, QueryIs
<1>4. Has' = Has /\ (Doomed' <=> Doomed)
  BY <1>1 DEF Has, Adds, Doomed
<1>5. \A r \in ToCome : r \in ToCome'
  <2> SUFFICES ASSUME NEW r \in ToCome PROVE r \in ToCome'
    OBVIOUS
  <2>1. r \in rows /\ read < r /\ r > read
    BY <1>2 DEF ToCome
  <2>2. r \in Range(batch') \/ (more' /\ \A i \in DOMAIN batch' : batch'[i] < r)
    BY <1>3, <2>1
  <2> QED BY <1>1, <1>3, <2>1, <2>2 DEF ToCome
<1>6. OnlineOK'
  <2> SUFFICES ASSUME online, ~endHeld, ~Doomed PROVE Complete' /\ Stays' /\ Leaves' /\ \A r \in Has' : floor' < r
    BY <1>1, <1>4 DEF OnlineOK
  <2>1. Complete /\ Stays /\ Leaves /\ \A r \in Has : floor < r
    BY <1>0 DEF OnlineOK
  <2> QED BY <1>1, <1>3, <1>4, <1>5, <2>1 DEF Complete, Stays, Leaves
<1>7. FloorOK' /\ OfflineOK'
  BY <1>0, <1>1, <1>3 DEF FloorOK, OfflineOK, IsRow
<1> QED BY <1>6, <1>7 DEF ChatOK

\* The stream goes on live: what waited is written, but for what the replay covered.
LEMMA LiveChat == ASSUME CourseOK, CountOK, ChatOK, GoLive PROVE ChatOK'
<1>0. Types /\ StreamOK /\ OrderOK /\ FloorOK /\ OnlineOK /\ OfflineOK
  BY DEF CourseOK, ChatOK
<1>1. PICK c, N, e : Goes(c, N, e)
  BY <1>0, GoLiveIs
<1>2. /\ stream = "replay" /\ batch = <<>> /\ ~more /\ stream' = "live" /\ waiting' = <<>>
      /\ UNCHANGED <<rows, last, count, read, batch, more, panel, online, at, known, fresh, replacing, gathering,
                     buffer, shown, floor, endHeld>>
  BY DEF GoLive, store, reader, past
<1> DEFINE K == {i \in 1..Len(waiting) : IsNews(waiting[i], read)}
<1>3. Picked(N, e, Len(waiting), K, waiting) /\ c \in Nat /\ c > 0 /\ N \in Seq(Messages(last))
  BY <1>1 DEF Goes
<1>4. /\ \A i \in 1..Len(N) : e[i] \in K /\ e[i] \in 1..Len(waiting) /\ N[i] = waiting[e[i]]
      /\ \A k \in 1..Len(waiting) : k \in K => \E i \in 1..Len(N) : e[i] = k
      /\ \A i, j \in 1..Len(N) : i < j => e[i] < e[j]
  BY <1>3 DEF Picked
<1>5. \A i \in 1..Len(wire) : i \in 1..Len(wire') /\ i < c /\ wire'[i] = wire[i]
  BY <1>1 DEF Goes
<1>6. \A i \in 1..Len(N) : c + i \in 1..Len(wire') /\ wire'[c + i] = N[i]
  BY <1>1 DEF Goes
<1>7. \A i \in 1..Len(wire') :
        \/ i < c /\ i \in 1..Len(wire) /\ wire'[i] = wire[i]
        \/ i > c /\ i - c \in 1..Len(N) /\ wire'[i] = N[i - c]
        \/ i <= c /\ wire'[i].kind \in {"snapshot", "caughtUp"}
  <2>1. Snapshot(live, said).kind = "snapshot" /\ CaughtUp.kind = "caughtUp"
    BY DEF Snapshot, CaughtUp
  <2> SUFFICES ASSUME NEW i \in 1..Len(wire')
      PROVE  \/ i < c /\ i \in 1..Len(wire) /\ wire'[i] = wire[i]
             \/ i > c /\ i - c \in 1..Len(N) /\ wire'[i] = N[i - c]
             \/ i <= c /\ wire'[i].kind \in {"snapshot", "caughtUp"}
    OBVIOUS
  <2>2. /\ wire'[c] = CaughtUp
        /\ \/ i < c /\ i \in 1..Len(wire) /\ wire'[i] = wire[i]
           \/ i < c /\ wire'[i] = Snapshot(live, said)
           \/ i = c
           \/ i > c /\ i - c \in 1..Len(N) /\ wire'[i] = N[i - c]
    BY <1>1 DEF Goes
  <2>3. i < c \/ i = c => i <= c
    BY <1>3
  <2> HIDE <1>1
  <2> QED BY <2>1, <2>2, <2>3
<1>k. KindsIn(wire, {"reloads", "row"}) /\ KindsIn(waiting, {"row", "removed", "reload"})
  BY <1>0, <1>2 DEF StreamOK, ReplayOK
<1>t. last \in Nat /\ read \in 0..last /\ floor \in 0..last /\ waiting \in Seq(Messages(last)) /\ at \in 0..last
  BY <1>0, EventStreamAssumption DEF Types, StoreT, StreamT, ReaderT
<1>8. \A k \in 1..Len(waiting) : waiting[k].kind # "row" \/ waiting[k].row > read =>
        \E i \in 1..Len(wire') : i > c /\ wire'[i] = waiting[k]
  <2> SUFFICES ASSUME NEW k \in 1..Len(waiting), waiting[k].kind # "row" \/ waiting[k].row > read
               PROVE  \E i \in 1..Len(wire') : i > c /\ wire'[i] = waiting[k]
    OBVIOUS
  <2>1. k \in K
    BY DEF IsNews
  <2>2. PICK i \in 1..Len(N) : e[i] = k
    BY <1>4, <2>1
  <2>3. c + i \in 1..Len(wire') /\ wire'[c + i] = waiting[k] /\ c + i > c
    BY <1>3, <1>4, <1>6, <2>2
  <2> QED BY <2>3
<1>9. FloorOK'
  <2>1. ASSUME NEW i \in 1..Len(wire'), IsRow(wire', i) PROVE floor < wire'[i].row
    <3>1. CASE i \in 1..Len(wire) /\ wire'[i] = wire[i]
      BY <1>0, <2>1, <3>1 DEF FloorOK, IsRow
    <3>2. CASE i - c \in 1..Len(N) /\ wire'[i] = N[i - c]
      <4> DEFINE k == e[i - c]
      <4>1. k \in K /\ k \in 1..Len(waiting) /\ wire'[i] = waiting[k]
        BY <1>4, <3>2
      <4> HIDE DEF k
      <4>2. waiting[k].kind = "row" /\ waiting[k].row > read /\ waiting[k] \in Messages(last)
        BY <1>t, <2>1, <4>1 DEF IsNews, IsRow
      <4>3. waiting[k].row \in 1..last
        BY <1>t, <4>2, MessageIs
      <4> QED BY <1>0, <1>2, <1>t, <4>1, <4>2, <4>3 DEF FloorOK
    <3> QED BY <1>7, <2>1, <3>1, <3>2 DEF IsRow
  <2> QED BY <1>0, <1>2, <2>1 DEF FloorOK
<1>10. Has' = Has
  BY <1>2 DEF Has, Adds
<1>11. OnlineOK'
  <2> SUFFICES ASSUME online, ~endHeld, ~Doomed' PROVE Complete' /\ Stays' /\ Leaves' /\ \A r \in Has' : floor' < r
    BY <1>2 DEF OnlineOK
  <2>1. ~Doomed
    <3>1. \A i \in 1..Len(waiting) : waiting[i].kind # "reload"
      BY <1>8 DEF Doomed
    <3>2. \A i \in 1..Len(wire) : ~(wire[i].kind = "reload" \/ (wire[i].kind = "reloads" /\ wire[i].count # known /\ ~fresh))
      BY <1>2, <1>5 DEF Doomed
    <3> QED BY <3>1, <3>2 DEF Doomed
  <2>2. Complete /\ Stays /\ Leaves /\ \A r \in Has : floor < r
    BY <1>0, <2>1 DEF OnlineOK
  <2>3. \A r : ~TakenAfter(wire, 0, r) /\ \A j : ~TakenAfter(wire, j, r)
    BY <1>k DEF TakenAfter, Takes, KindsIn
  <2>4. Complete'
    <3> SUFFICES ASSUME NEW r \in rows, floor < r PROVE r \in Has \/ r \in RowSet(wire')
      BY <1>2, <1>10 DEF Complete
    <3>1. CASE r \in RowSet(wire)
      <4>1. PICK i \in 1..Len(wire) : IsRow(wire, i) /\ wire[i].row = r
        BY <3>1 DEF RowSet
      <4>2. i \in 1..Len(wire') /\ IsRow(wire', i) /\ wire'[i].row = r
        BY <1>5, <4>1 DEF IsRow
      <4> QED BY <4>2 DEF RowSet
    <3>2. CASE r \in ToCome
      <4>1. r \in RowSet(waiting) /\ read < r
        BY <1>2, <3>2 DEF ToCome, Range
      <4>2. PICK k \in 1..Len(waiting) : IsRow(waiting, k) /\ waiting[k].row = r
        BY <4>1 DEF RowSet
      <4>3. r > read
        BY <1>0, <1>t, <4>1 DEF Types, StoreT
      <4>4. PICK i \in 1..Len(wire') : wire'[i] = waiting[k]
        BY <1>8, <4>2, <4>3
      <4>5. IsRow(wire', i) /\ wire'[i].row = r
        BY <4>2, <4>4 DEF IsRow
      <4> QED BY <4>5 DEF RowSet
    <3> QED BY <2>2, <3>1, <3>2 DEF Complete
  <2>5. Stays'
    <3>1. ASSUME NEW i \in 1..Len(wire'), NEW r \in rows, Takes(wire'[i], r) PROVE FALSE
      <4>1. i - c \in 1..Len(N) /\ wire'[i] = N[i - c]
        BY <1>5, <1>7, <1>k, <3>1 DEF KindsIn, Takes
      <4>2. e[i - c] \in 1..Len(waiting) /\ wire'[i] = waiting[e[i - c]]
        BY <1>4, <4>1
      <4> QED BY <2>2, <3>1, <4>2 DEF Stays, Takes
    <3>2. Len(waiting') = 0
      BY <1>2
    <3> QED BY <1>2, <3>1, <3>2 DEF Stays
  <2>6. Leaves'
    <3>1. ASSUME NEW r, TakenAfter(waiting, 0, r) PROVE \A j \in 0..c : TakenAfter(wire', j, r)
      <4>1. PICK k \in 1..Len(waiting) : Takes(waiting[k], r)
        BY <3>1 DEF TakenAfter
      <4>2. PICK i \in 1..Len(wire') : i > c /\ wire'[i] = waiting[k]
        BY <1>8, <4>1 DEF Takes
      <4>3. \A j \in 0..c : j < i
        BY <1>3, <4>2
      <4> QED BY <4>1, <4>2, <4>3 DEF TakenAfter
    <3>2. \A r \in Has' \ rows' : TakenAfter(wire', 0, r) \/ TakenAfter(waiting', 0, r)
      <4>1. 0 \in 0..c
        BY <1>3
      <4> QED BY <1>2, <1>10, <2>2, <2>3, <3>1, <4>1 DEF Leaves
    <3>3. ASSUME NEW j \in 1..Len(wire'), IsRow(wire', j), wire'[j].row \notin rows
          PROVE  TakenAfter(wire', j, wire'[j].row)
      <4>1. CASE j < c /\ j \in 1..Len(wire) /\ wire'[j] = wire[j]
        <5>1. TakenAfter(waiting, 0, wire'[j].row)
          BY <2>2, <2>3, <3>3, <4>1 DEF Leaves, IsRow
        <5>2. j \in 0..c
          BY <1>3, <4>1
        <5> QED BY <3>1, <5>1, <5>2
      <4>2. CASE j > c /\ j - c \in 1..Len(N) /\ wire'[j] = N[j - c]
        <5> DEFINE k == e[j - c]
        <5>1. k \in 1..Len(waiting) /\ wire'[j] = waiting[k]
          BY <1>4, <4>2
        <5>2. TakenAfter(waiting, k, waiting[k].row)
          BY <2>2, <3>3, <5>1 DEF Leaves, IsRow
        <5>3. PICK h \in 1..Len(waiting) : k < h /\ Takes(waiting[h], waiting[k].row)
          BY <5>2 DEF TakenAfter
        <5>4. h \in K
          BY <5>3 DEF Takes, IsNews
        <5>5. PICK i \in 1..Len(N) : e[i] = h
          BY <1>4, <5>4
        <5>6. j - c < i
          <6> SUFFICES ASSUME ~(j - c < i) PROVE FALSE
            OBVIOUS
          <6>1. i < j - c \/ i = j - c
            BY <4>2, <5>5
          <6>2. e[i] <= e[j - c]
            BY <1>4, <4>2, <5>5, <6>1
          <6> QED BY <5>1, <5>3, <5>5, <6>2
        <5>7. c + i \in 1..Len(wire') /\ wire'[c + i] = waiting[h] /\ j < c + i
          BY <1>3, <1>4, <1>6, <3>3, <5>5, <5>6
        <5> QED BY <5>1, <5>3, <5>7 DEF TakenAfter
      <4> QED BY <1>7, <3>3, <4>1, <4>2 DEF IsRow
    <3>4. Len(waiting') = 0 /\ DOMAIN batch' = {}
      BY <1>2
    <3> QED BY <1>2, <3>2, <3>3, <3>4 DEF Leaves
  <2> QED BY <1>2, <1>10, <2>2, <2>4, <2>5, <2>6
<1>12. OfflineOK'
  BY <1>0, <1>2 DEF OfflineOK, StreamOK, ReaderOK
<1> QED BY <1>9, <1>11, <1>12 DEF ChatOK

\* The stream is closed, to be opened from the start.
LEMMA AgainChat == ASSUME ReadAgain PROVE ChatOK'
<1>1. online' = FALSE /\ at' = 0 /\ wire' = <<>> /\ stream' = "off"
  BY DEF ReadAgain
<1>2. Len(wire') = 0
  BY <1>1
<1> QED BY <1>1, <1>2 DEF ChatOK, FloorOK, OnlineOK, OfflineOK

\* Something is heard, and the stream goes on.
LEMMA HeardChat ==
  ASSUME CourseOK, ChatOK, wire # <<>>, wire' = Tail(wire),
         UNCHANGED <<rows, last, floor, stream, read, batch, more, waiting, online, endHeld>>,
         \A r : r \in Has' <=> (r \in Has /\ ~Takes(wire[1], r)) \/ (wire[1].kind = "row" /\ wire[1].row = r),
         at' = IF wire[1].kind = "row" THEN wire[1].row ELSE at, ~Doomed' => ~Doomed
  PROVE  ChatOK'
<1>0. Types /\ StreamOK /\ FloorOK /\ OnlineOK
  BY DEF CourseOK, ChatOK
<1>1. online /\ 1 \in 1..Len(wire) /\ wire[1] \in Messages(last)
  BY <1>0, HeadIs
<1>2. wire[1].kind = "row" => floor < wire[1].row /\ wire[1].row \in Int /\ floor \in Int
  BY <1>0, <1>1, MessageIs, EventStreamAssumption DEF FloorOK, IsRow, Types, StoreT, ReaderT
<1>3. FloorOK'
  <2>1. \A i \in 1..Len(wire') : IsRow(wire', i) => floor < wire'[i].row
    BY <1>0, RestIs DEF FloorOK, IsRow
  <2>2. at' # 0 => floor <= at'
    BY <1>0, <1>2 DEF FloorOK
  <2> QED BY <1>0, <2>1, <2>2 DEF FloorOK
<1>4. ASSUME ~endHeld, ~Doomed PROVE Complete' /\ Stays' /\ Leaves' /\ \A r \in Has' : floor' < r
  BY <1>0, <1>1, <1>2, <1>4, ReadChat
<1>5. OnlineOK' /\ OfflineOK'
  BY <1>1, <1>4 DEF OnlineOK, OfflineOK
<1> QED BY <1>3, <1>5 DEF ChatOK

\* The messages that doom what is shown stay, but for the first.
LEMMA DoomedOn ==
  ASSUME Types, wire # <<>>, wire' = Tail(wire), UNCHANGED <<waiting, fresh>>,
         ~(wire[1].kind = "reload" \/ (wire[1].kind = "reloads" /\ wire[1].count # known /\ ~fresh)),
         \A i \in 1..Len(wire) : i # 1 /\ wire[i].kind = "reloads" => known' = known
  PROVE  ~Doomed' => ~Doomed
<1> SUFFICES ASSUME Doomed PROVE Doomed'
  OBVIOUS
<1>1. CASE \E i \in 1..Len(waiting) : waiting[i].kind = "reload"
  BY <1>1 DEF Doomed
<1>2. ASSUME NEW i \in 1..Len(wire), wire[i].kind = "reload" \/ (wire[i].kind = "reloads" /\ wire[i].count # known /\ ~fresh)
      PROVE  Doomed'
  <2>1. i # 1
    BY <1>2
  <2>2. i - 1 \in 1..Len(wire') /\ wire'[i - 1] = wire[i]
    BY <2>1, RestIs
  <2> QED BY <1>2, <2>1, <2>2 DEF Doomed
<1> QED BY <1>1, <1>2 DEF Doomed

\* The first word of a stream tells a reader to read on or again.
LEMMA ReloadsChat == ASSUME CourseOK, ChatOK, HearReloads PROVE ChatOK'
<1>0. Types /\ StreamOK
  BY DEF CourseOK
<1>1. wire # <<>> /\ Head(wire).kind = "reloads" /\ Head(wire) = wire[1] /\ known' = wire[1].count /\ 1 \in 1..Len(wire) /\ online
  <2>1. wire # <<>> /\ Head(wire).kind = "reloads" /\ known' = Head(wire).count
    BY DEF HearReloads, Hear
  <2> QED BY <1>0, <2>1, HeadIs
<1>2. CASE ReadAgain
  BY <1>2, AgainChat
<1>3. CASE ~(known # -1 /\ known # Head(wire).count /\ ~fresh)
           /\ wire' = Tail(wire)
           /\ UNCHANGED <<server, panel, online, at, fresh, replacing, gathering, buffer, shown, above, answered>>
  <2>1. UNCHANGED <<rows, last, floor, stream, read, batch, more, waiting, online, endHeld, at, fresh, gathering, buffer, shown, panel,
                    replacing>>
    BY <1>3 DEF HearReloads, store, server, past
  <2>2. Has' = Has
    BY <2>1 DEF Has, Adds
  <2>3. known = -1 => fresh
    BY <1>0, <1>1 DEF StreamOK, ReaderOK
  <2>4. \A i \in 1..Len(wire) : wire[i].kind = "reloads" => i = 1
    BY <1>0 DEF StreamOK, BufferOK
  <2>5. ~Doomed' => ~Doomed
    BY <1>0, <1>1, <1>3, <2>1, <2>3, <2>4, DoomedOn
  <2>6. \A r : ~Takes(wire[1], r)
    BY <1>1 DEF Takes
  <2> QED BY <1>1, <1>3, <2>1, <2>2, <2>5, <2>6, HeardChat
<1> QED BY <1>2, <1>3 DEF HearReloads

\* An event that is heard is one that is stored, or will be taken away.
LEMMA EventChat == ASSUME CourseOK, ChatOK, HearEvent PROVE ChatOK'
<1>0. Types /\ StreamOK
  BY DEF CourseOK
<1>1. wire # <<>> /\ Head(wire).kind \in {"row", "delta", "snapshot"} /\ Head(wire) = wire[1] /\ wire[1] \in Messages(last)
  <2>1. wire # <<>> /\ Head(wire).kind \in {"row", "delta", "snapshot"}
    BY DEF HearEvent, Hear
  <2> QED BY <1>0, <2>1, HeadIs
<1> DEFINE m == wire[1]
<1>2. /\ wire' = Tail(wire) /\ at' = (IF m.kind = "row" THEN m.row ELSE at)
      /\ UNCHANGED <<rows, last, floor, stream, read, batch, more, waiting, online, endHeld, known, fresh, gathering, panel, replacing>>
      /\ IF gathering THEN buffer' = Append(buffer, m) /\ shown' = shown
         ELSE shown' = (IF m.kind = "row" THEN Append(shown, m.row) ELSE shown) /\ buffer' = buffer
  BY <1>1 DEF HearEvent, store, server, past
<1>3. /\ buffer \in Seq(Messages(last)) /\ shown \in Seq(1..last) /\ last \in Nat /\ m \in Messages(last)
      /\ (m.kind = "row" => m.row \in 1..last)
  BY <1>0, <1>1, MessageIs, EventStreamAssumption DEF Types, StoreT, ReaderT
<1> HIDE DEF m
<1>4. Has' = Has \cup (IF m.kind = "row" THEN {m.row} ELSE {})
  <2>1. CASE gathering
    <3>1. RowSet(buffer') = RowSet(buffer) \cup (IF m.kind = "row" THEN {m.row} ELSE {})
      BY <1>2, <1>3, <2>1, RowSetAppend
    <3> QED BY <1>2, <2>1, <3>1 DEF Has, Adds
  <2>2. CASE ~gathering
    <3>1. Range(shown') = Range(shown) \cup (IF m.kind = "row" THEN {m.row} ELSE {})
      <4>1. CASE m.kind = "row"
        <5>1. shown' = Append(shown, m.row) /\ m.row \in 1..last
          BY <1>2, <1>3, <2>2, <4>1
        <5>2. Range(Append(shown, m.row)) = Range(shown) \cup {m.row}
          BY <1>3, <5>1, RangeAppend
        <5> QED BY <4>1, <5>1, <5>2
      <4>2. CASE m.kind # "row"
        BY <1>2, <2>2, <4>2
      <4> QED BY <4>1, <4>2
    <3> QED BY <1>2, <2>2, <3>1 DEF Has, Adds
  <2> QED BY <2>1, <2>2
<1>5. \A r : ~Takes(m, r)
  BY <1>1 DEF Takes, m
<1>6. \A r : r \in Has' <=> (r \in Has /\ ~Takes(wire[1], r)) \/ (wire[1].kind = "row" /\ wire[1].row = r)
  BY <1>4, <1>5 DEF m
<1>7. ~Doomed' => ~Doomed
  BY <1>0, <1>1, <1>2, DoomedOn
<1> QED BY <1>1, <1>2, <1>6, <1>7, HeardChat DEF m

\* A removal that is heard takes away what is stored no longer.
LEMMA RemovedChat == ASSUME CourseOK, ChatOK, HearRemoved PROVE ChatOK'
<1>0. Types /\ StreamOK
  BY DEF CourseOK
<1>1. wire # <<>> /\ Head(wire).kind = "removed" /\ Head(wire) = wire[1] /\ ~gathering /\ KindsIn(wire, Spoken)
  <2>1. wire # <<>> /\ Head(wire).kind = "removed"
    BY DEF HearRemoved, Hear
  <2> QED BY <1>0, <2>1, HeadIs
<1> DEFINE gone == Covered(wire[1].from, wire[1].to)
<1>2. /\ wire' = Tail(wire) /\ at' = at /\ shown' = Uncovered(shown, gone) /\ buffer' = buffer
      /\ UNCHANGED <<rows, last, floor, stream, read, batch, more, waiting, online, endHeld, fresh, gathering, panel, replacing>>
  BY <1>1 DEF HearRemoved, store, server, past
<1>3. shown \in Seq(Int)
  BY <1>0, OrderTyped
<1> HIDE DEF gone
<1>4. Range(shown') = Range(shown) \ gone /\ RowSet(buffer) = {}
  BY <1>0, <1>1, <1>2, <1>3, UncoveredUp, RowSetEmpty DEF StreamOK, BufferOK
<1>5. Has' = Has \ gone
  BY <1>1, <1>2, <1>4 DEF Has
<1>6. \A r : Takes(wire[1], r) <=> r \in gone
  BY <1>1 DEF Takes, gone
<1>7. \A i \in 1..Len(wire) : wire[i].kind # "reloads"
  BY <1>1 DEF KindsIn, Spoken
<1>8. ~Doomed' => ~Doomed
  BY <1>0, <1>1, <1>2, <1>7, DoomedOn
<1> QED BY <1>1, <1>2, <1>5, <1>6, <1>8, HeardChat

\* What was gathered is shown.
LEMMA CaughtUpChat == ASSUME CourseOK, ChatOK, HearCaughtUp PROVE ChatOK'
<1>0. Types /\ StreamOK /\ OrderOK
  BY DEF CourseOK
<1>1. wire # <<>> /\ Head(wire).kind = "caughtUp" /\ Head(wire) = wire[1] /\ gathering
  <2>1. wire # <<>> /\ Head(wire).kind = "caughtUp"
    BY DEF HearCaughtUp, Hear
  <2> QED BY <1>0, <2>1, HeadIs
<1>2. /\ wire' = Tail(wire) /\ at' = at /\ gathering' = FALSE /\ buffer' = <<>> /\ replacing' = FALSE
      /\ UNCHANGED <<rows, last, floor, stream, read, batch, more, waiting, online, endHeld, known, fresh, panel>>
  BY DEF HearCaughtUp, store, server, past
<1>3. shown' = IF Adds THEN shown \o RowsOf(buffer) ELSE RowsOf(buffer)
  BY DEF HearCaughtUp, Added, Replaced, Adds
<1>4. /\ buffer \in Seq(Messages(last)) /\ shown \in Seq(1..last) /\ last \in Nat
      /\ RowsUp(buffer, 0, at)
  BY <1>0, OrderTyped DEF OrderOK, SaidInOrder
<1>5. RowsOf(buffer) \in Seq(1..last) /\ Range(RowsOf(buffer)) = RowSet(buffer)
  BY <1>4, RowsOfUp
<1>6. Range(shown') = RowSet(buffer) \cup (IF Adds THEN Range(shown) ELSE {})
  <2>1. Range(shown \o RowsOf(buffer)) = Range(shown) \cup Range(RowsOf(buffer))
    BY <1>4, <1>5, RangeOfConcat
  <2> QED BY <1>3, <1>5, <2>1
<1>7. Has' = Has
  BY <1>1, <1>2, <1>6, RowSetEmpty DEF Has
<1>8. \A r : ~Takes(wire[1], r)
  BY <1>1 DEF Takes
<1>9. ~Doomed' => ~Doomed
  BY <1>0, <1>1, <1>2, DoomedOn
<1> QED BY <1>1, <1>2, <1>7, <1>8, <1>9, HeardChat

\* The stream is cut off: a reader whose count still holds has all up to its cursor.
LEMMA CutChat == ASSUME CourseOK, CountOK, ChatOK, Cut PROVE ChatOK'
<1>0. Types /\ StreamOK /\ OrderOK /\ FloorOK /\ OnlineOK
  BY DEF CourseOK, ChatOK
<1>1. /\ online /\ online' = FALSE /\ wire' = <<>> /\ stream' = "off"
      /\ UNCHANGED <<rows, last, count, panel, known, fresh, replacing, floor, endHeld>>
      /\ IF replacing \/ panel
           THEN at' = (IF replacing \/ buffer # <<>> THEN 0 ELSE at) /\ shown' = shown
           ELSE shown' = shown \o RowsOf(buffer) /\ at' = at
  BY DEF Cut, store, Added
<1>2. /\ at \in 0..last /\ read \in 0..last /\ last \in Nat /\ floor \in 0..last /\ rows \subseteq 1..last /\ last <= LastSeq /\ LastSeq \in Nat
      /\ wire \in Seq(Messages(last)) /\ waiting \in Seq(Messages(last)) /\ buffer \in Seq(Messages(last))
      /\ shown \in Seq(1..last) /\ RowsUp(buffer, 0, at)
  BY <1>0, OrderTyped, EventStreamAssumption DEF Types, StoreT, ReaderT, OrderOK, SaidInOrder
<1>3. RowsOf(buffer) \in Seq(1..last) /\ Range(RowsOf(buffer)) = RowSet(buffer) /\ \A r \in RowSet(buffer) : r <= at /\ r \in 1..last
  BY <1>2, RowsOfUp
<1>4. FloorOK'
  <2>1. Len(wire') = 0 /\ (at' # 0 => at' = at)
    BY <1>1
  <2> QED BY <1>0, <1>1, <2>1 DEF FloorOK
<1>5. OfflineOK'
  <2> SUFFICES ASSUME ~endHeld, at' # 0, known = count, NEW r \in Seqs PROVE r \in Range(shown') <=> r \in rows /\ floor < r /\ r <= at'
    BY <1>1 DEF OfflineOK
  <2>1. at' = at /\ at # 0 /\ ~replacing /\ (panel => buffer = <<>>)
    BY <1>1
  <2>2. Adds \/ ~gathering
    BY <1>0, <2>1 DEF Adds, StreamOK, ReaderOK
  <2>3. Range(shown') = Has
    <3>1. CASE panel
      BY <1>1, <2>1, <2>2, <3>1, RowSetEmpty DEF Has
    <3>2. CASE ~panel
      <4>1. Range(shown \o RowsOf(buffer)) = Range(shown) \cup Range(RowsOf(buffer))
        BY <1>2, <1>3, RangeOfConcat
      <4> QED BY <1>1, <1>3, <2>1, <2>2, <3>2, <4>1 DEF Has
    <3> QED BY <3>1, <3>2
  <2>4. /\ \A i \in 1..Len(wire) : wire[i].kind \notin {"removed", "reload"} /\ (wire[i].kind = "reloads" => wire[i].count = known)
        /\ \A i \in 1..Len(waiting) : waiting[i].kind \notin {"removed", "reload"}
    <3>1. /\ known \in Int /\ count \in Int
          /\ \A i \in 1..Len(wire) : wire[i].kind \in Counted => wire[i].count \in Nat
          /\ \A i \in 1..Len(waiting) : waiting[i].kind \in Counted => waiting[i].count \in Nat
      BY <1>0, CountTyped
    <3>2. ASSUME NEW i \in 1..Len(wire)
          PROVE  wire[i].kind \notin {"removed", "reload"} /\ (wire[i].kind = "reloads" => wire[i].count = known)
      BY <1>0, <3>1 DEF CountOK, Counted
    <3>3. ASSUME NEW i \in 1..Len(waiting) PROVE waiting[i].kind \notin {"removed", "reload"}
      BY <1>0, <3>1 DEF CountOK, Counted
    <3> QED BY <3>2, <3>3
  <2>5. ~Doomed /\ (\A r1 : ~TakenAfter(wire, 0, r1) /\ ~TakenAfter(waiting, 0, r1))
    BY <2>4 DEF Doomed, TakenAfter, Takes
  <2>6. Complete /\ Leaves /\ \A x \in Has : floor < x
    BY <1>0, <1>1, <2>5 DEF OnlineOK
  <2>7. ASSUME r \in Has
        PROVE  r \in rows /\ floor < r /\ r <= at
    <3>1. r \in rows
      BY <2>5, <2>6, <2>7 DEF Leaves
    <3>2. HoldsUp
      BY <1>0, <1>1, <2>1 DEF HoldsUp, StreamOK, ReaderOK
    <3>3. r \in Range(shown) => r <= at
      BY <1>0, <3>2 DEF OrderOK, HeldOK, HeldSet
    <3> QED BY <1>3, <2>6, <2>7, <3>1, <3>3 DEF Has
  <2>8. ASSUME r \in rows, floor < r, r <= at PROVE r \in Has
    <3>1. r \notin RowSet(wire)
      <4> SUFFICES ASSUME NEW i \in 1..Len(wire), IsRow(wire, i), wire[i].row = r PROVE FALSE
        BY DEF RowSet
      <4>1. at < r
        BY <1>0 DEF OrderOK, SaidInOrder, RowsUp
      <4> QED BY <1>2, <2>8, <4>1
    <3>2. ~(stream = "replay" /\ r \in ToCome)
      <4> SUFFICES ASSUME stream = "replay", r \in ToCome PROVE FALSE
        OBVIOUS
      <4>1. at <= read /\ read < r
        BY <1>0 DEF OrderOK, SaidInOrder, ToCome
      <4>2. r \in Int
        BY <1>2, <2>8
      <4> QED BY <1>2, <2>8, <4>1, <4>2
    <3> QED BY <2>6, <2>8, <3>1, <3>2 DEF Complete
  <2> QED BY <2>1, <2>3, <2>7, <2>8
<1>6. OnlineOK'
  BY <1>1 DEF OnlineOK
<1> QED BY <1>4, <1>5, <1>6 DEF ChatOK

\* Every step keeps what is held and on its way to what is stored.
LEMMA ChatStep == ASSUME CourseOK, CountOK, ChatOK, [Next]_vars PROVE ChatOK'
<1>1. CASE Speech
  <2>1. Types
    BY DEF CourseOK
  <2> QED BY <1>1, <2>1, SpeechUtters, SpeechChat
<1>2. CASE PiGone \/ OlderAnswered \/ HearOlder
  BY <1>2 DEF PiGone, OlderAnswered, HearOlder, store, server, reader, past, ChatOK, FloorOK, OnlineOK, OfflineOK,
              Doomed, Has, Adds, Complete, Stays, Leaves, ToCome
<1>3. CASE HearReload
  BY <1>3, AgainChat DEF HearReload
<1>4. CASE UNCHANGED vars
  BY <1>4 DEF vars, store, server, reader, past, ChatOK, FloorOK, OnlineOK, OfflineOK,
              Doomed, Has, Adds, Complete, Stays, Leaves, ToCome
<1> QED BY <1>1, <1>2, <1>3, <1>4, Steps, ConnectChat, ReplayRowChat, ReplayPageChat, LiveChat, ReloadsChat, EventChat, RemovedChat,
           CaughtUpChat, CutChat

\* Nothing is stored at first.
LEMMA ChatInit == ASSUME Init PROVE ChatOK
<1>1. wire = <<>> /\ online = FALSE /\ at = 0 /\ stream = "off"
  BY DEF Init
<1>2. Len(wire) = 0
  BY <1>1
<1> QED BY <1>1, <1>2 DEF ChatOK, FloorOK, OnlineOK, OfflineOK

\* What is stored is held or comes, throughout.
LEMMA ChatAlways == Spec => [](CourseOK /\ CountOK /\ ChatOK)
BY CourseInit, CourseStep, CountInit, CountNext, ChatInit, ChatStep, PTL DEF Spec

\* A reader nothing is on its way to shows the chat from where its stream began.
LEMMA ChatShown == ASSUME CourseOK, CountOK, ChatOK PROVE ShowsTheChat
<1> SUFFICES ASSUME Quiet, ~endHeld PROVE shown = Sorted({r \in rows : r > floor})
  BY DEF ShowsTheChat
<1>0. Types /\ StreamOK /\ OrderOK /\ OnlineOK
  BY DEF CourseOK, ChatOK
<1>1. stream = "live" /\ wire = <<>> /\ waiting = <<>> /\ ~gathering /\ buffer = <<>> /\ online
  <2>1. stream = "live" /\ wire = <<>>
    BY DEF Quiet
  <2>2. Len(wire) = 0
    BY <2>1
  <2> QED BY <1>0, <2>1, <2>2 DEF StreamOK, LiveOK, CaughtOK, BufferOK, ReaderOK
<1>2. Len(wire) = 0 /\ Len(waiting) = 0
  BY <1>1
<1>3. ~Doomed /\ RowSet(wire) = {} /\ Has = Range(shown) /\ \A r : ~TakenAfter(wire, 0, r) /\ ~TakenAfter(waiting, 0, r)
  BY <1>1, <1>2, RowSetEmpty DEF Doomed, Has, TakenAfter
<1>4. Complete /\ Leaves /\ \A r \in Has : floor < r
  BY <1>0, <1>1, <1>3 DEF OnlineOK
<1> DEFINE S == {r \in rows : r > floor}
<1>5. rows \subseteq 1..last /\ last \in Nat /\ floor \in Nat /\ shown \in Seq(Int) /\ Ascending(shown)
  BY <1>0, OrderTyped DEF Types, StoreT, ReaderT, OrderOK, HeldOK
<1>6. Range(shown) = S
  <2>1. ASSUME NEW r \in Range(shown) PROVE r \in S
    <3>1. r \in rows /\ floor < r
      BY <1>3, <1>4, <2>1 DEF Leaves
    <3> QED BY <1>5, <3>1
  <2>2. ASSUME NEW r \in S PROVE r \in Range(shown)
    <3>1. r \in rows /\ floor < r
      BY <1>5
    <3> QED BY <1>1, <1>3, <1>4, <3>1 DEF Complete
  <2> QED BY <2>1, <2>2
<1>7. S \in SUBSET (1..last)
  BY <1>5
<1> HIDE DEF S
<1>8. Sorted(S) \in Seq(S) /\ Ascending(Sorted(S)) /\ Range(Sorted(S)) = S
  BY <1>5, <1>7, SortedIs
<1>9. Sorted(S) \in Seq(Int)
  <2>1. S \subseteq Int
    BY <1>5, <1>7
  <2> QED BY <1>8, <2>1, SeqUp
<1>10. shown = Sorted(S)
  BY <1>5, <1>6, <1>8, <1>9, AscendingOnly
<1> QED BY <1>10 DEF S

\* However the stream is cut off and opened again while the chat is stored, edited and
\* put back, a reader that nothing is on its way to shows the chat as it is stored, from
\* where its stream began: no gap, no event twice, none that was taken out (the replay,
\* what waits for its end, the counts of reloads, and what the reader does at each).
THEOREM ShownAsStored == Spec => []ShowsTheChat
BY ChatAlways, ChatShown, PTL

-----------------------------------------------------------------------------
(* What a list of messages makes of the answers that are shown as being written. *)

Views   == [Answers -> Nat]
Tells(m, a) == m.kind \in {"delta", "snapshot"} /\ m.of = a
EndOf(m, a) == m.kind = "row" /\ m.of = a

\* One message.
LEMMA WrittenIs ==
  ASSUME NEW n \in Nat, NEW m \in Messages(n), NEW v \in Views
  PROVE  /\ Written(v, m) \in Views
         /\ \A a \in Answers :
              /\ EndOf(m, a) => Written(v, m)[a] = 0
              /\ m.kind = "delta" /\ m.of = a => Written(v, m)[a] = v[a] + 1
              /\ m.kind = "snapshot" /\ m.of = a => Written(v, m)[a] = m.said
              /\ ~EndOf(m, a) /\ ~Tells(m, a) => Written(v, m)[a] = v[a]
<1>1. /\ m.kind = "row" => m.of \in 0..MaxAnswers
      /\ m.kind = "delta" => m.of \in Answers
      /\ m.kind = "snapshot" => m.of \in Answers /\ m.said \in Nat
      /\ v \in [Answers -> Nat] /\ MaxAnswers \in Nat
  BY MessageIs, EventStreamAssumption DEF Views
<1>2. CASE m.kind = "row" /\ m.of # 0
  <2>1. Written(v, m) = [v EXCEPT ![m.of] = 0] /\ m.of \in Answers
    BY <1>1, <1>2 DEF Written, Answers
  <2> QED BY <1>1, <1>2, <2>1 DEF Views, EndOf, Tells
<1>3. CASE m.kind = "delta"
  <2>1. Written(v, m) = [v EXCEPT ![m.of] = v[m.of] + 1] /\ m.of \in Answers
    BY <1>1, <1>3 DEF Written
  <2> QED BY <1>1, <1>3, <2>1 DEF Views, EndOf, Tells
<1>4. CASE m.kind = "snapshot"
  <2>1. Written(v, m) = [v EXCEPT ![m.of] = m.said] /\ m.of \in Answers
    BY <1>1, <1>4 DEF Written
  <2> QED BY <1>1, <1>4, <2>1 DEF Views, EndOf, Tells
<1>5. CASE ~(m.kind = "row" /\ m.of # 0) /\ m.kind # "delta" /\ m.kind # "snapshot"
  <2>1. Written(v, m) = v
    BY <1>5 DEF Written
  <2>2. \A a \in Answers : ~EndOf(m, a) /\ ~Tells(m, a)
    BY <1>1, <1>5 DEF EndOf, Tells, Answers
  <2> QED BY <1>5, <2>1, <2>2
<1> QED BY <1>2, <1>3, <1>4, <1>5

\* The fold, as a function of the positions folded.
WrittenOf(v, ms) == CHOOSE iter : iter = [P \in SUBSET (DOMAIN ms) |->
    IF P = {} THEN v ELSE Written(iter[P \ {Max(P)}], ms[Max(P)])]
IsWritten(iter, n, v, ms) ==
  iter = [P \in SUBSET (1..n) |-> IF P = {} THEN v ELSE Written(iter[P \ {Max(P)}], ms[Max(P)])]

\* There is a function that goes through a list from its start.
LEMMA WrittenExists == ASSUME NEW v, NEW ms PROVE \A n \in Nat : \E iter : IsWritten(iter, n, v, ms)
<1> DEFINE T == {n \in Nat : \E iter : IsWritten(iter, n, v, ms)}
<1>1. 0 \in T
  <2> DEFINE it == [P \in SUBSET (1..0) |-> v]
  <2>1. \A P \in SUBSET (1..0) : P = {}
    OBVIOUS
  <2>2. IsWritten(it, 0, v, ms)
    BY <2>1 DEF IsWritten
  <2> QED BY <2>2
<1>2. ASSUME NEW n \in Nat, n \in T PROVE n + 1 \in T
  <2>1. PICK it : IsWritten(it, n, v, ms)
    BY <1>2
  <2> DEFINE val(P) == IF n + 1 \in P THEN Written(it[P \ {n + 1}], ms[n + 1]) ELSE it[P]
             nx == [P \in SUBSET (1..(n + 1)) |-> val(P)]
  <2>2. ASSUME NEW P \in SUBSET (1..(n + 1))
        PROVE  nx[P] = IF P = {} THEN v ELSE Written(nx[P \ {Max(P)}], ms[Max(P)])
    <3>1. CASE n + 1 \in P
      <4>1. P \subseteq Int /\ \A y \in P : n + 1 >= y
        OBVIOUS
      <4>2. Max(P) = n + 1
        BY <3>1, <4>1, MaxIs
      <4>3. P \ {n + 1} \in SUBSET (1..(n + 1)) /\ n + 1 \notin P \ {n + 1}
        OBVIOUS
      <4>4. nx[P \ {n + 1}] = it[P \ {n + 1}]
        BY <4>3
      <4>5. nx[P] = Written(it[P \ {n + 1}], ms[n + 1])
        BY <3>1
      <4> HIDE DEF nx
      <4> QED BY <3>1, <4>2, <4>4, <4>5
    <3>2. CASE n + 1 \notin P
      <4>1. P \in SUBSET (1..n)
        BY <3>2
      <4>2. nx[P] = it[P]
        BY <3>2
      <4>3. it[P] = IF P = {} THEN v ELSE Written(it[P \ {Max(P)}], ms[Max(P)])
        BY <2>1, <4>1 DEF IsWritten
      <4>4. P \ {Max(P)} \in SUBSET (1..(n + 1)) /\ n + 1 \notin P \ {Max(P)}
        BY <3>2
      <4>5. nx[P \ {Max(P)}] = it[P \ {Max(P)}]
        BY <4>4
      <4> HIDE DEF nx
      <4> QED BY <4>2, <4>3, <4>5
    <3> QED BY <3>1, <3>2
  <2>3. nx = [P \in SUBSET (1..(n + 1)) |-> nx[P]]
    OBVIOUS
  <2> HIDE DEF nx
  <2>4. IsWritten(nx, n + 1, v, ms)
    BY <2>2, <2>3 DEF IsWritten
  <2> QED BY <2>4
<1> HIDE DEF T
<1>3. Nat \subseteq T
  BY <1>1, <1>2, Induct
<1> QED BY <1>3 DEF T

\* What is known of w, after the first k of ms on v.
Writes(w, k, v, ms) ==
  /\ w \in Views
  /\ \A a \in Answers :
       /\ (\A i \in 1..k : ~Tells(ms[i], a)) /\ (v[a] = 0 \/ \E i \in 1..k : EndOf(ms[i], a)) => w[a] = 0
       /\ k # 0 /\ ms[k].kind = "snapshot" /\ ms[k].of = a => w[a] = ms[k].said

\* One more message goes into what is shown as being written.
LEMMA WritesMore ==
  ASSUME NEW n \in Nat, NEW ms \in Seq(Messages(n)), NEW v \in Views, NEW k \in Nat, k + 1 <= Len(ms), NEW w, Writes(w, k, v, ms)
  PROVE  Writes(Written(w, ms[k + 1]), k + 1, v, ms)
<1> DEFINE m == ms[k + 1]
           x == Written(w, m)
<1>1. k + 1 \in 1..Len(ms) /\ k + 1 # 0 /\ k + 1 \in 1..(k + 1)
  OBVIOUS
<1>2. m \in Messages(n) /\ w \in Views
  BY <1>1 DEF Writes
<1>3. x \in Views
      /\ \A a \in Answers :
              /\ EndOf(m, a) => x[a] = 0
              /\ m.kind = "snapshot" /\ m.of = a => x[a] = m.said
              /\ ~EndOf(m, a) /\ ~Tells(m, a) => x[a] = w[a]
  BY <1>2, WrittenIs
<1> HIDE DEF x
<1>4. ASSUME NEW a \in Answers, \A i \in 1..(k + 1) : ~Tells(ms[i], a), v[a] = 0 \/ \E i \in 1..(k + 1) : EndOf(ms[i], a)
      PROVE  x[a] = 0
  <2>1. ~Tells(m, a) /\ \A i \in 1..k : i \in 1..(k + 1)
    BY <1>1, <1>4
  <2>2. CASE EndOf(m, a)
    BY <1>3, <2>2
  <2>3. CASE ~EndOf(m, a)
    <3>1. \A i \in 1..(k + 1) : i \in 1..k \/ i = k + 1
      OBVIOUS
    <3>2. v[a] = 0 \/ \E i \in 1..k : EndOf(ms[i], a)
      BY <1>4, <2>3, <3>1
    <3>3. w[a] = 0
      BY <1>4, <2>1, <3>2 DEF Writes
    <3> QED BY <1>3, <2>1, <2>3, <3>3
  <2> QED BY <2>2, <2>3
<1>5. \A a \in Answers : k + 1 # 0 /\ m.kind = "snapshot" /\ m.of = a => x[a] = m.said
  BY <1>3
<1>6. Writes(x, k + 1, v, ms)
  BY <1>3, <1>4, <1>5 DEF Writes
<1> QED BY <1>6 DEF x

\* All of a list.
LEMMA AllWritten ==
  ASSUME NEW n \in Nat, NEW ms \in Seq(Messages(n)), NEW v \in Views
  PROVE  Writes(FoldLeft(Written, v, ms), Len(ms), v, ms)
<1> DEFINE N == Len(ms)
           it == CHOOSE iter : IsWritten(iter, N, v, ms)
<1>1. N \in Nat /\ DOMAIN ms = 1..N
  OBVIOUS
<1>2. FoldLeft(Written, v, ms) = WrittenOf(v, ms)[1..N]
  <2>1. FoldLeft(Written, v, ms) = WrittenOf(v, ms)[DOMAIN ms]
    BY DEF FoldLeft, MapThenFoldSet, WrittenOf
  <2> QED BY <1>1, <2>1
<1>3. WrittenOf(v, ms) = it
  BY <1>1 DEF WrittenOf, IsWritten
<1>4. IsWritten(it, N, v, ms)
  BY <1>1, WrittenExists
<1> HIDE DEF it, N
<1> DEFINE P == {k \in Nat : k <= N => Writes(it[1..k], k, v, ms)}
<1>5. 0 \in P
  <2>1. 1..0 = {} /\ {} \in SUBSET (1..N)
    OBVIOUS
  <2>2. it[1..0] = v
    BY <1>4, <2>1 DEF IsWritten
  <2>3. Writes(v, 0, v, ms)
    BY <2>1 DEF Writes
  <2> QED BY <2>2, <2>3
<1>6. ASSUME NEW k \in Nat, k \in P PROVE k + 1 \in P
  <2> SUFFICES ASSUME k + 1 <= N PROVE Writes(it[1..(k + 1)], k + 1, v, ms)
    OBVIOUS
  <2>1. Writes(it[1..k], k, v, ms)
    BY <1>1, <1>6
  <2>2. 1..(k + 1) \in SUBSET (1..N) /\ 1..(k + 1) # {}
    <3>1. k + 1 \in 1..(k + 1)
      OBVIOUS
    <3>2. ASSUME NEW i \in 1..(k + 1) PROVE i \in 1..N
      BY <1>1
    <3> QED BY <3>1, <3>2
  <2>3. Max(1..(k + 1)) = k + 1 /\ (1..(k + 1)) \ {k + 1} = 1..k
    <3>1. k + 1 \in Nat /\ k + 1 # 0 /\ (k + 1) - 1 = k
      OBVIOUS
    <3> QED BY <3>1, MaxTo
  <2>4. it[1..(k + 1)] = Written(it[1..k], ms[k + 1])
    BY <1>4, <2>2, <2>3 DEF IsWritten
  <2>5. k + 1 <= Len(ms)
    BY DEF N
  <2> QED BY <2>1, <2>4, <2>5, WritesMore
<1>7. N \in P
  <2> HIDE DEF P
  <2>1. Nat \subseteq P
    BY <1>5, <1>6, Induct
  <2> QED BY <1>1, <2>1
<1>8. Writes(it[1..N], N, v, ms)
  BY <1>1, <1>7
<1> QED BY <1>2, <1>3, <1>8 DEF N

\* How many pieces of an answer are on their way.
PieceOf(m, a)  == m.kind = "delta" /\ m.of = a
Pieces(ms, a)  == Cardinality({i \in 1..Len(ms) : PieceOf(ms[i], a)})

\* The pieces of an answer in a list can be counted.
LEMMA PiecesFinite ==
  ASSUME NEW T, NEW ms \in Seq(T), NEW a
  PROVE  /\ IsFiniteSet({i \in 1..Len(ms) : PieceOf(ms[i], a)}) /\ Pieces(ms, a) \in Nat
         /\ (\A i \in 1..Len(ms) : ~PieceOf(ms[i], a)) => Pieces(ms, a) = 0
<1> DEFINE S == {i \in 1..Len(ms) : PieceOf(ms[i], a)}
<1>1. Len(ms) \in Nat /\ S \in SUBSET (1..Len(ms))
  OBVIOUS
<1>2. IsFiniteSet(1..Len(ms))
  BY <1>1, FS_Interval
<1>3. IsFiniteSet(S)
  BY <1>1, <1>2, FS_Subset
<1>4. Cardinality(S) \in Nat
  BY <1>3, FS_CardinalityType
<1>5. S = {} => Cardinality(S) = 0
  BY FS_EmptySet
<1> QED BY <1>3, <1>4, <1>5 DEF Pieces

\* One more message is one more piece, or none.
LEMMA PiecesAppend ==
  ASSUME NEW T, NEW ms \in Seq(T), NEW m \in T, NEW a
  PROVE  Pieces(Append(ms, m), a) = IF PieceOf(m, a) THEN Pieces(ms, a) + 1 ELSE Pieces(ms, a)
<1> DEFINE S == {i \in 1..Len(ms) : PieceOf(ms[i], a)}
           n == Append(ms, m)
           U == {i \in 1..Len(n) : PieceOf(n[i], a)}
<1>1. /\ Len(ms) \in Nat /\ n[Len(ms) + 1] = m /\ Len(ms) + 1 \in 1..Len(n)
      /\ \A i \in 1..Len(ms) : i \in 1..Len(n) /\ n[i] = ms[i] /\ i # Len(ms) + 1
      /\ \A i \in 1..Len(n) : i \in 1..Len(ms) \/ i = Len(ms) + 1
  BY AppendIs
<1> HIDE DEF n
<1>2. U = IF PieceOf(m, a) THEN S \cup {Len(ms) + 1} ELSE S
  BY <1>1
<1>3. Len(ms) + 1 \notin S
  BY <1>1
<1>4. IsFiniteSet(S)
  BY PiecesFinite
<1> HIDE DEF S, U
<1>5. Cardinality(U) = IF PieceOf(m, a) THEN Cardinality(S) + 1 ELSE Cardinality(S)
  BY <1>2, <1>3, <1>4, FS_AddElement
<1> QED BY <1>5 DEF Pieces, S, U, n

\* One message less is one piece less, or none.
LEMMA PiecesTail ==
  ASSUME NEW T, NEW ms \in Seq(T), ms # <<>>, NEW a
  PROVE  Pieces(ms, a) = IF PieceOf(ms[1], a) THEN Pieces(Tail(ms), a) + 1 ELSE Pieces(Tail(ms), a)
<1> DEFINE n == Tail(ms)
           S == {i \in 1..Len(n) : PieceOf(n[i], a)}
           V == {i \in 1..Len(ms) : PieceOf(ms[i], a)} \ {1}
           U == {i \in 1..Len(ms) : PieceOf(ms[i], a)}
           f == [i \in S |-> i + 1]
<1>1. /\ n \in Seq(T) /\ 1 \in 1..Len(ms) /\ Len(n) \in Nat
      /\ \A i \in 1..Len(n) : i + 1 \in 1..Len(ms) /\ n[i] = ms[i + 1] /\ i + 1 # 1
      /\ \A i \in 2..Len(ms) : i - 1 \in 1..Len(n) /\ n[i - 1] = ms[i]
  <2>1. /\ n \in Seq(T) /\ Len(ms) \in Nat \ {0} /\ Len(n) = Len(ms) - 1
        /\ \A i \in 1..Len(n) : i + 1 \in 1..Len(ms) /\ n[i] = ms[i + 1]
        /\ \A i \in 2..Len(ms) : i - 1 \in 1..Len(n) /\ n[i - 1] = ms[i]
    BY TailIs
  <2>2. \A i \in 1..Len(n) : i + 1 # 1
    OBVIOUS
  <2> QED BY <2>1, <2>2
<1> HIDE DEF n
<1>2. \A i \in S : i + 1 \in V /\ i \in Int
  BY <1>1
<1>3. \A j \in V : j - 1 \in S /\ (j - 1) + 1 = j
  <2> SUFFICES ASSUME NEW j \in V PROVE j - 1 \in S /\ (j - 1) + 1 = j
    OBVIOUS
  <2>1. j \in 2..Len(ms) /\ PieceOf(ms[j], a)
    OBVIOUS
  <2> QED BY <1>1, <2>1
<1> HIDE DEF S, V
<1>4. f \in Bijection(S, V)
  <2>1. f \in [S -> V]
    BY <1>2
  <2>2. \A i, j \in S : f[i] = f[j] => i = j
    BY <1>2
  <2>3. \A j \in V : \E i \in S : f[i] = j
    BY <1>3
  <2> QED BY <2>1, <2>2, <2>3 DEF Bijection, Injection, Surjection, IsInjective
<1>5. IsFiniteSet(S)
  BY <1>1, PiecesFinite DEF S
<1>6. Cardinality(V) = Cardinality(S) /\ IsFiniteSet(V)
  BY <1>4, <1>5, FS_Bijection DEF ExistsBijection
<1>7. U = IF PieceOf(ms[1], a) THEN V \cup {1} ELSE V
  BY <1>1 DEF V
<1>8. 1 \notin V
  BY DEF V
<1> HIDE DEF U
<1>9. Cardinality(U) = IF PieceOf(ms[1], a) THEN Cardinality(S) + 1 ELSE Cardinality(S)
  BY <1>6, <1>7, <1>8, FS_AddElement
<1> QED BY <1>9 DEF Pieces, S, U, n
-----------------------------------------------------------------------------
(* The answers: which are written, which have ended, and what is shown of them. *)

SnapOf(m, a)     == m.kind = "snapshot" /\ m.of = a
Untold(ms, j, a) == \A i \in 1..Len(ms) : i > j => ~Tells(ms[i], a)
\* The messages name the answers as they are.
Agree(ms, E, n) ==
  \A i \in 1..Len(ms) : /\ IsRow(ms, i) => ms[i].of = E[ms[i].row]
                        /\ ms[i].kind \in {"delta", "snapshot"} => ms[i].of <= n
AnswersT == view \in Views /\ ends \in [Seqs -> 0..answers] /\ live \in {0, answers} /\ answers \in 0..MaxAnswers
EndsOK ==
  /\ live # 0 => \A r \in Seqs : ends[r] # live
  /\ \A b \in Answers : b > answers => view[b] = 0
  /\ Agree(wire, ends, answers) /\ Agree(waiting, ends, answers) /\ Agree(buffer, ends, answers)
\* Nothing is said of an answer after the event that ends it.
EndedOK ==
  \A r \in Seqs : ends[r] # 0 =>
    /\ r \in Range(shown) => view[ends[r]] = 0
    /\ r \in Range(shown) \/ r \in RowSet(buffer) => Untold(wire, 0, ends[r]) /\ Untold(buffer, 0, ends[r])
    /\ \A j \in 1..Len(wire) : IsRow(wire, j) /\ wire[j].row = r => Untold(wire, j, ends[r])
NoneYet == gathering /\ (\A i \in 1..Len(wire) : wire[i].kind # "reloads") => view = None
\* What is shown of the answer that is being written, and what comes, is all of it.
SaidOK ==
  stream = "live" /\ live # 0 =>
    /\ \A i \in 1..Len(wire) : SnapOf(wire[i], live) => said = wire[i].said + Pieces(wire, live)
    /\ \A i \in 1..Len(buffer) : SnapOf(buffer[i], live) => said = buffer[i].said + Pieces(wire, live)
    /\ ~gathering => said = view[live] + Pieces(wire, live)
    /\ gathering /\ (\A i \in 1..Len(wire) : ~SnapOf(wire[i], live)) /\ (\A i \in 1..Len(buffer) : ~SnapOf(buffer[i], live)) =>
         said = Pieces(wire, live)
AnswerOK == AnswersT /\ EndsOK /\ EndedOK /\ NoneYet /\ SaidOK

\* What is said of the answers in a step.
Answering(m) ==
  /\ Speaks(m) /\ view' = view
  /\ \/ /\ m.kind = "row" /\ m.row = last + 1 /\ last + 1 \in Seqs /\ ends' = [ends EXCEPT ![last + 1] = m.of] /\ answers' = answers
        /\ (m.of = 0 /\ live' = live /\ said' = said) \/ (m.of = live /\ live # 0 /\ live' = 0)
     \/ /\ m.kind = "delta" /\ m.of = live' /\ ends' = ends
        /\ \/ live = 0 /\ live' = answers + 1 /\ answers' = answers + 1 /\ answers < MaxAnswers /\ said' = 1
           \/ live # 0 /\ live' = live /\ answers' = answers /\ said' = said + 1
     \/ m.kind \in {"removed", "reload"} /\ UNCHANGED <<ends, live, said, answers>>

\* Each of what is said is a piece of the answer, its end, or about no answer.
LEMMA SpeechAnswering == ASSUME Types, Speech PROVE \E m : Answering(m)
<1>1. CASE Record
  <2>1. 0 \in 0..MaxAnswers /\ Keep(0)
    BY <1>1, EventStreamAssumption DEF Record
  <2> DEFINE m == Row(last + 1)
  <2>2. Speaks(m) /\ m.kind = "row" /\ m.row = last + 1 /\ m.of = 0 /\ ends' = [ends EXCEPT ![last + 1] = 0] /\ last + 1 \in Seqs
    BY <2>1, KeepSpeaks
  <2> HIDE DEF m
  <2>3. UNCHANGED <<live, said, answers, view>>
    BY <1>1, <2>2 DEF Record, writer, Speaks, reader
  <2>4. Answering(m)
    BY <2>2, <2>3 DEF Answering
  <2> QED BY <2>4
<1>2. CASE MessageEnds
  <2>1. live \in 0..MaxAnswers /\ Keep(live) /\ live # 0
    BY <1>2 DEF MessageEnds, Types, StoreT
  <2> DEFINE m == Row(last + 1)
  <2>2. Speaks(m) /\ m.kind = "row" /\ m.row = last + 1 /\ m.of = live /\ ends' = [ends EXCEPT ![last + 1] = live] /\ last + 1 \in Seqs
    BY <2>1, KeepSpeaks
  <2> HIDE DEF m
  <2>3. live' = 0 /\ UNCHANGED <<answers, view>>
    BY <1>2, <2>2 DEF MessageEnds, Speaks, reader
  <2>4. Answering(m)
    BY <2>1, <2>2, <2>3 DEF Answering
  <2> QED BY <2>4
<1>3. CASE MessageUpdates
  <2> DEFINE m == Delta(live')
  <2>1. Speaks(m) /\ m.kind = "delta" /\ m.of = live'
    BY <1>3, UpdateSpeaks
  <2> HIDE DEF m
  <2>2. ends' = ends /\ view' = view
    BY <1>3, <2>1 DEF MessageUpdates, store, Speaks, reader
  <2>3. \/ live = 0 /\ live' = answers + 1 /\ answers' = answers + 1 /\ answers < MaxAnswers /\ said' = 1
        \/ live # 0 /\ live' = live /\ answers' = answers /\ said' = said + 1
    BY <1>3 DEF MessageUpdates
  <2>4. Answering(m)
    BY <2>1, <2>2, <2>3 DEF Answering
  <2> QED BY <2>4
<1>4. ASSUME NEW from \in Seqs, NEW to \in (from + 1)..last \cup {Open}, RemoveTurn(from, to) PROVE \E m : Answering(m)
  <2>1. to \in 1..Open /\ TakeOut(from, to)
    BY <1>4, RemovedTo DEF RemoveTurn
  <2> DEFINE m == Removed(from, to, count + 1)
  <2>2. Speaks(m) /\ m.kind = "removed"
    BY <2>1, TakeOutSpeaks
  <2> HIDE DEF m
  <2>3. UNCHANGED <<ends, live, said, answers, view>>
    BY <2>1, <2>2 DEF TakeOut, writer, Speaks, reader
  <2>4. Answering(m)
    BY <2>2, <2>3 DEF Answering
  <2> QED BY <2>4
<1>5. ASSUME NEW from \in Seqs, ReplaceTail(from) PROVE \E m : Answering(m)
  <2>1. last + 1 \in 1..Open /\ TakeOut(from, last + 1)
    BY <1>5, RemovedTo DEF ReplaceTail
  <2> DEFINE m == Removed(from, last + 1, count + 1)
  <2>2. Speaks(m) /\ m.kind = "removed"
    BY <2>1, TakeOutSpeaks
  <2> HIDE DEF m
  <2>3. UNCHANGED <<ends, live, said, answers, view>>
    BY <2>1, <2>2 DEF TakeOut, writer, Speaks, reader
  <2>4. Answering(m)
    BY <2>2, <2>3 DEF Answering
  <2> QED BY <2>4
<1>6. CASE GoBack
  <2> DEFINE m == Reload(count + 1)
  <2>1. Speaks(m) /\ m.kind = "reload"
    BY <1>6, GoBackSpeaks
  <2> HIDE DEF m
  <2>2. UNCHANGED <<ends, live, said, answers, view>>
    BY <1>6, <2>1 DEF GoBack, writer, Speaks, reader
  <2>3. Answering(m)
    BY <2>1, <2>2 DEF Answering
  <2> QED BY <2>3
<1> QED BY <1>1, <1>2, <1>3, <1>4, <1>5, <1>6 DEF Speech

\* What the types say of the answers.
LEMMA AnswersTyped ==
  ASSUME Types, AnswersT
  PROVE  /\ last \in 0..LastSeq /\ LastSeq \in Nat /\ MaxAnswers \in Nat /\ answers \in Nat /\ live \in Nat /\ live <= answers /\ said \in Nat
         /\ wire \in Seq(Messages(last)) /\ waiting \in Seq(Messages(last)) /\ buffer \in Seq(Messages(last)) /\ view \in [Answers -> Nat]
         /\ (\A r \in Seqs : ends[r] \in 0..answers) /\ (live # 0 => live \in Answers)
         /\ Range(shown) \subseteq 1..last /\ RowSet(buffer) \subseteq 1..last /\ 1..last \subseteq Seqs
         /\ \A r \in Seqs : ends[r] # 0 => ends[r] \in Answers
<1>1. /\ last \in 0..LastSeq /\ LastSeq \in Nat /\ MaxAnswers \in Nat /\ answers \in 0..MaxAnswers /\ live \in {0, answers} /\ said \in Nat
      /\ wire \in Seq(Messages(last)) /\ waiting \in Seq(Messages(last)) /\ buffer \in Seq(Messages(last))
      /\ ends \in [Seqs -> 0..answers] /\ view \in [Answers -> Nat]
  BY EventStreamAssumption DEF Types, StoreT, StreamT, ReaderT, AnswersT, Views
<1>2. (\A r \in Seqs : ends[r] \in 0..answers) /\ (live # 0 => live \in Answers) /\ live <= answers /\ answers \in Nat /\ live \in Nat
      /\ \A r \in Seqs : ends[r] # 0 => ends[r] \in Answers
  BY <1>1 DEF Answers
<1>3. \A i \in 1..Len(buffer) : IsRow(buffer, i) => buffer[i].row \in 1..last
  BY <1>1, MessageIs DEF IsRow
<1>4. RowSet(buffer) \subseteq 1..last
  BY <1>3 DEF RowSet
<1>5. 1..last \subseteq Seqs
  BY <1>1 DEF Seqs
<1>6. Range(shown) \subseteq 1..last
  BY OrderTyped
<1> QED BY <1>1, <1>2, <1>4, <1>5, <1>6

\* A message that names an answer as it is keeps the list so.
LEMMA AgreeAppend ==
  ASSUME NEW n \in Nat, NEW ms \in Seq(Messages(n)), NEW m \in Messages(n), NEW E, NEW k,
         Agree(ms, E, k), m.kind = "row" => m.of = E[m.row], m.kind \in {"delta", "snapshot"} => m.of <= k
  PROVE  Agree(Append(ms, m), E, k)
<1>1. /\ Append(ms, m)[Len(ms) + 1] = m
      /\ \A i \in 1..Len(Append(ms, m)) : (i \in 1..Len(ms) /\ Append(ms, m)[i] = ms[i]) \/ i = Len(ms) + 1
  BY AppendIs
<1> QED BY <1>1 DEF Agree, IsRow

\* A message that says nothing of an answer leaves it untold.
LEMMA UntoldAppend ==
  ASSUME NEW n \in Nat, NEW ms \in Seq(Messages(n)), NEW m \in Messages(n), NEW a, ~Tells(m, a)
  PROVE  \A j : Untold(ms, j, a) => Untold(Append(ms, m), j, a)
<1>1. /\ Append(ms, m)[Len(ms) + 1] = m
      /\ \A i \in 1..Len(Append(ms, m)) : (i \in 1..Len(ms) /\ Append(ms, m)[i] = ms[i]) \/ i = Len(ms) + 1
  BY AppendIs
<1> QED BY <1>1 DEF Untold

\* A piece, an end, and a removal keep what is said of the answers.
LEMMA SpeechAnswer == ASSUME CourseOK, AnswerOK, NEW m, Answering(m) PROVE AnswerOK'
<1>0. Types /\ StreamOK /\ OrderOK /\ AnswersT /\ EndsOK /\ EndedOK /\ NoneYet /\ SaidOK
  BY DEF CourseOK, AnswerOK
<1>1. /\ Speaks(m) /\ Says(m) /\ m \in Messages(last') /\ m.kind \in Spoken /\ last' \in 0..LastSeq /\ last <= last'
      /\ UNCHANGED <<stream, read, batch, more, panel, online, at, known, fresh, replacing, gathering, buffer, shown, view>>
      /\ stream \in {"off", "replay", "live"}
  BY <1>0 DEF Answering, Speaks, reader, Types, StreamT
<1>2. /\ last \in 0..LastSeq /\ LastSeq \in Nat /\ MaxAnswers \in Nat /\ answers \in Nat /\ live \in Nat /\ live <= answers /\ said \in Nat
      /\ wire \in Seq(Messages(last)) /\ waiting \in Seq(Messages(last)) /\ buffer \in Seq(Messages(last)) /\ view \in [Answers -> Nat]
      /\ (\A r \in Seqs : ends[r] \in 0..answers) /\ (live # 0 => live \in Answers)
      /\ Range(shown) \subseteq 1..last /\ RowSet(buffer) \subseteq 1..last /\ 1..last \subseteq Seqs
      /\ last \in Nat /\ last' \in Nat
  BY <1>0, <1>1, AnswersTyped
<1>3. wire \in Seq(Messages(last')) /\ waiting \in Seq(Messages(last')) /\ buffer \in Seq(Messages(last'))
  BY <1>0, <1>1, <1>2, TypedUp
<1>4. /\ m.kind = "row" => m.row = last + 1 /\ last + 1 \in Seqs /\ ends' = [ends EXCEPT ![last + 1] = m.of] /\ answers' = answers
                           /\ ((m.of = 0 /\ live' = live /\ said' = said) \/ (m.of = live /\ live # 0 /\ live' = 0))
      /\ m.kind = "delta" => m.of = live' /\ ends' = ends
                             /\ \/ live = 0 /\ live' = answers + 1 /\ answers' = answers + 1 /\ answers < MaxAnswers /\ said' = 1
                                \/ live # 0 /\ live' = live /\ answers' = answers /\ said' = said + 1
      /\ m.kind \in {"removed", "reload"} => UNCHANGED <<ends, live, said, answers>>
  BY DEF Answering
<1>5. m.kind \in {"row", "delta", "removed", "reload"}
  BY <1>1 DEF Spoken
<1>e. ends \in [Seqs -> 0..answers] /\ live \in {0, answers} /\ answers \in 0..MaxAnswers
  BY <1>0 DEF AnswersT
<1>6. /\ answers' \in Nat /\ answers <= answers' /\ answers' <= MaxAnswers /\ live' \in {0, answers'}
      /\ ends' \in [Seqs -> 0..answers'] /\ (\A r \in Seqs : r # last + 1 => ends'[r] = ends[r])
      /\ (m.kind = "row" => ends'[last + 1] = m.of)
  <2>1. CASE m.kind = "row"
    <3>1. m.of \in 0..answers
      BY <1>2, <1>4, <2>1
    <3>2. answers' = answers /\ ends' = [ends EXCEPT ![last + 1] = m.of] /\ live' \in {0, answers} /\ last + 1 \in Seqs
      BY <1>4, <1>e, <2>1
    <3>3. ends' \in [Seqs -> 0..answers] /\ (\A r \in Seqs : r # last + 1 => ends'[r] = ends[r]) /\ ends'[last + 1] = m.of
      BY <1>e, <3>1, <3>2
    <3> QED BY <1>2, <1>e, <2>1, <3>2, <3>3
  <2>2. CASE m.kind = "delta"
    <3>1. answers' \in Nat /\ answers <= answers' /\ answers' <= MaxAnswers /\ live' \in {0, answers'} /\ ends' = ends
      BY <1>2, <1>4, <1>e, <2>2
    <3>2. 0..answers \subseteq 0..answers'
      BY <1>2, <3>1
    <3> QED BY <1>e, <2>2, <3>1, <3>2
  <2>3. CASE m.kind \in {"removed", "reload"}
    BY <1>2, <1>4, <1>e, <2>3
  <2> QED BY <1>5, <2>1, <2>2, <2>3
<1>7. AnswersT'
  BY <1>0, <1>1, <1>2, <1>6 DEF AnswersT
<1>8. live' # 0 => \A r \in Seqs : ends'[r] # live'
  <2> SUFFICES ASSUME live' # 0, NEW r \in Seqs PROVE ends'[r] # live'
    OBVIOUS
  <2>1. live # 0 => ends[r] # live
    BY <1>0 DEF EndsOK
  <2>2. ends[r] \in 0..answers
    BY <1>2
  <2>3. CASE m.kind = "row"
    BY <1>4, <1>6, <2>1, <2>3
  <2>4. CASE m.kind = "delta"
    BY <1>2, <1>4, <2>1, <2>2, <2>4
  <2>5. CASE m.kind \in {"removed", "reload"}
    BY <1>4, <2>1, <2>5
  <2> QED BY <1>5, <2>3, <2>4, <2>5
<1>9. ASSUME NEW ms \in Seq(Messages(last)), Agree(ms, ends, answers) PROVE Agree(ms, ends', answers')
  <2> SUFFICES ASSUME NEW i \in 1..Len(ms)
               PROVE  /\ IsRow(ms, i) => ms[i].of = ends'[ms[i].row]
                      /\ ms[i].kind \in {"delta", "snapshot"} => ms[i].of <= answers'
    BY DEF Agree
  <2>1. ms[i] \in Messages(last)
    OBVIOUS
  <2>2. (IsRow(ms, i) => ms[i].row \in 1..last) /\ (ms[i].kind \in {"delta", "snapshot"} => ms[i].of \in Answers)
    BY <1>2, <2>1, MessageIs DEF IsRow
  <2>3. IsRow(ms, i) => ms[i].of = ends'[ms[i].row]
    <3> SUFFICES ASSUME IsRow(ms, i) PROVE ms[i].of = ends'[ms[i].row]
      OBVIOUS
    <3>1. ms[i].row \in Seqs /\ ms[i].row # last + 1
      BY <1>2, <2>2
    <3> QED BY <1>6, <1>9, <3>1 DEF Agree
  <2>4. ms[i].kind \in {"delta", "snapshot"} => ms[i].of <= answers'
    <3> SUFFICES ASSUME ms[i].kind \in {"delta", "snapshot"} PROVE ms[i].of <= answers'
      OBVIOUS
    <3>1. ms[i].of <= answers /\ ms[i].of \in Nat
      BY <1>9, <2>2 DEF Agree, Answers
    <3> QED BY <1>2, <1>6, <3>1
  <2> QED BY <2>3, <2>4
<1>10. /\ m.kind = "row" => m.of = ends'[m.row]
       /\ m.kind \in {"delta", "snapshot"} => m.of <= answers'
  BY <1>2, <1>4, <1>5, <1>6
<1>11. EndsOK'
  <2>1. Agree(wire, ends', answers') /\ Agree(waiting, ends', answers') /\ Agree(buffer, ends', answers')
    BY <1>0, <1>2, <1>9 DEF EndsOK
  <2>2. Agree(Append(wire, m), ends', answers') /\ Agree(Append(waiting, m), ends', answers')
    BY <1>1, <1>2, <1>3, <1>10, <2>1, AgreeAppend
  <2>3. Agree(wire', ends', answers') /\ Agree(waiting', ends', answers')
    BY <1>1, <2>1, <2>2 DEF Says
  <2>4. \A b \in Answers : b > answers' => view[b] = 0
    <3> SUFFICES ASSUME NEW b \in Answers, b > answers' PROVE view[b] = 0
      OBVIOUS
    <3>1. b > answers
      BY <1>2, <1>6 DEF Answers
    <3> QED BY <1>0, <3>1 DEF EndsOK
  <2> QED BY <1>1, <1>8, <2>1, <2>3, <2>4 DEF EndsOK
<1>12. \A r \in Seqs : ends'[r] # 0 => ~Tells(m, ends'[r])
  BY <1>4, <1>5, <1>8 DEF Tells
<1>13. EndedOK'
  <2> SUFFICES ASSUME NEW r \in Seqs, ends'[r] # 0
               PROVE  /\ r \in Range(shown) => view[ends'[r]] = 0
                      /\ r \in Range(shown) \/ r \in RowSet(buffer) => Untold(wire', 0, ends'[r]) /\ Untold(buffer, 0, ends'[r])
                      /\ \A j \in 1..Len(wire') : IsRow(wire', j) /\ wire'[j].row = r => Untold(wire', j, ends'[r])
    BY <1>1 DEF EndedOK
  <2>1. r \in 1..last => ends'[r] = ends[r]
    BY <1>2, <1>6
  <2>2. \A j : Untold(wire, j, ends'[r]) => Untold(wire', j, ends'[r])
    <3>1. \A j : Untold(wire, j, ends'[r]) => Untold(Append(wire, m), j, ends'[r])
      BY <1>1, <1>2, <1>3, <1>12, UntoldAppend
    <3> QED BY <1>1, <3>1 DEF Says
  <2>3. r \in Range(shown) => view[ends'[r]] = 0
    BY <1>0, <1>2, <2>1 DEF EndedOK
  <2>4. r \in Range(shown) \/ r \in RowSet(buffer) => Untold(wire', 0, ends'[r]) /\ Untold(buffer, 0, ends'[r])
    BY <1>0, <1>2, <2>1, <2>2 DEF EndedOK
  <2>5. ASSUME NEW j \in 1..Len(wire'), IsRow(wire', j), wire'[j].row = r PROVE Untold(wire', j, ends'[r])
    <3>1. CASE j \in 1..Len(wire) /\ wire'[j] = wire[j]
      <4>1. IsRow(wire, j) /\ wire[j].row = r /\ wire[j] \in Messages(last)
        BY <1>2, <2>5, <3>1 DEF IsRow
      <4>2. r \in 1..last
        BY <1>2, <4>1, MessageIs DEF IsRow
      <4> QED BY <1>0, <2>1, <2>2, <3>1, <4>1, <4>2 DEF EndedOK
    <3>2. CASE wire' = Append(wire, m) /\ j = Len(wire) + 1
      <4>1. \A i \in 1..Len(wire') : ~(i > j)
        BY <1>1, <1>3, <3>2, AppendIs
      <4> QED BY <4>1 DEF Untold
    <3>3. wire' = wire \/ wire' = Append(wire, m)
      BY <1>1 DEF Says
    <3>4. \A i \in 1..Len(Append(wire, m)) : (i \in 1..Len(wire) /\ Append(wire, m)[i] = wire[i]) \/ i = Len(wire) + 1
      BY <1>1, <1>3, AppendIs
    <3> QED BY <2>5, <3>1, <3>2, <3>3, <3>4
  <2> QED BY <2>3, <2>4, <2>5
<1>a. \A i \in 1..Len(wire) : i \in 1..Len(wire') /\ wire'[i] = wire[i]
  <2>1. \A i \in 1..Len(wire) : i \in 1..Len(Append(wire, m)) /\ Append(wire, m)[i] = wire[i]
    BY <1>1, <1>3, AppendIs
  <2> QED BY <1>1, <2>1 DEF Says
<1>14. NoneYet'
  BY <1>0, <1>1, <1>a DEF NoneYet, None
<1>15. SaidOK'
  <2> SUFFICES ASSUME stream = "live", live' # 0
      PROVE /\ \A i \in 1..Len(wire') : SnapOf(wire'[i], live') => said' = wire'[i].said + Pieces(wire', live')
            /\ \A i \in 1..Len(buffer) : SnapOf(buffer[i], live') => said' = buffer[i].said + Pieces(wire', live')
            /\ ~gathering => said' = view[live'] + Pieces(wire', live')
            /\ gathering /\ (\A i \in 1..Len(wire') : ~SnapOf(wire'[i], live')) /\ (\A i \in 1..Len(buffer) : ~SnapOf(buffer[i], live')) =>
                 said' = Pieces(wire', live')
    BY <1>1 DEF SaidOK
  <2>1. wire' = Append(wire, m)
    BY <1>1 DEF Says
  <2>2. Pieces(wire', live') = IF PieceOf(m, live') THEN Pieces(wire, live') + 1 ELSE Pieces(wire, live')
    BY <1>1, <1>3, <2>1, PiecesAppend
  <2>3. Pieces(wire, live') \in Nat
    BY <1>2, PiecesFinite
  <2>4. \A i \in 1..Len(wire') : SnapOf(wire'[i], live') => i \in 1..Len(wire) /\ wire'[i] = wire[i]
    <3>1. wire'[Len(wire) + 1] = m /\ \A i \in 1..Len(wire') : (i \in 1..Len(wire) /\ wire'[i] = wire[i]) \/ i = Len(wire) + 1
      BY <1>1, <1>3, <2>1, AppendIs
    <3> QED BY <1>5, <3>1 DEF SnapOf
  <2>s. /\ \A i \in 1..Len(wire) : SnapOf(wire[i], live') => wire[i].said \in Nat
        /\ \A i \in 1..Len(buffer) : SnapOf(buffer[i], live') => buffer[i].said \in Nat
    <3>1. \A x \in Messages(last) : x.kind = "snapshot" => x.said \in Nat
      BY <1>2, MessageIs
    <3> QED BY <1>2, <3>1 DEF SnapOf
  <2>5. CASE live' = live
    <3>1. /\ \A i \in 1..Len(wire) : SnapOf(wire[i], live) => said = wire[i].said + Pieces(wire, live)
          /\ \A i \in 1..Len(buffer) : SnapOf(buffer[i], live) => said = buffer[i].said + Pieces(wire, live)
          /\ ~gathering => said = view[live] + Pieces(wire, live)
          /\ gathering /\ (\A i \in 1..Len(wire) : ~SnapOf(wire[i], live)) /\ (\A i \in 1..Len(buffer) : ~SnapOf(buffer[i], live)) =>
               said = Pieces(wire, live)
      BY <1>0, <2>5 DEF SaidOK
    <3>2. live \in Answers /\ view[live] \in Nat
      BY <1>2, <2>5
    <3>3. IF PieceOf(m, live) THEN said' = said + 1 ELSE said' = said
      BY <1>2, <1>4, <1>5, <2>5 DEF PieceOf
    <3>4. CASE PieceOf(m, live)
      <4>1. Pieces(wire', live) = Pieces(wire, live) + 1 /\ said' = said + 1
        BY <2>2, <2>5, <3>3, <3>4
      <4>2. \A i \in 1..Len(wire') : SnapOf(wire'[i], live) => said' = wire'[i].said + Pieces(wire', live)
        <5> SUFFICES ASSUME NEW i \in 1..Len(wire'), SnapOf(wire'[i], live) PROVE said' = wire'[i].said + Pieces(wire', live)
          OBVIOUS
        <5>1. i \in 1..Len(wire) /\ wire'[i] = wire[i]
          BY <2>4, <2>5
        <5>2. wire[i].said \in Nat /\ said = wire[i].said + Pieces(wire, live) /\ Pieces(wire, live) \in Nat
          BY <2>3, <2>5, <2>s, <3>1, <5>1
        <5>3. wire[i].said + Pieces(wire, live) + 1 = wire[i].said + (Pieces(wire, live) + 1)
          BY <5>2
        <5> QED BY <4>1, <5>1, <5>2, <5>3
      <4>3. \A i \in 1..Len(buffer) : SnapOf(buffer[i], live) => said' = buffer[i].said + Pieces(wire', live)
        <5> SUFFICES ASSUME NEW i \in 1..Len(buffer), SnapOf(buffer[i], live) PROVE said' = buffer[i].said + Pieces(wire', live)
          OBVIOUS
        <5>2. buffer[i].said \in Nat /\ said = buffer[i].said + Pieces(wire, live) /\ Pieces(wire, live) \in Nat
          BY <2>3, <2>5, <2>s, <3>1
        <5>3. buffer[i].said + Pieces(wire, live) + 1 = buffer[i].said + (Pieces(wire, live) + 1)
          BY <5>2
        <5> QED BY <4>1, <5>2, <5>3
      <4>4. ~gathering => said' = view[live] + Pieces(wire', live)
        BY <2>3, <2>5, <3>1, <3>2, <4>1
      <4>5. gathering /\ (\A i \in 1..Len(wire') : ~SnapOf(wire'[i], live)) /\ (\A i \in 1..Len(buffer) : ~SnapOf(buffer[i], live)) =>
               said' = Pieces(wire', live)
        BY <1>a, <3>1, <4>1
      <4> QED BY <2>5, <4>2, <4>3, <4>4, <4>5
    <3>5. CASE ~PieceOf(m, live)
      <4>1. Pieces(wire', live) = Pieces(wire, live) /\ said' = said
        BY <2>2, <2>5, <3>3, <3>5
      <4>2. \A i \in 1..Len(wire') : SnapOf(wire'[i], live) => said' = wire'[i].said + Pieces(wire', live)
        BY <2>4, <2>5, <3>1, <4>1
      <4>5. gathering /\ (\A i \in 1..Len(wire') : ~SnapOf(wire'[i], live)) /\ (\A i \in 1..Len(buffer) : ~SnapOf(buffer[i], live)) =>
               said' = Pieces(wire', live)
        BY <1>a, <3>1, <4>1
      <4> QED BY <2>5, <3>1, <4>1, <4>2, <4>5
    <3> QED BY <3>4, <3>5
  <2>6. CASE live' # live
    <3>1. m.kind = "delta" /\ m.of = live' /\ live' = answers + 1 /\ answers' = answers + 1 /\ said' = 1 /\ live' <= MaxAnswers
      BY <1>2, <1>4, <1>5, <2>6
    <3>2. live' \in Answers /\ live' > answers
      BY <1>2, <3>1 DEF Answers
    <3>3. view[live'] = 0
      BY <1>0, <3>2 DEF EndsOK
    <3>4. ASSUME NEW ms \in Seq(Messages(last)), Agree(ms, ends, answers), NEW i \in 1..Len(ms) PROVE ~Tells(ms[i], live')
      <4>1. ms[i].kind \in {"delta", "snapshot"} => ms[i].of <= answers
        BY <3>4 DEF Agree
      <4> QED BY <1>2, <3>1, <4>1 DEF Tells
    <3>5. (\A i \in 1..Len(wire) : ~Tells(wire[i], live')) /\ (\A i \in 1..Len(buffer) : ~Tells(buffer[i], live'))
      BY <1>0, <1>2, <3>4 DEF EndsOK
    <3>6. Pieces(wire, live') = 0
      <4>1. \A i \in 1..Len(wire) : ~PieceOf(wire[i], live')
        BY <3>5 DEF PieceOf, Tells
      <4> QED BY <1>2, <4>1, PiecesFinite
    <3>7. Pieces(wire', live') = 1
      BY <2>2, <3>1, <3>6 DEF PieceOf
    <3>8. (\A i \in 1..Len(wire') : ~SnapOf(wire'[i], live')) /\ (\A i \in 1..Len(buffer) : ~SnapOf(buffer[i], live'))
      BY <2>4, <3>5 DEF SnapOf, Tells
    <3> QED BY <3>1, <3>3, <3>7, <3>8
  <2> QED BY <2>5, <2>6
<1> QED BY <1>7, <1>11, <1>13, <1>14, <1>15 DEF AnswerOK

\* A stream that is closed, or only opened, brings nothing.
LEMMA ClosedAnswer ==
  ASSUME Types, AnswerOK, stream' # "live", buffer' = <<>>, waiting' = <<>>,
         \A i \in 1..Len(wire') : wire'[i].kind = "reloads", gathering' => 1 \in 1..Len(wire'),
         UNCHANGED <<ends, live, answers>>, view' \in Views, \A b \in Answers : b > answers => view'[b] = 0,
         \A r \in Seqs : ends[r] # 0 /\ r \in Range(shown') => view'[ends[r]] = 0
  PROVE  AnswerOK'
<1>1. AnswersT'
  BY DEF AnswerOK, AnswersT
<1>2. Len(buffer') = 0 /\ Len(waiting') = 0
  OBVIOUS
<1>3. EndsOK'
  BY <1>2 DEF AnswerOK, EndsOK, Agree, IsRow
<1>4. EndedOK'
  BY <1>2 DEF EndedOK, Untold, Tells, IsRow
<1>5. NoneYet'
  <2>1. gathering' => \E i \in 1..Len(wire') : wire'[i].kind = "reloads"
    OBVIOUS
  <2> QED BY <2>1 DEF NoneYet
<1> QED BY <1>1, <1>3, <1>4, <1>5 DEF AnswerOK, SaidOK

\* The pieces and the events of the messages left.
LEMMA TailAnswer ==
  ASSUME Types, wire # <<>>, wire' = Tail(wire)
  PROVE  /\ \A a : \A j \in Nat : Untold(wire, j + 1, a) => Untold(wire', j, a)
         /\ \A a : Untold(wire, 0, a) => Untold(wire', 0, a) /\ ~Tells(wire[1], a)
         /\ \A E, n : Agree(wire, E, n) => Agree(wire', E, n)
         /\ \A a : Pieces(wire, a) = IF PieceOf(wire[1], a) THEN Pieces(wire', a) + 1 ELSE Pieces(wire', a)
         /\ \A a : Pieces(wire', a) \in Nat
         /\ 1 \in 1..Len(wire) /\ Head(wire) = wire[1] /\ wire[1] \in Messages(last)
<1>1. /\ \A i \in 1..Len(wire') : i + 1 \in 1..Len(wire) /\ wire'[i] = wire[i + 1]
      /\ wire' \in Seq(Messages(last)) /\ wire \in Seq(Messages(last))
  BY RestIs DEF Types, StreamT
<1>2. 1 \in 1..Len(wire) /\ Head(wire) = wire[1] /\ wire[1] \in Messages(last)
  BY <1>1, TailIs
<1>3. ASSUME NEW a, NEW j \in Nat, Untold(wire, j + 1, a) PROVE Untold(wire', j, a)
  <2> SUFFICES ASSUME NEW i \in 1..Len(wire'), i > j PROVE ~Tells(wire'[i], a)
    BY DEF Untold
  <2>1. i + 1 > j + 1
    OBVIOUS
  <2> QED BY <1>1, <1>3, <2>1 DEF Untold
<1>4. ASSUME NEW a, Untold(wire, 0, a) PROVE Untold(wire', 0, a) /\ ~Tells(wire[1], a)
  <2>1. \A i \in 1..Len(wire') : i + 1 > 0
    OBVIOUS
  <2>2. Untold(wire', 0, a)
    BY <1>1, <1>4, <2>1 DEF Untold
  <2>3. 1 > 0
    OBVIOUS
  <2> QED BY <1>2, <1>4, <2>2, <2>3 DEF Untold
<1>5. ASSUME NEW E, NEW n, Agree(wire, E, n) PROVE Agree(wire', E, n)
  BY <1>1, <1>5 DEF Agree, IsRow
<1>6. \A a : Pieces(wire, a) = IF PieceOf(wire[1], a) THEN Pieces(wire', a) + 1 ELSE Pieces(wire', a)
  <2> SUFFICES ASSUME NEW a PROVE Pieces(wire, a) = IF PieceOf(wire[1], a) THEN Pieces(wire', a) + 1 ELSE Pieces(wire', a)
    OBVIOUS
  <2>1. Pieces(wire, a) = IF PieceOf(wire[1], a) THEN Pieces(Tail(wire), a) + 1 ELSE Pieces(Tail(wire), a)
    BY <1>1, PiecesTail
  <2> QED BY <2>1
<1>7. \A a : Pieces(wire', a) \in Nat
  <2> SUFFICES ASSUME NEW a PROVE Pieces(wire', a) \in Nat
    OBVIOUS
  <2> QED BY <1>1, PiecesFinite
<1> QED BY <1>2, <1>3, <1>4, <1>5, <1>6, <1>7

\* The ends of answers, as something is heard.
LEMMA HeardEnds ==
  ASSUME Types, AnswerOK, wire # <<>>, wire' = Tail(wire), ends' = ends,
         \A r : r \in Range(shown') \/ r \in RowSet(buffer') =>
           r \in Range(shown) \/ r \in RowSet(buffer) \/ (wire[1].kind = "row" /\ wire[1].row = r),
         \A r \in Seqs : ends[r] # 0 /\ r \in Range(shown') => view'[ends[r]] = 0,
         \A r \in Seqs : ends[r] # 0 /\ (r \in Range(shown') \/ r \in RowSet(buffer')) => Untold(buffer', 0, ends[r])
  PROVE  EndedOK'
<1> SUFFICES ASSUME NEW r \in Seqs, ends[r] # 0
             PROVE  /\ r \in Range(shown') \/ r \in RowSet(buffer') => Untold(wire', 0, ends[r])
                    /\ \A j \in 1..Len(wire') : IsRow(wire', j) /\ wire'[j].row = r => Untold(wire', j, ends[r])
  BY DEF EndedOK
<1>1. /\ r \in Range(shown) \/ r \in RowSet(buffer) => Untold(wire, 0, ends[r])
      /\ \A j \in 1..Len(wire) : IsRow(wire, j) /\ wire[j].row = r => Untold(wire, j, ends[r])
  BY DEF AnswerOK, EndedOK
<1>2. /\ \A j \in Nat : Untold(wire, j + 1, ends[r]) => Untold(wire', j, ends[r])
      /\ Untold(wire, 0, ends[r]) => Untold(wire', 0, ends[r])
      /\ 1 \in 1..Len(wire)
  BY TailAnswer
<1>3. r \in Range(shown') \/ r \in RowSet(buffer') => Untold(wire', 0, ends[r])
  <2>1. CASE r \in Range(shown) \/ r \in RowSet(buffer)
    BY <1>1, <1>2, <2>1
  <2>2. CASE wire[1].kind = "row" /\ wire[1].row = r
    <3>1. Untold(wire, 0 + 1, ends[r])
      BY <1>1, <1>2, <2>2 DEF IsRow
    <3> QED BY <1>2, <3>1
  <2> QED BY <2>1, <2>2
<1>4. ASSUME NEW j \in 1..Len(wire'), IsRow(wire', j), wire'[j].row = r PROVE Untold(wire', j, ends[r])
  <2>1. j + 1 \in 1..Len(wire) /\ wire'[j] = wire[j + 1] /\ j \in Nat
    BY RestIs
  <2> QED BY <1>1, <1>2, <1>4, <2>1 DEF IsRow
<1> QED BY <1>3, <1>4

\* What a replay brought, shown.
LEMMA BufferWritten ==
  ASSUME Types, AnswerOK, NEW v \in Views, \A b \in Answers : b > answers => v[b] = 0, NEW w, w = FoldLeft(Written, v, buffer)
  PROVE  /\ w \in Views /\ Writes(w, Len(buffer), v, buffer)
         /\ \A b \in Answers : b > answers => w[b] = 0
         /\ \A r \in Seqs : ends[r] # 0 /\ r \in RowSet(buffer) => w[ends[r]] = 0
         /\ \A r \in Seqs : ends[r] # 0 /\ r \in Range(shown) /\ v[ends[r]] = 0 => w[ends[r]] = 0
<1>0. AnswersT /\ EndsOK /\ EndedOK
  BY DEF AnswerOK
<1>1. last \in Nat /\ buffer \in Seq(Messages(last)) /\ answers \in Nat /\ \A r \in Seqs : ends[r] # 0 => ends[r] \in Answers
  BY <1>0, AnswersTyped
<1>2. Writes(w, Len(buffer), v, buffer)
  BY <1>1, AllWritten
<1>3. ASSUME NEW b \in Answers, b > answers PROVE w[b] = 0
  <2>1. ASSUME NEW i \in 1..Len(buffer) PROVE ~Tells(buffer[i], b)
    <3>1. buffer[i].kind \in {"delta", "snapshot"} => buffer[i].of <= answers
      BY <1>0 DEF EndsOK, Agree
    <3> QED BY <1>1, <1>3, <3>1 DEF Tells, Answers
  <2> QED BY <1>2, <1>3, <2>1 DEF Writes
<1>4. ASSUME NEW r \in Seqs, ends[r] # 0, r \in RowSet(buffer) \/ (r \in Range(shown) /\ v[ends[r]] = 0) PROVE w[ends[r]] = 0
  <2>1. Untold(buffer, 0, ends[r])
    BY <1>0, <1>4 DEF EndedOK
  <2>2. \A i \in 1..Len(buffer) : ~Tells(buffer[i], ends[r])
    <3>1. \A i \in 1..Len(buffer) : i > 0
      OBVIOUS
    <3> QED BY <2>1, <3>1 DEF Untold
  <2>3. v[ends[r]] = 0 \/ \E i \in 1..Len(buffer) : EndOf(buffer[i], ends[r])
    <3>1. CASE r \in RowSet(buffer)
      <4>1. PICK i \in 1..Len(buffer) : IsRow(buffer, i) /\ buffer[i].row = r
        BY <3>1 DEF RowSet
      <4>2. buffer[i].of = ends[r]
        BY <1>0, <4>1 DEF EndsOK, Agree
      <4> QED BY <4>1, <4>2 DEF EndOf, IsRow
    <3> QED BY <1>4, <3>1
  <2> QED BY <1>1, <1>2, <1>4, <2>2, <2>3 DEF Writes
<1>5. w \in Views
  BY <1>2 DEF Writes
<1> QED BY <1>2, <1>3, <1>4, <1>5

\* Nothing is shown as being written.
LEMMA NoneIs == None \in Views /\ \A a \in Answers : None[a] = 0
BY DEF None, Views

\* Reading the chat again shows nothing as being written.
LEMMA AgainAnswer == ASSUME CourseOK, AnswerOK, ReadAgain, UNCHANGED <<ends, live, answers>> PROVE AnswerOK'
<1>0. Types /\ AnswersT /\ EndsOK /\ EndedOK
  BY DEF CourseOK, AnswerOK
<1>1. stream' = "off" /\ buffer' = <<>> /\ waiting' = <<>> /\ wire' = <<>> /\ gathering' = FALSE /\ shown' = shown /\ view' = view
  BY DEF ReadAgain
<1>2. Len(wire') = 0
  BY <1>1
<1> QED BY <1>0, <1>1, <1>2, ClosedAnswer DEF AnswersT, EndsOK, EndedOK

\* A stream that is opened has said nothing of the answers.
LEMMA ConnectAnswer == ASSUME CourseOK, AnswerOK, Connect PROVE AnswerOK'
<1>0. Types /\ AnswersT /\ EndsOK /\ EndedOK
  BY DEF CourseOK, AnswerOK
<1> DEFINE m == Reloads(count)
<1>m. m.kind = "reloads"
  BY DEF Reloads
<1> HIDE DEF m
<1>1. /\ stream' = "replay" /\ buffer' = <<>> /\ waiting' = <<>> /\ wire' = <<m>> /\ shown' = shown /\ view' = view
      /\ UNCHANGED <<ends, live, answers>>
  BY DEF Connect, store, writer, m
<1>2. Len(wire') = 1 /\ wire'[1] = m
  BY <1>1
<1>3. 1 \in 1..Len(wire') /\ \A i \in 1..Len(wire') : wire'[i].kind = "reloads"
  BY <1>2, <1>m
<1> QED BY <1>0, <1>1, <1>3, ClosedAnswer DEF AnswersT, EndsOK, EndedOK

\* A cut takes what was on its way; the next stream brings a snapshot.
LEMMA CutAnswer == ASSUME CourseOK, AnswerOK, Cut PROVE AnswerOK'
<1>0. Types /\ OrderOK /\ AnswersT /\ EndsOK /\ EndedOK
  BY DEF CourseOK, AnswerOK
<1>1. /\ stream' = "off" /\ buffer' = <<>> /\ waiting' = <<>> /\ wire' = <<>> /\ gathering' = FALSE
      /\ UNCHANGED <<ends, live, answers>>
      /\ (shown' = shown /\ view' = view) \/ Added
  BY DEF Cut, store, writer
<1>2. Len(wire') = 0
  BY <1>1
<1>3. CASE shown' = shown /\ view' = view
  BY <1>0, <1>1, <1>2, <1>3, ClosedAnswer DEF AnswersT, EndsOK, EndedOK
<1>4. CASE Added
  <2>1. shown' = shown \o RowsOf(buffer) /\ view' = FoldLeft(Written, view, buffer)
    BY <1>4 DEF Added
  <2>2. buffer \in Seq(Messages(last)) /\ shown \in Seq(1..last) /\ last \in Nat /\ RowsUp(buffer, 0, at)
    BY <1>0, OrderTyped DEF OrderOK, SaidInOrder
  <2>3. RowsOf(buffer) \in Seq(1..last) /\ Range(RowsOf(buffer)) = RowSet(buffer)
    BY <2>2, RowsOfUp
  <2>4. Range(shown') = Range(shown) \cup RowSet(buffer)
    BY <2>1, <2>2, <2>3, RangeOfConcat
  <2>5. view \in Views /\ (\A b \in Answers : b > answers => view[b] = 0)
        /\ \A r \in Seqs : ends[r] # 0 /\ r \in Range(shown) => view[ends[r]] = 0
    BY <1>0 DEF AnswersT, EndsOK, EndedOK
  <2>6. /\ view' \in Views /\ (\A b \in Answers : b > answers => view'[b] = 0)
        /\ \A r \in Seqs : ends[r] # 0 /\ r \in RowSet(buffer) => view'[ends[r]] = 0
        /\ \A r \in Seqs : ends[r] # 0 /\ r \in Range(shown) /\ view[ends[r]] = 0 => view'[ends[r]] = 0
    BY <1>0, <2>1, <2>5, BufferWritten
  <2>7. \A r \in Seqs : ends[r] # 0 /\ r \in Range(shown') => view'[ends[r]] = 0
    BY <2>4, <2>5, <2>6
  <2> QED BY <1>0, <1>1, <1>2, <2>6, <2>7, ClosedAnswer
<1> QED BY <1>1, <1>3, <1>4

\* A replay names the answer that an event ended.
LEMMA ReplayRowAnswer == ASSUME CourseOK, AnswerOK, ReplayRow PROVE AnswerOK'
<1>0. Types /\ StreamOK /\ AnswersT /\ EndsOK /\ EndedOK /\ NoneYet
  BY DEF CourseOK, AnswerOK
<1> DEFINE b == Head(batch)
           m == [kind |-> "row", row |-> b, of |-> ends[b]]
<1>1. m.kind = "row" /\ m.row = b /\ m.of = ends[b]
  OBVIOUS
<1>2. m \in Messages(last) /\ wire \in Seq(Messages(last)) /\ last \in Nat
  <2>1. wire \in Seq(Messages(last)) /\ b \in 1..last /\ ends \in [Seqs -> 0..MaxAnswers] /\ last \in 0..LastSeq /\ 1..last \subseteq Seqs
    BY <1>0, EventStreamAssumption, TailIs DEF Types, StoreT, StreamT, ReplayRow, Seqs
  <2>2. m \in [kind : {"row"}, row : 1..last, of : 0..MaxAnswers]
    BY <2>1
  <2> QED BY <2>1, <2>2, EventStreamAssumption DEF Messages
<1> HIDE DEF m
<1>3. /\ stream = "replay" /\ wire' = Append(wire, m)
      /\ UNCHANGED <<ends, live, said, answers, stream, waiting, gathering, buffer, shown, view>>
  BY DEF ReplayRow, store, writer, reader, m
<1>a. /\ wire'[Len(wire) + 1] = m
      /\ \A i \in 1..Len(wire) : i \in 1..Len(wire') /\ wire'[i] = wire[i]
      /\ \A i \in 1..Len(wire') : (i \in 1..Len(wire) /\ wire'[i] = wire[i]) \/ i = Len(wire) + 1
      /\ Len(wire) \in Nat
  BY <1>2, <1>3, AppendIs
<1>4. AnswersT'
  BY <1>0, <1>3 DEF AnswersT
<1>5. EndsOK'
  <2>1. Agree(wire', ends, answers)
    BY <1>0, <1>1, <1>2, <1>3, AgreeAppend DEF EndsOK
  <2> QED BY <1>0, <1>3, <2>1 DEF EndsOK
<1>6. \A r \in Seqs : \A j : Untold(wire, j, ends[r]) => Untold(wire', j, ends[r])
  <2> SUFFICES ASSUME NEW r \in Seqs PROVE \A j : Untold(wire, j, ends[r]) => Untold(wire', j, ends[r])
    OBVIOUS
  <2>1. ~Tells(m, ends[r])
    BY <1>1 DEF Tells
  <2> QED BY <1>2, <1>3, <2>1, UntoldAppend
<1>7. EndedOK'
  <2> SUFFICES ASSUME NEW r \in Seqs, ends[r] # 0
               PROVE  /\ r \in Range(shown) => view[ends[r]] = 0
                      /\ r \in Range(shown) \/ r \in RowSet(buffer) => Untold(wire', 0, ends[r]) /\ Untold(buffer, 0, ends[r])
                      /\ \A j \in 1..Len(wire') : IsRow(wire', j) /\ wire'[j].row = r => Untold(wire', j, ends[r])
    BY <1>3 DEF EndedOK
  <2>1. ASSUME NEW j \in 1..Len(wire'), IsRow(wire', j), wire'[j].row = r PROVE Untold(wire', j, ends[r])
    <3>1. CASE j \in 1..Len(wire) /\ wire'[j] = wire[j]
      BY <1>0, <1>6, <2>1, <3>1 DEF EndedOK, IsRow
    <3>2. CASE j = Len(wire) + 1
      <4>1. \A i \in 1..Len(wire') : ~(i > j)
        BY <1>a, <3>2
      <4> QED BY <4>1 DEF Untold
    <3> QED BY <1>a, <3>1, <3>2
  <2> QED BY <1>0, <1>6, <2>1 DEF EndedOK
<1>8. NoneYet'
  BY <1>0, <1>3, <1>a DEF NoneYet, None
<1> QED BY <1>3, <1>4, <1>5, <1>7, <1>8 DEF AnswerOK, SaidOK

\* The snapshot has all that was said by then, and what waited says none of it again.
LEMMA LiveAnswer == ASSUME CourseOK, AnswerOK, GoLive PROVE AnswerOK'
<1>0. Types /\ StreamOK /\ AnswersT /\ EndsOK /\ EndedOK /\ NoneYet
  BY DEF CourseOK, AnswerOK
<1>1. PICK c, N, e : Goes(c, N, e)
  BY <1>0, GoLiveIs
<1>2. /\ stream = "replay" /\ stream' = "live" /\ waiting' = <<>>
      /\ UNCHANGED <<ends, live, said, answers, gathering, buffer, shown, view>>
  BY DEF GoLive, store, writer, reader
<1>3. /\ \A i \in 1..Len(N) : e[i] \in 1..Len(waiting) /\ N[i] = waiting[e[i]]
      /\ c \in Nat
  BY <1>1 DEF Goes, Picked
<1>k. KindsIn(wire, {"reloads", "row"}) /\ KindsIn(waiting, {"row", "removed", "reload"}) /\ gathering
  BY <1>0, <1>2 DEF StreamOK, ReplayOK
<1>s. /\ Snapshot(live, said).kind = "snapshot" /\ Snapshot(live, said).of = live /\ Snapshot(live, said).said = said
      /\ CaughtUp.kind = "caughtUp"
  BY DEF Snapshot, CaughtUp
<1>4. \A i \in 1..Len(wire') :
        \/ i \in 1..Len(wire) /\ wire'[i] = wire[i] /\ wire'[i].kind \in {"reloads", "row"}
        \/ live # 0 /\ wire'[i] = Snapshot(live, said)
        \/ wire'[i].kind = "caughtUp"
        \/ \E k \in 1..Len(waiting) : wire'[i] = waiting[k] /\ wire'[i].kind \in {"row", "removed", "reload"}
  <2> SUFFICES ASSUME NEW i \in 1..Len(wire')
      PROVE \/ i \in 1..Len(wire) /\ wire'[i] = wire[i] /\ wire'[i].kind \in {"reloads", "row"}
            \/ live # 0 /\ wire'[i] = Snapshot(live, said)
            \/ wire'[i].kind = "caughtUp"
            \/ \E k \in 1..Len(waiting) : wire'[i] = waiting[k] /\ wire'[i].kind \in {"row", "removed", "reload"}
    OBVIOUS
  <2>1. \/ i < c /\ i \in 1..Len(wire) /\ wire'[i] = wire[i]
        \/ i < c /\ i = c - 1 /\ live # 0 /\ wire'[i] = Snapshot(live, said)
        \/ i = c
        \/ i > c /\ i - c \in 1..Len(N) /\ wire'[i] = N[i - c]
    BY <1>1 DEF Goes
  <2>2. i = c => wire'[i].kind = "caughtUp"
    BY <1>1, <1>s DEF Goes
  <2> QED BY <1>3, <1>k, <2>1, <2>2 DEF KindsIn
<1>5. AnswersT'
  BY <1>0, <1>2 DEF AnswersT
<1>t. live \in Nat /\ live <= answers
  BY <1>0, AnswersTyped
<1>6. EndsOK'
  <2>1. Agree(wire', ends, answers)
    <3> SUFFICES ASSUME NEW i \in 1..Len(wire')
                 PROVE  /\ wire'[i].kind = "row" => wire'[i].of = ends[wire'[i].row]
                        /\ wire'[i].kind \in {"delta", "snapshot"} => wire'[i].of <= answers
      BY DEF Agree, IsRow
    <3>1. CASE i \in 1..Len(wire) /\ wire'[i] = wire[i]
      BY <1>0, <3>1 DEF EndsOK, Agree, IsRow
    <3>2. CASE live # 0 /\ wire'[i] = Snapshot(live, said)
      BY <1>s, <1>t, <3>2
    <3>3. CASE wire'[i].kind = "caughtUp"
      BY <3>3
    <3>4. ASSUME NEW k \in 1..Len(waiting), wire'[i] = waiting[k]
          PROVE  /\ wire'[i].kind = "row" => wire'[i].of = ends[wire'[i].row]
                 /\ wire'[i].kind \in {"delta", "snapshot"} => wire'[i].of <= answers
      BY <1>0, <3>4 DEF EndsOK, Agree, IsRow
    <3> QED BY <1>4, <3>1, <3>2, <3>3, <3>4
  <2>2. Agree(waiting', ends, answers)
    <3>1. Len(waiting') = 0
      BY <1>2
    <3> QED BY <3>1 DEF Agree
  <2> QED BY <1>0, <1>2, <2>1, <2>2 DEF EndsOK
<1>7. EndedOK'
  <2>1. ASSUME NEW r \in Seqs, ends[r] # 0 PROVE \A i \in 1..Len(wire') : ~Tells(wire'[i], ends[r])
    <3>1. live # 0 => ends[r] # live
      BY <1>0 DEF EndsOK
    <3> QED BY <1>4, <1>s, <3>1 DEF Tells
  <2> QED BY <1>0, <1>2, <2>1 DEF EndedOK, Untold
<1>8. NoneYet'
  <2>1. \A i \in 1..Len(wire) : i \in 1..Len(wire') /\ wire'[i] = wire[i]
    BY <1>1 DEF Goes
  <2> QED BY <1>0, <1>2, <2>1 DEF NoneYet, None
<1>9. SaidOK'
  <2> SUFFICES ASSUME live # 0
      PROVE /\ \A i \in 1..Len(wire') : SnapOf(wire'[i], live) => said = wire'[i].said + Pieces(wire', live)
            /\ \A i \in 1..Len(buffer) : ~SnapOf(buffer[i], live)
            /\ \E i \in 1..Len(wire') : SnapOf(wire'[i], live)
    BY <1>2, <1>k DEF SaidOK
  <2>1. Pieces(wire', live) = 0
    <3>1. \A i \in 1..Len(wire') : ~PieceOf(wire'[i], live)
      BY <1>4, <1>s DEF PieceOf
    <3>2. wire' \in Seq(Messages(last))
      BY <1>1 DEF Goes
    <3> QED BY <3>1, <3>2, PiecesFinite
  <2>2. said \in Nat
    BY <1>0 DEF Types, StoreT
  <2>3. \A i \in 1..Len(wire') : SnapOf(wire'[i], live) => wire'[i].said = said
    BY <1>4, <1>s DEF SnapOf
  <2>4. \A i \in 1..Len(buffer) : ~SnapOf(buffer[i], live)
    BY <1>0, <1>2 DEF StreamOK, BufferOK, SnapOf
  <2>5. c - 1 \in 1..Len(wire') /\ SnapOf(wire'[c - 1], live)
    BY <1>1, <1>s DEF Goes, SnapOf
  <2> QED BY <2>1, <2>2, <2>3, <2>4, <2>5
<1> QED BY <1>5, <1>6, <1>7, <1>8, <1>9 DEF AnswerOK

\* What is known of the answer that is written, of the messages that are left.
LEMMA SaidTail ==
  ASSUME Types, SaidOK, stream = "live", live # 0, wire # <<>>, wire' = Tail(wire), ~PieceOf(wire[1], live)
  PROVE  /\ Pieces(wire', live) = Pieces(wire, live) /\ Pieces(wire', live) \in Nat
         /\ \A i \in 1..Len(wire') : SnapOf(wire'[i], live) => said = wire'[i].said + Pieces(wire', live)
         /\ SnapOf(wire[1], live) => said = wire[1].said + Pieces(wire', live)
         /\ ~SnapOf(wire[1], live) /\ (\A i \in 1..Len(wire') : ~SnapOf(wire'[i], live)) => \A i \in 1..Len(wire) : ~SnapOf(wire[i], live)
<1>1. Pieces(wire', live) = Pieces(wire, live) /\ Pieces(wire', live) \in Nat /\ 1 \in 1..Len(wire)
  BY TailAnswer
<1>2. /\ \A i \in 1..Len(wire') : i + 1 \in 1..Len(wire) /\ wire'[i] = wire[i + 1]
      /\ \A i \in 1..Len(wire) : i # 1 => i - 1 \in 1..Len(wire') /\ wire'[i - 1] = wire[i]
  BY RestIs
<1>3. \A i \in 1..Len(wire) : SnapOf(wire[i], live) => said = wire[i].said + Pieces(wire, live)
  BY DEF SaidOK
<1>4. ASSUME ~SnapOf(wire[1], live), \A i \in 1..Len(wire') : ~SnapOf(wire'[i], live), NEW i \in 1..Len(wire)
      PROVE  ~SnapOf(wire[i], live)
  BY <1>2, <1>4
<1>5. SnapOf(wire[1], live) => said = wire[1].said + Pieces(wire', live)
  BY <1>1, <1>3
<1>6. \A i \in 1..Len(wire') : SnapOf(wire'[i], live) => said = wire'[i].said + Pieces(wire', live)
  BY <1>1, <1>2, <1>3
<1> QED BY <1>1, <1>4, <1>5, <1>6

\* What is left to do, for what is heard.
LEMMA HeardAnswer ==
  ASSUME Types, AnswerOK, wire # <<>>, wire' = Tail(wire), UNCHANGED <<ends, live, said, answers, stream, waiting>>,
         view' \in Views, \A b \in Answers : b > answers => view'[b] = 0, Agree(buffer', ends, answers),
         EndedOK', NoneYet', SaidOK'
  PROVE  AnswerOK'
<1>1. Agree(wire', ends, answers)
  BY TailAnswer DEF AnswerOK, EndsOK
<1> QED BY <1>1 DEF AnswerOK, AnswersT, EndsOK

\* The first word of a stream says nothing of the answers.
LEMMA ReloadsAnswer == ASSUME CourseOK, AnswerOK, HearReloads PROVE AnswerOK'
<1>0. Types /\ StreamOK /\ AnswersT /\ EndsOK /\ SaidOK
  BY DEF CourseOK, AnswerOK
<1>1. wire # <<>> /\ Head(wire).kind = "reloads" /\ UNCHANGED <<ends, live, said, answers>>
  BY DEF HearReloads, Hear, store, writer
<1>2. CASE ReadAgain
  BY <1>1, <1>2, AgainAnswer
<1>3. CASE wire' = Tail(wire) /\ view' = None
           /\ UNCHANGED <<server, panel, online, at, fresh, replacing, gathering, buffer, shown, above, answered>>
  <2>1. wire[1].kind = "reloads" /\ gathering /\ buffer = <<>>
    BY <1>0, <1>1, HeadIs
  <2>2. UNCHANGED <<stream, waiting, gathering, buffer, shown>>
    BY <1>3 DEF server
  <2>3. Len(buffer') = 0 /\ RowSet(buffer') = {}
    BY <2>1, <2>2, RowSetEmpty
  <2>4. \A r \in Seqs : ends[r] # 0 => ends[r] \in Answers
    BY <1>0, AnswersTyped
  <2>5. EndedOK'
    <3>1. \A r \in Seqs : ends[r] # 0 => view'[ends[r]] = 0 /\ Untold(buffer', 0, ends[r])
      BY <1>3, <2>3, <2>4, NoneIs DEF Untold
    <3> QED BY <1>0, <1>1, <1>3, <2>2, <2>3, <3>1, HeardEnds
  <2>6. NoneYet'
    BY <1>3 DEF NoneYet, None
  <2>7. SaidOK'
    <3> SUFFICES ASSUME stream = "live", live # 0
        PROVE /\ \A i \in 1..Len(wire') : SnapOf(wire'[i], live) => said = wire'[i].said + Pieces(wire', live)
              /\ (\A i \in 1..Len(wire') : ~SnapOf(wire'[i], live)) => said = Pieces(wire', live)
      BY <1>1, <2>1, <2>2, <2>3 DEF SaidOK
    <3>1. ~PieceOf(wire[1], live) /\ ~SnapOf(wire[1], live)
      BY <2>1 DEF PieceOf, SnapOf
    <3>2. \A i \in 1..Len(buffer) : ~SnapOf(buffer[i], live)
      BY <2>2, <2>3
    <3> QED BY <1>0, <1>1, <1>3, <2>1, <3>1, <3>2, SaidTail DEF SaidOK
  <2>8. Agree(buffer', ends, answers) /\ view' \in Views /\ \A b \in Answers : view'[b] = 0
    BY <1>3, <2>3, NoneIs DEF Agree
  <2> QED BY <1>0, <1>1, <1>3, <2>2, <2>5, <2>6, <2>7, <2>8, HeardAnswer
<1> QED BY <1>2, <1>3 DEF HearReloads

\* A removal says nothing of the answers.
LEMMA RemovedAnswer == ASSUME CourseOK, AnswerOK, HearRemoved PROVE AnswerOK'
<1>0. Types /\ StreamOK /\ AnswersT /\ EndsOK /\ EndedOK /\ SaidOK
  BY DEF CourseOK, AnswerOK
<1>1. wire # <<>> /\ wire[1].kind = "removed" /\ ~gathering /\ wire' = Tail(wire)
  <2>1. wire # <<>> /\ Head(wire).kind = "removed" /\ wire' = Tail(wire)
    BY DEF HearRemoved, Hear
  <2> QED BY <1>0, <2>1, HeadIs
<1>2. PICK gone : gone = Covered(Head(wire).from, Head(wire).to)
  OBVIOUS
<1>3. /\ shown' = Uncovered(shown, gone)
      /\ UNCHANGED <<ends, live, said, answers, stream, waiting, gathering, buffer, view>>
  BY <1>1, <1>2 DEF HearRemoved, store, writer, server
<1>4. Range(shown') \subseteq Range(shown)
  <2>1. shown \in Seq(Int)
    BY <1>0, OrderTyped
  <2> QED BY <1>3, <2>1, UncoveredUp
<1>5. buffer = <<>> /\ Len(buffer) = 0
  BY <1>0, <1>1 DEF StreamOK, BufferOK
<1>6. EndedOK'
  <2>1. \A r : r \in Range(shown') \/ r \in RowSet(buffer') => r \in Range(shown) \/ r \in RowSet(buffer)
    BY <1>3, <1>4
  <2>2. \A r \in Seqs : ends[r] # 0 /\ r \in Range(shown') => view'[ends[r]] = 0
    BY <1>0, <1>3, <1>4 DEF EndedOK
  <2>3. \A r \in Seqs : Untold(buffer', 0, ends[r])
    BY <1>3, <1>5 DEF Untold
  <2> QED BY <1>0, <1>1, <1>3, <2>1, <2>2, <2>3, HeardEnds
<1>7. NoneYet'
  BY <1>1, <1>3 DEF NoneYet
<1>8. SaidOK'
  <2> SUFFICES ASSUME stream = "live", live # 0
      PROVE /\ \A i \in 1..Len(wire') : SnapOf(wire'[i], live) => said = wire'[i].said + Pieces(wire', live)
            /\ said = view[live] + Pieces(wire', live)
    BY <1>1, <1>3, <1>5 DEF SaidOK
  <2>1. ~PieceOf(wire[1], live)
    BY <1>1 DEF PieceOf
  <2>2. said = view[live] + Pieces(wire, live)
    BY <1>0, <1>1 DEF SaidOK
  <2> QED BY <1>0, <1>1, <2>1, <2>2, SaidTail
<1>9. view' \in Views /\ (\A b \in Answers : b > answers => view'[b] = 0) /\ Agree(buffer', ends, answers)
  BY <1>0, <1>3 DEF AnswersT, EndsOK
<1> QED BY <1>0, <1>1, <1>3, <1>6, <1>7, <1>8, <1>9, HeardAnswer

\* An event is gathered.
LEMMA GatherAnswer == ASSUME CourseOK, AnswerOK, HearEvent, gathering PROVE AnswerOK'
<1>0. Types /\ StreamOK /\ AnswersT /\ EndsOK /\ EndedOK /\ NoneYet /\ SaidOK
  BY DEF CourseOK, AnswerOK
<1>1. wire # <<>> /\ Head(wire).kind \in {"row", "delta", "snapshot"}
  BY DEF HearEvent, Hear
<1>2. Head(wire) = wire[1] /\ wire[1].kind \in {"row", "snapshot"} /\ 1 \in 1..Len(wire) /\ wire[1] \in Messages(last)
  BY <1>0, <1>1, HeadIs
<1> DEFINE m == wire[1]
<1>3. /\ wire' = Tail(wire) /\ buffer' = Append(buffer, m)
      /\ UNCHANGED <<ends, live, said, answers, stream, waiting, gathering, shown, view>>
  BY <1>2 DEF HearEvent, store, writer, server
<1>4. buffer \in Seq(Messages(last)) /\ last \in Nat /\ m \in Messages(last) /\ view \in Views
  BY <1>0, <1>2, AnswersTyped DEF Views
<1>5. \A i \in 1..Len(buffer) : buffer[i].kind = "row"
  <2> SUFFICES ASSUME NEW i \in 1..Len(buffer), buffer[i].kind = "snapshot" PROVE FALSE
    BY <1>0 DEF StreamOK, BufferOK
  <2>1. stream = "live"
    BY <1>0 DEF StreamOK, BufferOK
  <2>2. PICK c \in 1..Len(wire) : Comes(c) /\ (wire[1].kind = "caughtUp" <=> c = 1)
    BY <1>0, <1>1, <2>1, HeadIs
  <2> QED BY <1>2, <2>2 DEF Comes
<1>6. /\ Agree(buffer, ends, answers)
      /\ m.kind = "row" => m.of = ends[m.row]
      /\ m.kind \in {"delta", "snapshot"} => m.of <= answers
  BY <1>0, <1>2 DEF EndsOK, Agree, IsRow
<1>a. /\ buffer'[Len(buffer) + 1] = m /\ Len(buffer) + 1 \in 1..Len(buffer')
      /\ \A i \in 1..Len(buffer') : (i \in 1..Len(buffer) /\ buffer'[i] = buffer[i]) \/ i = Len(buffer) + 1
  <2>1. /\ Append(buffer, m)[Len(buffer) + 1] = m /\ Len(buffer) + 1 \in 1..Len(Append(buffer, m))
        /\ \A i \in 1..Len(buffer) : Append(buffer, m)[i] = buffer[i]
        /\ \A i \in 1..Len(Append(buffer, m)) : i \in 1..Len(buffer) \/ i = Len(buffer) + 1
    BY <1>4, AppendIs
  <2> QED BY <1>3, <2>1
<1>r. RowSet(buffer') = RowSet(buffer) \cup (IF m.kind = "row" THEN {m.row} ELSE {})
  BY <1>3, <1>4, RowSetAppend
<1>7. Agree(buffer', ends, answers)
  BY <1>3, <1>4, <1>6, AgreeAppend
<1>8. \A a : Untold(wire, 0, a) => ~Tells(m, a)
  BY <1>1, <1>3, <1>0, TailAnswer
<1> HIDE DEF m
<1>9. EndedOK'
  <2>1. ASSUME NEW r \in Seqs, ends[r] # 0, r \in Range(shown') \/ r \in RowSet(buffer') PROVE Untold(buffer', 0, ends[r])
    <3>1. CASE r \in Range(shown) \/ r \in RowSet(buffer)
      <4>1. ~Tells(m, ends[r]) /\ Untold(buffer, 0, ends[r])
        BY <1>0, <1>8, <2>1, <3>1 DEF EndedOK
      <4>2. \A j : Untold(buffer, j, ends[r]) => Untold(Append(buffer, m), j, ends[r])
        BY <1>4, <4>1, UntoldAppend
      <4> QED BY <1>3, <4>1, <4>2
    <3>2. CASE m.kind = "row"
      <4>1. \A i \in 1..Len(buffer') : buffer'[i].kind = "row"
        BY <1>5, <1>a, <3>2
      <4> QED BY <4>1 DEF Untold, Tells
    <3> QED BY <1>3, <1>r, <2>1, <3>1, <3>2
  <2>2. \A r \in Seqs : ends[r] # 0 /\ r \in Range(shown') => view'[ends[r]] = 0
    BY <1>0, <1>3 DEF EndedOK
  <2>3. \A r : r \in Range(shown') \/ r \in RowSet(buffer') =>
           r \in Range(shown) \/ r \in RowSet(buffer) \/ (wire[1].kind = "row" /\ wire[1].row = r)
    BY <1>3, <1>r DEF m
  <2> QED BY <1>0, <1>1, <1>3, <2>1, <2>2, <2>3, HeardEnds
<1>10. NoneYet'
  <2>1. \A i \in 1..Len(wire) : i # 1 => i - 1 \in 1..Len(wire') /\ wire'[i - 1] = wire[i]
    BY <1>0, <1>1, <1>3, RestIs
  <2>2. (\A i \in 1..Len(wire') : wire'[i].kind # "reloads") => \A i \in 1..Len(wire) : wire[i].kind # "reloads"
    BY <1>2, <2>1
  <2> QED BY <1>0, <1>3, <2>2 DEF NoneYet, None
<1>11. SaidOK'
  <2> SUFFICES ASSUME stream = "live", live # 0
      PROVE /\ \A i \in 1..Len(wire') : SnapOf(wire'[i], live) => said = wire'[i].said + Pieces(wire', live)
            /\ \A i \in 1..Len(buffer') : SnapOf(buffer'[i], live) => said = buffer'[i].said + Pieces(wire', live)
            /\ (\A i \in 1..Len(wire') : ~SnapOf(wire'[i], live)) /\ (\A i \in 1..Len(buffer') : ~SnapOf(buffer'[i], live)) =>
                 said = Pieces(wire', live)
    BY <1>3 DEF SaidOK
  <2>1. ~PieceOf(wire[1], live)
    BY <1>2 DEF PieceOf
  <2>2. /\ Pieces(wire', live) = Pieces(wire, live)
        /\ \A i \in 1..Len(wire') : SnapOf(wire'[i], live) => said = wire'[i].said + Pieces(wire', live)
        /\ SnapOf(m, live) => said = m.said + Pieces(wire', live)
        /\ ~SnapOf(m, live) /\ (\A i \in 1..Len(wire') : ~SnapOf(wire'[i], live)) => \A i \in 1..Len(wire) : ~SnapOf(wire[i], live)
    BY <1>0, <1>1, <1>3, <2>1, SaidTail DEF m
  <2>3. \A i \in 1..Len(buffer) : ~SnapOf(buffer[i], live)
    BY <1>5 DEF SnapOf
  <2>4. \A i \in 1..Len(buffer') : SnapOf(buffer'[i], live) => buffer'[i] = m
    BY <1>a, <2>3
  <2>5. (\A i \in 1..Len(buffer') : ~SnapOf(buffer'[i], live)) => ~SnapOf(m, live)
    BY <1>a
  <2>6. (\A i \in 1..Len(wire) : ~SnapOf(wire[i], live)) => said = Pieces(wire, live)
    BY <1>0, <2>3 DEF SaidOK
  <2> QED BY <2>2, <2>4, <2>5, <2>6
<1>12. view' \in Views /\ \A b \in Answers : b > answers => view'[b] = 0
  BY <1>0, <1>3, <1>4 DEF EndsOK
<1> QED BY <1>0, <1>1, <1>3, <1>7, <1>9, <1>10, <1>11, <1>12, HeardAnswer

\* It is shown.
LEMMA ShowAnswer == ASSUME CourseOK, AnswerOK, HearEvent, ~gathering PROVE AnswerOK'
<1>0. Types /\ StreamOK /\ AnswersT /\ EndsOK /\ EndedOK /\ SaidOK
  BY DEF CourseOK, AnswerOK
<1>1. wire # <<>> /\ Head(wire).kind \in {"row", "delta", "snapshot"}
  BY DEF HearEvent, Hear
<1>2. Head(wire) = wire[1] /\ wire[1].kind \in {"row", "delta"} /\ 1 \in 1..Len(wire) /\ wire[1] \in Messages(last) /\ KindsIn(wire, Spoken)
  BY <1>0, <1>1, HeadIs
<1> DEFINE m == wire[1]
<1>3. /\ wire' = Tail(wire) /\ view' = Written(view, m) /\ shown' = (IF m.kind = "row" THEN Append(shown, m.row) ELSE shown)
      /\ UNCHANGED <<ends, live, said, answers, stream, waiting, gathering, buffer>>
  BY <1>2 DEF HearEvent, store, writer, server
<1>4. /\ shown \in Seq(1..last) /\ last \in Nat /\ m \in Messages(last) /\ view \in Views /\ (m.kind = "row" => m.row \in 1..last)
      /\ 1..last \subseteq Seqs /\ (live # 0 => live \in Answers) /\ answers \in Nat
      /\ \A r \in Seqs : ends[r] # 0 => ends[r] \in Answers
  <2>1. shown \in Seq(1..last)
    BY <1>0, OrderTyped
  <2>2. /\ last \in Nat /\ view \in Views /\ 1..last \subseteq Seqs /\ (live # 0 => live \in Answers) /\ answers \in Nat
        /\ \A r \in Seqs : ends[r] # 0 => ends[r] \in Answers
    BY <1>0, AnswersTyped DEF Views
  <2> QED BY <1>2, <2>1, <2>2, MessageIs
<1>5. buffer = <<>> /\ Len(buffer) = 0 /\ RowSet(buffer) = {}
  BY <1>0, RowSetEmpty DEF StreamOK, BufferOK
<1>6. /\ m.kind = "row" => m.of = ends[m.row]
      /\ m.kind \in {"delta", "snapshot"} => m.of <= answers
  BY <1>0, <1>2 DEF EndsOK, Agree, IsRow
<1>8. \A a : Untold(wire, 0, a) => ~Tells(m, a)
  BY <1>1, <1>3, <1>0, TailAnswer
<1>w. /\ view' \in Views
      /\ \A a \in Answers :
              /\ EndOf(m, a) => view'[a] = 0
              /\ m.kind = "delta" /\ m.of = a => view'[a] = view[a] + 1
              /\ ~EndOf(m, a) /\ ~Tells(m, a) => view'[a] = view[a]
  BY <1>3, <1>4, WrittenIs
<1>s. Range(shown') = Range(shown) \cup (IF m.kind = "row" THEN {m.row} ELSE {})
  <2>1. CASE m.kind = "row"
    <3>1. Range(Append(shown, m.row)) = Range(shown) \cup {m.row}
      BY <1>4, <2>1, RangeAppend
    <3> QED BY <1>3, <2>1, <3>1
  <2>2. CASE m.kind # "row"
    BY <1>3, <2>2
  <2> QED BY <2>1, <2>2
<1>k. m.kind \in {"row", "delta"}
  BY <1>2
<1>t. Pieces(wire, live) = IF PieceOf(m, live) THEN Pieces(wire', live) + 1 ELSE Pieces(wire', live)
  BY <1>0, <1>1, <1>3, TailAnswer
<1>p. Pieces(wire', live) \in Nat
  BY <1>0, <1>1, <1>3, TailAnswer
<1>9. EndedOK'
  <2>1. ASSUME NEW r \in Seqs, ends[r] # 0, r \in Range(shown') PROVE view'[ends[r]] = 0
    <3>1. CASE r \in Range(shown)
      <4>1. view[ends[r]] = 0 /\ Untold(wire, 0, ends[r])
        BY <1>0, <2>1, <3>1 DEF EndedOK
      <4>2. ~Tells(m, ends[r]) /\ ends[r] \in Answers
        BY <1>4, <1>8, <2>1, <4>1
      <4> HIDE DEF m
      <4> QED BY <1>w, <4>1, <4>2
    <3>2. CASE m.kind = "row" /\ m.row = r
      <4>1. EndOf(m, ends[r]) /\ ends[r] \in Answers
        BY <1>4, <1>6, <2>1, <3>2 DEF EndOf
      <4> HIDE DEF m
      <4> QED BY <1>w, <4>1
    <3> HIDE DEF m
    <3> QED BY <1>s, <2>1, <3>1, <3>2
  <2>2. \A r \in Seqs : Untold(buffer', 0, ends[r])
    BY <1>3, <1>5 DEF Untold
  <2>3. \A r : r \in Range(shown') \/ r \in RowSet(buffer') =>
           r \in Range(shown) \/ r \in RowSet(buffer) \/ (wire[1].kind = "row" /\ wire[1].row = r)
    BY <1>3, <1>5, <1>s
  <2> QED BY <1>0, <1>1, <1>3, <2>1, <2>2, <2>3, HeardEnds
<1>10. NoneYet'
  BY <1>3 DEF NoneYet
<1>q. \A i \in 1..Len(wire') : wire'[i].kind \in Spoken
  BY <1>0, <1>1, <1>2, <1>3, RestIs DEF KindsIn
<1> HIDE DEF m
<1>11. SaidOK'
  <2> SUFFICES ASSUME stream = "live", live # 0 PROVE said = view'[live] + Pieces(wire', live)
    <3>1. \A i \in 1..Len(wire') : ~SnapOf(wire'[i], live)
      BY <1>q DEF SnapOf, Spoken
    <3> QED BY <1>3, <1>5, <3>1 DEF SaidOK
  <2>1. said = view[live] + Pieces(wire, live) /\ live \in Answers /\ view[live] \in Nat
    BY <1>0, <1>4 DEF SaidOK, Views
  <2>2. ~EndOf(m, live)
    <3>1. \A r \in Seqs : ends[r] # live
      BY <1>0 DEF EndsOK
    <3> QED BY <1>4, <1>6, <3>1 DEF EndOf
  <2>3. CASE PieceOf(m, live)
    <3>1. view'[live] = view[live] + 1
      BY <1>w, <2>1, <2>3 DEF PieceOf
    <3> QED BY <1>p, <1>t, <2>1, <2>3, <3>1
  <2>4. CASE ~PieceOf(m, live)
    <3>1. ~Tells(m, live)
      BY <1>k, <2>4 DEF PieceOf, Tells
    <3>2. view'[live] = view[live]
      BY <1>w, <2>1, <2>2, <3>1
    <3> QED BY <1>t, <2>1, <2>4, <3>2
  <2> QED BY <2>3, <2>4
<1>12. ASSUME NEW b \in Answers, b > answers PROVE view'[b] = 0
  <2>1. ~Tells(m, b)
    BY <1>4, <1>6, <1>12 DEF Tells, Answers
  <2>2. view[b] = 0
    BY <1>0, <1>12 DEF EndsOK
  <2> QED BY <1>w, <2>1, <2>2
<1>13. Agree(buffer', ends, answers)
  BY <1>0, <1>3 DEF EndsOK
<1> QED BY <1>0, <1>1, <1>3, <1>w, <1>9, <1>10, <1>11, <1>12, <1>13, HeardAnswer

\* What was gathered is shown.
LEMMA CaughtUpAnswer == ASSUME CourseOK, AnswerOK, HearCaughtUp PROVE AnswerOK'
<1>0. Types /\ StreamOK /\ OrderOK /\ AnswersT /\ EndsOK /\ EndedOK /\ NoneYet /\ SaidOK
  BY DEF CourseOK, AnswerOK
<1>1. wire # <<>> /\ wire[1].kind = "caughtUp" /\ Head(wire) = wire[1] /\ gathering /\ stream = "live"
  <2>1. wire # <<>> /\ Head(wire).kind = "caughtUp"
    BY DEF HearCaughtUp, Hear
  <2> QED BY <1>0, <2>1, HeadIs
<1>2. /\ wire' = Tail(wire) /\ gathering' = FALSE /\ buffer' = <<>>
      /\ UNCHANGED <<ends, live, said, answers, stream, waiting>>
  BY DEF HearCaughtUp, store, writer, server
<1>3. view = None
  <2>1. \A i \in 1..Len(wire) : wire[i].kind # "reloads"
    BY <1>0, <1>1 DEF StreamOK, BufferOK
  <2> QED BY <1>0, <1>1, <2>1 DEF NoneYet
<1>4. view' = FoldLeft(Written, None, buffer) /\ shown' = (IF Adds THEN shown \o RowsOf(buffer) ELSE RowsOf(buffer))
  BY <1>3 DEF HearCaughtUp, Added, Replaced, Adds
<1>5. /\ buffer \in Seq(Messages(last)) /\ shown \in Seq(1..last) /\ last \in Nat
      /\ RowsUp(buffer, 0, at)
  BY <1>0, OrderTyped DEF OrderOK, SaidInOrder
<1>6. RowsOf(buffer) \in Seq(1..last) /\ Range(RowsOf(buffer)) = RowSet(buffer)
  BY <1>5, RowsOfUp
<1>7. Range(shown') \subseteq Range(shown) \cup RowSet(buffer)
  <2>1. Range(shown \o RowsOf(buffer)) = Range(shown) \cup Range(RowsOf(buffer))
    BY <1>5, <1>6, RangeOfConcat
  <2> QED BY <1>4, <1>6, <2>1
<1>8. /\ view' \in Views /\ Writes(view', Len(buffer), None, buffer)
      /\ \A b \in Answers : b > answers => view'[b] = 0
      /\ \A r \in Seqs : ends[r] # 0 /\ r \in RowSet(buffer) => view'[ends[r]] = 0
      /\ \A r \in Seqs : ends[r] # 0 /\ r \in Range(shown) /\ None[ends[r]] = 0 => view'[ends[r]] = 0
  <2>1. None \in Views /\ \A b \in Answers : b > answers => None[b] = 0
    BY NoneIs
  <2> QED BY <1>0, <1>4, <2>1, BufferWritten
<1>9. Len(buffer') = 0 /\ RowSet(buffer') = {}
  BY <1>2, RowSetEmpty
<1>10. EndedOK'
  <2>1. \A r \in Seqs : ends[r] # 0 /\ r \in Range(shown') => view'[ends[r]] = 0
    <3>1. \A r \in Seqs : ends[r] # 0 /\ r \in Range(shown) => None[ends[r]] = 0
      BY <1>0, <1>3 DEF EndedOK
    <3> QED BY <1>7, <1>8, <3>1
  <2>2. \A r \in Seqs : Untold(buffer', 0, ends[r])
    BY <1>9 DEF Untold
  <2> QED BY <1>0, <1>1, <1>2, <1>7, <1>9, <2>1, <2>2, HeardEnds
<1>11. NoneYet'
  BY <1>2 DEF NoneYet
<1>q. \A i \in 1..Len(wire') : wire'[i].kind \in Spoken
  <2>1. PICK c \in 1..Len(wire) : Comes(c) /\ c = 1
    BY <1>0, <1>1, HeadIs
  <2>2. \A i \in 1..Len(wire') : i + 1 \in 1..Len(wire) /\ wire'[i] = wire[i + 1] /\ i + 1 > 1
    <3>1. \A i \in 1..Len(wire') : i + 1 > 1
      OBVIOUS
    <3> QED BY <1>0, <1>1, <1>2, <3>1, RestIs
  <2> QED BY <2>1, <2>2 DEF Comes
<1>12. SaidOK'
  <2> SUFFICES ASSUME live # 0 PROVE said = view'[live] + Pieces(wire', live)
    <3>1. \A i \in 1..Len(wire') : ~SnapOf(wire'[i], live)
      BY <1>q DEF SnapOf, Spoken
    <3> QED BY <1>2, <1>9, <3>1 DEF SaidOK
  <2>1. ~PieceOf(wire[1], live) /\ ~SnapOf(wire[1], live)
    BY <1>1 DEF PieceOf, SnapOf
  <2>2. Pieces(wire', live) = Pieces(wire, live) /\ Pieces(wire', live) \in Nat
    BY <1>0, <1>1, <1>2, <2>1, SaidTail
  <2>3. live \in Answers /\ Len(buffer) \in Nat
    BY <1>0, <1>5, AnswersTyped
  <2>4. ASSUME NEW i \in 1..Len(buffer), SnapOf(buffer[i], live) PROVE said = view'[live] + Pieces(wire', live)
    <3>1. i = Len(buffer) /\ i # 0
      BY <1>0, <2>4 DEF StreamOK, BufferOK, SnapOf
    <3>2. view'[live] = buffer[i].said
      BY <1>8, <2>3, <2>4, <3>1 DEF Writes, SnapOf
    <3>3. said = buffer[i].said + Pieces(wire, live)
      BY <1>0, <1>1, <2>4 DEF SaidOK
    <3> QED BY <2>2, <3>2, <3>3
  <2>5. ASSUME \A i \in 1..Len(buffer) : ~SnapOf(buffer[i], live) PROVE said = view'[live] + Pieces(wire', live)
    <3>1. \A i \in 1..Len(buffer) : ~Tells(buffer[i], live)
      BY <1>0, <2>5 DEF StreamOK, BufferOK, SnapOf, Tells
    <3>2. view'[live] = 0
      BY <1>8, <2>3, <3>1, NoneIs DEF Writes
    <3>3. \A i \in 1..Len(wire') : ~SnapOf(wire'[i], live)
      BY <1>q DEF SnapOf, Spoken
    <3>4. \A i \in 1..Len(wire) : ~SnapOf(wire[i], live)
      BY <1>0, <1>1, <1>2, <2>1, <3>3, SaidTail
    <3>5. said = Pieces(wire, live)
      BY <1>0, <1>1, <2>5, <3>4 DEF SaidOK
    <3> QED BY <2>2, <3>2, <3>5
  <2> QED BY <2>4, <2>5
<1>13. Agree(buffer', ends, answers)
  BY <1>9 DEF Agree
<1> QED BY <1>0, <1>1, <1>2, <1>8, <1>10, <1>11, <1>12, <1>13, HeardAnswer

\* Every step keeps what is shown and on its way to what was said.
LEMMA AnswerStep == ASSUME CourseOK, AnswerOK, [Next]_vars PROVE AnswerOK'
<1>1. CASE Speech
  <2>1. Types
    BY DEF CourseOK
  <2> QED BY <1>1, <2>1, SpeechAnswering, SpeechAnswer
<1>2. CASE PiGone
  <2>1. live' = 0 /\ said' = 0 /\ UNCHANGED <<answers, store, server, wire, reader>>
    BY <1>2 DEF PiGone
  <2> QED BY <2>1 DEF store, server, reader, AnswerOK, AnswersT, EndsOK, EndedOK, NoneYet, None, SaidOK
<1>3. CASE ReplayPage \/ OlderAnswered \/ HearOlder \/ UNCHANGED vars
  <2>1. UNCHANGED <<ends, live, said, answers, stream, wire, waiting, gathering, buffer, shown, view>>
    BY <1>3 DEF ReplayPage, OlderAnswered, HearOlder, vars, store, writer, server, reader
  <2> QED BY <2>1 DEF AnswerOK, AnswersT, EndsOK, EndedOK, NoneYet, None, SaidOK
<1>4. CASE HearReload
  <2>1. ReadAgain /\ UNCHANGED <<ends, live, answers>>
    BY <1>4 DEF HearReload, store, writer
  <2> QED BY <2>1, AgainAnswer
<1>5. CASE HearEvent
  BY <1>5, GatherAnswer, ShowAnswer
<1> QED BY <1>1, <1>2, <1>3, <1>4, <1>5, Steps, ConnectAnswer, ReplayRowAnswer, LiveAnswer, ReloadsAnswer, RemovedAnswer,
           CaughtUpAnswer, CutAnswer

\* No answer is being written at first.
LEMMA AnswerInit == ASSUME Init PROVE AnswerOK
<1>1. /\ wire = <<>> /\ waiting = <<>> /\ buffer = <<>> /\ shown = <<>> /\ ~gathering /\ stream = "off"
      /\ live = 0 /\ answers = 0 /\ ends = [r \in Seqs |-> 0] /\ view = None
  BY DEF Init, None
<1>2. Len(wire) = 0 /\ Len(waiting) = 0 /\ Len(buffer) = 0
  BY <1>1
<1>3. AnswersT /\ \A b \in Answers : view[b] = 0
  BY <1>1, NoneIs, EventStreamAssumption DEF AnswersT
<1>4. \A r \in Seqs : ends[r] = 0
  BY <1>1
<1>5. EndsOK
  BY <1>1, <1>2, <1>3 DEF EndsOK, Agree
<1> QED BY <1>1, <1>3, <1>4, <1>5 DEF AnswerOK, EndedOK, NoneYet, SaidOK

\* What is shown and on its way is what was said, throughout.
LEMMA AnswerAlways == Spec => [](CourseOK /\ AnswerOK)
BY CourseInit, CourseStep, AnswerInit, AnswerStep, PTL DEF Spec

\* A reader nothing is on its way to shows all that was said of the answer.
LEMMA AnswerShown == ASSUME CourseOK, AnswerOK PROVE ShowsTheAnswer
<1>0. Types /\ StreamOK /\ AnswersT /\ EndedOK /\ SaidOK
  BY DEF CourseOK, AnswerOK
<1>1. ASSUME Quiet, live # 0 PROVE view[live] = said
  <2>1. stream = "live" /\ wire = <<>> /\ Len(wire) = 0
    BY <1>1 DEF Quiet
  <2>2. ~gathering
    BY <1>0, <2>1 DEF StreamOK, CaughtOK
  <2>3. Pieces(wire, live) = 0
    <3>1. wire \in Seq(Messages(last))
      BY <1>0, OrderTyped
    <3>2. \A i \in 1..Len(wire) : ~PieceOf(wire[i], live)
      BY <2>1
    <3> QED BY <3>1, <3>2, PiecesFinite
  <2>4. view[live] \in Nat
    BY <1>0, <1>1, AnswersTyped
  <2> QED BY <1>0, <1>1, <2>1, <2>2, <2>3, <2>4 DEF SaidOK
<1>2. ASSUME NEW i \in DOMAIN shown, ends[shown[i]] # 0 PROVE view[ends[shown[i]]] = 0
  <2>1. shown \in Seq(1..last) /\ 1..last \subseteq Seqs
    BY <1>0, OrderTyped, AnswersTyped
  <2>2. /\ Range(shown) \subseteq 1..last /\ DOMAIN shown = 1..Len(shown)
        /\ \A x : x \in Range(shown) <=> \E k \in 1..Len(shown) : shown[k] = x
    BY <2>1, RangeIs
  <2>3. shown[i] \in Range(shown)
    BY <1>2, <2>2
  <2>4. shown[i] \in Seqs
    BY <2>1, <2>2, <2>3
  <2> QED BY <1>0, <1>2, <2>3, <2>4 DEF EndedOK
<1> QED BY <1>1, <1>2 DEF ShowsTheAnswer

\* What a reader that nothing is on its way to shows of the answer that is being written
\* is as far as it has come, whenever its stream was cut off, its replay ended and pi
\* died: no piece missed, none said twice; and an answer that has ended is not shown
\* as being written, ever (IN_SNAPSHOT, live-reset, LiveEvents).
THEOREM AnswerAsSaid == Spec => []ShowsTheAnswer
BY AnswerAlways, AnswerShown, PTL
=============================================================================
