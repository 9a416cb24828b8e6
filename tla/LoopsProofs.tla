------------------------------ MODULE LoopsProofs ------------------------------
(***************************************************************************)
(* What loops over a slice compute, for slices of every length.  The       *)
(* induction theorems of the library take a predicate as a parameter; here *)
(* induction is a fact about sets of numbers, which needs none.            *)
(***************************************************************************)
EXTENDS Loops, FiniteSetTheorems, WellFoundedInduction, TLAPS

(* A set of numbers with an element has a least one. *)
LEMMA LeastNumber ==
  ASSUME NEW T \in SUBSET Nat, T # {}
  PROVE  \E m \in T : \A n \in T : m <= n
<1>1. \E m \in T : \A n \in T : ~(<<n, m>> \in OpToRel(<, Nat))
  BY NatLessThanWellFounded, WFMin
<1>2. PICK m \in T : \A n \in T : ~(<<n, m>> \in OpToRel(<, Nat))
  BY <1>1
<1>3. \A n \in T : ~(n < m)
  BY <1>2 DEF OpToRel
<1> QED
  BY <1>3

(* Induction: a set of numbers with 0 and every successor has all numbers   *)
(* up to n.                                                                 *)
LEMMA Induction ==
  ASSUME NEW n \in Nat, NEW T, 0 \in T, \A i \in 0 .. n - 1 : i \in T => i + 1 \in T
  PROVE  0 .. n \subseteq T
<1> SUFFICES ASSUME (0 .. n) \ T # {}
             PROVE  FALSE
  OBVIOUS
<1> DEFINE R == (0 .. n) \ T
<1>1. PICK m \in R : \A i \in R : m <= i
  <2>1. R \in SUBSET Nat /\ R # {}
    OBVIOUS
  <2> HIDE DEF R
  <2> QED
    BY <2>1, LeastNumber
<1>2. m # 0 /\ m - 1 \in 0 .. n - 1 /\ m - 1 \in T
  BY <1>1
<1> QED
  BY <1>1, <1>2

(* A loop of n turns that starts with a and takes a value by Step to the    *)
(* next has a history: the function of its values after each turn.          *)
Runs(n, A, a, Step) ==
  {g \in [0 .. n -> A] : g[0] = a /\ \A i \in 1 .. n : g[i] = Step[i][g[i - 1]]}

LEMMA LoopRuns ==
  ASSUME NEW n \in Nat, NEW A, NEW a \in A, NEW Step,
         \A i \in 1 .. n : \A x \in A : Step[i][x] \in A
  PROVE  \E g : g \in Runs(n, A, a, Step)
<1> DEFINE T == {m \in 0 .. n : Runs(m, A, a, Step) # {}}
<1>1. 0 \in T
  <2>1. [i \in 0 .. 0 |-> a] \in Runs(0, A, a, Step)
    BY DEF Runs
  <2> QED
    BY <2>1
<1>2. ASSUME NEW m \in 0 .. n - 1, m \in T
      PROVE  m + 1 \in T
  <2>1. PICK g \in [0 .. m -> A] : g[0] = a /\ \A i \in 1 .. m : g[i] = Step[i][g[i - 1]]
    BY <1>2 DEF Runs
  <2> DEFINE h == [i \in 0 .. m + 1 |-> IF i = m + 1 THEN Step[m + 1][g[m]] ELSE g[i]]
  <2>2. m + 1 \in 1 .. n /\ g[m] \in A /\ Step[m + 1][g[m]] \in A
    BY <2>1
  <2>3. h \in [0 .. m + 1 -> A]
    BY <2>1, <2>2
  <2>4. h[0] = a
    BY <2>1
  <2>5. ASSUME NEW i \in 1 .. m + 1
        PROVE  h[i] = Step[i][h[i - 1]]
    <3>1. CASE i = m + 1
      BY <3>1
    <3>2. CASE i # m + 1
      BY <2>1, <3>2
    <3> QED
      BY <3>1, <3>2
  <2>6. h \in Runs(m + 1, A, a, Step)
    BY <2>3, <2>4, <2>5 DEF Runs
  <2> QED
    BY <2>6
<1> HIDE DEF T
<1>3. 0 .. n \subseteq T
  BY <1>1, <1>2, Induction
<1> QED
  BY <1>3 DEF T
------------------------------------------------------------------------------
(* The slice after each turn of the loop of Without. *)
IsLoop(slice, s, Skipped) ==
  slice = [i \in 0 .. Len(s) |->
             IF i = 0 THEN <<>>
             ELSE IF s[i] \in Skipped THEN slice[i - 1]
             ELSE Append(slice[i - 1], s[i])]

(* It is a function with these values. *)
LEMMA LoopTurns ==
  ASSUME NEW s, Len(s) \in Nat, NEW Skipped, NEW slice
  PROVE  IsLoop(slice, s, Skipped) <=>
           /\ slice = [i \in 0 .. Len(s) |-> slice[i]]
           /\ slice[0] = <<>>
           /\ \A i \in 1 .. Len(s) :
                slice[i] = IF s[i] \in Skipped THEN slice[i - 1]
                           ELSE Append(slice[i - 1], s[i])
<1> DEFINE Value(i) == IF i = 0 THEN <<>>
                       ELSE IF s[i] \in Skipped THEN slice[i - 1]
                       ELSE Append(slice[i - 1], s[i])
<1>1. IsLoop(slice, s, Skipped) <=> slice = [i \in 0 .. Len(s) |-> Value(i)]
  BY DEF IsLoop
<1>2. /\ Value(0) = <<>>
      /\ \A i \in 1 .. Len(s) :
           Value(i) = IF s[i] \in Skipped THEN slice[i - 1]
                      ELSE Append(slice[i - 1], s[i])
  OBVIOUS
<1>3. 0 .. Len(s) = {0} \cup 1 .. Len(s)
  OBVIOUS
<1> HIDE DEF Value
<1> QED
  BY <1>1, <1>2, <1>3

(* The recursive function in Without is one: such a function exists, and    *)
(* its values are slices of what is not skipped.                            *)
LEMMA WithoutLoops ==
  ASSUME NEW T, NEW s \in Seq(T), NEW Skipped
  PROVE  \E slice \in [0 .. Len(s) -> Seq(T \ Skipped)] :
           IsLoop(slice, s, Skipped) /\ Without(s, Skipped) = slice[Len(s)]
<1> DEFINE n == Len(s)
           A == Seq(T \ Skipped)
           Turn == [i \in 1 .. n |->
                      [x \in A |-> IF s[i] \in Skipped THEN x ELSE Append(x, s[i])]]
           Loop == CHOOSE slice : IsLoop(slice, s, Skipped)
<1>1. n \in Nat /\ <<>> \in A /\ \A i \in 1 .. n : s[i] \in T
  OBVIOUS
<1>2. \E slice : IsLoop(slice, s, Skipped)
  <2>1. \A i \in 1 .. n : \A x \in A : Turn[i][x] \in A
    <3>1. ASSUME NEW i \in 1 .. n, NEW x \in A
          PROVE  (IF s[i] \in Skipped THEN x ELSE Append(x, s[i])) \in A
      BY <1>1
    <3> QED
      BY <3>1
  <2> HIDE DEF n, A, Turn
  <2>2. PICK g \in [0 .. n -> A] :
          g[0] = <<>> /\ \A i \in 1 .. n : g[i] = Turn[i][g[i - 1]]
    <3> DEFINE Nothing == <<>>
    <3>1. n \in Nat /\ Nothing \in A
      BY <1>1
    <3> HIDE DEF Nothing
    <3>2. \E g : g \in Runs(n, A, Nothing, Turn)
      BY <2>1, <3>1, LoopRuns
    <3> QED
      BY <3>2 DEF Nothing, Runs
  <2>3. ASSUME NEW i \in 1 .. n
        PROVE  g[i] = IF s[i] \in Skipped THEN g[i - 1] ELSE Append(g[i - 1], s[i])
    <3>1. g[i - 1] \in A
      BY <1>1, <2>2
    <3> QED
      BY <2>2, <3>1 DEF Turn
  <2>4. IsLoop(g, s, Skipped)
    <3>1. g = [i \in 0 .. Len(s) |-> g[i]]
      BY <2>2 DEF n
    <3> QED
      BY <1>1, <2>2, <2>3, <3>1, LoopTurns DEF n
  <2> QED
    BY <2>4
<1>3. IsLoop(Loop, s, Skipped)
  BY <1>2
<1>4. Without(s, Skipped) = Loop[n]
  BY DEF Without, IsLoop
<1> HIDE DEF Loop
<1>5. Loop[0] = <<>> /\ \A i \in 1 .. n :
        Loop[i] = IF s[i] \in Skipped THEN Loop[i - 1] ELSE Append(Loop[i - 1], s[i])
  BY <1>1, <1>3, LoopTurns
<1>6. \A i \in 0 .. n : Loop[i] \in A
  <2>0. ASSUME NEW x \in A, NEW i \in 1 .. n
        PROVE  Append(x, s[i]) \in A \/ s[i] \in Skipped
    BY <1>1, <2>0
  <2> DEFINE R == {i \in 0 .. n : Loop[i] \in A}
  <2> HIDE DEF n, A
  <2>1. 0 \in R
    BY <1>1, <1>5
  <2>2. ASSUME NEW i \in 0 .. n - 1, i \in R
        PROVE  i + 1 \in R
    <3>1. Loop[i + 1] \in A
      <4>1. i + 1 \in 1 .. n /\ (i + 1) - 1 = i /\ Loop[i] \in A
        BY <1>1, <2>2
      <4> QED
        BY <1>5, <2>0, <4>1
    <3> QED
      BY <1>1, <3>1
  <2> HIDE DEF R
  <2>3. 0 .. n \subseteq R
    BY <1>1, <2>1, <2>2, Induction
  <2> QED
    BY <2>3 DEF R
<1>7. Loop \in [0 .. n -> A]
  BY <1>1, <1>3, <1>6, LoopTurns
<1> QED
  BY <1>3, <1>4, <1>7
------------------------------------------------------------------------------
(* The positions up to i of the elements of s that are kept. *)
Kept(s, Skipped, i) == {j \in 1 .. Len(s) : j <= i /\ s[j] \notin Skipped}

(* The number of kept positions grows by one with every kept element.       *)
LEMMA KeptGrows ==
  ASSUME NEW T, NEW s \in Seq(T), NEW Skipped
  PROVE  /\ Cardinality(Kept(s, Skipped, 0)) = 0
         /\ \A i \in 0 .. Len(s) : Cardinality(Kept(s, Skipped, i)) \in Nat
         /\ \A i \in 1 .. Len(s) :
              Cardinality(Kept(s, Skipped, i)) =
                IF s[i] \in Skipped THEN Cardinality(Kept(s, Skipped, i - 1))
                ELSE Cardinality(Kept(s, Skipped, i - 1)) + 1
<1>1. Len(s) \in Nat
  OBVIOUS
<1>2. \A i \in 0 .. Len(s) : IsFiniteSet(Kept(s, Skipped, i))
  <2>1. IsFiniteSet(1 .. Len(s))
    BY <1>1, FS_Interval
  <2>2. \A i : Kept(s, Skipped, i) \subseteq 1 .. Len(s)
    BY DEF Kept
  <2> QED
    BY <2>1, <2>2, FS_Subset
<1>3. Kept(s, Skipped, 0) = {}
  BY <1>1 DEF Kept
<1>4. ASSUME NEW i \in 1 .. Len(s)
      PROVE  Cardinality(Kept(s, Skipped, i)) =
               IF s[i] \in Skipped THEN Cardinality(Kept(s, Skipped, i - 1))
               ELSE Cardinality(Kept(s, Skipped, i - 1)) + 1
  <2>1. CASE s[i] \in Skipped
    <3>1. Kept(s, Skipped, i) = Kept(s, Skipped, i - 1)
      BY <1>1, <2>1 DEF Kept
    <3> QED
      BY <2>1, <3>1
  <2>2. CASE s[i] \notin Skipped
    <3>1. Kept(s, Skipped, i) = Kept(s, Skipped, i - 1) \cup {i}
      BY <1>1, <2>2 DEF Kept
    <3>2. i \notin Kept(s, Skipped, i - 1) /\ i - 1 \in 0 .. Len(s)
      BY <1>1 DEF Kept
    <3> QED
      BY <1>2, <2>2, <3>1, <3>2, FS_AddElement
  <2> QED
    BY <2>1, <2>2
<1> QED
  BY <1>2, <1>3, <1>4, FS_EmptySet, FS_CardinalityType

(* What the loop returns for a slice of any length: the elements that are   *)
(* not skipped, each at the position that counts the kept ones up to it,    *)
(* and nothing else (util.go:119-137, discover.go:199-204,                  *)
(* discover.go:258-295).                                                    *)
THEOREM WithoutKeeps ==
  ASSUME NEW T, NEW s \in Seq(T), NEW Skipped
  PROVE  /\ Without(s, Skipped) \in Seq(T \ Skipped)
         /\ Len(Without(s, Skipped)) = Cardinality(Kept(s, Skipped, Len(s)))
         /\ \A i \in 1 .. Len(s) :
              s[i] \notin Skipped =>
                /\ Cardinality(Kept(s, Skipped, i)) \in 1 .. Len(Without(s, Skipped))
                /\ Without(s, Skipped)[Cardinality(Kept(s, Skipped, i))] = s[i]
<1> DEFINE n == Len(s)
           Count(i) == Cardinality(Kept(s, Skipped, i))
<1>1. n \in Nat
  OBVIOUS
<1>2. PICK slice \in [0 .. n -> Seq(T \ Skipped)] :
        IsLoop(slice, s, Skipped) /\ Without(s, Skipped) = slice[n]
  BY WithoutLoops
<1>3. /\ slice[0] = <<>>
      /\ \A i \in 1 .. n : slice[i] = IF s[i] \in Skipped THEN slice[i - 1]
                                      ELSE Append(slice[i - 1], s[i])
  BY <1>1, <1>2, LoopTurns
<1>4. /\ Count(0) = 0 /\ \A i \in 0 .. n : Count(i) \in Nat
      /\ \A i \in 1 .. n : Count(i) = IF s[i] \in Skipped THEN Count(i - 1) ELSE Count(i - 1) + 1
  BY KeptGrows
<1> DEFINE Right(i) ==
             /\ Len(slice[i]) = Count(i)
             /\ \A k \in 1 .. i : s[k] \notin Skipped =>
                                    /\ Count(k) \in 1 .. Count(i)
                                    /\ slice[i][Count(k)] = s[k]
           R == {i \in 0 .. n : Right(i)}
<1> HIDE DEF Count, n
<1>5. 0 \in R
  BY <1>1, <1>3, <1>4
<1>6. ASSUME NEW i \in 0 .. n - 1, i \in R
      PROVE  i + 1 \in R
  <2>1. /\ i \in 0 .. n /\ i + 1 \in 1 .. n /\ i + 1 \in 0 .. n /\ (i + 1) - 1 = i
        /\ i \in Nat
    BY <1>1
  <2>2. slice[i + 1] = (IF s[i + 1] \in Skipped THEN slice[i] ELSE Append(slice[i], s[i + 1]))
    BY <1>3, <2>1
  <2>3. Count(i + 1) = (IF s[i + 1] \in Skipped THEN Count(i) ELSE Count(i) + 1)
    BY <1>4, <2>1
  <2>4. slice[i] \in Seq(T \ Skipped) /\ Right(i) /\ Count(i) \in Nat
    BY <1>2, <1>4, <1>6, <2>1
  <2>5. Right(i + 1)
    <3>1. CASE s[i + 1] \in Skipped
      BY <2>1, <2>2, <2>3, <2>4, <3>1
    <3>2. CASE s[i + 1] \notin Skipped
      <4>1. /\ Len(slice[i + 1]) = Count(i) + 1 /\ slice[i + 1][Count(i) + 1] = s[i + 1]
            /\ \A k \in 1 .. Count(i) : slice[i + 1][k] = slice[i][k]
        <5>1. s[i + 1] \in T \ Skipped
          BY <2>1, <3>2 DEF n
        <5> QED
          BY <2>2, <2>4, <3>2, <5>1
      <4>2. ASSUME NEW k \in 1 .. i + 1, s[k] \notin Skipped
            PROVE  Count(k) \in 1 .. Count(i + 1) /\ slice[i + 1][Count(k)] = s[k]
        <5>1. CASE k = i + 1
          BY <2>3, <2>4, <3>2, <4>1, <5>1
        <5>2. CASE k # i + 1
          <6>1. k \in 1 .. i
            BY <2>1, <5>2
          <6>2. Count(k) \in 1 .. Count(i) /\ slice[i][Count(k)] = s[k]
            BY <2>4, <4>2, <6>1
          <6> QED
            BY <2>3, <2>4, <3>2, <4>1, <6>2
        <5> QED
          BY <5>1, <5>2
      <4> QED
        BY <2>3, <3>2, <4>1, <4>2
    <3> QED
      BY <3>1, <3>2
  <2> HIDE DEF Right
  <2> QED
    BY <2>1, <2>5
<1> HIDE DEF R
<1>7. 0 .. n \subseteq R
  BY <1>1, <1>5, <1>6, Induction
<1>8. Right(n)
  BY <1>1, <1>7 DEF R
<1> QED
  BY <1>1, <1>2, <1>8 DEF n, Count

(* Where Without puts one kept element. *)
LEMMA WithoutAt ==
  ASSUME NEW T, NEW s \in Seq(T), NEW Skipped, NEW i \in 1 .. Len(s), s[i] \notin Skipped
  PROVE  /\ Cardinality(Kept(s, Skipped, i)) \in 1 .. Len(Without(s, Skipped))
         /\ Without(s, Skipped)[Cardinality(Kept(s, Skipped, i))] = s[i]
BY WithoutKeeps
==============================================================================
