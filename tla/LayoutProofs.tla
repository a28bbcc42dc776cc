----------------------------- MODULE LayoutProofs -----------------------------
(***************************************************************************)
(* Lemmas about Layout and Place, for any graph in one piece, any heights  *)
(* and widths of its boxes, and any bounds of the loops.                   *)
(*                                                                         *)
(* Each loop of the code is a function on the number of its passes; it     *)
(* exists by RecursionExists, and what a pass keeps the loop keeps.        *)
(* Columns: a bump moves a node out, no column is skipped from the n-th    *)
(* on, so none is further than 2n, and after MaxPasses no edge is within a *)
(* column.  Sides: each part goes to one of them, and a swap takes away as *)
(* many edges between them as it gains.  Rows: a nudge moves a box and     *)
(* those in its way, and keeps the boxes of a column apart (Standing).     *)
(* Compacting: of the unused lines between two boxes one is left.          *)
(***************************************************************************)
EXTENDS Place, FiniteSetTheorems, SequenceTheorems, FunctionTheorems, TLAPS

(* Numbers, sequences and recursion *)

\* A set of natural numbers that is not empty has a least element.
LEMMA LeastNumber ==
  ASSUME NEW T \in SUBSET Nat, T # {}
  PROVE  \E x \in T : \A y \in T : x <= y
<1> DEFINE less == {ss \in Nat \X Nat : ss[1] < ss[2]}
<1>1. IsWellFoundedOn(less, Nat)
  BY NatLessThanWellFounded DEF OpToRel
<1>2. PICK x \in T : \A y \in T : <<y, x>> \notin less
  BY <1>1, WFMin
<1>3. ASSUME NEW y \in T PROVE x <= y
  <2>1. <<y, x>> \notin less
    BY <1>2
  <2> QED
    BY <2>1
<1> QED
  BY <1>3

\* A set of numbers up to n that has 0, and the successor of each of its
\* members, has all of them.
LEMMA AllNumbers ==
  ASSUME NEW n \in Nat, NEW S, 0 \in S, \A i \in 1..n : i - 1 \in S => i \in S
  PROVE  0..n \subseteq S
<1> DEFINE T == (0..n) \ S
<1> SUFFICES ASSUME T # {} PROVE FALSE
  OBVIOUS
<1>1. T \in SUBSET Nat
  OBVIOUS
<1>2. PICK x \in T : \A y \in T : x <= y
  <2> HIDE DEF T
  <2> QED
    BY <1>1, LeastNumber
<1>3. x \in 1..n /\ x \notin S
  BY <1>2
<1>4. x - 1 \in 0..n /\ x - 1 \notin T
  BY <1>2, <1>3
<1> QED
  BY <1>3, <1>4

\* The function on 0..n that step defines, which takes a number and the value
\* of the one before it.
Recurs(G, n, first, step) == G[0] = first /\ \A i \in 1..n : G[i] = step[i][G[i - 1]]

\* What is defined by recursion up to n exists.
LEMMA RecursionExists ==
  ASSUME NEW n \in Nat, NEW V, NEW first \in V, NEW step \in [1..n -> [V -> V]]
  PROVE  \E G \in [0..n -> V] : Recurs(G, n, first, step)
<1> DEFINE Good(m, G) == G[0] = first /\ \A i \in 1..m : G[i] = step[i][G[i - 1]]
           S == {m \in 0..n : \E G \in [0..m -> V] : Good(m, G)}
<1>1. 0 \in S
  <2> DEFINE G == [i \in 0..0 |-> first]
  <2>1. G \in [0..0 -> V] /\ Good(0, G) /\ 0 \in 0..n
    OBVIOUS
  <2> QED
    BY <2>1
<1>2. ASSUME NEW x \in 1..n, x - 1 \in S PROVE x \in S
  <2>1. PICK G \in [0..(x - 1) -> V] : Good(x - 1, G)
    BY <1>2
  <2> DEFINE H == [i \in 0..x |-> IF i = x THEN step[x][G[x - 1]] ELSE G[i]]
  <2>2. G[x - 1] \in V /\ step[x][G[x - 1]] \in V
    <3>1. x - 1 \in 0..(x - 1)
      OBVIOUS
    <3>2. G[x - 1] \in V
      BY <3>1
    <3> QED
      BY <3>2
  <2>3. H \in [0..x -> V]
    BY <2>2
  <2>4. H[0] = first
    BY <2>1
  <2>5. ASSUME NEW i \in 1..x PROVE H[i] = step[i][H[i - 1]]
    <3>1. H[i - 1] = G[i - 1]
      OBVIOUS
    <3>2. CASE i = x
      BY <3>1, <3>2
    <3>3. CASE i # x
      <4>1. i \in 1..(x - 1) /\ H[i] = G[i]
        BY <3>3
      <4> QED
        BY <2>1, <3>1, <4>1
    <3> QED
      BY <3>2, <3>3
  <2>6. Good(x, H) /\ x \in 0..n
    <3> HIDE DEF H
    <3> QED
      BY <2>4, <2>5
  <2> HIDE DEF H, Good
  <2> QED
    BY <2>3, <2>6
<1>3. 0..n \subseteq S
  <2> HIDE DEF S
  <2> QED
    BY <1>1, <1>2, AllNumbers
<1>4. n \in S
  <2> HIDE DEF S
  <2> QED
    BY <1>3
<1> QED
  BY <1>4 DEF Recurs

\* A function on 1..n that takes no value twice has n values.
LEMMA ValuesOf ==
  ASSUME NEW n \in Nat, NEW f, DOMAIN f = 1..n, f = [i \in 1..n |-> f[i]],
         \A i, j \in 1..n : f[i] = f[j] => i = j
  PROVE  Cardinality({f[i] : i \in 1..n}) = n
<1> DEFINE V == {f[i] : i \in 1..n}
<1>1. f \in Injection(1..n, V) /\ f \in Surjection(1..n, V)
  BY DEF Injection, Surjection, IsInjective
<1>2. IsFiniteSet(1..n) /\ Cardinality(1..n) = n
  <2>1. 1 \in Int /\ n \in Int
    OBVIOUS
  <2>2. IsFiniteSet(1..n) /\ Cardinality(1..n) = IF 1 > n THEN 0 ELSE n - 1 + 1
    BY <2>1, FS_Interval
  <2> QED
    BY <2>2
<1>3. ExistsBijection(1..n, V)
  BY <1>1 DEF ExistsBijection, Bijection
<1> QED
  BY <1>2, <1>3, FS_Bijection

\* A function on 1..n is a sequence of n elements.
LEMMA IsSequence ==
  ASSUME NEW S, NEW n \in Nat, NEW f \in [1..n -> S]
  PROVE  f \in Seq(S) /\ Len(f) = n /\ DOMAIN f = 1..n
<1>1. f \in Seq(S)
  BY SeqDef
<1>2. DOMAIN f = 1..n /\ DOMAIN f = 1..Len(f) /\ Len(f) \in Nat
  BY <1>1, LenProperties
<1> QED
  BY <1>1, <1>2

\* What is appended comes after what was there.
LEMMA Appended ==
  ASSUME NEW S, NEW s \in Seq(S), NEW e \in S
  PROVE  /\ Append(s, e) \in Seq(S) /\ Len(s) \in Nat /\ Len(Append(s, e)) = Len(s) + 1
         /\ \A i \in 1..Len(s) : Append(s, e)[i] = s[i]
         /\ Append(s, e)[Len(s) + 1] = e
BY AppendProperties, LenProperties

\* What is taken from a sequence is its first, and the others move up.
LEMMA Taken ==
  ASSUME NEW S, NEW s \in Seq(S), s # <<>>
  PROVE  /\ Head(s) = s[1] /\ Tail(s) \in Seq(S) /\ Len(s) \in Nat \ {0}
         /\ Len(Tail(s)) = Len(s) - 1
         /\ \A i \in 1..(Len(s) - 1) : Tail(s)[i] = s[i + 1]
BY HeadTailProperties, EmptySeq
-----------------------------------------------------------------------------
(* Sets in order, sums, the least and the greatest *)

\* Before or after: of two members of a set one comes first.
IsOrder(S, before) ==
  /\ \A x \in S : <<x, x>> \notin before
  /\ \A x, y, z \in S : <<x, y>> \in before /\ <<y, z>> \in before => <<x, z>> \in before
  /\ \A x, y \in S : x = y \/ <<x, y>> \in before \/ <<y, x>> \in before

\* A sequence that has each member of a finite set once.
Lists(s, S) ==
  /\ IsFiniteSet(S) /\ Cardinality(S) \in Nat
  /\ s \in [1..Cardinality(S) -> S] /\ s \in Seq(S) /\ Len(s) = Cardinality(S)
  /\ \A i, j \in 1..Cardinality(S) : s[i] = s[j] => i = j
  /\ \A x \in S : \E i \in 1..Cardinality(S) : s[i] = x

\* A number of elements: those in the finite set that come before one of it.
LEMMA RanksDiffer ==
  ASSUME NEW S, IsFiniteSet(S), NEW before, IsOrder(S, before)
  PROVE  LET rank(x) == Cardinality({y \in S : <<y, x>> \in before})
         IN  /\ \A x \in S : rank(x) \in 0..(Cardinality(S) - 1)
             /\ \A x, y \in S : <<x, y>> \in before => rank(x) < rank(y)
<1> DEFINE ahead(x) == {y \in S : <<y, x>> \in before}
           rank(x) == Cardinality(ahead(x))
<1>1. \A x \in S : IsFiniteSet(ahead(x)) /\ rank(x) \in Nat
  BY FS_Subset, FS_CardinalityType
<1>2. Cardinality(S) \in Nat
  BY FS_CardinalityType
<1>3. ASSUME NEW x \in S PROVE rank(x) \in 0..(Cardinality(S) - 1)
  <2>1. x \notin ahead(x)
    BY DEF IsOrder
  <2>2. ahead(x) \in SUBSET (S \ {x})
    BY <2>1
  <2>3. IsFiniteSet(S \ {x}) /\ Cardinality(S \ {x}) = Cardinality(S) - 1
    BY FS_RemoveElement
  <2>4. rank(x) <= Cardinality(S \ {x})
    <3> HIDE DEF ahead
    <3> QED
      BY <2>2, <2>3, FS_Subset
  <2> HIDE DEF rank, ahead
  <2> QED
    BY <1>1, <1>2, <2>3, <2>4
<1>4. ASSUME NEW x \in S, NEW y \in S, <<x, y>> \in before PROVE rank(x) < rank(y)
  <2>1. x \in ahead(y) /\ x \notin ahead(x) /\ ahead(x) \subseteq ahead(y)
    BY <1>4 DEF IsOrder
  <2>2. rank(x) <= rank(y) /\ (rank(y) = rank(x) => ahead(y) = ahead(x))
    <3> HIDE DEF ahead
    <3> QED
      BY <1>1, <2>1, FS_Subset
  <2>3. rank(x) # rank(y)
    BY <2>1, <2>2
  <2>4. rank(x) \in Nat /\ rank(y) \in Nat
    BY <1>1
  <2> HIDE DEF rank, ahead
  <2> QED
    BY <2>2, <2>3, <2>4
<1> QED
  BY <1>3, <1>4

\* A finite set in an order is listed in it.
LEMMA SortedFacts ==
  ASSUME NEW S, IsFiniteSet(S), NEW before, IsOrder(S, before)
  PROVE  /\ Lists(Sorted(S, before), S)
         /\ \A i, j \in 1..Cardinality(S) :
              i < j => <<Sorted(S, before)[i], Sorted(S, before)[j]>> \in before
<1> DEFINE n == Cardinality(S)
           rank(x) == Cardinality({y \in S : <<y, x>> \in before})
           f == [x \in S |-> rank(x) + 1]
           s == Sorted(S, before)
<1>1. n \in Nat
  BY FS_CardinalityType
<1>2. /\ \A x \in S : rank(x) \in 0..(n - 1)
      /\ \A x, y \in S : <<x, y>> \in before => rank(x) < rank(y)
  BY RanksDiffer
<1>3. s = [i \in 1..n |-> CHOOSE x \in S : rank(x) = i - 1]
  BY DEF Sorted
<1> HIDE DEF rank, n, s
<1>4. f \in [S -> 1..n]
  BY <1>1, <1>2
<1>5. \A x, y \in S : f[x] = f[y] => x = y
  <2> SUFFICES ASSUME NEW x \in S, NEW y \in S, f[x] = f[y], x # y PROVE FALSE
    OBVIOUS
  <2>1. rank(x) = rank(y) /\ rank(x) \in Int /\ rank(y) \in Int
    BY <1>1, <1>2
  <2>2. <<x, y>> \in before \/ <<y, x>> \in before
    BY DEF IsOrder
  <2> QED
    BY <1>2, <2>1, <2>2
<1>6. f \in Injection(S, 1..n)
  <2> HIDE DEF f
  <2> QED
    BY <1>4, <1>5, Fun_IsInj
<1>7. IsFiniteSet(1..n) /\ Cardinality(1..n) = n
  <2>1. 1 \in Int /\ n \in Int
    BY <1>1
  <2>2. IsFiniteSet(1..n) /\ Cardinality(1..n) = IF 1 > n THEN 0 ELSE n - 1 + 1
    BY <2>1, FS_Interval
  <2> QED
    BY <1>1, <2>2
<1>8. f \in Surjection(S, 1..n)
  <2> HIDE DEF f
  <2> QED
    BY <1>6, <1>7, FS_Injection DEF n
<1>9. \A i \in 1..n : \E x \in S : f[x] = i
  <2> HIDE DEF f
  <2> QED
    BY <1>8, Fun_SurjectionProperties
<1>10. \A i \in 1..n : \E x \in S : rank(x) = i - 1
  <2> SUFFICES ASSUME NEW i \in 1..n PROVE \E x \in S : rank(x) = i - 1
    OBVIOUS
  <2>1. PICK x \in S : f[x] = i
    BY <1>9
  <2>2. rank(x) + 1 = i /\ rank(x) \in Int
    BY <1>1, <1>2, <2>1
  <2> QED
    BY <1>1, <2>2
<1>11. \A i \in 1..n : s[i] \in S /\ rank(s[i]) = i - 1
  BY <1>3, <1>10
<1>12. s \in [1..n -> S]
  BY <1>3, <1>11
<1>13. \A i, j \in 1..n : s[i] = s[j] => i = j
  <2> SUFFICES ASSUME NEW i \in 1..n, NEW j \in 1..n, s[i] = s[j] PROVE i = j
    OBVIOUS
  <2>1. i - 1 = j - 1
    BY <1>11
  <2> QED
    BY <1>1, <2>1
<1>14. ASSUME NEW x \in S PROVE \E i \in 1..n : s[i] = x
  <2>1. rank(x) + 1 \in 1..n
    BY <1>1, <1>2
  <2>2. rank(s[rank(x) + 1]) = rank(x) /\ s[rank(x) + 1] \in S
    <3>1. rank(x) \in Int
      BY <1>1, <1>2
    <3>2. rank(x) + 1 - 1 = rank(x)
      BY <3>1
    <3> DEFINE i == rank(x) + 1
    <3>3. i \in 1..n /\ i - 1 = rank(x)
      BY <2>1, <3>1
    <3> HIDE DEF i
    <3>4. s[i] \in S /\ rank(s[i]) = i - 1
      BY <1>11, <3>3
    <3> QED
      BY <3>3, <3>4 DEF i
  <2>3. s[rank(x) + 1] = x
    <3> DEFINE y == s[rank(x) + 1]
    <3>1. f[y] = f[x] /\ y \in S
      BY <2>2
    <3> HIDE DEF f, y
    <3>2. y = x
      BY <1>5, <3>1
    <3> QED
      BY <3>2 DEF y
  <2> QED
    BY <2>1, <2>3
<1>15. ASSUME NEW i \in 1..n, NEW j \in 1..n, i < j PROVE <<s[i], s[j]>> \in before
  <2>1. s[i] # s[j] /\ s[i] \in S /\ s[j] \in S /\ rank(s[i]) = i - 1 /\ rank(s[j]) = j - 1
    BY <1>1, <1>11, <1>13, <1>15
  <2>2. \/ <<s[i], s[j]>> \in before
        \/ <<s[j], s[i]>> \in before /\ j - 1 < i - 1
    BY <1>2, <2>1 DEF IsOrder
  <2> QED
    BY <1>1, <1>15, <2>2
<1>16. s \in Seq(S) /\ Len(s) = n
  BY <1>1, <1>12, IsSequence
<1> QED
  BY <1>1, <1>12, <1>13, <1>14, <1>15, <1>16 DEF Lists, n, s

\* Numbers ascend.
LEMMA AscendingFacts ==
  ASSUME NEW S \in SUBSET Int, IsFiniteSet(S)
  PROVE  /\ Lists(Ascending(S), S)
         /\ \A i, j \in 1..Cardinality(S) : i < j => Ascending(S)[i] < Ascending(S)[j]
<1> DEFINE before == {p \in S \X S : p[1] < p[2]}
<1>1. IsOrder(S, before)
  BY DEF IsOrder
<1>2. Ascending(S) = Sorted(S, before)
  BY DEF Ascending
<1>3. /\ Lists(Sorted(S, before), S)
      /\ \A i, j \in 1..Cardinality(S) :
           i < j => <<Sorted(S, before)[i], Sorted(S, before)[j]>> \in before
  <2> HIDE DEF before
  <2> QED
    BY <1>1, SortedFacts
<1> QED
  BY <1>2, <1>3

\* Where a member is.
LEMMA PositionFacts ==
  ASSUME NEW S, NEW s, Lists(s, S)
  PROVE  /\ DOMAIN s = 1..Cardinality(S) /\ Range(s) = S
         /\ \A x \in S : PositionIn(s, x) \in 1..Cardinality(S) /\ s[PositionIn(s, x)] = x
         /\ \A i \in 1..Cardinality(S) : PositionIn(s, s[i]) = i
<1>1. DOMAIN s = 1..Cardinality(S)
  BY DEF Lists
<1>2. ASSUME NEW x \in S PROVE PositionIn(s, x) \in 1..Cardinality(S) /\ s[PositionIn(s, x)] = x
  BY <1>1 DEF Lists, PositionIn
<1>3. ASSUME NEW i \in 1..Cardinality(S) PROVE PositionIn(s, s[i]) = i
  <2>1. s[i] \in S
    BY DEF Lists
  <2> QED
    BY <1>2, <2>1 DEF Lists
<1> QED
  BY <1>1, <1>2, <1>3 DEF Lists, Range

\* What each step of a recursion keeps, all of it has.
LEMMA RecursionKeeps ==
  ASSUME NEW n \in Nat, NEW V, NEW F, F[0] \in V, \A k \in 1..n : F[k - 1] \in V => F[k] \in V
  PROVE  \A k \in 0..n : F[k] \in V
<1> DEFINE S == {k \in 0..n : F[k] \in V}
<1>1. 0 \in S /\ \A k \in 1..n : k - 1 \in S => k \in S
  OBVIOUS
<1>2. 0..n \subseteq S
  <2> HIDE DEF S
  <2> QED
    BY <1>1, AllNumbers
<1> QED
  BY <1>2

\* The sums of a sequence of integers: each adds its number to the one before.
LEMMA SumsFacts ==
  ASSUME NEW s \in Seq(Int)
  PROVE  /\ Sums(s)[0] = 0
         /\ \A k \in 1..Len(s) : Sums(s)[k] = Sums(s)[k - 1] + s[k]
         /\ \A k \in 0..Len(s) : Sums(s)[k] \in Int
<1> DEFINE n == Len(s)
           body(G, k) == IF k = 0 THEN 0 ELSE G[k - 1] + s[k]
           F == CHOOSE G : G = [k \in 0..n |-> body(G, k)]
           step == [k \in 1..n |-> [a \in Int |-> a + s[k]]]
<1>1. n \in Nat /\ \A k \in 1..n : s[k] \in Int
  BY LenProperties, ElementOfSeq
<1>2. Sums(s) = F
  BY DEF Sums
<1> HIDE DEF n
<1>3. \E G : G = [k \in 0..n |-> body(G, k)]
  <2>1. step \in [1..n -> [Int -> Int]]
    BY <1>1
  <2>2. \E G \in [0..n -> Int] : Recurs(G, n, 0, step)
    <3> DEFINE V == Int
               first == 0
    <3>1. first \in V /\ step \in [1..n -> [V -> V]]
      BY <2>1
    <3> HIDE DEF V, first, step
    <3>2. \E G \in [0..n -> V] : Recurs(G, n, first, step)
      BY <1>1, <3>1, RecursionExists
    <3> QED
      BY <3>2 DEF V, first
  <2>3. PICK G \in [0..n -> Int] : G[0] = 0 /\ \A k \in 1..n : G[k] = step[k][G[k - 1]]
    BY <2>2 DEF Recurs
  <2>4. ASSUME NEW k \in 0..n PROVE G[k] = body(G, k)
    <3>1. CASE k = 0
      BY <2>3, <3>1
    <3>2. CASE k # 0
      <4>1. k \in 1..n /\ k - 1 \in 0..n
        BY <1>1, <3>2
      <4>2. G[k - 1] \in Int
        BY <2>3, <4>1
      <4> QED
        BY <2>3, <3>2, <4>1, <4>2
    <3> QED
      BY <3>1, <3>2
  <2>5. G = [k \in 0..n |-> body(G, k)]
    <3> HIDE DEF body
    <3> QED
      BY <2>3, <2>4
  <2> QED
    BY <2>5
<1>4. F = [k \in 0..n |-> body(F, k)]
  <2> HIDE DEF body
  <2> QED
    BY <1>3
<1> HIDE DEF F
<1>5. \A k \in 0..n : F[k] = body(F, k)
  <2> HIDE DEF body
  <2> QED
    BY <1>4
<1>6. F[0] = 0
  <2>1. 0 \in 0..n
    BY <1>1
  <2>2. F[0] = body(F, 0)
    BY <1>5, <2>1
  <2> QED
    BY <2>2
<1>7. ASSUME NEW k \in 1..n PROVE F[k] = F[k - 1] + s[k]
  <2>1. k \in 0..n /\ k # 0
    BY <1>1
  <2>2. F[k] = body(F, k)
    BY <1>5, <2>1
  <2> QED
    BY <2>1, <2>2
<1>8. \A k \in 1..n : F[k - 1] \in Int => F[k] \in Int
  BY <1>1, <1>7
<1>9. \A k \in 0..n : F[k] \in Int
  <2> DEFINE V == Int
  <2>1. F[0] \in V /\ \A k \in 1..n : F[k - 1] \in V => F[k] \in V
    BY <1>6, <1>8
  <2> HIDE DEF V
  <2>2. \A k \in 0..n : F[k] \in V
    BY <1>1, <2>1, RecursionKeeps
  <2> QED
    BY <2>2 DEF V
<1> QED
  BY <1>2, <1>6, <1>7, <1>9 DEF n

\* A sum of numbers is one.
LEMMA SumOverIsInt ==
  ASSUME NEW ids \in SUBSET Int, IsFiniteSet(ids), NEW f \in [ids -> Int]
  PROVE  SumOver(f, ids) \in Int
<1> DEFINE n == Cardinality(ids)
           s == [i \in 1..n |-> f[Ascending(ids)[i]]]
<1>1. n \in Nat /\ \A i \in 1..n : Ascending(ids)[i] \in ids
  BY AscendingFacts DEF Lists
<1> HIDE DEF n
<1>2. s \in [1..n -> Int]
  BY <1>1
<1>3. s \in Seq(Int) /\ Len(s) = n
  <2> HIDE DEF s
  <2> QED
    BY <1>1, <1>2, IsSequence
<1>4. \A k \in 0..Len(s) : Sums(s)[k] \in Int
  <2> HIDE DEF s
  <2> QED
    BY <1>3, SumsFacts
<1>5. Sums(s)[n] \in Int
  <2> HIDE DEF s
  <2> QED
    BY <1>1, <1>3, <1>4
<1>6. SumOver(f, ids) = Sums(s)[n]
  BY DEF SumOver, n
<1> QED
  BY <1>5, <1>6

\* The least and the greatest of a finite set of numbers.
LEMMA MinFacts ==
  ASSUME NEW S \in SUBSET Int, IsFiniteSet(S), S # {}
  PROVE  Min(S) \in S /\ \A x \in S : Min(S) <= x
<1> DEFINE s == Ascending(S)
<1>1. Lists(s, S) /\ \A i, j \in 1..Cardinality(S) : i < j => s[i] < s[j]
  BY AscendingFacts
<1>2. Cardinality(S) \in Nat \ {0}
  BY <1>1, FS_EmptySet DEF Lists
<1> HIDE DEF s
<1>3. s[1] \in S
  BY <1>1, <1>2 DEF Lists
<1>4. ASSUME NEW x \in S PROVE s[1] <= x
  <2>1. PICK i \in 1..Cardinality(S) : s[i] = x
    BY <1>1 DEF Lists
  <2>2. i = 1 \/ s[1] < s[i]
    BY <1>1, <1>2, <2>1
  <2>3. s[1] \in Int
    BY <1>3
  <2> QED
    BY <2>1, <2>2, <2>3
<1> QED
  BY <1>3, <1>4 DEF Min
\* The greatest of some integers.
LEMMA MaxFacts ==
  ASSUME NEW S \in SUBSET Int, IsFiniteSet(S), S # {}
  PROVE  Max(S) \in S /\ \A x \in S : Max(S) >= x
<1> DEFINE s == Ascending(S)
           n == Cardinality(S)
<1>1. Lists(s, S) /\ \A i, j \in 1..n : i < j => s[i] < s[j]
  BY AscendingFacts
<1>2. n \in Nat \ {0}
  BY <1>1, FS_EmptySet DEF Lists
<1> HIDE DEF s
<1>3. s[n] \in S
  BY <1>1, <1>2 DEF Lists
<1>4. ASSUME NEW x \in S PROVE s[n] >= x
  <2>1. PICK i \in 1..n : s[i] = x
    BY <1>1 DEF Lists
  <2> HIDE DEF n
  <2>2. i = n \/ s[i] < s[n]
    BY <1>1, <1>2, <2>1
  <2>3. s[n] \in Int
    BY <1>3
  <2> QED
    BY <2>1, <2>2, <2>3
<1> QED
  BY <1>3, <1>4 DEF Max

\* The numbers to n, and the members of a finite set by number.
LEMMA UpTo ==
  ASSUME NEW n \in Nat
  PROVE  IsFiniteSet(1..n) /\ Cardinality(1..n) = n /\ IsFiniteSet(0..n) /\ Cardinality(0..n) = n + 1
<1>1. 0 \in Int /\ 1 \in Int /\ n \in Int
  OBVIOUS
<1>2. IsFiniteSet(1..n) /\ Cardinality(1..n) = IF 1 > n THEN 0 ELSE n - 1 + 1
  BY <1>1, FS_Interval
<1>3. IsFiniteSet(0..n) /\ Cardinality(0..n) = IF 0 > n THEN 0 ELSE n - 0 + 1
  BY <1>1, FS_Interval
<1> QED
  BY <1>2, <1>3

\* What a function on a finite set takes is finite.
LEMMA FiniteRange ==
  ASSUME NEW S, IsFiniteSet(S), NEW f, DOMAIN f = S, f = [x \in S |-> f[x]]
  PROVE  IsFiniteSet(Range(f)) /\ Cardinality(Range(f)) <= Cardinality(S)
<1>1. f \in [S -> Range(f)] /\ \A t \in Range(f) : \E x \in S : f[x] = t
  BY DEF Range
<1>2. f \in Surjection(S, Range(f))
  BY <1>1, Fun_IsSurj
<1> QED
  BY <1>2, FS_Surjection
-----------------------------------------------------------------------------
(* The hub and the distance from it *)

\* A graph to lay out: its edges join two nodes each, and no set of nodes apart
\* from all and none is joined to no other.
Graph(n, edges) ==
  /\ n \in Nat \ {0} /\ Len(edges) \in Nat /\ DOMAIN edges = 1..Len(edges)
  /\ \A i \in 1..Len(edges) : /\ edges[i].source \in 1..n /\ edges[i].target \in 1..n
                              /\ edges[i].source # edges[i].target
  /\ \A c \in SUBSET (1..n) :
       c # {} /\ (\A i \in 1..Len(edges) : edges[i].source \in c <=> edges[i].target \in c)
         => c = 1..n

\* A node's neighbors are nodes, and what an edge of it joins it to is one of them.
LEMMA NeighborFacts ==
  ASSUME NEW n, NEW edges, Graph(n, edges), NEW id
  PROVE  /\ Neighbors(edges, id) \subseteq 1..n
         /\ IsFiniteSet(Neighbors(edges, id)) /\ Cardinality(Neighbors(edges, id)) \in Nat
         /\ IsFiniteSet(EdgesOf(edges, id)) /\ Degree(edges, id) \in Nat
         /\ \A i \in 1..Len(edges) :
              /\ edges[i].source = id => edges[i].target \in Neighbors(edges, id)
              /\ edges[i].target = id => edges[i].source \in Neighbors(edges, id)
<1>1. n \in Nat /\ Len(edges) \in Nat
  BY DEF Graph
<1>2. Neighbors(edges, id) \subseteq 1..n
  BY DEF Graph, Neighbors, EdgesOf, Touches, OtherEnd
<1>3. IsFiniteSet(1..n) /\ IsFiniteSet(1..Len(edges))
  BY <1>1, UpTo
<1>4. IsFiniteSet(Neighbors(edges, id)) /\ Cardinality(Neighbors(edges, id)) \in Nat
  BY <1>2, <1>3, FS_Subset, FS_CardinalityType
<1>5. EdgesOf(edges, id) \subseteq 1..Len(edges)
  BY DEF Graph, EdgesOf
<1>6. IsFiniteSet(EdgesOf(edges, id)) /\ Cardinality(EdgesOf(edges, id)) \in Nat
  BY <1>3, <1>5, FS_Subset, FS_CardinalityType
<1>7. ASSUME NEW i \in 1..Len(edges)
      PROVE  /\ edges[i].source = id => edges[i].target \in Neighbors(edges, id)
             /\ edges[i].target = id => edges[i].source \in Neighbors(edges, id)
  <2>1. edges[i].source # edges[i].target /\ i \in DOMAIN edges
    BY DEF Graph
  <2>2. (edges[i].source = id \/ edges[i].target = id) => i \in EdgesOf(edges, id)
    BY <2>1 DEF EdgesOf, Touches
  <2>3. (edges[i].source = id \/ edges[i].target = id)
          => OtherEnd(edges[i], id) \in Neighbors(edges, id)
    BY <2>2 DEF Neighbors
  <2> QED
    BY <2>1, <2>3 DEF OtherEnd
<1> QED
  BY <1>2, <1>4, <1>6, <1>7 DEF Degree

\* There is a node of the highest degree, and it is the hub.
LEMMA HubFacts ==
  ASSUME NEW n, NEW edges, Graph(n, edges)
  PROVE  SelectHub(n, edges) \in 1..n
<1> DEFINE f == [i \in 1..n |-> Degree(edges, i)]
           S == {h \in 1..n : \A i \in 1..n : Degree(edges, i) <= Degree(edges, h)}
<1>1. n \in Nat \ {0} /\ IsFiniteSet(1..n)
  BY UpTo DEF Graph
<1>2. \A i \in 1..n : Degree(edges, i) \in Nat
  BY NeighborFacts
<1>3. IsFiniteSet(Range(f)) /\ Range(f) \in SUBSET Int /\ Range(f) # {}
  <2>1. DOMAIN f = 1..n /\ f = [i \in 1..n |-> f[i]] /\ f \in [1..n -> Int]
    BY <1>2
  <2> HIDE DEF f
  <2>2. f[1] \in Range(f)
    BY <1>1, <2>1 DEF Range
  <2>3. IsFiniteSet(Range(f)) /\ Range(f) \in SUBSET Int
    BY <1>1, <2>1, FiniteRange DEF Range
  <2> QED
    BY <2>2, <2>3
<1>4. Max(Range(f)) \in Range(f) /\ \A x \in Range(f) : Max(Range(f)) >= x
  <2> HIDE DEF f
  <2> QED
    BY <1>3, MaxFacts
<1>5. PICK h \in 1..n : f[h] = Max(Range(f))
  BY <1>4 DEF Range
<1>6. h \in S
  <2> SUFFICES ASSUME NEW i \in 1..n PROVE Degree(edges, i) <= Degree(edges, h)
    OBVIOUS
  <2>1. f[i] \in Range(f)
    BY DEF Range
  <2>2. f[h] >= f[i]
    BY <1>4, <1>5, <2>1
  <2> QED
    BY <1>2, <2>2
<1>7. S \in SUBSET Int /\ IsFiniteSet(S) /\ S \subseteq 1..n
  BY <1>1, FS_Subset
<1>8. Min(S) \in S
  <2> HIDE DEF S
  <2> QED
    BY <1>6, <1>7, MinFacts
<1>9. SelectHub(n, edges) = Min(S)
  BY DEF SelectHub
<1> QED
  BY <1>7, <1>8, <1>9

\* What is near is defined.
LEMMA WithinFacts ==
  ASSUME NEW n, NEW edges, Graph(n, edges), NEW hub \in 1..n
  PROVE  LET near == Within(n, edges, hub)
         IN  /\ near[0] = {hub}
             /\ \A k \in 1..n :
                  near[k] = near[k - 1] \cup (1..n \cap UNION {Neighbors(edges, m) : m \in near[k - 1]})
             /\ \A k \in 0..n : near[k] \in SUBSET (1..n)
<1> DEFINE V == SUBSET (1..n)
           first == {hub}
           next(before) == before \cup (1..n \cap UNION {Neighbors(edges, m) : m \in before})
           body(G, k) == IF k = 0 THEN first ELSE next(G[k - 1])
           F == CHOOSE G : G = [k \in 0..n |-> body(G, k)]
           step == [k \in 1..n |-> [before \in V |-> next(before)]]
<1>1. n \in Nat /\ first \in V
  BY DEF Graph
<1>2. Within(n, edges, hub) = F
  BY DEF Within
<1>a. \A before \in V : next(before) \in V
  OBVIOUS
<1>3. \E G : G = [k \in 0..n |-> body(G, k)]
  <2>1. step \in [1..n -> [V -> V]]
    <3> HIDE DEF next, V
    <3> QED
      BY <1>a
  <2>2. PICK G \in [0..n -> V] : Recurs(G, n, first, step)
    <3> HIDE DEF V, first, step
    <3> QED
      BY <1>1, <2>1, RecursionExists
  <2>3. G[0] = first /\ \A k \in 1..n : G[k] = step[k][G[k - 1]]
    BY <2>2 DEF Recurs
  <2>4. ASSUME NEW k \in 0..n PROVE G[k] = body(G, k)
    <3> HIDE DEF V, first, next
    <3>1. CASE k = 0
      BY <2>3, <3>1
    <3>2. CASE k # 0
      <4>1. k \in 1..n /\ k - 1 \in 0..n
        BY <1>1, <3>2
      <4>2. G[k - 1] \in V
        BY <4>1
      <4> QED
        BY <2>3, <3>2, <4>1, <4>2
    <3> QED
      BY <3>1, <3>2
  <2>5. G = [k \in 0..n |-> body(G, k)]
    <3> HIDE DEF body
    <3> QED
      BY <2>4
  <2> QED
    BY <2>5
<1>4. F = [k \in 0..n |-> body(F, k)]
  <2> HIDE DEF body
  <2> QED
    BY <1>3
<1> HIDE DEF F
<1>5. \A k \in 0..n : F[k] = body(F, k)
  <2> HIDE DEF body
  <2> QED
    BY <1>4
<1>6. F[0] = first
  <2>1. 0 \in 0..n
    BY <1>1
  <2>2. F[0] = body(F, 0)
    BY <1>5, <2>1
  <2> HIDE DEF first
  <2> QED
    BY <2>2
<1>7. ASSUME NEW k \in 1..n PROVE F[k] = next(F[k - 1])
  <2>1. k \in 0..n /\ k # 0
    BY <1>1
  <2>2. F[k] = body(F, k)
    BY <1>5, <2>1
  <2> HIDE DEF next
  <2> QED
    BY <2>1, <2>2
<1>8. \A k \in 0..n : F[k] \in V
  <2> HIDE DEF V, first, next
  <2>1. \A k \in 1..n : F[k - 1] \in V => F[k] \in V
    BY <1>a, <1>7
  <2> QED
    BY <1>1, <1>6, <2>1, RecursionKeeps
<1> QED
  BY <1>2, <1>6, <1>7, <1>8

\* Within n edges is everything.
LEMMA AllWithin ==
  ASSUME NEW n, NEW edges, Graph(n, edges), NEW hub \in 1..n
  PROVE  Within(n, edges, hub)[n] = 1..n
<1> DEFINE near == Within(n, edges, hub)
           S == {k \in 0..n : hub \in near[k] /\ (near[k] = 1..n \/ Cardinality(near[k]) >= k + 1)}
<1>1. /\ near[0] = {hub}
      /\ \A k \in 1..n :
           near[k] = near[k - 1] \cup (1..n \cap UNION {Neighbors(edges, m) : m \in near[k - 1]})
      /\ \A k \in 0..n : near[k] \in SUBSET (1..n)
  BY WithinFacts
<1>2. n \in Nat \ {0} /\ IsFiniteSet(1..n) /\ Cardinality(1..n) = n
  BY UpTo DEF Graph
<1> HIDE DEF near
<1>3. \A k \in 0..n : IsFiniteSet(near[k]) /\ Cardinality(near[k]) \in Nat /\ Cardinality(near[k]) <= n
  BY <1>1, <1>2, FS_Subset, FS_CardinalityType
<1>4. 0 \in S
  <2>1. Cardinality(near[0]) = 1 /\ hub \in near[0]
    BY <1>1, FS_Singleton
  <2> QED
    BY <1>2, <2>1
<1>5. ASSUME NEW k \in 1..n, k - 1 \in S PROVE k \in S
  <2> DEFINE old == near[k - 1]
             new == near[k]
  <2>1. /\ k - 1 \in 0..n /\ k \in 0..n /\ (k - 1) + 1 = k
        /\ new = old \cup (1..n \cap UNION {Neighbors(edges, m) : m \in old})
        /\ old \in SUBSET (1..n) /\ new \in SUBSET (1..n) /\ hub \in old
        /\ old = 1..n \/ Cardinality(old) >= k
    BY <1>1, <1>5
  <2>2. /\ IsFiniteSet(old) /\ Cardinality(old) \in Nat
        /\ IsFiniteSet(new) /\ Cardinality(new) \in Nat
    BY <1>3, <2>1
  <2> HIDE DEF old, new
  <2>3. hub \in new /\ old \subseteq new
    BY <2>1
  <2>4. CASE old = 1..n
    BY <2>1, <2>3, <2>4 DEF new
  <2>5. CASE old # 1..n /\ new = old
    <3>1. ASSUME NEW i \in 1..Len(edges) PROVE edges[i].source \in old <=> edges[i].target \in old
      <4>1. edges[i].source \in 1..n /\ edges[i].target \in 1..n
        BY DEF Graph
      <4>2. /\ edges[i].target \in Neighbors(edges, edges[i].source)
            /\ edges[i].source \in Neighbors(edges, edges[i].target)
        BY NeighborFacts
      <4> QED
        BY <2>1, <2>5, <4>1, <4>2
    <3>2. old = 1..n
      BY <2>1, <3>1 DEF Graph
    <3> QED
      BY <2>5, <3>2
  <2>6. CASE old # 1..n /\ new # old
    <3>1. Cardinality(old) <= Cardinality(new) /\ (Cardinality(new) = Cardinality(old) => new = old)
      BY <2>2, <2>3, FS_Subset
    <3>2. Cardinality(new) >= k + 1
      BY <1>2, <2>1, <2>2, <2>6, <3>1
    <3> QED
      BY <2>1, <2>3, <3>2 DEF new
  <2> QED
    BY <2>4, <2>5, <2>6
<1>6. 0..n \subseteq S
  <2> HIDE DEF S
  <2> QED
    BY <1>2, <1>4, <1>5, AllNumbers
<1>7. n \in S
  <2> HIDE DEF S
  <2> QED
    BY <1>2, <1>6
<1>8. near[n] = 1..n
  BY <1>2, <1>3, <1>7
<1> QED
  BY <1>8 DEF near

\* The distances from the hub.
LEMMA DistanceFacts ==
  ASSUME NEW n, NEW edges, Graph(n, edges), NEW hub \in 1..n
  PROVE  /\ BfsDistance(n, edges, hub) \in [1..n -> 0..n]
         /\ \A id \in 1..n : BfsDistance(n, edges, hub)[id] = 0 <=> id = hub
<1> DEFINE near == Within(n, edges, hub)
           ks(id) == {k \in 0..n : id \in near[k]}
           d == BfsDistance(n, edges, hub)
<1>1. near[0] = {hub} /\ near[n] = 1..n
  BY AllWithin, WithinFacts
<1>2. n \in Nat \ {0} /\ IsFiniteSet(0..n)
  BY UpTo DEF Graph
<1>3. d = [id \in 1..n |-> IF id \in near[n] THEN Min(ks(id)) ELSE 0]
  BY DEF BfsDistance
<1>4. ASSUME NEW id \in 1..n PROVE d[id] \in 0..n /\ (d[id] = 0 <=> id = hub)
  <2>1. d[id] = Min(ks(id))
    BY <1>1, <1>3
  <2>2. ks(id) \in SUBSET Int /\ n \in ks(id) /\ ks(id) \subseteq 0..n
    BY <1>1, <1>2
  <2>3. IsFiniteSet(ks(id))
    BY <1>2, <2>2, FS_Subset
  <2>4. Min(ks(id)) \in ks(id) /\ \A x \in ks(id) : Min(ks(id)) <= x
    <3> HIDE DEF ks
    <3> QED
      BY <2>2, <2>3, MinFacts
  <2>5. 0 \in ks(id) <=> id = hub
    BY <1>1, <1>2
  <2>6. Min(ks(id)) = 0 <=> id = hub
    <3> HIDE DEF ks
    <3> QED
      BY <2>2, <2>4, <2>5
  <2> HIDE DEF ks
  <2> QED
    BY <2>1, <2>2, <2>4, <2>6
<1> HIDE DEF d
<1>5. d \in [1..n -> 0..n]
  BY <1>3, <1>4
<1> QED
  BY <1>4, <1>5 DEF d
-----------------------------------------------------------------------------
(* The columns: bumps *)

\* How far a column is from the hub's.
Size(x) == IF x >= 0 THEN x ELSE -x

\* The columns of nodes about a hub: from the n-th on none is left out.
Bumps(n, hub) ==
  {c \in [1..n -> Int] :
     /\ \A id \in 1..n : c[id] = 0 <=> id = hub
     /\ \A k \in Nat : k >= n /\ (\E id \in 1..n : Size(c[id]) > k) => \E id \in 1..n : Size(c[id]) = k}

\* Each node on its side as far or further.
Further(n, c, d) ==
  \A id \in 1..n : /\ Size(d[id]) >= Size(c[id])
                   /\ c[id] > 0 => d[id] > 0
                   /\ c[id] < 0 => d[id] < 0
Crosses(c, edges) == \A i \in 1..Len(edges) : c[edges[i].source] # c[edges[i].target]

\* The edges of a pass one at a time.
LEMMA PassSteps ==
  ASSUME NEW n, NEW edges, Graph(n, edges), NEW hub \in 1..n, NEW column \in [1..n -> Int]
  PROVE  \E F \in [0..Len(edges) -> [1..n -> Int]] :
           /\ F[0] = column /\ \A k \in 1..Len(edges) : F[k] = Bumped(F[k - 1], hub, edges[k])
           /\ BumpPass(column, hub, edges) = F[Len(edges)]
<1> DEFINE m == Len(edges)
           V == [1..n -> Int]
           first == column
           next(k, a) == Bumped(a, hub, edges[k])
           body(G, k) == IF k = 0 THEN first ELSE next(k, G[k - 1])
           F == CHOOSE G : G = [k \in 0..m |-> body(G, k)]
           step == [k \in 1..m |-> [a \in V |-> next(k, a)]]
<1>1. m \in Nat
  BY DEF Graph
<1>2. first \in V
  OBVIOUS
<1>3. BumpPass(column, hub, edges) = F[m]
  BY DEF BumpPass
<1>4. ASSUME NEW k \in 1..m, NEW a \in V PROVE next(k, a) \in V
  <2>1. edges[k].target \in 1..n /\ edges[k].source \in 1..n
    BY DEF Graph
  <2> QED
    BY <2>1 DEF Bumped
<1> HIDE DEF m, V, first, next
<1>5. step \in [1..m -> [V -> V]]
  BY <1>4
<1>6. PICK G \in [0..m -> V] : Recurs(G, m, first, step)
  <2> HIDE DEF step
  <2> QED
    BY <1>1, <1>2, <1>5, RecursionExists
<1>7. G[0] = first /\ \A k \in 1..m : G[k] = step[k][G[k - 1]]
  BY <1>6 DEF Recurs
<1>8. ASSUME NEW k \in 0..m PROVE G[k] = body(G, k)
  <2>1. CASE k = 0
    BY <1>7, <2>1
  <2>2. CASE k # 0
    <3>1. k \in 1..m /\ k - 1 \in 0..m
      BY <1>1, <2>2
    <3>2. G[k - 1] \in V
      BY <3>1
    <3> QED
      BY <1>7, <2>2, <3>1, <3>2
  <2> QED
    BY <2>1, <2>2
<1>9. G = [k \in 0..m |-> body(G, k)]
  <2> HIDE DEF body
  <2> QED
    BY <1>8
<1>10. F = [k \in 0..m |-> body(F, k)]
  <2> HIDE DEF body
  <2> QED
    BY <1>9
<1> HIDE DEF F
<1>11. \A k \in 0..m : F[k] = body(F, k)
  <2> HIDE DEF body
  <2> QED
    BY <1>10
<1>12. F[0] = first
  BY <1>1, <1>11
<1>13. \A k \in 1..m : F[k] = next(k, F[k - 1])
  BY <1>1, <1>11
<1>14. \A k \in 0..m : F[k] \in V
  <2>1. F[0] \in V /\ \A k \in 1..m : F[k - 1] \in V => F[k] \in V
    BY <1>2, <1>4, <1>12, <1>13
  <2> QED
    BY <1>1, <2>1, RecursionKeeps
<1>15. DOMAIN F = 0..m
  <2> HIDE DEF body
  <2> QED
    BY <1>10
<1>16. F \in [0..m -> V]
  <2>1. F = [k \in 0..m |-> F[k]]
    <3> HIDE DEF body
    <3> QED
      BY <1>10
  <2> QED
    BY <1>14, <2>1
<1> QED
  BY <1>3, <1>12, <1>13, <1>16 DEF m, V, first, next

\* A pass leaves a column to each node.
LEMMA PassTyped ==
  ASSUME NEW n, NEW edges, Graph(n, edges), NEW hub \in 1..n, NEW column \in [1..n -> Int]
  PROVE  BumpPass(column, hub, edges) \in [1..n -> Int]
<1>1. PICK F \in [0..Len(edges) -> [1..n -> Int]] : BumpPass(column, hub, edges) = F[Len(edges)]
  BY PassSteps
<1>2. Len(edges) \in 0..Len(edges)
  BY DEF Graph
<1> QED
  BY <1>1, <1>2

\* The passes one at a time.
LEMMA PassesSteps ==
  ASSUME NEW n, NEW edges, Graph(n, edges), NEW hub \in 1..n, NEW column \in [1..n -> Int]
  PROVE  \E F \in [0..MaxPasses(n) -> [1..n -> Int]] :
           /\ F[0] = column /\ \A k \in 1..MaxPasses(n) :
                F[k] = IF \E e \in Range(edges) : F[k - 1][e.source] = F[k - 1][e.target]
                       THEN BumpPass(F[k - 1], hub, edges) ELSE F[k - 1]
           /\ BumpSameColumnEdges(n, column, hub, edges) = F[MaxPasses(n)]
<1> DEFINE m == MaxPasses(n)
           V == [1..n -> Int]
           first == column
           next(k, a) == IF \E e \in Range(edges) : a[e.source] = a[e.target]
                         THEN BumpPass(a, hub, edges) ELSE a
           body(G, k) == IF k = 0 THEN first ELSE next(k, G[k - 1])
           F == CHOOSE G : G = [k \in 0..m |-> body(G, k)]
           step == [k \in 1..m |-> [a \in V |-> next(k, a)]]
<1>1. m \in Nat
  BY DEF Graph, MaxPasses
<1>2. first \in V
  OBVIOUS
<1>3. BumpSameColumnEdges(n, column, hub, edges) = F[m]
  BY DEF BumpSameColumnEdges
<1>4. ASSUME NEW k \in 1..m, NEW a \in V PROVE next(k, a) \in V
  BY PassTyped
<1> HIDE DEF m, V, first, next
<1>5. step \in [1..m -> [V -> V]]
  BY <1>4
<1>6. PICK G \in [0..m -> V] : Recurs(G, m, first, step)
  <2> HIDE DEF step
  <2> QED
    BY <1>1, <1>2, <1>5, RecursionExists
<1>7. G[0] = first /\ \A k \in 1..m : G[k] = step[k][G[k - 1]]
  BY <1>6 DEF Recurs
<1>8. ASSUME NEW k \in 0..m PROVE G[k] = body(G, k)
  <2>1. CASE k = 0
    BY <1>7, <2>1
  <2>2. CASE k # 0
    <3>1. k \in 1..m /\ k - 1 \in 0..m
      BY <1>1, <2>2
    <3>2. G[k - 1] \in V
      BY <3>1
    <3> QED
      BY <1>7, <2>2, <3>1, <3>2
  <2> QED
    BY <2>1, <2>2
<1>9. G = [k \in 0..m |-> body(G, k)]
  <2> HIDE DEF body
  <2> QED
    BY <1>8
<1>10. F = [k \in 0..m |-> body(F, k)]
  <2> HIDE DEF body
  <2> QED
    BY <1>9
<1> HIDE DEF F
<1>11. \A k \in 0..m : F[k] = body(F, k)
  <2> HIDE DEF body
  <2> QED
    BY <1>10
<1>12. F[0] = first
  BY <1>1, <1>11
<1>13. \A k \in 1..m : F[k] = next(k, F[k - 1])
  BY <1>1, <1>11
<1>14. \A k \in 0..m : F[k] \in V
  <2>1. F[0] \in V /\ \A k \in 1..m : F[k - 1] \in V => F[k] \in V
    BY <1>2, <1>4, <1>12, <1>13
  <2> QED
    BY <1>1, <2>1, RecursionKeeps
<1>15. DOMAIN F = 0..m
  <2> HIDE DEF body
  <2> QED
    BY <1>10
<1>16. F \in [0..m -> V]
  <2>1. F = [k \in 0..m |-> F[k]]
    <3> HIDE DEF body
    <3> QED
      BY <1>10
  <2> QED
    BY <1>14, <2>1
<1> QED
  BY <1>3, <1>12, <1>13, <1>16 DEF m, V, first, next

\* A node moved leaves another of its column behind.
LEMMA BumpedFacts ==
  ASSUME NEW n \in Nat, NEW hub \in 1..n, NEW c \in Bumps(n, hub), NEW e,
         e.source \in 1..n, e.target \in 1..n, e.source # e.target
  PROVE  /\ Bumped(c, hub, e) \in Bumps(n, hub) /\ Further(n, c, Bumped(c, hub, e))
         /\ Bumped(c, hub, e) = c <=> c[e.source] # c[e.target]
<1> DEFINE s == e.source
           t == e.target
           d == Bumped(c, hub, e)
           x == c[t]
<1>1. c \in [1..n -> Int] /\ \A id \in 1..n : c[id] = 0 <=> id = hub
  BY DEF Bumps
<1>2. CASE c[s] # c[t]
  <2> DEFINE id == IF t # hub THEN t ELSE s
  <2>1. d = c
    <3>1. d = [c EXCEPT ![id] = c[id]]
      BY <1>2 DEF Bumped
    <3>2. id \in 1..n
      OBVIOUS
    <3> HIDE DEF id, d
    <3> QED
      BY <1>1, <3>1, <3>2
  <2> QED
    BY <1>1, <1>2, <2>1 DEF Further, Size
<1>3. CASE c[s] = c[t]
  <2>1. t # hub /\ s # hub /\ x # 0 /\ x \in Int /\ s \in 1..n /\ t \in 1..n /\ s # t /\ c[s] = x
    BY <1>1, <1>3
  <2> DEFINE z == IF x >= 0 THEN x + 1 ELSE x - 1
  <2>2. d = [c EXCEPT ![t] = z]
    BY <1>3, <2>1 DEF Bumped
  <2>3. z \in Int /\ z # 0 /\ z # x /\ Size(z) = Size(x) + 1 /\ Size(x) \in Nat
        /\ (x > 0 => z > 0) /\ (x < 0 => z < 0)
    BY <2>1 DEF Size
  <2> HIDE DEF z, x, s, t, d
  <2>4. d \in [1..n -> Int] /\ d[t] = z /\ c[t] = x /\ \A id \in 1..n : id # t => d[id] = c[id]
    BY <1>1, <2>1, <2>2, <2>3 DEF x
  <2>5. \A id \in 1..n : d[id] = 0 <=> id = hub
    BY <1>1, <2>1, <2>3, <2>4
  <2>6. \A id \in 1..n : Size(c[id]) \in Nat /\ Size(d[id]) \in Nat
    BY <1>1, <2>4 DEF Size
  <2>7. Further(n, c, d)
    <3> SUFFICES ASSUME NEW id \in 1..n
                 PROVE  /\ Size(d[id]) >= Size(c[id])
                        /\ c[id] > 0 => d[id] > 0
                        /\ c[id] < 0 => d[id] < 0
      BY DEF Further
    <3>1. CASE id = t
      BY <2>3, <2>4, <3>1
    <3>2. CASE id # t
      <4>1. d[id] = c[id] /\ Size(c[id]) \in Nat
        BY <2>4, <2>6, <3>2
      <4> QED
        BY <4>1
    <3> QED
      BY <3>1, <3>2
  <2>8. ASSUME NEW k \in Nat, k >= n, NEW id \in 1..n, Size(d[id]) > k
        PROVE  \E i \in 1..n : Size(d[i]) = k
    <3>1. CASE \E i \in 1..n : Size(c[i]) > k
      <4>1. PICK i \in 1..n : Size(c[i]) = k
        BY <2>8, <3>1 DEF Bumps
      <4>2. CASE i = t
        <5>1. Size(d[s]) = k
          BY <2>1, <2>4, <4>1, <4>2
        <5> QED
          BY <2>1, <5>1
      <4>3. CASE i # t
        BY <2>4, <4>1, <4>3
      <4> QED
        BY <4>2, <4>3
    <3>2. CASE ~ \E i \in 1..n : Size(c[i]) > k
      <4>1. id = t
        BY <2>4, <2>8, <3>2
      <4>2. Size(x) = k
        <5>1. ~ (Size(x) > k) /\ Size(x) + 1 > k
          BY <2>1, <2>3, <2>4, <2>8, <3>2, <4>1
        <5> QED
          BY <2>3, <5>1
      <4>3. Size(d[s]) = k
        BY <2>1, <2>4, <4>2
      <4> QED
        BY <2>1, <4>3
    <3> QED
      BY <3>1, <3>2
  <2>9. d \in Bumps(n, hub)
    BY <2>4, <2>5, <2>8 DEF Bumps
  <2>10. d # c
    BY <2>3, <2>4
  <2> QED
    BY <1>3, <2>7, <2>9, <2>10 DEF d, s, t
<1> QED
  BY <1>2, <1>3

\* As far and not further is the same.
LEMMA FurtherFacts ==
  ASSUME NEW n \in Nat, NEW c \in [1..n -> Int], NEW d \in [1..n -> Int], NEW e \in [1..n -> Int],
         Further(n, c, d)
  PROVE  /\ Further(n, c, c)
         /\ Further(n, d, e) => Further(n, c, e)
         /\ Further(n, d, c) => d = c
<1>1. \A id \in 1..n : c[id] \in Int /\ d[id] \in Int /\ e[id] \in Int
  OBVIOUS
<1>2. \A x \in Int : Size(x) \in Nat /\ (Size(x) = x \/ Size(x) = -x) /\ (x > 0 => Size(x) = x)
                    /\ (x < 0 => Size(x) = -x) /\ (x = 0 => Size(x) = 0)
  BY DEF Size
<1>3. Further(n, c, c)
  BY <1>1, <1>2 DEF Further
<1>4. ASSUME Further(n, d, e) PROVE Further(n, c, e)
  <2> SUFFICES ASSUME NEW id \in 1..n
               PROVE  /\ Size(e[id]) >= Size(c[id])
                      /\ c[id] > 0 => e[id] > 0
                      /\ c[id] < 0 => e[id] < 0
    BY DEF Further
  <2>1. /\ Size(e[id]) >= Size(d[id]) /\ Size(d[id]) >= Size(c[id])
        /\ c[id] > 0 => e[id] > 0
        /\ c[id] < 0 => e[id] < 0
    BY <1>4 DEF Further
  <2>2. Size(e[id]) \in Nat /\ Size(d[id]) \in Nat /\ Size(c[id]) \in Nat
    BY <1>1, <1>2
  <2> QED
    BY <2>1, <2>2
<1>5. ASSUME Further(n, d, c) PROVE d = c
  <2>1. ASSUME NEW id \in 1..n PROVE d[id] = c[id]
    <3>1. /\ Size(c[id]) >= Size(d[id]) /\ Size(d[id]) >= Size(c[id])
          /\ c[id] > 0 => d[id] > 0
          /\ c[id] < 0 => d[id] < 0
      BY <1>5 DEF Further
    <3> QED
      BY <1>1, <3>1 DEF Size
  <2> QED
    BY <2>1
<1> QED
  BY <1>3, <1>4, <1>5

\* A pass moves nodes further out or leaves all where they are, which it does
\* only when no edge is within a column.
LEMMA PassFacts ==
  ASSUME NEW n, NEW edges, Graph(n, edges), NEW hub \in 1..n, NEW c \in Bumps(n, hub)
  PROVE  /\ BumpPass(c, hub, edges) \in Bumps(n, hub)
         /\ Further(n, c, BumpPass(c, hub, edges))
         /\ BumpPass(c, hub, edges) = c <=> Crosses(c, edges)
<1> DEFINE m == Len(edges)
<1>1. n \in Nat /\ m \in Nat /\ c \in [1..n -> Int] /\ \A a \in Bumps(n, hub) : a \in [1..n -> Int]
  BY DEF Graph, Bumps
<1>2. PICK F \in [0..m -> [1..n -> Int]] :
        /\ F[0] = c /\ \A k \in 1..m : F[k] = Bumped(F[k - 1], hub, edges[k])
        /\ BumpPass(c, hub, edges) = F[m]
  <2>1. c \in [1..n -> Int]
    BY <1>1
  <2> QED
    BY <2>1, PassSteps
<1> HIDE DEF m
<1>3. \A k \in 0..m : F[k] \in [1..n -> Int]
  OBVIOUS
<1> DEFINE Here(k) == /\ F[k] \in Bumps(n, hub) /\ Further(n, c, F[k])
                      /\ F[k] = c <=> \A i \in 1..k : c[edges[i].source] # c[edges[i].target]
           S == {k \in 0..m : Here(k)}
<1>4. 0 \in S
  <2>1. Further(n, c, c)
    <3>1. \A id \in 1..n : c[id] \in Int
      BY <1>1
    <3> QED
      BY <3>1 DEF Further, Size
  <2> QED
    BY <1>1, <1>2, <2>1
<1>5. ASSUME NEW k \in 1..m, k - 1 \in S PROVE k \in S
  <2> DEFINE a == F[k - 1]
             b == F[k]
             e == edges[k]
  <2>1. /\ k - 1 \in 0..m /\ k \in 0..m /\ a \in Bumps(n, hub) /\ Further(n, c, a)
        /\ a = c <=> \A i \in 1..(k - 1) : c[edges[i].source] # c[edges[i].target]
    <3>1. k - 1 \in 0..m /\ k \in 0..m
      BY <1>1
    <3>2. Here(k - 1)
      <4> HIDE DEF Here
      <4> QED
        BY <1>5
    <3> QED
      BY <3>1, <3>2
  <2>2. e.source \in 1..n /\ e.target \in 1..n /\ e.source # e.target
    BY DEF Graph, m
  <2>3. b = Bumped(a, hub, e)
    BY <1>2
  <2> HIDE DEF a, b, e
  <2>4. b \in Bumps(n, hub) /\ Further(n, a, b) /\ (b = a <=> a[e.source] # a[e.target])
    <3>1. n \in Nat /\ a \in Bumps(n, hub)
      BY <1>1, <2>1
    <3>2. /\ Bumped(a, hub, e) \in Bumps(n, hub) /\ Further(n, a, Bumped(a, hub, e))
          /\ Bumped(a, hub, e) = a <=> a[e.source] # a[e.target]
      BY <2>2, <3>1, BumpedFacts
    <3> QED
      BY <2>3, <3>2
  <2>5. Further(n, c, b) /\ (Further(n, b, a) => b = a) /\ (b = c => Further(n, b, a)) /\ (a = b /\ b = c => a = c)
    <3>1. a \in [1..n -> Int] /\ b \in [1..n -> Int]
      BY <1>1, <2>1, <2>4
    <3>2. Further(n, c, b)
      BY <1>1, <2>1, <2>4, <3>1, FurtherFacts
    <3>3. Further(n, b, a) => b = a
      BY <1>1, <2>4, <3>1, FurtherFacts
    <3> QED
      BY <2>1, <3>2, <3>3
  <2>6. b = c <=> a = c /\ c[e.source] # c[e.target]
    BY <2>4, <2>5
  <2>7. b = c <=> \A i \in 1..k : c[edges[i].source] # c[edges[i].target]
    <3>1. \A i : i \in 1..k <=> i \in 1..(k - 1) \/ i = k
      BY <1>1
    <3> QED
      BY <2>1, <2>6, <3>1 DEF e
  <2> QED
    BY <2>1, <2>4, <2>5, <2>7 DEF b
<1>6. 0..m \subseteq S
  <2> HIDE DEF S
  <2> QED
    BY <1>1, <1>4, <1>5, AllNumbers
<1>7. m \in S
  <2> HIDE DEF S
  <2> QED
    BY <1>1, <1>6
<1> QED
  BY <1>2, <1>7 DEF Crosses, m

\* How often a size is reached: each bump adds one.
Reach(n, c) == {p \in (1..n) \X (1..(2 * n)) : p[2] <= Size(c[p[1]])}

\* None is further out than twice the nodes: from the n-th column on there is one
\* in each.
LEMMA BumpsBound ==
  ASSUME NEW n \in Nat, NEW hub \in 1..n, NEW c \in Bumps(n, hub), NEW id \in 1..n
  PROVE  Size(c[id]) <= 2 * n
<1>1. c \in [1..n -> Int] /\ \A i \in 1..n : Size(c[i]) \in Nat
  BY DEF Bumps, Size
<1> SUFFICES ASSUME Size(c[id]) > 2 * n PROVE FALSE
  BY <1>1
<1> DEFINE at == [k \in 1..(n + 1) |-> CHOOSE i \in 1..n : Size(c[i]) = n + k - 1]
<1>2. \A k \in 1..(n + 1) : at[k] \in 1..n /\ Size(c[at[k]]) = n + k - 1
  <2> SUFFICES ASSUME NEW k \in 1..(n + 1) PROVE at[k] \in 1..n /\ Size(c[at[k]]) = n + k - 1
    OBVIOUS
  <2>1. n + k - 1 \in Nat /\ n + k - 1 >= n /\ Size(c[id]) > n + k - 1
    BY <1>1
  <2>2. \E i \in 1..n : Size(c[i]) = n + k - 1
    BY <2>1 DEF Bumps
  <2> QED
    BY <2>2
<1>3. \A k, l \in 1..(n + 1) : at[k] = at[l] => k = l
  <2> SUFFICES ASSUME NEW k \in 1..(n + 1), NEW l \in 1..(n + 1), at[k] = at[l] PROVE k = l
    OBVIOUS
  <2>1. n + k - 1 = n + l - 1
    BY <1>2
  <2> QED
    BY <2>1
<1>4. at \in Injection(1..(n + 1), 1..n)
  <2>1. at \in [1..(n + 1) -> 1..n]
    BY <1>2
  <2> HIDE DEF at
  <2> QED
    BY <1>3, <2>1, Fun_IsInj
<1>5. IsFiniteSet(1..n) /\ Cardinality(1..n) = n /\ IsFiniteSet(1..(n + 1)) /\ Cardinality(1..(n + 1)) = n + 1
  <2>1. n + 1 \in Nat
    OBVIOUS
  <2> QED
    BY <2>1, UpTo
<1>6. Cardinality(1..(n + 1)) <= Cardinality(1..n)
  <2> HIDE DEF at
  <2> QED
    BY <1>4, <1>5, FS_Injection
<1> QED
  BY <1>5, <1>6

\* What was reached grows.
LEMMA ReachFacts ==
  ASSUME NEW n \in Nat, NEW hub \in 1..n, NEW c \in Bumps(n, hub), NEW d \in Bumps(n, hub),
         Further(n, c, d)
  PROVE  /\ Cardinality(Reach(n, c)) \in 0..MaxPasses(n)
         /\ d # c => Cardinality(Reach(n, c)) < Cardinality(Reach(n, d))
<1> DEFINE P == (1..n) \X (1..(2 * n))
<1>1. c \in [1..n -> Int] /\ d \in [1..n -> Int]
      /\ \A id \in 1..n : Size(c[id]) \in 0..(2 * n) /\ Size(d[id]) \in 0..(2 * n)
  <2>1. c \in [1..n -> Int] /\ d \in [1..n -> Int]
    BY DEF Bumps
  <2>2. \A id \in 1..n : Size(c[id]) \in Nat /\ Size(d[id]) \in Nat
    BY <2>1 DEF Size
  <2>3. \A id \in 1..n : Size(c[id]) <= 2 * n /\ Size(d[id]) <= 2 * n
    BY BumpsBound
  <2> QED
    BY <2>1, <2>2, <2>3
<1>2. IsFiniteSet(P) /\ Cardinality(P) = MaxPasses(n)
  <2>1. 2 * n \in Nat
    OBVIOUS
  <2>2. IsFiniteSet(1..n) /\ Cardinality(1..n) = n /\ IsFiniteSet(1..(2 * n)) /\ Cardinality(1..(2 * n)) = 2 * n
    BY <2>1, UpTo
  <2>3. IsFiniteSet(P) /\ Cardinality(P) = n * (2 * n)
    BY <2>2, FS_Product
  <2>4. n * (2 * n) = 2 * n * n
    OBVIOUS
  <2> QED
    BY <2>3, <2>4 DEF MaxPasses
<1>3. Reach(n, c) \subseteq P /\ Reach(n, d) \subseteq P
  BY DEF Reach
<1> HIDE DEF P
<1>4. /\ IsFiniteSet(Reach(n, c)) /\ Cardinality(Reach(n, c)) \in 0..MaxPasses(n)
      /\ IsFiniteSet(Reach(n, d)) /\ Cardinality(Reach(n, d)) \in 0..MaxPasses(n)
  <2>1. /\ IsFiniteSet(Reach(n, c)) /\ Cardinality(Reach(n, c)) <= MaxPasses(n)
        /\ IsFiniteSet(Reach(n, d)) /\ Cardinality(Reach(n, d)) <= MaxPasses(n)
    BY <1>2, <1>3, FS_Subset
  <2>2. MaxPasses(n) \in Nat /\ Cardinality(Reach(n, c)) \in Nat /\ Cardinality(Reach(n, d)) \in Nat
    BY <1>2, <2>1, FS_CardinalityType
  <2> QED
    BY <2>1, <2>2
<1>5. Reach(n, c) \subseteq Reach(n, d)
  <2> SUFFICES ASSUME NEW i \in 1..n, NEW k \in 1..(2 * n), k <= Size(c[i]) PROVE k <= Size(d[i])
    BY DEF Reach
  <2>1. Size(d[i]) >= Size(c[i])
    BY DEF Further
  <2> QED
    BY <1>1, <2>1
<1>6. ASSUME d # c PROVE Reach(n, c) # Reach(n, d)
  <2>1. PICK i \in 1..n : c[i] # d[i]
    BY <1>1, <1>6
  <2>2. Size(d[i]) >= Size(c[i]) /\ (c[i] > 0 => d[i] > 0) /\ (c[i] < 0 => d[i] < 0)
    BY DEF Further
  <2>3. c[i] = 0 <=> d[i] = 0
    BY DEF Bumps
  <2>4. c[i] \in Int /\ d[i] \in Int
    BY <1>1
  <2>5. Size(d[i]) > Size(c[i])
    BY <2>1, <2>2, <2>3, <2>4 DEF Size
  <2>6. Size(d[i]) \in 1..(2 * n) /\ ~ (Size(d[i]) <= Size(c[i])) /\ Size(d[i]) <= Size(d[i])
    <3> DEFINE x == Size(c[i])
               y == Size(d[i])
    <3>1. x \in 0..(2 * n) /\ y \in 0..(2 * n) /\ y > x
      BY <1>1, <2>5
    <3> HIDE DEF x, y
    <3>2. y \in 1..(2 * n) /\ ~ (y <= x) /\ y <= y
      BY <3>1
    <3> QED
      BY <3>2 DEF x, y
  <2>7. <<i, Size(d[i])>> \in Reach(n, d) /\ <<i, Size(d[i])>> \notin Reach(n, c)
    BY <2>6 DEF Reach
  <2> QED
    BY <2>7
<1>7. ASSUME d # c PROVE Cardinality(Reach(n, c)) < Cardinality(Reach(n, d))
  <2>1. Cardinality(Reach(n, c)) <= Cardinality(Reach(n, d))
        /\ (Cardinality(Reach(n, d)) = Cardinality(Reach(n, c)) => Reach(n, d) = Reach(n, c))
    BY <1>4, <1>5, FS_Subset
  <2>2. MaxPasses(n) \in Nat
    BY DEF MaxPasses
  <2> QED
    BY <1>4, <1>6, <1>7, <2>1, <2>2
<1> QED
  BY <1>4, <1>7

\* The passes end with each edge from one column to another.
LEMMA PassesFacts ==
  ASSUME NEW n, NEW edges, Graph(n, edges), NEW hub \in 1..n, NEW c \in Bumps(n, hub)
  PROVE  LET d == BumpSameColumnEdges(n, c, hub, edges)
         IN  d \in Bumps(n, hub) /\ Further(n, c, d) /\ Crosses(d, edges)
<1> DEFINE m == MaxPasses(n)
           size(d) == Cardinality(Reach(n, d))
<1>1. n \in Nat /\ m \in Nat /\ c \in [1..n -> Int] /\ \A a \in Bumps(n, hub) : a \in [1..n -> Int]
  BY DEF Graph, Bumps, MaxPasses
<1>2. PICK F \in [0..m -> [1..n -> Int]] :
        /\ F[0] = c /\ \A k \in 1..m :
             F[k] = IF \E e \in Range(edges) : F[k - 1][e.source] = F[k - 1][e.target]
                    THEN BumpPass(F[k - 1], hub, edges) ELSE F[k - 1]
        /\ BumpSameColumnEdges(n, c, hub, edges) = F[m]
  <2>1. c \in [1..n -> Int]
    BY <1>1
  <2> QED
    BY <2>1, PassesSteps
<1> HIDE DEF m
<1> DEFINE Here(k) == /\ F[k] \in Bumps(n, hub) /\ Further(n, c, F[k])
                      /\ Crosses(F[k], edges) \/ size(F[k]) >= k
           S == {k \in 0..m : Here(k)}
<1>3. \A d \in Bumps(n, hub) : size(d) \in 0..m
  <2> SUFFICES ASSUME NEW d \in Bumps(n, hub) PROVE size(d) \in 0..m
    OBVIOUS
  <2>1. d \in [1..n -> Int]
    BY <1>1
  <2>2. Further(n, d, d)
    <3>1. \A id \in 1..n : d[id] \in Int
      BY <2>1
    <3> QED
      BY <3>1 DEF Further, Size
  <2> QED
    BY <1>1, <2>2, ReachFacts DEF m
<1>4. 0 \in S
  <2>1. Further(n, c, c)
    <3>1. \A id \in 1..n : c[id] \in Int
      BY <1>1
    <3> QED
      BY <3>1 DEF Further, Size
  <2>2. size(c) >= 0
    <3> HIDE DEF size
    <3> QED
      BY <1>1, <1>3
  <2> QED
    BY <1>1, <1>2, <2>1, <2>2
<1>5. ASSUME NEW k \in 1..m, k - 1 \in S PROVE k \in S
  <2> DEFINE a == F[k - 1]
             b == F[k]
  <2>1. k - 1 \in 0..m /\ k \in 0..m
    BY <1>1
  <2>2. /\ a \in Bumps(n, hub) /\ Further(n, c, a)
        /\ Crosses(a, edges) \/ size(a) >= k - 1
    <3>1. Here(k - 1)
      <4> HIDE DEF Here
      <4> QED
        BY <1>5
    <3> QED
      BY <3>1
  <2>3. b = BumpPass(a, hub, edges)
    <3>1. b = IF \E e \in Range(edges) : a[e.source] = a[e.target] THEN BumpPass(a, hub, edges) ELSE a
      BY <1>2
    <3> HIDE DEF a, b
    <3>2. (\E e \in Range(edges) : a[e.source] = a[e.target]) <=> ~Crosses(a, edges)
      BY DEF Crosses, Range, Graph
    <3>3. BumpPass(a, hub, edges) = a <=> Crosses(a, edges)
      BY <2>2, PassFacts
    <3> QED
      BY <3>1, <3>2, <3>3
  <2> HIDE DEF a, b
  <2>4. b \in Bumps(n, hub) /\ Further(n, a, b) /\ (b = a <=> Crosses(a, edges))
    <3>1. a \in Bumps(n, hub)
      BY <2>2
    <3>2. /\ BumpPass(a, hub, edges) \in Bumps(n, hub)
          /\ Further(n, a, BumpPass(a, hub, edges))
          /\ BumpPass(a, hub, edges) = a <=> Crosses(a, edges)
      BY <3>1, PassFacts
    <3> QED
      BY <2>3, <3>2
  <2>5. Further(n, c, b)
    <3>1. a \in [1..n -> Int] /\ b \in [1..n -> Int]
      BY <1>1, <2>2, <2>4
    <3> QED
      BY <1>1, <2>2, <2>4, <3>1, FurtherFacts
  <2>6. CASE Crosses(a, edges)
    <3>1. Crosses(b, edges)
      BY <2>4, <2>6
    <3> QED
      BY <2>1, <2>4, <2>5, <3>1 DEF b
  <2>7. CASE ~Crosses(a, edges)
    <3>1. size(a) < size(b)
      BY <1>1, <2>2, <2>4, <2>7, ReachFacts
    <3>2. size(a) \in 0..m /\ size(b) \in 0..m
      BY <1>3, <2>2, <2>4
    <3>3. size(b) >= k
      <4> HIDE DEF size
      <4> QED
        BY <1>1, <2>2, <2>7, <3>1, <3>2
    <3> QED
      BY <2>1, <2>4, <2>5, <3>3 DEF b
  <2> QED
    BY <2>6, <2>7
<1>6. 0..m \subseteq S
  <2> HIDE DEF S
  <2> QED
    BY <1>1, <1>4, <1>5, AllNumbers
<1>7. Here(m)
  <2> HIDE DEF Here
  <2> QED
    BY <1>1, <1>6
<1> DEFINE d == F[m]
           e == BumpPass(d, hub, edges)
<1>8. /\ d \in Bumps(n, hub) /\ Further(n, c, d)
      /\ Crosses(d, edges) \/ size(d) >= m
  BY <1>7
<1> HIDE DEF d, e
<1>9. e \in Bumps(n, hub) /\ Further(n, d, e) /\ (e = d <=> Crosses(d, edges))
  BY <1>8, PassFacts DEF e
<1>10. Crosses(d, edges)
  <2> SUFFICES ASSUME ~Crosses(d, edges) PROVE FALSE
    OBVIOUS
  <2>1. size(d) < size(e)
    BY <1>1, <1>8, <1>9, ReachFacts
  <2>2. size(d) \in 0..m /\ size(e) \in 0..m
    BY <1>3, <1>8, <1>9
  <2> HIDE DEF size
  <2> QED
    BY <1>1, <1>8, <2>1, <2>2
<1> QED
  BY <1>2, <1>8, <1>10 DEF d
-----------------------------------------------------------------------------
(* The columns and their rows *)

\* Fractions compare like their numerators over the same denominator.
LEMMA TimesKeeps ==
  ASSUME NEW x \in Int, NEW y \in Int, NEW z \in Int, z > 0
  PROVE  (x < y <=> x * z < y * z) /\ (x = y <=> x * z = y * z)
<1>1. ASSUME NEW u \in Int, NEW v \in Int, u < v PROVE u * z < v * z
  <2> DEFINE w == v - u
  <2>1. w \in Int /\ w > 0 /\ v = u + w
    BY <1>1
  <2> HIDE DEF w
  <2>2. w * z > 0 /\ u * z \in Int /\ w * z \in Int
    BY <2>1
  <2>3. (u + w) * z = u * z + w * z
    BY <2>1
  <2> QED
    BY <2>1, <2>2, <2>3
<1>2. x < y \/ x = y \/ y < x
  OBVIOUS
<1>3. x * z \in Int /\ y * z \in Int
  OBVIOUS
<1>4. x < y => x * z < y * z
  BY <1>1
<1>5. y < x => y * z < x * z
  BY <1>1
<1>6. x = y => x * z = y * z
  OBVIOUS
<1> HIDE <1>1
<1> DEFINE p == x * z
           q == y * z
<1> HIDE DEF p, q
<1> SUFFICES (x < y <=> p < q) /\ (x = y <=> p = q)
  BY DEF p, q
<1> QED
  BY <1>2, <1>3, <1>4, <1>5, <1>6 DEF p, q

\* Fractions are in an order.
LEMMA FractionsOrder ==
  ASSUME NEW a \in Int, NEW b \in Int, NEW c \in Int,
         NEW p \in Int, NEW q \in Int, NEW r \in Int, p > 0, q > 0, r > 0,
         a * q <= b * p, b * r <= c * q
  PROVE  /\ a * r <= c * p
         /\ (a * q < b * p \/ b * r < c * q) => a * r < c * p
<1> DEFINE aqr == (a * q) * r
           bpr == (b * p) * r
           cqp == (c * q) * p
<1>1. /\ a * q \in Int /\ b * p \in Int /\ b * r \in Int /\ c * q \in Int /\ a * r \in Int /\ c * p \in Int
      /\ aqr \in Int /\ bpr \in Int /\ cqp \in Int
  OBVIOUS
<1>2. aqr <= bpr /\ (a * q < b * p => aqr < bpr)
  BY <1>1, TimesKeeps
<1>3. (b * r) * p = bpr
  OBVIOUS
<1>4. bpr <= cqp /\ (b * r < c * q => bpr < cqp)
  BY <1>1, <1>3, TimesKeeps
<1>5. aqr = (a * r) * q /\ cqp = (c * p) * q
  OBVIOUS
<1>6. aqr <= cqp /\ ((a * q < b * p \/ b * r < c * q) => aqr < cqp)
  <2> HIDE DEF aqr, bpr, cqp
  <2> QED
    BY <1>1, <1>2, <1>4
<1>7. (a * r < c * p <=> aqr < cqp) /\ (a * r = c * p <=> aqr = cqp)
  BY <1>1, <1>5, TimesKeeps
<1> HIDE DEF aqr, bpr, cqp
<1> DEFINE x == a * r
           y == c * p
<1> HIDE DEF x, y
<1>8. (x < y <=> aqr < cqp) /\ (x = y <=> aqr = cqp) /\ x \in Int /\ y \in Int
  BY <1>1, <1>7 DEF x, y
<1>9. x <= y /\ ((a * q < b * p \/ b * r < c * q) => x < y)
  BY <1>1, <1>6, <1>8
<1> QED
  BY <1>9 DEF x, y

\* Each node but the hub has a side.
LEMMA SidesFacts ==
  ASSUME NEW n, NEW edges, NEW hub
  PROVE  PartitionSides(n, edges, hub) \in [Others(n, hub) -> {1, -1}]
<1> DEFINE rest       == RestEdges(edges, hub)
           components == ConnectedComponents(Others(n, hub), rest)
           right      == IF Cardinality(components) > 1 THEN LptAssign(components)
                         ELSE KlSwap(Others(n, hub), rest, Grown(n, edges, hub))
<1>1. PartitionSides(n, edges, hub) = [id \in Others(n, hub) |-> IF id \in right THEN 1 ELSE -1]
  BY DEF PartitionSides
<1> HIDE DEF right
<1> QED
  BY <1>1

\* The columns a graph is laid out in.
ColumnsOf(n, edges, hub, column) ==
  /\ column \in [1..n -> Nat] /\ Crosses(column, edges)
  /\ \A id \in Others(n, hub) :
       /\ column[id] # column[hub]
       /\ \/ column[id] - column[hub] >= BfsDistance(n, edges, hub)[id]
          \/ column[hub] - column[id] >= BfsDistance(n, edges, hub)[id]
  /\ IsFiniteSet(Range(column)) /\ Range(column) # {} /\ Min(Range(column)) = 0

\* What has a side is in a column on that side, as far from the hub as its edges
\* lead or further, and no edge is within a column.
LEMMA SignedColumnsFacts ==
  ASSUME NEW n, NEW edges, Graph(n, edges), NEW hub \in 1..n,
         NEW side \in [Others(n, hub) -> {1, -1}]
  PROVE  LET column == SignedColumns(n, edges, hub, side)
         IN  /\ ColumnsOf(n, edges, hub, column)
             /\ \A id \in Others(n, hub) : column[id] > column[hub] <=> side[id] = 1
<1> DEFINE distance == BfsDistance(n, edges, hub)
           first == [id \in 1..n |-> IF id = hub THEN 0 ELSE side[id] * distance[id]]
           c == BumpSameColumnEdges(n, first, hub, edges)
           least == Min(Range(c))
           d == SignedColumns(n, edges, hub, side)
<1>1. n \in Nat \ {0} /\ IsFiniteSet(1..n)
  BY UpTo DEF Graph
<1>2. distance \in [1..n -> 0..n] /\ \A id \in 1..n : distance[id] = 0 <=> id = hub
  BY DistanceFacts
<1>3. d = [id \in 1..n |-> c[id] - Min(Range(c))]
  BY DEF SignedColumns
<1> HIDE DEF distance, d
<1>4. \A id \in 1..n : /\ first[id] \in Int /\ (first[id] = 0 <=> id = hub)
                       /\ Size(first[id]) = distance[id]
  <2> SUFFICES ASSUME NEW id \in 1..n
               PROVE  /\ first[id] \in Int /\ (first[id] = 0 <=> id = hub)
                      /\ Size(first[id]) = distance[id]
    OBVIOUS
  <2>1. CASE id = hub
    BY <1>2, <2>1 DEF Size
  <2>2. CASE id # hub
    <3>1. side[id] \in {1, -1} /\ distance[id] \in Nat /\ distance[id] # 0
      BY <1>1, <1>2, <2>2 DEF Others
    <3>2. first[id] = distance[id] \/ first[id] = -distance[id]
      BY <2>2, <3>1
    <3> HIDE DEF first
    <3> QED
      BY <2>2, <3>1, <3>2 DEF Size
  <2> QED
    BY <2>1, <2>2
<1>5. first \in Bumps(n, hub)
  <2>1. first \in [1..n -> Int]
    BY <1>4
  <2>2. ASSUME NEW k \in Nat, k >= n, NEW id \in 1..n, Size(first[id]) > k PROVE FALSE
    <3>1. Size(first[id]) \in 0..n
      BY <1>2, <1>4
    <3> HIDE DEF first
    <3> QED
      BY <1>1, <2>2, <3>1
  <2> HIDE DEF first
  <2> QED
    BY <1>4, <2>1, <2>2 DEF Bumps
<1>6. c \in Bumps(n, hub) /\ Further(n, first, c) /\ Crosses(c, edges)
  <2> HIDE DEF first
  <2> QED
    BY <1>5, PassesFacts
<1>7. c \in [1..n -> Int] /\ DOMAIN c = 1..n /\ c = [id \in 1..n |-> c[id]]
      /\ \A id \in 1..n : c[id] = 0 <=> id = hub
  BY <1>6 DEF Bumps
<1> HIDE DEF c
<1>8. IsFiniteSet(Range(c)) /\ Range(c) \in SUBSET Int /\ \A id \in 1..n : c[id] \in Range(c)
  BY <1>1, <1>7, FiniteRange DEF Range
<1>9. least \in Range(c) /\ \A x \in Range(c) : least <= x
  <2>1. Range(c) # {}
    BY <1>8
  <2> QED
    BY <1>8, <2>1, MinFacts
<1> HIDE DEF least
<1>10. least \in Int /\ \A id \in 1..n : d[id] = c[id] - least /\ c[id] \in Int /\ least <= c[id]
  BY <1>3, <1>7, <1>8, <1>9 DEF least
<1>11. d \in [1..n -> Nat]
  <2>1. DOMAIN d = 1..n /\ d = [id \in 1..n |-> d[id]]
    BY <1>3
  <2>2. \A id \in 1..n : d[id] \in Nat
    BY <1>10
  <2> QED
    BY <2>1, <2>2
<1>12. Crosses(d, edges)
  <2> SUFFICES ASSUME NEW i \in 1..Len(edges) PROVE d[edges[i].source] # d[edges[i].target]
    BY DEF Crosses
  <2>1. edges[i].source \in 1..n /\ edges[i].target \in 1..n
    BY DEF Graph
  <2>2. c[edges[i].source] # c[edges[i].target]
    BY <1>6 DEF Crosses
  <2> DEFINE s == edges[i].source
             t == edges[i].target
  <2> HIDE DEF s, t
  <2>3. s \in 1..n /\ t \in 1..n /\ c[s] # c[t]
    BY <2>1, <2>2 DEF s, t
  <2>4. d[s] # d[t]
    BY <1>10, <2>3
  <2> QED
    BY <2>4 DEF s, t
<1>13. ASSUME NEW id \in Others(n, hub)
       PROVE  /\ d[id] # d[hub]
              /\ d[id] - d[hub] >= distance[id] \/ d[hub] - d[id] >= distance[id]
  <2>1. id \in 1..n /\ id # hub /\ hub \in 1..n
    BY DEF Others
  <2>2. c[id] # 0 /\ c[hub] = 0 /\ c[id] \in Int
    BY <1>7, <2>1
  <2>3. Size(c[id]) >= distance[id] /\ distance[id] \in Nat
    <3>1. Size(c[id]) >= Size(first[id])
      BY <1>6, <2>1 DEF Further
    <3> HIDE DEF first
    <3> QED
      BY <1>2, <1>4, <2>1, <3>1
  <2>4. d[id] = c[id] - least /\ d[hub] = 0 - least /\ least \in Int
    BY <1>10, <2>1, <2>2
  <2>5. c[id] >= distance[id] \/ -c[id] >= distance[id]
    BY <2>2, <2>3 DEF Size
  <2>6. d[id] - d[hub] = c[id] /\ d[hub] - d[id] = -c[id]
    BY <2>2, <2>4
  <2> QED
    BY <2>2, <2>4, <2>5, <2>6
<1>14. IsFiniteSet(Range(d)) /\ Range(d) # {} /\ Range(d) \in SUBSET Int
  BY <1>1, <1>11, FiniteRange DEF Range
<1>15. Min(Range(d)) = 0
  <2>1. Min(Range(d)) \in Range(d) /\ \A x \in Range(d) : Min(Range(d)) <= x
    BY <1>14, MinFacts
  <2>2. PICK id \in 1..n : c[id] = least
    BY <1>7, <1>9 DEF Range
  <2>3. d[id] = 0
    BY <1>10, <2>2
  <2>4. 0 \in Range(d) /\ \A x \in Range(d) : x \in Nat
    BY <1>11, <2>3 DEF Range
  <2> QED
    BY <2>1, <2>4
<1>16. ASSUME NEW id \in Others(n, hub) PROVE d[id] > d[hub] <=> side[id] = 1
  <2>1. id \in 1..n /\ id # hub /\ hub \in 1..n
    BY DEF Others
  <2>2. c[id] # 0 /\ c[hub] = 0 /\ c[id] \in Int
    BY <1>7, <2>1
  <2>3. d[id] = c[id] - least /\ d[hub] = 0 - least /\ least \in Int
    BY <1>10, <2>1, <2>2
  <2>4. distance[id] \in Nat \ {0} /\ side[id] \in {1, -1}
    BY <1>1, <1>2, <2>1
  <2>5. first[id] = side[id] * distance[id]
    BY <2>1
  <2>6. (side[id] = 1 => first[id] > 0) /\ (side[id] = -1 => first[id] < 0)
    <3>1. side[id] = 1 => first[id] = distance[id]
      BY <2>4, <2>5
    <3>2. side[id] = -1 => first[id] = -distance[id]
      BY <2>4, <2>5
    <3> HIDE DEF first
    <3> QED
      BY <2>4, <3>1, <3>2
  <2>7. (first[id] > 0 => c[id] > 0) /\ (first[id] < 0 => c[id] < 0)
    <3> HIDE DEF first
    <3> QED
      BY <1>6, <2>1 DEF Further
  <2> HIDE DEF first
  <2>8. (side[id] = 1 => c[id] > 0) /\ (side[id] = -1 => c[id] < 0)
    BY <2>6, <2>7
  <2>9. d[id] > d[hub] <=> c[id] > 0
    BY <2>2, <2>3
  <2> QED
    BY <2>2, <2>4, <2>8, <2>9
<1>17. ColumnsOf(n, edges, hub, d)
  BY <1>11, <1>12, <1>13, <1>14, <1>15 DEF ColumnsOf, distance
<1> HIDE DEF first
<1> QED
  BY <1>16, <1>17 DEF d

\* The nodes of a column, and the rows that have each in its column once.
In(n, column, c) == {id \in 1..n : column[id] = c}
RowOrders(n, column) ==
  {rows \in [Range(column) -> Seq(1..n)] : \A c \in Range(column) : Lists(rows[c], In(n, column, c))}

\* No column is empty, and each node is in its own.
LEMMA InFacts ==
  ASSUME NEW n \in Nat, NEW column \in [1..n -> Nat], NEW c \in Range(column)
  PROVE  /\ In(n, column, c) \in SUBSET (1..n) /\ IsFiniteSet(In(n, column, c)) /\ In(n, column, c) # {}
         /\ \A id \in 1..n : column[id] \in Range(column) /\ id \in In(n, column, column[id])
<1>1. IsFiniteSet(1..n)
  BY UpTo
<1>2. In(n, column, c) \in SUBSET (1..n) /\ In(n, column, c) # {}
  BY DEF In, Range
<1>3. IsFiniteSet(In(n, column, c))
  BY <1>1, <1>2, FS_Subset
<1> QED
  BY <1>2, <1>3 DEF In, Range

\* A mean is a fraction.
LEMMA BarycenterFacts ==
  ASSUME NEW n, NEW edges, Graph(n, edges), NEW column \in [1..n -> Nat],
         NEW rows \in RowOrders(n, column), NEW id \in 1..n, NEW direction
  PROVE  /\ Barycenter(rows, column, edges, id, direction).sum \in Int
         /\ Barycenter(rows, column, edges, id, direction).of \in Nat \ {0}
<1> DEFINE refs == {m \in Neighbors(edges, id) : (column[m] - column[id]) * direction > 0}
           At   == [m \in refs |-> PositionIn(rows[column[m]], m)]
           b    == Barycenter(rows, column, edges, id, direction)
<1>1. n \in Nat
  BY DEF Graph
<1>2. ASSUME NEW m \in 1..n PROVE PositionIn(rows[column[m]], m) \in Int
  <2> DEFINE ids == In(n, column, column[m])
  <2>1. column[m] \in Range(column) /\ m \in ids
    BY <1>1 DEF Range, In
  <2>2. Lists(rows[column[m]], ids)
    BY <2>1 DEF RowOrders
  <2> HIDE DEF ids
  <2>3. PositionIn(rows[column[m]], m) \in 1..Cardinality(ids) /\ Cardinality(ids) \in Nat
    BY <2>1, <2>2, PositionFacts DEF Lists
  <2> QED
    BY <2>3
<1>3. refs \subseteq Neighbors(edges, id) /\ Neighbors(edges, id) \subseteq 1..n
      /\ IsFiniteSet(Neighbors(edges, id))
  BY NeighborFacts
<1>4. refs \in SUBSET Int /\ IsFiniteSet(refs)
  <2> HIDE DEF refs
  <2> QED
    BY <1>1, <1>3, FS_Subset
<1>5. b = IF refs = {} THEN [sum |-> PositionIn(rows[column[id]], id), of |-> 1]
          ELSE [sum |-> SumOver(At, refs), of |-> Cardinality(refs)]
  BY DEF Barycenter
<1>6. At \in [refs -> Int]
  <2> HIDE DEF refs
  <2> QED
    BY <1>2, <1>3
<1> HIDE DEF refs, At, b
<1>7. CASE refs = {}
  BY <1>2, <1>5, <1>7 DEF b
<1>8. CASE refs # {}
  <2>1. SumOver(At, refs) \in Int
    BY <1>4, <1>6, SumOverIsInt
  <2>2. Cardinality(refs) \in Nat \ {0}
    BY <1>4, <1>8, FS_EmptySet, FS_CardinalityType
  <2> QED
    BY <1>5, <1>8, <2>1, <2>2 DEF b
<1> QED
  BY <1>7, <1>8

\* A column sorted has the nodes it had.
LEMMA SortColumnFacts ==
  ASSUME NEW n, NEW edges, Graph(n, edges), NEW column \in [1..n -> Nat],
         NEW rows \in RowOrders(n, column), NEW c \in Range(column), NEW direction
  PROVE  SortColumn(rows, column, edges, c, direction) \in RowOrders(n, column)
<1> DEFINE ids == Range(rows[c])
           key == [id \in ids |-> Barycenter(rows, column, edges, id, direction)]
           Before(i, j) ==
             \/ key[i].sum * key[j].of < key[j].sum * key[i].of
             \/ key[i].sum * key[j].of = key[j].sum * key[i].of /\ i < j
           before == {p \in ids \X ids : Before(p[1], p[2])}
<1>1. n \in Nat
  BY DEF Graph
<1>2. Lists(rows[c], In(n, column, c))
  BY DEF RowOrders
<1>3. ids = In(n, column, c)
  BY <1>2, PositionFacts
<1>4. ids \in SUBSET (1..n) /\ IsFiniteSet(ids)
  BY <1>1, <1>3, InFacts
<1> HIDE DEF ids
<1>5. \A i \in ids : key[i].sum \in Int /\ key[i].of \in Nat \ {0} /\ i \in Int
  BY <1>1, <1>4, BarycenterFacts
<1> HIDE DEF key
<1>6. IsOrder(ids, before)
  <2>1. \A x, y \in ids : <<x, y>> \in before <=> Before(x, y)
    OBVIOUS
  <2> HIDE DEF before
  <2>2. ASSUME NEW x \in ids PROVE ~Before(x, x)
    <3>1. key[x].sum * key[x].of \in Int
      BY <1>5
    <3> QED
      BY <1>5, <3>1
  <2>3. ASSUME NEW x \in ids, NEW y \in ids, NEW z \in ids, Before(x, y), Before(y, z)
        PROVE  Before(x, z)
    <3> DEFINE a == key[x].sum  b == key[y].sum  d == key[z].sum
               p == key[x].of  q == key[y].of  r == key[z].of
    <3>1. /\ a \in Int /\ b \in Int /\ d \in Int /\ p \in Int /\ q \in Int /\ r \in Int
          /\ p > 0 /\ q > 0 /\ r > 0 /\ x \in Int /\ y \in Int /\ z \in Int
      BY <1>5
    <3>2. /\ a * q < b * p \/ (a * q = b * p /\ x < y)
          /\ b * r < d * q \/ (b * r = d * q /\ y < z)
      BY <2>3
    <3> SUFFICES a * r < d * p \/ (a * r = d * p /\ x < z)
      OBVIOUS
    <3> HIDE DEF a, b, d, p, q, r
    <3>3. a * q \in Int /\ b * p \in Int /\ b * r \in Int /\ d * q \in Int /\ a * r \in Int /\ d * p \in Int
      BY <3>1
    <3>4. a * q <= b * p /\ b * r <= d * q
      BY <3>2, <3>3
    <3>5. a * r <= d * p /\ ((a * q < b * p \/ b * r < d * q) => a * r < d * p)
      BY <3>1, <3>4, FractionsOrder
    <3> QED
      BY <3>1, <3>2, <3>3, <3>5
  <2>4. ASSUME NEW x \in ids, NEW y \in ids, x # y PROVE Before(x, y) \/ Before(y, x)
    <3>1. key[x].sum * key[y].of \in Int /\ key[y].sum * key[x].of \in Int /\ x \in Int /\ y \in Int
      BY <1>5
    <3> QED
      BY <2>4, <3>1
  <2> HIDE DEF Before
  <2> QED
    BY <2>1, <2>2, <2>3, <2>4 DEF IsOrder
<1>7. SortColumn(rows, column, edges, c, direction) = [rows EXCEPT ![c] = Sorted(ids, before)]
  BY DEF SortColumn, ids, key
<1> HIDE DEF before
<1>8. Lists(Sorted(ids, before), ids)
  BY <1>4, <1>6, SortedFacts
<1> DEFINE s == Sorted(ids, before)
           new == [rows EXCEPT ![c] = s]
<1> HIDE DEF s
<1>9. s \in Seq(1..n)
  <2>1. s \in Seq(ids) /\ DOMAIN s = 1..Cardinality(ids) /\ Cardinality(ids) \in Nat
        /\ s \in [1..Cardinality(ids) -> ids]
    BY <1>8 DEF Lists, s
  <2>2. s \in [1..Cardinality(ids) -> 1..n]
    BY <1>4, <2>1
  <2> QED
    BY <2>1, <2>2, IsSequence
<1>10. rows \in [Range(column) -> Seq(1..n)] /\ \A k \in Range(column) : Lists(rows[k], In(n, column, k))
  BY DEF RowOrders
<1>11. new \in [Range(column) -> Seq(1..n)] /\ new[c] = s /\ \A k \in Range(column) : k # c => new[k] = rows[k]
  BY <1>9, <1>10
<1>12. \A k \in Range(column) : Lists(new[k], In(n, column, k))
  <2> HIDE DEF new
  <2> QED
    BY <1>3, <1>8, <1>10, <1>11 DEF s
<1> HIDE DEF new
<1>13. new \in RowOrders(n, column)
  BY <1>11, <1>12 DEF RowOrders
<1> QED
  BY <1>7, <1>13 DEF new, s

\* The columns one after the other.
LEMMA SweptSteps ==
  ASSUME NEW n, NEW edges, Graph(n, edges), NEW column \in [1..n -> Nat],
         NEW rows \in RowOrders(n, column), NEW columns \in Seq(Range(column)), NEW direction
  PROVE  \E F \in [0..Len(columns) -> RowOrders(n, column)] :
           /\ F[0] = rows /\ \A k \in 1..Len(columns) : F[k] = SortColumn(F[k - 1], column, edges, columns[k], direction)
           /\ Swept(rows, column, edges, columns, direction) = F[Len(columns)]
<1> DEFINE m == Len(columns)
           V == RowOrders(n, column)
           first == rows
           next(k, a) == SortColumn(a, column, edges, columns[k], direction)
           body(G, k) == IF k = 0 THEN first ELSE next(k, G[k - 1])
           F == CHOOSE G : G = [k \in 0..m |-> body(G, k)]
           step == [k \in 1..m |-> [a \in V |-> next(k, a)]]
<1>1. m \in Nat
  BY LenProperties
<1>2. first \in V
  OBVIOUS
<1>3. Swept(rows, column, edges, columns, direction) = F[m]
  BY DEF Swept
<1>4. ASSUME NEW k \in 1..m, NEW a \in V PROVE next(k, a) \in V
  <2>1. columns[k] \in Range(column)
    BY ElementOfSeq
  <2> QED
    BY <2>1, SortColumnFacts
<1> HIDE DEF m, V, first, next
<1>5. step \in [1..m -> [V -> V]]
  BY <1>4
<1>6. PICK G \in [0..m -> V] : Recurs(G, m, first, step)
  <2> HIDE DEF step
  <2> QED
    BY <1>1, <1>2, <1>5, RecursionExists
<1>7. G[0] = first /\ \A k \in 1..m : G[k] = step[k][G[k - 1]]
  BY <1>6 DEF Recurs
<1>8. ASSUME NEW k \in 0..m PROVE G[k] = body(G, k)
  <2>1. CASE k = 0
    BY <1>7, <2>1
  <2>2. CASE k # 0
    <3>1. k \in 1..m /\ k - 1 \in 0..m
      BY <1>1, <2>2
    <3>2. G[k - 1] \in V
      BY <3>1
    <3> QED
      BY <1>7, <2>2, <3>1, <3>2
  <2> QED
    BY <2>1, <2>2
<1>9. G = [k \in 0..m |-> body(G, k)]
  <2> HIDE DEF body
  <2> QED
    BY <1>8
<1>10. F = [k \in 0..m |-> body(F, k)]
  <2> HIDE DEF body
  <2> QED
    BY <1>9
<1> HIDE DEF F
<1>11. \A k \in 0..m : F[k] = body(F, k)
  <2> HIDE DEF body
  <2> QED
    BY <1>10
<1>12. F[0] = first
  BY <1>1, <1>11
<1>13. \A k \in 1..m : F[k] = next(k, F[k - 1])
  BY <1>1, <1>11
<1>14. \A k \in 0..m : F[k] \in V
  <2>1. F[0] \in V /\ \A k \in 1..m : F[k - 1] \in V => F[k] \in V
    BY <1>2, <1>4, <1>12, <1>13
  <2> QED
    BY <1>1, <2>1, RecursionKeeps
<1>15. DOMAIN F = 0..m
  <2> HIDE DEF body
  <2> QED
    BY <1>10
<1>16. F \in [0..m -> V]
  <2>1. F = [k \in 0..m |-> F[k]]
    <3> HIDE DEF body
    <3> QED
      BY <1>10
  <2> QED
    BY <1>14, <2>1
<1> QED
  BY <1>3, <1>12, <1>13, <1>16 DEF m, V, first, next

\* A sweep leaves each column its nodes.
LEMMA SweptFacts ==
  ASSUME NEW n, NEW edges, Graph(n, edges), NEW column \in [1..n -> Nat],
         NEW rows \in RowOrders(n, column), NEW columns \in Seq(Range(column)), NEW direction
  PROVE  Swept(rows, column, edges, columns, direction) \in RowOrders(n, column)
<1>1. PICK F \in [0..Len(columns) -> RowOrders(n, column)] :
        Swept(rows, column, edges, columns, direction) = F[Len(columns)]
  BY SweptSteps
<1>2. Len(columns) \in 0..Len(columns)
  BY LenProperties
<1> QED
  BY <1>1, <1>2

\* A sequence from its end.
LEMMA ReversedFacts ==
  ASSUME NEW S, NEW s \in Seq(S)
  PROVE  Reversed(s) \in Seq(S)
<1>1. Len(s) \in Nat /\ \A i \in 1..Len(s) : s[i] \in S
  BY LenProperties, ElementOfSeq
<1>2. \A i \in 1..Len(s) : Len(s) + 1 - i \in 1..Len(s)
  BY <1>1
<1>3. Reversed(s) \in [1..Len(s) -> S]
  BY <1>1, <1>2 DEF Reversed
<1> QED
  BY <1>1, <1>3, IsSequence

\* The rows of each column are its nodes, each once.
LEMMA OrderColumnsFacts ==
  ASSUME NEW n, NEW edges, Graph(n, edges), NEW column \in [1..n -> Nat], IsFiniteSet(Range(column))
  PROVE  OrderColumns(n, edges, column) \in RowOrders(n, column)
<1> DEFINE columns == Ascending(Range(column))
           first   == [c \in Range(column) |-> Ascending({id \in 1..n : column[id] = c})]
           Round(rows) ==
             Swept(Swept(rows, column, edges, columns, -1), column, edges, Reversed(columns), 1)
           R == RowOrders(n, column)
<1>1. n \in Nat /\ Range(column) \in SUBSET Int
  BY DEF Graph, Range
<1>2. columns \in Seq(Range(column))
  BY <1>1, AscendingFacts DEF Lists
<1>3. Reversed(columns) \in Seq(Range(column))
  <2> HIDE DEF columns
  <2> QED
    BY <1>2, ReversedFacts
<1>4. first \in R
  <2>1. ASSUME NEW c \in Range(column) PROVE first[c] \in Seq(1..n) /\ Lists(first[c], In(n, column, c))
    <3> DEFINE ids == In(n, column, c)
               s == Ascending(ids)
    <3>1. ids \in SUBSET (1..n) /\ IsFiniteSet(ids)
      BY <1>1, InFacts
    <3>2. first[c] = s
      BY DEF In
    <3> HIDE DEF ids, s
    <3>3. Lists(s, ids)
      BY <1>1, <3>1, AscendingFacts DEF s
    <3>4. s \in [1..Cardinality(ids) -> 1..n] /\ Cardinality(ids) \in Nat
      BY <3>1, <3>3 DEF Lists
    <3>5. s \in Seq(1..n)
      BY <3>4, IsSequence
    <3> QED
      BY <3>2, <3>3, <3>5 DEF ids
  <2> HIDE DEF first
  <2>2. first \in [Range(column) -> Seq(1..n)]
    BY <2>1 DEF first
  <2> QED
    BY <2>1, <2>2 DEF RowOrders
<1>5. ASSUME NEW rows \in R PROVE Round(rows) \in R
  <2>1. Swept(rows, column, edges, columns, -1) \in R
    <3> HIDE DEF columns
    <3> QED
      BY <1>2, SweptFacts
  <2> HIDE DEF columns
  <2> QED
    BY <1>3, <2>1, SweptFacts
<1>6. OrderColumns(n, edges, column) = Round(Round(first))
  BY DEF OrderColumns
<1> HIDE DEF R, Round, first
<1> QED
  BY <1>4, <1>5, <1>6 DEF R

\* A layout of a graph.
LayoutOf(n, edges, l) ==
  /\ l.hub \in 1..n /\ ColumnsOf(n, edges, l.hub, l.column)
  /\ l.row_order \in RowOrders(n, l.column)
  /\ \A id \in Others(n, l.hub) :
       l.column[id] > l.column[l.hub] <=> PartitionSides(n, edges, l.hub)[id] = 1

\* A graph in one piece gets a layout.
LEMMA ComputeLayoutFacts ==
  ASSUME NEW n, NEW edges, Graph(n, edges)
  PROVE  LayoutOf(n, edges, ComputeLayout(n, edges))
<1> DEFINE hub    == SelectHub(n, edges)
           column == SignedColumns(n, edges, hub, PartitionSides(n, edges, hub))
           order  == OrderColumns(n, edges, column)
<1>1. ComputeLayout(n, edges) = [hub |-> hub, column |-> column, row_order |-> order]
  BY DEF ComputeLayout
<1>2. hub \in 1..n
  BY HubFacts
<1>3. /\ ColumnsOf(n, edges, hub, column)
      /\ \A id \in Others(n, hub) : column[id] > column[hub] <=> PartitionSides(n, edges, hub)[id] = 1
  <2> HIDE DEF hub
  <2>1. PartitionSides(n, edges, hub) \in [Others(n, hub) -> {1, -1}]
    BY SidesFacts
  <2> QED
    BY <1>2, <2>1, SignedColumnsFacts
<1> HIDE DEF hub, column
<1>4. order \in RowOrders(n, column)
  BY <1>3, OrderColumnsFacts DEF ColumnsOf
<1> HIDE DEF order
<1> QED
  BY <1>1, <1>2, <1>3, <1>4 DEF LayoutOf
-----------------------------------------------------------------------------
(* The sides: components, and two sides grown and swapped *)

\* Edges that join two nodes each, and no two of them the same.
Joining(ids, rest) ==
  /\ IsFiniteSet(rest)
  /\ \A e \in rest : e.source \in ids /\ e.target \in ids /\ e.source # e.target
  /\ \A e, f \in rest : {e.source, e.target} = {f.source, f.target} => e = f

\* What is connected to a node is closed, and the same for each node it has.
LEMMA ComponentFacts ==
  ASSUME NEW ids, NEW rest, Joining(ids, rest), NEW id \in ids
  PROVE  /\ id \in Component(ids, rest, id) /\ Component(ids, rest, id) \in SUBSET ids
         /\ \A m \in Component(ids, rest, id) : Component(ids, rest, m) = Component(ids, rest, id)
<1> DEFINE C(m) == Component(ids, rest, m)
<1>1. ASSUME NEW m \in ids
      PROVE  m \in C(m) /\ C(m) \in SUBSET ids
  BY DEF Component
<1>2. ASSUME NEW m \in ids, NEW c \in SUBSET ids, m \in c, Closed(c, rest)
      PROVE  C(m) \subseteq c
  BY <1>2 DEF Component
<1>3. ASSUME NEW m \in ids PROVE Closed(C(m), rest)
  <2> SUFFICES ASSUME NEW e \in rest PROVE e.source \in C(m) <=> e.target \in C(m)
    BY DEF Closed
  <2>1. e.source \in ids /\ e.target \in ids
    BY DEF Joining
  <2>2. \A c \in SUBSET ids : Closed(c, rest) => (e.source \in c <=> e.target \in c)
    BY DEF Closed
  <2> QED
    BY <2>1, <2>2 DEF Component
<1>4. ASSUME NEW c, Closed(c, rest) PROVE Closed(ids \ c, rest)
  BY <1>4 DEF Closed, Joining
<1>5. ASSUME NEW m \in C(id) PROVE C(m) = C(id)
  <2>1. m \in ids
    BY <1>1
  <2> HIDE DEF C
  <2>2. C(m) \subseteq C(id)
    BY <1>1, <1>2, <1>3, <1>5, <2>1
  <2>3. id \in C(m)
    <3> SUFFICES ASSUME id \notin C(m) PROVE FALSE
      OBVIOUS
    <3>1. C(id) \subseteq ids \ C(m)
      <4>1. Closed(ids \ C(m), rest)
        BY <1>3, <1>4, <2>1
      <4>2. id \in ids \ C(m) /\ ids \ C(m) \in SUBSET ids
        OBVIOUS
      <4> QED
        BY <1>2, <4>1, <4>2
    <3> QED
      BY <1>1, <1>5, <2>1, <3>1
  <2>4. C(id) \subseteq C(m)
    BY <1>1, <1>2, <1>3, <2>1, <2>3
  <2> QED
    BY <2>2, <2>4
<1> QED
  BY <1>1, <1>5

\* Some nodes in parts of which no two share one.
Parts(n, parts) ==
  /\ n \in Nat /\ parts \in SUBSET SUBSET (1..n)
  /\ \A p \in parts : p # {}
  /\ \A p, q \in parts : p = q \/ p \cap q = {}

\* The connected components are parts of the nodes, and have all of them.
LEMMA ConnectedParts ==
  ASSUME NEW n \in Nat, NEW ids \in SUBSET (1..n), NEW rest, Joining(ids, rest)
  PROVE  Parts(n, ConnectedComponents(ids, rest)) /\ UNION ConnectedComponents(ids, rest) = ids
<1> DEFINE parts == ConnectedComponents(ids, rest)
           C(m) == Component(ids, rest, m)
<1>1. parts = {C(id) : id \in ids}
  BY DEF ConnectedComponents
<1>2. \A id \in ids : id \in C(id) /\ C(id) \in SUBSET ids /\ \A m \in C(id) : C(m) = C(id)
  BY ComponentFacts
<1> HIDE DEF parts, C
<1>3. \A p, q \in parts : p = q \/ p \cap q = {}
  <2> SUFFICES ASSUME NEW p \in parts, NEW q \in parts, NEW m, m \in p, m \in q PROVE p = q
    OBVIOUS
  <2>1. p = C(m) /\ q = C(m)
    BY <1>1, <1>2
  <2> QED
    BY <2>1
<1>4. \A p \in parts : p \in SUBSET (1..n) /\ p # {} /\ p \subseteq ids
  <2> SUFFICES ASSUME NEW id \in ids
               PROVE  C(id) \in SUBSET (1..n) /\ C(id) # {} /\ C(id) \subseteq ids
    BY <1>1
  <2> QED
    BY <1>2
<1>5. \A id \in ids : \E p \in parts : id \in p
  BY <1>1, <1>2
<1>6. UNION parts = ids
  BY <1>4, <1>5
<1> QED
  BY <1>3, <1>4, <1>6 DEF Parts, parts

\* What is put into one of two sets.
LEMMA DisjointUnion ==
  ASSUME NEW S, NEW T, IsFiniteSet(S), IsFiniteSet(T), S \cap T = {}
  PROVE  /\ IsFiniteSet(S \cup T) /\ Cardinality(S) \in Nat /\ Cardinality(T) \in Nat
         /\ Cardinality(S \cup T) = Cardinality(S) + Cardinality(T)
<1>1. IsFiniteSet(S \cup T) /\ Cardinality(S \cup T) = Cardinality(S) + Cardinality(T) - Cardinality(S \cap T)
  BY FS_Union
<1>2. Cardinality(S \cap T) = 0
  BY FS_EmptySet
<1>3. Cardinality(S) \in Nat /\ Cardinality(T) \in Nat
  BY FS_CardinalityType
<1> QED
  BY <1>1, <1>2, <1>3

\* The parts in the order they are assigned, and the sides after each.
LEMMA LptSteps ==
  ASSUME NEW n, NEW parts, Parts(n, parts)
  PROVE  \E s, F :
           /\ Lists(s, parts) /\ F \in [0..Cardinality(parts) -> [right : SUBSET (1..n), left : SUBSET (1..n)]]
           /\ F[0] = [right |-> {}, left |-> {}]
           /\ \A k \in 1..Cardinality(parts) :
                F[k] = Assigned(F[k - 1], s[k])
           /\ LptAssign(parts) = F[Cardinality(parts)].right
<1> DEFINE Before(c, d) == \/ Cardinality(c) > Cardinality(d)
                           \/ Cardinality(c) = Cardinality(d) /\ Min(c) < Min(d)
           before == {p \in parts \X parts : Before(p[1], p[2])}
           s == Sorted(parts, before)
           m == Cardinality(parts)
           V == [right : SUBSET (1..n), left : SUBSET (1..n)]
           first == [right |-> {}, left |-> {}]
           next(k, a) == Assigned(a, s[k])
           body(G, k) == IF k = 0 THEN first ELSE next(k, G[k - 1])
           F == CHOOSE G : G = [k \in 0..m |-> body(G, k)]
           step == [k \in 1..m |-> [a \in V |-> next(k, a)]]
<1>1. n \in Nat /\ IsFiniteSet(1..n) /\ parts \in SUBSET SUBSET (1..n)
  BY UpTo DEF Parts
<1>2. IsFiniteSet(parts) /\ m \in Nat
  BY <1>1, FS_SUBSET, FS_Subset, FS_CardinalityType
<1>3. ASSUME NEW p \in parts
      PROVE  Cardinality(p) \in Nat /\ Min(p) \in Int /\ Min(p) \in p
  <2>1. p \in SUBSET Int /\ p # {} /\ IsFiniteSet(p)
    <3>1. p \in SUBSET (1..n) /\ p # {}
      BY <1>1 DEF Parts
    <3>2. IsFiniteSet(p)
      BY <1>1, <3>1, FS_Subset
    <3>3. 1..n \subseteq Int
      BY <1>1
    <3> QED
      BY <3>1, <3>2, <3>3
  <2> QED
    BY <2>1, MinFacts, FS_CardinalityType
<1>4. IsOrder(parts, before)
  <2>1. \A p, q \in parts : <<p, q>> \in before <=> Before(p, q)
    OBVIOUS
  <2>2. \A p, q \in parts : p = q \/ Min(p) # Min(q)
    BY <1>3 DEF Parts
  <2> DEFINE size == [p \in parts |-> Cardinality(p)]
             least == [p \in parts |-> Min(p)]
  <2>3. \A p \in parts : size[p] \in Nat /\ least[p] \in Int
    BY <1>3
  <2>4. \A p, q \in parts : p = q \/ least[p] # least[q]
    BY <2>2
  <2>5. \A p, q \in parts : <<p, q>> \in before
          <=> (size[p] > size[q] \/ (size[p] = size[q] /\ least[p] < least[q]))
    BY <2>1
  <2> HIDE DEF size, least, before
  <2>6. \A x \in parts : <<x, x>> \notin before
    BY <2>3, <2>5
  <2>7. ASSUME NEW x \in parts, NEW y \in parts, x # y
        PROVE  <<x, y>> \in before \/ <<y, x>> \in before
    <3>1. size[x] \in Nat /\ size[y] \in Nat /\ least[x] \in Int /\ least[y] \in Int /\ least[x] # least[y]
      BY <2>3, <2>4, <2>7
    <3>2. \/ size[x] > size[y] \/ (size[x] = size[y] /\ least[x] < least[y])
          \/ size[y] > size[x] \/ (size[y] = size[x] /\ least[y] < least[x])
      BY <3>1
    <3> QED
      BY <2>5, <3>2
  <2>8. ASSUME NEW x \in parts, NEW y \in parts, NEW z \in parts,
               <<x, y>> \in before, <<y, z>> \in before
        PROVE  <<x, z>> \in before
    BY <2>3, <2>5, <2>8
  <2> QED
    BY <2>6, <2>7, <2>8 DEF IsOrder
<1>5. Lists(s, parts)
  <2> HIDE DEF before
  <2> QED
    BY <1>2, <1>4, SortedFacts
<1>6. LptAssign(parts) = F[m].right
  BY DEF LptAssign
<1>7. \A k \in 1..m : s[k] \in SUBSET (1..n)
  <2> HIDE DEF s
  <2> QED
    BY <1>1, <1>5 DEF Lists
<1> HIDE DEF s
<1>8. ASSUME NEW k \in 1..m, NEW a \in V PROVE next(k, a) \in V
  BY <1>7 DEF Assigned
<1>9. first \in V
  OBVIOUS
<1> HIDE DEF m, V, first, next
<1>10. step \in [1..m -> [V -> V]]
  BY <1>8
<1>11. PICK G \in [0..m -> V] : Recurs(G, m, first, step)
  <2> HIDE DEF step
  <2> QED
    BY <1>2, <1>9, <1>10, RecursionExists DEF m
<1>12. G[0] = first /\ \A k \in 1..m : G[k] = step[k][G[k - 1]]
  BY <1>11 DEF Recurs
<1>13. \A k \in 1..m : G[k] = next(k, G[k - 1]) /\ G[k - 1] \in V
  <2> SUFFICES ASSUME NEW k \in 1..m PROVE G[k] = next(k, G[k - 1]) /\ G[k - 1] \in V
    OBVIOUS
  <2>1. k - 1 \in 0..m
    BY <1>2 DEF m
  <2>2. G[k - 1] \in V
    BY <2>1
  <2> QED
    BY <1>12, <2>2
<1>14. ASSUME NEW k \in 0..m PROVE G[k] = body(G, k)
  <2>1. CASE k = 0
    BY <1>12, <2>1
  <2>2. CASE k # 0
    <3>1. k \in 1..m
      BY <1>2, <2>2 DEF m
    <3> QED
      BY <1>13, <2>2, <3>1
  <2> QED
    BY <2>1, <2>2
<1>15. G = [k \in 0..m |-> body(G, k)]
  <2> HIDE DEF body
  <2> QED
    BY <1>14
<1>16. F = [k \in 0..m |-> body(F, k)]
  <2> HIDE DEF body
  <2> QED
    BY <1>15
<1>17. \A k \in 0..m : F[k] = G[k]
  <2> DEFINE T == {k \in 0..m : F[k] = G[k]}
  <2>1. 0 \in T
    <3>1. 0 \in 0..m
      BY <1>2 DEF m
    <3> HIDE DEF F
    <3> QED
      BY <1>12, <1>16, <3>1
  <2>2. ASSUME NEW k \in 1..m, k - 1 \in T PROVE k \in T
    <3>1. k \in 0..m /\ k # 0
      BY <1>2 DEF m
    <3> HIDE DEF F
    <3>2. F[k] = next(k, F[k - 1])
      BY <1>16, <3>1
    <3> QED
      BY <1>13, <2>2, <3>1, <3>2
  <2>3. 0..m \subseteq T
    <3> HIDE DEF T
    <3> QED
      BY <1>2, <2>1, <2>2, AllNumbers DEF m
  <2> QED
    BY <2>3
<1>18. LptAssign(parts) = G[m].right
  <2>1. m \in 0..m
    BY <1>2 DEF m
  <2> HIDE DEF F
  <2> QED
    BY <1>6, <1>17, <2>1
<1>19. /\ G \in [0..m -> V] /\ G[0] = first
       /\ \A k \in 1..m : G[k] = next(k, G[k - 1])
  BY <1>11, <1>12, <1>13
<1> QED
  BY <1>5, <1>18, <1>19 DEF m, V, first, next

\* Each part is on one side, and the sides differ by no more than a part may have.
LEMMA LptFacts ==
  ASSUME NEW n, NEW parts, Parts(n, parts),
         NEW most \in Nat, \A p \in parts : Cardinality(p) <= most
  PROVE  LET right == LptAssign(parts)  left == (UNION parts) \ right
         IN  /\ right \subseteq UNION parts /\ \A p \in parts : p \subseteq right \/ p \subseteq left
             /\ Cardinality(right) - Cardinality(left) <= most
             /\ Cardinality(left) - Cardinality(right) <= most
<1> DEFINE m == Cardinality(parts)
           V == [right : SUBSET (1..n), left : SUBSET (1..n)]
<1>1. PICK s, F :
        /\ Lists(s, parts) /\ F \in [0..m -> V] /\ F[0] = [right |-> {}, left |-> {}]
        /\ \A k \in 1..m :
             F[k] = Assigned(F[k - 1], s[k])
        /\ LptAssign(parts) = F[m].right
  BY LptSteps
<1> DEFINE R(k) == F[k].right
           L(k) == F[k].left
           Done(k) == UNION {s[i] : i \in 1..k}
           Good(k) == /\ R(k) \cup L(k) = Done(k) /\ R(k) \cap L(k) = {}
                      /\ \A i \in 1..k : s[i] \subseteq R(k) \/ s[i] \subseteq L(k)
                      /\ Cardinality(R(k)) - Cardinality(L(k)) <= most
                      /\ Cardinality(L(k)) - Cardinality(R(k)) <= most
<1>2. n \in Nat /\ IsFiniteSet(1..n) /\ parts \in SUBSET SUBSET (1..n) /\ m \in Nat
  BY <1>1, UpTo DEF Parts, Lists
<1>3. \A k \in 1..m : s[k] \in parts
  BY <1>1 DEF Lists
<1>4. ASSUME NEW S \in SUBSET (1..n) PROVE IsFiniteSet(S) /\ Cardinality(S) \in Nat
  BY <1>2, FS_Subset, FS_CardinalityType
<1>5. \A k \in 0..m : /\ R(k) \in SUBSET (1..n) /\ L(k) \in SUBSET (1..n)
                      /\ Cardinality(R(k)) \in Nat /\ Cardinality(L(k)) \in Nat
  BY <1>1, <1>4
<1>6. \A k \in 1..m : \/ R(k) = R(k - 1) \cup s[k] /\ L(k) = L(k - 1) /\ Cardinality(R(k - 1)) <= Cardinality(L(k - 1))
                      \/ R(k) = R(k - 1) /\ L(k) = L(k - 1) \cup s[k] /\ ~(Cardinality(R(k - 1)) <= Cardinality(L(k - 1)))
  <2> SUFFICES ASSUME NEW k \in 1..m
               PROVE  \/ R(k) = R(k - 1) \cup s[k] /\ L(k) = L(k - 1) /\ Cardinality(R(k - 1)) <= Cardinality(L(k - 1))
                      \/ R(k) = R(k - 1) /\ L(k) = L(k - 1) \cup s[k] /\ ~(Cardinality(R(k - 1)) <= Cardinality(L(k - 1)))
    OBVIOUS
  <2>1. k - 1 \in 0..m
    BY <1>2
  <2>2. F[k - 1] \in V
    BY <1>1, <2>1
  <2> QED
    BY <1>1, <2>2 DEF Assigned
<1>7. \A k \in 1..m : Done(k) = Done(k - 1) \cup s[k]
  <2> SUFFICES ASSUME NEW k \in 1..m PROVE Done(k) = Done(k - 1) \cup s[k]
    OBVIOUS
  <2>1. 1..k = 1..(k - 1) \cup {k}
    BY <1>2
  <2> QED
    BY <2>1
<1>8. \A k \in 1..m : s[k] \cap Done(k - 1) = {}
  <2> SUFFICES ASSUME NEW k \in 1..m, NEW i \in 1..(k - 1) PROVE s[k] \cap s[i] = {}
    OBVIOUS
  <2>1. i \in 1..m /\ i # k
    BY <1>2
  <2>2. s[i] # s[k]
    BY <1>1, <2>1 DEF Lists
  <2> QED
    BY <1>3, <2>1, <2>2 DEF Parts
<1>9. Done(0) = {}
  OBVIOUS
<1>10. UNION parts = Done(m)
  <2>1. \A p \in parts : \E i \in 1..m : s[i] = p
    BY <1>1 DEF Lists
  <2> QED
    BY <1>3, <2>1
<1>11. R(0) = {} /\ L(0) = {}
  BY <1>1
<1> HIDE DEF Done, R, L, V
<1>12. Good(0)
  <2>1. Cardinality({}) = 0
    BY FS_EmptySet
  <2> QED
    BY <1>9, <1>11, <2>1
<1>13. ASSUME NEW k \in 1..m, Good(k - 1) PROVE Good(k)
  <2> DEFINE c == s[k]
             j == k - 1
  <2>1. j \in 0..m /\ k \in 0..m
    BY <1>2
  <2>2. c \in SUBSET (1..n) /\ Cardinality(c) \in Nat /\ Cardinality(c) <= most /\ IsFiniteSet(c)
    BY <1>2, <1>3, <1>4
  <2>3. R(j) \cup L(j) = Done(j) /\ R(j) \cap L(j) = {} /\ c \cap Done(j) = {} /\ Done(k) = Done(j) \cup c
    BY <1>7, <1>8, <1>13
  <2>4. IsFiniteSet(R(j)) /\ IsFiniteSet(L(j)) /\ Cardinality(R(j)) \in Nat /\ Cardinality(L(j)) \in Nat
    BY <1>4, <1>5, <2>1
  <2>5. Cardinality(R(j) \cup c) = Cardinality(R(j)) + Cardinality(c)
    <3>1. R(j) \cap c = {}
      BY <2>3
    <3> QED
      BY <2>2, <2>4, <3>1, DisjointUnion
  <2>6. Cardinality(L(j) \cup c) = Cardinality(L(j)) + Cardinality(c)
    <3>1. L(j) \cap c = {}
      BY <2>3
    <3> QED
      BY <2>2, <2>4, <3>1, DisjointUnion
  <2>7. R(k) \cup L(k) = Done(k) /\ R(k) \cap L(k) = {} /\ (c \subseteq R(k) \/ c \subseteq L(k))
        /\ R(j) \subseteq R(k) /\ L(j) \subseteq L(k)
    BY <1>6, <2>3
  <2>8. \A i \in 1..k : s[i] \subseteq R(k) \/ s[i] \subseteq L(k)
    <3> SUFFICES ASSUME NEW i \in 1..k PROVE s[i] \subseteq R(k) \/ s[i] \subseteq L(k)
      OBVIOUS
    <3>1. i = k \/ i \in 1..j
      BY <1>2
    <3>2. i \in 1..j => s[i] \subseteq R(j) \/ s[i] \subseteq L(j)
      BY <1>13
    <3> QED
      BY <2>7, <3>1, <3>2
  <2>9. /\ Cardinality(R(k)) - Cardinality(L(k)) <= most
        /\ Cardinality(L(k)) - Cardinality(R(k)) <= most
    <3>1. /\ Cardinality(R(j)) - Cardinality(L(j)) <= most
          /\ Cardinality(L(j)) - Cardinality(R(j)) <= most
      BY <1>13
    <3>2. CASE R(k) = R(j) \cup c /\ L(k) = L(j) /\ Cardinality(R(j)) <= Cardinality(L(j))
      <4>1. Cardinality(R(k)) = Cardinality(R(j)) + Cardinality(c) /\ Cardinality(L(k)) = Cardinality(L(j))
        BY <2>5, <3>2
      <4> QED
        BY <2>2, <2>4, <3>1, <3>2, <4>1
    <3>3. CASE R(k) = R(j) /\ L(k) = L(j) \cup c /\ ~(Cardinality(R(j)) <= Cardinality(L(j)))
      <4>1. Cardinality(L(k)) = Cardinality(L(j)) + Cardinality(c) /\ Cardinality(R(k)) = Cardinality(R(j))
        BY <2>6, <3>3
      <4> QED
        BY <2>2, <2>4, <3>1, <3>3, <4>1
    <3> QED
      BY <1>6, <3>2, <3>3
  <2> QED
    BY <2>7, <2>8, <2>9
<1>14. Good(m)
  <2> DEFINE S == {k \in 0..m : Good(k)}
  <2>1. 0 \in S /\ \A k \in 1..m : k - 1 \in S => k \in S
    <3> HIDE DEF Good
    <3> QED
      BY <1>2, <1>12, <1>13
  <2>2. 0..m \subseteq S
    <3> HIDE DEF S
    <3> QED
      BY <1>2, <2>1, AllNumbers
  <2>3. m \in 0..m
    BY <1>2
  <2> HIDE DEF Good
  <2> QED
    BY <2>2, <2>3
<1>15. LptAssign(parts) = R(m) /\ L(m) = (UNION parts) \ R(m)
  BY <1>1, <1>10, <1>14 DEF R
<1>16. \A p \in parts : p \subseteq R(m) \/ p \subseteq L(m)
  <2>1. \A p \in parts : \E i \in 1..m : s[i] = p
    BY <1>1 DEF Lists
  <2> QED
    BY <1>14, <2>1
<1>17. R(m) \subseteq UNION parts
  BY <1>10, <1>14
<1> QED
  BY <1>14, <1>15, <1>16, <1>17

\* What is reached from a node is left, whatever the node.
LEMMA FoundFromFacts ==
  ASSUME NEW edges, NEW id, NEW left, Len(edges) \in Nat, DOMAIN edges = 1..Len(edges)
  PROVE  FoundFrom(edges, id, left) \in Seq(left)
<1> DEFINE S == {i \in EdgesOf(edges, id) : OtherEnd(edges[i], id) \in left}
           es == Ascending(S)
<1>1. S \in SUBSET (1..Len(edges)) /\ IsFiniteSet(S) /\ S \in SUBSET Int
  <2>1. S \in SUBSET (1..Len(edges))
    BY DEF EdgesOf
  <2>2. IsFiniteSet(1..Len(edges)) /\ 1..Len(edges) \subseteq Int
    BY UpTo
  <2> HIDE DEF S
  <2> QED
    BY <2>1, <2>2, FS_Subset
<1>2. \A i \in S : OtherEnd(edges[i], id) \in left
  OBVIOUS
<1>3. FoundFrom(edges, id, left) = [k \in DOMAIN es |-> OtherEnd(edges[es[k]], id)]
  BY DEF FoundFrom
<1> HIDE DEF S
<1>4. Lists(es, S)
  BY <1>1, AscendingFacts
<1>5. Cardinality(S) \in Nat /\ DOMAIN es = 1..Cardinality(S) /\ \A k \in 1..Cardinality(S) : es[k] \in S
  BY <1>4 DEF Lists
<1> HIDE DEF es
<1>6. FoundFrom(edges, id, left) \in [1..Cardinality(S) -> left]
  BY <1>2, <1>3, <1>5
<1> QED
  BY <1>5, <1>6, IsSequence

\* What is taken while the sides grow.
Growth(ids) == [taken : [1..2 -> SUBSET ids], frontier : [1..2 -> Seq(ids)]]

\* A side grows by nodes that are left.
LEMMA GrowFacts ==
  ASSUME NEW n \in Nat, NEW ids \in SUBSET (1..n), NEW edges,
         Len(edges) \in Nat, DOMAIN edges = 1..Len(edges), NEW g \in Growth(ids)
  PROVE  Grow(ids, edges, g) \in Growth(ids)
<1> DEFINE left     == ids \ (g.taken[1] \cup g.taken[2])
           s        == IF Cardinality(g.taken[1]) <= Cardinality(g.taken[2]) THEN 1 ELSE 2
           frontier == g.frontier[s]
           growing  == {i \in DOMAIN frontier : FoundFrom(edges, frontier[i], left) # <<>>}
           new      == IF growing # {} THEN FoundFrom(edges, frontier[Min(growing)], left)
                       ELSE <<Min(left)>>
           rest     == IF growing # {} THEN SubSeq(frontier, Min(growing) + 1, Len(frontier))
                       ELSE <<>>
<1>1. Grow(ids, edges, g) = IF left = {} THEN g
        ELSE [taken |-> [g.taken EXCEPT ![s] = g.taken[s] \cup Range(new)],
              frontier |-> [g.frontier EXCEPT ![s] = rest \o new]]
  BY DEF Grow
<1> SUFFICES ASSUME left # {} PROVE Grow(ids, edges, g) \in Growth(ids)
  BY <1>1
<1>2. s \in 1..2 /\ left \in SUBSET ids
  OBVIOUS
<1> HIDE DEF s, left
<1>3. frontier \in Seq(ids) /\ Len(frontier) \in Nat /\ DOMAIN frontier = 1..Len(frontier)
      /\ \A i \in 1..Len(frontier) : frontier[i] \in ids
  <2>1. frontier \in Seq(ids)
    BY <1>2 DEF Growth
  <2> HIDE DEF frontier
  <2> QED
    BY <2>1, LenProperties, ElementOfSeq
<1> HIDE DEF frontier
<1>4. growing # {} => Min(growing) \in 1..Len(frontier)
  <2>1. growing \in SUBSET (1..Len(frontier))
    BY <1>3
  <2>2. IsFiniteSet(growing) /\ growing \in SUBSET Int
    <3> HIDE DEF growing
    <3>1. IsFiniteSet(1..Len(frontier)) /\ 1..Len(frontier) \subseteq Int
      BY <1>3, UpTo
    <3> QED
      BY <2>1, <3>1, FS_Subset
  <2> HIDE DEF growing
  <2> QED
    BY <2>1, <2>2, MinFacts
<1>5. new \in Seq(left)
  <2>1. \A id : FoundFrom(edges, id, left) \in Seq(left)
    BY FoundFromFacts
  <2>2. <<Min(left)>> \in Seq(left)
    <3>1. left \in SUBSET Int /\ IsFiniteSet(left)
      <4>1. left \in SUBSET (1..n) /\ 1..n \subseteq Int
        BY <1>2
      <4>2. IsFiniteSet(1..n)
        BY UpTo
      <4> QED
        BY <4>1, <4>2, FS_Subset
    <3>2. Min(left) \in left
      BY <3>1, MinFacts
    <3> QED
      BY <3>2
  <2> QED
    BY <2>1, <2>2
<1>6. rest \in Seq(ids)
  <2>1. CASE growing # {}
    <3> DEFINE a == Min(growing) + 1
               b == Len(frontier)
    <3>1. a \in Int /\ b \in Int /\ \A i \in a..b : frontier[i] \in ids
      <4> HIDE DEF growing
      <4>1. Min(growing) \in 1..Len(frontier)
        BY <1>4, <2>1
      <4> QED
        BY <1>3, <4>1
    <3>2. SubSeq(frontier, a, b) \in Seq(ids)
      <4> HIDE DEF a, b
      <4> QED
        BY <3>1, SubSeqProperties
    <3> QED
      BY <2>1, <3>2
  <2>2. CASE growing = {}
    <3>1. <<>> \in Seq(ids)
      BY EmptySeq
    <3> QED
      BY <2>2, <3>1
  <2> QED
    BY <2>1, <2>2
<1> HIDE DEF new, rest, growing
<1>7. new \in Seq(ids) /\ Range(new) \in SUBSET ids
  <2>1. DOMAIN new = 1..Len(new) /\ \A i \in 1..Len(new) : new[i] \in left
    BY <1>5, LenProperties, ElementOfSeq
  <2>2. Range(new) \in SUBSET left
    BY <2>1 DEF Range
  <2>3. Len(new) \in Nat /\ new \in [1..Len(new) -> left]
    BY <1>5, LenProperties
  <2>4. new \in [1..Len(new) -> ids]
    BY <1>2, <2>3
  <2>5. new \in Seq(ids)
    BY <2>3, <2>4, IsSequence
  <2> QED
    BY <1>2, <2>2, <2>5
<1>8. rest \o new \in Seq(ids)
  BY <1>6, <1>7, ConcatProperties
<1> QED
  BY <1>1, <1>2, <1>7, <1>8 DEF Growth

\* The right side that is grown from the neighbors of the hub is of the others.
LEMMA GrownFacts ==
  ASSUME NEW n, NEW edges, Graph(n, edges), NEW hub \in 1..n
  PROVE  Grown(n, edges, hub) \in SUBSET Others(n, hub)
<1> DEFINE ids == Others(n, hub)
           seeds == Ascending(Neighbors(edges, hub))
           seeded == <<Alternate(seeds, 1), Alternate(seeds, 0)>>
           m == Cardinality(ids)
           V == Growth(ids)
           first == [taken |-> [s \in 1..2 |-> Range(seeded[s])], frontier |-> seeded]
           next(a) == Grow(ids, edges, a)
           body(G, k) == IF k = 0 THEN first ELSE next(G[k - 1])
           F == CHOOSE G : G = [k \in 0..m |-> body(G, k)]
           step == [k \in 1..m |-> [a \in V |-> next(a)]]
<1>0. n \in Nat /\ ids \in SUBSET (1..n) /\ Len(edges) \in Nat /\ DOMAIN edges = 1..Len(edges)
  BY DEF Others, Graph
<1>1. m \in Nat
  <2> HIDE DEF ids
  <2> QED
    BY <1>0, UpTo, FS_Subset, FS_CardinalityType
<1>2. first \in V
  <2>1. Neighbors(edges, hub) \in SUBSET ids
    <3>1. Neighbors(edges, hub) \subseteq 1..n
      BY NeighborFacts
    <3>2. ASSUME NEW i \in EdgesOf(edges, hub) PROVE OtherEnd(edges[i], hub) # hub
      <4>1. i \in 1..Len(edges)
        BY <1>0 DEF EdgesOf
      <4>2. edges[i].source # edges[i].target
        BY <4>1 DEF Graph
      <4> QED
        BY <4>2 DEF OtherEnd
    <3>3. hub \notin Neighbors(edges, hub)
      BY <3>2 DEF Neighbors
    <3> QED
      BY <3>1, <3>3 DEF Others
  <2> HIDE DEF ids
  <2>2. Lists(seeds, Neighbors(edges, hub))
    <3>1. IsFiniteSet(Neighbors(edges, hub)) /\ Neighbors(edges, hub) \in SUBSET Int
      BY <1>0, <2>1, NeighborFacts
    <3> QED
      BY <3>1, AscendingFacts
  <2>3. Len(seeds) \in Nat /\ \A i \in 1..Len(seeds) : seeds[i] \in ids
    BY <2>1, <2>2 DEF Lists
  <2> HIDE DEF seeds
  <2>4. ASSUME NEW parity \in {0, 1} PROVE Alternate(seeds, parity) \in Seq(ids)
    <3> DEFINE half == (Len(seeds) + parity) \div 2
    <3>1. half \in Nat /\ \A i \in 1..half : 2 * i - parity \in 1..Len(seeds)
      BY <2>3
    <3>2. Alternate(seeds, parity) = [i \in 1..half |-> seeds[2 * i - parity]]
      BY DEF Alternate
    <3> HIDE DEF half
    <3>3. Alternate(seeds, parity) \in [1..half -> ids]
      BY <2>3, <3>1, <3>2
    <3> QED
      BY <3>1, <3>3, IsSequence
  <2>5. ASSUME NEW q \in Seq(ids) PROVE Range(q) \in SUBSET ids
    <3>1. DOMAIN q = 1..Len(q) /\ \A i \in 1..Len(q) : q[i] \in ids
      BY LenProperties, ElementOfSeq
    <3> QED
      BY <3>1 DEF Range
  <2>6. seeded \in [1..2 -> Seq(ids)]
    <3>1. Alternate(seeds, 1) \in Seq(ids) /\ Alternate(seeds, 0) \in Seq(ids)
      BY <2>4
    <3> DEFINE a == Alternate(seeds, 1)
               b == Alternate(seeds, 0)
               Q == Seq(ids)
    <3>2. a \in Q /\ b \in Q
      BY <3>1
    <3> HIDE DEF a, b, Q
    <3>3. <<a, b>> \in [1..2 -> Q]
      BY <3>2
    <3> QED
      BY <3>3 DEF a, b, Q
  <2> HIDE DEF seeded
  <2>7. [s \in 1..2 |-> Range(seeded[s])] \in [1..2 -> SUBSET ids]
    BY <2>5, <2>6
  <2> QED
    BY <2>6, <2>7 DEF Growth
<1>3. Grown(n, edges, hub) = F[m].taken[1]
  BY DEF Grown, GrowBalanced
<1>4. ASSUME NEW k \in 1..m, NEW a \in V PROVE next(a) \in V
  <2> HIDE DEF ids
  <2> QED
    BY <1>0, GrowFacts
<1> HIDE DEF m, V, first, next
<1>5. step \in [1..m -> [V -> V]]
  BY <1>4
<1>6. PICK G \in [0..m -> V] : Recurs(G, m, first, step)
  <2> HIDE DEF step
  <2> QED
    BY <1>1, <1>2, <1>5, RecursionExists
<1>7. G[0] = first /\ \A k \in 1..m : G[k] = step[k][G[k - 1]]
  BY <1>6 DEF Recurs
<1>8. ASSUME NEW k \in 0..m PROVE G[k] = body(G, k)
  <2>1. CASE k = 0
    BY <1>7, <2>1
  <2>2. CASE k # 0
    <3>1. k \in 1..m /\ k - 1 \in 0..m
      BY <1>1, <2>2
    <3>2. G[k - 1] \in V
      BY <3>1
    <3> QED
      BY <1>7, <2>2, <3>1, <3>2
  <2> QED
    BY <2>1, <2>2
<1>9. G = [k \in 0..m |-> body(G, k)]
  <2> HIDE DEF body
  <2> QED
    BY <1>8
<1>10. F = [k \in 0..m |-> body(F, k)]
  <2> HIDE DEF body
  <2> QED
    BY <1>9
<1> HIDE DEF F
<1>11. \A k \in 0..m : F[k] = body(F, k)
  <2> HIDE DEF body
  <2> QED
    BY <1>10
<1>12. F[0] = first
  BY <1>1, <1>11
<1>13. \A k \in 1..m : F[k] = next(F[k - 1])
  BY <1>1, <1>11
<1>14. \A k \in 0..m : F[k] \in V
  <2>1. F[0] \in V /\ \A k \in 1..m : F[k - 1] \in V => F[k] \in V
    BY <1>2, <1>4, <1>12, <1>13
  <2> QED
    BY <1>1, <2>1, RecursionKeeps
<1>15. F[m] \in V
  BY <1>1, <1>14
<1> QED
  BY <1>3, <1>15 DEF V, Growth

\* The edges between the sides.
Across(rest, right) == Cardinality({e \in rest : Crossed(e, right)})

\* A swap of u and v takes as many edges from between the sides as it gains.
LEMMA GainFacts ==
  ASSUME NEW ids, NEW rest, Joining(ids, rest), NEW right \in SUBSET ids,
         NEW u \in right, NEW v \in ids \ right
  PROVE  /\ Gain(rest, right, u, v) \in Int /\ Across(rest, right) \in Nat
         /\ Across(rest, (right \ {u}) \cup {v}) = Across(rest, right) - Gain(rest, right, u, v)
<1> DEFINE to == (right \ {u}) \cup {v}
           C == {e \in rest : Crossed(e, right)}
           Both == {e \in rest : Touches(e, u) /\ Touches(e, v)}
           Far == {e \in C : ~Touches(e, u) /\ ~Touches(e, v)}
           UC == {e \in C : Touches(e, u) /\ ~Touches(e, v)}
           VC == {e \in C : Touches(e, v) /\ ~Touches(e, u)}
           UN == {e \in rest : Touches(e, u) /\ ~Touches(e, v) /\ ~Crossed(e, right)}
           VN == {e \in rest : Touches(e, v) /\ ~Touches(e, u) /\ ~Crossed(e, right)}
           one == IF Both = {} THEN 0 ELSE 1
<1>1. IsFiniteSet(rest) /\ u # v
  BY DEF Joining
<1>2. \A S \in SUBSET rest : IsFiniteSet(S) /\ Cardinality(S) \in Nat
  BY <1>1, FS_Subset, FS_CardinalityType
<1>3. \A e \in rest : e.source # e.target
  BY DEF Joining
<1>4. Cardinality(Both) = one
  <2>1. CASE Both = {}
    <3>1. Cardinality({}) = 0
      BY FS_EmptySet
    <3> QED
      BY <2>1, <3>1
  <2>2. CASE Both # {}
    <3>1. PICK e \in Both : TRUE
      BY <2>2
    <3>2. \A f \in Both : {f.source, f.target} = {u, v}
      BY <1>1 DEF Touches
    <3>3. \A f \in Both : f = e
      BY <3>1, <3>2 DEF Joining
    <3>4. Both = {e}
      BY <3>1, <3>3
    <3> HIDE DEF Both
    <3> QED
      BY <2>2, <3>4, FS_Singleton
  <2> QED
    BY <2>1, <2>2
<1>5. \A e \in Both : Crossed(e, right) /\ Crossed(e, to)
  BY <1>1 DEF Touches, Crossed
<1>6. ASSUME NEW e \in rest
      PROVE  /\ ~Touches(e, u) /\ ~Touches(e, v) => (Crossed(e, to) <=> Crossed(e, right))
             /\ Touches(e, u) /\ ~Touches(e, v) => (Crossed(e, to) <=> ~Crossed(e, right))
             /\ Touches(e, v) /\ ~Touches(e, u) => (Crossed(e, to) <=> ~Crossed(e, right))
  <2>1. e.source # e.target
    BY <1>3
  <2> QED
    BY <1>1, <2>1 DEF Touches, Crossed
<1>7. C = Both \cup (Far \cup (UC \cup VC))
  BY <1>5
<1>8. {e \in rest : Crossed(e, to)} = Both \cup (Far \cup (UN \cup VN))
  BY <1>5, <1>6
<1>9. /\ {e \in rest : Touches(e, u) /\ Crossed(e, right)} = Both \cup UC
      /\ {e \in rest : Touches(e, u) /\ ~Crossed(e, right)} = UN
      /\ {e \in rest : Touches(e, v) /\ Crossed(e, right)} = Both \cup VC
      /\ {e \in rest : Touches(e, v) /\ ~Crossed(e, right)} = VN
  BY <1>5
<1>10. /\ Both \in SUBSET rest /\ Far \in SUBSET rest /\ UC \in SUBSET rest /\ VC \in SUBSET rest
       /\ UN \in SUBSET rest /\ VN \in SUBSET rest
       /\ Both \cap UC = {} /\ Both \cap VC = {} /\ UC \cap VC = {} /\ UN \cap VN = {}
       /\ Far \cap (UC \cup VC) = {} /\ Far \cap (UN \cup VN) = {}
       /\ Both \cap (Far \cup (UC \cup VC)) = {} /\ Both \cap (Far \cup (UN \cup VN)) = {}
  OBVIOUS
<1>11. Gain(rest, right, u, v)
         = (Cardinality(Both \cup UC) - Cardinality(UN)) + (Cardinality(Both \cup VC) - Cardinality(VN))
           - (IF Both = {} THEN 0 ELSE 2)
  <2>1. (\E e \in rest : Touches(e, u) /\ Touches(e, v)) <=> Both # {}
    OBVIOUS
  <2> HIDE DEF Both, UC, UN, VC, VN
  <2> QED
    BY <1>9, <2>1 DEF Gain
<1>12. Across(rest, right) = Cardinality(C) /\ Across(rest, to) = Cardinality({e \in rest : Crossed(e, to)})
  BY DEF Across
<1>13. C \in SUBSET rest
  OBVIOUS
<1> HIDE DEF to, C, Both, Far, UC, VC, UN, VN
<1>14. Cardinality(Both \cup UC) = one + Cardinality(UC) /\ Cardinality(Both \cup VC) = one + Cardinality(VC)
  BY <1>2, <1>4, <1>10, DisjointUnion
<1>15. /\ Cardinality(UC \cup VC) = Cardinality(UC) + Cardinality(VC)
       /\ Cardinality(UN \cup VN) = Cardinality(UN) + Cardinality(VN)
       /\ IsFiniteSet(UC \cup VC) /\ IsFiniteSet(UN \cup VN)
  BY <1>2, <1>10, DisjointUnion
<1>16. /\ Cardinality(Far \cup (UC \cup VC)) = Cardinality(Far) + Cardinality(UC \cup VC)
       /\ Cardinality(Far \cup (UN \cup VN)) = Cardinality(Far) + Cardinality(UN \cup VN)
       /\ IsFiniteSet(Far \cup (UC \cup VC)) /\ IsFiniteSet(Far \cup (UN \cup VN))
  BY <1>2, <1>10, <1>15, DisjointUnion
<1>17. /\ Cardinality(C) = one + Cardinality(Far \cup (UC \cup VC))
       /\ Across(rest, to) = one + Cardinality(Far \cup (UN \cup VN))
  <2> DEFINE S == Far \cup (UC \cup VC)
             T == Far \cup (UN \cup VN)
  <2>1. /\ IsFiniteSet(S) /\ IsFiniteSet(T) /\ IsFiniteSet(Both)
        /\ Both \cap S = {} /\ Both \cap T = {} /\ C = Both \cup S
        /\ Across(rest, to) = Cardinality(Both \cup T)
    BY <1>2, <1>7, <1>8, <1>10, <1>12, <1>16
  <2> HIDE DEF S, T
  <2>2. /\ Cardinality(Both \cup S) = Cardinality(Both) + Cardinality(S)
        /\ Cardinality(Both \cup T) = Cardinality(Both) + Cardinality(T)
    BY <2>1, DisjointUnion
  <2> QED
    BY <1>4, <2>1, <2>2 DEF S, T
<1>18. one \in Nat /\ (IF Both = {} THEN 0 ELSE 2) = 2 * one
  OBVIOUS
<1> HIDE DEF one
<1>19. /\ Cardinality(UC) \in Nat /\ Cardinality(VC) \in Nat /\ Cardinality(UN) \in Nat
       /\ Cardinality(VN) \in Nat /\ Cardinality(Far) \in Nat /\ Cardinality(C) \in Nat
  BY <1>2, <1>10, <1>13
<1>20. Gain(rest, right, u, v) = Cardinality(UC) + Cardinality(VC) - Cardinality(UN) - Cardinality(VN)
  BY <1>11, <1>14, <1>18, <1>19
<1>21. /\ Across(rest, right) = one + Cardinality(Far) + Cardinality(UC) + Cardinality(VC)
       /\ Across(rest, to) = one + Cardinality(Far) + Cardinality(UN) + Cardinality(VN)
  BY <1>12, <1>15, <1>16, <1>17, <1>18, <1>19
<1> QED
  BY <1>18, <1>19, <1>20, <1>21 DEF to

\* Some nodes.
NodeSet(ids) == ids \subseteq Nat /\ IsFiniteSet(ids)

\* Of the pairs that gain something there is a best.
LEMMA BestFacts ==
  ASSUME NEW ids, NodeSet(ids), NEW rest, Joining(ids, rest),
         NEW right \in SUBSET ids,
         NEW gains, gains = {p \in right \X (ids \ right) : Gain(rest, right, p[1], p[2]) > 0}, gains # {}
  PROVE  \E p \in gains : \A q \in gains :
           LET g == Gain(rest, right, p[1], p[2])  h == Gain(rest, right, q[1], q[2])
           IN  g > h \/ (g = h /\ (p[1] < q[1] \/ (p[1] = q[1] /\ p[2] <= q[2])))
<1> DEFINE gain == [p \in gains |-> Gain(rest, right, p[1], p[2])]
<1>1. gains \in SUBSET (ids \X ids) /\ IsFiniteSet(gains)
  <2>1. gains \in SUBSET (ids \X ids)
    OBVIOUS
  <2>2. IsFiniteSet(ids \X ids)
    BY FS_Product DEF NodeSet
  <2> QED
    BY <2>1, <2>2, FS_Subset
<1>2. \A p \in gains : gain[p] \in Int
  <2> SUFFICES ASSUME NEW p \in gains PROVE Gain(rest, right, p[1], p[2]) \in Int
    OBVIOUS
  <2>1. p[1] \in right /\ p[2] \in ids \ right
    OBVIOUS
  <2> QED
    BY <2>1, GainFacts
<1>3. DOMAIN gain = gains /\ gain = [p \in gains |-> gain[p]]
  OBVIOUS
<1>4. \A p \in gains : gain[p] = Gain(rest, right, p[1], p[2])
  OBVIOUS
<1> HIDE DEF gain
<1>5. IsFiniteSet(Range(gain)) /\ Range(gain) \in SUBSET Int /\ Range(gain) # {}
  <2>1. IsFiniteSet(Range(gain))
    BY <1>1, <1>3, FiniteRange
  <2> QED
    BY <1>2, <1>3, <2>1 DEF Range
<1>6. Max(Range(gain)) \in Range(gain) /\ \A x \in Range(gain) : Max(Range(gain)) >= x
  BY <1>5, MaxFacts
<1> DEFINE top == Max(Range(gain))
           U == {p[1] : p \in {q \in gains : gain[q] = top}}
           u == Min(U)
           W == {p[2] : p \in {q \in gains : gain[q] = top /\ q[1] = u}}
           w == Min(W)
<1>7. top \in Int /\ (\E p \in gains : gain[p] = top) /\ \A p \in gains : gain[p] <= top
  <2>1. \A p \in gains : gain[p] \in Range(gain)
    BY <1>3 DEF Range
  <2>2. \E p \in gains : gain[p] = top
    BY <1>3, <1>6 DEF Range
  <2>3. \A p \in gains : gain[p] <= top
    BY <1>2, <1>5, <1>6, <2>1
  <2>4. top \in Int
    BY <1>5, <1>6
  <2> HIDE DEF top
  <2> QED
    BY <2>2, <2>3, <2>4
<1> HIDE DEF top
<1>8. \A p \in gains : p[1] \in ids /\ p[2] \in ids /\ p = <<p[1], p[2]>>
  BY <1>1
<1>9. IsFiniteSet(ids) /\ ids \subseteq Int
  BY DEF NodeSet
<1>10. u \in U /\ \A x \in U : u <= x
  <2>1. U \in SUBSET ids /\ U # {}
    BY <1>7, <1>8
  <2>2. U \in SUBSET Int /\ IsFiniteSet(U)
    <3> HIDE DEF U
    <3> QED
      BY <1>9, <2>1, FS_Subset
  <2> HIDE DEF U
  <2> QED
    BY <2>1, <2>2, MinFacts
<1>11. w \in W /\ \A x \in W : w <= x
  <2>1. W \in SUBSET ids /\ W # {}
    <3> HIDE DEF u
    <3> QED
      BY <1>8, <1>10
  <2>2. W \in SUBSET Int /\ IsFiniteSet(W)
    <3> HIDE DEF W
    <3> QED
      BY <1>9, <2>1, FS_Subset
  <2> HIDE DEF W
  <2> QED
    BY <2>1, <2>2, MinFacts
<1> HIDE DEF u, w
<1>12. PICK p \in gains : gain[p] = top /\ p[1] = u /\ p[2] = w
  BY <1>11
<1>13. ASSUME NEW q \in gains
       PROVE  \/ gain[p] > gain[q]
              \/ gain[p] = gain[q] /\ (p[1] < q[1] \/ (p[1] = q[1] /\ p[2] <= q[2]))
  <2>1. gain[q] <= top /\ gain[q] \in Int /\ top \in Int
        /\ p[1] \in Int /\ q[1] \in Int /\ p[2] \in Int /\ q[2] \in Int
    BY <1>2, <1>7, <1>8, <1>9
  <2>2. gain[q] = top => u <= q[1]
    BY <1>10
  <2>3. gain[q] = top /\ q[1] = u => w <= q[2]
    BY <1>11
  <2> QED
    BY <1>12, <2>1, <2>2, <2>3
<1> QED
  BY <1>4, <1>13

\* A swap leaves fewer edges between the sides, or there is none to make.
LEMMA SwappedFacts ==
  ASSUME NEW ids, NodeSet(ids), NEW rest, Joining(ids, rest),
         NEW right \in SUBSET ids
  PROVE  LET to == Swapped(ids, rest, right)
         IN  /\ to \in SUBSET ids /\ Across(rest, right) \in Nat /\ Across(rest, to) \in Nat
             /\ \/ /\ Across(rest, to) < Across(rest, right)
                   /\ \E u \in right, v \in ids \ right : to = (right \ {u}) \cup {v}
                \/ /\ to = right
                   /\ \A u \in right, v \in ids \ right :
                        Across(rest, (right \ {u}) \cup {v}) >= Across(rest, right)
<1> DEFINE gains == {p \in right \X (ids \ right) : Gain(rest, right, p[1], p[2]) > 0}
           First(p, q) ==
             LET g == Gain(rest, right, p[1], p[2])  h == Gain(rest, right, q[1], q[2])
             IN  g > h \/ (g = h /\ (p[1] < q[1] \/ (p[1] = q[1] /\ p[2] <= q[2])))
           best == CHOOSE p \in gains : \A q \in gains : First(p, q)
           to == Swapped(ids, rest, right)
<1>1. to = IF gains = {} THEN right ELSE (right \ {best[1]}) \cup {best[2]}
  BY DEF Swapped
<1>2. \A r \in SUBSET ids : Across(rest, r) \in Nat
  <2> SUFFICES ASSUME NEW r \in SUBSET ids PROVE Across(rest, r) \in Nat
    OBVIOUS
  <2>1. IsFiniteSet(rest) /\ {e \in rest : Crossed(e, r)} \subseteq rest
    BY DEF Joining
  <2> QED
    BY <2>1, FS_Subset, FS_CardinalityType DEF Across
<1>5. \A u \in right, v \in ids \ right :
        /\ Gain(rest, right, u, v) \in Int /\ Across(rest, right) \in Nat
        /\ Across(rest, (right \ {u}) \cup {v}) = Across(rest, right) - Gain(rest, right, u, v)
  BY GainFacts
<1> HIDE DEF to
<1>3. CASE gains = {}
  <2>1. to = right
    BY <1>1, <1>3
  <2>2. ASSUME NEW u \in right, NEW v \in ids \ right
        PROVE  Across(rest, (right \ {u}) \cup {v}) >= Across(rest, right)
    <3>1. ~(Gain(rest, right, u, v) > 0)
      <4>1. <<u, v>> \notin gains
        BY <1>3
      <4> QED
        BY <4>1
    <3>2. Gain(rest, right, u, v) \in Int /\ Across(rest, right) \in Nat
          /\ Across(rest, (right \ {u}) \cup {v}) = Across(rest, right) - Gain(rest, right, u, v)
      BY <1>5
    <3> QED
      BY <3>1, <3>2
  <2> QED
    BY <1>2, <2>1, <2>2 DEF to
<1>4. CASE gains # {}
  <2>1. \E p \in gains : \A q \in gains : First(p, q)
    <3>1. gains = {p \in right \X (ids \ right) : Gain(rest, right, p[1], p[2]) > 0}
      OBVIOUS
    <3> HIDE DEF gains
    <3> QED
      BY <1>4, <3>1, BestFacts
  <2>2. best \in gains
    <3> HIDE DEF gains, First
    <3> QED
      BY <2>1
  <2> DEFINE u == best[1]
             v == best[2]
  <2>3. u \in right /\ v \in ids \ right /\ Gain(rest, right, u, v) > 0
    <3> HIDE DEF best
    <3> QED
      BY <2>2
  <2>4. to = (right \ {u}) \cup {v}
    BY <1>1, <1>4
  <2> HIDE DEF u, v, best
  <2>5. Gain(rest, right, u, v) \in Int /\ Across(rest, right) \in Nat
        /\ Across(rest, (right \ {u}) \cup {v}) = Across(rest, right) - Gain(rest, right, u, v)
    BY <1>5, <2>3
  <2>6. to \in SUBSET ids
    BY <2>3, <2>4
  <2>7. Across(rest, to) < Across(rest, right)
    BY <2>3, <2>4, <2>5
  <2> QED
    BY <1>2, <2>3, <2>4, <2>6, <2>7 DEF to
<1> QED
  BY <1>3, <1>4

\* The swaps one at a time.
Swaps(ids, rest, right, F) ==
  /\ F \in [0..KLMaxRounds -> SUBSET ids]
  /\ F[0] = right /\ \A k \in 1..KLMaxRounds : F[k] = Swapped(ids, rest, F[k - 1])
  /\ KlSwap(ids, rest, right) = F[KLMaxRounds]

\* The swaps are defined, and keep to the nodes.
LEMMA KlSteps ==
  ASSUME NEW ids, NodeSet(ids), NEW rest, Joining(ids, rest),
         NEW right \in SUBSET ids
  PROVE  \E F : Swaps(ids, rest, right, F)
<1> DEFINE m == KLMaxRounds
           V == SUBSET ids
           first == right
           next(a) == Swapped(ids, rest, a)
           body(G, k) == IF k = 0 THEN first ELSE next(G[k - 1])
           F == CHOOSE G : G = [k \in 0..m |-> body(G, k)]
           step == [k \in 1..m |-> [a \in V |-> next(a)]]
<1>1. m \in Nat
  BY LayoutAssumption
<1>2. first \in V
  OBVIOUS
<1>3. KlSwap(ids, rest, right) = F[m]
  BY DEF KlSwap
<1>4. ASSUME NEW k \in 1..m, NEW a \in V PROVE next(a) \in V
  BY SwappedFacts
<1> HIDE DEF m, V, first, next
<1>5. step \in [1..m -> [V -> V]]
  BY <1>4
<1>6. PICK G \in [0..m -> V] : Recurs(G, m, first, step)
  <2> HIDE DEF step
  <2> QED
    BY <1>1, <1>2, <1>5, RecursionExists
<1>7. G[0] = first /\ \A k \in 1..m : G[k] = step[k][G[k - 1]]
  BY <1>6 DEF Recurs
<1>8. ASSUME NEW k \in 0..m PROVE G[k] = body(G, k)
  <2>1. CASE k = 0
    BY <1>7, <2>1
  <2>2. CASE k # 0
    <3>1. k \in 1..m /\ k - 1 \in 0..m
      BY <1>1, <2>2
    <3>2. G[k - 1] \in V
      BY <3>1
    <3> QED
      BY <1>7, <2>2, <3>1, <3>2
  <2> QED
    BY <2>1, <2>2
<1>9. G = [k \in 0..m |-> body(G, k)]
  <2> HIDE DEF body
  <2> QED
    BY <1>8
<1>10. F = [k \in 0..m |-> body(F, k)]
  <2> HIDE DEF body
  <2> QED
    BY <1>9
<1> HIDE DEF F
<1>11. \A k \in 0..m : F[k] = body(F, k)
  <2> HIDE DEF body
  <2> QED
    BY <1>10
<1>12. F[0] = first
  BY <1>1, <1>11
<1>13. \A k \in 1..m : F[k] = next(F[k - 1])
  BY <1>1, <1>11
<1>14. \A k \in 0..m : F[k] \in V
  <2>1. F[0] \in V /\ \A k \in 1..m : F[k - 1] \in V => F[k] \in V
    BY <1>2, <1>4, <1>12, <1>13
  <2> QED
    BY <1>1, <2>1, RecursionKeeps
<1>15. DOMAIN F = 0..m
  <2> HIDE DEF body
  <2> QED
    BY <1>10
<1>16. F \in [0..m -> V]
  <2>1. F = [k \in 0..m |-> F[k]]
    <3> HIDE DEF body
    <3> QED
      BY <1>10
  <2> QED
    BY <1>14, <2>1
<1> QED
  BY <1>3, <1>12, <1>13, <1>16 DEF m, V, first, next, Swaps

\* After the swaps no more edges are between the sides than before, and if there
\* were no more of those than rounds, no swap is left that takes one away.
LEMMA KlFacts ==
  ASSUME NEW ids, NodeSet(ids), NEW rest, Joining(ids, rest),
         NEW right \in SUBSET ids
  PROVE  LET to == KlSwap(ids, rest, right)
         IN  /\ to \in SUBSET ids /\ Across(rest, to) <= Across(rest, right)
             /\ Across(rest, right) <= KLMaxRounds =>
                  \A u \in to, v \in ids \ to : Across(rest, (to \ {u}) \cup {v}) >= Across(rest, to)
<1> DEFINE m == KLMaxRounds
           to == KlSwap(ids, rest, right)
           Best(r) == \A u \in r, v \in ids \ r : Across(rest, (r \ {u}) \cup {v}) >= Across(rest, r)
<1>1. m \in Nat
  BY LayoutAssumption
<1>2. PICK F : Swaps(ids, rest, right, F)
  BY KlSteps
<1>3. \A r \in SUBSET ids :
        /\ Swapped(ids, rest, r) \in SUBSET ids /\ Across(rest, r) \in Nat
        /\ \/ Across(rest, Swapped(ids, rest, r)) < Across(rest, r) /\ ~Best(r)
           \/ Swapped(ids, rest, r) = r /\ Best(r)
  <2> SUFFICES ASSUME NEW r \in SUBSET ids
               PROVE  /\ Swapped(ids, rest, r) \in SUBSET ids /\ Across(rest, r) \in Nat
                      /\ \/ Across(rest, Swapped(ids, rest, r)) < Across(rest, r) /\ ~Best(r)
                         \/ Swapped(ids, rest, r) = r /\ Best(r)
    OBVIOUS
  <2> DEFINE t == Swapped(ids, rest, r)
  <2>1. /\ t \in SUBSET ids /\ Across(rest, r) \in Nat /\ Across(rest, t) \in Nat
        /\ \/ /\ Across(rest, t) < Across(rest, r)
              /\ \E u \in r, v \in ids \ r : t = (r \ {u}) \cup {v}
           \/ t = r /\ \A u \in r, v \in ids \ r : Across(rest, (r \ {u}) \cup {v}) >= Across(rest, r)
    BY SwappedFacts
  <2> HIDE DEF t
  <2>2. ASSUME Across(rest, t) < Across(rest, r), NEW u \in r, NEW v \in ids \ r, t = (r \ {u}) \cup {v}
        PROVE  ~Best(r)
    <3> SUFFICES ASSUME Best(r) PROVE FALSE
      OBVIOUS
    <3>1. Across(rest, (r \ {u}) \cup {v}) >= Across(rest, r)
      OBVIOUS
    <3>2. Across(rest, t) >= Across(rest, r)
      BY <2>2, <3>1
    <3> QED
      BY <2>1, <2>2, <3>2
  <2> QED
    BY <2>1, <2>2 DEF t
<1>0. F \in [0..m -> SUBSET ids] /\ F[0] = right /\ (\A k \in 1..m : F[k] = Swapped(ids, rest, F[k - 1]))
      /\ to = F[m]
  BY <1>2 DEF Swaps
<1> HIDE DEF m, to, Best
<1> DEFINE S == {k \in 0..m : /\ Across(rest, F[k]) <= Across(rest, right)
                              /\ Across(rest, F[k]) + k <= Across(rest, right) \/ Best(F[k])}
<1>4. 0 \in S
  BY <1>1, <1>0, <1>3
<1>5. ASSUME NEW k \in 1..m, k - 1 \in S PROVE k \in S
  <2> DEFINE r == F[k - 1]
             t == F[k]
  <2>1. k \in 0..m /\ k - 1 \in 0..m
    BY <1>1
  <2>2. r \in SUBSET ids /\ t = Swapped(ids, rest, r) /\ t \in SUBSET ids
    BY <1>0, <2>1
  <2>3. /\ Across(rest, r) <= Across(rest, right)
        /\ Across(rest, r) + (k - 1) <= Across(rest, right) \/ Best(r)
    BY <1>5
  <2> HIDE DEF r, t
  <2>4. Across(rest, r) \in Nat /\ Across(rest, t) \in Nat /\ Across(rest, right) \in Nat
    BY <1>3, <2>2
  <2>5. (Across(rest, t) < Across(rest, r) /\ ~Best(r)) \/ (t = r /\ Best(r))
    BY <1>3, <2>2
  <2>6. /\ Across(rest, t) <= Across(rest, right)
        /\ Across(rest, t) + k <= Across(rest, right) \/ Best(t)
    <3>1. CASE t = r /\ Best(r)
      <4>1. Best(t)
        BY <3>1
      <4> QED
        BY <2>3, <3>1, <4>1
    <3>2. CASE Across(rest, t) < Across(rest, r) /\ ~Best(r)
      BY <2>1, <2>3, <2>4, <3>2
    <3> QED
      BY <2>5, <3>1, <3>2
  <2> QED
    BY <2>1, <2>6 DEF t
<1>6. 0..m \subseteq S
  <2> HIDE DEF S
  <2> QED
    BY <1>1, <1>4, <1>5, AllNumbers
<1>7. m \in S
  <2> HIDE DEF S
  <2> QED
    BY <1>1, <1>6
<1>8. /\ to \in SUBSET ids /\ Across(rest, to) <= Across(rest, right)
      /\ Across(rest, right) <= m => Best(to)
  <2>1. /\ to \in SUBSET ids /\ Across(rest, to) <= Across(rest, right)
        /\ Across(rest, to) + m <= Across(rest, right) \/ Best(to)
    BY <1>0, <1>1, <1>7
  <2>2. Across(rest, to) \in Nat /\ Across(rest, right) \in Nat
    BY <1>3, <2>1
  <2>3. ASSUME Across(rest, right) <= m, ~Best(to) PROVE FALSE
    <3>1. Across(rest, to) = 0
      BY <1>1, <2>1, <2>2, <2>3
    <3>2. Across(rest, Swapped(ids, rest, to)) < Across(rest, to)
          /\ Across(rest, Swapped(ids, rest, to)) \in Nat
      BY <1>3, <2>1, <2>3
    <3> QED
      BY <3>1, <3>2
  <2> QED
    BY <2>1, <2>3
<1> QED
  BY <1>8 DEF m, to, Best
-----------------------------------------------------------------------------
(* The rows of the boxes *)

\* The rows of nodes 1..n by column, and the height of the box of each.
Rows(n, l) ==
  /\ n \in Nat \ {0} /\ l.column \in [1..n -> Nat] /\ IsFiniteSet(Range(l.column))
  /\ l.row_order \in RowOrders(n, l.column)
Heights(n) == [1..n -> Nat]

\* The nodes of a column in its order.
IsColumn(n, l, c, ids) ==
  /\ ids = l.row_order[c] /\ c \in Range(l.column) /\ n \in Nat
  /\ Lists(ids, In(n, l.column, c)) /\ Range(ids) = In(n, l.column, c)
  /\ Len(ids) \in Nat \ {0} /\ DOMAIN ids = 1..Len(ids) /\ ids \in Seq(1..n)
  /\ \A k \in 1..Len(ids) : ids[k] \in 1..n /\ l.column[ids[k]] = c /\ PositionIn(ids, ids[k]) = k
  /\ \A k, m \in 1..Len(ids) : ids[k] = ids[m] => k = m
  /\ \A id \in 1..n : l.column[id] = c =>
       PositionIn(ids, id) \in 1..Len(ids) /\ ids[PositionIn(ids, id)] = id

\* The rows of a layout list each column once.
LEMMA RowFacts ==
  ASSUME NEW n, NEW l, Rows(n, l), NEW c \in Range(l.column)
  PROVE  IsColumn(n, l, c, l.row_order[c])
<1> DEFINE ids == l.row_order[c]
           S == In(n, l.column, c)
<1>1. n \in Nat /\ l.column \in [1..n -> Nat] /\ l.row_order \in RowOrders(n, l.column)
  BY DEF Rows
<1>2. Lists(ids, S) /\ ids \in Seq(1..n)
  BY <1>1 DEF RowOrders
<1>3. S \in SUBSET (1..n) /\ IsFiniteSet(S) /\ S # {}
  BY <1>1, InFacts
<1>4. \A id \in 1..n : id \in S <=> l.column[id] = c
  BY DEF In
<1>0. ids = l.row_order[c]
  OBVIOUS
<1> HIDE DEF ids, S
<1>5. /\ DOMAIN ids = 1..Cardinality(S) /\ Range(ids) = S
      /\ \A x \in S : PositionIn(ids, x) \in 1..Cardinality(S) /\ ids[PositionIn(ids, x)] = x
      /\ \A k \in 1..Cardinality(S) : PositionIn(ids, ids[k]) = k
  BY <1>2, PositionFacts
<1>6. Len(ids) = Cardinality(S) /\ Cardinality(S) \in Nat \ {0}
  BY <1>2, <1>3, FS_EmptySet DEF Lists
<1>7. \A k \in 1..Len(ids) : ids[k] \in S
  BY <1>2, <1>6 DEF Lists
<1>8. \A k, m \in 1..Len(ids) : ids[k] = ids[m] => k = m
  BY <1>2, <1>6 DEF Lists
<1>9. \A k \in 1..Len(ids) : ids[k] \in 1..n /\ l.column[ids[k]] = c /\ PositionIn(ids, ids[k]) = k
  BY <1>3, <1>4, <1>5, <1>6, <1>7
<1>10. \A id \in 1..n : l.column[id] = c =>
         PositionIn(ids, id) \in 1..Len(ids) /\ ids[PositionIn(ids, id)] = id
  BY <1>4, <1>5, <1>6
<1>11. IsColumn(n, l, c, ids)
  BY <1>0, <1>1, <1>2, <1>5, <1>6, <1>8, <1>9, <1>10 DEF IsColumn, S
<1> QED
  BY <1>11 DEF ids

\* Boxes of a column in its order, each a gap or more above the next.
Apart(ids, y, h, gap) ==
  \A k \in 1..(Len(ids) - 1) : y[ids[k + 1]] >= y[ids[k]] + h[ids[k]] + gap
Standing(n, l, h, gap) ==
  {y \in [1..n -> Int] : \A c \in Range(l.column) : Apart(l.row_order[c], y, h, gap)}

\* A column that moves leaves the others as they stand.
LEMMA ColumnMoved ==
  ASSUME NEW n, NEW l, Rows(n, l), NEW h \in Heights(n), NEW gap \in Nat,
         NEW y \in Standing(n, l, h, gap), NEW c, NEW ids, IsColumn(n, l, c, ids), NEW z \in [1..n -> Int],
         \A id \in 1..n : l.column[id] # c => z[id] = y[id], Apart(ids, z, h, gap)
  PROVE  z \in Standing(n, l, h, gap)
<1> SUFFICES ASSUME NEW d \in Range(l.column), d # c PROVE Apart(l.row_order[d], z, h, gap)
  BY DEF Standing, IsColumn
<1> DEFINE their == l.row_order[d]
<1>1. Len(their) \in Nat /\ \A k \in 1..Len(their) : their[k] \in 1..n /\ l.column[their[k]] = d
  BY RowFacts DEF IsColumn
<1>2. Apart(their, y, h, gap)
  BY DEF Standing
<1> HIDE DEF their
<1>3. \A k \in 1..Len(their) : z[their[k]] = y[their[k]]
  BY <1>1
<1>4. Apart(their, z, h, gap)
  <2> SUFFICES ASSUME NEW k \in 1..(Len(their) - 1)
               PROVE  z[their[k + 1]] >= z[their[k]] + h[their[k]] + gap
    BY DEF Apart
  <2>1. k \in 1..Len(their) /\ k + 1 \in 1..Len(their)
    BY <1>1
  <2>2. z[their[k + 1]] = y[their[k + 1]] /\ z[their[k]] = y[their[k]]
    BY <1>3, <2>1
  <2> QED
    BY <1>2, <2>2 DEF Apart
<1> QED
  BY <1>4 DEF their

\* Where the boxes of a column begin when none is moved.
LEMMA LinesFacts ==
  ASSUME NEW n, NEW l, Rows(n, l), NEW h \in Heights(n), NEW gap \in Nat, NEW c \in Range(l.column)
  PROVE  LET ids == l.row_order[c]  lines == Lines(ids, h, gap)
         IN  /\ lines[0] = 0
             /\ \A k \in 0..Len(ids) : lines[k] \in Int
             /\ \A k \in 1..Len(ids) : lines[k] = lines[k - 1] + h[ids[k]] + gap
<1> DEFINE ids == l.row_order[c]
           s == [i \in DOMAIN ids |-> h[ids[i]] + gap]
<1>1. Len(ids) \in Nat /\ DOMAIN ids = 1..Len(ids) /\ \A k \in 1..Len(ids) : ids[k] \in 1..n
  BY RowFacts DEF IsColumn
<1> HIDE DEF ids
<1>2. \A k \in 1..Len(ids) : h[ids[k]] \in Int
  BY <1>1 DEF Heights
<1>3. s \in [1..Len(ids) -> Int] /\ \A k \in 1..Len(ids) : s[k] = h[ids[k]] + gap
  BY <1>1, <1>2
<1>4. Lines(ids, h, gap) = Sums(s)
  BY DEF Lines
<1> HIDE DEF s
<1>5. s \in Seq(Int) /\ Len(s) = Len(ids)
  BY <1>1, <1>3, IsSequence
<1>6. /\ Sums(s)[0] = 0
      /\ \A k \in 1..Len(ids) : Sums(s)[k] = Sums(s)[k - 1] + s[k]
      /\ \A k \in 0..Len(ids) : Sums(s)[k] \in Int
  BY <1>5, SumsFacts
<1>7. ASSUME NEW k \in 1..Len(ids) PROVE Sums(s)[k] = Sums(s)[k - 1] + h[ids[k]] + gap
  <2>1. k - 1 \in 0..Len(ids)
    BY <1>1
  <2>2. Sums(s)[k - 1] \in Int /\ s[k] = h[ids[k]] + gap /\ h[ids[k]] \in Int
    BY <1>2, <1>3, <1>6, <2>1
  <2>3. Sums(s)[k] = Sums(s)[k - 1] + (h[ids[k]] + gap)
    BY <1>6, <2>2
  <2> QED
    BY <2>2, <2>3
<1> QED
  BY <1>4, <1>6, <1>7 DEF ids

\* The rows that boxes are first given.
LEMMA InitialRowsFacts ==
  ASSUME NEW n, NEW l, Rows(n, l), NEW h \in Heights(n), NEW gap \in Nat
  PROVE  InitialRows(l, h, gap) \in Standing(n, l, h, gap)
<1> DEFINE y == InitialRows(l, h, gap)
           at(id) == Lines(l.row_order[l.column[id]], h, gap)[PositionIn(l.row_order[l.column[id]], id) - 1]
<1>1. n \in Nat /\ DOMAIN l.column = 1..n /\ l.column \in [1..n -> Nat]
  BY DEF Rows
<1>2. y = [id \in 1..n |-> at(id)]
  BY <1>1 DEF InitialRows
<1> HIDE DEF y
<1>3. ASSUME NEW id \in 1..n PROVE at(id) \in Int
  <2> DEFINE c == l.column[id]
             ids == l.row_order[c]
             p == PositionIn(ids, id)
  <2>1. c \in Range(l.column)
    BY <1>1 DEF Range
  <2>2. p \in 1..Len(ids) /\ Len(ids) \in Nat
    <3> HIDE DEF c
    <3>1. l.column[id] = c
      BY DEF c
    <3> QED
      BY <2>1, <3>1, RowFacts DEF IsColumn
  <2>3. p - 1 \in 0..Len(ids)
    <3> HIDE DEF p, ids
    <3> QED
      BY <2>2
  <2>4. \A k \in 0..Len(ids) : Lines(ids, h, gap)[k] \in Int
    <3> HIDE DEF c
    <3> QED
      BY <2>1, LinesFacts
  <2> QED
    BY <2>3, <2>4
<1> HIDE DEF at
<1>4. y \in [1..n -> Int]
  BY <1>2, <1>3
<1>5. ASSUME NEW c \in Range(l.column) PROVE Apart(l.row_order[c], y, h, gap)
  <2> DEFINE ids == l.row_order[c]
             lines == Lines(ids, h, gap)
  <2>1. /\ Len(ids) \in Nat
        /\ \A k \in 1..Len(ids) : ids[k] \in 1..n /\ l.column[ids[k]] = c /\ PositionIn(ids, ids[k]) = k
    BY RowFacts DEF IsColumn
  <2>2. /\ \A k \in 0..Len(ids) : lines[k] \in Int
        /\ \A k \in 1..Len(ids) : lines[k] = lines[k - 1] + h[ids[k]] + gap
    BY LinesFacts
  <2>3. \A k \in 1..Len(ids) : y[ids[k]] = lines[k - 1]
    <3> SUFFICES ASSUME NEW k \in 1..Len(ids) PROVE y[ids[k]] = lines[k - 1]
      OBVIOUS
    <3>1. ids[k] \in 1..n /\ l.column[ids[k]] = c /\ PositionIn(ids, ids[k]) = k
      BY <2>1
    <3>2. y[ids[k]] = at(ids[k])
      BY <1>2, <3>1
    <3> QED
      BY <3>1, <3>2 DEF at
  <2> HIDE DEF ids, lines
  <2>4. Apart(ids, y, h, gap)
    <3> SUFFICES ASSUME NEW k \in 1..(Len(ids) - 1)
                 PROVE  y[ids[k + 1]] >= y[ids[k]] + h[ids[k]] + gap
      BY DEF Apart
    <3>1. k \in 1..Len(ids) /\ k + 1 \in 1..Len(ids) /\ (k + 1) - 1 = k /\ k \in 0..Len(ids) /\ k - 1 \in 0..Len(ids)
      BY <2>1
    <3>2. y[ids[k + 1]] = lines[k] /\ y[ids[k]] = lines[k - 1]
      BY <2>3, <3>1
    <3>3. lines[k] \in Int /\ lines[k - 1] \in Int /\ h[ids[k]] \in Int
      BY <2>1, <2>2, <3>1 DEF Heights
    <3> QED
      BY <2>2, <3>1, <3>2, <3>3
  <2> QED
    BY <2>4 DEF ids
<1> QED
  BY <1>4, <1>5 DEF Standing, y
-----------------------------------------------------------------------------
\* The larger and the smaller of two integers.
LEMMA LargerIsInt ==
  ASSUME NEW a \in Int, NEW b \in Int
  PROVE  /\ MaxOf(a, b) \in Int /\ MaxOf(a, b) >= a /\ MaxOf(a, b) >= b
         /\ MinOf(a, b) \in Int /\ MinOf(a, b) <= a /\ MinOf(a, b) <= b
BY DEF MaxOf, MinOf

\* What a push does to the boxes it reaches.
DownMoves(n, ids, i, limit, y, h, gap) ==
  \E row \in [0..(Len(ids) - i) -> Int] :
        /\ row[0] = limit
           /\ \A k \in 1..(Len(ids) - i) : row[k] = MaxOf(y[ids[i + k]], row[k - 1] + h[ids[i + k - 1]] + gap)
        /\ PushDown(ids, i, limit, y, h, gap) = [id \in DOMAIN y |-> IF \E k \in i..Len(ids) : ids[k] = id
                                     THEN row[PositionIn(ids, id) - i] ELSE y[id]]
\* The boxes pushed down one at a time.
LEMMA DownSteps ==
  ASSUME NEW n, NEW l, Rows(n, l), NEW h \in Heights(n), NEW gap \in Nat, NEW y \in [1..n -> Int],
         NEW c, NEW ids, IsColumn(n, l, c, ids), NEW i \in 1..Len(ids), NEW limit \in Int
  PROVE  DownMoves(n, ids, i, limit, y, h, gap)
<1> DEFINE m == (Len(ids) - i)
           V == Int
           first == limit
           next(k, a) == MaxOf(y[ids[i + k]], a + h[ids[i + k - 1]] + gap)
           body(G, k) == IF k = 0 THEN first ELSE next(k, G[k - 1])
           F == CHOOSE G : G = [k \in 0..m |-> body(G, k)]
           step == [k \in 1..m |-> [a \in V |-> next(k, a)]]
<1>1. m \in Nat
  BY DEF IsColumn
<1>2. first \in V
  OBVIOUS
<1>3. PushDown(ids, i, limit, y, h, gap) =
        [id \in DOMAIN y |-> IF \E k \in i..Len(ids) : ids[k] = id
                             THEN F[PositionIn(ids, id) - i] ELSE y[id]]
  BY DEF PushDown
<1>4. ASSUME NEW k \in 1..m, NEW a \in V PROVE next(k, a) \in V
  <2>1. i + k \in 1..Len(ids) /\ i + k - 1 \in 1..Len(ids)
    <3>1. Len(ids) \in Nat
      BY DEF IsColumn
    <3> HIDE DEF V, first, next, body, F, step
    <3> QED
      BY <3>1
  <2>2. ids[i + k] \in 1..n /\ ids[i + k - 1] \in 1..n
    BY <2>1 DEF IsColumn
  <2> DEFINE u == y[ids[i + k]]  v == a + h[ids[i + k - 1]] + gap
  <2>3. u \in Int /\ v \in Int
    <3>1. h[ids[i + k - 1]] \in Nat
      BY <2>2 DEF Heights
    <3> QED
      BY <2>2, <3>1
  <2> HIDE DEF u, v
  <2>4. MaxOf(u, v) \in Int
    BY <2>3, LargerIsInt
  <2> QED
    BY <2>4 DEF u, v
<1> HIDE DEF m, V, first, next
<1>5. step \in [1..m -> [V -> V]]
  BY <1>4
<1>6. PICK G \in [0..m -> V] : Recurs(G, m, first, step)
  <2> HIDE DEF step
  <2> QED
    BY <1>1, <1>2, <1>5, RecursionExists
<1>7. G[0] = first /\ \A k \in 1..m : G[k] = step[k][G[k - 1]]
  BY <1>6 DEF Recurs
<1>8. ASSUME NEW k \in 0..m PROVE G[k] = body(G, k)
  <2>1. CASE k = 0
    BY <1>7, <2>1
  <2>2. CASE k # 0
    <3>1. k \in 1..m /\ k - 1 \in 0..m
      BY <1>1, <2>2
    <3>2. G[k - 1] \in V
      BY <3>1
    <3> QED
      BY <1>7, <2>2, <3>1, <3>2
  <2> QED
    BY <2>1, <2>2
<1>9. G = [k \in 0..m |-> body(G, k)]
  <2> HIDE DEF body
  <2> QED
    BY <1>8
<1>10. F = [k \in 0..m |-> body(F, k)]
  <2> HIDE DEF body
  <2> QED
    BY <1>9
<1> HIDE DEF F
<1>11. \A k \in 0..m : F[k] = body(F, k)
  <2> HIDE DEF body
  <2> QED
    BY <1>10
<1>12. F[0] = first
  BY <1>1, <1>11
<1>13. \A k \in 1..m : F[k] = next(k, F[k - 1])
  BY <1>1, <1>11
<1>14. \A k \in 0..m : F[k] \in V
  <2>1. F[0] \in V /\ \A k \in 1..m : F[k - 1] \in V => F[k] \in V
    BY <1>2, <1>4, <1>12, <1>13
  <2> QED
    BY <1>1, <2>1, RecursionKeeps
<1>15. DOMAIN F = 0..m
  <2> HIDE DEF body
  <2> QED
    BY <1>10
<1>16. F \in [0..m -> V]
  <2>1. F = [k \in 0..m |-> F[k]]
    <3> HIDE DEF body
    <3> QED
      BY <1>10
  <2> QED
    BY <1>14, <2>1
<1>17. \E row \in [0..(Len(ids) - i) -> Int] :
           /\ row[0] = limit /\ \A k \in 1..(Len(ids) - i) : row[k] = MaxOf(y[ids[i + k]], row[k - 1] + h[ids[i + k - 1]] + gap)
           /\ PushDown(ids, i, limit, y, h, gap) =
                [id \in DOMAIN y |-> IF \E k \in i..Len(ids) : ids[k] = id
                                     THEN row[PositionIn(ids, id) - i] ELSE y[id]]
  BY <1>3, <1>12, <1>13, <1>16 DEF m, V, first, next
<1> QED
  BY <1>17 DEF DownMoves

\* What a push does to the boxes it reaches.
UpMoves(n, ids, i, limit, y, h, gap) ==
  \E row \in [0..(i - 1) -> Int] :
        /\ row[0] = limit
           /\ \A k \in 1..(i - 1) : row[k] = MinOf(y[ids[i - k]], row[k - 1] - h[ids[i - k]] - gap)
        /\ PushUp(ids, i, limit, y, h, gap) = [id \in DOMAIN y |-> IF \E k \in 1..i : ids[k] = id
                                     THEN row[i - PositionIn(ids, id)] ELSE y[id]]
\* The boxes pushed up one at a time.
LEMMA UpSteps ==
  ASSUME NEW n, NEW l, Rows(n, l), NEW h \in Heights(n), NEW gap \in Nat, NEW y \in [1..n -> Int],
         NEW c, NEW ids, IsColumn(n, l, c, ids), NEW i \in 1..Len(ids), NEW limit \in Int
  PROVE  UpMoves(n, ids, i, limit, y, h, gap)
<1> DEFINE m == (i - 1)
           V == Int
           first == limit
           next(k, a) == MinOf(y[ids[i - k]], a - h[ids[i - k]] - gap)
           body(G, k) == IF k = 0 THEN first ELSE next(k, G[k - 1])
           F == CHOOSE G : G = [k \in 0..m |-> body(G, k)]
           step == [k \in 1..m |-> [a \in V |-> next(k, a)]]
<1>1. m \in Nat
  BY DEF IsColumn
<1>2. first \in V
  OBVIOUS
<1>3. PushUp(ids, i, limit, y, h, gap) =
        [id \in DOMAIN y |-> IF \E k \in 1..i : ids[k] = id
                             THEN F[i - PositionIn(ids, id)] ELSE y[id]]
  BY DEF PushUp
<1>4. ASSUME NEW k \in 1..m, NEW a \in V PROVE next(k, a) \in V
  <2>1. i - k \in 1..Len(ids)
    BY DEF IsColumn
  <2>2. ids[i - k] \in 1..n
    BY <2>1 DEF IsColumn
  <2> DEFINE u == y[ids[i - k]]  v == a - h[ids[i - k]] - gap
  <2>3. u \in Int /\ v \in Int
    <3>1. h[ids[i - k]] \in Nat
      BY <2>2 DEF Heights
    <3> QED
      BY <2>2, <3>1
  <2> HIDE DEF u, v
  <2>4. MinOf(u, v) \in Int
    BY <2>3, LargerIsInt
  <2> QED
    BY <2>4 DEF u, v
<1> HIDE DEF m, V, first, next
<1>5. step \in [1..m -> [V -> V]]
  BY <1>4
<1>6. PICK G \in [0..m -> V] : Recurs(G, m, first, step)
  <2> HIDE DEF step
  <2> QED
    BY <1>1, <1>2, <1>5, RecursionExists
<1>7. G[0] = first /\ \A k \in 1..m : G[k] = step[k][G[k - 1]]
  BY <1>6 DEF Recurs
<1>8. ASSUME NEW k \in 0..m PROVE G[k] = body(G, k)
  <2>1. CASE k = 0
    BY <1>7, <2>1
  <2>2. CASE k # 0
    <3>1. k \in 1..m /\ k - 1 \in 0..m
      BY <1>1, <2>2
    <3>2. G[k - 1] \in V
      BY <3>1
    <3> QED
      BY <1>7, <2>2, <3>1, <3>2
  <2> QED
    BY <2>1, <2>2
<1>9. G = [k \in 0..m |-> body(G, k)]
  <2> HIDE DEF body
  <2> QED
    BY <1>8
<1>10. F = [k \in 0..m |-> body(F, k)]
  <2> HIDE DEF body
  <2> QED
    BY <1>9
<1> HIDE DEF F
<1>11. \A k \in 0..m : F[k] = body(F, k)
  <2> HIDE DEF body
  <2> QED
    BY <1>10
<1>12. F[0] = first
  BY <1>1, <1>11
<1>13. \A k \in 1..m : F[k] = next(k, F[k - 1])
  BY <1>1, <1>11
<1>14. \A k \in 0..m : F[k] \in V
  <2>1. F[0] \in V /\ \A k \in 1..m : F[k - 1] \in V => F[k] \in V
    BY <1>2, <1>4, <1>12, <1>13
  <2> QED
    BY <1>1, <2>1, RecursionKeeps
<1>15. DOMAIN F = 0..m
  <2> HIDE DEF body
  <2> QED
    BY <1>10
<1>16. F \in [0..m -> V]
  <2>1. F = [k \in 0..m |-> F[k]]
    <3> HIDE DEF body
    <3> QED
      BY <1>10
  <2> QED
    BY <1>14, <2>1
<1>17. \E row \in [0..(i - 1) -> Int] :
           /\ row[0] = limit /\ \A k \in 1..(i - 1) : row[k] = MinOf(y[ids[i - k]], row[k - 1] - h[ids[i - k]] - gap)
           /\ PushUp(ids, i, limit, y, h, gap) =
                [id \in DOMAIN y |-> IF \E k \in 1..i : ids[k] = id
                                     THEN row[i - PositionIn(ids, id)] ELSE y[id]]
  BY <1>3, <1>12, <1>13, <1>16 DEF m, V, first, next
<1> QED
  BY <1>17 DEF UpMoves

\* A box moved down, with those pushed below it, keeps the boxes of its column
\* apart.
LEMMA PushDownFacts ==
  ASSUME NEW n, NEW l, Rows(n, l), NEW h \in Heights(n), NEW gap \in Nat,
         NEW y \in Standing(n, l, h, gap), NEW c, NEW ids, IsColumn(n, l, c, ids),
         NEW i \in 1..Len(ids), NEW limit \in Int, limit >= y[ids[i]]
  PROVE  PushDown(ids, i, limit, y, h, gap) \in Standing(n, l, h, gap)
<1>a. y \in [1..n -> Int]
  BY DEF Standing
<1>b. DownMoves(n, ids, i, limit, y, h, gap)
  BY <1>a, DownSteps
<1> DEFINE m == Len(ids) - i
           z == PushDown(ids, i, limit, y, h, gap)
<1>1. /\ Len(ids) \in Nat /\ n \in Nat
      /\ \A k \in 1..Len(ids) : ids[k] \in 1..n /\ l.column[ids[k]] = c /\ PositionIn(ids, ids[k]) = k
      /\ \A k, j \in 1..Len(ids) : ids[k] = ids[j] => k = j
  BY DEF IsColumn
<1>2. y \in [1..n -> Int] /\ Apart(ids, y, h, gap)
  BY DEF Standing, IsColumn
<1>3. PICK F \in [0..m -> Int] :
        /\ F[0] = limit
           /\ \A k \in 1..m : F[k] = MaxOf(y[ids[i + k]], F[k - 1] + h[ids[i + k - 1]] + gap)
        /\ z = [id \in DOMAIN y |-> IF \E k \in i..Len(ids) : ids[k] = id
                                     THEN F[PositionIn(ids, id) - i] ELSE y[id]]
  BY <1>b DEF DownMoves
<1> HIDE DEF z
<1>4. m \in Nat
  BY <1>1
<1>5. ASSUME NEW id \in 1..n, \E k \in i..Len(ids) : ids[k] = id PROVE z[id] = F[PositionIn(ids, id) - i] /\ z[id] \in Int
  <2>1. PICK k \in i..Len(ids) : ids[k] = id
    BY <1>5
  <2>2. PositionIn(ids, id) = k
    BY <1>1, <2>1
  <2>3. k - i \in 0..m
    BY <1>1, <2>1
  <2> QED
    BY <1>2, <1>3, <1>5, <2>2, <2>3
<1>6. z \in [1..n -> Int]
  <2>1. DOMAIN z = 1..n /\ z = [id \in 1..n |-> z[id]]
    BY <1>2, <1>3
  <2>2. \A id \in 1..n : z[id] \in Int
    <3> SUFFICES ASSUME NEW id \in 1..n PROVE z[id] \in Int
      OBVIOUS
    <3>1. (~ \E k \in i..Len(ids) : ids[k] = id) => z[id] = y[id]
      BY <1>2, <1>3
    <3> QED
      BY <1>2, <1>5, <3>1
  <2> QED
    BY <2>1, <2>2
<1>7. \A id \in 1..n : l.column[id] # c => z[id] = y[id]
  <2> SUFFICES ASSUME NEW id \in 1..n, l.column[id] # c PROVE z[id] = y[id]
    OBVIOUS
  <2>1. ~ \E k \in i..Len(ids) : ids[k] = id
    BY <1>1
  <2> QED
    BY <1>2, <1>3, <2>1
<1>8. \A k \in 1..Len(ids) : z[ids[k]] = IF k >= i THEN F[k - i] ELSE y[ids[k]]
  <2> SUFFICES ASSUME NEW k \in 1..Len(ids) PROVE z[ids[k]] = IF k >= i THEN F[k - i] ELSE y[ids[k]]
    OBVIOUS
  <2>1. CASE k >= i
    <3>1. k \in i..Len(ids) /\ ids[k] \in 1..n /\ PositionIn(ids, ids[k]) = k
      BY <1>1, <2>1
    <3> QED
      BY <1>5, <2>1, <3>1
  <2>2. CASE ~(k >= i)
    <3>1. ~ \E j \in i..Len(ids) : ids[j] = ids[k]
      BY <1>1, <2>2
    <3>2. ids[k] \in 1..n
      BY <1>1
    <3> QED
      BY <1>2, <1>3, <2>2, <3>1, <3>2
  <2> QED
    BY <2>1, <2>2
<1>9. Apart(ids, z, h, gap)
  <2> SUFFICES ASSUME NEW k \in 1..(Len(ids) - 1)
               PROVE  z[ids[k + 1]] >= z[ids[k]] + h[ids[k]] + gap
    BY DEF Apart
  <2>1. k \in 1..Len(ids) /\ k + 1 \in 1..Len(ids)
    BY <1>1
  <2>2. /\ ids[k] \in 1..n /\ ids[k + 1] \in 1..n /\ h[ids[k]] \in Int
        /\ y[ids[k]] \in Int /\ y[ids[k + 1]] \in Int
    <3>1. ids[k] \in 1..n /\ ids[k + 1] \in 1..n
      BY <1>1, <2>1
    <3> QED
      BY <1>2, <3>1 DEF Heights
  <2>3. y[ids[k + 1]] >= y[ids[k]] + h[ids[k]] + gap
    BY <1>2 DEF Apart
  <2>4. CASE k >= i
    <3> DEFINE j == k + 1 - i
    <3>1. j \in 1..m /\ j - 1 = k - i /\ i + j = k + 1 /\ i + j - 1 = k /\ j - 1 \in 0..m
      BY <1>1, <2>4
    <3>2. z[ids[k + 1]] = F[j] /\ z[ids[k]] = F[j - 1]
      <4>1. k + 1 >= i
        BY <2>4
      <4> QED
        BY <1>8, <2>1, <2>4, <3>1, <4>1
    <3> HIDE DEF j, m
    <3>3. F[j] = MaxOf(y[ids[k + 1]], F[j - 1] + h[ids[k]] + gap)
      BY <1>3, <3>1
    <3>4. F[j - 1] \in Int
      BY <3>1
    <3> DEFINE a == F[j - 1] + h[ids[k]] + gap
               b == y[ids[k + 1]]
    <3>5. a \in Int /\ b \in Int /\ F[j] = MaxOf(b, a)
      BY <2>2, <3>3, <3>4
    <3>6. F[j] >= a
      <4> HIDE DEF a, b
      <4> QED
        BY <3>5, LargerIsInt
    <3> QED
      BY <3>2, <3>6
  <2>5. CASE k < i
    <3>1. z[ids[k]] = y[ids[k]]
      BY <1>8, <2>1, <2>5
    <3>2. CASE k + 1 < i
      <4>1. z[ids[k + 1]] = y[ids[k + 1]]
        BY <1>8, <2>1, <3>2
      <4> QED
        BY <2>3, <3>1, <4>1
    <3>3. CASE k + 1 = i
      <4>1. z[ids[k + 1]] = F[0]
        BY <1>8, <2>1, <3>3
      <4>2. z[ids[k + 1]] >= y[ids[k + 1]]
        BY <1>3, <3>3, <4>1
      <4>3. z[ids[k + 1]] \in Int
        BY <1>3, <4>1
      <4> DEFINE u == z[ids[k + 1]]  v == y[ids[k + 1]]  w == h[ids[k]]  x == y[ids[k]]  t == z[ids[k]]
      <4>4. /\ u \in Int /\ v \in Int /\ w \in Int /\ x \in Int /\ t \in Int
            /\ v >= x + w + gap /\ u >= v /\ t <= x
        BY <2>2, <2>3, <3>1, <4>2, <4>3
      <4> HIDE DEF u, v, w, x, t
      <4>5. u >= t + w + gap
        BY <4>4
      <4> QED
        BY <4>5 DEF u, t, w
    <3> QED
      BY <1>1, <2>5, <3>2, <3>3
  <2> QED
    BY <2>4, <2>5
<1>10. z \in Standing(n, l, h, gap)
  BY <1>6, <1>7, <1>9, ColumnMoved
<1> QED
  BY <1>10 DEF z

\* And so does one moved up, with those pushed above it.
LEMMA PushUpFacts ==
  ASSUME NEW n, NEW l, Rows(n, l), NEW h \in Heights(n), NEW gap \in Nat,
         NEW y \in Standing(n, l, h, gap), NEW c, NEW ids, IsColumn(n, l, c, ids),
         NEW i \in 1..Len(ids), NEW limit \in Int, limit <= y[ids[i]]
  PROVE  PushUp(ids, i, limit, y, h, gap) \in Standing(n, l, h, gap)
<1>a. y \in [1..n -> Int]
  BY DEF Standing
<1>b. UpMoves(n, ids, i, limit, y, h, gap)
  BY <1>a, UpSteps
<1> DEFINE m == i - 1
           z == PushUp(ids, i, limit, y, h, gap)
<1>1. /\ Len(ids) \in Nat /\ n \in Nat
      /\ \A k \in 1..Len(ids) : ids[k] \in 1..n /\ l.column[ids[k]] = c /\ PositionIn(ids, ids[k]) = k
      /\ \A k, j \in 1..Len(ids) : ids[k] = ids[j] => k = j
  BY DEF IsColumn
<1>0. \A k \in 1..i : k \in 1..Len(ids)
  BY <1>1
<1>2. y \in [1..n -> Int] /\ Apart(ids, y, h, gap)
  BY DEF Standing, IsColumn
<1>3. PICK F \in [0..m -> Int] :
        /\ F[0] = limit
           /\ \A k \in 1..m : F[k] = MinOf(y[ids[i - k]], F[k - 1] - h[ids[i - k]] - gap)
        /\ z = [id \in DOMAIN y |-> IF \E k \in 1..i : ids[k] = id
                                     THEN F[i - PositionIn(ids, id)] ELSE y[id]]
  BY <1>b DEF UpMoves
<1> HIDE DEF z
<1>4. m \in Nat
  BY <1>1
<1>5. ASSUME NEW id \in 1..n, \E k \in 1..i : ids[k] = id PROVE z[id] = F[i - PositionIn(ids, id)] /\ z[id] \in Int
  <2>1. PICK k \in 1..i : ids[k] = id
    BY <1>5
  <2>2. PositionIn(ids, id) = k
    BY <1>0, <1>1, <2>1
  <2>3. i - k \in 0..m
    BY <1>1, <2>1
  <2> QED
    BY <1>2, <1>3, <1>5, <2>2, <2>3
<1>6. z \in [1..n -> Int]
  <2>1. DOMAIN z = 1..n /\ z = [id \in 1..n |-> z[id]]
    BY <1>2, <1>3
  <2>2. \A id \in 1..n : z[id] \in Int
    <3> SUFFICES ASSUME NEW id \in 1..n PROVE z[id] \in Int
      OBVIOUS
    <3>1. (~ \E k \in 1..i : ids[k] = id) => z[id] = y[id]
      BY <1>2, <1>3
    <3> QED
      BY <1>2, <1>5, <3>1
  <2> QED
    BY <2>1, <2>2
<1>7. \A id \in 1..n : l.column[id] # c => z[id] = y[id]
  <2> SUFFICES ASSUME NEW id \in 1..n, l.column[id] # c PROVE z[id] = y[id]
    OBVIOUS
  <2>1. ~ \E k \in 1..i : ids[k] = id
    BY <1>0, <1>1
  <2> QED
    BY <1>2, <1>3, <2>1
<1>8. \A k \in 1..Len(ids) : z[ids[k]] = IF k <= i THEN F[i - k] ELSE y[ids[k]]
  <2> SUFFICES ASSUME NEW k \in 1..Len(ids) PROVE z[ids[k]] = IF k <= i THEN F[i - k] ELSE y[ids[k]]
    OBVIOUS
  <2>1. CASE k <= i
    <3>1. k \in 1..i /\ ids[k] \in 1..n /\ PositionIn(ids, ids[k]) = k
      BY <1>0, <1>1, <2>1
    <3> QED
      BY <1>5, <2>1, <3>1
  <2>2. CASE ~(k <= i)
    <3>1. ~ \E j \in 1..i : ids[j] = ids[k]
      BY <1>0, <1>1, <2>2
    <3>2. ids[k] \in 1..n
      BY <1>1
    <3> QED
      BY <1>2, <1>3, <2>2, <3>1, <3>2
  <2> QED
    BY <2>1, <2>2
<1>9. Apart(ids, z, h, gap)
  <2> SUFFICES ASSUME NEW k \in 1..(Len(ids) - 1)
               PROVE  z[ids[k + 1]] >= z[ids[k]] + h[ids[k]] + gap
    BY DEF Apart
  <2>1. k \in 1..Len(ids) /\ k + 1 \in 1..Len(ids)
    BY <1>1
  <2>2. /\ ids[k] \in 1..n /\ ids[k + 1] \in 1..n /\ h[ids[k]] \in Int
        /\ y[ids[k]] \in Int /\ y[ids[k + 1]] \in Int
    <3>1. ids[k] \in 1..n /\ ids[k + 1] \in 1..n
      BY <1>1, <2>1
    <3> QED
      BY <1>2, <3>1 DEF Heights
  <2>3. y[ids[k + 1]] >= y[ids[k]] + h[ids[k]] + gap
    BY <1>2 DEF Apart
  <2>4. CASE k < i
    <3> DEFINE j == i - k
    <3>1. j \in 1..m /\ i - j = k /\ j - 1 = i - (k + 1) /\ j - 1 \in 0..m
      BY <1>1, <2>4
    <3>2. z[ids[k]] = F[j] /\ z[ids[k + 1]] = F[j - 1]
      <4>1. k <= i /\ k + 1 <= i
        BY <2>4
      <4> QED
        BY <1>8, <2>1, <3>1, <4>1
    <3> HIDE DEF j, m
    <3>3. F[j] = MinOf(y[ids[k]], F[j - 1] - h[ids[k]] - gap)
      BY <1>3, <3>1
    <3>4. F[j - 1] \in Int /\ F[j] \in Int
      BY <3>1
    <3> DEFINE a == F[j - 1] - h[ids[k]] - gap
               b == y[ids[k]]
    <3>5. a \in Int /\ b \in Int /\ F[j] = MinOf(b, a)
      BY <2>2, <3>3, <3>4
    <3>6. F[j] <= a
      <4> HIDE DEF a, b
      <4> QED
        BY <3>5, LargerIsInt
    <3>7. F[j - 1] >= F[j] + h[ids[k]] + gap
      <4> DEFINE u == F[j - 1]  v == F[j]  w == h[ids[k]]
      <4>1. u \in Int /\ v \in Int /\ w \in Int /\ v <= u - w - gap
        BY <2>2, <3>4, <3>6
      <4> HIDE DEF u, v, w
      <4>2. u >= v + w + gap
        BY <4>1
      <4> QED
        BY <4>2 DEF u, v, w
    <3> QED
      BY <3>2, <3>7
  <2>5. CASE k >= i
    <3>1. z[ids[k + 1]] = y[ids[k + 1]]
      BY <1>8, <2>1, <2>5
    <3>2. CASE k > i
      <4>1. z[ids[k]] = y[ids[k]]
        BY <1>8, <2>1, <3>2
      <4> QED
        BY <2>3, <3>1, <4>1
    <3>3. CASE k = i
      <4>1. z[ids[k]] = F[0]
        BY <1>8, <2>1, <3>3
      <4>2. z[ids[k]] <= y[ids[k]]
        BY <1>3, <3>3, <4>1
      <4>3. z[ids[k]] \in Int
        BY <1>3, <4>1
      <4> DEFINE u == z[ids[k + 1]]  v == y[ids[k + 1]]  w == h[ids[k]]  x == y[ids[k]]  t == z[ids[k]]
      <4>4. /\ u \in Int /\ v \in Int /\ w \in Int /\ x \in Int /\ t \in Int
            /\ v >= x + w + gap /\ u >= v /\ t <= x
        BY <2>2, <2>3, <3>1, <4>2, <4>3
      <4> HIDE DEF u, v, w, x, t
      <4>5. u >= t + w + gap
        BY <4>4
      <4> QED
        BY <4>5 DEF u, t, w
    <3> QED
      BY <1>1, <2>5, <3>2, <3>3
  <2> QED
    BY <2>4, <2>5
<1>10. z \in Standing(n, l, h, gap)
  BY <1>6, <1>7, <1>9, ColumnMoved
<1> QED
  BY <1>10 DEF z

\* A mean is rounded to an integer.
LEMMA RoundIsInt ==
  ASSUME NEW a \in Int, NEW b \in Nat \ {0}
  PROVE  RoundHalfEven(a, b) \in Int
<1>1. a \div b \in Int
  OBVIOUS
<1> DEFINE q == a \div b
           even == 2 * (a % b) < b \/ (2 * (a % b) = b /\ q % 2 = 0)
<1>2. RoundHalfEven(a, b) = IF even THEN q ELSE q + 1
  BY DEF RoundHalfEven
<1> HIDE DEF q, even
<1> QED
  BY <1>1, <1>2 DEF q

\* How far a box may go is an integer.
LEMMA LimitFacts ==
  ASSUME NEW n, NEW l, Rows(n, l), NEW h \in Heights(n), NEW gap \in Nat, NEW y \in [1..n -> Int],
         NEW c, NEW ids, IsColumn(n, l, c, ids), NEW i \in 1..Len(ids), NEW desired \in Int, NEW p
  PROVE  NudgeLimit(ids, i, desired, y, h, p, gap) \in Int
<1> DEFINE barriers == {k \in DOMAIN ids : p[ids[k]] >= p[ids[i]]}
           below == {k \in barriers : k > i}
           above == {k \in barriers : k < i}
           lines == Lines(ids, h, gap)
           Room(from, to) == lines[to - 1] - lines[from - 1]
           a == y[ids[Min(below)]] - Room(i, Min(below))
           b == y[ids[Max(above)]] + Room(Max(above), i)
<1>1. /\ Len(ids) \in Nat /\ DOMAIN ids = 1..Len(ids) /\ c \in Range(l.column) /\ ids = l.row_order[c]
      /\ \A k \in 1..Len(ids) : ids[k] \in 1..n
  BY DEF IsColumn
<1>2. NudgeLimit(ids, i, desired, y, h, p, gap) =
        IF desired > y[ids[i]] THEN IF below = {} THEN desired ELSE MinOf(desired, a)
        ELSE IF above = {} THEN desired ELSE MaxOf(desired, b)
  BY DEF NudgeLimit
<1>3. \A k \in 1..Len(ids) : lines[k - 1] \in Int
  <2>1. \A k \in 0..Len(ids) : lines[k] \in Int
    BY <1>1, LinesFacts
  <2> HIDE DEF lines
  <2> QED
    BY <1>1, <2>1
<1>4. below \in SUBSET (1..Len(ids)) /\ above \in SUBSET (1..Len(ids))
  BY <1>1
<1>5. IsFiniteSet(below) /\ IsFiniteSet(above)
  BY <1>1, <1>4, UpTo, FS_Subset
<1> HIDE DEF below, above, lines
<1>6. below # {} => Min(below) \in 1..Len(ids)
  <2>1. below \in SUBSET Int
    BY <1>1, <1>4
  <2> QED
    BY <1>4, <1>5, <2>1, MinFacts
<1>7. above # {} => Max(above) \in 1..Len(ids)
  <2>1. above \in SUBSET Int
    BY <1>1, <1>4
  <2> QED
    BY <1>4, <1>5, <2>1, MaxFacts
<1>8. ASSUME below # {} PROVE MinOf(desired, a) \in Int
  <2> DEFINE k == Min(below)
  <2>1. k \in 1..Len(ids)
    BY <1>6, <1>8
  <2> HIDE DEF k
  <2>2. y[ids[k]] \in Int /\ lines[k - 1] \in Int /\ lines[i - 1] \in Int
    BY <1>1, <1>3, <2>1
  <2>3. y[ids[k]] - (lines[k - 1] - lines[i - 1]) \in Int
    BY <2>2
  <2> QED
    BY <2>3, LargerIsInt DEF k
<1>9. ASSUME above # {} PROVE MaxOf(desired, b) \in Int
  <2> DEFINE k == Max(above)
  <2>1. k \in 1..Len(ids)
    BY <1>7, <1>9
  <2> HIDE DEF k
  <2>2. y[ids[k]] \in Int /\ lines[k - 1] \in Int /\ lines[i - 1] \in Int
    BY <1>1, <1>3, <2>1
  <2>3. y[ids[k]] + (lines[i - 1] - lines[k - 1]) \in Int
    BY <2>2
  <2> QED
    BY <2>3, LargerIsInt DEF k
<1> HIDE DEF a, b
<1> QED
  BY <1>2, <1>8, <1>9

\* A box nudged leaves the boxes of its column apart.
LEMMA NudgeFacts ==
  ASSUME NEW n, NEW l, Rows(n, l), NEW h \in Heights(n), NEW gap \in Nat,
         NEW y \in Standing(n, l, h, gap), NEW c, NEW ids, IsColumn(n, l, c, ids),
         NEW i \in 1..Len(ids), NEW desired \in Int, NEW p
  PROVE  Nudge(ids, i, desired, y, h, p, gap) \in Standing(n, l, h, gap)
<1> DEFINE limit == NudgeLimit(ids, i, desired, y, h, p, gap)
<1>1. y \in [1..n -> Int]
  BY DEF Standing
<1>2. limit \in Int
  BY <1>1, LimitFacts
<1>3. y[ids[i]] \in Int
  BY <1>1 DEF IsColumn
<1>4. Nudge(ids, i, desired, y, h, p, gap) =
        IF desired > y[ids[i]] /\ limit > y[ids[i]] THEN PushDown(ids, i, limit, y, h, gap)
        ELSE IF desired < y[ids[i]] /\ limit < y[ids[i]] THEN PushUp(ids, i, limit, y, h, gap)
        ELSE y
  BY DEF Nudge
<1> HIDE DEF limit
<1>5. limit > y[ids[i]] => PushDown(ids, i, limit, y, h, gap) \in Standing(n, l, h, gap)
  <2> SUFFICES ASSUME limit > y[ids[i]] PROVE PushDown(ids, i, limit, y, h, gap) \in Standing(n, l, h, gap)
    OBVIOUS
  <2>1. limit >= y[ids[i]]
    BY <1>2, <1>3
  <2> QED
    BY <1>2, <2>1, PushDownFacts
<1>6. limit < y[ids[i]] => PushUp(ids, i, limit, y, h, gap) \in Standing(n, l, h, gap)
  <2> SUFFICES ASSUME limit < y[ids[i]] PROVE PushUp(ids, i, limit, y, h, gap) \in Standing(n, l, h, gap)
    OBVIOUS
  <2>1. limit <= y[ids[i]]
    BY <1>2, <1>3
  <2> QED
    BY <1>2, <2>1, PushUpFacts
<1> QED
  BY <1>4, <1>5, <1>6

\* A box that is nudged toward its partners keeps the boxes apart.
LEMMA TowardFacts ==
  ASSUME NEW n, NEW l, Rows(n, l), NEW edges, Graph(n, edges), NEW h \in Heights(n), NEW gap \in Nat,
         NEW y \in Standing(n, l, h, gap), NEW p, NEW id \in 1..n, NEW direction
  PROVE  Toward(l, edges, y, h, gap, p, id, direction) \in Standing(n, l, h, gap)
<1> DEFINE c    == l.column[id]
           ids  == l.row_order[c]
           refs == Partners(l, edges, id, direction)
           f    == [m \in refs |-> y[m] + h[m] \div 2]
           desired == RoundHalfEven(SumOver(f, refs), Cardinality(refs)) - h[id] \div 2
           i    == PositionIn(ids, id)
<1>1. Toward(l, edges, y, h, gap, p, id, direction) =
        IF refs = {} THEN y ELSE Nudge(ids, i, desired, y, h, p, gap)
  BY DEF Toward
<1>2. n \in Nat /\ y \in [1..n -> Int] /\ h \in [1..n -> Nat] /\ l.column \in [1..n -> Nat]
  BY DEF Rows, Standing, Heights
<1>3. refs \subseteq Neighbors(edges, id)
  BY DEF Partners
<1>4. IsFiniteSet(Neighbors(edges, id)) /\ Neighbors(edges, id) \subseteq 1..n
  BY NeighborFacts
<1> HIDE DEF refs
<1>5. refs \in SUBSET (1..n) /\ IsFiniteSet(refs) /\ refs \in SUBSET Int
  BY <1>2, <1>3, <1>4, FS_Subset
<1>6. IsColumn(n, l, c, ids)
  <2>1. c \in Range(l.column)
    BY <1>2 DEF Range
  <2> HIDE DEF c
  <2> QED
    BY <2>1, RowFacts
<1>7. i \in 1..Len(ids)
  <2>1. c = l.column[id]
    OBVIOUS
  <2> HIDE DEF c, ids
  <2> QED
    BY <1>6, <2>1 DEF IsColumn
<1>8. ASSUME refs # {} PROVE desired \in Int
  <2>1. f \in [refs -> Int]
    <3>1. \A m \in refs : y[m] \in Int /\ h[m] \div 2 \in Int
      BY <1>2, <1>5
    <3> QED
      BY <3>1
  <2> HIDE DEF f
  <2>2. SumOver(f, refs) \in Int
    BY <1>5, <2>1, SumOverIsInt
  <2>3. Cardinality(refs) \in Nat \ {0}
    BY <1>5, <1>8, FS_EmptySet, FS_CardinalityType
  <2>4. RoundHalfEven(SumOver(f, refs), Cardinality(refs)) \in Int
    BY <2>2, <2>3, RoundIsInt
  <2>5. h[id] \div 2 \in Int
    BY <1>2
  <2> QED
    BY <2>4, <2>5
<1> HIDE DEF ids, i, desired, c
<1>9. refs # {} => Nudge(ids, i, desired, y, h, p, gap) \in Standing(n, l, h, gap)
  BY <1>6, <1>7, <1>8, NudgeFacts
<1> QED
  BY <1>1, <1>9

\* A priority is a number of partners.
LEMMA PriorityIsNat ==
  ASSUME NEW n, NEW l, NEW edges, Graph(n, edges), NEW id
  PROVE  Priority(l, edges, id) \in Nat
<1>1. ASSUME NEW d PROVE Cardinality(Partners(l, edges, id, d)) \in Nat
  <2>1. Partners(l, edges, id, d) \subseteq Neighbors(edges, id) /\ IsFiniteSet(Neighbors(edges, id))
    BY NeighborFacts DEF Partners
  <2> QED
    BY <2>1, FS_Subset, FS_CardinalityType
<1> QED
  BY <1>1 DEF Priority

\* The order a column's boxes are pulled in has each once.
PullOrder(l, edges, c) ==
  LET ids == l.row_order[c]
      p   == [id \in Range(ids) |-> Priority(l, edges, id)]
      First(a, b) == \/ p[a] > p[b]
                     \/ p[a] = p[b] /\ PositionIn(ids, a) < PositionIn(ids, b)
  IN  Sorted(Range(ids), {q \in Range(ids) \X Range(ids) : First(q[1], q[2])})
\* The boxes of a column, the best connected first, are its nodes.
LEMMA PullOrderFacts ==
  ASSUME NEW n, NEW l, Rows(n, l), NEW edges, Graph(n, edges), NEW c \in Range(l.column)
  PROVE  \A k \in 1..Len(l.row_order[c]) : PullOrder(l, edges, c)[k] \in 1..n
<1> DEFINE ids == l.row_order[c]
           S   == Range(ids)
           p   == [id \in S |-> Priority(l, edges, id)]
           First(a, b) == \/ p[a] > p[b]
                          \/ p[a] = p[b] /\ PositionIn(ids, a) < PositionIn(ids, b)
           before == {q \in S \X S : First(q[1], q[2])}
<1>1. PullOrder(l, edges, c) = Sorted(S, before)
  BY DEF PullOrder
<1>2. IsColumn(n, l, c, ids)
  BY RowFacts
<1> HIDE DEF ids
<1>3. /\ Lists(ids, S) /\ S \in SUBSET (1..n)
      /\ \A x \in S : PositionIn(ids, x) \in 1..Len(ids) /\ ids[PositionIn(ids, x)] = x
      /\ Len(ids) \in Nat
  BY <1>2 DEF IsColumn, In
<1> HIDE DEF S
<1>4. \A x \in S : p[x] \in Nat
  BY PriorityIsNat
<1> HIDE DEF p
<1>5. IsOrder(S, before)
  <2>1. \A x, y \in S : <<x, y>> \in before <=> First(x, y)
    OBVIOUS
  <2> HIDE DEF before
  <2>2. \A x \in S : ~First(x, x)
    <3> SUFFICES ASSUME NEW x \in S PROVE ~First(x, x)
      OBVIOUS
    <3>1. p[x] \in Nat /\ PositionIn(ids, x) \in Int
      BY <1>3, <1>4
    <3> QED
      BY <3>1
  <2>3. ASSUME NEW x \in S, NEW y \in S, NEW z \in S, First(x, y), First(y, z)
        PROVE  First(x, z)
    <3>1. /\ p[x] \in Nat /\ p[y] \in Nat /\ p[z] \in Nat /\ PositionIn(ids, x) \in Int
          /\ PositionIn(ids, y) \in Int /\ PositionIn(ids, z) \in Int
      BY <1>3, <1>4
    <3> QED
      BY <2>3, <3>1
  <2>4. ASSUME NEW x \in S, NEW y \in S PROVE x = y \/ First(x, y) \/ First(y, x)
    <3>1. /\ p[x] \in Nat /\ p[y] \in Nat /\ PositionIn(ids, x) \in Int
          /\ PositionIn(ids, y) \in Int
      BY <1>3, <1>4
    <3>2. PositionIn(ids, x) = PositionIn(ids, y) => x = y
      BY <1>3
    <3> QED
      BY <3>1, <3>2
  <2> HIDE DEF First
  <2> QED
    BY <2>1, <2>2, <2>3, <2>4 DEF IsOrder
<1> HIDE DEF before
<1>6. Lists(Sorted(S, before), S)
  <2>1. IsFiniteSet(S)
    BY <1>3 DEF Lists
  <2> QED
    BY <1>5, <2>1, SortedFacts
<1>7. Len(ids) = Cardinality(S)
  BY <1>3 DEF Lists
<1>8. \A k \in 1..Len(ids) : Sorted(S, before)[k] \in S
  BY <1>6, <1>7 DEF Lists
<1> QED
  BY <1>1, <1>3, <1>8 DEF ids

\* A column pulled box by box.
LEMMA PullSteps ==
  ASSUME NEW n, NEW l, Rows(n, l), NEW edges, Graph(n, edges), NEW h \in Heights(n), NEW gap \in Nat,
         NEW y \in Standing(n, l, h, gap), NEW c \in Range(l.column), NEW direction
  PROVE  \E F \in [0..Len(l.row_order[c]) -> Standing(n, l, h, gap)] :
           /\ F[0] = y
           /\ \A k \in 1..Len(l.row_order[c]) :
                F[k] = Toward(l, edges, F[k - 1], h, gap,
                              [id \in Range(l.row_order[c]) |-> Priority(l, edges, id)],
                              PullOrder(l, edges, c)[k], direction)
           /\ Pull(l, edges, y, h, gap, c, direction) = F[Len(l.row_order[c])]
<1> DEFINE m == Len(l.row_order[c])
           V == Standing(n, l, h, gap)
           first == y
           next(k, a) == Toward(l, edges, a, h, gap,
                                [id \in Range(l.row_order[c]) |-> Priority(l, edges, id)],
                                PullOrder(l, edges, c)[k], direction)
           body(G, k) == IF k = 0 THEN first ELSE next(k, G[k - 1])
           F == CHOOSE G : G = [k \in 0..m |-> body(G, k)]
           step == [k \in 1..m |-> [a \in V |-> next(k, a)]]
<1>1. m \in Nat
  BY RowFacts DEF IsColumn
<1>2. first \in V
  OBVIOUS
<1>3. Pull(l, edges, y, h, gap, c, direction) = F[m]
  BY DEF Pull, PullOrder
<1>4. ASSUME NEW k \in 1..m, NEW a \in V PROVE next(k, a) \in V
  BY PullOrderFacts, TowardFacts
<1> HIDE DEF m, V, first, next
<1>5. step \in [1..m -> [V -> V]]
  BY <1>4
<1>6. PICK G \in [0..m -> V] : Recurs(G, m, first, step)
  <2> HIDE DEF step
  <2> QED
    BY <1>1, <1>2, <1>5, RecursionExists
<1>7. G[0] = first /\ \A k \in 1..m : G[k] = step[k][G[k - 1]]
  BY <1>6 DEF Recurs
<1>8. ASSUME NEW k \in 0..m PROVE G[k] = body(G, k)
  <2>1. CASE k = 0
    BY <1>7, <2>1
  <2>2. CASE k # 0
    <3>1. k \in 1..m /\ k - 1 \in 0..m
      BY <1>1, <2>2
    <3>2. G[k - 1] \in V
      BY <3>1
    <3> QED
      BY <1>7, <2>2, <3>1, <3>2
  <2> QED
    BY <2>1, <2>2
<1>9. G = [k \in 0..m |-> body(G, k)]
  <2> HIDE DEF body
  <2> QED
    BY <1>8
<1>10. F = [k \in 0..m |-> body(F, k)]
  <2> HIDE DEF body
  <2> QED
    BY <1>9
<1> HIDE DEF F
<1>11. \A k \in 0..m : F[k] = body(F, k)
  <2> HIDE DEF body
  <2> QED
    BY <1>10
<1>12. F[0] = first
  BY <1>1, <1>11
<1>13. \A k \in 1..m : F[k] = next(k, F[k - 1])
  BY <1>1, <1>11
<1>14. \A k \in 0..m : F[k] \in V
  <2>1. F[0] \in V /\ \A k \in 1..m : F[k - 1] \in V => F[k] \in V
    BY <1>2, <1>4, <1>12, <1>13
  <2> QED
    BY <1>1, <2>1, RecursionKeeps
<1>15. DOMAIN F = 0..m
  <2> HIDE DEF body
  <2> QED
    BY <1>10
<1>16. F \in [0..m -> V]
  <2>1. F = [k \in 0..m |-> F[k]]
    <3> HIDE DEF body
    <3> QED
      BY <1>10
  <2> QED
    BY <1>14, <2>1
<1> QED
  BY <1>3, <1>12, <1>13, <1>16 DEF m, V, first, next

\* A column that is pulled keeps the boxes apart.
LEMMA PullFacts ==
  ASSUME NEW n, NEW l, Rows(n, l), NEW edges, Graph(n, edges), NEW h \in Heights(n), NEW gap \in Nat,
         NEW y \in Standing(n, l, h, gap), NEW c \in Range(l.column), NEW direction
  PROVE  Pull(l, edges, y, h, gap, c, direction) \in Standing(n, l, h, gap)
<1>1. Len(l.row_order[c]) \in Nat
  BY RowFacts DEF IsColumn
<1>2. Len(l.row_order[c]) \in 0..Len(l.row_order[c])
  BY <1>1
<1> QED
  BY <1>2, PullSteps

\* The columns pulled one after the other.
LEMMA PullAllSteps ==
  ASSUME NEW n, NEW l, Rows(n, l), NEW edges, Graph(n, edges), NEW h \in Heights(n), NEW gap \in Nat,
         NEW y \in Standing(n, l, h, gap),
         NEW columns \in Seq(Range(l.column)), NEW direction
  PROVE  \E F \in [0..Len(columns) -> Standing(n, l, h, gap)] :
           /\ F[0] = y /\ \A k \in 1..Len(columns) : F[k] = Pull(l, edges, F[k - 1], h, gap, columns[k], direction)
           /\ PullAll(l, edges, y, h, gap, columns, direction) = F[Len(columns)]
<1> DEFINE m == Len(columns)
           V == Standing(n, l, h, gap)
           first == y
           next(k, a) == Pull(l, edges, a, h, gap, columns[k], direction)
           body(G, k) == IF k = 0 THEN first ELSE next(k, G[k - 1])
           F == CHOOSE G : G = [k \in 0..m |-> body(G, k)]
           step == [k \in 1..m |-> [a \in V |-> next(k, a)]]
<1>1. m \in Nat
  OBVIOUS
<1>2. first \in V
  OBVIOUS
<1>3. PullAll(l, edges, y, h, gap, columns, direction) = F[m]
  BY DEF PullAll
<1>4. ASSUME NEW k \in 1..m, NEW a \in V PROVE next(k, a) \in V
  <2>1. columns[k] \in Range(l.column)
    OBVIOUS
  <2> QED
    BY <2>1, PullFacts
<1> HIDE DEF m, V, first, next
<1>5. step \in [1..m -> [V -> V]]
  BY <1>4
<1>6. PICK G \in [0..m -> V] : Recurs(G, m, first, step)
  <2> HIDE DEF step
  <2> QED
    BY <1>1, <1>2, <1>5, RecursionExists
<1>7. G[0] = first /\ \A k \in 1..m : G[k] = step[k][G[k - 1]]
  BY <1>6 DEF Recurs
<1>8. ASSUME NEW k \in 0..m PROVE G[k] = body(G, k)
  <2>1. CASE k = 0
    BY <1>7, <2>1
  <2>2. CASE k # 0
    <3>1. k \in 1..m /\ k - 1 \in 0..m
      BY <1>1, <2>2
    <3>2. G[k - 1] \in V
      BY <3>1
    <3> QED
      BY <1>7, <2>2, <3>1, <3>2
  <2> QED
    BY <2>1, <2>2
<1>9. G = [k \in 0..m |-> body(G, k)]
  <2> HIDE DEF body
  <2> QED
    BY <1>8
<1>10. F = [k \in 0..m |-> body(F, k)]
  <2> HIDE DEF body
  <2> QED
    BY <1>9
<1> HIDE DEF F
<1>11. \A k \in 0..m : F[k] = body(F, k)
  <2> HIDE DEF body
  <2> QED
    BY <1>10
<1>12. F[0] = first
  BY <1>1, <1>11
<1>13. \A k \in 1..m : F[k] = next(k, F[k - 1])
  BY <1>1, <1>11
<1>14. \A k \in 0..m : F[k] \in V
  <2>1. F[0] \in V /\ \A k \in 1..m : F[k - 1] \in V => F[k] \in V
    BY <1>2, <1>4, <1>12, <1>13
  <2> QED
    BY <1>1, <2>1, RecursionKeeps
<1>15. DOMAIN F = 0..m
  <2> HIDE DEF body
  <2> QED
    BY <1>10
<1>16. F \in [0..m -> V]
  <2>1. F = [k \in 0..m |-> F[k]]
    <3> HIDE DEF body
    <3> QED
      BY <1>10
  <2> QED
    BY <1>14, <2>1
<1> QED
  BY <1>3, <1>12, <1>13, <1>16 DEF m, V, first, next

\* And so do columns pulled one after the other.
LEMMA PullAllFacts ==
  ASSUME NEW n, NEW l, Rows(n, l), NEW edges, Graph(n, edges), NEW h \in Heights(n), NEW gap \in Nat,
         NEW y \in Standing(n, l, h, gap), NEW columns \in Seq(Range(l.column)), NEW direction
  PROVE  PullAll(l, edges, y, h, gap, columns, direction) \in Standing(n, l, h, gap)
<1>1. Len(columns) \in 0..Len(columns)
  OBVIOUS
<1> QED
  BY <1>1, PullAllSteps

\* The columns from left to right, each once.
LEMMA ColumnsFacts ==
  ASSUME NEW n, NEW l, Rows(n, l)
  PROVE  /\ Lists(Columns(l), Range(l.column)) /\ DOMAIN l.row_order = Range(l.column)
         /\ \A i, j \in 1..Len(Columns(l)) : i < j => Columns(l)[i] < Columns(l)[j]
<1>1. DOMAIN l.row_order = Range(l.column)
  BY DEF Rows, RowOrders
<1>2. Range(l.column) \in SUBSET Int /\ IsFiniteSet(Range(l.column))
  BY DEF Rows, Range
<1>3. Columns(l) = Ascending(Range(l.column))
  BY <1>1 DEF Columns
<1>4. /\ Lists(Columns(l), Range(l.column))
      /\ \A i, j \in 1..Cardinality(Range(l.column)) : i < j => Columns(l)[i] < Columns(l)[j]
  BY <1>2, <1>3, AscendingFacts
<1>5. Len(Columns(l)) = Cardinality(Range(l.column))
  BY <1>4 DEF Lists
<1> QED
  BY <1>1, <1>4, <1>5

\* The sweeps over the columns.
LEMMA AlignSteps ==
  ASSUME NEW n, NEW l, Rows(n, l), NEW edges, Graph(n, edges), NEW h \in Heights(n), NEW gap \in Nat,
         NEW y \in Standing(n, l, h, gap)
  PROVE  \E F \in [0..AlignSweeps -> Standing(n, l, h, gap)] :
           /\ F[0] = y
           /\ \A k \in 1..AlignSweeps :
                F[k] = PullAll(l, edges, PullAll(l, edges, F[k - 1], h, gap, Columns(l), -1),
                               h, gap, Reversed(Columns(l)), 1)
           /\ AlignRows(l, edges, y, h, gap) = F[AlignSweeps]
<1> DEFINE m == AlignSweeps
           V == Standing(n, l, h, gap)
           first == y
           next(k, a) == PullAll(l, edges, PullAll(l, edges, a, h, gap, Columns(l), -1),
                     h, gap, Reversed(Columns(l)), 1)
           body(G, k) == IF k = 0 THEN first ELSE next(k, G[k - 1])
           F == CHOOSE G : G = [k \in 0..m |-> body(G, k)]
           step == [k \in 1..m |-> [a \in V |-> next(k, a)]]
<1>1. m \in Nat
  BY PlaceAssumption
<1>2. first \in V
  OBVIOUS
<1>3. AlignRows(l, edges, y, h, gap) = F[m]
  BY DEF AlignRows
<1>4. ASSUME NEW k \in 1..m, NEW a \in V PROVE next(k, a) \in V
  <2>1. Columns(l) \in Seq(Range(l.column))
    BY ColumnsFacts DEF Lists
  <2>2. Reversed(Columns(l)) \in Seq(Range(l.column))
    BY <2>1, ReversedFacts
  <2>3. PullAll(l, edges, a, h, gap, Columns(l), -1) \in Standing(n, l, h, gap)
    BY <2>1, PullAllFacts
  <2> QED
    BY <2>2, <2>3, PullAllFacts
<1> HIDE DEF m, V, first, next
<1>5. step \in [1..m -> [V -> V]]
  BY <1>4
<1>6. PICK G \in [0..m -> V] : Recurs(G, m, first, step)
  <2> HIDE DEF step
  <2> QED
    BY <1>1, <1>2, <1>5, RecursionExists
<1>7. G[0] = first /\ \A k \in 1..m : G[k] = step[k][G[k - 1]]
  BY <1>6 DEF Recurs
<1>8. ASSUME NEW k \in 0..m PROVE G[k] = body(G, k)
  <2>1. CASE k = 0
    BY <1>7, <2>1
  <2>2. CASE k # 0
    <3>1. k \in 1..m /\ k - 1 \in 0..m
      BY <1>1, <2>2
    <3>2. G[k - 1] \in V
      BY <3>1
    <3> QED
      BY <1>7, <2>2, <3>1, <3>2
  <2> QED
    BY <2>1, <2>2
<1>9. G = [k \in 0..m |-> body(G, k)]
  <2> HIDE DEF body
  <2> QED
    BY <1>8
<1>10. F = [k \in 0..m |-> body(F, k)]
  <2> HIDE DEF body
  <2> QED
    BY <1>9
<1> HIDE DEF F
<1>11. \A k \in 0..m : F[k] = body(F, k)
  <2> HIDE DEF body
  <2> QED
    BY <1>10
<1>12. F[0] = first
  BY <1>1, <1>11
<1>13. \A k \in 1..m : F[k] = next(k, F[k - 1])
  BY <1>1, <1>11
<1>14. \A k \in 0..m : F[k] \in V
  <2>1. F[0] \in V /\ \A k \in 1..m : F[k - 1] \in V => F[k] \in V
    BY <1>2, <1>4, <1>12, <1>13
  <2> QED
    BY <1>1, <2>1, RecursionKeeps
<1>15. DOMAIN F = 0..m
  <2> HIDE DEF body
  <2> QED
    BY <1>10
<1>16. F \in [0..m -> V]
  <2>1. F = [k \in 0..m |-> F[k]]
    <3> HIDE DEF body
    <3> QED
      BY <1>10
  <2> QED
    BY <1>14, <2>1
<1> QED
  BY <1>3, <1>12, <1>13, <1>16 DEF m, V, first, next

\* The boxes aligned stand apart.
LEMMA AlignFacts ==
  ASSUME NEW n, NEW l, Rows(n, l), NEW edges, Graph(n, edges), NEW h \in Heights(n), NEW gap \in Nat,
         NEW y \in Standing(n, l, h, gap)
  PROVE  AlignRows(l, edges, y, h, gap) \in Standing(n, l, h, gap)
<1>1. AlignSweeps \in 0..AlignSweeps
  BY PlaceAssumption
<1> QED
  BY <1>1, AlignSteps
-----------------------------------------------------------------------------
(* The columns of the boxes, and what is compacted *)

\* Boxes on a canvas, apart from those of their column by a gap, and from those of
\* the next by as much as is kept of each.
Boxes(n) == [1..n -> [top : Nat, left : Nat, height : Nat \ {0}, width : Nat \ {0}]]
Spread(l, rects, gap, wide) ==
  LET columns == Columns(l)
  IN  /\ \A c \in Range(l.column) :
           \A i \in 1..(Len(l.row_order[c]) - 1) :
             LET a == rects[l.row_order[c][i]]  b == rects[l.row_order[c][i + 1]]
             IN  b.top - (a.top + a.height) >= gap
      /\ \A j \in 1..(Len(columns) - 1) :
           \A a \in Range(l.row_order[columns[j]]), b \in Range(l.row_order[columns[j + 1]]) :
             rects[b].left - (rects[a].left + rects[a].width) >= wide[columns[j]]

\* A channel has room for a lane, for each edge that crosses it.
LEMMA ChannelFacts ==
  ASSUME NEW n, NEW l, NEW edges, Graph(n, edges), NEW c, NEW padding \in Nat
  PROVE  Crossing(l, edges, c) \in Nat /\ Channel(l, edges, c, padding) \in Nat \ {0}
<1> DEFINE crossing == {i \in DOMAIN edges : LET a == l.column[edges[i].source]
                                                 b == l.column[edges[i].target]
                                             IN  c \in a..(b - 1) \/ c \in b..(a - 1)}
           k == Crossing(l, edges, c)
<1>1. k \in Nat
  <2>1. k = Cardinality(crossing) /\ crossing \subseteq DOMAIN edges
    BY DEF Crossing
  <2> HIDE DEF crossing, k
  <2>2. IsFiniteSet(DOMAIN edges)
    BY UpTo DEF Graph
  <2> QED
    BY <2>1, <2>2, FS_Subset, FS_CardinalityType
<1>2. StubLen \in Nat
  BY PlaceAssumption
<1>3. Channel(l, edges, c, padding) = MaxOf(2 * padding + k, 2 * StubLen + 1)
  BY DEF Channel
<1> HIDE DEF k
<1>4. 2 * padding + k \in Int /\ 2 * StubLen + 1 \in Int /\ 2 * StubLen + 1 >= 1
  BY <1>1, <1>2
<1>5. MaxOf(2 * padding + k, 2 * StubLen + 1) \in Int /\ MaxOf(2 * padding + k, 2 * StubLen + 1) >= 2 * StubLen + 1
  BY <1>4, LargerIsInt
<1> QED
  BY <1>1, <1>3, <1>4, <1>5 DEF k

\* A column is as wide as its widest box.
LEMMA WidthFacts ==
  ASSUME NEW n, NEW l, Rows(n, l), NEW w \in Heights(n), NEW c \in Range(l.column)
  PROVE  /\ ColumnWidth(l, w, c) \in Nat
         /\ \A id \in Range(l.row_order[c]) : id \in 1..n /\ l.column[id] = c /\ w[id] <= ColumnWidth(l, w, c)
<1> DEFINE ids == l.row_order[c]
           S == Range(ids)
           T == {w[id] : id \in S}
<1>1. /\ IsColumn(n, l, c, ids) /\ n \in Nat
  BY RowFacts DEF IsColumn
<1>2. S = In(n, l.column, c) /\ S \in SUBSET (1..n) /\ \A id \in S : l.column[id] = c
  BY <1>1 DEF IsColumn, In
<1>3. S # {} /\ IsFiniteSet(S)
  BY <1>2, InFacts DEF Rows
<1>4. ColumnWidth(l, w, c) = Max(T)
  BY DEF ColumnWidth
<1> HIDE DEF S
<1>5. T \in SUBSET Nat /\ T \in SUBSET Int /\ T # {}
  BY <1>2, <1>3 DEF Heights
<1>6. IsFiniteSet(T)
  <2> DEFINE f == [id \in S |-> w[id]]
  <2>1. Range(f) = T
    BY DEF Range
  <2>2. DOMAIN f = S /\ f = [id \in S |-> f[id]]
    OBVIOUS
  <2> HIDE DEF f, T
  <2> QED
    BY <1>3, <2>1, <2>2, FiniteRange
<1>7. \A id \in S : w[id] \in T
  OBVIOUS
<1> HIDE DEF T
<1>8. Max(T) \in T /\ \A x \in T : Max(T) >= x
  BY <1>5, <1>6, MaxFacts
<1> QED
  BY <1>2, <1>4, <1>5, <1>7, <1>8 DEF S

\* The columns' left edges: the next one's has room for a column and a channel.
LEMMA ColumnXFacts ==
  ASSUME NEW n, NEW l, Rows(n, l), NEW edges, Graph(n, edges), NEW w \in Heights(n), NEW padding \in Nat
  PROVE  LET columns == Columns(l)  x == ColumnX(l, w, edges, padding)
         IN  /\ \A c \in Range(l.column) : x[c] \in Nat
             /\ \A j \in 1..(Len(columns) - 1) :
                  x[columns[j + 1]] = x[columns[j]] + ColumnWidth(l, w, columns[j])
                                      + Channel(l, edges, columns[j], padding)
<1> DEFINE columns == Columns(l)
           S == Range(l.column)
           x == ColumnX(l, w, edges, padding)
           room == [j \in DOMAIN columns |->
                      ColumnWidth(l, w, columns[j]) + Channel(l, edges, columns[j], padding)]
<1>1. Lists(columns, S) /\ DOMAIN l.row_order = S
  BY ColumnsFacts
<1>2. x = [c \in S |-> Sums(room)[PositionIn(columns, c) - 1]]
  BY <1>1 DEF ColumnX
<1> HIDE DEF x, columns, S
<1>3. /\ Len(columns) \in Nat /\ DOMAIN columns = 1..Len(columns) /\ Len(columns) = Cardinality(S)
      /\ \A j \in 1..Len(columns) : columns[j] \in S /\ PositionIn(columns, columns[j]) = j
      /\ \A c \in S : PositionIn(columns, c) \in 1..Len(columns)
  BY <1>1, PositionFacts DEF Lists
<1>4. ASSUME NEW j \in 1..Len(columns)
      PROVE  /\ ColumnWidth(l, w, columns[j]) \in Nat /\ Channel(l, edges, columns[j], padding) \in Nat
             /\ room[j] = ColumnWidth(l, w, columns[j]) + Channel(l, edges, columns[j], padding)
  <2>1. columns[j] \in S /\ room[j] = ColumnWidth(l, w, columns[j]) + Channel(l, edges, columns[j], padding)
    BY <1>3
  <2>2. ColumnWidth(l, w, columns[j]) \in Nat
    BY <2>1, WidthFacts DEF S
  <2>3. Channel(l, edges, columns[j], padding) \in Nat
    BY ChannelFacts
  <2> QED
    BY <2>1, <2>2, <2>3
<1>5. room \in [1..Len(columns) -> Nat] /\ room \in [1..Len(columns) -> Int]
  <2>1. ASSUME NEW j \in 1..Len(columns) PROVE room[j] \in Nat
    <3> DEFINE u == ColumnWidth(l, w, columns[j])  v == Channel(l, edges, columns[j], padding)
    <3>1. u \in Nat /\ v \in Nat /\ room[j] = u + v
      BY <1>4
    <3> HIDE DEF room, u, v
    <3> QED
      BY <3>1
  <2> QED
    BY <1>3, <2>1
<1> HIDE DEF room
<1>6. room \in Seq(Int) /\ Len(room) = Len(columns)
  BY <1>3, <1>5, IsSequence
<1>7. /\ Sums(room)[0] = 0
      /\ \A k \in 1..Len(columns) : Sums(room)[k] = Sums(room)[k - 1] + room[k]
  BY <1>6, SumsFacts
<1>8. \A k \in 0..Len(columns) : Sums(room)[k] \in Nat
  <2> DEFINE sums == Sums(room)
  <2>1. sums[0] = 0 /\ \A k \in 1..Len(columns) : sums[k] = sums[k - 1] + room[k]
    BY <1>7
  <2> HIDE DEF sums
  <2>2. sums[0] \in Nat
    BY <2>1
  <2>3. \A k \in 1..Len(columns) : sums[k - 1] \in Nat => sums[k] \in Nat
    BY <1>5, <2>1
  <2>4. \A k \in 0..Len(columns) : sums[k] \in Nat
    BY <1>3, <2>2, <2>3, RecursionKeeps
  <2> QED
    BY <2>4 DEF sums
<1>9. ASSUME NEW c \in S PROVE x[c] \in Nat
  <2>1. PositionIn(columns, c) - 1 \in 0..Len(columns)
    BY <1>3
  <2> QED
    BY <1>2, <1>8, <2>1
<1>10. ASSUME NEW j \in 1..(Len(columns) - 1)
       PROVE  x[columns[j + 1]] = x[columns[j]] + ColumnWidth(l, w, columns[j])
                                  + Channel(l, edges, columns[j], padding)
  <2>1. j \in 1..Len(columns) /\ j + 1 \in 1..Len(columns) /\ (j + 1) - 1 = j /\ j - 1 \in 0..Len(columns)
    BY <1>3
  <2>2. x[columns[j + 1]] = Sums(room)[j] /\ x[columns[j]] = Sums(room)[j - 1]
    <3>1. /\ columns[j] \in S /\ columns[j + 1] \in S /\ PositionIn(columns, columns[j]) = j
          /\ PositionIn(columns, columns[j + 1]) = j + 1
      BY <1>3, <2>1
    <3> QED
      BY <1>2, <2>1, <3>1
  <2>3. Sums(room)[j] = Sums(room)[j - 1] + room[j] /\ Sums(room)[j - 1] \in Nat
    BY <1>7, <1>8, <2>1
  <2> DEFINE u == ColumnWidth(l, w, columns[j])  v == Channel(l, edges, columns[j], padding)
  <2>4. u \in Nat /\ v \in Nat /\ room[j] = u + v
    BY <1>4, <2>1
  <2> HIDE DEF u, v
  <2>5. x[columns[j + 1]] = x[columns[j]] + u + v
    BY <2>2, <2>3, <2>4
  <2> QED
    BY <2>5 DEF u, v
<1> QED
  BY <1>9, <1>10 DEF columns, S, x

\* The margin about the boxes.
LEMMA MarginIsNat ==
  ASSUME NEW n, NEW edges, Graph(n, edges)
  PROVE  Margin(edges) \in Nat
<1>1. Len(edges) \in Nat /\ StubLen + 1 \in Nat
  BY PlaceAssumption DEF Graph
<1> QED
  BY <1>1 DEF Margin, MaxOf

\* Boxes at a spacing, with a channel after each column.
WellPlaced(n, l, edges, h, spacing, rects) ==
  /\ rects \in Boxes(n)
  /\ \A id \in 1..n : /\ rects[id].height = h[id]
                      /\ rects[id].top >= Margin(edges) /\ rects[id].left >= Margin(edges)
  /\ Spread(l, rects, spacing.box_gap,
            [c \in Range(l.column) |-> Channel(l, edges, c, spacing.channel_padding)])

\* Boxes that are placed are apart, inside the margin, and of their size.
LEMMA PlaceBoxesFacts ==
  ASSUME NEW n, NEW l, Rows(n, l), NEW edges, Graph(n, edges),
         NEW h \in [1..n -> Nat \ {0}], NEW w \in [1..n -> Nat \ {0}],
         NEW spacing, spacing.box_gap \in Nat, spacing.channel_padding \in Nat
  PROVE  WellPlaced(n, l, edges, h, spacing, PlaceBoxes(l, edges, h, w, spacing))
<1> DEFINE gap   == spacing.box_gap
           padding == spacing.channel_padding
           y     == AlignRows(l, edges, InitialRows(l, h, gap), h, gap)
           shift == MaxOf(-Min(Range(y)), 0)
           x     == ColumnX(l, w, edges, padding)
           margin == Margin(edges)
           rects == PlaceBoxes(l, edges, h, w, spacing)
           wide == [c \in Range(l.column) |-> Channel(l, edges, c, padding)]
<1>1. h \in Heights(n) /\ w \in Heights(n) /\ n \in Nat \ {0} /\ l.column \in [1..n -> Nat]
      /\ gap \in Nat /\ padding \in Nat
  BY DEF Heights, Rows
<1>2. y \in Standing(n, l, h, gap)
  <2> HIDE DEF gap
  <2>1. InitialRows(l, h, gap) \in Standing(n, l, h, gap)
    BY <1>1, InitialRowsFacts
  <2> QED
    BY <1>1, <2>1, AlignFacts
<1>3. rects = [id \in DOMAIN y |->
                 [top |-> y[id] + shift + margin, left |-> x[l.column[id]] + margin,
                  height |-> h[id], width |-> w[id]]]
  BY DEF PlaceBoxes
<1>4. y \in [1..n -> Int]
  BY <1>2 DEF Standing
<1>5. margin \in Nat
  BY MarginIsNat
<1>6. /\ \A c \in Range(l.column) : x[c] \in Nat
      /\ \A j \in 1..(Len(Columns(l)) - 1) :
           x[Columns(l)[j + 1]] = x[Columns(l)[j]] + ColumnWidth(l, w, Columns(l)[j])
                                  + Channel(l, edges, Columns(l)[j], padding)
  <2> HIDE DEF padding, x, y, rects, wide, shift
  <2>1. LET columns == Columns(l)  at == ColumnX(l, w, edges, padding)
        IN  /\ \A c \in Range(l.column) : at[c] \in Nat
            /\ \A j \in 1..(Len(columns) - 1) :
                 at[columns[j + 1]] = at[columns[j]] + ColumnWidth(l, w, columns[j])
                                      + Channel(l, edges, columns[j], padding)
    BY <1>1, ColumnXFacts
  <2> QED
    BY <2>1 DEF x
<1> HIDE DEF y, x, margin, rects, gap, padding
<1>7. shift \in Nat /\ \A id \in 1..n : y[id] + shift >= 0
  <2>0. DOMAIN y = 1..n /\ 1 \in 1..n /\ \A id \in 1..n : y[id] \in Int
    BY <1>1, <1>4
  <2>1. Range(y) \in SUBSET Int /\ Range(y) # {}
    BY <2>0 DEF Range
  <2>2. IsFiniteSet(Range(y))
    <3>1. IsFiniteSet(1..n) /\ DOMAIN y = 1..n /\ y = [id \in 1..n |-> y[id]]
      BY <1>1, <1>4, UpTo
    <3> QED
      BY <3>1, FiniteRange
  <2> DEFINE least == Min(Range(y))
  <2>3. least \in Int /\ \A id \in 1..n : least <= y[id]
    <3>1. least \in Range(y) /\ \A v \in Range(y) : least <= v
      BY <2>1, <2>2, MinFacts
    <3> QED
      BY <1>4, <2>1, <3>1 DEF Range
  <2>4. shift = MaxOf(-least, 0)
    OBVIOUS
  <2> HIDE DEF least, shift
  <2>5. shift \in Int /\ shift >= -least /\ shift >= 0
    BY <2>3, <2>4 DEF MaxOf
  <2>6. \A id \in 1..n : y[id] \in Int
    BY <1>4
  <2> QED
    BY <2>3, <2>5, <2>6
<1> HIDE DEF shift
<1>8. ASSUME NEW id \in 1..n
      PROVE  /\ rects[id].top = y[id] + shift + margin /\ rects[id].left = x[l.column[id]] + margin
             /\ rects[id].height = h[id] /\ rects[id].width = w[id]
             /\ rects[id] \in [top : Nat, left : Nat, height : Nat \ {0}, width : Nat \ {0}]
             /\ rects[id].top >= margin /\ rects[id].left >= margin
             /\ l.column[id] \in Range(l.column) /\ y[id] \in Int /\ x[l.column[id]] \in Nat
  <2>1. rects[id] = [top |-> y[id] + shift + margin, left |-> x[l.column[id]] + margin,
                     height |-> h[id], width |-> w[id]]
    BY <1>3, <1>4
  <2>2. l.column[id] \in Range(l.column)
    BY <1>1 DEF Range
  <2>3. x[l.column[id]] \in Nat /\ y[id] \in Int /\ y[id] + shift >= 0
    BY <1>4, <1>6, <1>7, <2>2
  <2>4. y[id] + shift + margin \in Nat /\ x[l.column[id]] + margin \in Nat
        /\ y[id] + shift + margin >= margin /\ x[l.column[id]] + margin >= margin
    <3> DEFINE u == y[id]  v == x[l.column[id]]
    <3>1. u \in Int /\ v \in Nat /\ u + shift >= 0
      BY <2>3
    <3> HIDE DEF u, v
    <3>2. u + shift + margin \in Nat /\ v + margin \in Nat /\ u + shift + margin >= margin /\ v + margin >= margin
      BY <1>5, <1>7, <3>1
    <3> QED
      BY <3>2 DEF u, v
  <2>5. h[id] \in Nat \ {0} /\ w[id] \in Nat \ {0}
    OBVIOUS
  <2> QED
    BY <2>1, <2>2, <2>3, <2>4, <2>5
<1>9. rects \in Boxes(n)
  <2>1. DOMAIN y = 1..n
    BY <1>4
  <2>2. rects = [id \in 1..n |-> rects[id]]
    BY <1>3, <2>1
  <2> QED
    BY <1>8, <2>2 DEF Boxes
<1>10. ASSUME NEW c \in Range(l.column), NEW i \in 1..(Len(l.row_order[c]) - 1)
       PROVE  rects[l.row_order[c][i + 1]].top
                - (rects[l.row_order[c][i]].top + rects[l.row_order[c][i]].height) >= gap
  <2> DEFINE a == l.row_order[c][i]
             b == l.row_order[c][i + 1]
  <2>1. IsColumn(n, l, c, l.row_order[c])
    BY RowFacts
  <2>2. a \in 1..n /\ b \in 1..n
    <3>1. Len(l.row_order[c]) \in Nat
      BY <2>1 DEF IsColumn
    <3>2. i \in 1..Len(l.row_order[c]) /\ i + 1 \in 1..Len(l.row_order[c])
      BY <3>1
    <3> QED
      BY <2>1, <3>2 DEF IsColumn
  <2>3. y[b] >= y[a] + h[a] + gap
    BY <1>2 DEF Standing, Apart
  <2> HIDE DEF a, b
  <2> DEFINE u == y[a]  v == y[b]  t == h[a]
  <2>4. /\ rects[a].top = u + shift + margin /\ rects[b].top = v + shift + margin
        /\ rects[a].height = t /\ u \in Int /\ v \in Int /\ t \in Int /\ v >= u + t + gap
    BY <1>8, <2>2, <2>3
  <2> HIDE DEF u, v, t
  <2>5. rects[b].top - (rects[a].top + rects[a].height) >= gap
    BY <1>1, <1>5, <1>7, <2>4
  <2> QED
    BY <2>5 DEF a, b
<1>11. ASSUME NEW j \in 1..(Len(Columns(l)) - 1),
              NEW a \in Range(l.row_order[Columns(l)[j]]),
              NEW b \in Range(l.row_order[Columns(l)[j + 1]])
       PROVE  rects[b].left - (rects[a].left + rects[a].width) >= wide[Columns(l)[j]]
  <2> DEFINE c == Columns(l)[j]
             d == Columns(l)[j + 1]
  <2>1. c \in Range(l.column) /\ d \in Range(l.column)
    <3>1. Lists(Columns(l), Range(l.column))
      BY ColumnsFacts
    <3>2. Len(Columns(l)) \in Nat /\ \A k \in 1..Len(Columns(l)) : Columns(l)[k] \in Range(l.column)
      BY <3>1 DEF Lists
    <3>3. j \in 1..Len(Columns(l)) /\ j + 1 \in 1..Len(Columns(l))
      BY <3>2
    <3> QED
      BY <3>2, <3>3
  <2>2. x[d] = x[c] + ColumnWidth(l, w, c) + Channel(l, edges, c, padding)
    BY <1>6
  <2>3. a \in Range(l.row_order[c]) /\ b \in Range(l.row_order[d])
    OBVIOUS
  <2> HIDE DEF c, d
  <2>4. /\ a \in 1..n /\ l.column[a] = c /\ w[a] <= ColumnWidth(l, w, c) /\ ColumnWidth(l, w, c) \in Nat
        /\ b \in 1..n /\ l.column[b] = d
    <3>1. w \in Heights(n)
      BY DEF Heights
    <3>2. ASSUME NEW k \in Range(l.column)
          PROVE  /\ ColumnWidth(l, w, k) \in Nat
                 /\ \A id \in Range(l.row_order[k]) :
                      id \in 1..n /\ l.column[id] = k /\ w[id] <= ColumnWidth(l, w, k)
      BY <3>1, WidthFacts
    <3> QED
      BY <2>1, <2>3, <3>2
  <2>5. wide[c] = Channel(l, edges, c, padding) /\ Channel(l, edges, c, padding) \in Nat
    BY <1>1, <2>1, ChannelFacts
  <2> HIDE DEF wide
  <2> DEFINE u == x[c]  v == ColumnWidth(l, w, c)  t == w[a]  k == Channel(l, edges, c, padding)
  <2>6. /\ rects[a].left = u + margin /\ rects[b].left = u + v + k + margin /\ rects[a].width = t
        /\ u \in Nat /\ v \in Nat /\ t \in Nat /\ k \in Nat /\ t <= v /\ wide[c] = k
    <3>1. w[a] \in Nat
      BY <2>4
    <3> QED
      BY <1>6, <1>8, <2>1, <2>2, <2>4, <2>5, <3>1
  <2> HIDE DEF u, v, t, k
  <2>7. rects[b].left - (rects[a].left + rects[a].width) >= wide[c]
    BY <1>5, <2>6
  <2> QED
    BY <2>7 DEF c
<1>12. Spread(l, rects, gap, wide)
  <2> HIDE DEF wide
  <2> QED
    BY <1>10, <1>11 DEF Spread
<1> QED
  BY <1>8, <1>9, <1>12 DEF WellPlaced, rects, gap, padding, margin
-----------------------------------------------------------------------------
\* Of two lines in use of which the second is behind a box that begins at the
\* first, the second stays behind it, with a line between if there was one.
LEMMA CompactAxisFacts ==
  ASSUME NEW used \in SUBSET Nat, IsFiniteSet(used), NEW t \in Nat, NEW h \in Nat \ {0},
         t..(t + h - 1) \subseteq used, NEW v \in used, v > t + h
  PROVE  CompactAxis(used)[v] - (CompactAxis(used)[t] + h) >= 1
<1> DEFINE before(x) == {u \in used : u < x}
           ends(x) == {u \in before(x) : u + 1 \notin used}
           map == CompactAxis(used)
           own == t..(t + h - 1)
<1>1. t \in used /\ t + h - 1 \in used /\ t + h - 1 \in own
  BY SMT
<1>2. /\ map[v] = Cardinality(before(v)) + Cardinality(ends(v))
      /\ map[t] = Cardinality(before(t)) + Cardinality(ends(t))
  BY <1>1 DEF CompactAxis
<1>3. \A x \in used : /\ IsFiniteSet(before(x)) /\ Cardinality(before(x)) \in Nat
                      /\ IsFiniteSet(ends(x)) /\ Cardinality(ends(x)) \in Nat
  <2> SUFFICES ASSUME NEW x \in used
               PROVE  /\ IsFiniteSet(before(x)) /\ Cardinality(before(x)) \in Nat
                      /\ IsFiniteSet(ends(x)) /\ Cardinality(ends(x)) \in Nat
    OBVIOUS
  <2>1. before(x) \in SUBSET used /\ ends(x) \in SUBSET used
    OBVIOUS
  <2> HIDE DEF before, ends
  <2> QED
    BY <2>1, FS_Subset, FS_CardinalityType
<1>4. IsFiniteSet(own) /\ Cardinality(own) = h
  BY FS_Interval
<1>5. before(t) \cap own = {}
  OBVIOUS
<1>6. IsFiniteSet(before(t) \cup own) /\ Cardinality(before(t) \cup own) = Cardinality(before(t)) + h
  <2> HIDE DEF before, own
  <2>1. Cardinality(before(t) \cap own) = 0 /\ Cardinality(before(t)) \in Nat /\ IsFiniteSet(before(t))
    BY <1>1, <1>3, <1>5, FS_EmptySet
  <2>2. /\ IsFiniteSet(before(t) \cup own)
        /\ Cardinality(before(t) \cup own)
             = Cardinality(before(t)) + Cardinality(own) - Cardinality(before(t) \cap own)
    BY <1>4, <2>1, FS_Union
  <2> QED
    BY <1>4, <2>1, <2>2
<1>7. before(t) \cup own \in SUBSET before(v) /\ ends(t) \in SUBSET ends(v)
  <2>1. ASSUME NEW u \in used, u < t + h PROVE u < v
    <3>1. u \in Int /\ v \in Int
      OBVIOUS
    <3> QED
      BY <2>1, <3>1
  <2>2. ASSUME NEW u \in used, u < t PROVE u < t + h
    BY <2>2
  <2>3. own \in SUBSET used /\ \A u \in own : u < t + h
    OBVIOUS
  <2>4. before(t) \in SUBSET before(v) /\ own \in SUBSET before(v)
    <3> HIDE DEF own
    <3> QED
      BY <2>1, <2>2, <2>3
  <2>5. ends(t) \in SUBSET ends(v)
    <3> HIDE DEF before
    <3> QED
      BY <2>4
  <2> HIDE DEF before, own, ends
  <2> QED
    BY <2>4, <2>5
<1>8. CASE t + h \in used
  <2>1. t + h \in before(v) /\ t + h \notin before(t) \cup own
    BY <1>8
  <2> HIDE DEF before, own, ends
  <2>2. before(t) \cup own \cup {t + h} \in SUBSET before(v)
    BY <1>7, <2>1
  <2>3. Cardinality(before(t) \cup own \cup {t + h}) = Cardinality(before(t)) + h + 1
    BY <1>6, <2>1, FS_AddElement
  <2>4. Cardinality(before(v)) >= Cardinality(before(t)) + h + 1
    BY <1>3, <2>2, <2>3, FS_Subset
  <2>5. Cardinality(ends(v)) >= Cardinality(ends(t))
    BY <1>3, <1>7, FS_Subset
  <2> QED
    BY <1>1, <1>2, <1>3, <2>4, <2>5 DEF map
<1>9. CASE t + h \notin used
  <2>1. t + h - 1 \in ends(v) /\ t + h - 1 \notin ends(t)
    <3>1. t + h - 1 < v /\ ~(t + h - 1 < t) /\ (t + h - 1) + 1 = t + h
      OBVIOUS
    <3> QED
      BY <1>1, <1>9, <3>1
  <2> HIDE DEF before, own, ends
  <2>2. ends(t) \cup {t + h - 1} \in SUBSET ends(v)
    BY <1>7, <2>1
  <2>3. Cardinality(ends(t) \cup {t + h - 1}) = Cardinality(ends(t)) + 1
    BY <1>1, <1>3, <2>1, FS_AddElement
  <2>4. Cardinality(ends(v)) >= Cardinality(ends(t)) + 1
    BY <1>3, <2>2, <2>3, FS_Subset
  <2>5. Cardinality(before(v)) >= Cardinality(before(t)) + h
    BY <1>3, <1>6, <1>7, FS_Subset
  <2> QED
    BY <1>1, <1>2, <1>3, <2>4, <2>5 DEF map
<1> QED
  BY <1>8, <1>9

\* Compacting leaves no line outside the canvas.
LEMMA CompactAxisIsNat ==
  ASSUME NEW used \in SUBSET Nat, IsFiniteSet(used), NEW v \in used
  PROVE  CompactAxis(used)[v] \in Nat
<1> DEFINE before == {u \in used : u < v}
           ends == {u \in before : u + 1 \notin used}
<1>1. CompactAxis(used)[v] = Cardinality(before) + Cardinality(ends)
  BY DEF CompactAxis
<1>2. before \in SUBSET used /\ ends \in SUBSET used
  OBVIOUS
<1> HIDE DEF before, ends
<1>3. Cardinality(before) \in Nat /\ Cardinality(ends) \in Nat
  BY <1>2, FS_Subset, FS_CardinalityType
<1> QED
  BY <1>1, <1>3

\* The lines that boxes take of an axis.
LinesOf(n, lo, size) == UNION {lo[id]..(lo[id] + size[id] - 1) : id \in 1..n}

\* The lines of an axis that are taken: those of the boxes and some more.
LEMMA TakenLines ==
  ASSUME NEW n \in Nat \ {0}, NEW lo \in [1..n -> Nat], NEW size \in [1..n -> Nat \ {0}],
         NEW more \in SUBSET Nat, IsFiniteSet(more)
  PROVE  LET used == more \cup LinesOf(n, lo, size)
         IN  /\ used \in SUBSET Nat /\ IsFiniteSet(used)
             /\ \A id \in 1..n : lo[id] \in used /\ lo[id]..(lo[id] + size[id] - 1) \subseteq used
<1> DEFINE end == [id \in 1..n |-> lo[id] + size[id]]
           all == LinesOf(n, lo, size)
           lines == UNION {lo[id]..(lo[id] + size[id] - 1) : id \in 1..n}
           last == Max(Range(end))
<1>0. all = lines
  BY DEF LinesOf
<1> HIDE DEF all
<1>1. \A id \in 1..n : lo[id] \in Nat /\ size[id] \in Nat \ {0}
  OBVIOUS
<1>2. DOMAIN end = 1..n /\ end = [id \in 1..n |-> end[id]] /\ \A id \in 1..n : end[id] = lo[id] + size[id]
  OBVIOUS
<1> HIDE DEF end
<1>3. Range(end) \in SUBSET Nat /\ Range(end) \in SUBSET Int /\ Range(end) # {}
  <2>1. 1 \in 1..n /\ \A id \in 1..n : end[id] \in Nat
    BY <1>1, <1>2
  <2> QED
    BY <1>2, <2>1 DEF Range
<1>4. IsFiniteSet(Range(end))
  BY <1>2, UpTo, FiniteRange
<1>5. last \in Nat /\ \A id \in 1..n : end[id] <= last
  <2>1. last \in Range(end) /\ \A v \in Range(end) : last >= v
    BY <1>3, <1>4, MaxFacts
  <2>2. \A id \in 1..n : end[id] \in Range(end)
    BY <1>2 DEF Range
  <2> HIDE DEF last
  <2> QED
    BY <1>3, <2>1, <2>2
<1> HIDE DEF last
<1>6. all \in SUBSET Nat /\ \A v \in all : v <= last
  <2> SUFFICES ASSUME NEW v \in all PROVE v \in Nat /\ v <= last
    OBVIOUS
  <2>1. PICK id \in 1..n : v \in lo[id]..(lo[id] + size[id] - 1)
    BY <1>0
  <2>2. lo[id] \in Nat /\ size[id] \in Nat \ {0} /\ lo[id] + size[id] <= last
    BY <1>1, <1>2, <1>5
  <2> QED
    BY <1>5, <2>1, <2>2
<1>7. \A id \in 1..n : lo[id] \in all /\ lo[id]..(lo[id] + size[id] - 1) \subseteq all
  <2> SUFFICES ASSUME NEW id \in 1..n
               PROVE  lo[id] \in all /\ lo[id]..(lo[id] + size[id] - 1) \subseteq all
    OBVIOUS
  <2>1. lo[id]..(lo[id] + size[id] - 1) \subseteq all
    BY <1>0
  <2>2. lo[id] \in lo[id]..(lo[id] + size[id] - 1)
    <3>1. lo[id] \in Nat /\ size[id] \in Nat \ {0}
      BY <1>1
    <3> DEFINE u == lo[id]  v == size[id]
    <3>2. u \in Nat /\ v \in Nat \ {0}
      BY <3>1
    <3> HIDE DEF u, v
    <3>3. u \in u..(u + v - 1)
      BY <3>2
    <3> QED
      BY <3>3 DEF u, v
  <2> QED
    BY <2>1, <2>2
<1>8. IsFiniteSet(all)
  BY <1>5, <1>6, FS_BoundedSetOfNaturals
<1>9. IsFiniteSet(more \cup all)
  BY <1>8, FS_Union
<1>10. /\ more \cup all \in SUBSET Nat
       /\ \A id \in 1..n : /\ lo[id] \in more \cup all
                           /\ lo[id]..(lo[id] + size[id] - 1) \subseteq more \cup all
  BY <1>6, <1>7
<1> QED
  BY <1>9, <1>10 DEF all

\* The lines of an axis mapped: what is taken stays whole, and a line is left
\* between two boxes that had one between them.
LEMMA AxisFacts ==
  ASSUME NEW n \in Nat \ {0}, NEW lo \in [1..n -> Nat], NEW size \in [1..n -> Nat \ {0}],
         NEW more \in SUBSET Nat, IsFiniteSet(more), NEW used,
         used = more \cup LinesOf(n, lo, size)
  PROVE  /\ \A id \in 1..n : CompactAxis(used)[lo[id]] \in Nat
         /\ \A a, b \in 1..n : lo[b] - (lo[a] + size[a]) >= 1 =>
              CompactAxis(used)[lo[b]] - (CompactAxis(used)[lo[a]] + size[a]) >= 1
<1>1. /\ used \in SUBSET Nat /\ IsFiniteSet(used)
      /\ \A id \in 1..n : lo[id] \in used /\ lo[id]..(lo[id] + size[id] - 1) \subseteq used
  BY TakenLines
<1>2. ASSUME NEW a \in 1..n, NEW b \in 1..n, lo[b] - (lo[a] + size[a]) >= 1
      PROVE  CompactAxis(used)[lo[b]] - (CompactAxis(used)[lo[a]] + size[a]) >= 1
  <2> DEFINE t == lo[a]  h == size[a]  v == lo[b]
  <2>1. t \in Nat /\ h \in Nat \ {0} /\ v \in Nat /\ v - (t + h) >= 1
    BY <1>2
  <2>2. t..(t + h - 1) \subseteq used /\ v \in used
    BY <1>1
  <2> HIDE DEF t, h, v
  <2>3. v > t + h
    BY <2>1
  <2>4. CompactAxis(used)[v] - (CompactAxis(used)[t] + h) >= 1
    BY <1>1, <2>1, <2>2, <2>3, CompactAxisFacts
  <2> QED
    BY <2>4 DEF t, h, v
<1> QED
  BY <1>1, <1>2, CompactAxisIsNat

Ones(l) == [c \in Range(l.column) |-> 1]

\* Boxes that are apart are apart once compacted, in the same order.
LEMMA CompactFacts ==
  ASSUME NEW n, NEW l, Rows(n, l), NEW rects \in Boxes(n), NEW gap \in Nat \ {0},
         NEW wide \in [Range(l.column) -> Nat \ {0}], Spread(l, rects, gap, wide),
         NEW rows \in SUBSET Nat, IsFiniteSet(rows), NEW cols \in SUBSET Nat, IsFiniteSet(cols)
  PROVE  /\ Compact(rects, rows, cols) \in Boxes(n)
         /\ \A id \in 1..n : Compact(rects, rows, cols)[id].height = rects[id].height
         /\ Spread(l, Compact(rects, rows, cols), 1, Ones(l))
<1> DEFINE z == Compact(rects, rows, cols)
           ys == rows \cup UNION {RowsOf(r) : r \in Range(rects)}
           xs == cols \cup UNION {ColsOf(r) : r \in Range(rects)}
           top == [id \in 1..n |-> rects[id].top]
           left == [id \in 1..n |-> rects[id].left]
           height == [id \in 1..n |-> rects[id].height]
           width == [id \in 1..n |-> rects[id].width]
           Box == [top : Nat, left : Nat, height : Nat \ {0}, width : Nat \ {0}]
<1>1. n \in Nat \ {0} /\ DOMAIN rects = 1..n /\ \A id \in 1..n : rects[id] \in Box
  BY DEF Rows, Boxes
<1>2. z = [id \in 1..n |-> [rects[id] EXCEPT !.top = CompactAxis(ys)[@], !.left = CompactAxis(xs)[@]]]
  BY <1>1 DEF Compact
<1>3. /\ top \in [1..n -> Nat] /\ left \in [1..n -> Nat]
      /\ height \in [1..n -> Nat \ {0}] /\ width \in [1..n -> Nat \ {0}]
  BY <1>1
<1>4. ys = rows \cup LinesOf(n, top, height) /\ xs = cols \cup LinesOf(n, left, width)
  <2>1. Range(rects) = {rects[id] : id \in 1..n}
    BY <1>1 DEF Range
  <2>2. \A id \in 1..n : /\ RowsOf(rects[id]) = top[id]..(top[id] + height[id] - 1)
                         /\ ColsOf(rects[id]) = left[id]..(left[id] + width[id] - 1)
    BY DEF RowsOf, ColsOf
  <2> HIDE DEF top, left, height, width
  <2>3. /\ {RowsOf(r) : r \in Range(rects)} = {top[id]..(top[id] + height[id] - 1) : id \in 1..n}
        /\ {ColsOf(r) : r \in Range(rects)} = {left[id]..(left[id] + width[id] - 1) : id \in 1..n}
    BY <2>1, <2>2
  <2> QED
    BY <2>3 DEF LinesOf
<1>5. \A id \in 1..n : /\ top[id] = rects[id].top /\ left[id] = rects[id].left
                       /\ height[id] = rects[id].height /\ width[id] = rects[id].width
  OBVIOUS
<1> HIDE DEF ys, xs, top, left, height, width, z
<1>6. /\ \A id \in 1..n : CompactAxis(ys)[top[id]] \in Nat
      /\ \A a, b \in 1..n : top[b] - (top[a] + height[a]) >= 1 =>
           CompactAxis(ys)[top[b]] - (CompactAxis(ys)[top[a]] + height[a]) >= 1
  BY <1>1, <1>3, <1>4, AxisFacts
<1>7. /\ \A id \in 1..n : CompactAxis(xs)[left[id]] \in Nat
      /\ \A a, b \in 1..n : left[b] - (left[a] + width[a]) >= 1 =>
           CompactAxis(xs)[left[b]] - (CompactAxis(xs)[left[a]] + width[a]) >= 1
  BY <1>1, <1>3, <1>4, AxisFacts
<1>8. \A id \in 1..n : /\ z[id] \in Box
                       /\ z[id].top = CompactAxis(ys)[top[id]] /\ z[id].left = CompactAxis(xs)[left[id]]
                       /\ z[id].height = height[id] /\ z[id].width = width[id]
  <2> SUFFICES ASSUME NEW id \in 1..n
               PROVE  /\ z[id] \in Box
                      /\ z[id].top = CompactAxis(ys)[top[id]] /\ z[id].left = CompactAxis(xs)[left[id]]
                      /\ z[id].height = height[id] /\ z[id].width = width[id]
    OBVIOUS
  <2> DEFINE r == rects[id]
             u == CompactAxis(ys)[top[id]]  v == CompactAxis(xs)[left[id]]
  <2>1. r \in Box /\ u \in Nat /\ v \in Nat
    BY <1>1, <1>6, <1>7
  <2>2. z[id] = [r EXCEPT !.top = u, !.left = v]
    BY <1>2, <1>5
  <2> HIDE DEF u, v, r
  <2>3. z[id] \in Box /\ z[id].top = u /\ z[id].left = v /\ z[id].height = r.height /\ z[id].width = r.width
    BY <2>1, <2>2
  <2> QED
    BY <1>5, <2>3 DEF u, v, r
<1>9. z \in Boxes(n)
  <2>1. z = [id \in 1..n |-> z[id]]
    BY <1>2
  <2> QED
    BY <1>8, <2>1 DEF Boxes
<1>10. ASSUME NEW c \in Range(l.column), NEW i \in 1..(Len(l.row_order[c]) - 1)
       PROVE  z[l.row_order[c][i + 1]].top - (z[l.row_order[c][i]].top + z[l.row_order[c][i]].height) >= 1
  <2> DEFINE a == l.row_order[c][i]
             b == l.row_order[c][i + 1]
  <2>1. a \in 1..n /\ b \in 1..n
    <3>1. IsColumn(n, l, c, l.row_order[c])
      BY RowFacts
    <3>2. Len(l.row_order[c]) \in Nat
      BY <3>1 DEF IsColumn
    <3>3. i \in 1..Len(l.row_order[c]) /\ i + 1 \in 1..Len(l.row_order[c])
      BY <3>2
    <3> QED
      BY <3>1, <3>3 DEF IsColumn
  <2>2. rects[b].top - (rects[a].top + rects[a].height) >= gap
    BY DEF Spread
  <2> HIDE DEF a, b
  <2>3. top[b] - (top[a] + height[a]) >= gap /\ top[b] \in Int /\ top[a] \in Int /\ height[a] \in Int
    BY <1>3, <1>5, <2>1, <2>2
  <2>4. top[b] - (top[a] + height[a]) >= 1
    BY <2>3
  <2>5. z[b].top - (z[a].top + z[a].height) >= 1
    BY <1>6, <1>8, <2>1, <2>4
  <2> QED
    BY <2>5 DEF a, b
<1>11. ASSUME NEW j \in 1..(Len(Columns(l)) - 1),
              NEW a \in Range(l.row_order[Columns(l)[j]]),
              NEW b \in Range(l.row_order[Columns(l)[j + 1]])
       PROVE  z[b].left - (z[a].left + z[a].width) >= Ones(l)[Columns(l)[j]]
  <2> DEFINE c == Columns(l)[j]
             d == Columns(l)[j + 1]
  <2>1. c \in Range(l.column) /\ d \in Range(l.column)
    <3>1. Lists(Columns(l), Range(l.column))
      BY ColumnsFacts
    <3>2. Len(Columns(l)) \in Nat /\ \A k \in 1..Len(Columns(l)) : Columns(l)[k] \in Range(l.column)
      BY <3>1 DEF Lists
    <3>3. j \in 1..Len(Columns(l)) /\ j + 1 \in 1..Len(Columns(l))
      BY <3>2
    <3> QED
      BY <3>2, <3>3
  <2>2. rects[b].left - (rects[a].left + rects[a].width) >= wide[c]
    BY DEF Spread
  <2>3. a \in Range(l.row_order[c]) /\ b \in Range(l.row_order[d])
    OBVIOUS
  <2> HIDE DEF c, d
  <2>4. a \in 1..n /\ b \in 1..n
    <3>1. ASSUME NEW k \in Range(l.column) PROVE Range(l.row_order[k]) \subseteq 1..n
      <4>1. Range(l.row_order[k]) = In(n, l.column, k)
        BY RowFacts DEF IsColumn
      <4> QED
        BY <4>1 DEF In
    <3> QED
      BY <2>1, <2>3, <3>1
  <2>5. wide[c] \in Nat \ {0} /\ Ones(l)[c] = 1
    BY <2>1 DEF Ones
  <2>6. left[b] - (left[a] + width[a]) >= wide[c] /\ left[b] \in Int /\ left[a] \in Int /\ width[a] \in Int
    <3>1. left[b] \in Int /\ left[a] \in Int /\ width[a] \in Int
      <4>1. \A id \in 1..n : left[id] \in Int /\ width[id] \in Int
        BY <1>3
      <4> QED
        BY <2>4, <4>1
    <3>2. left[b] = rects[b].left /\ left[a] = rects[a].left /\ width[a] = rects[a].width
      BY <1>5, <2>4
    <3> QED
      BY <2>2, <3>1, <3>2
  <2>7. left[b] - (left[a] + width[a]) >= 1
    <3> DEFINE u == left[b]  v == left[a]  t == width[a]  s == wide[c]
    <3>1. u \in Int /\ v \in Int /\ t \in Int /\ s \in Nat \ {0} /\ u - (v + t) >= s
      BY <2>5, <2>6
    <3> HIDE DEF u, v, t, s
    <3>2. u - (v + t) >= 1
      BY <3>1
    <3> QED
      BY <3>2 DEF u, v, t
  <2>8. z[b].left - (z[a].left + z[a].width) >= Ones(l)[c]
    BY <1>7, <1>8, <2>4, <2>5, <2>7
  <2> QED
    BY <2>8 DEF c
<1>12. Spread(l, z, 1, Ones(l))
  BY <1>10, <1>11 DEF Spread
<1> QED
  BY <1>5, <1>8, <1>9, <1>12 DEF z
=============================================================================
