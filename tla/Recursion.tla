------------------------------ MODULE Recursion ------------------------------
(***************************************************************************)
(* Induction over the natural numbers for sets, which the provers can      *)
(* instantiate where they cannot a predicate, and what it gives: a         *)
(* function defined by recursion over 0 .. w is there.                     *)
(***************************************************************************)
EXTENDS Integers, FiniteSets, FiniteSetTheorems, WellFoundedInduction, TLAPS

(* The least of a set of natural numbers.                                  *)
LEMMA Least ==
  ASSUME NEW S \in SUBSET Nat, S # {}
  PROVE  \E n \in S : \A m \in S : n <= m
<1>1. PICK n \in S : \A m \in S : ~(<<m, n>> \in OpToRel(<, Nat))
  BY NatLessThanWellFounded, WFMin, Zenon
<1>2. ASSUME NEW m \in S PROVE n <= m
  <2>1. m \in Nat /\ n \in Nat
    OBVIOUS
  <2>2. ~(m < n)
    BY <1>1, <2>1 DEF OpToRel
  <2> QED
    BY <2>1, <2>2
<1> QED
  BY <1>2

(* A set with 0 in it, and with each number up to w whose predecessor is.  *)
LEMMA InductTo ==
  ASSUME NEW w \in Nat, NEW S, 0 \in S,
         \A n \in 1 .. w : n - 1 \in S => n \in S
  PROVE  \A n \in 0 .. w : n \in S
<1> DEFINE Out == {n \in 0 .. w : n \notin S}
<1> SUFFICES ASSUME Out # {} PROVE FALSE
  OBVIOUS
<1>1. Out \in SUBSET Nat
  OBVIOUS
<1>2. PICK n \in Out : \A m \in Out : n <= m
  BY <1>1, Least
<1>3. n \in 1 .. w /\ n - 1 \in 0 .. w
  BY <1>2
<1>4. n - 1 \notin Out
  BY <1>2, <1>3
<1> QED
  BY <1>2, <1>3, <1>4

(* What is defined at 0, and at each further number from the one before.   *)
Recursions(V, base, w, h) ==
  {g \in [0 .. w -> V] : g[0] = base /\ \A n \in 1 .. w : g[n] = h[n][g[n - 1]]}

LEMMA RecursionExists ==
  ASSUME NEW V, NEW base \in V, NEW w \in Nat, NEW h \in [1 .. w -> [V -> V]]
  PROVE  Recursions(V, base, w, h) # {}
<1> DEFINE Upto(g, k) == g[0] = base /\ \A i \in 1 .. k : g[i] = h[i][g[i - 1]]
           S == {k \in 0 .. w : \E g \in [0 .. k -> V] : Upto(g, k)}
<1>1. 0 \in S
  <2> DEFINE e == [i \in 0 .. 0 |-> base]
  <2>1. e \in [0 .. 0 -> V] /\ Upto(e, 0)
    OBVIOUS
  <2>2. 0 \in 0 .. w
    OBVIOUS
  <2> HIDE DEF e, Upto
  <2> QED
    BY <2>1, <2>2
<1>2. ASSUME NEW n \in 1 .. w, n - 1 \in S PROVE n \in S
  <2>1. PICK g \in [0 .. n - 1 -> V] : Upto(g, n - 1)
    BY <1>2
  <2> DEFINE e == [i \in 0 .. n |-> IF i = n THEN h[n][g[n - 1]] ELSE g[i]]
  <2>2. g[n - 1] \in V /\ h[n][g[n - 1]] \in V
    <3>1. n - 1 \in 0 .. n - 1
      OBVIOUS
    <3> QED
      BY <3>1
  <2>3. e \in [0 .. n -> V]
    BY <2>2
  <2>4. e[0] = base
    BY <2>1
  <2>5. ASSUME NEW i \in 1 .. n PROVE e[i] = h[i][e[i - 1]]
    <3>1. i - 1 \in 0 .. n /\ i - 1 # n /\ e[i - 1] = g[i - 1]
      OBVIOUS
    <3>2. CASE i = n
      BY <3>1, <3>2
    <3>3. CASE i # n
      BY <2>1, <3>1, <3>3
    <3> QED
      BY <3>2, <3>3
  <2>6. Upto(e, n)
    BY <2>4, <2>5
  <2>7. n \in 0 .. w
    OBVIOUS
  <2> HIDE DEF e, Upto
  <2> QED
    BY <2>3, <2>6, <2>7
<1>3. w \in S
  <2> HIDE DEF S
  <2>1. \A n \in 0 .. w : n \in S
    BY <1>1, <1>2, InductTo
  <2> QED
    BY <2>1
<1> QED
  BY <1>3 DEF Recursions

(* A function that goes from one place of a list to the next.              *)
Chains(V, base, w, h) ==
  {f \in [1 .. w -> V] : f[1] = base /\ \A i \in 2 .. w : f[i] = h[i - 1][f[i - 1]]}

LEMMA ChainExists ==
  ASSUME NEW V, NEW base \in V, NEW w \in Nat \ {0}, NEW h \in [1 .. w - 1 -> [V -> V]]
  PROVE  Chains(V, base, w, h) # {}
<1>1. PICK g \in [0 .. w - 1 -> V] :
        g[0] = base /\ \A i \in 1 .. w - 1 : g[i] = h[i][g[i - 1]]
  <2>1. w - 1 \in Nat
    OBVIOUS
  <2>2. Recursions(V, base, w - 1, h) # {}
    BY <2>1, RecursionExists
  <2> QED
    BY <2>2 DEF Recursions
<1> DEFINE f == [i \in 1 .. w |-> g[i - 1]]
<1>2. f \in [1 .. w -> V]
  OBVIOUS
<1>3. f[1] = base
  BY <1>1
<1>4. ASSUME NEW i \in 2 .. w PROVE f[i] = h[i - 1][f[i - 1]]
  <2>1. i - 1 \in 1 .. w - 1 /\ i - 1 \in 1 .. w /\ i \in 1 .. w
    OBVIOUS
  <2> QED
    BY <1>1, <2>1
<1> HIDE DEF f
<1> QED
  BY <1>2, <1>3, <1>4 DEF Chains

-----------------------------------------------------------------------------
(* How many members of a set of naturals are at most n.                    *)
CountTo(S, n) == Cardinality({j \in S : j <= n})

(* A count along the bins goes up by one at each member, tells the members *)
(* apart and ends at how many there are.                                   *)
LEMMA CountToFacts ==
  ASSUME NEW m \in Nat, NEW S \in SUBSET (1 .. m)
  PROVE  /\ Cardinality(S) \in Nat
         /\ CountTo(S, 0) = 0
         /\ CountTo(S, m) = Cardinality(S)
         /\ \A n \in Nat : CountTo(S, n) \in Nat /\ CountTo(S, n) <= n
         /\ \A n \in Nat : CountTo(S, n) <= Cardinality(S)
         /\ \A n \in Nat : CountTo(S, n + 1)
                             = IF n + 1 \in S THEN CountTo(S, n) + 1 ELSE CountTo(S, n)
         /\ \A i, j \in S : CountTo(S, i) = CountTo(S, j) => i = j
         /\ \A i, j \in Nat : i <= j => CountTo(S, i) <= CountTo(S, j)
<1>. DEFINE B(n) == {j \in S : j <= n}
<1>0. \A j \in S : j \in Nat /\ 1 <= j /\ j <= m
  OBVIOUS
<1>1. IsFiniteSet(S) /\ Cardinality(S) \in Nat
  <2>1. IsFiniteSet(1 .. m)
    BY FS_Interval
  <2>2. IsFiniteSet(S)
    BY <2>1, FS_Subset
  <2>. QED
    BY <2>2, FS_CardinalityType
<1>2. \A n \in Nat : IsFiniteSet(B(n)) /\ Cardinality(B(n)) \in Nat
                       /\ Cardinality(B(n)) <= Cardinality(S)
  <2>. TAKE n \in Nat
  <2>1. B(n) \in SUBSET S
    OBVIOUS
  <2>. HIDE DEF B
  <2>2. IsFiniteSet(B(n)) /\ Cardinality(B(n)) <= Cardinality(S)
    BY <1>1, <2>1, FS_Subset
  <2>. QED
    BY <2>2, FS_CardinalityType
<1>3. \A n \in Nat : Cardinality(B(n)) <= n
  <2>. TAKE n \in Nat
  <2>1. B(n) \in SUBSET (1 .. n)
    <3>1. \A j \in B(n) : j \in 1 .. n
      BY <1>0
    <3>. QED
      BY <3>1
  <2>2. IsFiniteSet(1 .. n) /\ Cardinality(1 .. n) = n
    BY FS_Interval
  <2>. HIDE DEF B
  <2>. QED
    BY <2>1, <2>2, FS_Subset
<1>4. Cardinality(B(0)) = 0
  BY <1>2, <1>3
<1>5. Cardinality(B(m)) = Cardinality(S)
  <2>1. B(m) = S
    BY <1>0
  <2>. QED
    BY <2>1
<1>6. \A n \in Nat : Cardinality(B(n + 1))
        = IF n + 1 \in S THEN Cardinality(B(n)) + 1 ELSE Cardinality(B(n))
  <2>. TAKE n \in Nat
  <2>1. CASE n + 1 \in S
    <3>1. B(n + 1) = B(n) \union {n + 1} /\ n + 1 \notin B(n)
      <4>1. \A j \in S : j <= n + 1 <=> j <= n \/ j = n + 1
        BY <1>0
      <4>2. n + 1 \notin B(n)
        BY <1>0
      <4>3. \A j : j \in B(n + 1) <=> j \in B(n) \/ j = n + 1
        BY <2>1, <4>1
      <4>. QED
        BY <4>2, <4>3
    <3>2. IsFiniteSet(B(n))
      BY <1>2
    <3>. HIDE DEF B
    <3>3. Cardinality(B(n) \union {n + 1}) = Cardinality(B(n)) + 1
      BY <3>1, <3>2, FS_AddElement
    <3>. QED
      BY <2>1, <3>1, <3>3
  <2>2. CASE n + 1 \notin S
    <3>1. B(n + 1) = B(n)
      <4>1. \A j \in S : j <= n + 1 <=> j <= n
        BY <1>0, <2>2
      <4>. QED
        BY <4>1
    <3>. QED
      BY <2>2, <3>1
  <2>. QED
    BY <2>1, <2>2
<1>7. \A i, j \in S : i < j => Cardinality(B(i)) < Cardinality(B(j))
  <2>. SUFFICES ASSUME NEW i \in S, NEW j \in S, i < j
                PROVE  Cardinality(B(i)) < Cardinality(B(j))
    OBVIOUS
  <2>1. B(i) \in SUBSET B(j) /\ j \in B(j) /\ j \notin B(i)
    <3>1. \A k \in S : k <= i => k <= j
      BY <1>0
    <3>2. j <= j /\ ~(j <= i)
      BY <1>0
    <3>. QED
      BY <3>1, <3>2
  <2>2. i \in Nat /\ j \in Nat
    BY <1>0
  <2>3. IsFiniteSet(B(j)) /\ Cardinality(B(i)) \in Nat /\ Cardinality(B(j)) \in Nat
    BY <1>2, <2>2
  <2>. HIDE DEF B
  <2>4. Cardinality(B(i)) <= Cardinality(B(j))
    BY <2>1, <2>3, FS_Subset
  <2>5. Cardinality(B(j)) # Cardinality(B(i))
    BY <2>1, <2>3, FS_Subset
  <2>. QED
    BY <2>3, <2>4, <2>5
<1>8. \A i, j \in S : Cardinality(B(i)) = Cardinality(B(j)) => i = j
  <2>. SUFFICES ASSUME NEW i \in S, NEW j \in S, Cardinality(B(i)) = Cardinality(B(j))
                PROVE  i = j
    OBVIOUS
  <2>1. i \in Nat /\ j \in Nat
    OBVIOUS
  <2>2. Cardinality(B(i)) \in Nat /\ Cardinality(B(j)) \in Nat
    BY <1>2, <2>1
  <2>. HIDE DEF B
  <2>. QED
    BY <1>7, <2>1, <2>2
<1>10. \A i, j \in Nat : i <= j => Cardinality(B(i)) <= Cardinality(B(j))
  <2>. SUFFICES ASSUME NEW i \in Nat, NEW j \in Nat, i <= j
                PROVE  Cardinality(B(i)) <= Cardinality(B(j))
    OBVIOUS
  <2>1. B(i) \in SUBSET B(j)
    <3>1. \A k \in S : k <= i => k <= j
      BY <1>0
    <3>. QED
      BY <3>1
  <2>2. IsFiniteSet(B(j))
    BY <1>2
  <2>. HIDE DEF B
  <2>. QED
    BY <2>1, <2>2, FS_Subset
<1>9. \A n : CountTo(S, n) = Cardinality(B(n))
  BY DEF CountTo
<1>. HIDE DEF B
<1>. QED
  BY <1>1, <1>2, <1>3, <1>4, <1>5, <1>6, <1>8, <1>9, <1>10

=============================================================================
