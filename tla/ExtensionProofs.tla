--------------------------- MODULE ExtensionProofs ---------------------------
(***************************************************************************)
(* Theorems about Extension: for every range, every banding and every width *)
(* of a sub-band, the copy fills the range it extends into and no further, *)
(* begins no section in the middle of a band unless the band is longer than *)
(* what it is copied from, and marks where it starts over.                 *)
(***************************************************************************)
EXTENDS Extension, Recursion

-----------------------------------------------------------------------------
(* What the first of some widths come to.                                  *)

Sum(w, v, k) == v = [n \in 0 .. k |-> IF n = 0 THEN 0 ELSE v[n - 1] + w[n]]

LEMMA SumExists ==
  ASSUME NEW w \in Seq(Nat), NEW k \in 0 .. Len(w)
  PROVE  \E v \in [0 .. k -> Nat] : Sum(w, v, k)
<1>. DEFINE h == [n \in 1 .. k |-> [x \in Nat |-> x + w[n]]]
<1>1. k \in Nat /\ \A n \in 1 .. k : w[n] \in Nat
  OBVIOUS
<1>2. h \in [1 .. k -> [Nat -> Nat]]
  <2>1. ASSUME NEW n \in 1 .. k PROVE [x \in Nat |-> x + w[n]] \in [Nat -> Nat]
    <3>1. w[n] \in Nat
      BY <1>1
    <3>. QED
      BY <3>1
  <2>. QED
    BY <2>1
<1>3. \A n \in 1 .. k : \A x \in Nat : h[n][x] = x + w[n]
  OBVIOUS
<1>. HIDE DEF h
<1>4. PICK v \in [0 .. k -> Nat] :
        v[0] = 0 /\ \A n \in 1 .. k : v[n] = h[n][v[n - 1]]
  <2>1. 0 \in Nat
    OBVIOUS
  <2>2. Recursions(Nat, 0, k, h) # {}
    BY <1>1, <1>2, <2>1, RecursionExists
  <2>. QED
    BY <2>2 DEF Recursions
<1>5. ASSUME NEW n \in 0 .. k
      PROVE  v[n] = IF n = 0 THEN 0 ELSE v[n - 1] + w[n]
  <2>1. CASE n = 0
    BY <1>4, <2>1
  <2>2. CASE n # 0
    <3>1. n \in 1 .. k /\ n - 1 \in 0 .. k
      BY <2>2
    <3>2. v[n - 1] \in Nat
      BY <3>1
    <3>. QED
      BY <1>3, <1>4, <2>2, <3>1, <3>2
  <2>. QED
    BY <2>1, <2>2
<1>6. Sum(w, v, k)
  BY <1>5 DEF Sum
<1>. QED
  BY <1>6

(* They depend on nothing behind them.                                     *)
LEMMA SumsAgree ==
  ASSUME NEW w, NEW x, NEW k \in Nat, NEW j \in 0 .. k, \A n \in 1 .. j : w[n] = x[n]
  PROVE  \A u, v : Sum(w, u, k) /\ Sum(x, v, j) => u[j] = v[j]
<1>. SUFFICES ASSUME NEW u, NEW v, Sum(w, u, k), Sum(x, v, j) PROVE u[j] = v[j]
  OBVIOUS
<1>. DEFINE S == {n \in 0 .. j : u[n] = v[n]}
<1>1. 0 \in S
  <2>1. u[0] = 0 /\ v[0] = 0
    BY DEF Sum
  <2>. QED
    BY <2>1
<1>2. ASSUME NEW n \in 1 .. j, n - 1 \in S PROVE n \in S
  <2>1. n \in 0 .. j /\ n \in 0 .. k /\ n # 0
    OBVIOUS
  <2>2. u[n] = u[n - 1] + w[n] /\ v[n] = v[n - 1] + x[n]
    BY <2>1 DEF Sum
  <2>. QED
    BY <1>2, <2>1, <2>2
<1>. HIDE DEF S
<1>3. j \in S
  BY <1>1, <1>2, InductTo
<1>. QED
  BY <1>3 DEF S

LEMMA UptoIs ==
  ASSUME NEW w \in Seq(Nat), NEW k \in 0 .. Len(w)
  PROVE  \E v \in [0 .. k -> Nat] : Sum(w, v, k) /\ Upto(w, k) = v[k]
<1>. DEFINE x == CHOOSE y : Sum(w, y, k)
<1>1. PICK v \in [0 .. k -> Nat] : Sum(w, v, k)
  BY SumExists
<1>2. Sum(w, x, k)
  BY <1>1
<1>3. Upto(w, k) = x[k]
  BY DEF Upto, Sum
<1>. HIDE DEF x
<1>4. x[k] = v[k]
  <2>1. k \in Nat /\ k \in 0 .. k
    OBVIOUS
  <2>2. \A y, z : Sum(w, y, k) /\ Sum(w, z, k) => y[k] = z[k]
    BY <2>1, SumsAgree
  <2>. QED
    BY <1>1, <1>2, <2>2
<1>. QED
  BY <1>1, <1>3, <1>4

LEMMA UptoTyped ==
  ASSUME NEW w \in Seq(Nat), NEW k \in 0 .. Len(w)
  PROVE  Upto(w, k) \in Nat
<1>1. PICK v \in [0 .. k -> Nat] : Upto(w, k) = v[k]
  BY UptoIs
<1>. QED
  BY <1>1

LEMMA UptoNone == ASSUME NEW w \in Seq(Nat) PROVE Upto(w, 0) = 0
<1>. DEFINE k == 0
<1>1. k \in 0 .. Len(w)
  OBVIOUS
<1>. HIDE DEF k
<1>2. PICK v \in [0 .. k -> Nat] : Sum(w, v, k) /\ Upto(w, k) = v[k]
  BY <1>1, UptoIs
<1>. QED
  BY <1>2 DEF Sum, k

LEMMA UptoAgrees ==
  ASSUME NEW w \in Seq(Nat), NEW x \in Seq(Nat), NEW k \in Nat,
         k <= Len(w), k <= Len(x), \A n \in 1 .. k : w[n] = x[n]
  PROVE  Upto(w, k) = Upto(x, k)
<1>1. k \in 0 .. Len(w) /\ k \in 0 .. Len(x) /\ k \in 0 .. k
  OBVIOUS
<1>2. PICK u \in [0 .. k -> Nat] : Sum(w, u, k) /\ Upto(w, k) = u[k]
  BY <1>1, UptoIs
<1>3. PICK v \in [0 .. k -> Nat] : Sum(x, v, k) /\ Upto(x, k) = v[k]
  BY <1>1, UptoIs
<1>4. \A y, z : Sum(w, y, k) /\ Sum(x, z, k) => y[k] = z[k]
  <2>. DEFINE j == k
  <2>1. j \in 0 .. k /\ \A n \in 1 .. j : w[n] = x[n]
    BY <1>1
  <2>. HIDE DEF j
  <2>2. \A y, z : Sum(w, y, k) /\ Sum(x, z, j) => y[j] = z[j]
    BY <2>1, SumsAgree
  <2>. QED
    BY <2>2 DEF j
<1>. QED
  BY <1>2, <1>3, <1>4

LEMMA UptoNext ==
  ASSUME NEW w \in Seq(Nat), NEW k \in Nat, k < Len(w)
  PROVE  Upto(w, k + 1) = Upto(w, k) + w[k + 1]
<1>1. k \in 0 .. Len(w) /\ k + 1 \in 0 .. Len(w) /\ k \in 0 .. k + 1
  OBVIOUS
<1>2. PICK u \in [0 .. k + 1 -> Nat] : Sum(w, u, k + 1) /\ Upto(w, k + 1) = u[k + 1]
  BY <1>1, UptoIs
<1>3. PICK v \in [0 .. k -> Nat] : Sum(w, v, k) /\ Upto(w, k) = v[k]
  BY <1>1, UptoIs
<1>4. u[k] = v[k]
  <2>1. k + 1 \in Nat /\ \A n \in 1 .. k : w[n] = w[n]
    OBVIOUS
  <2>2. \A y, z : Sum(w, y, k + 1) /\ Sum(w, z, k) => y[k] = z[k]
    BY <1>1, <2>1, SumsAgree
  <2>. QED
    BY <1>2, <1>3, <2>2
<1>5. u[k + 1] = u[k] + w[k + 1]
  <2>1. k + 1 \in 0 .. k + 1 /\ k + 1 # 0 /\ (k + 1) - 1 = k
    OBVIOUS
  <2>2. u[k + 1] = u[(k + 1) - 1] + w[k + 1]
    BY <1>2, <2>1 DEF Sum
  <2>. QED
    BY <2>1, <2>2
<1>. QED
  BY <1>2, <1>3, <1>4, <1>5

(* They never come to less.                                                *)
LEMMA UptoGrows ==
  ASSUME NEW w \in Seq(Nat), NEW j \in 0 .. Len(w), NEW k \in 0 .. j
  PROVE  Upto(w, k) <= Upto(w, j)
<1>. DEFINE S == {n \in 0 .. j - k : Upto(w, k) <= Upto(w, k + n)}
<1>0. \A n \in 0 .. j - k : Upto(w, k + n) \in Nat
  <2>. TAKE n \in 0 .. j - k
  <2>1. k + n \in 0 .. Len(w)
    OBVIOUS
  <2>. QED
    BY <2>1, UptoTyped
<1>1. 0 \in S
  <2>1. 0 \in 0 .. j - k /\ k + 0 = k
    OBVIOUS
  <2>2. Upto(w, k) \in Nat
    BY <1>0, <2>1
  <2>. QED
    BY <2>1, <2>2
<1>2. ASSUME NEW n \in 1 .. j - k, n - 1 \in S PROVE n \in S
  <2>1. k + (n - 1) \in Nat /\ k + (n - 1) < Len(w) /\ (k + (n - 1)) + 1 = k + n
    OBVIOUS
  <2>2. Upto(w, k + n) = Upto(w, k + (n - 1)) + w[k + n]
    BY <2>1, UptoNext
  <2>3. w[k + n] \in Nat
    BY <2>1
  <2>4. Upto(w, k) \in Nat /\ Upto(w, k + (n - 1)) \in Nat
    <3>1. k \in 0 .. Len(w) /\ k + (n - 1) \in 0 .. Len(w)
      BY <2>1
    <3>. QED
      BY <3>1, UptoTyped
  <2>. QED
    BY <1>2, <2>2, <2>3, <2>4
<1>. HIDE DEF S
<1>3. j - k \in Nat
  OBVIOUS
<1>4. j - k \in S
  <2>1. \A n \in 0 .. j - k : n \in S
    BY <1>1, <1>2, <1>3, InductTo
  <2>. QED
    BY <1>3, <2>1
<1>. QED
  BY <1>4 DEF S

LEMMA UptoAppend ==
  ASSUME NEW w \in Seq(Nat), NEW x \in Nat
  PROVE  /\ Append(w, x) \in Seq(Nat) /\ Len(Append(w, x)) = Len(w) + 1
         /\ \A k \in 0 .. Len(w) : Upto(Append(w, x), k) = Upto(w, k)
         /\ Upto(Append(w, x), Len(w) + 1) = Upto(w, Len(w)) + x
<1>. DEFINE y == Append(w, x)
<1>1. y \in Seq(Nat) /\ Len(y) = Len(w) + 1 /\ y[Len(w) + 1] = x
        /\ \A n \in 1 .. Len(w) : y[n] = w[n]
  OBVIOUS
<1>. HIDE DEF y
<1>2. ASSUME NEW k \in 0 .. Len(w) PROVE Upto(y, k) = Upto(w, k)
  <2>1. k \in Nat /\ k <= Len(w) /\ k <= Len(y) /\ \A n \in 1 .. k : y[n] = w[n]
    BY <1>1
  <2>. QED
    BY <1>1, <2>1, UptoAgrees
<1>3. Upto(y, Len(w) + 1) = Upto(w, Len(w)) + x
  <2>1. Len(w) \in Nat /\ Len(w) < Len(y) /\ Len(w) \in 0 .. Len(w)
    BY <1>1
  <2>2. Upto(y, Len(w) + 1) = Upto(y, Len(w)) + y[Len(w) + 1]
    BY <1>1, <2>1, UptoNext
  <2>. QED
    BY <1>1, <1>2, <2>1, <2>2
<1>. QED
  BY <1>1, <1>2, <1>3 DEF y

(* The bands are as many sub-bands as the extension has, in pieces.        *)
Divides(widths, n) ==
  /\ Len(widths) <= n
  /\ \A b \in 1 .. Len(widths) : widths[b] >= spxSubbandBins
  /\ Upto(widths, Len(widths)) = n * spxSubbandBins


LEMMA MinIs ==
  ASSUME NEW S \in SUBSET Int, NEW m \in S, \A t \in S : m <= t
  PROVE  Min(S) = m
<1>1. \A x \in S : (\A t \in S : x <= t) => x = m
  <2>. SUFFICES ASSUME NEW x \in S, \A t \in S : x <= t PROVE x = m
    OBVIOUS
  <2>1. x <= m /\ m <= x /\ x \in Int /\ m \in Int
    OBVIOUS
  <2>. QED
    BY <2>1
<1>. QED
  BY <1>1 DEF Min

LEMMA Distribute ==
  ASSUME NEW x \in Int, NEW y \in Int, NEW b \in Int
  PROVE  x * b + y * b = (x + y) * b
OBVIOUS

(* However its sub-bands are joined, the bands divide an extension.        *)
LEMMA BandsDivide ==
  ASSUME NEW joined, NEW first \in Nat \ {0}, NEW end \in Nat, first < end
  PROVE  /\ BandsOf(joined, first, end) \in Seq(Nat)
         /\ Divides(BandsOf(joined, first, end), end - first)
<1>. DEFINE W == BandsOf(joined, first, end)
            S == {s \in first .. end - 1 : s = first \/ s \notin joined}
            C == Cardinality(S)
            Nth(b) == CHOOSE s \in S : Cardinality({t \in S : t < s}) = b - 1
            N == [b \in 1 .. C + 1 |-> IF b = C + 1 THEN end ELSE Nth(b)]
            Above(s) == {t \in S \union {end} : t > s}
<1>0. spxSubbandBins \in Nat /\ spxSubbandBins > 0
  BY CodesAssumption
<1>1. W = [b \in 1 .. C |-> (Min(Above(Nth(b))) - Nth(b)) * spxSubbandBins]
  BY DEF BandsOf
<1>2. S \in SUBSET (1 .. end - 1) /\ S \in SUBSET (first .. end - 1) /\ first \in S
        /\ end \notin S /\ \A s \in S : s \in Nat /\ 1 <= s /\ s < end
  OBVIOUS
<1>20. \A s \in S : s \in Nat /\ 1 <= s /\ s < end
  BY <1>2
<1>3. \A s \in S : {t \in S : t < s} = {t \in S : t <= s - 1}
  <2>. TAKE s \in S
  <2>1. \A t \in S : t < s <=> t <= s - 1
    BY <1>2
  <2>. QED
    BY <2>1
<1>4. C \in Nat /\ C <= end - first
  <2>1. IsFiniteSet(first .. end - 1) /\ Cardinality(first .. end - 1) = end - first
    BY FS_Interval
  <2>2. IsFiniteSet(S) /\ Cardinality(S) <= end - first
    BY <1>2, <2>1, FS_Subset
  <2>. QED
    BY <2>2, FS_CardinalityType
<1>. HIDE DEF S
<1>5. /\ CountTo(S, 0) = 0 /\ CountTo(S, end - 1) = C
      /\ \A n \in Nat : CountTo(S, n) \in Nat /\ CountTo(S, n) <= C
      /\ \A n \in Nat : CountTo(S, n + 1)
                          = IF n + 1 \in S THEN CountTo(S, n) + 1 ELSE CountTo(S, n)
      /\ \A i, j \in S : CountTo(S, i) = CountTo(S, j) => i = j
      /\ \A i, j \in Nat : i <= j => CountTo(S, i) <= CountTo(S, j)
  <2>1. end - 1 \in Nat
    OBVIOUS
  <2>. QED
    BY <1>2, <2>1, CountToFacts
<1>6. \A s \in S : Cardinality({t \in S : t < s}) = CountTo(S, s - 1)
                     /\ CountTo(S, s) = CountTo(S, s - 1) + 1
  <2>. TAKE s \in S
  <2>1. s - 1 \in Nat /\ (s - 1) + 1 = s
    BY <1>2
  <2>2. CountTo(S, s) = CountTo(S, s - 1) + 1
    BY <1>5, <2>1
  <2>. QED
    BY <1>3, <2>2 DEF CountTo
<1>7. ASSUME NEW b \in 1 .. C
      PROVE  Nth(b) \in S /\ CountTo(S, Nth(b) - 1) = b - 1 /\ CountTo(S, Nth(b)) = b
  <2>. DEFINE T == {n \in 0 .. end - 1 : CountTo(S, n) >= b}
  <2>1. T \in SUBSET Nat /\ T # {}
    <3>1. end - 1 \in 0 .. end - 1
      OBVIOUS
    <3>2. end - 1 \in T
      BY <1>4, <1>5, <3>1
    <3>. QED
      BY <3>2
  <2>2. PICK n \in T : \A m \in T : n <= m
    BY <2>1, Least
  <2>3. n \in Nat /\ n > 0
    BY <1>5
  <2>4. n - 1 \in Nat /\ n - 1 \notin T /\ (n - 1) + 1 = n
    BY <2>2, <2>3
  <2>5. CountTo(S, n - 1) \in Nat /\ CountTo(S, n - 1) < b
    <3>1. n - 1 \in 0 .. end - 1
      BY <2>4
    <3>2. CountTo(S, n - 1) \in Nat
      BY <1>5, <2>4
    <3>. QED
      BY <2>4, <3>1, <3>2
  <2>6. n \in S /\ CountTo(S, n - 1) = b - 1
    <3>1. CountTo(S, n) = IF n \in S THEN CountTo(S, n - 1) + 1 ELSE CountTo(S, n - 1)
      BY <1>5, <2>4
    <3>2. CountTo(S, n) >= b
      OBVIOUS
    <3>. QED
      BY <2>5, <3>1, <3>2
  <2>7. Cardinality({t \in S : t < n}) = b - 1
    BY <1>6, <2>6
  <2>8. Nth(b) \in S /\ Cardinality({t \in S : t < Nth(b)}) = b - 1
    BY <2>6, <2>7
  <2>. HIDE DEF Nth
  <2>9. CountTo(S, Nth(b) - 1) = b - 1 /\ CountTo(S, Nth(b)) = CountTo(S, Nth(b) - 1) + 1
    BY <1>6, <2>8
  <2>. QED
    BY <2>8, <2>9
<1>. HIDE DEF Nth, C
<1>8. /\ \A b \in 1 .. C : N[b] = Nth(b)
      /\ N[C + 1] = end
  <2>1. C + 1 \in 1 .. C + 1 /\ \A b \in 1 .. C : b \in 1 .. C + 1 /\ b # C + 1
    BY <1>4
  <2>. QED
    BY <2>1
<1>. HIDE DEF N
<1>9. /\ \A b \in 1 .. C : N[b] \in S /\ CountTo(S, N[b]) = b /\ CountTo(S, N[b] - 1) = b - 1
      /\ \A b \in 1 .. C + 1 : N[b] \in Nat /\ N[b] <= end
  <2>1. \A b \in 1 .. C : N[b] \in S /\ CountTo(S, N[b]) = b /\ CountTo(S, N[b] - 1) = b - 1
    BY <1>7, <1>8
  <2>2. \A b \in 1 .. C + 1 : b \in 1 .. C \/ b = C + 1
    BY <1>4
  <2>3. \A b \in 1 .. C : N[b] \in Nat /\ N[b] <= end
    BY <1>20, <2>1
  <2>. QED
    BY <1>8, <2>1, <2>2, <2>3
<1>10. C >= 1 /\ N[1] = first
  <2>1. CountTo(S, first - 1) = 0
    <3>1. {t \in S : t <= first - 1} = {}
      <4>1. \A t \in S : ~(t <= first - 1)
        BY <1>2
      <4>. QED
        BY <4>1
    <3>. QED
      BY <3>1, FS_EmptySet DEF CountTo
  <2>2. CountTo(S, first) = 1
    <3>1. first \in S
      BY <1>2
    <3>2. CountTo(S, first) = CountTo(S, first - 1) + 1
      BY <1>6, <3>1
    <3>. QED
      BY <2>1, <3>2
  <2>3. C >= 1
    BY <1>4, <1>5, <2>2
  <2>. QED
    BY <1>2, <1>4, <1>5, <1>9, <2>2, <2>3
<1>11. ASSUME NEW b \in 1 .. C
       PROVE  N[b] < N[b + 1] /\ Min(Above(N[b])) = N[b + 1]
  <2>0. b + 1 \in 1 .. C + 1 /\ b \in Nat
    BY <1>4
  <2>1. CASE b = C
    <3>1. N[b + 1] = end /\ N[b] < end /\ N[b] \in S
      BY <1>2, <1>8, <1>9, <2>1
    <3>2. \A t \in S : ~(t > N[b])
      <4>. SUFFICES ASSUME NEW t \in S, t > N[b] PROVE FALSE
        OBVIOUS
      <4>1. t - 1 \in Nat /\ N[b] \in Nat /\ N[b] <= t - 1 /\ t \in Nat
        BY <1>20, <3>1
      <4>2. CountTo(S, t) = CountTo(S, t - 1) + 1 /\ CountTo(S, N[b]) <= CountTo(S, t - 1)
        BY <1>5, <1>6, <4>1
      <4>3. CountTo(S, t) <= C /\ CountTo(S, t - 1) \in Nat /\ CountTo(S, N[b]) = C
        BY <1>5, <1>9, <2>1, <4>1
      <4>. QED
        BY <1>4, <4>2, <4>3
    <3>3. end \in Above(N[b]) /\ Above(N[b]) \in SUBSET Int /\ \A t \in Above(N[b]) : end <= t
      <4>1. \A t \in Above(N[b]) : t = end
        BY <3>2
      <4>2. end \in Above(N[b])
        BY <3>1
      <4>3. end \in Int /\ end <= end
        OBVIOUS
      <4>4. Above(N[b]) = {end}
        BY <4>1, <4>2
      <4>. HIDE DEF Above
      <4>. QED
        BY <4>3, <4>4
    <3>. HIDE DEF Above
    <3>. QED
      BY <3>1, <3>3, MinIs
  <2>2. CASE b < C
    <3>1. b + 1 \in 1 .. C
      BY <1>4, <2>2
    <3>2. /\ N[b] \in S /\ N[b + 1] \in S
          /\ CountTo(S, N[b]) = b /\ CountTo(S, N[b + 1]) = b + 1
          /\ CountTo(S, N[b + 1] - 1) = b
      <4>1. (b + 1) - 1 = b
        OBVIOUS
      <4>. QED
        BY <1>9, <3>1, <4>1
    <3>3. N[b] \in Nat /\ N[b + 1] \in Nat /\ N[b + 1] >= 1 /\ N[b + 1] - 1 \in Nat
            /\ N[b + 1] < end
      BY <1>20, <3>2
    <3>4. N[b] < N[b + 1]
      <4>1. N[b + 1] <= N[b] => CountTo(S, N[b + 1]) <= CountTo(S, N[b])
        BY <1>5, <3>3
      <4>. QED
        BY <3>2, <3>3, <4>1
    <3>5. \A t \in S : t > N[b] => N[b + 1] <= t
      <4>. SUFFICES ASSUME NEW t \in S, t > N[b], t < N[b + 1] PROVE FALSE
        BY <1>2, <3>3
      <4>1. t - 1 \in Nat /\ t \in Nat /\ N[b] <= t - 1 /\ t <= N[b + 1] - 1
        BY <1>20, <3>3
      <4>2. CountTo(S, t) = CountTo(S, t - 1) + 1 /\ CountTo(S, N[b]) <= CountTo(S, t - 1)
              /\ CountTo(S, t) <= CountTo(S, N[b + 1] - 1)
        BY <1>5, <1>6, <3>3, <4>1
      <4>3. CountTo(S, t - 1) \in Nat /\ CountTo(S, t) \in Nat
        BY <1>5, <4>1
      <4>. QED
        BY <3>2, <4>2, <4>3
    <3>6. N[b + 1] \in Above(N[b]) /\ Above(N[b]) \in SUBSET Int
            /\ \A t \in Above(N[b]) : N[b + 1] <= t
      <4>1. N[b + 1] \in Above(N[b])
        BY <3>2, <3>4
      <4>2. \A t \in Above(N[b]) : (t \in S /\ t > N[b]) \/ t = end
        OBVIOUS
      <4>. HIDE DEF Above
      <4>3. \A t \in Above(N[b]) : t \in Nat
        BY <1>20, <4>2
      <4>4. \A t \in Above(N[b]) : N[b + 1] <= t
        BY <3>3, <3>5, <4>2
      <4>. QED
        BY <4>1, <4>3, <4>4
    <3>. HIDE DEF Above
    <3>. QED
      BY <3>4, <3>6, MinIs
  <2>. QED
    BY <1>4, <2>1, <2>2
<1>. HIDE DEF Above
<1>12. W = [b \in 1 .. C |-> (N[b + 1] - N[b]) * spxSubbandBins]
  BY <1>1, <1>8, <1>11
<1>. HIDE DEF W
<1>13. ASSUME NEW b \in 1 .. C
       PROVE  (N[b + 1] - N[b]) * spxSubbandBins \in Nat
                /\ (N[b + 1] - N[b]) * spxSubbandBins >= spxSubbandBins
  <2>. DEFINE d == N[b + 1] - N[b]
  <2>1. d \in Nat /\ d >= 1
    <3>1. b \in 1 .. C + 1 /\ b + 1 \in 1 .. C + 1
      BY <1>4
    <3>. QED
      BY <1>9, <1>11, <3>1
  <2>. HIDE DEF d
  <2>2. d * spxSubbandBins \in Nat
    BY <1>0, <2>1
  <2>3. d * spxSubbandBins >= spxSubbandBins
    BY <1>0, <2>1
  <2>. QED
    BY <2>2, <2>3 DEF d
<1>14. W \in Seq(Nat) /\ Len(W) = C /\ \A b \in 1 .. C : W[b] >= spxSubbandBins
  <2>1. W \in [1 .. C -> Nat]
    BY <1>12, <1>13
  <2>. QED
    BY <1>4, <1>12, <1>13, <2>1
<1>15. Upto(W, C) = (end - first) * spxSubbandBins
  <2>. DEFINE X == {b \in 0 .. C : Upto(W, b) = (N[b + 1] - first) * spxSubbandBins}
  <2>1. 0 \in X
    <3>1. 0 \in 0 .. C /\ Upto(W, 0) = 0
      BY <1>4, <1>14, UptoNone
    <3>2. N[0 + 1] - first = 0
      BY <1>10
    <3>. QED
      BY <1>0, <3>1, <3>2
  <2>2. ASSUME NEW b \in 1 .. C, b - 1 \in X PROVE b \in X
    <3>1. b - 1 \in Nat /\ b - 1 < C /\ (b - 1) + 1 = b /\ b \in 0 .. C
      BY <1>4
    <3>2. Upto(W, b) = Upto(W, b - 1) + W[b]
      BY <1>14, <3>1, UptoNext
    <3>3. W[b] = (N[b + 1] - N[b]) * spxSubbandBins
      BY <1>12
    <3>4. Upto(W, b - 1) = (N[b] - first) * spxSubbandBins
      BY <2>2, <3>1
    <3>5. N[b] \in Nat /\ N[b + 1] \in Nat
      <4>1. b \in 1 .. C + 1 /\ b + 1 \in 1 .. C + 1
        BY <1>4
      <4>. QED
        BY <1>9, <4>1
    <3>6. (N[b] - first) * spxSubbandBins + (N[b + 1] - N[b]) * spxSubbandBins
            = ((N[b] - first) + (N[b + 1] - N[b])) * spxSubbandBins
      <4>1. N[b] - first \in Int /\ N[b + 1] - N[b] \in Int /\ spxSubbandBins \in Int
        BY <1>0, <3>5
      <4>. HIDE DEF N
      <4>. QED
        BY <4>1, Distribute
    <3>7. (N[b] - first) + (N[b + 1] - N[b]) = N[b + 1] - first
      BY <3>5
    <3>. QED
      BY <3>1, <3>2, <3>3, <3>4, <3>6, <3>7
  <2>. HIDE DEF X
  <2>3. \A b \in 0 .. C : b \in X
    BY <1>4, <2>1, <2>2, InductTo
  <2>4. C \in X
    BY <1>4, <2>3
  <2>. QED
    BY <1>8, <2>4 DEF X
<1>. QED
  BY <1>4, <1>14, <1>15 DEF Divides, W, C

-----------------------------------------------------------------------------
(* The copy while it is mapped.                                            *)

Mapping == xstate \in {"band", "copy", "mapped"}
Behind == IF xstate = "copy" THEN copied ELSE 0       \* of the band at hand
Begun == IF xstate = "copy" THEN bnd + 1 ELSE bnd     \* how many bands are

(* Where sections begin, the one that is not closed yet among them.        *)
StartsOf(sizes, n) == {Upto(sizes, k) : k \in 0 .. n}
Starts == StartsOf(spxCopySize, IF xstate = "mapped" THEN Len(spxCopySize) - 1
                                                     ELSE Len(spxCopySize))

SpxTyped ==
  /\ xstate \in {"idle", "refused", "band", "copy", "mapped"}
  /\ spxdststrtmant \in Nat /\ spxstrtmant \in Nat /\ spxendmant \in Nat
  /\ spxbndsz \in Seq(Nat) /\ spxCopySize \in Seq(Nat) /\ spxwrap \in SUBSET Nat
  /\ bnd \in 0 .. Len(spxbndsz) /\ copied \in Nat /\ at \in Nat

NothingMapped ==
  ~Mapping => /\ spxbndsz = <<>> /\ spxCopySize = <<>> /\ spxwrap = {}
              /\ bnd = 0 /\ copied = 0 /\ at = 0

StrategyFits ==
  Mapping =>
    /\ src >= spxSubbandBins
    /\ spxendmant <= BinOf(spxMaxBands)
    /\ \E n \in 0 .. spxMaxBands :
         Divides(spxbndsz, n) /\ spxendmant - spxstrtmant = n * spxSubbandBins

(* The sections and the bands reach the same bin, and a band the source is *)
(* long enough for fits in what is left of it.                             *)
CopyInStep ==
  Mapping =>
    /\ \A m \in 1 .. Len(spxCopySize) : spxCopySize[m] <= src
    /\ xstate # "mapped" =>
         /\ at <= src
         /\ Upto(spxCopySize, Len(spxCopySize)) + at = BandStart(bnd) + Behind
    /\ xstate = "band" /\ bnd > 0 => at > 0
    /\ xstate = "copy" =>
         /\ bnd < Len(spxbndsz) /\ copied <= spxbndsz[bnd + 1]
         /\ copied = 0 => at < src
         /\ copied > 0 => at > 0
         /\ spxbndsz[bnd + 1] <= src => at + (spxbndsz[bnd + 1] - copied) <= src
    /\ xstate = "mapped" =>
         /\ bnd = Len(spxbndsz) /\ Len(spxCopySize) > 0
         /\ Upto(spxCopySize, Len(spxCopySize)) = BandStart(bnd)

(* A section is closed where a band began, or is as long as the source.    *)
SectionsAreFew ==
  Mapping =>
    Len(spxCopySize) * spxSubbandBins
      <= (IF xstate = "mapped" THEN bnd + 1 ELSE Begun) * spxSubbandBins
           + Upto(spxCopySize, Len(spxCopySize))

(* Of the bands begun.                                                     *)
WrapsAreStarts ==
  Mapping =>
    /\ spxwrap \subseteq 0 .. Begun - 1
    /\ \A b \in 0 .. Begun - 1 :
         /\ b \in spxwrap <=> BandStart(b) \in Starts
         /\ spxbndsz[b + 1] <= src =>
              Starts \intersect (BandStart(b) + 1 .. BandStart(b + 1) - 1) = {}

SpxInv ==
  /\ SpxTyped
  /\ NothingMapped
  /\ StrategyFits
  /\ CopyInStep
  /\ SectionsAreFew
  /\ WrapsAreStarts

-----------------------------------------------------------------------------
(* What a closed section adds to the starts.                               *)
LEMMA StartsFacts ==
  ASSUME NEW w \in Seq(Nat), NEW x \in Nat
  PROVE  /\ StartsOf(Append(w, x), Len(w)) = StartsOf(w, Len(w))
         /\ StartsOf(Append(w, x), Len(w) + 1)
              = StartsOf(w, Len(w)) \union {Upto(w, Len(w)) + x}
         /\ \A s \in StartsOf(w, Len(w)) : s \in Nat /\ s <= Upto(w, Len(w))
         /\ Upto(w, Len(w)) \in StartsOf(w, Len(w))
<1>. DEFINE y == Append(w, x)
<1>1. /\ \A k \in 0 .. Len(w) : Upto(y, k) = Upto(w, k)
      /\ Upto(y, Len(w) + 1) = Upto(w, Len(w)) + x
  BY UptoAppend
<1>. HIDE DEF y
<1>2. StartsOf(y, Len(w)) = StartsOf(w, Len(w))
  BY <1>1 DEF StartsOf
<1>3. \A k : k \in 0 .. Len(w) + 1 <=> k \in 0 .. Len(w) \/ k = Len(w) + 1
  <2>1. Len(w) \in Nat
    OBVIOUS
  <2>. QED
    BY <2>1
<1>4. \A s : s \in StartsOf(y, Len(w) + 1)
        <=> s \in StartsOf(y, Len(w)) \/ s = Upto(y, Len(w) + 1)
  BY <1>3 DEF StartsOf
<1>5. ASSUME NEW k \in 0 .. Len(w)
      PROVE  Upto(w, k) \in Nat /\ Upto(w, k) <= Upto(w, Len(w))
  <2>1. Len(w) \in 0 .. Len(w) /\ k \in 0 .. Len(w)
    OBVIOUS
  <2>. QED
    BY <2>1, UptoTyped, UptoGrows
<1>6. Upto(w, Len(w)) \in StartsOf(w, Len(w))
  <2>1. Len(w) \in 0 .. Len(w)
    OBVIOUS
  <2>. QED
    BY <2>1 DEF StartsOf
<1>7. \A s \in StartsOf(w, Len(w)) : s \in Nat /\ s <= Upto(w, Len(w))
  BY <1>5 DEF StartsOf
<1>. QED
  BY <1>1, <1>2, <1>4, <1>6, <1>7 DEF y

(* The bands of an extension begin one behind the other.                   *)
LEMMA BandsInOrder ==
  ASSUME SpxTyped, StrategyFits, Mapping
  PROVE  /\ Len(spxbndsz) \in Nat /\ src \in Nat
         /\ spxSubbandBins \in Nat /\ spxSubbandBins > 0
         /\ BandStart(0) = 0
         /\ \A b \in 0 .. Len(spxbndsz) : BandStart(b) \in Nat
         /\ \A b \in 0 .. Len(spxbndsz) - 1 :
              /\ spxbndsz[b + 1] \in Nat /\ spxbndsz[b + 1] >= spxSubbandBins
              /\ BandStart(b + 1) = BandStart(b) + spxbndsz[b + 1]
         /\ \A b, c \in 0 .. Len(spxbndsz) : b < c => BandStart(b + 1) <= BandStart(c)
                                                       /\ BandStart(b) < BandStart(c)
<1>. USE DEF BandStart
<1>1. Len(spxbndsz) \in Nat /\ spxbndsz \in Seq(Nat)
  BY DEF SpxTyped
<1>2. spxSubbandBins \in Nat /\ spxSubbandBins > 0
  BY CodesAssumption
<1>3. src \in Nat
  BY <1>2 DEF SpxTyped, StrategyFits, src
<1>4. \A b \in 0 .. Len(spxbndsz) : Upto(spxbndsz, b) \in Nat
  BY <1>1, UptoTyped
<1>5. ASSUME NEW b \in 0 .. Len(spxbndsz) - 1
      PROVE  /\ spxbndsz[b + 1] \in Nat /\ spxbndsz[b + 1] >= spxSubbandBins
             /\ Upto(spxbndsz, b + 1) = Upto(spxbndsz, b) + spxbndsz[b + 1]
  <2>1. b \in Nat /\ b < Len(spxbndsz) /\ b + 1 \in 1 .. Len(spxbndsz)
    BY <1>1
  <2>. QED
    BY <1>1, <2>1, UptoNext DEF StrategyFits, Divides
<1>6. ASSUME NEW b \in 0 .. Len(spxbndsz), NEW c \in 0 .. Len(spxbndsz), b < c
      PROVE  Upto(spxbndsz, b + 1) <= Upto(spxbndsz, c) /\ Upto(spxbndsz, b) < Upto(spxbndsz, c)
  <2>1. b \in 0 .. Len(spxbndsz) - 1 /\ b + 1 \in 0 .. c /\ b + 1 \in 0 .. Len(spxbndsz)
    BY <1>1, <1>6
  <2>2. Upto(spxbndsz, b + 1) <= Upto(spxbndsz, c)
    BY <1>1, <2>1, UptoGrows
  <2>3. Upto(spxbndsz, b) < Upto(spxbndsz, b + 1)
    BY <1>2, <1>4, <1>5, <2>1
  <2>. QED
    BY <1>4, <2>1, <2>2, <2>3
<1>. QED
  BY <1>1, <1>2, <1>3, <1>4, <1>5, <1>6, UptoNone

LEMMA MinOfTwo ==
  ASSUME NEW a \in Int, NEW b \in Int
  PROVE  Min({a, b}) = IF a <= b THEN a ELSE b
<1>. DEFINE m == IF a <= b THEN a ELSE b
<1>1. m \in {a, b} /\ \A t \in {a, b} : m <= t
  OBVIOUS
<1>2. {a, b} \in SUBSET Int
  OBVIOUS
<1>. HIDE DEF m
<1>3. Min({a, b}) = m
  BY <1>1, <1>2, MinIs
<1>. QED
  BY <1>3 DEF m

LEMMA OneMore ==
  ASSUME NEW x \in Int, NEW b \in Int
  PROVE  (x + 1) * b = x * b + b /\ x * b \in Int
OBVIOUS

LEMMA StrategyStays ==
  ASSUME UNCHANGED spxStrategy
  PROVE  /\ spxbndsz' = spxbndsz /\ src' = src
         /\ \A b : BandStart(b)' = BandStart(b)
         /\ Mapping /\ StrategyFits => StrategyFits'
BY DEF spxStrategy, src, BandStart, StrategyFits, Divides

LEMMA SpxInitHolds == ASSUME SpxInit PROVE SpxInv
<1>1. spxbndsz \in Seq(Nat) /\ spxCopySize \in Seq(Nat) /\ Len(spxbndsz) = 0
  BY DEF SpxInit
<1>2. SpxTyped
  BY <1>1 DEF SpxInit, SpxTyped
<1>. QED
  BY <1>2 DEF SpxInit, SpxInv, NothingMapped, Mapping, StrategyFits, CopyInStep,
     SectionsAreFew, WrapsAreStarts

LEMMA NextStrategyKeeps == ASSUME SpxInv, NextStrategy PROVE SpxInv'
<1>1. spxbndsz' \in Seq(Nat) /\ spxCopySize' \in Seq(Nat) /\ Len(spxbndsz') = 0
  BY DEF NextStrategy
<1>2. SpxTyped'
  BY <1>1 DEF NextStrategy, SpxTyped
<1>. QED
  BY <1>2 DEF NextStrategy, SpxInv, NothingMapped, Mapping, StrategyFits, CopyInStep,
     SectionsAreFew, WrapsAreStarts

LEMMA ReadSpxStrategyKeeps == ASSUME SpxInv, ReadSpxStrategy PROVE SpxInv'
<1>1. PICK s \in StartCodes, b \in BeginCodes, e \in EndCodes :
        LET begin == BeginSubbnd(b)  end == EndSubbnd(e)
        IN /\ spxdststrtmant' = BinOf(s)
           /\ spxstrtmant' = BinOf(begin) /\ spxendmant' = BinOf(end)
           /\ IF RefusedRange(s, begin, end)
              THEN xstate' = "refused" /\ UNCHANGED spxbndsz
              ELSE /\ xstate' = "band"
                   /\ \E joined \in SUBSET (begin + 1 .. end - 1) :
                        spxbndsz' = BandsOf(joined, begin, end)
  BY DEF ReadSpxStrategy
<1>. DEFINE begin == BeginSubbnd(b)  end == EndSubbnd(e)  B == spxSubbandBins
<1>2. /\ s \in Nat /\ begin \in Nat \ {0} /\ end \in Nat /\ end <= spxMaxBands
      /\ B \in Nat /\ B > 0 /\ spxBandBase \in Nat /\ spxMaxBands \in Nat
  BY CodesAssumption DEF BeginSubbnd, EndSubbnd
<1>3. /\ xstate = "idle" /\ spxbndsz = <<>> /\ spxCopySize = <<>> /\ spxwrap = {}
      /\ bnd = 0 /\ copied = 0 /\ at = 0
      /\ UNCHANGED <<bnd, copied, at, spxCopySize, spxwrap>>
  BY DEF ReadSpxStrategy, SpxInv, NothingMapped, Mapping
<1>4. /\ spxdststrtmant' = BinOf(s) /\ spxstrtmant' = BinOf(begin) /\ spxendmant' = BinOf(end)
  BY <1>1
<1>5. /\ RefusedRange(s, begin, end) => xstate' = "refused" /\ UNCHANGED spxbndsz
      /\ ~RefusedRange(s, begin, end) =>
           xstate' = "band" /\ \E joined : spxbndsz' = BandsOf(joined, begin, end)
  BY <1>1
<1>. HIDE DEF begin, end, B
<1>6. \A x \in Nat : BinOf(x) \in Nat
  BY <1>2 DEF BinOf, B
<1>7. spxCopySize' \in Seq(Nat) /\ spxwrap' \in SUBSET Nat
  BY <1>3
<1>8. CASE RefusedRange(s, begin, end)
  <2>1. Len(spxbndsz') = 0 /\ spxbndsz' \in Seq(Nat)
    BY <1>3, <1>5, <1>8
  <2>2. SpxTyped'
    BY <1>2, <1>3, <1>4, <1>5, <1>6, <1>7, <1>8, <2>1 DEF SpxTyped
  <2>. QED
    BY <1>3, <1>5, <1>8, <2>2 DEF SpxInv, NothingMapped, Mapping, StrategyFits, CopyInStep,
     SectionsAreFew, WrapsAreStarts
<1>9. CASE ~RefusedRange(s, begin, end)
  <2>1. begin < end /\ s < begin
    BY <1>2, <1>9 DEF RefusedRange
  <2>2. PICK joined : spxbndsz' = BandsOf(joined, begin, end)
    BY <1>5, <1>9
  <2>3. spxbndsz' \in Seq(Nat) /\ Divides(spxbndsz', end - begin)
    BY <1>2, <2>1, <2>2, BandsDivide
  <2>4. Len(spxbndsz') \in Nat
    BY <2>3
  <2>5. SpxTyped'
    BY <1>2, <1>3, <1>4, <1>5, <1>6, <1>7, <1>9, <2>3, <2>4 DEF SpxTyped
  <2>6. /\ BinOf(begin) - BinOf(s) >= B
        /\ BinOf(end) <= BinOf(spxMaxBands)
        /\ BinOf(end) - BinOf(begin) = (end - begin) * B
    <3>1. \A x, y \in Nat : BinOf(y) - BinOf(x) = (y - x) * B
      <4>. TAKE x \in Nat, y \in Nat
      <4>1. y - x \in Int /\ x \in Int /\ B \in Int
        BY <1>2
      <4>2. (y - x) * B + x * B = ((y - x) + x) * B
        BY <4>1, Distribute
      <4>3. (y - x) + x = y
        OBVIOUS
      <4>4. (y - x) * B \in Int /\ x * B \in Int /\ y * B \in Int
        BY <1>2, <4>1
      <4>. QED
        BY <1>2, <4>2, <4>3, <4>4 DEF BinOf, B
    <3>2. \A d \in Nat : d * B \in Nat /\ (d > 0 => d * B >= B)
      BY <1>2
    <3>3. BinOf(begin) - BinOf(s) = (begin - s) * B /\ begin - s \in Nat /\ begin - s > 0
      BY <1>2, <2>1, <3>1
    <3>4. BinOf(spxMaxBands) - BinOf(end) = (spxMaxBands - end) * B
            /\ spxMaxBands - end \in Nat
      BY <1>2, <3>1
    <3>5. BinOf(spxMaxBands) \in Nat /\ BinOf(end) \in Nat
            /\ BinOf(begin) - BinOf(s) >= B
            /\ BinOf(spxMaxBands) - BinOf(end) \in Nat
      BY <1>2, <1>6, <3>2, <3>3, <3>4
    <3>6. BinOf(end) - BinOf(begin) = (end - begin) * B
      BY <1>2, <3>1
    <3>. QED
      BY <3>5, <3>6
  <2>7. StrategyFits'
    <3>1. end - begin \in 0 .. spxMaxBands
      BY <1>2, <2>1
    <3>2. src' = BinOf(begin) - BinOf(s) /\ spxendmant' - spxstrtmant' = (end - begin) * B
      BY <1>4, <2>6 DEF src
    <3>. QED
      BY <1>4, <2>3, <2>6, <3>1, <3>2 DEF StrategyFits, B, BinOf
  <2>8. src' \in Nat
    BY <1>2, <1>4, <1>6, <2>6 DEF src
  <2>9. BandStart(bnd)' = 0 /\ Upto(spxCopySize, Len(spxCopySize))' = 0
    BY <1>3, <1>7, <2>3, UptoNone DEF BandStart
  <2>10. CopyInStep'
    BY <1>3, <1>5, <1>9, <2>8, <2>9 DEF CopyInStep, Behind
  <2>11. SectionsAreFew'
    BY <1>2, <1>3, <1>5, <1>9, <2>9 DEF SectionsAreFew, Begun, B
  <2>12. WrapsAreStarts'
    BY <1>3, <1>5, <1>9 DEF WrapsAreStarts, Begun
  <2>. QED
    BY <1>5, <1>9, <2>5, <2>7, <2>10, <2>11, <2>12 DEF SpxInv, NothingMapped, Mapping
<1>. QED
  BY <1>8, <1>9

(* Sections may begin at the band at hand, or inside it where it is longer *)
(* than the source; those of the bands before it stay where they were.     *)
LEMMA StartsAdded ==
  ASSUME SpxTyped, StrategyFits, Mapping, NEW c \in 0 .. Len(spxbndsz),
         NEW T, NEW x, x \in Nat, x >= BandStart(c),
         NEW b \in 0 .. c - 1
  PROVE  /\ BandStart(b) \in T \union {x} <=> BandStart(b) \in T
         /\ (T \union {x}) \intersect (BandStart(b) + 1 .. BandStart(b + 1) - 1)
              = T \intersect (BandStart(b) + 1 .. BandStart(b + 1) - 1)
<1>1. /\ b \in 0 .. Len(spxbndsz) /\ b + 1 \in 0 .. Len(spxbndsz) /\ b < c
  BY BandsInOrder
<1>2. /\ BandStart(b) \in Nat /\ BandStart(b + 1) \in Nat /\ BandStart(c) \in Nat
      /\ BandStart(b + 1) <= BandStart(c) /\ BandStart(b) < BandStart(c)
  BY <1>1, BandsInOrder
<1>3. x # BandStart(b) /\ x \notin BandStart(b) + 1 .. BandStart(b + 1) - 1
  BY <1>2
<1>. QED
  BY <1>3

LEMMA EndBandKeeps == ASSUME SpxInv, EndBand PROVE SpxInv'
<1>. USE DEF SpxInv, EndBand
<1>1. Mapping /\ Mapping'
  BY DEF Mapping
<1>2. /\ UNCHANGED spxStrategy
      /\ UNCHANGED <<spxCopySize, spxwrap, at>> /\ xstate = "copy" /\ xstate' = "band"
      /\ bnd' = bnd + 1 /\ copied = spxbndsz[bnd + 1]
  OBVIOUS
<1>3. /\ bnd \in Nat /\ bnd < Len(spxbndsz) /\ bnd \in 0 .. Len(spxbndsz) - 1
      /\ copied > 0 => at > 0
      /\ at <= src /\ Upto(spxCopySize, Len(spxCopySize)) + at = BandStart(bnd) + copied
  BY <1>1, <1>2 DEF SpxTyped, CopyInStep, Behind
<1>4. BandStart(bnd + 1) = BandStart(bnd) + copied /\ copied > 0
  BY <1>1, <1>2, <1>3, BandsInOrder
<1>5. SpxTyped'
  BY <1>3 DEF SpxTyped, spxStrategy
<1>6. CopyInStep'
  <2>1. BandStart(bnd)' = BandStart(bnd + 1)
    BY <1>2, StrategyStays DEF BandStart
  <2>2. BandStart(bnd + 1) + 0 = BandStart(bnd) + copied
    BY <1>1, <1>2, <1>3, <1>4, BandsInOrder
  <2>. QED
    BY <1>1, <1>2, <1>3, <1>4, <2>1, <2>2, StrategyStays DEF CopyInStep, Behind
<1>7. SectionsAreFew'
  BY <1>1, <1>2 DEF SectionsAreFew, Begun
<1>8. WrapsAreStarts'
  <2>1. Starts' = Starts /\ Begun' = Begun
    BY <1>2 DEF Starts, StartsOf, Begun
  <2>. QED
    BY <1>1, <1>2, <2>1, StrategyStays DEF WrapsAreStarts
<1>9. StrategyFits' /\ NothingMapped'
  BY <1>1, <1>2, StrategyStays DEF NothingMapped
<1>. QED
  BY <1>5, <1>6, <1>7, <1>8, <1>9

LEMMA LastSectionKeeps == ASSUME SpxInv, LastSection PROVE SpxInv'
<1>. USE DEF SpxInv, LastSection, EndSection
<1>. DEFINE w == spxCopySize  n == Len(spxCopySize)  U == Upto(w, n)  B == spxSubbandBins
<1>1. Mapping /\ Mapping'
  BY DEF Mapping
<1>2. /\ UNCHANGED spxStrategy
      /\ UNCHANGED <<bnd, copied, at, spxwrap>> /\ xstate = "band" /\ xstate' = "mapped"
      /\ bnd = Len(spxbndsz) /\ spxCopySize' = Append(w, at)
  OBVIOUS
<1>3. /\ w \in Seq(Nat) /\ at \in Nat /\ n \in Nat /\ bnd \in Nat
      /\ at <= src /\ U + at = BandStart(bnd)
  <2>1. bnd \in 0 .. Len(spxbndsz)
    BY DEF SpxTyped
  <2>2. BandStart(bnd) \in Nat
    BY <1>1, <2>1, BandsInOrder
  <2>3. w \in Seq(Nat) /\ n \in 0 .. n
    BY DEF SpxTyped
  <2>4. U \in Nat
    BY <2>3, UptoTyped
  <2>. QED
    BY <1>1, <1>2, <2>1, <2>2, <2>3, <2>4 DEF SpxTyped, CopyInStep, Behind
<1>10. w = spxCopySize /\ n = Len(w) /\ U = Upto(w, Len(w))
  OBVIOUS
<1>. HIDE DEF w, n, U, B
<1>4. /\ spxCopySize' \in Seq(Nat) /\ Len(spxCopySize') = n + 1
      /\ Upto(spxCopySize, Len(spxCopySize))' = U + at
  BY <1>2, <1>3, <1>10, UptoAppend
<1>5. SpxTyped'
  BY <1>2, <1>4 DEF SpxTyped, spxStrategy
<1>6. CopyInStep'
  <2>1. \A m \in 1 .. n : w[m] <= src
    BY <1>1 DEF CopyInStep, w, n
  <2>2. \A m \in 1 .. n + 1 : Append(w, at)[m] <= src
    BY <1>3, <1>10, <2>1
  <2>. QED
    BY <1>1, <1>2, <1>3, <1>4, <2>2, StrategyStays DEF CopyInStep
<1>7. SectionsAreFew'
  <2>1. n * B <= bnd * B + U
    BY <1>1, <1>2 DEF SectionsAreFew, Begun, n, U, w, B
  <2>2. B \in Nat /\ U \in Nat
    <3>1. n \in 0 .. Len(w)
      BY <1>3 DEF n, w
    <3>. QED
      BY <1>3, <3>1, CodesAssumption, UptoTyped DEF B, U
  <2>3. (n + 1) * B = n * B + B /\ (bnd + 1) * B = bnd * B + B
          /\ n * B \in Int /\ bnd * B \in Int
    BY <1>3, <2>2, OneMore
  <2>4. (n + 1) * B <= (bnd + 1) * B + (U + at)
    BY <1>3, <2>1, <2>2, <2>3
  <2>. QED
    BY <1>2, <1>4, <2>4 DEF SectionsAreFew, B
<1>8. WrapsAreStarts'
  <2>1. Starts' = Starts
    <3>1. Starts' = StartsOf(Append(w, at), n)
      <4>1. Starts' = StartsOf(spxCopySize', Len(spxCopySize') - 1)
        BY <1>2 DEF Starts, StartsOf
      <4>2. (n + 1) - 1 = n
        BY <1>3
      <4>. QED
        BY <1>2, <1>4, <4>1, <4>2
    <3>2. Starts = StartsOf(w, n)
      BY <1>2 DEF Starts, w, n
    <3>. QED
      BY <1>3, <1>10, <3>1, <3>2, StartsFacts
  <2>2. Begun' = Begun
    BY <1>2 DEF Begun
  <2>. QED
    BY <1>1, <1>2, <2>1, <2>2, StrategyStays DEF WrapsAreStarts
<1>9. StrategyFits' /\ NothingMapped'
  BY <1>1, <1>2, StrategyStays DEF NothingMapped
<1>. QED
  BY <1>5, <1>6, <1>7, <1>8, <1>9

(* The starts there are do not lie behind what has been copied.            *)
LEMMA StartsBehind ==
  ASSUME SpxTyped, xstate # "mapped"
  PROVE  /\ spxCopySize \in Seq(Nat) /\ Len(spxCopySize) \in Nat
         /\ Upto(spxCopySize, Len(spxCopySize)) \in Nat
         /\ Starts = StartsOf(spxCopySize, Len(spxCopySize))
         /\ Upto(spxCopySize, Len(spxCopySize)) \in Starts
         /\ \A s \in Starts : s \in Nat /\ s <= Upto(spxCopySize, Len(spxCopySize))
<1>1. spxCopySize \in Seq(Nat) /\ Len(spxCopySize) \in 0 .. Len(spxCopySize)
        /\ Len(spxCopySize) \in Nat
  BY DEF SpxTyped
<1>2. Upto(spxCopySize, Len(spxCopySize)) \in Nat
  BY <1>1, UptoTyped
<1>3. Starts = StartsOf(spxCopySize, Len(spxCopySize))
  BY DEF Starts
<1>. QED
  BY <1>1, <1>2, <1>3, StartsFacts

(* Closing a section at x takes up the source anew, x further on.          *)
LEMMA SectionEnds ==
  ASSUME SpxTyped, xstate # "mapped", xstate' # "mapped", EndSection
  PROVE  /\ spxCopySize' \in Seq(Nat) /\ Len(spxCopySize') = Len(spxCopySize) + 1
         /\ Upto(spxCopySize, Len(spxCopySize))' = Upto(spxCopySize, Len(spxCopySize)) + at
         /\ Starts' = Starts \union {Upto(spxCopySize, Len(spxCopySize)) + at}
         /\ (\A m \in 1 .. Len(spxCopySize) : spxCopySize[m] <= src) /\ at <= src
              => \A m \in 1 .. Len(spxCopySize') : spxCopySize'[m] <= src
<1>1. /\ spxCopySize \in Seq(Nat) /\ at \in Nat /\ spxCopySize' = Append(spxCopySize, at)
  BY DEF SpxTyped, EndSection
<1>2. /\ spxCopySize' \in Seq(Nat) /\ Len(spxCopySize') = Len(spxCopySize) + 1
      /\ Upto(spxCopySize, Len(spxCopySize))' = Upto(spxCopySize, Len(spxCopySize)) + at
  BY <1>1, UptoAppend
<1>3. Starts' = Starts \union {Upto(spxCopySize, Len(spxCopySize)) + at}
  <2>1. Starts' = StartsOf(spxCopySize', Len(spxCopySize'))
    BY DEF Starts, StartsOf
  <2>. QED
    BY <1>1, <1>2, <2>1, StartsBehind, StartsFacts
<1>4. ASSUME \A m \in 1 .. Len(spxCopySize) : spxCopySize[m] <= src, at <= src
      PROVE  \A m \in 1 .. Len(spxCopySize') : spxCopySize'[m] <= src
  BY <1>1, <1>4
<1>. QED
  BY <1>2, <1>3, <1>4

LEMMA StartBandKeeps == ASSUME SpxInv, StartBand PROVE SpxInv'
<1>. USE DEF SpxInv, StartBand
<1>. DEFINE n == Len(spxCopySize)  U == Upto(spxCopySize, n)  B == spxSubbandBins
            size == spxbndsz[bnd + 1]
<1>1. Mapping /\ Mapping'
  BY DEF Mapping
<1>2. /\ UNCHANGED spxStrategy /\ UNCHANGED bnd /\ copied' = 0
      /\ xstate = "band" /\ xstate' = "copy"
  OBVIOUS
<1>3. /\ bnd \in Nat /\ bnd < Len(spxbndsz) /\ bnd \in 0 .. Len(spxbndsz) - 1
      /\ bnd \in 0 .. Len(spxbndsz) /\ at \in Nat /\ copied \in Nat
      /\ at <= src /\ U + at = BandStart(bnd) + 0
      /\ bnd > 0 => at > 0
      /\ \A m \in 1 .. n : spxCopySize[m] <= src
      /\ n * B <= bnd * B + U
      /\ spxwrap \subseteq 0 .. bnd - 1
      /\ \A b \in 0 .. bnd - 1 :
           /\ b \in spxwrap <=> BandStart(b) \in Starts
           /\ spxbndsz[b + 1] <= src =>
                Starts \intersect (BandStart(b) + 1 .. BandStart(b + 1) - 1) = {}
  BY <1>1, <1>2 DEF SpxTyped, CopyInStep, Behind, SectionsAreFew, Begun, WrapsAreStarts
<1>4. /\ size \in Nat /\ size >= B /\ B \in Nat /\ B > 0 /\ src \in Nat /\ src >= B
      /\ BandStart(bnd) \in Nat /\ BandStart(0) = 0
      /\ BandStart(bnd + 1) = BandStart(bnd) + size
  BY <1>1, <1>3, BandsInOrder DEF StrategyFits
<1>5. /\ U \in Nat /\ n \in Nat /\ U \in Starts
      /\ \A s \in Starts : s \in Nat /\ s <= U
  BY <1>2, StartsBehind
<1>6. StrategyFits' /\ NothingMapped' /\ Begun' = bnd + 1 /\ Behind' = 0
  BY <1>1, <1>2, StrategyStays DEF NothingMapped, Begun, Behind
<1>7. (n + 1) * B = n * B + B /\ (bnd + 1) * B = bnd * B + B
        /\ n * B \in Int /\ bnd * B \in Int
  BY <1>3, <1>4, <1>5, OneMore
<1>8. \A b \in 0 .. bnd : b \in 0 .. bnd - 1 \/ b = bnd
  BY <1>3
<1>9. CASE RunsOver(size)
  <2>1. EndSection /\ at' = 0 /\ spxwrap' = spxwrap \union {bnd}
    BY <1>9
  <2>2. /\ spxCopySize' \in Seq(Nat) /\ Len(spxCopySize') = n + 1
        /\ Upto(spxCopySize, Len(spxCopySize))' = U + at
        /\ Starts' = Starts \union {BandStart(bnd)}
        /\ \A m \in 1 .. Len(spxCopySize') : spxCopySize'[m] <= src
    <3>1. U + at = BandStart(bnd)
      BY <1>3, <1>4
    <3>. QED
      BY <1>2, <1>3, <2>1, <3>1, SectionEnds
  <2>3. SpxTyped'
    BY <1>2, <1>3, <2>1, <2>2 DEF SpxTyped, spxStrategy
  <2>4. CopyInStep'
    BY <1>1, <1>2, <1>3, <1>4, <1>5, <1>6, <2>1, <2>2, StrategyStays DEF CopyInStep
  <2>5. SectionsAreFew'
    <3>1. (n + 1) * B <= (bnd + 1) * B + (U + at)
      BY <1>3, <1>4, <1>5, <1>7
    <3>. QED
      BY <1>2, <1>6, <2>2, <3>1 DEF SectionsAreFew
  <2>6. WrapsAreStarts'
    <3>1. spxwrap' \subseteq 0 .. bnd
      BY <1>3, <2>1
    <3>2. ASSUME NEW b \in 0 .. bnd - 1
          PROVE  /\ b \in spxwrap' <=> BandStart(b) \in Starts'
                 /\ spxbndsz[b + 1] <= src =>
                      Starts' \intersect (BandStart(b) + 1 .. BandStart(b + 1) - 1) = {}
      <4>1. b # bnd
        BY <1>3
      <4>2. BandStart(bnd) >= BandStart(bnd)
        BY <1>4
      <4>3. BandStart(bnd) \in Nat /\ bnd \in 0 .. Len(spxbndsz) /\ SpxTyped /\ StrategyFits
        BY <1>3, <1>4
      <4>4. /\ BandStart(b) \in Starts' <=> BandStart(b) \in Starts
            /\ Starts' \intersect (BandStart(b) + 1 .. BandStart(b + 1) - 1)
                 = Starts \intersect (BandStart(b) + 1 .. BandStart(b + 1) - 1)
        BY <1>1, <2>2, <4>2, <4>3, StartsAdded
      <4>5. b \in spxwrap' <=> b \in spxwrap
        BY <2>1, <4>1
      <4>. QED
        BY <1>3, <4>4, <4>5
    <3>3. /\ bnd \in spxwrap' <=> BandStart(bnd) \in Starts'
          /\ Starts' \intersect (BandStart(bnd) + 1 .. BandStart(bnd + 1) - 1) = {}
      <4>1. \A s \in Starts' : s \in Nat /\ s <= BandStart(bnd)
        BY <1>3, <1>4, <1>5, <2>2
      <4>2. \A s \in Starts' : s \notin BandStart(bnd) + 1 .. BandStart(bnd + 1) - 1
        BY <1>4, <4>1
      <4>. QED
        BY <2>1, <2>2, <4>2
    <3>4. \A b \in 0 .. bnd :
            /\ b \in spxwrap' <=> BandStart(b) \in Starts'
            /\ spxbndsz[b + 1] <= src =>
                 Starts' \intersect (BandStart(b) + 1 .. BandStart(b + 1) - 1) = {}
      BY <1>8, <3>2, <3>3
    <3>5. (bnd + 1) - 1 = bnd
      BY <1>3
    <3>. QED
      BY <1>2, <1>6, <3>1, <3>4, <3>5, StrategyStays DEF WrapsAreStarts
  <2>. QED
    BY <1>6, <2>3, <2>4, <2>5, <2>6
<1>10. CASE ~RunsOver(size)
  <2>1. /\ UNCHANGED <<spxCopySize, at>> /\ at + size <= src
        /\ spxwrap' = IF bnd = 0 THEN spxwrap \union {bnd} ELSE spxwrap
    BY <1>3, <1>4, <1>10 DEF RunsOver
  <2>2. Starts' = Starts
    BY <1>2, <2>1 DEF Starts, StartsOf
  <2>3. SpxTyped'
    BY <1>2, <1>3, <2>1 DEF SpxTyped, spxStrategy
  <2>4. CopyInStep'
    BY <1>1, <1>2, <1>3, <1>4, <1>5, <1>6, <2>1, StrategyStays DEF CopyInStep
  <2>5. SectionsAreFew'
    <3>1. n * B <= (bnd + 1) * B + U
      BY <1>3, <1>4, <1>5, <1>7
    <3>. QED
      BY <1>2, <1>6, <2>1, <3>1 DEF SectionsAreFew
  <2>6. WrapsAreStarts'
    <3>1. spxwrap' \subseteq 0 .. bnd
      BY <1>3, <2>1
    <3>2. ASSUME NEW b \in 0 .. bnd - 1
          PROVE  /\ b \in spxwrap' <=> BandStart(b) \in Starts'
                 /\ spxbndsz[b + 1] <= src =>
                      Starts' \intersect (BandStart(b) + 1 .. BandStart(b + 1) - 1) = {}
      <4>1. b # bnd
        BY <1>3
      <4>. QED
        BY <1>3, <2>1, <2>2, <4>1
    <3>3. bnd \in spxwrap' <=> BandStart(bnd) \in Starts'
      <4>1. CASE bnd = 0
        <5>1. U = BandStart(bnd)
          BY <1>3, <1>4, <1>5, <4>1
        <5>. QED
          BY <1>5, <2>1, <2>2, <4>1, <5>1
      <4>2. CASE bnd # 0
        <5>1. bnd \notin spxwrap'
          BY <1>3, <2>1, <4>2
        <5>2. U < BandStart(bnd)
          BY <1>3, <1>4, <1>5, <4>2
        <5>3. BandStart(bnd) \notin Starts
          BY <1>4, <1>5, <5>2
        <5>. QED
          BY <2>2, <5>1, <5>3
      <4>. QED
        BY <4>1, <4>2
    <3>4. Starts' \intersect (BandStart(bnd) + 1 .. BandStart(bnd + 1) - 1) = {}
      <4>1. U <= BandStart(bnd)
        BY <1>3, <1>4, <1>5
      <4>2. \A s \in Starts : s \notin BandStart(bnd) + 1 .. BandStart(bnd + 1) - 1
        BY <1>4, <1>5, <4>1
      <4>. QED
        BY <2>2, <4>2
    <3>5. \A b \in 0 .. bnd :
            /\ b \in spxwrap' <=> BandStart(b) \in Starts'
            /\ spxbndsz[b + 1] <= src =>
                 Starts' \intersect (BandStart(b) + 1 .. BandStart(b + 1) - 1) = {}
      BY <1>8, <3>2, <3>3, <3>4
    <3>6. (bnd + 1) - 1 = bnd
      BY <1>3
    <3>. QED
      BY <1>2, <1>6, <3>1, <3>5, <3>6, StrategyStays DEF WrapsAreStarts
  <2>. QED
    BY <1>6, <2>3, <2>4, <2>5, <2>6
<1>. QED
  BY <1>9, <1>10

LEMMA CopyPartKeeps == ASSUME SpxInv, CopyPart PROVE SpxInv'
<1>. USE DEF SpxInv, CopyPart
<1>. DEFINE n == Len(spxCopySize)  U == Upto(spxCopySize, n)  B == spxSubbandBins
            size == spxbndsz[bnd + 1]  from == IF at = src THEN 0 ELSE at
            part == Min({size - copied, src - from})
<1>1. Mapping /\ Mapping'
  BY DEF Mapping
<1>2. /\ UNCHANGED spxStrategy /\ UNCHANGED <<bnd, spxwrap>>
      /\ xstate = "copy" /\ xstate' = "copy" /\ copied < size
      /\ at' = from + part /\ copied' = copied + part
      /\ IF at = src THEN EndSection ELSE UNCHANGED spxCopySize
  OBVIOUS
<1>. HIDE DEF CopyPart
<1>3. /\ bnd \in Nat /\ bnd < Len(spxbndsz) /\ bnd \in 0 .. Len(spxbndsz) - 1
      /\ bnd \in 0 .. Len(spxbndsz) /\ at \in Nat /\ copied \in Nat
      /\ at <= src /\ U + at = BandStart(bnd) + copied
      /\ copied = 0 => at < src
      /\ size <= src => at + (size - copied) <= src
      /\ \A m \in 1 .. n : spxCopySize[m] <= src
      /\ n * B <= (bnd + 1) * B + U
      /\ spxwrap \subseteq 0 .. bnd
      /\ \A b \in 0 .. bnd :
           /\ b \in spxwrap <=> BandStart(b) \in Starts
           /\ spxbndsz[b + 1] <= src =>
                Starts \intersect (BandStart(b) + 1 .. BandStart(b + 1) - 1) = {}
  <2>1. bnd \in Nat /\ (bnd + 1) - 1 = bnd
    BY DEF SpxTyped
  <2>. QED
    BY <1>1, <1>2, <2>1 DEF SpxTyped, CopyInStep, Behind, SectionsAreFew, Begun, WrapsAreStarts
<1>4. /\ size \in Nat /\ size >= B /\ B \in Nat /\ B > 0 /\ src \in Nat /\ src >= B
      /\ BandStart(bnd) \in Nat /\ BandStart(bnd + 1) = BandStart(bnd) + size
  BY <1>1, <1>3, BandsInOrder DEF StrategyFits
<1>5. /\ U \in Nat /\ n \in Nat /\ U \in Starts
      /\ \A s \in Starts : s \in Nat /\ s <= U
  BY <1>2, StartsBehind
<1>6. /\ part \in Nat /\ part > 0 /\ part <= size - copied /\ from + part <= src
      /\ from \in Nat
  <2>1. from \in Nat /\ from < src
    BY <1>3, <1>4
  <2>2. size - copied \in Int /\ src - from \in Int
    BY <1>3, <1>4, <2>1
  <2>3. part = IF size - copied <= src - from THEN size - copied ELSE src - from
    BY <2>2, MinOfTwo
  <2>. HIDE DEF part, from, size
  <2>. QED
    BY <1>2, <1>3, <1>4, <2>1, <2>3
<1>. HIDE DEF part
<1>20. /\ at \in Int /\ copied \in Int /\ U \in Int /\ part \in Int
       /\ BandStart(bnd) \in Int /\ U + at = BandStart(bnd) + copied
  BY <1>3, <1>4, <1>5, <1>6
<1>7. StrategyFits' /\ NothingMapped' /\ Begun' = bnd + 1 /\ Behind' = copied'
  BY <1>1, <1>2, StrategyStays DEF NothingMapped, Begun, Behind
<1>8. /\ at' \in Nat /\ copied' \in Nat /\ at' > 0 /\ copied' > 0 /\ at' <= src
      /\ copied' <= size
  <2>. HIDE DEF from, size
  <2>. QED
    BY <1>2, <1>3, <1>4, <1>6
<1>9. CASE at = src
  <2>1. EndSection /\ from = 0
    BY <1>2, <1>9
  <2>2. /\ spxCopySize' \in Seq(Nat) /\ Len(spxCopySize') = n + 1
        /\ Upto(spxCopySize, Len(spxCopySize))' = U + at
        /\ Starts' = Starts \union {U + at}
        /\ \A m \in 1 .. Len(spxCopySize') : spxCopySize'[m] <= src
    BY <1>2, <1>3, <2>1, SectionEnds
  <2>3. copied > 0 /\ size > src
    BY <1>2, <1>3, <1>4, <1>9
  <2>4. SpxTyped'
    BY <1>2, <1>3, <1>8, <2>2 DEF SpxTyped, spxStrategy
  <2>5. CopyInStep'
    <3>1. (U + at) + at' = BandStart(bnd) + copied'
      <4>1. at' = part /\ copied' = copied + part
        BY <1>2, <1>20, <2>1
      <4>. HIDE DEF from, size, U
      <4>. QED
        BY <1>20, <4>1
    <3>2. UNCHANGED <<spxbndsz, bnd>> /\ src' = src /\ BandStart(bnd)' = BandStart(bnd)
      BY <1>2, StrategyStays DEF BandStart
    <3>3. ~(size <= src) /\ ~(copied' = 0)
      BY <1>4, <1>8, <2>3
    <3>. QED
      BY <1>1, <1>2, <1>3, <1>7, <1>8, <2>2, <3>1, <3>2, <3>3 DEF CopyInStep
  <2>6. SectionsAreFew'
    <3>1. (n + 1) * B = n * B + B /\ n * B \in Int /\ (bnd + 1) * B \in Int
      <4>1. bnd + 1 \in Int
        BY <1>3
      <4>. QED
        BY <1>4, <1>5, <4>1, OneMore
    <3>2. (n + 1) * B <= (bnd + 1) * B + (U + at)
      BY <1>3, <1>4, <1>5, <1>9, <3>1
    <3>. QED
      BY <1>2, <1>7, <2>2, <3>2 DEF SectionsAreFew
  <2>7. WrapsAreStarts'
    <3>0. U + at \in Nat /\ U + at > BandStart(bnd) /\ U + at >= BandStart(bnd)
      BY <1>3, <1>4, <1>5, <2>3
    <3>1. ASSUME NEW b \in 0 .. bnd - 1
          PROVE  /\ b \in spxwrap' <=> BandStart(b) \in Starts'
                 /\ spxbndsz[b + 1] <= src =>
                      Starts' \intersect (BandStart(b) + 1 .. BandStart(b + 1) - 1) = {}
      <4>1. b \in 0 .. bnd
        BY <1>3
      <4>2. bnd \in 0 .. Len(spxbndsz) /\ SpxTyped /\ StrategyFits
        BY <1>3
      <4>3. /\ BandStart(b) \in Starts' <=> BandStart(b) \in Starts
            /\ Starts' \intersect (BandStart(b) + 1 .. BandStart(b + 1) - 1)
                 = Starts \intersect (BandStart(b) + 1 .. BandStart(b + 1) - 1)
        BY <1>1, <2>2, <3>0, <4>2, StartsAdded
      <4>. QED
        BY <1>2, <1>3, <4>1, <4>3
    <3>2. /\ bnd \in spxwrap' <=> BandStart(bnd) \in Starts'
          /\ ~(size <= src)
      <4>1. BandStart(bnd) \in Starts' <=> BandStart(bnd) \in Starts
        BY <1>4, <2>2, <3>0
      <4>2. bnd \in 0 .. bnd
        BY <1>3
      <4>. QED
        BY <1>2, <1>3, <1>4, <2>3, <4>1, <4>2
    <3>3. \A b \in 0 .. bnd : b \in 0 .. bnd - 1 \/ b = bnd
      BY <1>3
    <3>4. \A b \in 0 .. bnd :
            /\ b \in spxwrap' <=> BandStart(b) \in Starts'
            /\ spxbndsz[b + 1] <= src =>
                 Starts' \intersect (BandStart(b) + 1 .. BandStart(b + 1) - 1) = {}
      BY <3>1, <3>2, <3>3
    <3>5. (bnd + 1) - 1 = bnd
      BY <1>3
    <3>. QED
      BY <1>2, <1>3, <1>7, <3>4, <3>5, StrategyStays DEF WrapsAreStarts
  <2>. QED
    BY <1>7, <2>4, <2>5, <2>6, <2>7
<1>10. CASE at # src
  <2>1. UNCHANGED spxCopySize /\ from = at
    BY <1>2, <1>10
  <2>2. Starts' = Starts
    BY <1>2, <2>1 DEF Starts, StartsOf
  <2>3. SpxTyped'
    BY <1>2, <1>3, <1>8, <2>1 DEF SpxTyped, spxStrategy
  <2>4. CopyInStep'
    <3>0. at' = at + part /\ copied' = copied + part
      BY <1>2, <2>1
    <3>1. U + at' = BandStart(bnd) + copied'
      <4>. HIDE DEF from, size, U
      <4>. QED
        BY <1>20, <3>0
    <3>2. size <= src => at' + (size - copied') <= src
      <4>. HIDE DEF from, size, U
      <4>. QED
        BY <1>3, <1>4, <1>6, <3>0
    <3>. QED
      BY <1>1, <1>2, <1>3, <1>4, <1>7, <1>8, <2>1, <3>1, <3>2, StrategyStays DEF CopyInStep
  <2>5. SectionsAreFew'
    BY <1>2, <1>3, <1>7, <2>1 DEF SectionsAreFew
  <2>6. WrapsAreStarts'
    <3>1. (bnd + 1) - 1 = bnd
      BY <1>3
    <3>. QED
      BY <1>2, <1>3, <1>7, <2>2, <3>1, StrategyStays DEF WrapsAreStarts
  <2>. QED
    BY <1>7, <2>3, <2>4, <2>5, <2>6
<1>. QED
  BY <1>9, <1>10

LEMMA SpxNextKeeps == ASSUME SpxInv, [SpxNext]_spxVars PROVE SpxInv'
<1>1. CASE UNCHANGED spxVars
  <2>1. UNCHANGED spxStrategy /\ Mapping' = Mapping
    BY <1>1 DEF spxVars, spxStrategy, Mapping
  <2>. USE <1>1, <2>1, StrategyStays DEF SpxInv, spxVars
  <2>2. SpxTyped' /\ NothingMapped'
    BY DEF SpxTyped, NothingMapped, spxStrategy
  <2>3. StrategyFits'
    BY DEF StrategyFits
  <2>4. Begun' = Begun /\ Behind' = Behind /\ Starts' = Starts
    BY DEF Begun, Behind, Starts, StartsOf
  <2>5. CopyInStep' /\ SectionsAreFew' /\ WrapsAreStarts'
    BY <2>4 DEF CopyInStep, SectionsAreFew, WrapsAreStarts
  <2>. QED
    BY <2>2, <2>3, <2>5
<1>. QED
  BY <1>1, ReadSpxStrategyKeeps, StartBandKeeps, CopyPartKeeps, EndBandKeeps,
     LastSectionKeeps, NextStrategyKeeps DEF SpxNext

LEMMA SpxInvariant == SpxSpec => []SpxInv
<1>1. SpxInit => SpxInv
  BY SpxInitHolds
<1>2. SpxInv /\ [SpxNext]_spxVars => SpxInv'
  BY SpxNextKeeps
<1>. QED
  BY <1>1, <1>2, PTL DEF SpxSpec

LEMMA Cancel ==
  ASSUME NEW x \in Int, NEW y \in Int, NEW b \in Nat, b > 0, x * b <= y * b
  PROVE  x <= y
<1>. SUFFICES ASSUME x > y PROVE FALSE
  OBVIOUS
<1>1. x - y \in Nat /\ x - y >= 1
  OBVIOUS
<1>2. (x - y) * b >= b
  BY <1>1
<1>3. (x - y) * b + y * b = ((x - y) + y) * b
  OBVIOUS
<1>4. (x - y) + y = x /\ x * b \in Int /\ y * b \in Int /\ (x - y) * b \in Int
  OBVIOUS
<1>. QED
  BY <1>2, <1>3, <1>4

(* The sections that mapSpxCopy makes cover the extension to the bin, for  *)
(* every range and every way to join its sub-bands, and two a band and one *)
(* are enough for them (spx.go:42): one closed where a band would run      *)
(* over, and for the others a whole sub-band of source each.               *)
THEOREM TheCopyIsComplete == SpxSpec => []CopyFillsTheExtension
<1>1. SpxInv => CopyFillsTheExtension
  <2>. SUFFICES ASSUME SpxInv PROVE CopyFillsTheExtension
    OBVIOUS
  <2>. USE DEF SpxInv
  <2>. DEFINE n == Len(spxCopySize)  U == Upto(spxCopySize, n)  B == spxSubbandBins
  <2>1. CASE ~Mapping
    <3>1. spxMaxCopySections \in Nat
      BY CodesAssumption DEF spxMaxCopySections
    <3>2. Len(spxCopySize) = 0 /\ xstate # "mapped"
      BY <2>1 DEF NothingMapped, Mapping
    <3>. QED
      BY <3>1, <3>2 DEF CopyFillsTheExtension
  <2>2. CASE Mapping
    <3>0. n \in Nat /\ n \in 0 .. n /\ spxCopySize \in Seq(Nat) /\ at \in Nat
            /\ bnd \in 0 .. Len(spxbndsz) /\ bnd \in Nat /\ Len(spxbndsz) \in Nat
      BY DEF SpxTyped
    <3>1. U \in Nat /\ B \in Nat /\ B > 0
      BY <3>0, UptoTyped, CodesAssumption
    <3>2. PICK m \in 0 .. spxMaxBands :
            Divides(spxbndsz, m) /\ spxendmant - spxstrtmant = m * B
      BY <2>2 DEF StrategyFits
    <3>3. BandStart(Len(spxbndsz)) = m * B /\ Len(spxbndsz) <= m /\ m \in Nat
            /\ spxMaxBands \in Nat
      BY <3>2, CodesAssumption DEF Divides, BandStart
    <3>4. U <= m * B
      <4>1. Len(spxbndsz) \in 0 .. Len(spxbndsz) /\ m * B \in Int
        BY <3>0, <3>1, <3>3
      <4>2. BandStart(bnd) <= BandStart(Len(spxbndsz))
        BY <3>0, UptoGrows DEF BandStart, SpxTyped
      <4>3. BandStart(bnd) \in Nat
        BY <2>2, <3>0, BandsInOrder
      <4>4. CASE xstate = "mapped"
        BY <2>2, <3>1, <3>3, <4>1, <4>4 DEF CopyInStep
      <4>5. CASE xstate = "band"
        BY <2>2, <3>0, <3>1, <3>3, <4>1, <4>2, <4>3, <4>5 DEF CopyInStep, Behind
      <4>6. CASE xstate = "copy"
        <5>1. /\ bnd < Len(spxbndsz) /\ copied <= spxbndsz[bnd + 1]
              /\ U + at = BandStart(bnd) + copied /\ copied \in Nat
          BY <2>2, <4>6 DEF CopyInStep, Behind, SpxTyped
        <5>2. /\ spxbndsz[bnd + 1] \in Nat
              /\ BandStart(bnd + 1) = BandStart(bnd) + spxbndsz[bnd + 1]
              /\ BandStart(bnd + 1) <= BandStart(Len(spxbndsz))
          <6>1. bnd \in 0 .. Len(spxbndsz) - 1
            BY <3>0, <5>1
          <6>. QED
            BY <2>2, <3>0, <4>1, <5>1, <6>1, BandsInOrder
        <5>. QED
          BY <3>0, <3>1, <3>3, <4>1, <4>3, <5>1, <5>2
      <4>. QED
        BY <2>2, <4>4, <4>5, <4>6 DEF Mapping
    <3>5. n <= 2 * m + 1
      <4>1. PICK k \in 0 .. m + 1 : n * B <= k * B + U
        <5>1. Begun \in 0 .. m + 1 /\ bnd + 1 \in 0 .. m + 1
          BY <3>0, <3>3 DEF Begun
        <5>. QED
          BY <2>2, <5>1 DEF SectionsAreFew
      <4>2. n * B <= k * B + m * B /\ k \in Int /\ m \in Int /\ B \in Int
        <5>1. n * B \in Int /\ k * B \in Int /\ m * B \in Int
          BY <3>0, <3>1, <3>3
        <5>. QED
          BY <3>1, <3>3, <3>4, <4>1, <5>1
      <4>3. k * B + m * B = (k + m) * B
        BY <4>2, Distribute
      <4>4. n <= k + m
        <5>1. n \in Int /\ k + m \in Int /\ n * B <= (k + m) * B
          BY <3>0, <3>3, <4>2, <4>3
        <5>. QED
          BY <3>1, <5>1, Cancel
      <4>. QED
        BY <3>0, <3>3, <4>4
    <3>6. n <= spxMaxCopySections
      BY <3>0, <3>3, <3>5 DEF spxMaxCopySections
    <3>7. \A i \in 1 .. n : spxCopySize[i] <= src
      BY <2>2 DEF CopyInStep
    <3>8. ASSUME xstate = "mapped"
          PROVE  spxendmant <= BinOf(spxMaxBands) /\ U = spxendmant - spxstrtmant
      <4>1. bnd = Len(spxbndsz) /\ U = BandStart(bnd)
        BY <2>2, <3>8 DEF CopyInStep
      <4>. QED
        BY <2>2, <3>2, <3>3, <4>1 DEF StrategyFits
    <3>. QED
      BY <3>6, <3>7, <3>8 DEF CopyFillsTheExtension
  <2>. QED
    BY <2>1, <2>2
<1>. QED
  BY <1>1, SpxInvariant, PTL

(* The notch is where applySpx looks for it: at the bands that begin with  *)
(* a section, and at no other; and no band is cut that need not be.        *)
THEOREM NoBandIsCut == SpxSpec => []BandsAreWhole
<1>1. SpxInv => BandsAreWhole
  <2>. SUFFICES ASSUME SpxInv, xstate = "mapped", NEW b \in 0 .. Len(spxbndsz) - 1
                PROVE  /\ b \in spxwrap <=> BandStart(b) \in Restarts
                       /\ spxbndsz[b + 1] <= src =>
                            Restarts \intersect (BandStart(b) + 1 .. BandStart(b + 1) - 1) = {}
    BY DEF BandsAreWhole
  <2>1. Mapping /\ Starts = Restarts
    BY DEF Mapping, Starts, StartsOf, Restarts
  <2>2. Begun = Len(spxbndsz)
    BY <2>1 DEF Begun, SpxInv, CopyInStep
  <2>. QED
    BY <2>1, <2>2 DEF SpxInv, WrapsAreStarts
<1>. QED
  BY <1>1, SpxInvariant, PTL

=============================================================================
