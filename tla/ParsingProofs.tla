---------------------------- MODULE ParsingProofs ---------------------------
(***************************************************************************)
(* For every width of an int and every set of buffers: the bounds of the   *)
(* bit reader never wrap and never let it out of its buffer, an error      *)
(* stays, and a reader without one stands where it should and has returned *)
(* the bits it passed.                                                     *)
(***************************************************************************)
EXTENDS BitReader, Headers, Recursion, SequenceTheorems

IInv == TypeOK /\ PositionIsTheSum

(* Inside the buffer the wrapping operations are the plain ones.           *)
LEMMA WrapIsPlain ==
  ASSUME NEW x \in Nat, x <= MaxInt
  PROVE  Wrap(x) = x
BY WidthAssumption DEF Wrap

LEMMA NothingWraps ==
  ASSUME TypeOK
  PROVE  /\ Len(buf) \in Nat
         /\ Bits = Len(buf) * 8
         /\ BitsRemaining = Bits - pos
         /\ Bits \in Nat /\ Bits <= MaxInt /\ pos \in Nat /\ pos <= Bits
<1>1. Len(buf) \in Nat
  BY DEF TypeOK
<1>2. Len(buf) * 8 \in Nat /\ Len(buf) * 8 <= MaxInt
  BY <1>1, WidthAssumption DEF TypeOK, Ints
<1>3. Bits = Len(buf) * 8
  BY <1>2, WidthAssumption DEF Bits, Wrap
<1>4. pos \in Nat /\ pos <= Bits
  BY <1>1, <1>2, <1>3 DEF TypeOK
<1>5. BitsRemaining = Bits - pos
  BY <1>2, <1>3, <1>4, WidthAssumption DEF BitsRemaining, Wrap
<1> QED
  BY <1>1, <1>2, <1>3, <1>4, <1>5

(* A field that fits ends inside the buffer, and its end does not wrap.    *)
LEMMA FieldFits ==
  ASSUME TypeOK, NEW n \in Int, n >= 0, Fits(n)
  PROVE  Wrap(pos + n) = pos + n /\ pos + n \in 0 .. Len(buf) * 8
<1>1. /\ Bits = Len(buf) * 8 /\ Bits \in Nat /\ Bits <= MaxInt
      /\ pos \in Nat /\ BitsRemaining = Bits - pos
  BY NothingWraps
<1>2. n <= BitsRemaining
  BY DEF Fits
<1>3. pos + n \in Nat /\ pos + n <= Bits
  BY <1>1, <1>2
<1>4. pos + n <= MaxInt
  BY <1>1, <1>3, WidthAssumption
<1>5. Wrap(pos + n) = pos + n
  BY <1>3, <1>4, WrapIsPlain
<1> QED
  BY <1>1, <1>3, <1>5

(* A step forward keeps the invariant.                                     *)
LEMMA AdvanceKeeps ==
  ASSUME IInv, NEW n \in Int, n >= 0, Fits(n), err = "none", Advance(n),
         bitsAsWritten' \in BOOLEAN
  PROVE  IInv'
<1>1. pos' = pos + n /\ pos' \in 0 .. Len(buf) * 8
  BY FieldFits DEF Advance, IInv
<1>2. ideal' = ideal + n /\ ideal' \in Nat
  BY DEF Advance, IInv, TypeOK
<1>3. UNCHANGED <<buf, err>>
  BY DEF Advance
<1>4. TypeOK'
  BY <1>1, <1>2, <1>3 DEF IInv, TypeOK
<1>5. PositionIsTheSum'
  BY <1>1, <1>2, <1>3 DEF IInv, PositionIsTheSum
<1> QED
  BY <1>4, <1>5 DEF IInv

(* So does a failure, and a call that is refused or changes nothing.       *)
LEMMA FailKeeps ==
  ASSUME IInv, NEW e \in {"overrun", "width"}, Fail(e)
  PROVE  IInv'
<1>1. pos' = Len(buf) * 8 /\ UNCHANGED <<buf, ideal, bitsAsWritten>>
  BY NothingWraps DEF Fail, IInv
<1>2. err' \in {"overrun", "width"}
  BY DEF Fail, IInv, TypeOK
<1>3. pos' \in 0 .. Len(buf') * 8
  BY <1>1, NothingWraps DEF IInv
<1> QED
  BY <1>1, <1>2, <1>3 DEF IInv, TypeOK, PositionIsTheSum

LEMMA StillKeeps ==
  ASSUME IInv, UNCHANGED <<buf, pos, err, ideal, bitsAsWritten>>
  PROVE  IInv'
BY DEF IInv, TypeOK, PositionIsTheSum

(* The position a reader is placed at.                                     *)
LEMMA PlacedKeeps ==
  ASSUME NEW p \in Nat, Placed(p), buf' \in Seq(0 .. 255),
         Len(buf') * 8 \in Ints, p <= Len(buf') * 8
  PROVE  IInv'
<1>1. Len(buf') \in Nat
  OBVIOUS
<1>2. pos' = p /\ ideal' = p /\ err' = "none" /\ bitsAsWritten' = TRUE
  BY DEF Placed
<1> QED
  BY <1>1, <1>2 DEF IInv, TypeOK, PositionIsTheSum

LEMMA ResetKeeps ==
  ASSUME IInv, NEW b \in Buffers, Reset(b)
  PROVE  IInv'
<1>1. b \in Seq(0 .. 255) /\ Len(b) \in Nat
  BY WidthAssumption
<1>2. CASE Len(b) <= maxBufLen /\ buf' = b /\ Placed(0)
  <2>1. Len(b) * 8 <= MaxInt /\ Len(b) * 8 \in Ints /\ 0 <= Len(b) * 8
    BY <1>1, <1>2, WidthAssumption DEF maxBufLen, Ints
  <2> QED
    BY <1>1, <1>2, <2>1, PlacedKeeps
<1>3. CASE /\ Len(b) > maxBufLen
           /\ buf' = <<>> /\ pos' = 0 /\ err' = "overrun"
           /\ answer' = 0 /\ ideal' = 0 /\ bitsAsWritten' = TRUE
  <2>1. buf' \in Seq(0 .. 255) /\ Len(buf') = 0
    BY <1>3
  <2> QED
    BY <1>3, <2>1, WidthAssumption DEF IInv, TypeOK, PositionIsTheSum, Ints
<1> QED
  BY <1>2, <1>3 DEF Reset

LEMMA SeekBitKeeps ==
  ASSUME IInv, NEW bit \in Ints, SeekBit(bit)
  PROVE  IInv'
<1>1. CASE bit \in 0 .. Bits /\ Placed(bit) /\ UNCHANGED buf
  <2>1. bit \in Nat /\ bit <= Len(buf) * 8
    BY <1>1, NothingWraps DEF IInv
  <2> QED
    BY <1>1, <2>1, PlacedKeeps DEF IInv, TypeOK
<1>2. CASE ~(bit \in 0 .. Bits) /\ Fail("overrun")
  BY <1>2, FailKeeps
<1> QED
  BY <1>1, <1>2 DEF SeekBit

LEMMA Uint32Keeps ==
  ASSUME IInv, NEW n \in 0 .. MaxWidth + 1, Uint32(n)
  PROVE  IInv'
<1>1. CASE n = 0 /\ answer' = 0 /\ UNCHANGED <<buf, pos, err, ideal, bitsAsWritten>>
  BY <1>1, StillKeeps
<1>2. CASE n > MaxWidth /\ Fail("width")
  BY <1>2, FailKeeps
<1>3. CASE n \in 1 .. MaxWidth /\ Refused
  BY <1>3, StillKeeps DEF Refused
<1>4. CASE n \in 1 .. MaxWidth /\ err = "none" /\ ~Fits(n) /\ Fail("overrun")
  BY <1>4, FailKeeps
<1>5. CASE /\ n \in 1 .. MaxWidth /\ err = "none" /\ Fits(n)
           /\ Advance(n)
           /\ answer' = Assembled(buf, pos, n)
           /\ bitsAsWritten' = (bitsAsWritten /\ answer' = Value(buf, pos, n))
  <2>1. bitsAsWritten' \in BOOLEAN
    BY <1>5
  <2>2. n \in Int /\ n >= 0
    BY WidthAssumption
  <2> QED
    BY <1>5, <2>1, <2>2, AdvanceKeeps
<1> QED
  BY <1>1, <1>2, <1>3, <1>4, <1>5 DEF Uint32

LEMMA BoolKeeps ==
  ASSUME IInv, Bool
  PROVE  IInv'
<1>1. CASE Refused
  BY <1>1, StillKeeps DEF Refused
<1>2. CASE err = "none" /\ pos >= Bits /\ Fail("overrun")
  BY <1>2, FailKeeps
<1>3. CASE /\ err = "none" /\ pos < Bits
           /\ Advance(1)
           /\ bitsAsWritten' = (bitsAsWritten /\ answer' = Value(buf, pos, 1))
  <2>1. bitsAsWritten' \in BOOLEAN
    BY <1>3
  <2>2. Fits(1)
    BY <1>3, NothingWraps DEF Fits, IInv
  <2> QED
    BY <1>3, <2>1, <2>2, AdvanceKeeps
<1> QED
  BY <1>1, <1>2, <1>3 DEF Bool

LEMMA SkipKeeps ==
  ASSUME IInv, NEW n \in Int, Skip(n)
  PROVE  IInv'
<1>1. CASE Refused
  BY <1>1, StillKeeps DEF Refused
<1>2. CASE err = "none" /\ (n < 0 \/ ~Fits(n)) /\ Fail("overrun")
  BY <1>2, FailKeeps
<1>3. CASE /\ err = "none" /\ n >= 0 /\ Fits(n)
           /\ Advance(n)
           /\ answer' = 0 /\ UNCHANGED bitsAsWritten
  <2>1. bitsAsWritten' \in BOOLEAN
    BY <1>3 DEF IInv, TypeOK
  <2> QED
    BY <1>3, <2>1, AdvanceKeeps
<1> QED
  BY <1>1, <1>2, <1>3 DEF Skip

LEMMA AlignKeeps ==
  ASSUME IInv, Align
  PROVE  IInv'
<1>1. CASE Refused
  BY <1>1, StillKeeps DEF Refused
<1>2. CASE err = "none" /\ pos % 8 # 0 /\ Skip(8 - (pos % 8))
  <2>1. pos \in Nat
    BY NothingWraps DEF IInv
  <2>2. 8 - (pos % 8) \in Int
    BY <2>1
  <2> QED
    BY <1>2, <2>2, SkipKeeps
<1>3. CASE /\ err = "none" /\ pos % 8 = 0
           /\ answer' = 0 /\ UNCHANGED <<buf, pos, err, ideal, bitsAsWritten>>
  BY <1>3, StillKeeps
<1> QED
  BY <1>1, <1>2, <1>3 DEF Align

LEMMA InitHolds == ASSUME Init PROVE IInv
<1>1. buf \in Seq(0 .. 255) /\ Len(buf) = 0
  BY DEF Init
<1> QED
  BY <1>1, WidthAssumption DEF Init, IInv, TypeOK, PositionIsTheSum, Ints

LEMMA NextKeeps == ASSUME IInv, [Next]_vars PROVE IInv'
<1>1. CASE Next
  <2>1. ASSUME NEW b \in Buffers, Reset(b) PROVE IInv'
    BY <2>1, ResetKeeps
  <2>2. ASSUME NEW bit \in Ints, SeekBit(bit) PROVE IInv'
    BY <2>2, SeekBitKeeps
  <2>3. ASSUME NEW n \in 0 .. MaxWidth + 1, Uint32(n) PROVE IInv'
    BY <2>3, Uint32Keeps
  <2>4. ASSUME NEW n \in Ints, Skip(n) PROVE IInv'
    <3>1. n \in Int
      BY WidthAssumption DEF Ints
    <3> QED
      BY <2>4, <3>1, SkipKeeps
  <2> QED
    BY <1>1, <2>1, <2>2, <2>3, <2>4, BoolKeeps, AlignKeeps DEF Next
<1>2. CASE UNCHANGED vars
  BY <1>2, StillKeeps DEF vars
<1> QED
  BY <1>1, <1>2

(* The inductive invariant.                                                *)
THEOREM ReaderInvariant == Spec => []IInv
<1>1. Init => IInv
  BY InitHolds
<1>2. IInv /\ [Next]_vars => IInv'
  BY NextKeeps
<1> QED
  BY <1>1, <1>2, PTL DEF Spec

(* No sequence of calls, whatever ints they are given, moves the reader    *)
(* outside its buffer or makes one of its bounds wrap (reader.go:26-30).   *)
THEOREM NeverOutside == Spec => []TypeOK
<1>1. IInv => TypeOK
  BY DEF IInv
<1> QED
  BY <1>1, ReaderInvariant, PTL

(* A parser that asks for the error once, at the end, learns of every      *)
(* field that was not read in full (reader.go:8-11).                       *)
THEOREM AskOnce == Spec => []PositionIsTheSum
<1>1. IInv => PositionIsTheSum
  BY DEF IInv
<1> QED
  BY <1>1, ReaderInvariant, PTL

(* What a call does to a reader that has failed.                           *)
LEMMA FailedStays ==
  ASSUME IInv, err # "none", [Next]_vars
  PROVE  \/ err' = err /\ answer' = 0 /\ pos' = pos
         \/ \E b \in Buffers : Reset(b)
         \/ \E bit \in 0 .. Bits : SeekBit(bit)
         \/ UNCHANGED vars
<1>1. pos = Bits
  BY NothingWraps DEF IInv, TypeOK
<1>2. ASSUME NEW e, Fail(e) PROVE err' = err /\ answer' = 0 /\ pos' = pos
  BY <1>1, <1>2 DEF Fail
<1>3. ASSUME NEW bit \in Ints, SeekBit(bit)
      PROVE  \/ err' = err /\ answer' = 0 /\ pos' = pos
             \/ \E i \in 0 .. Bits : SeekBit(i)
  BY <1>2, <1>3 DEF SeekBit
<1>4. ASSUME NEW n \in 0 .. MaxWidth + 1, Uint32(n)
      PROVE  err' = err /\ answer' = 0 /\ pos' = pos
  BY <1>2, <1>4 DEF Uint32, Refused
<1>5. Bool => err' = err /\ answer' = 0 /\ pos' = pos
  BY DEF Bool, Refused
<1>6. ASSUME NEW n, Skip(n) PROVE err' = err /\ answer' = 0 /\ pos' = pos
  BY <1>6 DEF Skip, Refused
<1>7. Align => err' = err /\ answer' = 0 /\ pos' = pos
  BY DEF Align, Refused
<1> QED
  BY <1>3, <1>4, <1>5, <1>6, <1>7 DEF Next

(* The first error stays, and what is read after it is zero, until the     *)
(* reader is placed again.                                                 *)
THEOREM FirstErrorStays == Spec => ErrorSticks
<1>1. IInv /\ [Next]_vars =>
        [err # "none" =>
           \/ err' = err /\ answer' = 0 /\ pos' = pos
           \/ \E b \in Buffers : Reset(b)
           \/ \E bit \in 0 .. Bits : SeekBit(bit)]_vars
  BY FailedStays
<1> QED
  BY <1>1, ReaderInvariant, PTL DEF Spec, ErrorSticks

-----------------------------------------------------------------------------
(* The weights of the bits of a byte.                                      *)

Weight(j) == 2^j

LEMMA WeightTyped ==
  ASSUME NEW j \in 0 .. 8
  PROVE  Weight(j) \in Nat /\ Weight(j) > 0
<1>0. CASE j = 0
  BY <1>0 DEF Weight
<1>1. CASE j = 1
  BY <1>1 DEF Weight
<1>2. CASE j = 2
  BY <1>2 DEF Weight
<1>3. CASE j = 3
  BY <1>3 DEF Weight
<1>4. CASE j = 4
  BY <1>4 DEF Weight
<1>5. CASE j = 5
  BY <1>5 DEF Weight
<1>6. CASE j = 6
  BY <1>6 DEF Weight
<1>7. CASE j = 7
  BY <1>7 DEF Weight
<1>8. CASE j = 8
  BY <1>8 DEF Weight
<1> QED
  BY <1>0, <1>1, <1>2, <1>3, <1>4, <1>5, <1>6, <1>7, <1>8

LEMMA WeightDoubles ==
  ASSUME NEW j \in 0 .. 7
  PROVE  Weight(j + 1) = 2 * Weight(j)
<1>0. CASE j = 0
  BY <1>0 DEF Weight
<1>1. CASE j = 1
  BY <1>1 DEF Weight
<1>2. CASE j = 2
  BY <1>2 DEF Weight
<1>3. CASE j = 3
  BY <1>3 DEF Weight
<1>4. CASE j = 4
  BY <1>4 DEF Weight
<1>5. CASE j = 5
  BY <1>5 DEF Weight
<1>6. CASE j = 6
  BY <1>6 DEF Weight
<1>7. CASE j = 7
  BY <1>7 DEF Weight
<1> QED
  BY <1>0, <1>1, <1>2, <1>3, <1>4, <1>5, <1>6, <1>7

(* A byte seen one bit further to the left is half of it, and the last     *)
(* bits of a number are those of its half and one more.                    *)
LEMMA HalfOf ==
  ASSUME NEW x \in 0 .. 255, NEW j \in 0 .. 7
  PROVE  x \div Weight(j + 1) = (x \div Weight(j)) \div 2
<1>0. CASE j = 0
  BY <1>0 DEF Weight
<1>1. CASE j = 1
  BY <1>1 DEF Weight
<1>2. CASE j = 2
  BY <1>2 DEF Weight
<1>3. CASE j = 3
  BY <1>3 DEF Weight
<1>4. CASE j = 4
  BY <1>4 DEF Weight
<1>5. CASE j = 5
  BY <1>5 DEF Weight
<1>6. CASE j = 6
  BY <1>6 DEF Weight
<1>7. CASE j = 7
  BY <1>7 DEF Weight
<1> QED
  BY <1>0, <1>1, <1>2, <1>3, <1>4, <1>5, <1>6, <1>7

LEMMA LowBits ==
  ASSUME NEW y \in Nat, NEW j \in 0 .. 7
  PROVE  y % Weight(j + 1) = 2 * ((y \div 2) % Weight(j)) + (y % 2)
<1>0. CASE j = 0
  BY <1>0 DEF Weight
<1>1. CASE j = 1
  BY <1>1 DEF Weight
<1>2. CASE j = 2
  BY <1>2 DEF Weight
<1>3. CASE j = 3
  BY <1>3 DEF Weight
<1>4. CASE j = 4
  BY <1>4 DEF Weight
<1>5. CASE j = 5
  BY <1>5 DEF Weight
<1>6. CASE j = 6
  BY <1>6 DEF Weight
<1>7. CASE j = 7
  BY <1>7 DEF Weight
<1> QED
  BY <1>0, <1>1, <1>2, <1>3, <1>4, <1>5, <1>6, <1>7

LEMMA QuotientTyped ==
  ASSUME NEW x \in Nat, NEW w \in Nat, w > 0
  PROVE  x \div w \in Nat
OBVIOUS

(* A byte's bit, no bits of it, and one bit more of it.                    *)
LEMMA ByteParts ==
  ASSUME NEW x \in 0 .. 255, NEW j \in 0 .. 8
  PROVE  /\ (x \div Weight(j)) % 2 \in {0, 1}
         /\ (x \div Weight(j)) % Weight(0) = 0
<1>1. Weight(j) \in Nat /\ Weight(j) > 0
  BY WeightTyped
<1>2. x \div Weight(j) \in Nat
  BY <1>1, QuotientTyped
<1>3. Weight(0) = 1
  BY DEF Weight
<1> QED
  BY <1>2, <1>3

LEMMA PartGrows ==
  ASSUME NEW x \in 0 .. 255, NEW j \in 0 .. 7, NEW t \in 0 .. 7
  PROVE  /\ (x \div Weight(j + 1)) % Weight(t) \in Nat
         /\ (x \div Weight(j)) % Weight(t + 1)
              = 2 * ((x \div Weight(j + 1)) % Weight(t)) + ((x \div Weight(j)) % 2)
<1> DEFINE y == x \div Weight(j)
<1>1. y \in Nat
  <2>1. Weight(j) \in Nat /\ Weight(j) > 0
    BY WeightTyped
  <2> QED
    BY <2>1, QuotientTyped
<1>2. x \div Weight(j + 1) = y \div 2
  BY HalfOf
<1> HIDE DEF y
<1>3. Weight(t) \in Nat /\ Weight(t) > 0
  BY WeightTyped
<1>4. (y \div 2) % Weight(t) \in Nat
  <2>1. y \div 2 \in Nat
    BY <1>1
  <2> QED
    BY <1>3, <2>1
<1>5. y % Weight(t + 1) = 2 * ((y \div 2) % Weight(t)) + (y % 2)
  BY <1>1, LowBits
<1> QED
  BY <1>2, <1>4, <1>5 DEF y

LEMMA ByteTyped ==
  ASSUME NEW b \in Seq(0 .. 255), NEW i \in 1 .. Len(b)
  PROVE  b[i] \in 0 .. 255
BY ElementOfSeq

LEMMA BitIs ==
  ASSUME NEW b \in Seq(0 .. 255), NEW p \in Nat, p < Len(b) * 8
  PROVE  Bit(b, p) \in {0, 1} /\ b[(p \div 8) + 1] \in 0 .. 255
<1>1. (p \div 8) + 1 \in 1 .. Len(b)
  OBVIOUS
<1> DEFINE x == b[(p \div 8) + 1]  j == 7 - (p % 8)
<1>2. x \in 0 .. 255
  BY <1>1, ByteTyped
<1>3. j \in 0 .. 8
  OBVIOUS
<1>4. Bit(b, p) = (x \div Weight(j)) % 2
  BY DEF Bit, Weight
<1> HIDE DEF x, j
<1>5. (x \div Weight(j)) % 2 \in {0, 1}
  BY <1>2, <1>3, ByteParts
<1> QED
  BY <1>2, <1>4, <1>5 DEF x

(* Inside a byte, a chunk of one more bit is that of the bits before it,   *)
(* and the bit.                                                            *)
LEMMA ChunkGrows ==
  ASSUME NEW b \in Seq(0 .. 255), NEW q \in Nat, NEW t \in 0 .. 7,
         (q % 8) + t <= 7, q + t < Len(b) * 8
  PROVE  /\ Chunk(b, q, t) \in Nat
         /\ Chunk(b, q, t + 1) = 2 * Chunk(b, q, t) + Bit(b, q + t)
<1> DEFINE x == b[(q \div 8) + 1]  j == 7 - (q % 8) - t
<1>1. j \in 0 .. 7
  OBVIOUS
<1>2. 8 - (q % 8) - t = j + 1 /\ 8 - (q % 8) - (t + 1) = j
  OBVIOUS
<1>3. (q + t) \div 8 = q \div 8 /\ (q + t) % 8 = (q % 8) + t /\ q + t \in Nat
  OBVIOUS
<1>4. x \in 0 .. 255
  <2>1. b[((q + t) \div 8) + 1] \in 0 .. 255
    BY <1>3, BitIs
  <2> QED
    BY <1>3, <2>1
<1>5. Bit(b, q + t) = (x \div Weight(j)) % 2
  <2>1. 7 - ((q + t) % 8) = j
    BY <1>3
  <2> QED
    BY <1>3, <2>1 DEF Bit, Weight
<1>6. Chunk(b, q, t) = (x \div Weight(j + 1)) % Weight(t)
  BY <1>2 DEF Chunk, Weight
<1>7. Chunk(b, q, t + 1) = (x \div Weight(j)) % Weight(t + 1)
  BY <1>2 DEF Chunk, Weight
<1> HIDE DEF x, j
<1>8. /\ (x \div Weight(j + 1)) % Weight(t) \in Nat
      /\ (x \div Weight(j)) % Weight(t + 1)
           = 2 * ((x \div Weight(j + 1)) % Weight(t)) + ((x \div Weight(j)) % 2)
  BY <1>1, <1>4, PartGrows
<1> QED
  BY <1>5, <1>6, <1>7, <1>8

LEMMA NoChunk ==
  ASSUME NEW b \in Seq(0 .. 255), NEW q \in Nat, q < Len(b) * 8
  PROVE  Chunk(b, q, 0) = 0
<1> DEFINE x == b[(q \div 8) + 1]  j == 8 - (q % 8)
<1>1. x \in 0 .. 255
  BY BitIs
<1>2. j \in 0 .. 8 /\ j - 0 = j
  OBVIOUS
<1>3. Chunk(b, q, 0) = (x \div Weight(j)) % Weight(0)
  BY <1>2 DEF Chunk, Weight
<1> HIDE DEF x, j
<1>4. (x \div Weight(j)) % Weight(0) = 0
  BY <1>1, <1>2, ByteParts
<1> QED
  BY <1>3, <1>4

-----------------------------------------------------------------------------
(* Fields.                                                                 *)

(* The recursion of Value, at every width.                                 *)
Prefix(b, p, v, w) ==
  v = [n \in 0 .. w |-> IF n = 0 THEN 0 ELSE 2 * v[n - 1] + Bit(b, p + n - 1)]

LEMMA PrefixExists ==
  ASSUME NEW b \in Seq(0 .. 255), NEW p \in Nat, NEW w \in Nat, p + w <= Len(b) * 8
  PROVE  \E v \in [0 .. w -> Nat] : Prefix(b, p, v, w)
<1> DEFINE bit == [n \in 1 .. w |-> Bit(b, p + n - 1)]
           h == [n \in 1 .. w |-> [x \in Nat |-> 2 * x + bit[n]]]
<1>1. bit \in [1 .. w -> Nat]
  <2>1. ASSUME NEW n \in 1 .. w PROVE Bit(b, p + n - 1) \in Nat
    <3>1. p + n - 1 \in Nat /\ p + n - 1 < Len(b) * 8
      OBVIOUS
    <3>2. Bit(b, p + n - 1) \in {0, 1}
      BY <3>1, BitIs
    <3> QED
      BY <3>2
  <2> QED
    BY <2>1
<1>0. \A n \in 1 .. w : bit[n] = Bit(b, p + n - 1)
  OBVIOUS
<1> HIDE DEF bit
<1>2. h \in [1 .. w -> [Nat -> Nat]]
  <2>1. ASSUME NEW n \in 1 .. w PROVE [x \in Nat |-> 2 * x + bit[n]] \in [Nat -> Nat]
    BY <1>1
  <2> QED
    BY <2>1
<1>3. ASSUME NEW n \in 1 .. w, NEW x \in Nat
      PROVE  h[n][x] = 2 * x + Bit(b, p + n - 1)
  BY <1>0
<1> HIDE DEF h
<1>4. PICK v \in [0 .. w -> Nat] :
        v[0] = 0 /\ \A n \in 1 .. w : v[n] = h[n][v[n - 1]]
  <2>1. 0 \in Nat
    OBVIOUS
  <2>2. Recursions(Nat, 0, w, h) # {}
    BY <1>2, <2>1, RecursionExists
  <2> QED
    BY <2>2 DEF Recursions
<1>5. ASSUME NEW n \in 0 .. w
      PROVE  v[n] = IF n = 0 THEN 0 ELSE 2 * v[n - 1] + Bit(b, p + n - 1)
  <2>1. CASE n = 0
    BY <1>4, <2>1
  <2>2. CASE n # 0
    <3>1. n \in 1 .. w /\ n - 1 \in 0 .. w
      BY <2>2
    <3>2. v[n - 1] \in Nat
      BY <3>1
    <3>3. v[n] = h[n][v[n - 1]]
      BY <1>4, <2>2
    <3> QED
      BY <1>3, <2>2, <3>1, <3>2, <3>3
  <2> QED
    BY <2>1, <2>2
<1>6. Prefix(b, p, v, w)
  BY <1>5 DEF Prefix
<1> QED
  BY <1>6

LEMMA PrefixUnique ==
  ASSUME NEW b, NEW p, NEW w \in Nat, NEW u \in 0 .. w
  PROVE  \A v, x : Prefix(b, p, v, w) /\ Prefix(b, p, x, u) => v[u] = x[u]
<1> SUFFICES ASSUME NEW v, NEW x, Prefix(b, p, v, w), Prefix(b, p, x, u)
             PROVE  v[u] = x[u]
  OBVIOUS
<1> DEFINE S == {n \in 0 .. u : v[n] = x[n]}
<1>0. v[0] = 0 /\ x[0] = 0
  BY DEF Prefix
<1>1. 0 \in S
  BY <1>0
<1>2. ASSUME NEW n \in 1 .. u, n - 1 \in S PROVE n \in S
  <2>1. n \in 0 .. u /\ n \in 0 .. w /\ n # 0
    OBVIOUS
  <2>2. v[n] = 2 * v[n - 1] + Bit(b, p + n - 1) /\ x[n] = 2 * x[n - 1] + Bit(b, p + n - 1)
    BY <2>1 DEF Prefix
  <2> QED
    BY <1>2, <2>1, <2>2
<1> HIDE DEF S
<1>3. u \in S
  BY <1>1, <1>2, InductTo
<1> QED
  BY <1>3 DEF S

LEMMA ValueIs ==
  ASSUME NEW b \in Seq(0 .. 255), NEW p \in Nat, NEW w \in Nat, p + w <= Len(b) * 8
  PROVE  \E v \in [0 .. w -> Nat] : Prefix(b, p, v, w) /\ Value(b, p, w) = v[w]
<1> DEFINE x == CHOOSE y : Prefix(b, p, y, w)
<1>1. PICK v \in [0 .. w -> Nat] : Prefix(b, p, v, w)
  BY PrefixExists
<1>2. Prefix(b, p, x, w)
  BY <1>1
<1>3. Value(b, p, w) = x[w]
  BY DEF Value, Prefix
<1> HIDE DEF x
<1>4. x[w] = v[w]
  BY <1>1, <1>2, PrefixUnique
<1> QED
  BY <1>1, <1>3, <1>4

(* One bit more is twice the value, and the bit.                           *)
LEMMA ValueGrows ==
  ASSUME NEW b \in Seq(0 .. 255), NEW p \in Nat, NEW w \in Nat, p + w < Len(b) * 8
  PROVE  /\ Value(b, p, w) \in Nat
         /\ Value(b, p, w + 1) = 2 * Value(b, p, w) + Bit(b, p + w)
<1>1. w + 1 \in Nat /\ p + (w + 1) <= Len(b) * 8 /\ p + w <= Len(b) * 8
  OBVIOUS
<1>2. PICK v \in [0 .. w + 1 -> Nat] :
        Prefix(b, p, v, w + 1) /\ Value(b, p, w + 1) = v[w + 1]
  BY <1>1, ValueIs
<1>3. PICK u \in [0 .. w -> Nat] : Prefix(b, p, u, w) /\ Value(b, p, w) = u[w]
  BY <1>1, ValueIs
<1>4. v[w] = u[w]
  <2>1. w \in 0 .. w + 1
    OBVIOUS
  <2>2. \A f, g : Prefix(b, p, f, w + 1) /\ Prefix(b, p, g, w) => f[w] = g[w]
    BY <1>1, <2>1, PrefixUnique
  <2> QED
    BY <1>2, <1>3, <2>2
<1>5. v[w + 1] = 2 * v[w] + Bit(b, p + w)
  <2>1. w + 1 \in 0 .. w + 1 /\ w + 1 # 0 /\ (w + 1) - 1 = w /\ p + (w + 1) - 1 = p + w
    OBVIOUS
  <2>2. v[w + 1] = 2 * v[(w + 1) - 1] + Bit(b, p + (w + 1) - 1)
    BY <1>2, <2>1 DEF Prefix
  <2> QED
    BY <2>1, <2>2
<1>6. u[w] \in Nat
  OBVIOUS
<1> QED
  BY <1>2, <1>3, <1>4, <1>5, <1>6

LEMMA NoBits ==
  ASSUME NEW b \in Seq(0 .. 255), NEW p \in Nat, p <= Len(b) * 8
  PROVE  Value(b, p, 0) = 0
<1> DEFINE w == 0
<1>1. w \in Nat /\ p + w <= Len(b) * 8
  OBVIOUS
<1> HIDE DEF w
<1>2. PICK v \in [0 .. w -> Nat] : Prefix(b, p, v, w) /\ Value(b, p, w) = v[w]
  BY <1>1, ValueIs
<1> QED
  BY <1>2 DEF Prefix, w

LEMMA ValueTyped ==
  ASSUME NEW b \in Seq(0 .. 255), NEW p \in Nat, NEW w \in Nat, p + w <= Len(b) * 8
  PROVE  Value(b, p, w) \in Nat
<1>1. PICK v \in [0 .. w -> Nat] : Value(b, p, w) = v[w]
  BY ValueIs
<1> QED
  BY <1>1

(* A turn of the loop appends the bits of a chunk inside one byte.         *)
LEMMA ChunkIsBits ==
  ASSUME NEW b \in Seq(0 .. 255), NEW p \in Nat, NEW m \in Nat, NEW take \in 0 .. 8,
         take > 0, ((p + m) % 8) + take <= 8, p + m + take <= Len(b) * 8
  PROVE  Value(b, p, m + take) = Value(b, p, m) * Weight(take) + Chunk(b, p + m, take)
<1> DEFINE q == p + m
           S == {t \in 0 .. take :
                   Value(b, p, m + t) = Value(b, p, m) * Weight(t) + Chunk(b, q, t)}
<1>1. q \in Nat /\ q < Len(b) * 8 /\ p + m <= Len(b) * 8
  OBVIOUS
<1>2. Value(b, p, m) \in Nat
  BY <1>1, ValueTyped
<1>3. 0 \in S
  <2>1. Chunk(b, q, 0) = 0 /\ Weight(0) = 1 /\ m + 0 = m
    BY <1>1, NoChunk DEF Weight
  <2> QED
    BY <1>2, <2>1
<1>4. ASSUME NEW n \in 1 .. take, n - 1 \in S PROVE n \in S
  <2> DEFINE t == n - 1
  <2>1. /\ t \in 0 .. 7 /\ t + 1 = n /\ (q % 8) + t <= 7 /\ q + t < Len(b) * 8
        /\ m + t \in Nat /\ p + (m + t) < Len(b) * 8 /\ p + (m + t) = q + t
        /\ (m + t) + 1 = m + n
    OBVIOUS
  <2>2. Value(b, p, m + t) = Value(b, p, m) * Weight(t) + Chunk(b, q, t)
    BY <1>4
  <2> HIDE DEF q, t, S
  <2>3. /\ Chunk(b, q, t) \in Nat
        /\ Chunk(b, q, n) = 2 * Chunk(b, q, t) + Bit(b, q + t)
    BY <1>1, <2>1, ChunkGrows
  <2>4. Value(b, p, m + n) = 2 * Value(b, p, m + t) + Bit(b, q + t)
    <3> DEFINE k == m + t
    <3>1. k \in Nat /\ p + k < Len(b) * 8 /\ p + k = q + t /\ k + 1 = m + n
      BY <2>1
    <3> HIDE DEF k
    <3>2. Value(b, p, k + 1) = 2 * Value(b, p, k) + Bit(b, p + k)
      BY <3>1, ValueGrows
    <3> QED
      BY <3>1, <3>2 DEF k
  <2>5. Weight(n) = 2 * Weight(t) /\ Weight(t) \in Nat
    <3>1. Weight(t + 1) = 2 * Weight(t)
      BY <2>1, WeightDoubles
    <3>2. t \in 0 .. 8
      BY <2>1
    <3> QED
      BY <2>1, <3>1, <3>2, WeightTyped
  <2>6. Bit(b, q + t) \in Nat
    <3>1. q + t \in Nat
      BY <1>1, <2>1
    <3>2. Bit(b, q + t) \in {0, 1}
      BY <2>1, <3>1, BitIs
    <3> QED
      BY <3>2
  <2> DEFINE V == Value(b, p, m)  W == Weight(t)
  <2>7. V * (2 * W) = 2 * (V * W) /\ V * W \in Nat
    BY <1>2, <2>5
  <2>8. Value(b, p, m + n) = V * Weight(n) + Chunk(b, q, n)
    BY <2>2, <2>3, <2>4, <2>5, <2>6, <2>7
  <2> QED
    BY <2>8 DEF S
<1> HIDE DEF S
<1>5. \A n \in 0 .. take : n \in S
  BY <1>3, <1>4, InductTo
<1>6. take \in S
  BY <1>5
<1> QED
  BY <1>6 DEF S

(* Uint32's loop: the turns put the chunks of a field together in order.   *)
Into(p, n) == ((p + n - 1) % 8) + 1
Take(p, n) == IF Into(p, n) > n THEN n ELSE Into(p, n)

Turns(b, p, v, w) ==
  v = [n \in 0 .. w |->
         IF n = 0 THEN 0
         ELSE v[n - Take(p, n)] * 2^Take(p, n)
                + Chunk(b, p + n - Take(p, n), Take(p, n))]

LEMMA TakeFacts ==
  ASSUME NEW p \in Nat, NEW n \in Nat, n > 0
  PROVE  /\ Take(p, n) \in 0 .. 8 /\ Take(p, n) > 0 /\ Take(p, n) <= n
         /\ ((p + (n - Take(p, n))) % 8) + Take(p, n) <= 8
<1>1. Into(p, n) \in 1 .. 8
  BY DEF Into
<1> QED
  BY DEF Take, Into

LEMMA FieldIsItsTurns ==
  ASSUME NEW b \in Seq(0 .. 255), NEW p \in Nat, NEW n \in Nat, n > 0,
         p + n <= Len(b) * 8
  PROVE  Value(b, p, n) = Value(b, p, n - Take(p, n)) * 2^Take(p, n)
                            + Chunk(b, p + n - Take(p, n), Take(p, n))
<1> DEFINE t == Take(p, n)
<1>1. t \in 0 .. 8 /\ t <= n
  BY TakeFacts
<1>2. ((p + (n - t)) % 8) + t <= 8
  BY TakeFacts
<1> HIDE DEF t
<1> DEFINE m == n - t
<1>3. m \in Nat /\ m + t = n /\ p + n - t = p + m
  BY <1>1
<1>4. p + m + t <= Len(b) * 8
  BY <1>1
<1>5. ((p + m) % 8) + t <= 8
  BY <1>2
<1> HIDE DEF m
<1>6. t > 0
  BY TakeFacts DEF t
<1>7. Value(b, p, m + t) = Value(b, p, m) * Weight(t) + Chunk(b, p + m, t)
  BY <1>1, <1>3, <1>4, <1>5, <1>6, ChunkIsBits
<1>8. Value(b, p, n) = Value(b, p, m) * 2^t + Chunk(b, p + n - t, t)
  BY <1>3, <1>7 DEF Weight
<1> QED
  BY <1>8 DEF t, m

LEMMA AssembledIsTheValue ==
  ASSUME NEW b \in Seq(0 .. 255), NEW p \in Nat, NEW w \in Nat, p + w <= Len(b) * 8
  PROVE  Assembled(b, p, w) = Value(b, p, w)
<1> DEFINE u == [n \in 0 .. w |-> Value(b, p, n)]
           v == CHOOSE x : Turns(b, p, x, w)
<1>1. Turns(b, p, u, w)
  <2>1. ASSUME NEW n \in 0 .. w
        PROVE  u[n] = IF n = 0 THEN 0
                      ELSE u[n - Take(p, n)] * 2^Take(p, n)
                             + Chunk(b, p + n - Take(p, n), Take(p, n))
    <3>1. CASE n = 0
      BY <3>1, NoBits
    <3>2. CASE n # 0
      <4>1. n \in Nat /\ n > 0 /\ p + n <= Len(b) * 8
        BY <3>2
      <4>2. n - Take(p, n) \in 0 .. w
        <5>1. Take(p, n) \in 0 .. 8 /\ Take(p, n) <= n
          BY <4>1, TakeFacts
        <5> QED
          BY <5>1
      <4>3. u[n] = Value(b, p, n) /\ u[n - Take(p, n)] = Value(b, p, n - Take(p, n))
        BY <4>2
      <4> HIDE DEF u
      <4> QED
        BY <3>2, <4>1, <4>3, FieldIsItsTurns
    <3> QED
      BY <3>1, <3>2
  <2> QED
    BY <2>1 DEF Turns
<1>2. Turns(b, p, v, w)
  <2> HIDE DEF u
  <2> QED
    BY <1>1
<1>3. Assembled(b, p, w) = v[w]
  BY DEF Assembled, Turns, Take, Into
<1> HIDE DEF u, v
<1> DEFINE S == {n \in 0 .. w : \A i \in 0 .. n : v[i] = u[i]}
<1>4. 0 \in S
  <2>1. v[0] = 0 /\ u[0] = 0
    BY <1>1, <1>2 DEF Turns
  <2> QED
    BY <2>1
<1>5. ASSUME NEW n \in 1 .. w, n - 1 \in S PROVE n \in S
  <2>1. n \in 0 .. w /\ n # 0 /\ n \in Nat /\ n > 0
    OBVIOUS
  <2>2. n - Take(p, n) \in 0 .. n - 1
    <3>1. Take(p, n) \in 0 .. 8 /\ Take(p, n) > 0 /\ Take(p, n) <= n
      BY <2>1, TakeFacts
    <3> QED
      BY <3>1
  <2>3. v[n - Take(p, n)] = u[n - Take(p, n)]
    BY <1>5, <2>2
  <2>4. v[n] = u[n]
    BY <1>1, <1>2, <2>1, <2>3 DEF Turns
  <2> QED
    BY <1>5, <2>1, <2>4
<1> HIDE DEF S
<1>6. \A n \in 0 .. w : n \in S
  BY <1>4, <1>5, InductTo
<1>7. w \in S
  BY <1>6
<1>8. v[w] = u[w]
  BY <1>7 DEF S
<1> QED
  BY <1>3, <1>8 DEF u

LEMMA BoolIsTheBit ==
  ASSUME IInv, err = "none", pos < Bits
  PROVE  Value(buf, pos, 1) = (buf[(pos \div 8) + 1] \div 2^(7 - (pos % 8))) % 2
<1>1. buf \in Seq(0 .. 255) /\ pos \in Nat /\ pos < Len(buf) * 8
  BY NothingWraps DEF IInv, TypeOK
<1> DEFINE w == 0
<1>2. w \in Nat /\ pos + w < Len(buf) * 8 /\ w + 1 = 1 /\ pos + w = pos
  BY <1>1
<1>3. Value(buf, pos, w) = 0
  BY <1>1, NoBits
<1> HIDE DEF w
<1>4. Value(buf, pos, w + 1) = 2 * Value(buf, pos, w) + Bit(buf, pos + w)
  BY <1>1, <1>2, ValueGrows
<1>5. Bit(buf, pos) \in {0, 1}
  BY <1>1, BitIs
<1> QED
  BY <1>2, <1>3, <1>4, <1>5 DEF Bit

LEMMA NextReadsTheBits ==
  ASSUME IInv, bitsAsWritten = TRUE, [Next]_vars
  PROVE  bitsAsWritten' = TRUE
<1>1. ASSUME NEW b \in Buffers, Reset(b) PROVE bitsAsWritten' = TRUE
  BY <1>1 DEF Reset, Placed
<1>2. ASSUME NEW bit \in Ints, SeekBit(bit) PROVE bitsAsWritten' = TRUE
  BY <1>2 DEF SeekBit, Placed, Fail
<1>3. ASSUME NEW n \in 0 .. MaxWidth + 1, Uint32(n) PROVE bitsAsWritten' = TRUE
  <2>1. CASE /\ n \in 1 .. MaxWidth /\ err = "none" /\ Fits(n)
             /\ Advance(n)
             /\ answer' = Assembled(buf, pos, n)
             /\ bitsAsWritten' = (bitsAsWritten /\ answer' = Value(buf, pos, n))
    <3>1. n \in Nat
      BY <2>1, WidthAssumption
    <3>2. pos + n <= Len(buf) * 8
      BY <2>1, <3>1, FieldFits, NothingWraps DEF IInv
    <3>3. buf \in Seq(0 .. 255) /\ pos \in Nat
      BY NothingWraps DEF IInv, TypeOK
    <3>4. Assembled(buf, pos, n) = Value(buf, pos, n)
      BY <3>1, <3>2, <3>3, AssembledIsTheValue
    <3> QED
      BY <2>1, <3>4
  <2>2. CASE ~Fits(n) \/ UNCHANGED bitsAsWritten
    BY <1>3, <2>2 DEF Uint32, Fail, Refused
  <2> QED
    BY <1>3, <2>1, <2>2 DEF Uint32, Fail, Refused
<1>4. ASSUME Bool PROVE bitsAsWritten' = TRUE
  <2>1. CASE err = "none" /\ pos < Bits
    BY <1>4, <2>1, BoolIsTheBit DEF Bool, Refused, Fail
  <2>2. CASE ~(err = "none" /\ pos < Bits)
    BY <1>4, <2>2 DEF Bool, Refused, Fail
  <2> QED
    BY <2>1, <2>2
<1>5. ASSUME NEW n, Skip(n) PROVE bitsAsWritten' = TRUE
  BY <1>5 DEF Skip, Refused, Fail
<1>6. ASSUME Align PROVE bitsAsWritten' = TRUE
  BY <1>5, <1>6 DEF Align, Refused
<1> QED
  BY <1>1, <1>2, <1>3, <1>4, <1>5, <1>6 DEF Next, vars

(* Every value a reader without an error has returned since it was placed  *)
(* was the field's, bit by bit, however the field lies across bytes.       *)
THEOREM ReadsTheBits == Spec => []ValuesAreTheBits
<1> DEFINE Faithful == bitsAsWritten = TRUE
<1>1. Init => Faithful
  BY DEF Init
<1>2. IInv /\ Faithful /\ [Next]_vars => Faithful'
  BY NextReadsTheBits
<1>3. Faithful => ValuesAreTheBits
  BY DEF ValuesAreTheBits
<1> QED
  BY <1>1, <1>2, <1>3, ReaderInvariant, PTL DEF Spec

-----------------------------------------------------------------------------
(***************************************************************************)
(* The header.                                                             *)
(***************************************************************************)
(* Of what the decoder asks for, a parser leaves nothing as it was.        *)
LEMMA AskedIsSet ==
  ASSUME NEW f \in Frame, NEW x \in Asked(f)
  PROVE  x \in States(f) \/ x \in Clears(f)
<1>1. CASE f.syntax = "enhanced"
  <2>1. CASE x \in {"cmixlev", "surmixlev"}
    BY <1>1, <2>1 DEF Clears, EAC3Clears
  <2>2. CASE x = "dialnorm2" /\ f.acmod = "1+1"
    BY <1>1, <2>2 DEF States, EAC3States, Only
  <2>3. CASE x = "chanmap" /\ f.strmtyp = "dependent"
    BY <1>1, <2>3 DEF Clears, EAC3Clears, EAC3MayState, Only
  <2>4. \/ x \in {"cmixlev", "surmixlev"}
        \/ x = "dialnorm2" /\ f.acmod = "1+1"
        \/ x = "chanmap" /\ f.strmtyp = "dependent"
    <3>1. CenterMixLevel(f) = {"cmixlev"} /\ SurroundMixLevel(f) = {"surmixlev"}
      BY <1>1 DEF CenterMixLevel, SurroundMixLevel, Only
    <3> QED
      BY <3>1 DEF Asked, Only
  <2> QED
    BY <2>1, <2>2, <2>3, <2>4
<1>2. CASE f.syntax # "enhanced"
  <2>1. f.strmtyp # "dependent"
    BY <1>2 DEF Frame
  <2>2. x \in {"cmixlev", "surmixlev", "xbsi1", "dialnorm2"}
    BY <1>2, <2>1 DEF Asked, CenterMixLevel, SurroundMixLevel, Only
  <2> QED
    BY <1>2, <2>2 DEF Clears, AC3Clears, Shared
<1> QED
  BY <1>1, <1>2

(* No gain, level or channel map the decoder takes from a header is an     *)
(* earlier frame's, whatever was parsed into it before (header.go:275).    *)
THEOREM NothingOldIsAsked == HeaderSpec => []AskedFieldsAreOfTheFrame
<1>1. HeaderInit => AskedFieldsAreOfTheFrame
  BY DEF HeaderInit, AskedFieldsAreOfTheFrame
<1>2. AskedFieldsAreOfTheFrame /\ [HeaderNext]_headerVars => AskedFieldsAreOfTheFrame'
  <2> SUFFICES ASSUME AskedFieldsAreOfTheFrame, [HeaderNext]_headerVars
               PROVE  AskedFieldsAreOfTheFrame'
    OBVIOUS
  <2>1. CASE ParseHeader
    <3>1. PICK f \in Frame : \E outcome \in Outcomes(f) :
            Left(outcome) /\ frame' = f /\ UNCHANGED field
      BY <2>1 DEF ParseHeader
    <3>2. origin' \in Outcomes(f)
      BY <3>1 DEF Left
    <3>3. field \in Asked(f) => "kept" \notin Outcomes(f)
      BY AskedIsSet DEF Outcomes, Only
    <3> QED
      BY <3>1, <3>2, <3>3 DEF AskedFieldsAreOfTheFrame
  <2>2. CASE FailHeader
    BY <2>2 DEF FailHeader, AskedFieldsAreOfTheFrame
  <2>3. CASE UNCHANGED headerVars
    BY <2>3 DEF headerVars, AskedFieldsAreOfTheFrame, Asked, CenterMixLevel, SurroundMixLevel, Only
  <2> QED
    BY <2>1, <2>2, <2>3 DEF HeaderNext
<1> QED
  BY <1>1, <1>2, PTL DEF HeaderSpec

=============================================================================
