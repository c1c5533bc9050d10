------------------------------ MODULE BitReader ------------------------------
(***************************************************************************)
(* The bit reader every parser of the repository stands on                 *)
(* (src/bitstream/reader.go), in the machine's own arithmetic: an int is   *)
(* one of -MaxInt-1 .. MaxInt, and what is added or subtracted wraps.      *)
(*                                                                         *)
(* Two history variables follow a reader that cannot fail: where it would  *)
(* stand, and whether all it was asked for since it was last placed came   *)
(* out as the bits of the buffer.                                          *)
(***************************************************************************)
EXTENDS Integers, Sequences

CONSTANTS
  Buffers,    \* what Reset may be handed
  MaxInt,     \* the largest int
  MaxWidth    \* the widest field a read returns: 32

ASSUME WidthAssumption ==
  /\ MaxInt \in Nat /\ MaxWidth \in Nat /\ MaxWidth <= MaxInt
  /\ Buffers \subseteq Seq(0 .. 255)

Ints == -MaxInt - 1 .. MaxInt

(* The int a sum or a difference of two ints comes to.                     *)
Wrap(x) == IF x > MaxInt THEN x - 2 * (MaxInt + 1)
           ELSE IF x < -MaxInt - 1 THEN x + 2 * (MaxInt + 1)
           ELSE x

VARIABLES
  buf, pos, err,
  answer,             \* what the last call returned, zero if nothing
  ideal, bitsAsWritten     \* history

vars == <<buf, pos, err, answer, ideal, bitsAsWritten>>

maxBufLen == MaxInt \div 8

Bits == Wrap(Len(buf) * 8)
BitsRemaining == Wrap(Bits - pos)

-----------------------------------------------------------------------------
(* The value of a field.                                                   *)

Bit(b, p) == (b[p \div 8 + 1] \div 2^(7 - (p % 8))) % 2

(* A fault: a field inside one byte is not shifted down.                   *)
ChunkUnshifted(b, p, take) == b[p \div 8 + 1] % 2^take

(* The bits a turn of Uint32's loop takes from the byte at hand.           *)
Chunk(b, p, take) == (b[p \div 8 + 1] \div 2^(8 - (p % 8) - take)) % 2^take

(* Uint32's loop, the fast path being its first turn: v[n] is the value    *)
(* once n bits are taken.  The last turn took those since the byte began,  *)
(* or all of them.                                                         *)
Assembled(b, p, width) ==
  LET v[n \in 0 .. width] ==
        IF n = 0 THEN 0
        ELSE LET into == ((p + n - 1) % 8) + 1
                 take == IF into > n THEN n ELSE into
             IN v[n - take] * 2^take + Chunk(b, p + n - take, take)
  IN v[width]

(* What a field is, one bit at a time.                                     *)
Value(b, p, width) ==
  LET v[n \in 0 .. width] == IF n = 0 THEN 0 ELSE 2 * v[n - 1] + Bit(b, p + n - 1)
  IN  v[width]

-----------------------------------------------------------------------------
Init ==
  /\ buf = <<>> /\ pos = 0 /\ err = "none"
  /\ answer = 0 /\ ideal = 0 /\ bitsAsWritten = TRUE

(* The reader is placed, and answers for what it is asked from there on.   *)
Placed(p) == /\ pos' = p /\ ideal' = p /\ err' = "none"
             /\ answer' = 0 /\ bitsAsWritten' = TRUE

(* A fault: a failed read is not latched.                                  *)
FailUnlatched(e) ==
  /\ pos' = Bits /\ answer' = 0
  /\ UNCHANGED <<buf, err, ideal, bitsAsWritten>>

(* fail: the first error stays, and the reader is parked at the end.       *)
Fail(e) ==
  /\ err' = IF err = "none" THEN e ELSE err
  /\ pos' = Bits
  /\ answer' = 0
  /\ UNCHANGED <<buf, ideal, bitsAsWritten>>

(* What a call does once an error is latched.                              *)
Refused == err # "none" /\ answer' = 0 /\ UNCHANGED <<buf, pos, err, ideal, bitsAsWritten>>

Reset(b) ==
  \/ Len(b) <= maxBufLen /\ buf' = b /\ Placed(0)
  \/ /\ Len(b) > maxBufLen
     /\ buf' = <<>> /\ pos' = 0 /\ err' = "overrun"
     /\ answer' = 0 /\ ideal' = 0 /\ bitsAsWritten' = TRUE

SeekBit(bit) ==
  \/ bit \in 0 .. Bits /\ Placed(bit) /\ UNCHANGED buf
  \/ ~(bit \in 0 .. Bits) /\ Fail("overrun")

(* A fault: the bound adds what it should subtract.                        *)
FitsBySum(n) == Wrap(pos + n) <= Bits

(* The bound of Uint32 and of Skip.                                        *)
Fits(n) == n <= BitsRemaining

(* A read of n bits that fit, and the bits it should return.               *)
Advance(n) ==
  /\ pos' = Wrap(pos + n) /\ ideal' = ideal + n
  /\ UNCHANGED <<buf, err>>

Uint32(n) ==
  \/ n = 0 /\ answer' = 0 /\ UNCHANGED <<buf, pos, err, ideal, bitsAsWritten>>
  \/ n > MaxWidth /\ Fail("width")
  \/ n \in 1 .. MaxWidth /\ Refused
  \/ n \in 1 .. MaxWidth /\ err = "none" /\ ~Fits(n) /\ Fail("overrun")
  \/ /\ n \in 1 .. MaxWidth /\ err = "none" /\ Fits(n)
     /\ Advance(n)
     /\ answer' = Assembled(buf, pos, n)
     /\ bitsAsWritten' = (bitsAsWritten /\ answer' = Value(buf, pos, n))

Bool ==
  \/ Refused
  \/ err = "none" /\ pos >= Bits /\ Fail("overrun")
  \/ /\ err = "none" /\ pos < Bits
     /\ Advance(1)
     /\ answer' = (buf[pos \div 8 + 1] \div 2^(7 - (pos % 8))) % 2
     /\ bitsAsWritten' = (bitsAsWritten /\ answer' = Value(buf, pos, 1))

Skip(n) ==
  \/ Refused
  \/ err = "none" /\ (n < 0 \/ ~Fits(n)) /\ Fail("overrun")
  \/ /\ err = "none" /\ n >= 0 /\ Fits(n)
     /\ Advance(n)
     /\ answer' = 0 /\ UNCHANGED bitsAsWritten

(* A no-op where the reader is aligned already.                            *)
Align ==
  \/ Refused
  \/ err = "none" /\ pos % 8 # 0 /\ Skip(8 - (pos % 8))
  \/ /\ err = "none" /\ pos % 8 = 0
     /\ answer' = 0 /\ UNCHANGED <<buf, pos, err, ideal, bitsAsWritten>>

Next ==
  \/ \E b \in Buffers : Reset(b)
  \/ \E bit \in Ints : SeekBit(bit)
  \/ \E n \in 0 .. MaxWidth + 1 : Uint32(n)
  \/ Bool
  \/ \E n \in Ints : Skip(n)
  \/ Align

Spec == Init /\ [][Next]_vars

-----------------------------------------------------------------------------
(* Properties.                                                             *)

(* The two facts every bound of the file leans on (reader.go:26-30): the   *)
(* position is never outside the buffer, and the buffer's length in bits   *)
(* is an int.  After a failure there is nothing left to read.              *)
TypeOK ==
  /\ buf \in Seq(0 .. 255)
  /\ Len(buf) * 8 \in Ints
  /\ pos \in 0 .. Len(buf) * 8
  /\ err \in {"none", "overrun", "width"}
  /\ err # "none" => pos = Len(buf) * 8
  /\ ideal \in Nat /\ bitsAsWritten \in BOOLEAN

(* A parser may read a long run of fields and ask for the error once, at   *)
(* the end (reader.go:8-11): while none is latched, the reader stands      *)
(* where the widths asked for since it was placed add up to.               *)
PositionIsTheSum == err = "none" => pos = ideal

(* And every value it returned on the way was the field's, bit by bit, on  *)
(* both paths of Uint32 and across bytes.                                  *)
ValuesAreTheBits == err = "none" => bitsAsWritten

(* Once an error is latched it stays, the first one, and every call after  *)
(* it returns zero, until the reader is placed again (reader.go:8-9).      *)
ErrorSticks ==
  [][err # "none" =>
       \/ err' = err /\ answer' = 0 /\ pos' = pos
       \/ \E b \in Buffers : Reset(b)
       \/ \E bit \in 0 .. Bits : SeekBit(bit)]_vars

=============================================================================
