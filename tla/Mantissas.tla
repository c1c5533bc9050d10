------------------------------ MODULE Mantissas ------------------------------
(***************************************************************************)
(* Reading a block's mantissas (src/ac3/mantissa.go): which of them a      *)
(* codeword is read for, and whose value each of them gets.                *)
(*                                                                         *)
(* The three narrowest quantizers pack two or three mantissas in one       *)
(* codeword, most significant digit first, which stands at the place of    *)
(* the first of them, whichever channels the others belong to.  The        *)
(* writer's groups are history: they are what the codewords stand for.     *)
(***************************************************************************)
EXTENDS Integers, Sequences

CONSTANTS
  Grouped,     \* the pointers of grouped mantissas: 1, 2 and 4
  Steps,       \* how many values each quantizes to
  GroupSize    \* how many mantissas a codeword carries

ASSUME QuantizersAssumption ==
  /\ Steps \in [Grouped -> Nat \ {0}]
  /\ GroupSize \in [Grouped -> {2, 3}]

VARIABLES
  mstate,          \* a block is read, or was refused
  pending, open,   \* the values of an open group, and how many are left
  owed,            \* history: what the writer's open group still has to bring
  faithful         \* history: the last mantissa got the writer's value

groups == <<pending, open, owed, faithful>>
mantVars == <<mstate, groups>>

Digits(b) == 0 .. Steps[b] - 1

Power(base, exp) == CASE exp = 0 -> 1 [] exp = 1 -> base
                      [] exp = 2 -> base * base [] exp = 3 -> base * base * base

MantInit ==
  /\ mstate = "block"
  /\ pending = [b \in Grouped |-> [k \in {0, 1} |-> 0]]
  /\ open = [b \in Grouped |-> 0]
  /\ owed = [b \in Grouped |-> <<>>]
  /\ faithful = TRUE

(* A fault: a group stays open into the next block.                        *)
GroupsKept == open

GroupsDropped == [b \in Grouped |-> 0]

(* The writer's groups end with the block, and reset drops the reader's.   *)
NextBlock ==
  /\ mstate' = "block"
  /\ open' = GroupsDropped
  /\ owed' = [b \in Grouped |-> <<>>]
  /\ UNCHANGED <<pending, faithful>>

Digit(b, code, place) == (code \div Power(Steps[b], place)) % Steps[b]

(* The values a writer packed in a codeword, in the order of its bins.     *)
ValuesOf(b, code) ==
  [i \in 1 .. GroupSize[b] |-> Digit(b, code, GroupSize[b] - i)]

(* What is kept at place k of an open group: the next one is the last in.  *)
Kept(b, code, k) == Digit(b, code, k)

First(b, code) == code \div Power(Steps[b], GroupSize[b] - 1)

(* A mantissa that opens a group.  Where the writer's own group is open    *)
(* there is no codeword, and what is read is some other field.             *)
OpenGroup(b) ==
  /\ mstate = "block" /\ open[b] = 0
  /\ \E code \in 0 .. Power(Steps[b], GroupSize[b]) - 1 :
       /\ pending' = [pending EXCEPT ![b] =
            [k \in {0, 1} |-> IF k < GroupSize[b] - 1 THEN Kept(b, code, k) ELSE @[k]]]
       /\ open' = [open EXCEPT ![b] = GroupSize[b] - 1]
       /\ IF owed[b] = <<>>
          THEN /\ owed' = [owed EXCEPT ![b] = Tail(ValuesOf(b, code))]
               /\ faithful' = (First(b, code) = Head(ValuesOf(b, code)))
          ELSE /\ owed' = [owed EXCEPT ![b] = Tail(@)]
               /\ faithful' = FALSE
  /\ UNCHANGED mstate

(* A codeword that no group of values makes, or none at all.               *)
RefuseGroup(b) ==
  /\ mstate = "block" /\ open[b] = 0
  /\ mstate' = "refused"
  /\ UNCHANGED groups

(* One that a group already read brings: it takes no bits.                 *)
TakeFromGroup(b) ==
  /\ mstate = "block" /\ open[b] > 0
  /\ open' = [open EXCEPT ![b] = @ - 1]
  /\ IF owed[b] = <<>>
     THEN faithful' = FALSE /\ UNCHANGED owed
     ELSE /\ faithful' = (pending[b][open[b] - 1] = Head(owed[b]))
          /\ owed' = [owed EXCEPT ![b] = Tail(@)]
  /\ UNCHANGED <<mstate, pending>>

(* The other quantizers have a codeword for each mantissa, which may be    *)
(* one they have no value for.                                             *)
ReadAlone ==
  /\ mstate = "block"
  /\ mstate' \in {"block", "refused"}
  /\ UNCHANGED groups

MantNext ==
  \/ \E b \in Grouped : OpenGroup(b) \/ RefuseGroup(b) \/ TakeFromGroup(b)
  \/ ReadAlone \/ NextBlock

MantSpec == MantInit /\ [][MantNext]_mantVars

-----------------------------------------------------------------------------
(* Properties.                                                             *)

MantTypeOK ==
  /\ mstate \in {"block", "refused"}
  /\ pending \in [Grouped -> [{0, 1} -> Nat]]
  /\ open \in [Grouped -> 0 .. 2]
  /\ owed \in [Grouped -> Seq(Nat)]
  /\ faithful \in BOOLEAN

(* Every grouped mantissa gets the value its writer gave it, in whatever   *)
(* order the channels of a block mix the quantizers, block after block,    *)
(* and a codeword is read exactly where there is one.                      *)
MantissasAreTheWriters == faithful

=============================================================================
