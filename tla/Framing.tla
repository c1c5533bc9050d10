------------------------------ MODULE Framing -------------------------------
(***************************************************************************)
(* What a FrameReader promises, free of buffers and reads: the stream is   *)
(* walked once from its first byte to its last, every sound frame met on   *)
(* the way is taken whole, and a byte is passed over only when no sound    *)
(* frame begins there - or when the stream has ended before that frame     *)
(* did.                                                                    *)
(***************************************************************************)
EXTENDS Syncframes

VARIABLES
  stream,    (* The cells of the stream.                                   *)
  mode,      (* The check the caller asked for.                            *)
  arrived,   (* How many bytes the source has handed over.                 *)
  closed,    (* The source will hand over no more.                         *)
  pos,       (* The offset of the first byte not yet taken or passed over. *)
  taken      (* The frames taken, in order.                                *)

vars == <<stream, mode, arrived, closed, pos, taken>>

Frame(p) == [at |-> p, size |-> CellAt(stream, p).size]

(* No sound frame can be cut out at p, now or later.                       *)
Hopeless(p) ==
  \/ ~Sound(CellAt(stream, p), mode)
  \/ closed /\ p + CellAt(stream, p).size > arrived

Init ==
  /\ stream \in Streams
  /\ mode = "full"
  /\ arrived = 0
  /\ closed = FALSE
  /\ pos = 0
  /\ taken = <<>>

Arrive ==
  /\ ~closed
  /\ arrived' \in arrived .. Len(stream)
  /\ closed' \in BOOLEAN
  /\ UNCHANGED <<stream, mode, pos, taken>>

Narrow ==
  /\ mode' \in CRCModes
  /\ UNCHANGED <<stream, arrived, closed, pos, taken>>

Take ==
  /\ pos < arrived
  /\ Sound(CellAt(stream, pos), mode)
  /\ pos + CellAt(stream, pos).size <= arrived
  /\ taken' = Append(taken, Frame(pos))
  /\ pos' = pos + CellAt(stream, pos).size
  /\ UNCHANGED <<stream, mode, arrived, closed>>

Pass ==
  /\ pos' \in (pos + 1) .. arrived
  /\ \A p \in pos .. (pos' - 1) : Hopeless(p)
  /\ UNCHANGED <<stream, mode, arrived, closed, taken>>

Next == Arrive \/ Narrow \/ Take \/ Pass

Spec == Init /\ [][Next]_vars

=============================================================================
