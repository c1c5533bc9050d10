---------------------------- MODULE FrameReader -----------------------------
(***************************************************************************)
(* The FrameReader of ac3/framereader.go: one buffer, filled from a source *)
(* in pieces of any length, out of which Next cuts syncframes and          *)
(* NextAccessUnit cuts a programme frame with the frames that extend it.   *)
(*                                                                         *)
(* The buffer holds byte offsets of the stream instead of bytes, so that   *)
(* what a move of the buffer does to the bytes is visible: buf[i] is the   *)
(* offset of the byte at index i.  `start', `end' and `capacity' are the   *)
(* code's own fields; `source' is how far the source has been read.        *)
(***************************************************************************)
EXTENDS Syncframes

CONSTANTS
  MaxEmptyReads,        (* Empty reads in a row taken for the end.         *)
  MaxAccessUnitFrames,  (* Frames of one access unit, at most.             *)
  Growth,               (* What append may add to a full buffer.           *)
  Modes,                (* The check modes callers ask for.                *)
  Calls                 (* The calls made: a subset of CallNames.          *)

CallNames == {"Next", "NextAccessUnit"}

ASSUME ReaderAssumption ==
  /\ MaxEmptyReads \in Nat \ {0}
  /\ MaxAccessUnitFrames \in Nat \ {0}
  /\ Growth \subseteq Nat \ {0} /\ Growth # {}
  /\ Modes \subseteq CRCModes
  /\ Calls \subseteq CallNames

VARIABLES
  stream, source,
  mode, buf, start, end, capacity, eof, readErr, empty,
  hdr, cand, frame, skipped, frames,
  pc,      (* "idle", or where in the call the reader is.                  *)
  call,    (* The call being served, or served last.                       *)
  size,    (* NextAccessUnit's own: bytes of the unit gathered so far ...  *)
  n,       (* ... and frames.                                              *)
  result,  (* What the last call returned.                                 *)
  taken,   (* History: the frames found, in order ...                      *)
  handed   (* ... and the bytes handed to the caller.                      *)

input == <<stream, source>>
store == <<buf, start, end, capacity, eof, readErr, empty>>
found == <<hdr, cand, frame, frames, taken>>
unit  == <<size, n>>
vars  == <<input, mode, store, found, skipped, pc, call, unit, result, handed>>

NoHeader == [at |-> 0, size |-> 0]     \* the zero Header
NoSlice  == [from |-> 0, len |-> 0]

Avail  == end - start                  \* len(fr.buf[fr.start:fr.end])
Offset == buf[start]                   \* where in the stream buf[start] is
Here   == CellAt(stream, Offset)
Verdict == TryFrameAt(Here, Avail, mode)

Init ==
  /\ stream \in Streams
  /\ source = 0
  /\ mode = "full"
  /\ buf = [i \in {} |-> 0]
  /\ start = 0
  /\ end = 0
  /\ capacity = 2 * MaxAnyFrameSize
  /\ eof = FALSE
  /\ readErr = FALSE
  /\ empty = 0
  /\ hdr = NoHeader
  /\ cand = NoHeader
  /\ frame = NoSlice
  /\ skipped = 0
  /\ frames = 0
  /\ pc = "idle"
  /\ call = "Next"
  /\ size = 0
  /\ n = 0
  /\ result = "none"
  /\ taken = <<>>
  /\ handed = 0

-----------------------------------------------------------------------------
(* compact, keeping everything from index `from' on, then readMore, which  *)
(* reads nothing once the source has stopped.                              *)

(* A fault: the bytes kept are counted but not moved.                      *)
Unmoved(from) == [i \in 0 .. (end - from - 1) |-> buf[i]]

Compacted(from) == [i \in 0 .. (end - from - 1) |-> buf[from + i]]

(* What the source answers a read into `room' bytes: any number of them,   *)
(* none included, with no error, with a failure, or - once the stream is   *)
(* all read - with io.EOF.                                                 *)
Answers(room) ==
  {a \in [bytes : 0 .. Len(stream) - source, err : {"nil", "EOF", "failure"}] :
     /\ a.bytes <= room
     /\ a.err = "EOF" => source + a.bytes = Len(stream)}

(* readMore behind the bytes kept: append grows a buffer that is full.     *)
Read(kept, from) ==
  \E cap \in IF kept = capacity THEN {capacity + g : g \in Growth}
                                ELSE {capacity} :
  \E a \in Answers(cap - kept) :
    /\ capacity' = cap
    /\ buf' = [i \in 0 .. (kept + a.bytes - 1) |->
                 IF i < kept THEN Compacted(from)[i] ELSE source + (i - kept)]
    /\ end' = kept + a.bytes
    /\ source' = source + a.bytes
    /\ readErr' = (readErr \/ a.err = "failure")
    /\ empty' = CASE a.err # "nil" -> empty
                  [] a.err = "nil" /\ a.bytes = 0 -> empty + 1
                  [] OTHER -> 0
    /\ eof' = \/ a.err # "nil"
              \/ a.bytes = 0 /\ empty + 1 >= MaxEmptyReads

CompactAndRead(from) ==
  /\ \/ ~eof /\ Read(end - from, from)
     \/ /\ eof
        /\ buf' = Compacted(from)
        /\ end' = end - from
        /\ UNCHANGED <<source, capacity, eof, readErr, empty>>
  /\ UNCHANGED stream

-----------------------------------------------------------------------------
(* The caller's side.                                                      *)

Call(name) ==
  /\ pc = "idle"
  /\ name \in Calls
  /\ pc' = "next"
  /\ call' = name
  /\ result' = "none"
  /\ UNCHANGED <<input, mode, store, found, skipped, unit, handed>>

CallNext == Call("Next")
CallNextAccessUnit == Call("NextAccessUnit")

SetCRCMode ==
  /\ pc = "idle"
  /\ mode' \in Modes \ {mode}
  /\ UNCHANGED <<input, store, found, skipped, pc, call, unit, result, handed>>

(* Every way a call ends but with a frame.                                 *)
Return(what) ==
  /\ pc' = "idle"
  /\ result' = what
  /\ UNCHANGED <<call, unit, handed>>

(* A fault: what is given up is not counted.                               *)
DiscardUncounted(bytes) == UNCHANGED skipped

Discard(bytes) == skipped' = skipped + bytes

-----------------------------------------------------------------------------
(* Next: first fill, until a frame of the largest size would be in view.   *)

MustFill == Avail < MaxAnyFrameSize /\ ~eof

Fill ==
  /\ pc = "next" /\ MustFill
  /\ CompactAndRead(start)
  /\ start' = 0
  /\ UNCHANGED <<mode, found, skipped, pc, call, unit, result, handed>>

(* A fault: a failure of the source is reported over what it gave before.  *)
DryOrFailed == Avail = 0 \/ readErr

Dry == Avail = 0

(* end0: the stream ends with what went wrong, or with io.EOF.             *)
EndOfStream ==
  /\ pc = "next" /\ ~MustFill
  /\ Dry
  /\ Return(IF readErr THEN "readErr" ELSE "EOF")
  /\ UNCHANGED <<input, mode, store, found, skipped>>

(* Too little is left to hold even a syncinfo.                             *)
DropTail ==
  /\ pc = "next" /\ ~MustFill
  /\ Avail \in 1 .. (SyncInfoSize - 1)
  /\ Discard(Avail)
  /\ start' = end
  /\ Return("EOF")
  /\ UNCHANGED <<input, mode, buf, end, capacity, eof, readErr, empty, found>>

(* The part of Next in which there is a candidate to weigh at buf[start].  *)
Weighing == pc = "next" /\ ~MustFill /\ Avail >= SyncInfoSize

Candidate == [at |-> Offset, size |-> Here.size]

(* A fault: the scratch header is the one callers see.                     *)
WeighInPlace ==
  /\ cand' = IF WritesHeader(Here, Avail) THEN Candidate ELSE cand
  /\ hdr' = cand'

(* tryFrameAt parses into a scratch header, and Next alone makes it the    *)
(* reader's, once the candidate has proved to be a frame.                  *)
Weigh ==
  /\ cand' = IF WritesHeader(Here, Avail) THEN Candidate ELSE cand
  /\ hdr' = IF pc = "next" /\ Verdict = "ok" THEN cand' ELSE hdr

(* What taking the frame at buf[start] does in Next and in the gathering.  *)
Consume ==
  /\ start' = start + Here.size
  /\ frames' = frames + 1
  /\ taken' = Append(taken, Candidate)
  /\ UNCHANGED <<input, mode, buf, end, capacity, eof, readErr, empty>>

TakeFrame ==
  /\ Weighing
  /\ Verdict = "ok"
  /\ Weigh
  /\ frame' = [from |-> start, len |-> Here.size]
  /\ Consume
  /\ IF call = "Next"
     THEN pc' = "idle" /\ result' = "frame" /\ handed' = handed + Here.size
     ELSE pc' = "found" /\ UNCHANGED <<result, handed>>
  /\ UNCHANGED <<skipped, call, unit>>

(* A fault: a swapped syncword is believed wherever it turns up.           *)
Anywhere == TRUE

AtHead == frames = 0 /\ skipped = 0

(* A swapped syncword at the very head of the stream.                      *)
ReportByteOrder ==
  /\ Weighing
  /\ Verdict = "byteOrder" /\ AtHead
  /\ Return("byteOrder")
  /\ UNCHANGED <<input, mode, store, found, skipped>>

(* A fault: more is awaited of a source that has stopped.                  *)
AwaitedForever == Verdict = "short"

Awaited == Verdict = "short" /\ ~eof

(* Taken to be a frame the rest of which is still to come.                 *)
AwaitRest ==
  /\ Weighing
  /\ Awaited
  /\ Weigh
  /\ CompactAndRead(start)
  /\ start' = 0
  /\ UNCHANGED <<mode, frame, frames, taken, skipped, pc, call, unit, result,
                 handed>>

(* A fault: the scan starts at the rejected candidate itself.              *)
ToNextSyncwordLate ==
  LET opens == {k \in 0 .. (Avail - 1) :
                  OpensSyncword(CellAt(stream, buf[start + k]))}
  IN  1 + CHOOSE k \in opens \union {Avail} : \A j \in opens : k <= j

(* A fault: the size a damaged frame states is believed.                   *)
ToNextSyncwordTrusting == IF Verdict = "crc" THEN Here.size ELSE 1

(* 1 + syncScan(avail[1:]).                                                *)
ToNextSyncword ==
  LET opens == {k \in 1 .. (Avail - 1) :
                  OpensSyncword(CellAt(stream, buf[start + k]))}
  IN  CHOOSE k \in opens \union {Avail} : \A j \in opens : k <= j

Resync ==
  /\ Weighing
  /\ Verdict # "ok" /\ ~Awaited
  /\ ~(Verdict = "byteOrder" /\ AtHead)
  /\ Weigh
  /\ start' = start + ToNextSyncword
  /\ Discard(ToNextSyncword)
  /\ UNCHANGED <<input, mode, buf, end, capacity, eof, readErr, empty,
                 frame, frames, taken, pc, call, unit, result, handed>>

-----------------------------------------------------------------------------
(* NextAccessUnit, once Next has returned it a frame.                      *)

DropOrphan ==
  /\ pc = "found"
  /\ ~CellAt(stream, hdr.at).advances
  /\ Discard(frame.len)
  /\ pc' = "next"
  /\ UNCHANGED <<input, mode, store, found, call, unit, result, handed>>

OpenUnit ==
  /\ pc = "found"
  /\ CellAt(stream, hdr.at).advances
  /\ size' = frame.len
  /\ n' = 1
  /\ pc' = "gather"
  /\ UNCHANGED <<input, mode, store, found, skipped, call, result, handed>>

(* Whether more bytes are needed before the frame at buf[start] can be     *)
(* weighed as a part of the unit.                                          *)
Short ==
  \/ Avail < EAC3SyncInfoSize
  \/ Avail >= EAC3SyncInfoSize /\ Avail < Here.size

(* Whether the bytes at buf[start] do not go on with the unit, as far as   *)
(* their syncinfo tells.                                                   *)
Elsewhere ==
  /\ Avail >= EAC3SyncInfoSize
  /\ ParseSyncInfo(Here, Avail) # "ok" \/ Here.advances

Gathering == pc = "gather" /\ n < MaxAccessUnitFrames /\ ~Elsewhere

GatherMore ==
  /\ Gathering
  /\ Short /\ ~eof
  /\ CompactAndRead(start - size)
  /\ start' = size
  /\ UNCHANGED <<mode, found, skipped, pc, call, unit, result, handed>>

GatherFrame ==
  /\ Gathering
  /\ ~Short
  /\ Verdict = "ok"
  /\ Weigh
  /\ Consume
  /\ size' = size + Here.size
  /\ n' = n + 1
  /\ UNCHANGED <<frame, skipped, pc, call, result, handed>>

(* A fault: the first short view of what follows ends the unit.            *)
EndsAtShortView == n = MaxAccessUnitFrames \/ Elsewhere \/ Short

(* The unit is full, or what follows is no part of it, or the stream ends  *)
(* inside what follows.                                                    *)
UnitEnds == n = MaxAccessUnitFrames \/ Elsewhere \/ (Short /\ eof)

(* A fault: the unit is sliced where Next found its first frame, though    *)
(* the buffer has moved since.                                             *)
UnitBeforeTheMove == [from |-> frame.from, len |-> size]

Unit == [from |-> start - size, len |-> size]

(* The unit is closed, then or because what follows it is damaged.         *)
CloseUnit ==
  /\ pc = "gather"
  /\ IF UnitEnds THEN UNCHANGED <<cand, hdr>>
                 ELSE ~Short /\ Verdict # "ok" /\ Weigh
  /\ frame' = Unit
  /\ pc' = "idle"
  /\ result' = "frame"
  /\ handed' = handed + size
  /\ UNCHANGED <<input, mode, store, frames, taken, skipped, call, unit>>

-----------------------------------------------------------------------------
Step ==
  \/ Fill \/ EndOfStream \/ DropTail
  \/ TakeFrame \/ ReportByteOrder \/ AwaitRest \/ Resync
  \/ DropOrphan \/ OpenUnit
  \/ GatherMore \/ GatherFrame \/ CloseUnit

Next == CallNext \/ CallNextAccessUnit \/ SetCRCMode \/ Step

Spec == Init /\ [][Next]_vars

(* A call runs to its end on the caller's own thread; nothing obliges the  *)
(* caller to make another.                                                 *)
FairSpec == Spec /\ WF_vars(Step)

-----------------------------------------------------------------------------
(* What must hold.                                                         *)

(* The bytes found and not yet handed over or dropped.                     *)
InFlight == CASE pc = "found"  -> frame.len
              [] pc = "gather" -> size
              [] OTHER         -> 0

(* The offset in the stream of the first byte not yet dealt with.          *)
Position == source - Avail

(* Every variable holds a value of its type, and the indices are in order: *)
(* fr.start <= fr.end <= cap(fr.buf).                                      *)
TypeOK ==
  /\ stream \in Streams /\ source \in 0 .. Len(stream)
  /\ mode \in CRCModes
  /\ end \in Nat /\ start \in 0 .. end
  /\ buf \in [0 .. (end - 1) -> Nat]
  /\ capacity \in Nat /\ end <= capacity /\ 2 * MaxAnyFrameSize <= capacity
  /\ eof \in BOOLEAN /\ readErr \in BOOLEAN /\ empty \in Nat
  /\ hdr \in [at : Nat, size : Nat] /\ cand \in [at : Nat, size : Nat]
  /\ frame \in [from : Nat, len : Nat]
  /\ skipped \in Nat /\ frames \in Nat /\ handed \in Nat
  /\ pc \in {"idle", "next", "found", "gather"} /\ call \in CallNames
  /\ size \in Nat /\ n \in Nat
  /\ result \in {"none", "frame", "EOF", "readErr", "byteOrder"}
  /\ taken \in Seq([at : Nat, size : Nat])

(* Through every compaction, with a unit held or not, the buffer holds the *)
(* last bytes the source gave, in their order and without a gap.           *)
WindowIsStream ==
  /\ end <= source
  /\ \A i \in 0 .. (end - 1) : buf[i] = source - end + i

(* No byte is lost from the accounts and none is counted twice: Skipped    *)
(* and the bytes handed out add up to the offset of the next byte, which   *)
(* is the offset cmd/ac3info prints for each frame.                        *)
EveryByteIsAccounted == skipped + handed + InFlight = Position

(* The slice a call returns is one run of the stream, headed by the frame  *)
(* Header describes, and made of whole frames laid end to end, of which    *)
(* the first alone advances time under NextAccessUnit.                     *)
SliceIsUnit ==
  LET slice == frame.from .. (frame.from + frame.len - 1)
      parts == {k \in DOMAIN taken : taken[k].at >= hdr.at}
  IN  pc = "idle" /\ result = "frame" =>
        /\ frame.from + frame.len = start
        /\ buf[frame.from] = hdr.at
        /\ \A i \in slice : buf[i] = hdr.at + (i - frame.from)
        /\ hdr \in {taken[k] : k \in parts}
        /\ \A k \in parts :
             \/ taken[k].at + taken[k].size = hdr.at + frame.len
             \/ k + 1 \in parts /\ taken[k + 1].at = taken[k].at + taken[k].size
        /\ call = "NextAccessUnit" =>
             \A k \in parts : CellAt(stream, taken[k].at).advances
                                <=> taken[k] = hdr
        /\ call = "Next" => hdr.size = frame.len

(* A header a caller can see belonged to a frame: never to a candidate     *)
(* that was weighed and turned away.                                       *)
HeaderIsOfAFrame == hdr = NoHeader \/ \E k \in DOMAIN taken : taken[k] = hdr

(* A stream in the other byte order is said to be, on every call, and not  *)
(* one byte of it is walked past; the verdict is given at the head only.   *)
SwappedStreamIsReported ==
  /\ source >= EAC3SyncInfoSize /\ CellAt(stream, 0).sync = "swapped"
       => Position = 0 /\ taken = <<>> /\ result \notin {"EOF", "readErr"}
  /\ pc = "idle" /\ result = "byteOrder" => Position = 0

(* The end of the stream, failed or not, is told only when all that came   *)
(* in has been handed over or counted as skipped.                          *)
EndComesLast ==
  pc = "idle" /\ result \in {"EOF", "readErr"} =>
    eof /\ skipped + handed = source

(* Whether the frame at the reader's position goes on with the unit and    *)
(* all of it has come in, or still may.                                    *)
UnitGoesOn ==
  /\ Position < Len(stream)
  /\ LET next == CellAt(stream, Position)
     IN  /\ Sound(next, mode) /\ ~next.advances
         /\ eof => Position + next.size <= source

(* However the source cuts its reads, a unit is closed only when it is     *)
(* full or nothing sound that extends it follows: the extension of a 7.1   *)
(* unit is never left behind because it had not arrived.                   *)
UnitIsMaximal ==
  [][pc = "gather" /\ pc' = "idle" =>
       n = MaxAccessUnitFrames \/ ~UnitGoesOn]_vars

(* Each call returns, whatever the source answers: empty reads, a failure, *)
(* or a false sync the reader takes for a frame still to come.             *)
EveryCallReturns == pc # "idle" ~> pc = "idle"

(* What a call has left to do.  A byte dealt with is worth two, one before *)
(* and one after the verdict on the frame it belongs to; a read brings     *)
(* bytes in, or ends the stream, or is one of the few empty ones in a row. *)
StepsLeft ==
  2 * (Len(stream) - Position)
    + (MaxEmptyReads + 1) * (Len(stream) - source) + (MaxEmptyReads - empty)
    + (IF eof THEN 0 ELSE 1) + (IF pc = "found" THEN 1 ELSE 0)

(* Why it returns: each step of a call leaves less to do, so that a call   *)
(* takes a number of steps its stream bounds.                              *)
CallsRunOut ==
  [][pc # "idle" /\ pc' # "idle" => StepsLeft' \in 0 .. StepsLeft - 1]_vars

(* Refinement: the stream is walked as Framing says, and so no byte that   *)
(* begins a sound frame is passed over and no damaged frame's stated size  *)
(* takes the sound frames inside it down with it.                          *)
F == INSTANCE Framing WITH arrived <- source, closed <- eof, pos <- Position

FramingSpec == F!Spec

(* framereader.go:378 says a caller "still learns the stream was cut short *)
(* rather than finished".                                                  *)
CutShortIsTold == pc = "idle" /\ readErr => result # "EOF"

=============================================================================
