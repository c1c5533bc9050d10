------------------------- MODULE FrameReaderProofs --------------------------
(***************************************************************************)
(* Proofs about FrameReader, for every set of streams, every size of the   *)
(* format's constants and every way the source may cut its reads.          *)
(***************************************************************************)
EXTENDS FrameReader, Recursion, SequenceTheorems

(* A unit being gathered lies in the buffer right before the unread bytes, *)
(* and so does the frame Next has just found for it.                       *)
InFlightIsHeld ==
  /\ pc = "gather" => size <= start
  /\ pc = "found" => frame.from + frame.len = start

(* The inductive invariant: what the buffer holds and where the read has   *)
(* got to are what make the offset of a candidate that of the stream.      *)
IInv ==
  /\ TypeOK
  /\ WindowIsStream
  /\ InFlightIsHeld
  /\ EveryByteIsAccounted

-----------------------------------------------------------------------------
(* A stream's cells are cells, and its length is a number.                 *)
LEMMA StreamCells ==
  ASSUME NEW s \in Streams
  PROVE  /\ Len(s) \in Nat
         /\ \A p \in 0 .. (Len(s) - 1) : CellAt(s, p) \in Cell
BY StreamsAssumption DEF CellAt

(* The bytes in view begin at the reader's position, which lies within the *)
(* stream while there are any.                                             *)
LEMMA HereIsPosition ==
  ASSUME TypeOK, WindowIsStream
  PROVE  /\ Avail \in Nat
         /\ Position \in Nat
         /\ Position + Avail = source
         /\ source \in Nat /\ Len(stream) \in Nat /\ source <= Len(stream)
         /\ Avail > 0 => Offset = Position /\ Here \in Cell
         /\ \A k \in 0 .. (Avail - 1) : buf[start + k] = Position + k
<1>1. /\ Len(stream) \in Nat
      /\ \A p \in 0 .. (Len(stream) - 1) : CellAt(stream, p) \in Cell
  BY StreamCells DEF TypeOK
<1>2. /\ Avail \in Nat /\ source \in Nat /\ source <= Len(stream)
      /\ Position \in Nat /\ Position + Avail = source
  BY <1>1 DEF TypeOK, WindowIsStream, Avail, Position
<1>3. ASSUME NEW k \in 0 .. (Avail - 1)
      PROVE  buf[start + k] = Position + k
  <2>1. start + k \in 0 .. (end - 1)
    BY <1>2 DEF TypeOK, Avail
  <2>2. buf[start + k] = source - end + (start + k)
    BY <2>1 DEF WindowIsStream
  <2>. QED
    BY <1>2, <2>2 DEF TypeOK, Avail, Position
<1>4. ASSUME Avail > 0
      PROVE  Offset = Position /\ Here \in Cell
  <2>1. buf[start + 0] = Position + 0
    BY <1>2, <1>3, <1>4
  <2>2. Offset = Position
    BY <1>2, <2>1 DEF Offset, TypeOK
  <2>. QED
    BY <1>1, <1>2, <1>4, <2>2 DEF Here
<1>. QED
  BY <1>1, <1>2, <1>3, <1>4

(* The scan of Resync moves on by at least a byte, stays in view, and      *)
(* passes over nothing that could open a syncword.                         *)
LEMMA ScanStaysInView ==
  ASSUME TypeOK, WindowIsStream, Avail > 0
  PROVE  /\ ToNextSyncword \in 1 .. Avail
         /\ \A k \in 1 .. (ToNextSyncword - 1) :
              ~OpensSyncword(CellAt(stream, Position + k))
<1> DEFINE opens == {k \in 1 .. (Avail - 1) :
                       OpensSyncword(CellAt(stream, buf[start + k]))}
           stops == opens \union {Avail}
<1>1. Avail \in Nat /\ Avail > 0
  BY HereIsPosition
<1>2. stops \in SUBSET Nat /\ stops # {} /\ stops \subseteq 1 .. Avail
  BY <1>1
<1>3. \E k \in stops : \A j \in stops : k <= j
  <2>. HIDE DEF stops
  <2>. QED
    BY <1>2, Least
<1>4. ToNextSyncword = CHOOSE k \in stops : \A j \in opens : k <= j
  BY DEF ToNextSyncword
<1>5. ToNextSyncword \in stops /\ \A j \in opens : ToNextSyncword <= j
  <2>1. \E k \in stops : \A j \in opens : k <= j
    BY <1>3
  <2>. HIDE DEF stops, opens
  <2>. QED
    BY <1>4, <2>1
<1>6. ASSUME NEW k \in 1 .. (ToNextSyncword - 1)
      PROVE  ~OpensSyncword(CellAt(stream, Position + k))
  <2>1. k \in 1 .. (Avail - 1) /\ ~(ToNextSyncword <= k)
    BY <1>1, <1>2, <1>5
  <2>2. buf[start + k] = Position + k
    BY <1>1, <2>1, HereIsPosition
  <2>. QED
    BY <1>5, <2>1, <2>2
<1>. QED
  BY <1>2, <1>5, <1>6

(* The bytes kept, followed by the next of the source, are again a run of  *)
(* the stream.                                                             *)
LEMMA RunIsExtended ==
  ASSUME NEW kept \in Nat, NEW at \in Nat, kept <= at, NEW more \in Nat,
         NEW old, \A i \in 0 .. (kept - 1) : old[i] = at - kept + i,
         NEW b, b = [i \in 0 .. (kept + more - 1) |->
                       IF i < kept THEN old[i] ELSE at + (i - kept)]
  PROVE  /\ b \in [0 .. (kept + more - 1) -> Nat]
         /\ \A i \in 0 .. (kept + more - 1) :
              b[i] = (at + more) - (kept + more) + i
<1>1. ASSUME NEW i \in 0 .. (kept + more - 1)
      PROVE  b[i] = at - kept + i /\ b[i] \in Nat
  <2>1. CASE i < kept
    BY <2>1
  <2>2. CASE ~(i < kept)
    BY <2>2
  <2>. QED
    BY <2>1, <2>2
<1>. QED
  BY <1>1

(* Compacting and reading keeps the window on the stream and brings bytes  *)
(* in behind what was kept, no further than the buffer reaches.            *)
LEMMA ReadKeepsWindow ==
  ASSUME TypeOK, WindowIsStream, NEW from \in 0 .. start,
         CompactAndRead(from)
  PROVE  /\ stream' = stream
         /\ source' \in Nat /\ source <= source' /\ source' <= Len(stream)
         /\ end' \in Nat /\ end' = (end - from) + (source' - source)
         /\ buf' \in [0 .. (end' - 1) -> Nat]
         /\ capacity' \in Nat /\ end' <= capacity'
         /\ 2 * MaxAnyFrameSize <= capacity'
         /\ eof' \in BOOLEAN /\ readErr' \in BOOLEAN /\ empty' \in Nat
         /\ WindowIsStream'
         /\ eof => source' = source /\ eof' = eof
<1> DEFINE kept == end - from
<1>1. /\ kept \in Nat /\ kept <= end /\ kept <= capacity
      /\ from \in Nat /\ from + kept = end
  BY DEF TypeOK
<1>2. source \in Nat /\ end \in Nat /\ end <= source /\ source <= Len(stream)
  BY StreamCells DEF TypeOK, WindowIsStream
<1>3. \A i \in 0 .. (kept - 1) : Compacted(from)[i] = source - kept + i
  <2>. SUFFICES ASSUME NEW i \in 0 .. (kept - 1)
                PROVE  Compacted(from)[i] = source - kept + i
    OBVIOUS
  <2>1. from + i \in 0 .. (end - 1)
    BY <1>1
  <2>2. buf[from + i] = source - end + (from + i)
    BY <2>1 DEF WindowIsStream
  <2>3. Compacted(from)[i] = buf[from + i]
    BY DEF Compacted
  <2>. QED
    BY <1>1, <1>2, <2>2, <2>3
<1>4. CASE ~eof /\ Read(kept, from)
  <2>. DEFINE Grown(cap, a) ==
          /\ capacity' = cap
          /\ buf' = [i \in 0 .. (kept + a.bytes - 1) |->
                       IF i < kept THEN Compacted(from)[i]
                                   ELSE source + (i - kept)]
          /\ end' = kept + a.bytes
          /\ source' = source + a.bytes
          /\ readErr' = (readErr \/ a.err = "failure")
          /\ empty' = CASE a.err # "nil" -> empty
                        [] a.err = "nil" /\ a.bytes = 0 -> empty + 1
                        [] OTHER -> 0
          /\ eof' = (\/ a.err # "nil"
                     \/ a.bytes = 0 /\ empty + 1 >= MaxEmptyReads)
  <2>0. PICK cap \in IF kept = capacity THEN {capacity + g : g \in Growth}
                                        ELSE {capacity} :
          \E a \in Answers(cap - kept) : Grown(cap, a)
    BY <1>4 DEF Read
  <2>1. PICK a \in Answers(cap - kept) : Grown(cap, a)
    BY <2>0
  <2>2. capacity' = cap /\ end' = kept + a.bytes /\ source' = source + a.bytes
    BY <2>1
  <2>3. buf' = [i \in 0 .. (kept + a.bytes - 1) |->
                  IF i < kept THEN Compacted(from)[i] ELSE source + (i - kept)]
    BY <2>1
  <2>4. eof' \in BOOLEAN /\ readErr' \in BOOLEAN
    BY <2>1
  <2>5. empty' = CASE a.err # "nil" -> empty
                   [] a.err = "nil" /\ a.bytes = 0 -> empty + 1
                   [] OTHER -> 0
    BY <2>1
  <2>6. empty' \in Nat
    <3>1. empty \in Nat
      BY DEF TypeOK
    <3>. HIDE DEF Grown
    <3>. QED
      BY <2>5, <3>1
  <2>. HIDE DEF Grown
  <2>7. cap \in Nat /\ capacity <= cap /\ 2 * MaxAnyFrameSize <= cap
    <3>1. capacity \in Nat /\ MaxAnyFrameSize \in Nat
          /\ 2 * MaxAnyFrameSize <= capacity
      BY SizesAssumption DEF TypeOK
    <3>2. CASE cap = capacity
      BY <3>1, <3>2
    <3>3. ASSUME NEW g \in Growth, cap = capacity + g
          PROVE  cap \in Nat /\ capacity <= cap /\ 2 * MaxAnyFrameSize <= cap
      <4>1. g \in Nat
        BY ReaderAssumption
      <4>. QED
        BY <3>1, <3>3, <4>1
    <3>. QED
      BY <3>2, <3>3
  <2>8. /\ a.bytes \in Nat /\ a.bytes <= Len(stream) - source
        /\ a.bytes <= cap - kept
    <3>. Len(stream) \in Nat
      BY StreamCells DEF TypeOK
    <3>. QED
      BY <1>2 DEF Answers
  <2>. DEFINE bytes == a.bytes
  <2>. HIDE DEF bytes, kept
  <2>9. /\ end' \in Nat /\ source' \in Nat
        /\ source <= source' /\ source' <= Len(stream)
        /\ end' <= source' /\ end' <= cap
    <3>. Len(stream) \in Nat
      BY StreamCells DEF TypeOK
    <3>1. /\ bytes \in Nat /\ bytes <= Len(stream) - source /\ bytes <= cap - kept
          /\ end' = kept + bytes /\ source' = source + bytes
      BY <2>2, <2>8 DEF bytes
    <3>. QED
      BY <1>1, <1>2, <2>7, <3>1
  <2>10. /\ buf' \in [0 .. (kept + bytes - 1) -> Nat]
         /\ \A i \in 0 .. (kept + bytes - 1) :
              buf'[i] = (source + bytes) - (kept + bytes) + i
    <3>1. /\ kept \in Nat /\ source \in Nat /\ kept <= source /\ bytes \in Nat
          /\ \A i \in 0 .. (kept - 1) : Compacted(from)[i] = source - kept + i
      BY <1>1, <1>2, <1>3, <2>8 DEF kept, bytes
    <3>2. buf' = [i \in 0 .. (kept + bytes - 1) |->
                    IF i < kept THEN Compacted(from)[i]
                                ELSE source + (i - kept)]
      BY <2>3 DEF bytes
    <3>. QED
      BY <3>1, <3>2, RunIsExtended
  <2>11. /\ end' = kept + bytes /\ source' = source + bytes
         /\ kept \in Nat /\ bytes \in Nat /\ source \in Nat
    BY <1>1, <1>2, <2>2, <2>8 DEF bytes, kept
  <2>12. WindowIsStream'
    <3>1. \A i \in 0 .. (end' - 1) : buf'[i] = source' - end' + i
      BY <2>10, <2>11
    <3>2. end' <= source'
      BY <2>9
    <3>. QED
      BY <3>1, <3>2 DEF WindowIsStream
  <2>13. buf' \in [0 .. (end' - 1) -> Nat]
    BY <2>10, <2>11
  <2>14. stream' = stream
    BY DEF CompactAndRead
  <2>15. capacity' \in Nat /\ end' <= capacity' /\ 2 * MaxAnyFrameSize <= capacity'
    BY <2>2, <2>7, <2>9
  <2>16. end' = (end - from) + (source' - source)
    BY <2>11 DEF kept
  <2>. QED
    BY <1>4, <2>4, <2>6, <2>9, <2>12, <2>13, <2>14, <2>15, <2>16
<1>5. CASE /\ eof
           /\ buf' = Compacted(from)
           /\ end' = kept
           /\ UNCHANGED <<source, capacity, eof, readErr, empty>>
  <2>1. stream' = stream
    BY DEF CompactAndRead
  <2>2. \A i \in 0 .. (end' - 1) : buf'[i] = source' - end' + i
    BY <1>1, <1>2, <1>3, <1>5
  <2>3. buf' \in [0 .. (end' - 1) -> Nat]
    <3>1. buf' = [i \in 0 .. (end' - 1) |-> buf'[i]]
      BY <1>5 DEF Compacted
    <3>2. \A i \in 0 .. (end' - 1) : buf'[i] \in Nat
      BY <1>1, <1>2, <1>5, <2>2
    <3>. QED
      BY <3>1, <3>2
  <2>4. /\ source' = source /\ eof' = eof /\ capacity' = capacity
        /\ readErr' = readErr /\ empty' = empty
        /\ end' = end - from /\ end' = kept
    BY <1>5
  <2>5. end' \in Nat /\ end' <= source' /\ end' <= capacity'
    BY <1>1, <1>2, <2>4
  <2>6. end' = (end - from) + (source' - source)
    BY <1>1, <1>2, <2>4
  <2>7. WindowIsStream'
    BY <2>2, <2>5 DEF WindowIsStream
  <2>8. /\ capacity' \in Nat /\ 2 * MaxAnyFrameSize <= capacity'
        /\ eof' \in BOOLEAN /\ readErr' \in BOOLEAN /\ empty' \in Nat
    BY <2>4 DEF TypeOK
  <2>. QED
    BY <1>2, <2>1, <2>3, <2>4, <2>5, <2>6, <2>7, <2>8
<1>. QED
  BY <1>4, <1>5 DEF CompactAndRead

(* tryFrameAt accepts exactly a sound frame that is all in view, and one   *)
(* that is not yet is called short.                                        *)
LEMMA TryFrameAtIsSound ==
  ASSUME NEW c \in Cell, NEW have \in Nat, NEW m \in CRCModes
  PROVE  /\ TryFrameAt(c, have, m) = "ok" <=> Sound(c, m) /\ c.size <= have
         /\ Sound(c, m) /\ c.size > have => TryFrameAt(c, have, m) = "short"
<1>1. c.size \in Nat /\ EAC3SyncInfoSize <= c.size /\ c.sync \in SyncKinds
      /\ c.bsi \in BsiKinds /\ EAC3SyncInfoSize \in Nat
  BY SizesAssumption DEF Cell
<1>2. CASE have < EAC3SyncInfoSize
  <2>1. TryFrameAt(c, have, m) = "short"
    BY <1>2 DEF TryFrameAt, ParseHeader, ParseSyncInfo
  <2>. QED
    BY <1>1, <1>2, <2>1
<1>3. CASE ~(have < EAC3SyncInfoSize)
  <2>1. ParseSyncInfo(c, have) = "ok" <=> c.sync = "syncinfo"
    BY <1>1, <1>3 DEF ParseSyncInfo, SyncKinds
  <2>2. ParseHeader(c, have) = "ok" <=> c.sync = "syncinfo" /\ c.bsi = "whole"
    BY <1>1, <2>1 DEF ParseHeader, BsiKinds
  <2>. QED
    BY <1>1, <2>2 DEF TryFrameAt, Sound
<1>. QED
  BY <1>2, <1>3

-----------------------------------------------------------------------------
(* The invariant holds of a reader that has just been made.                *)
LEMMA InitIsInv == Init => IInv
<1>. SUFFICES ASSUME Init PROVE IInv
  OBVIOUS
<1>1. stream \in Streams /\ Len(stream) \in Nat
  BY StreamCells DEF Init
<1>2. TypeOK
  <2>1. end = 0 /\ start = 0 /\ 0 .. (end - 1) = {} /\ start \in 0 .. end
    BY DEF Init
  <2>2. buf \in [0 .. (end - 1) -> Nat]
    BY <2>1 DEF Init
  <2>3. capacity \in Nat /\ end <= capacity /\ 2 * MaxAnyFrameSize <= capacity
    BY <2>1, SizesAssumption DEF Init
  <2>4. source \in 0 .. Len(stream)
    BY <1>1 DEF Init
  <2>5. hdr \in [at : Nat, size : Nat] /\ cand \in [at : Nat, size : Nat]
    BY DEF Init, NoHeader
  <2>6. frame \in [from : Nat, len : Nat]
    BY DEF Init, NoSlice
  <2>7. taken \in Seq([at : Nat, size : Nat])
    BY DEF Init
  <2>8. /\ mode \in CRCModes /\ call \in CallNames
        /\ pc \in {"idle", "next", "found", "gather"}
        /\ result \in {"none", "frame", "EOF", "readErr", "byteOrder"}
    BY DEF Init, CRCModes, CallNames
  <2>9. /\ eof \in BOOLEAN /\ readErr \in BOOLEAN /\ empty \in Nat
        /\ skipped \in Nat /\ frames \in Nat /\ handed \in Nat
        /\ size \in Nat /\ n \in Nat /\ end \in Nat
    BY DEF Init
  <2>. QED
    BY <1>1, <2>1, <2>2, <2>3, <2>4, <2>5, <2>6, <2>7, <2>8, <2>9 DEF TypeOK
<1>3. WindowIsStream /\ InFlightIsHeld
  BY DEF Init, WindowIsStream, InFlightIsHeld
<1>4. EveryByteIsAccounted
  BY DEF Init, EveryByteIsAccounted, InFlight, Position, Avail
<1>. QED
  BY <1>2, <1>3, <1>4 DEF IInv

(* What leaves the buffer alone leaves its window alone.                   *)
LEMMA WindowUntouched ==
  WindowIsStream /\ UNCHANGED <<source, buf, end>> => WindowIsStream'
BY DEF WindowIsStream

(* Weighing changes the headers only, and to headers.                      *)
LEMMA WeighKeepsTypes ==
  ASSUME TypeOK, WindowIsStream, Avail > 0, Weigh
  PROVE  /\ hdr' \in [at : Nat, size : Nat]
         /\ cand' \in [at : Nat, size : Nat]
         /\ Candidate \in [at : Nat, size : Nat]
         /\ Here.size \in Nat /\ Offset = Position /\ Here \in Cell
<1>1. /\ Offset = Position /\ Here \in Cell /\ Position \in Nat
  BY HereIsPosition
<1>2. Here.size \in Nat
  BY <1>1, SizesAssumption DEF Cell
<1>3. Candidate \in [at : Nat, size : Nat]
  BY <1>1, <1>2 DEF Candidate
<1>. QED
  BY <1>1, <1>2, <1>3 DEF Weigh, TypeOK

(* A read, wherever in a call it is made, that keeps the buffer from index *)
(* `from' on: up to `start' that is the unit being gathered.  It leaves    *)
(* the reader's place in the stream where it was.                          *)
ReadBehind(from) ==
  /\ CompactAndRead(from)
  /\ start' = start - from
  /\ UNCHANGED <<mode, frame, frames, taken, skipped, pc, call, size, n,
                 result, handed>>
  /\ hdr' \in [at : Nat, size : Nat] /\ cand' \in [at : Nat, size : Nat]
  /\ \/ pc = "next"
     \/ pc = "gather" /\ size = start - from

LEMMA MovedIndices ==
  ASSUME NEW s \in Nat, NEW e \in Nat, NEW from \in Nat, NEW old \in Nat,
         NEW new \in Nat, from <= s, s <= e, old <= new
  PROVE  /\ s - from \in Nat
         /\ s - from <= (e - from) + (new - old)
         /\ new - (((e - from) + (new - old)) - (s - from)) = old - (e - s)
OBVIOUS

LEMMA ReadKeepsInv ==
  ASSUME IInv, NEW from \in 0 .. start, ReadBehind(from)
  PROVE  IInv' /\ Position' = Position
<1>0. TypeOK /\ WindowIsStream /\ InFlightIsHeld /\ EveryByteIsAccounted
  BY DEF IInv
<1>1. /\ stream' = stream
      /\ source' \in Nat /\ source <= source' /\ source' <= Len(stream)
      /\ end' \in Nat /\ end' = (end - from) + (source' - source)
      /\ buf' \in [0 .. (end' - 1) -> Nat]
      /\ capacity' \in Nat /\ end' <= capacity'
      /\ 2 * MaxAnyFrameSize <= capacity'
      /\ eof' \in BOOLEAN /\ readErr' \in BOOLEAN /\ empty' \in Nat
      /\ WindowIsStream'
  BY <1>0, ReadKeepsWindow DEF ReadBehind
<1>2. /\ start \in Nat /\ end \in Nat /\ from \in Nat /\ from <= start
      /\ start <= end /\ source \in Nat /\ Len(stream) \in Nat
  BY <1>0, StreamCells DEF TypeOK
<1>a. /\ start' = start - from /\ end' = (end - from) + (source' - source)
      /\ source' \in Nat /\ source <= source'
  BY <1>1 DEF ReadBehind
<1>b. /\ start - from \in Nat
      /\ start - from <= (end - from) + (source' - source)
      /\ source' - (((end - from) + (source' - source)) - (start - from))
           = source - (end - start)
  <2>. DEFINE new == source'
  <2>1. new \in Nat /\ source <= new
    BY <1>a
  <2>. HIDE DEF new
  <2>2. /\ start - from \in Nat
        /\ start - from <= (end - from) + (new - source)
        /\ new - (((end - from) + (new - source)) - (start - from))
             = source - (end - start)
    BY <1>2, <2>1, MovedIndices
  <2>. QED
    BY <2>2 DEF new
<1>3. start' \in 0 .. end' /\ source' \in 0 .. Len(stream')
  <2>1. start' \in Nat /\ start' <= end' /\ end' \in Nat
    BY <1>1, <1>a, <1>b
  <2>2. source' \in 0 .. Len(stream')
    BY <1>1, <1>2
  <2>. QED
    BY <2>1, <2>2
<1>4. TypeOK'
  BY <1>0, <1>1, <1>3 DEF TypeOK, ReadBehind
<1>5. Position' = Position
  BY <1>a, <1>b DEF Position, Avail
<1>6. InFlightIsHeld'
  <2>1. pc' = "gather" => size' <= start'
    BY <1>2 DEF ReadBehind
  <2>2. pc' # "found"
    BY DEF ReadBehind
  <2>. QED
    BY <2>1, <2>2 DEF InFlightIsHeld
<1>7. EveryByteIsAccounted'
  BY <1>0, <1>5 DEF EveryByteIsAccounted, InFlight, ReadBehind
<1>. QED
  BY <1>1, <1>4, <1>5, <1>6, <1>7 DEF IInv

(* The three reads of the reader are such: two keep what is not yet taken, *)
(* and the third keeps the unit gathered so far as well.                   *)
LEMMA ReadsAreBehind ==
  ASSUME IInv
  PROVE  /\ Fill \/ AwaitRest => start \in 0 .. start /\ ReadBehind(start)
         /\ GatherMore => /\ start - size \in 0 .. start
                          /\ ReadBehind(start - size)
<1>0. TypeOK /\ WindowIsStream /\ InFlightIsHeld
  BY DEF IInv
<1>a. /\ start \in Nat /\ end \in Nat /\ start <= end
      /\ Avail \in Nat /\ Avail = end - start
  BY <1>0, HereIsPosition DEF TypeOK, Avail
<1>1. ASSUME Fill PROVE start \in 0 .. start /\ ReadBehind(start)
  <2>1. /\ pc = "next" /\ CompactAndRead(start) /\ start' = 0
        /\ UNCHANGED <<mode, found, skipped, pc, call, unit, result, handed>>
    BY <1>1 DEF Fill
  <2>2. start' = start - start /\ start \in 0 .. start
    BY <1>a, <2>1
  <2>3. hdr' \in [at : Nat, size : Nat] /\ cand' \in [at : Nat, size : Nat]
    BY <1>0, <2>1 DEF TypeOK, found
  <2>4. ReadBehind(start)
    BY <2>1, <2>2, <2>3 DEF ReadBehind, found, unit
  <2>. QED
    BY <2>2, <2>4
<1>2. ASSUME AwaitRest PROVE start \in 0 .. start /\ ReadBehind(start)
  <2>1. Avail > 0
    BY <1>a, <1>2, SizesAssumption DEF AwaitRest, Weighing
  <2>2. hdr' \in [at : Nat, size : Nat] /\ cand' \in [at : Nat, size : Nat]
    BY <1>0, <1>2, <2>1, WeighKeepsTypes DEF AwaitRest
  <2>3. /\ pc = "next" /\ CompactAndRead(start) /\ start' = 0
        /\ UNCHANGED <<mode, frame, frames, taken, skipped, pc, call, unit,
                       result, handed>>
    BY <1>2 DEF AwaitRest, Weighing
  <2>4. start' = start - start /\ start \in 0 .. start
    BY <1>a, <2>3
  <2>5. ReadBehind(start)
    BY <2>2, <2>3, <2>4 DEF ReadBehind, unit
  <2>. QED
    BY <2>4, <2>5
<1>3. ASSUME GatherMore PROVE start - size \in 0 .. start /\ ReadBehind(start - size)
  <2>1. /\ pc = "gather" /\ CompactAndRead(start - size) /\ start' = size
        /\ UNCHANGED <<mode, found, skipped, pc, call, unit, result, handed>>
    BY <1>3 DEF GatherMore, Gathering
  <2>2. size \in Nat /\ size <= start
    BY <1>0, <2>1 DEF TypeOK, InFlightIsHeld
  <2>3. start - size \in 0 .. start /\ start' = start - (start - size)
        /\ size = start - (start - size)
    BY <1>a, <2>1, <2>2
  <2>4. hdr' \in [at : Nat, size : Nat] /\ cand' \in [at : Nat, size : Nat]
    BY <1>0, <2>1 DEF TypeOK, found
  <2>5. ReadBehind(start - size)
    BY <2>1, <2>3, <2>4 DEF ReadBehind, found, unit
  <2>. QED
    BY <2>3, <2>5
<1>. QED
  BY <1>1, <1>2, <1>3

(* The invariant survives every step.                                      *)
LEMMA StepKeepsInv == IInv /\ [Next]_vars => IInv'
<1>. SUFFICES ASSUME IInv, [Next]_vars PROVE IInv'
  OBVIOUS
<1>0. TypeOK /\ WindowIsStream /\ InFlightIsHeld /\ EveryByteIsAccounted
  BY DEF IInv
<1>a. /\ start \in Nat /\ end \in Nat /\ start <= end /\ source \in Nat
      /\ Avail \in Nat /\ Avail = end - start /\ Position \in Nat
      /\ Position = source - Avail /\ skipped \in Nat /\ handed \in Nat
  BY <1>0, HereIsPosition DEF TypeOK, Avail, Position
<1>1. CASE UNCHANGED vars
  BY <1>0, <1>1
  DEF IInv, TypeOK, WindowIsStream, InFlightIsHeld, EveryByteIsAccounted,
      InFlight, Position, Avail, vars, input, store, found, unit
<1>2. ASSUME NEW name \in CallNames, Call(name) PROVE IInv'
  BY <1>0, <1>2
  DEF Call, IInv, TypeOK, WindowIsStream, InFlightIsHeld, EveryByteIsAccounted,
      InFlight, Position, Avail, input, store, found, unit
<1>3. CASE SetCRCMode
  <2>1. mode' \in CRCModes
    BY <1>3, ReaderAssumption DEF SetCRCMode
  <2>. QED
    BY <1>0, <1>3, <2>1
    DEF SetCRCMode, IInv, TypeOK, WindowIsStream, InFlightIsHeld,
        EveryByteIsAccounted, InFlight, Position, Avail, input, store, found,
        unit
<1>4. CASE Fill
  BY <1>4, ReadsAreBehind, ReadKeepsInv
<1>5. CASE EndOfStream
  BY <1>0, <1>5
  DEF EndOfStream, Return, IInv, TypeOK, WindowIsStream, InFlightIsHeld,
      EveryByteIsAccounted, InFlight, Position, Avail, input, store, found, unit
<1>6. CASE DropTail
  <2>1. skipped' = skipped + Avail /\ start' = end /\ end' = end
    BY <1>6 DEF DropTail, Discard
  <2>2. TypeOK'
    <3>1. skipped' \in Nat /\ start' \in 0 .. end'
      BY <1>a, <2>1
    <3>2. /\ UNCHANGED <<input, mode, buf, end, capacity, eof, readErr, empty,
                         found, call, unit, handed>>
          /\ pc' = "idle" /\ result' = "EOF"
      BY <1>6 DEF DropTail, Return
    <3>. QED
      BY <1>0, <3>1, <3>2 DEF TypeOK, input, found, unit
  <2>3. WindowIsStream'
    BY <1>0, <1>6, WindowUntouched DEF DropTail, input
  <2>4. EveryByteIsAccounted'
    BY <1>0, <1>a, <1>6, <2>1
    DEF DropTail, Return, EveryByteIsAccounted, InFlight, Position, Avail,
        input, unit
  <2>. QED
    BY <1>6, <2>2, <2>3, <2>4 DEF IInv, InFlightIsHeld, DropTail, Return
<1>7. CASE TakeFrame
  <2>1. /\ Avail > 0 /\ Here.size \in Nat /\ Here.size <= Avail
        /\ hdr' \in [at : Nat, size : Nat] /\ cand' \in [at : Nat, size : Nat]
        /\ Candidate \in [at : Nat, size : Nat]
    <3>1. Avail > 0
      BY <1>a, <1>7, SizesAssumption DEF TakeFrame, Weighing
    <3>2. Here.size \in Nat /\ Here \in Cell
      BY <1>0, <1>7, <3>1, WeighKeepsTypes DEF TakeFrame
    <3>3. mode \in CRCModes
      BY <1>0 DEF TypeOK
    <3>4. Here.size <= Avail
      BY <1>a, <1>7, <3>2, <3>3, TryFrameAtIsSound DEF TakeFrame, Verdict
    <3>. QED
      BY <1>0, <1>7, <3>1, <3>2, <3>4, WeighKeepsTypes DEF TakeFrame
  <2>2. /\ start' = start + Here.size /\ frame' = [from |-> start, len |-> Here.size]
        /\ UNCHANGED <<input, mode, buf, end, capacity, eof, readErr, empty>>
        /\ frames' = frames + 1 /\ taken' = Append(taken, Candidate)
        /\ UNCHANGED <<skipped, call, unit>>
    BY <1>7 DEF TakeFrame, Consume
  <2>3. start' \in 0 .. end'
    BY <1>a, <2>1, <2>2
  <2>4. taken' \in Seq([at : Nat, size : Nat]) /\ frames' \in Nat
    BY <1>0, <2>1, <2>2 DEF TypeOK
  <2>5. frame' \in [from : Nat, len : Nat]
    BY <1>a, <2>1, <2>2
  <2>6. \/ pc' = "idle" /\ result' = "frame" /\ handed' = handed + Here.size
        \/ pc' = "found" /\ UNCHANGED <<result, handed>>
    BY <1>7 DEF TakeFrame
  <2>7. handed' \in Nat
    BY <1>a, <2>1, <2>6
  <2>8. TypeOK'
    BY <1>0, <2>1, <2>2, <2>3, <2>4, <2>5, <2>6, <2>7 DEF TypeOK, input, unit
  <2>9. WindowIsStream'
    BY <1>0, <2>2, WindowUntouched DEF input
  <2>10. InFlightIsHeld'
    BY <2>2, <2>6 DEF InFlightIsHeld
  <2>11. EveryByteIsAccounted'
    <3>1. InFlight = 0
      BY <1>7 DEF TakeFrame, Weighing, InFlight
    <3>2. Position' = Position + Here.size
      <4>1. source' = source /\ end' = end /\ start' = start + Here.size
        BY <2>2 DEF input
      <4>2. Position' = source - (end - (start + Here.size))
        BY <4>1 DEF Position, Avail
      <4>. QED
        BY <1>a, <2>1, <4>2 DEF Position, Avail
    <3>3. \/ handed' = handed + Here.size /\ InFlight' = 0
          \/ handed' = handed /\ InFlight' = Here.size
      BY <2>2, <2>6 DEF InFlight
    <3>4. skipped' = skipped /\ skipped + handed = Position
      BY <1>0, <1>a, <2>2, <3>1 DEF EveryByteIsAccounted
    <3>. QED
      BY <1>a, <2>1, <3>2, <3>3, <3>4 DEF EveryByteIsAccounted
  <2>. QED
    BY <2>8, <2>9, <2>10, <2>11 DEF IInv
<1>8. CASE ReportByteOrder
  BY <1>0, <1>8
  DEF ReportByteOrder, Weighing, Return, IInv, TypeOK, WindowIsStream,
      InFlightIsHeld, EveryByteIsAccounted, InFlight, Position, Avail, input,
      store, found, unit
<1>9. CASE AwaitRest
  BY <1>9, ReadsAreBehind, ReadKeepsInv
<1>10. CASE Resync
  <2>1. Avail > 0
    BY <1>a, <1>10, SizesAssumption DEF Resync, Weighing
  <2>2. hdr' \in [at : Nat, size : Nat] /\ cand' \in [at : Nat, size : Nat]
    BY <1>0, <1>10, <2>1, WeighKeepsTypes DEF Resync
  <2>3. ToNextSyncword \in 1 .. Avail
    BY <1>0, <2>1, ScanStaysInView
  <2>4. /\ start' = start + ToNextSyncword /\ skipped' = skipped + ToNextSyncword
        /\ UNCHANGED <<input, mode, buf, end, capacity, eof, readErr, empty,
                       frame, frames, taken, pc, call, unit, result, handed>>
        /\ pc = "next"
    BY <1>10 DEF Resync, Discard, Weighing
  <2>5. start' \in 0 .. end' /\ skipped' \in Nat
    BY <1>a, <2>3, <2>4
  <2>6. TypeOK'
    BY <1>0, <2>2, <2>4, <2>5 DEF TypeOK, input, unit
  <2>7. WindowIsStream'
    BY <1>0, <2>4, WindowUntouched DEF input
  <2>8. EveryByteIsAccounted'
    <3>1. InFlight = 0 /\ InFlight' = 0
      BY <2>4 DEF InFlight
    <3>2. Position' = Position + ToNextSyncword
      BY <1>a, <2>3, <2>4 DEF Position, Avail, input
    <3>. QED
      BY <1>0, <1>a, <2>3, <2>4, <3>1, <3>2 DEF EveryByteIsAccounted
  <2>. QED
    BY <2>4, <2>6, <2>7, <2>8 DEF IInv, InFlightIsHeld
<1>11. CASE DropOrphan
  <2>1. /\ skipped' = skipped + frame.len /\ pc = "found" /\ pc' = "next"
        /\ UNCHANGED <<input, mode, store, found, call, unit, result, handed>>
    BY <1>11 DEF DropOrphan, Discard
  <2>2. frame.len \in Nat
    BY <1>0 DEF TypeOK
  <2>3. TypeOK'
    BY <1>0, <2>1, <2>2 DEF TypeOK, input, store, found, unit
  <2>4. WindowIsStream'
    BY <1>0, <2>1, WindowUntouched DEF input, store
  <2>5. EveryByteIsAccounted'
    <3>1. InFlight = frame.len /\ InFlight' = 0 /\ Position' = Position
      BY <2>1 DEF InFlight, Position, Avail, input, store
    <3>. QED
      BY <1>0, <1>a, <2>1, <2>2, <3>1 DEF EveryByteIsAccounted
  <2>. QED
    BY <2>1, <2>3, <2>4, <2>5 DEF IInv, InFlightIsHeld
<1>12. CASE OpenUnit
  <2>1. /\ size' = frame.len /\ n' = 1 /\ pc = "found" /\ pc' = "gather"
        /\ UNCHANGED <<input, mode, store, found, skipped, call, result, handed>>
    BY <1>12 DEF OpenUnit
  <2>2. frame.len \in Nat /\ frame.from \in Nat /\ frame.from + frame.len = start
    BY <1>0, <2>1 DEF TypeOK, InFlightIsHeld
  <2>3. TypeOK'
    BY <1>0, <2>1, <2>2 DEF TypeOK, input, store, found
  <2>4. WindowIsStream'
    BY <1>0, <2>1, WindowUntouched DEF input, store
  <2>5. InFlightIsHeld'
    BY <1>a, <2>1, <2>2 DEF InFlightIsHeld, store
  <2>6. EveryByteIsAccounted'
    <3>1. InFlight' = InFlight /\ Position' = Position
      BY <2>1 DEF InFlight, Position, Avail, input, store
    <3>. QED
      BY <1>0, <2>1, <3>1 DEF EveryByteIsAccounted
  <2>. QED
    BY <2>3, <2>4, <2>5, <2>6 DEF IInv
<1>13. CASE GatherMore
  BY <1>13, ReadsAreBehind, ReadKeepsInv
<1>14. CASE GatherFrame
  <2>1. /\ Avail > 0 /\ Here.size \in Nat /\ Here.size <= Avail
        /\ hdr' \in [at : Nat, size : Nat] /\ cand' \in [at : Nat, size : Nat]
        /\ Candidate \in [at : Nat, size : Nat]
    <3>1. Avail > 0
      BY <1>a, <1>14, SizesAssumption DEF GatherFrame, Short
    <3>2. Here.size \in Nat /\ Here \in Cell
      BY <1>0, <1>14, <3>1, WeighKeepsTypes DEF GatherFrame
    <3>3. mode \in CRCModes
      BY <1>0 DEF TypeOK
    <3>4. Here.size <= Avail
      BY <1>a, <1>14, <3>2, <3>3, TryFrameAtIsSound DEF GatherFrame, Verdict
    <3>. QED
      BY <1>0, <1>14, <3>1, <3>2, <3>4, WeighKeepsTypes DEF GatherFrame
  <2>2. /\ start' = start + Here.size /\ size' = size + Here.size /\ n' = n + 1
        /\ UNCHANGED <<input, mode, buf, end, capacity, eof, readErr, empty>>
        /\ frames' = frames + 1 /\ taken' = Append(taken, Candidate)
        /\ UNCHANGED <<frame, skipped, pc, call, result, handed>>
        /\ pc = "gather"
    BY <1>14 DEF GatherFrame, Consume, Gathering
  <2>3. start' \in 0 .. end'
    BY <1>a, <2>1, <2>2
  <2>4. /\ taken' \in Seq([at : Nat, size : Nat]) /\ frames' \in Nat
        /\ size \in Nat /\ size' \in Nat /\ n' \in Nat
    <3>1. taken \in Seq([at : Nat, size : Nat])
      BY <1>0 DEF TypeOK
    <3>2. taken' \in Seq([at : Nat, size : Nat])
      BY <2>1, <2>2, <3>1
    <3>3. frames \in Nat /\ size \in Nat /\ n \in Nat
      BY <1>0 DEF TypeOK
    <3>. QED
      BY <2>1, <2>2, <3>2, <3>3
  <2>5. TypeOK'
    BY <1>0, <2>1, <2>2, <2>3, <2>4 DEF TypeOK, input
  <2>6. WindowIsStream'
    BY <1>0, <2>2, WindowUntouched DEF input
  <2>7. InFlightIsHeld'
    <3>1. size <= start /\ size \in Nat /\ start \in Nat
      BY <1>0, <2>2, <2>4 DEF InFlightIsHeld, TypeOK
    <3>2. \A more \in Nat : size + more <= start + more
      BY <3>1
    <3>3. size' <= start'
      BY <2>1, <2>2, <3>2
    <3>. QED
      BY <2>2, <3>3 DEF InFlightIsHeld
  <2>8. EveryByteIsAccounted'
    <3>1. InFlight = size /\ InFlight' = size + Here.size
      BY <2>2 DEF InFlight
    <3>2. Position' = Position + Here.size
      <4>1. source' = source /\ end' = end /\ start' = start + Here.size
        BY <2>2 DEF input
      <4>. QED
        BY <1>a, <2>1, <4>1 DEF Position, Avail
    <3>3. /\ skipped' = skipped /\ handed' = handed
          /\ skipped + handed + size = Position
      BY <1>0, <2>2, <3>1 DEF EveryByteIsAccounted
    <3>4. skipped + handed + (size + Here.size) = Position + Here.size
      <4>. DEFINE more == Here.size
      <4>1. more \in Nat /\ skipped + handed + size = Position
        BY <2>1, <3>3
      <4>. HIDE DEF more
      <4>2. skipped + handed + (size + more) = Position + more
        BY <1>a, <2>4, <4>1
      <4>. QED
        BY <4>2 DEF more
    <3>5. skipped' + handed' + InFlight' = Position'
      BY <3>1, <3>2, <3>3, <3>4
    <3>. QED
      BY <3>5 DEF EveryByteIsAccounted
  <2>. QED
    BY <2>5, <2>6, <2>7, <2>8 DEF IInv
<1>15. CASE CloseUnit
  <2>1. /\ pc = "gather" /\ pc' = "idle" /\ result' = "frame"
        /\ frame' = [from |-> start - size, len |-> size]
        /\ handed' = handed + size
        /\ UNCHANGED <<input, mode, store, frames, taken, skipped, call, unit>>
    BY <1>15 DEF CloseUnit, Unit
  <2>2. size \in Nat /\ size <= start
    BY <1>0, <2>1 DEF TypeOK, InFlightIsHeld
  <2>3. hdr' \in [at : Nat, size : Nat] /\ cand' \in [at : Nat, size : Nat]
    <3>1. CASE UnitEnds
      BY <1>0, <1>15, <3>1 DEF CloseUnit, TypeOK
    <3>2. CASE ~UnitEnds
      <4>1. ~Short /\ Weigh
        BY <1>15, <3>2 DEF CloseUnit
      <4>2. Avail > 0
        BY <1>a, <4>1, SizesAssumption DEF Short
      <4>. QED
        BY <1>0, <4>1, <4>2, WeighKeepsTypes
    <3>. QED
      BY <3>1, <3>2
  <2>4. frame' \in [from : Nat, len : Nat] /\ handed' \in Nat
    BY <1>a, <2>1, <2>2
  <2>5. TypeOK'
    BY <1>0, <2>1, <2>3, <2>4 DEF TypeOK, input, store, unit
  <2>6. WindowIsStream'
    BY <1>0, <2>1, WindowUntouched DEF input, store
  <2>7. EveryByteIsAccounted'
    <3>1. InFlight = size /\ InFlight' = 0 /\ Position' = Position
      BY <2>1 DEF InFlight, Position, Avail, input, store
    <3>. QED
      BY <1>0, <1>a, <2>1, <2>2, <3>1 DEF EveryByteIsAccounted
  <2>. QED
    BY <2>1, <2>5, <2>6, <2>7 DEF IInv, InFlightIsHeld
<1>. QED
  BY <1>1, <1>2, <1>3, <1>4, <1>5, <1>6, <1>7, <1>8, <1>9, <1>10, <1>11, <1>12,
     <1>13, <1>14, <1>15
  DEF Next, Step, CallNext, CallNextAccessUnit, CallNames

(* The reader's state is well typed, its buffer a window on the stream     *)
(* (readMore and compact, framereader.go:348-396), whatever the source     *)
(* answers.                                                                *)
THEOREM BufferIsAlwaysAWindow == Spec => [](TypeOK /\ WindowIsStream)
<1>1. IInv => TypeOK /\ WindowIsStream
  BY DEF IInv
<1>. QED
  BY <1>1, InitIsInv, StepKeepsInv, PTL DEF Spec

(* Either half of it, for readers of the two run properties.               *)
THEOREM IndicesStayInTheBuffer == Spec => []TypeOK
<1>. QED
  BY BufferIsAlwaysAWindow, PTL

(* The buffer holds the bytes before the source's position, in order and   *)
(* without a gap, however reads cut the stream and wherever it was moved.  *)
THEOREM BufferLosesNothing == Spec => []WindowIsStream
<1>. QED
  BY BufferIsAlwaysAWindow, PTL

(* At every moment of every call, what was skipped, what was handed over   *)
(* and what is held for the caller add up to the reader's place in the     *)
(* stream.                                                                 *)
THEOREM NoByteIsLostOrCountedTwice == Spec => []EveryByteIsAccounted
<1>1. IInv => EveryByteIsAccounted
  BY DEF IInv
<1>. QED
  BY <1>1, InitIsInv, StepKeepsInv, PTL DEF Spec

-----------------------------------------------------------------------------
(* Refinement: what each step does to the walk of the stream.              *)

(* Framing reads the cells of a stream as FrameReader does.                *)
LEMMA SameStream ==
  /\ \A s, p : F!CellAt(s, p) = CellAt(s, p)
  /\ \A c, m : F!Sound(c, m) <=> Sound(c, m)
  /\ F!CRCModes = CRCModes
BY DEF F!CellAt, CellAt, F!Sound, Sound, F!WordsWeighed, WordsWeighed,
       F!CRCModes, CRCModes

(* A read brings bytes of the stream in and moves the reader nowhere.      *)
LEMMA ReadArrives ==
  ASSUME IInv, NEW from \in 0 .. start, ReadBehind(from)
  PROVE  F!Arrive \/ UNCHANGED F!vars
<1>0. TypeOK /\ WindowIsStream
  BY DEF IInv
<1>1. /\ stream' = stream
      /\ source' \in Nat /\ source <= source' /\ source' <= Len(stream)
      /\ eof' \in BOOLEAN /\ (eof => source' = source /\ eof' = eof)
  BY <1>0, ReadKeepsWindow DEF ReadBehind
<1>2. Position' = Position /\ mode' = mode /\ taken' = taken
  BY ReadKeepsInv DEF ReadBehind
<1>3. source \in Nat /\ Len(stream) \in Nat /\ eof \in BOOLEAN
  BY <1>0, StreamCells DEF TypeOK
<1>4. CASE eof
  BY <1>1, <1>2, <1>4 DEF F!vars
<1>5. CASE ~eof
  <2>1. source' \in source .. Len(stream)
    BY <1>1, <1>3
  <2>. QED
    BY <1>1, <1>2, <1>5, <2>1 DEF F!Arrive
<1>. QED
  BY <1>4, <1>5

(* A candidate found to be a frame is one the abstract reader may take.    *)
LEMMA ConsumeTakes ==
  ASSUME TypeOK, WindowIsStream, Avail > 0, Verdict = "ok", Consume
  PROVE  F!Take
<1>1. /\ Avail \in Nat /\ Position \in Nat /\ Position + Avail = source
      /\ source \in Nat /\ Offset = Position /\ Here \in Cell
  BY HereIsPosition
<1>2. Here = CellAt(stream, Position)
  BY <1>1 DEF Here
<1>3. Sound(Here, mode) /\ Here.size <= Avail
  BY <1>1, TryFrameAtIsSound DEF Verdict, TypeOK
<1>4. Here.size \in Nat
  BY <1>1, SizesAssumption DEF Cell
<1>5. Position < source /\ Position + Here.size <= source
  BY <1>1, <1>3, <1>4
<1>6. taken' = Append(taken, F!Frame(Position))
  BY <1>1, <1>2, SameStream DEF Consume, Candidate, F!Frame
<1>7. /\ start' = start + Here.size /\ end' = end /\ source' = source
      /\ stream' = stream /\ mode' = mode /\ eof' = eof
  BY DEF Consume, input
<1>8. Position' = Position + Here.size
  <2>. DEFINE more == Here.size
  <2>1. more \in Nat /\ start' = start + more
    BY <1>4, <1>7
  <2>2. start \in Nat /\ end \in Nat /\ source \in Nat
    BY DEF TypeOK
  <2>. HIDE DEF more
  <2>3. source - (end - (start + more)) = source - (end - start) + more
    BY <2>1, <2>2
  <2>4. Position' = Position + more
    BY <1>7, <2>1, <2>3 DEF Position, Avail
  <2>. QED
    BY <2>4 DEF more
<1>. QED
  BY <1>2, <1>3, <1>5, <1>6, <1>7, <1>8, SameStream DEF F!Take

(* What the scan of Resync passes over holds no sound frame: neither the   *)
(* candidate that was turned away nor any byte up to the next syncword.    *)
LEMMA ResyncPasses ==
  ASSUME TypeOK, WindowIsStream, Resync
  PROVE  F!Pass
<1>1. SyncInfoSize \in Nat \ {0} /\ Avail >= SyncInfoSize
  BY SizesAssumption DEF Resync, Weighing
<1>2. /\ Avail \in Nat /\ Position \in Nat /\ Position + Avail = source
      /\ source \in Nat
  BY HereIsPosition
<1>3. Avail > 0
  BY <1>1, <1>2
<1>4. /\ Offset = Position /\ Here \in Cell /\ Here = CellAt(stream, Position)
      /\ Here.size \in Nat
  BY <1>3, HereIsPosition, SizesAssumption DEF Here, Cell
<1>5. /\ ToNextSyncword \in 1 .. Avail
      /\ \A k \in 1 .. (ToNextSyncword - 1) :
           ~OpensSyncword(CellAt(stream, Position + k))
  BY <1>3, ScanStaysInView
<1>6. /\ start' = start + ToNextSyncword
      /\ UNCHANGED <<stream, source, mode, end, eof, taken>>
  BY DEF Resync, input
<1>7. Position' = Position + ToNextSyncword
  <2>1. start \in Nat /\ end \in Nat /\ ToNextSyncword \in Nat
    BY <1>2, <1>5 DEF TypeOK
  <2>. QED
    BY <1>2, <1>6, <2>1 DEF Position, Avail
<1>8. F!Hopeless(Position)
  <2>1. Verdict # "ok" /\ (Verdict # "short" \/ eof)
    BY DEF Resync, Awaited
  <2>2. \/ ~Sound(Here, mode)
        \/ eof /\ Here.size > Avail
    BY <1>2, <1>4, <2>1, TryFrameAtIsSound DEF Verdict, TypeOK
  <2>3. Here.size > Avail => Position + Here.size > source
    BY <1>2, <1>4
  <2>. QED
    BY <1>4, <2>2, <2>3, SameStream DEF F!Hopeless
<1>9. ASSUME NEW p \in Position .. (Position' - 1)
      PROVE  F!Hopeless(p)
  <2>1. CASE p = Position
    BY <1>8, <2>1
  <2>2. CASE p # Position
    <3>1. /\ p - Position \in 1 .. (ToNextSyncword - 1)
          /\ Position + (p - Position) = p
      BY <1>2, <1>5, <1>7, <2>2
    <3>2. ~OpensSyncword(CellAt(stream, p))
      BY <1>5, <3>1
    <3>. QED
      BY <3>2, SameStream DEF F!Hopeless, Sound, OpensSyncword
  <2>. QED
    BY <2>1, <2>2
<1>10. Position' \in (Position + 1) .. source
  BY <1>2, <1>5, <1>7
<1>. QED
  BY <1>6, <1>9, <1>10 DEF F!Pass

(* The last bytes, too few for a syncinfo, hold no sound frame either.     *)
LEMMA DropTailPasses ==
  ASSUME TypeOK, WindowIsStream, DropTail
  PROVE  F!Pass
<1>1. /\ Avail \in 1 .. (SyncInfoSize - 1) /\ start' = end /\ ~MustFill
      /\ UNCHANGED <<stream, source, mode, end, eof, taken>>
  BY DEF DropTail, Discard, Return, input, found
<1>2. /\ Avail \in Nat /\ Position \in Nat /\ Position + Avail = source
      /\ source \in Nat /\ Len(stream) \in Nat /\ source <= Len(stream)
      /\ end \in Nat
  BY HereIsPosition DEF TypeOK
<1>3. /\ SyncInfoSize \in Nat /\ EAC3SyncInfoSize \in Nat
      /\ MaxAnyFrameSize \in Nat /\ SyncInfoSize < EAC3SyncInfoSize
      /\ EAC3SyncInfoSize <= MaxAnyFrameSize
  BY SizesAssumption
<1>4. eof
  BY <1>1, <1>2, <1>3 DEF MustFill
<1>5. Position' = source
  BY <1>1, <1>2 DEF Position, Avail
<1>6. ASSUME NEW p \in Position .. (Position' - 1)
      PROVE  F!Hopeless(p)
  <2>1. p \in 0 .. (Len(stream) - 1) /\ p >= Position
    BY <1>2, <1>5
  <2>2. CellAt(stream, p) \in Cell
    BY <2>1, StreamCells DEF TypeOK
  <2>3. /\ CellAt(stream, p).size \in Nat
        /\ EAC3SyncInfoSize <= CellAt(stream, p).size
    BY <1>3, <2>2 DEF Cell
  <2>4. p + CellAt(stream, p).size > source
    BY <1>1, <1>2, <1>3, <2>1, <2>3
  <2>. QED
    BY <1>4, <2>4, SameStream DEF F!Hopeless
<1>7. Position' \in (Position + 1) .. source
  BY <1>1, <1>2, <1>5
<1>. QED
  BY <1>1, <1>6, <1>7 DEF F!Pass

(* Every step of the reader is a step of the walk, or leaves it alone.     *)
LEMMA StepIsOfTheWalk == IInv /\ [Next]_vars => [F!Next]_(F!vars)
<1>. SUFFICES ASSUME IInv, [Next]_vars PROVE [F!Next]_(F!vars)
  OBVIOUS
<1>0. TypeOK /\ WindowIsStream
  BY DEF IInv
<1>1. CASE UNCHANGED vars
  BY <1>1 DEF vars, input, store, found, F!vars, Position, Avail
<1>2. CASE CallNext \/ CallNextAccessUnit
  BY <1>2
  DEF CallNext, CallNextAccessUnit, Call, input, store, found, F!vars, Position,
      Avail
<1>3. CASE SetCRCMode
  <2>1. mode' \in F!CRCModes
    BY <1>3, ReaderAssumption, SameStream DEF SetCRCMode
  <2>2. UNCHANGED <<stream, source, eof, Position, taken>>
    BY <1>3 DEF SetCRCMode, input, store, found, Position, Avail
  <2>. QED
    BY <2>1, <2>2 DEF F!Next, F!Narrow
<1>4. CASE Fill \/ AwaitRest
  BY <1>4, ReadsAreBehind, ReadArrives DEF F!Next
<1>5. CASE GatherMore
  BY <1>5, ReadsAreBehind, ReadArrives DEF F!Next
<1>6. CASE EndOfStream \/ ReportByteOrder
  BY <1>6
  DEF EndOfStream, ReportByteOrder, input, store, found, F!vars, Position, Avail
<1>7. CASE DropTail
  BY <1>0, <1>7, DropTailPasses DEF F!Next
<1>8. CASE TakeFrame
  <2>1. Avail > 0 /\ Verdict = "ok" /\ Consume
    BY <1>0, <1>8, HereIsPosition, SizesAssumption DEF TakeFrame, Weighing
  <2>. QED
    BY <1>0, <2>1, ConsumeTakes DEF F!Next
<1>9. CASE GatherFrame
  <2>1. Avail > 0 /\ Verdict = "ok" /\ Consume
    BY <1>0, <1>9, HereIsPosition, SizesAssumption DEF GatherFrame, Short
  <2>. QED
    BY <1>0, <2>1, ConsumeTakes DEF F!Next
<1>10. CASE Resync
  BY <1>0, <1>10, ResyncPasses DEF F!Next
<1>11. CASE DropOrphan \/ OpenUnit \/ CloseUnit
  BY <1>11
  DEF DropOrphan, OpenUnit, CloseUnit, input, store, found, F!vars, Position,
      Avail
<1>. QED
  BY <1>1, <1>2, <1>3, <1>4, <1>5, <1>6, <1>7, <1>8, <1>9, <1>10, <1>11
  DEF Next, Step

(* Whatever the stream, the sizes and the source's reads, Next and         *)
(* NextAccessUnit take every sound frame met on one walk of the stream and *)
(* pass over no byte at which one could be cut out (framereader.go:137-194 *)
(* and :213-265).                                                          *)
THEOREM ReaderWalksTheStream == Spec => FramingSpec
<1>1. Init => F!Init
  BY DEF Init, F!Init, Position, Avail
<1>. QED
  BY <1>1, InitIsInv, StepKeepsInv, StepIsOfTheWalk, PTL
  DEF Spec, FramingSpec, F!Spec

-----------------------------------------------------------------------------
(* What ends a unit that is not full is that nothing sound goes on with it *)
(* and is all there, or may still come.                                    *)
LEMMA NothingGoesOn ==
  ASSUME TypeOK, WindowIsStream, CloseUnit, n # MaxAccessUnitFrames,
         Position < Len(stream)
  PROVE  LET next == CellAt(stream, Position)
         IN  \/ ~Sound(next, mode) \/ next.advances
             \/ eof /\ Position + next.size > source
<1> DEFINE next == CellAt(stream, Position)
<1>1. /\ Avail \in Nat /\ Position \in Nat /\ Position + Avail = source
      /\ source \in Nat /\ Len(stream) \in Nat
  BY HereIsPosition
<1>2. next \in Cell
  <2>1. Position \in 0 .. (Len(stream) - 1)
    BY <1>1
  <2>. QED
    BY <2>1, StreamCells DEF TypeOK
<1>3. /\ next.size \in Nat /\ EAC3SyncInfoSize <= next.size
      /\ EAC3SyncInfoSize \in Nat \ {0}
  BY <1>2, SizesAssumption DEF Cell
<1>4. Avail > 0 => Here = next
  BY HereIsPosition DEF Here
<1>5. CASE Elsewhere
  <2>1. Avail > 0 /\ Avail >= EAC3SyncInfoSize
    BY <1>1, <1>3, <1>5 DEF Elsewhere
  <2>2. ParseSyncInfo(next, Avail) # "ok" \/ next.advances
    BY <1>4, <1>5, <2>1 DEF Elsewhere
  <2>3. next.sync = "syncinfo" => ParseSyncInfo(next, Avail) = "ok"
    BY <1>1, <1>3, <2>1 DEF ParseSyncInfo
  <2>. QED
    BY <2>2, <2>3 DEF Sound
<1>6. CASE Short /\ eof
  <2>1. Avail < next.size
    <3>1. CASE Avail < EAC3SyncInfoSize
      BY <1>1, <1>3, <3>1
    <3>2. CASE Avail >= EAC3SyncInfoSize /\ Avail < Here.size
      BY <1>1, <1>3, <1>4, <3>2
    <3>. QED
      BY <1>6, <3>1, <3>2 DEF Short
  <2>2. Position + next.size > source
    <3>. HIDE DEF next
    <3>. QED
      BY <1>1, <1>3, <2>1
  <2>. QED
    BY <1>6, <2>2
<1>7. CASE ~Short /\ Verdict # "ok"
  <2>1. Avail >= EAC3SyncInfoSize /\ Avail > 0
    BY <1>1, <1>3, <1>7 DEF Short
  <2>2. ~(Avail < next.size)
    BY <1>4, <1>7, <2>1 DEF Short
  <2>3. TryFrameAt(next, Avail, mode) # "ok"
    BY <1>4, <1>7, <2>1 DEF Verdict
  <2>4. ~(Sound(next, mode) /\ next.size <= Avail)
    BY <1>1, <1>2, <2>3, TryFrameAtIsSound DEF TypeOK
  <2>5. next.size <= Avail
    BY <1>1, <1>3, <2>2
  <2>. QED
    BY <2>4, <2>5
<1>. QED
  BY <1>5, <1>6, <1>7 DEF CloseUnit, UnitEnds

(* Only CloseUnit ends the gathering of a unit.                            *)
LEMMA OnlyCloseUnitEndsGathering ==
  ASSUME [Next]_vars, pc = "gather", pc' = "idle"
  PROVE  CloseUnit
<1>1. CASE UNCHANGED vars
  BY <1>1 DEF vars
<1>2. CASE Next
  BY <1>2
  DEF Next, CallNext, CallNextAccessUnit, Call, SetCRCMode, Step, Fill,
      EndOfStream, DropTail, TakeFrame, ReportByteOrder, AwaitRest, Resync,
      Weighing, DropOrphan, OpenUnit, GatherMore, GatherFrame
<1>. QED
  BY <1>1, <1>2

(* However reads are cut, an access unit is closed only when it is full or *)
(* nothing sound that extends it follows (framereader.go:230-264).         *)
THEOREM AccessUnitsAreMaximal == Spec => UnitIsMaximal
<1>1. ASSUME IInv, [Next]_vars
      PROVE  pc = "gather" /\ pc' = "idle" =>
               n = MaxAccessUnitFrames \/ ~UnitGoesOn
  <2>. SUFFICES ASSUME pc = "gather", pc' = "idle", n # MaxAccessUnitFrames,
                       UnitGoesOn
                PROVE  FALSE
    OBVIOUS
  <2>1. CloseUnit
    BY <1>1, OnlyCloseUnitEndsGathering
  <2>2. TypeOK /\ WindowIsStream
    BY <1>1 DEF IInv
  <2>3. /\ Position < Len(stream) /\ Sound(CellAt(stream, Position), mode)
        /\ ~CellAt(stream, Position).advances
        /\ eof => Position + CellAt(stream, Position).size <= source
    BY DEF UnitGoesOn
  <2>4. eof /\ Position + CellAt(stream, Position).size > source
    BY <2>1, <2>2, <2>3, NothingGoesOn
  <2>5. /\ Position \in Nat /\ source \in Nat
        /\ CellAt(stream, Position).size \in Nat
    <3>1. Position \in Nat /\ source \in Nat /\ Len(stream) \in Nat
      BY <2>2, HereIsPosition
    <3>2. Position \in 0 .. (Len(stream) - 1)
      BY <2>3, <3>1
    <3>3. CellAt(stream, Position) \in Cell
      BY <2>2, <3>2, StreamCells DEF TypeOK
    <3>. QED
      BY <3>1, <3>3, SizesAssumption DEF Cell
  <2>. QED
    BY <2>3, <2>4, <2>5
<1>. QED
  BY <1>1, InitIsInv, StepKeepsInv, PTL DEF Spec, UnitIsMaximal

(* The end of the stream is told only once every byte that came in has     *)
(* been handed over or counted as skipped (framereader.go:137-147).        *)
THEOREM TheEndComesLast == Spec => []EndComesLast
<1>1. Init => EndComesLast
  BY DEF Init, EndComesLast
<1>2. IInv /\ IInv' /\ EndComesLast /\ [Next]_vars => EndComesLast'
  <2>. SUFFICES ASSUME IInv, IInv', EndComesLast, [Next]_vars
                PROVE  EndComesLast'
    OBVIOUS
  <2>0. /\ TypeOK /\ WindowIsStream /\ EveryByteIsAccounted'
        /\ Avail \in Nat /\ source \in Nat /\ end \in Nat
    BY HereIsPosition DEF IInv, TypeOK
  <2>1. CASE UNCHANGED vars \/ SetCRCMode
    BY <2>1 DEF vars, SetCRCMode, input, store, EndComesLast
  <2>2. CASE EndOfStream \/ DropTail
    <3>1. source' = source /\ eof' = eof /\ end' = end /\ start' = end
      BY <2>0, <2>2
      DEF EndOfStream, DropTail, Dry, Avail, input, store, TypeOK
    <3>2. eof
      BY <2>0, <2>2, SizesAssumption
      DEF EndOfStream, DropTail, Dry, MustFill
    <3>3. InFlight' = 0
      BY <2>2 DEF EndOfStream, DropTail, Return, InFlight
    <3>4. Position' = source'
      BY <2>0, <3>1 DEF Position, Avail
    <3>5. skipped' + handed' + 0 = source'
      BY <2>0, <3>3, <3>4 DEF EveryByteIsAccounted
    <3>6. skipped' \in Nat /\ handed' \in Nat
      BY DEF IInv, TypeOK
    <3>7. skipped' + handed' = source'
      BY <3>5, <3>6
    <3>. QED
      BY <3>1, <3>2, <3>7 DEF EndComesLast
  <2>3. CASE CallNext \/ CallNextAccessUnit
    BY <2>3 DEF CallNext, CallNextAccessUnit, Call, EndComesLast
  <2>4. CASE Step /\ ~EndOfStream /\ ~DropTail
    BY <2>4
    DEF Step, Fill, TakeFrame, ReportByteOrder, AwaitRest, Resync, Weighing,
        Return, DropOrphan, OpenUnit, GatherMore, Gathering, GatherFrame,
        CloseUnit, EndComesLast
  <2>. QED
    BY <2>1, <2>2, <2>3, <2>4 DEF Next, Step
<1>. QED
  BY <1>1, <1>2, InitIsInv, StepKeepsInv, PTL DEF Spec

-----------------------------------------------------------------------------
(* The slice of a call, and the header that goes with it.                  *)

(* The frames found lie apart and in order, all before the reader's place. *)
LaidOut ==
  \A k \in 1 .. Len(taken) :
    /\ taken[k].at + taken[k].size <= Position
    /\ taken[k].size > 0
    /\ \A j \in 1 .. (k - 1) : taken[j].at + taken[j].size <= taken[k].at

(* What has been found for the caller, and is not yet another call's.      *)
Holding == pc \in {"found", "gather"} \/ (pc = "idle" /\ result = "frame")

Held == IF pc = "gather" THEN size ELSE frame.len

(* The frames held begin with the m-th found, the one the header is of,    *)
(* and go on end to end to the reader's place.                             *)
RunsFrom(m) ==
  /\ taken[m] = hdr
  /\ hdr.at + Held = Position
  /\ \A k \in m .. Len(taken) :
       taken[k].at + taken[k].size =
         IF k = Len(taken) THEN Position ELSE taken[k + 1].at
  /\ pc = "gather" \/ (pc = "idle" /\ call = "NextAccessUnit") =>
       \A k \in m .. Len(taken) :
         CellAt(stream, taken[k].at).advances <=> k = m
  /\ pc = "found" \/ (pc = "idle" /\ call = "Next") => m = Len(taken)

HeldRuns ==
  /\ Holding => \E m \in 1 .. Len(taken) : RunsFrom(m)
  /\ pc \in {"found", "gather"} => call = "NextAccessUnit"
  /\ pc = "idle" /\ result = "frame" => frame.from + frame.len = start

LEMMA FramesTaken ==
  ASSUME TypeOK
  PROVE  /\ Len(taken) \in Nat /\ DOMAIN taken = 1 .. Len(taken)
         /\ \A k \in 1 .. Len(taken) : taken[k] \in [at : Nat, size : Nat]
<1>1. taken \in Seq([at : Nat, size : Nat])
  BY DEF TypeOK
<1>. QED
  BY <1>1, ElementOfSeq, LenProperties

(* The reader goes forward through the stream and no frame is taken: what  *)
(* was found lies where it lay.                                            *)
LEMMA LaidStays ==
  ASSUME TypeOK, LaidOut, taken' = taken, Position \in Nat, Position' \in Nat,
         Position <= Position'
  PROVE  LaidOut'
<1>. SUFFICES ASSUME NEW k \in 1 .. Len(taken)
              PROVE  /\ taken[k].at + taken[k].size <= Position'
                     /\ taken[k].size > 0
                     /\ \A j \in 1 .. (k - 1) :
                          taken[j].at + taken[j].size <= taken[k].at
  BY DEF LaidOut
<1>1. taken[k] \in [at : Nat, size : Nat]
  BY FramesTaken
<1>2. taken[k].at \in Nat /\ taken[k].size \in Nat
  BY <1>1
<1>3. /\ taken[k].at + taken[k].size <= Position /\ taken[k].size > 0
      /\ \A j \in 1 .. (k - 1) : taken[j].at + taken[j].size <= taken[k].at
  BY DEF LaidOut
<1>4. taken[k].at + taken[k].size <= Position'
  BY <1>2, <1>3
<1>. QED
  BY <1>3, <1>4

(* A frame taken is laid right behind all that were.                       *)
LEMMA ConsumeLays ==
  ASSUME IInv, LaidOut, Avail > 0, Verdict = "ok", Consume
  PROVE  /\ LaidOut'
         /\ Len(taken) \in Nat /\ Len(taken') = Len(taken) + 1
         /\ taken'[Len(taken) + 1] = Candidate
         /\ \A k \in 1 .. Len(taken) : taken'[k] = taken[k]
         /\ Candidate.at = Position /\ Candidate.size = Here.size
         /\ Position' = Position + Here.size
         /\ Here.size \in Nat /\ Here.size > 0 /\ Position \in Nat
         /\ Here = CellAt(stream, Position)
<1>0. TypeOK /\ WindowIsStream
  BY DEF IInv
<1>1. Offset = Position /\ Here \in Cell /\ Position \in Nat
  BY <1>0, HereIsPosition
<1>2. Here = CellAt(stream, Position)
  BY <1>1 DEF Here
<1>3. Here.size \in Nat /\ Here.size > 0
  BY <1>1, SizesAssumption DEF Cell
<1>4. F!Take
  BY <1>0, ConsumeTakes
<1>5. Position' = Position + Here.size
  BY <1>2, <1>4, SameStream DEF F!Take
<1>6. Candidate.at = Position /\ Candidate.size = Here.size
      /\ Candidate \in [at : Nat, size : Nat]
  BY <1>1, <1>3 DEF Candidate
<1>7. taken \in Seq([at : Nat, size : Nat])
      /\ taken' = Append(taken, Candidate)
  BY <1>0 DEF TypeOK, Consume
<1>8. /\ Len(taken) \in Nat /\ Len(taken') = Len(taken) + 1
      /\ taken'[Len(taken) + 1] = Candidate
      /\ \A k \in 1 .. Len(taken) : taken'[k] = taken[k]
  <2>. HIDE <1>6
  <2>1. Candidate \in [at : Nat, size : Nat]
    BY <1>6
  <2>. DEFINE c == Candidate
  <2>2. c \in [at : Nat, size : Nat]
    BY <2>1
  <2>. HIDE DEF c
  <2>3. Append(taken, c) \in Seq([at : Nat, size : Nat])
        /\ Len(taken) \in Nat /\ Len(Append(taken, c)) = Len(taken) + 1
        /\ Append(taken, c)[Len(taken) + 1] = c
        /\ \A k \in 1 .. Len(taken) : Append(taken, c)[k] = taken[k]
    BY <1>7, <2>2
  <2>. QED
    BY <1>7, <2>3 DEF c
<1>9. ASSUME NEW k \in 1 .. Len(taken')
      PROVE  /\ taken'[k].at + taken'[k].size <= Position'
             /\ taken'[k].size > 0
             /\ \A j \in 1 .. (k - 1) :
                  taken'[j].at + taken'[j].size <= taken'[k].at
  <2>1. CASE k = Len(taken) + 1
    <3>1. taken'[k].at = Position /\ taken'[k].size = Here.size
      BY <1>6, <1>8, <2>1
    <3>2. ASSUME NEW j \in 1 .. (k - 1)
          PROVE  taken'[j].at + taken'[j].size <= Position
      BY <1>8, <2>1, <3>2 DEF LaidOut
    <3>3. Position + Here.size <= Position' /\ Here.size > 0
      BY <1>1, <1>3, <1>5
    <3>. QED
      BY <3>1, <3>2, <3>3
  <2>2. CASE k # Len(taken) + 1
    <3>1. k \in 1 .. Len(taken) /\ taken'[k] = taken[k]
      BY <1>8, <2>2
    <3>2. taken[k] \in [at : Nat, size : Nat]
      BY <1>0, <3>1, FramesTaken
    <3>3. /\ taken[k].at + taken[k].size <= Position /\ taken[k].size > 0
          /\ \A j \in 1 .. (k - 1) :
               taken[j].at + taken[j].size <= taken[k].at
      BY <3>1 DEF LaidOut
    <3>4. \A j \in 1 .. (k - 1) : taken'[j] = taken[j]
      BY <1>8, <3>1
    <3>. QED
      BY <1>1, <1>3, <1>5, <3>1, <3>2, <3>3, <3>4
  <2>. QED
    BY <2>1, <2>2
<1>10. LaidOut'
  BY <1>9 DEF LaidOut
<1>. QED
  BY <1>1, <1>2, <1>3, <1>5, <1>6, <1>8, <1>10

(* The reader never goes back.                                             *)
LEMMA GoesForward ==
  ASSUME IInv, IInv', [Next]_vars
  PROVE  /\ Position \in Nat /\ Position' \in Nat /\ Position <= Position'
         /\ stream' = stream
<1>1. Position \in Nat /\ source \in Nat /\ Position' \in Nat
  <2>1. IInv => Position \in Nat /\ source \in Nat
    BY HereIsPosition DEF IInv
  <2>2. Position' \in Nat
    <3>1. TypeOK' /\ WindowIsStream'
      BY DEF IInv
    <3>2. /\ source' \in Nat /\ end' \in Nat /\ start' \in Nat
          /\ start' <= end' /\ end' <= source'
      <4>1. /\ stream' \in Streams /\ source' \in 0 .. Len(stream')
            /\ end' \in Nat /\ start' \in 0 .. end' /\ end' <= source'
        BY <3>1 DEF TypeOK, WindowIsStream
      <4>2. Len(stream') \in Nat
        BY <4>1, StreamCells
      <4>. QED
        BY <4>1, <4>2
    <3>3. \A s, e, a \in Nat : a <= e /\ e <= s => s - (e - a) \in Nat
      OBVIOUS
    <3>4. source' - (end' - start') \in Nat
      BY <3>2, <3>3
    <3>. QED
      BY <3>4 DEF Position, Avail
  <2>. QED
    BY <2>1, <2>2
<1>2. [F!Next]_(F!vars)
  BY StepIsOfTheWalk
<1>3. CASE F!Arrive \/ F!Narrow \/ UNCHANGED F!vars
  BY <1>1, <1>3 DEF F!Arrive, F!Narrow, F!vars
<1>4. CASE F!Pass
  BY <1>1, <1>4 DEF F!Pass
<1>5. CASE F!Take
  <2>1. /\ Position < source /\ stream' = stream
        /\ Position' = Position + CellAt(stream, Position).size
    BY <1>5, SameStream DEF F!Take
  <2>2. Position \in 0 .. (Len(stream) - 1) /\ stream \in Streams
    BY <1>1, <2>1, StreamCells DEF IInv, TypeOK
  <2>3. CellAt(stream, Position).size \in Nat
    BY <2>2, StreamCells, SizesAssumption DEF Cell
  <2>. QED
    BY <1>1, <2>1, <2>3
<1>. QED
  BY <1>2, <1>3, <1>4, <1>5 DEF F!Next

(* The steps that take no frame and leave none held.                       *)
LEMMA NothingIsHeld ==
  ASSUME IInv, IInv', [Next]_vars, LaidOut, taken' = taken,
         pc' = "next" \/ (pc' = "idle" /\ result' # "frame")
  PROVE  LaidOut' /\ HeldRuns'
<1>1. LaidOut'
  BY GoesForward, LaidStays DEF IInv
<1>. QED
  BY <1>1 DEF HeldRuns, Holding

(* The steps that go on holding what was held.                             *)
LEMMA HeldOn ==
  ASSUME IInv, IInv', LaidOut, HeldRuns, Holding,
         taken' = taken, hdr' = hdr, stream' = stream, Position' = Position,
         Held' = Held, call' = call,
         \/ pc' = pc
         \/ pc = "found" /\ pc' = "gather" /\ CellAt(stream, hdr.at).advances
         \/ pc = "gather" /\ pc' = "idle",
         pc' = "idle" => /\ result' = "frame"
                         /\ frame'.from + frame'.len = start'
  PROVE  LaidOut' /\ HeldRuns'
<1>1. LaidOut'
  BY DEF LaidOut
<1>2. PICK m \in 1 .. Len(taken) : RunsFrom(m)
  BY DEF HeldRuns
<1>3. /\ taken[m] = hdr
      /\ hdr.at + Held = Position
      /\ \A k \in m .. Len(taken) :
           taken[k].at + taken[k].size =
             IF k = Len(taken) THEN Position ELSE taken[k + 1].at
  BY <1>2 DEF RunsFrom
<1>4. pc \in {"found", "gather"} => call = "NextAccessUnit"
  BY DEF HeldRuns
<1>5. pc' = "gather" \/ (pc' = "idle" /\ call' = "NextAccessUnit") =>
        \A k \in m .. Len(taken) :
          CellAt(stream, taken[k].at).advances <=> k = m
  <2>1. CASE pc' = pc \/ (pc = "gather" /\ pc' = "idle")
    BY <1>2, <2>1 DEF RunsFrom
  <2>2. CASE pc = "found" /\ pc' = "gather" /\ CellAt(stream, hdr.at).advances
    <3>1. m = Len(taken) /\ Len(taken) \in Nat
      BY <1>2, <2>2, FramesTaken DEF RunsFrom, IInv
    <3>. QED
      BY <1>3, <2>2, <3>1
  <2>. QED
    BY <2>1, <2>2
<1>6. pc' = "found" \/ (pc' = "idle" /\ call' = "Next") => m = Len(taken)
  BY <1>2, <1>4 DEF RunsFrom
<1>7. RunsFrom(m)'
  BY <1>3, <1>5, <1>6 DEF RunsFrom
<1>8. m \in 1 .. Len(taken')
  OBVIOUS
<1>9. pc' \in {"found", "gather"} => call' = "NextAccessUnit"
  BY <1>4
<1>. QED
  BY <1>1, <1>7, <1>8, <1>9 DEF HeldRuns

(* A frame taken by Next is held alone.                                    *)
LEMMA TakenAlone ==
  ASSUME IInv, IInv', LaidOut, HeldRuns, TakeFrame
  PROVE  LaidOut' /\ HeldRuns'
<1>0. TypeOK /\ WindowIsStream /\ SyncInfoSize \in Nat \ {0}
  BY SizesAssumption DEF IInv
<1>1. Avail > 0 /\ Verdict = "ok" /\ Consume /\ pc = "next"
  BY <1>0, HereIsPosition DEF TakeFrame, Weighing
<1>2. /\ LaidOut'
      /\ Len(taken) \in Nat /\ Len(taken') = Len(taken) + 1
      /\ taken'[Len(taken) + 1] = Candidate
      /\ Candidate.at = Position /\ Candidate.size = Here.size
      /\ Position' = Position + Here.size
      /\ Here.size \in Nat /\ Position \in Nat
  BY <1>1, ConsumeLays
<1>3. hdr' = Candidate
  <2>1. Here \in Cell /\ mode \in CRCModes /\ Avail \in Nat
    BY <1>0, <1>1, HereIsPosition DEF TypeOK
  <2>2. ParseHeader(Here, Avail) = "ok"
    BY <1>1 DEF Verdict, TryFrameAt
  <2>3. ParseSyncInfo(Here, Avail) = "ok"
    BY <2>2 DEF ParseHeader
  <2>4. Here.sync = "syncinfo" /\ Avail >= EAC3SyncInfoSize
    BY <2>1, <2>3, SizesAssumption DEF ParseSyncInfo, Cell, SyncKinds
  <2>5. WritesHeader(Here, Avail)
    BY <2>4 DEF WritesHeader
  <2>. QED
    BY <1>1, <2>5 DEF TakeFrame, Weigh
<1>4. /\ frame' = [from |-> start, len |-> Here.size]
      /\ start' = start + Here.size /\ call' = call
      /\ \/ call = "Next" /\ pc' = "idle"
         \/ call # "Next" /\ pc' = "found"
  BY DEF TakeFrame, Consume
<1>5. Held' = Here.size /\ frame'.from + frame'.len = start'
  BY <1>4 DEF Held
<1>6. ASSUME NEW last \in Nat, last = Len(taken) + 1
      PROVE  RunsFrom(last)'
  <2>1. last \in Nat /\ Len(taken') = last /\ taken'[last] = hdr'
    BY <1>2, <1>3, <1>6
  <2>2. hdr'.at + Held' = Position'
    BY <1>2, <1>3, <1>5
  <2>3. taken'[last].at + taken'[last].size = Position'
    BY <1>2, <1>6
  <2>4. \A k \in last .. Len(taken') : k = last
    BY <2>1
  <2>5. \A k \in last .. Len(taken') :
          taken'[k].at + taken'[k].size =
            IF k = Len(taken') THEN Position' ELSE taken'[k + 1].at
    BY <2>1, <2>3, <2>4
  <2>6. ~(pc' = "gather" \/ (pc' = "idle" /\ call' = "NextAccessUnit"))
    BY <1>4
  <2>. QED
    BY <2>1, <2>2, <2>5, <2>6 DEF RunsFrom
<1>7. \E m \in 1 .. Len(taken') : RunsFrom(m)'
  <2>1. PICK m \in 1 .. Len(taken') : m = Len(taken) + 1
    BY <1>2
  <2>. QED
    BY <1>2, <1>6, <2>1
<1>8. call \in CallNames
  BY <1>0 DEF TypeOK
<1>9. pc' \in {"found", "gather"} => call' = "NextAccessUnit"
  BY <1>4, <1>8 DEF CallNames
<1>. QED
  BY <1>2, <1>5, <1>7, <1>9 DEF HeldRuns

(* A frame that goes on with the unit is laid right behind it.             *)
LEMMA GatheredBehind ==
  ASSUME IInv, IInv', LaidOut, HeldRuns, GatherFrame
  PROVE  LaidOut' /\ HeldRuns'
<1>0. TypeOK /\ WindowIsStream /\ EAC3SyncInfoSize \in Nat \ {0}
  BY SizesAssumption DEF IInv
<1>1. /\ Avail > 0 /\ Verdict = "ok" /\ Consume /\ pc = "gather"
      /\ ~Here.advances
  <2>1. Avail \in Nat /\ Avail >= EAC3SyncInfoSize
    BY <1>0, HereIsPosition DEF GatherFrame, Short
  <2>. QED
    BY <1>0, <2>1 DEF GatherFrame, Gathering, Elsewhere
<1>2. /\ LaidOut'
      /\ Len(taken) \in Nat /\ Len(taken') = Len(taken) + 1
      /\ taken'[Len(taken) + 1] = Candidate
      /\ \A k \in 1 .. Len(taken) : taken'[k] = taken[k]
      /\ Candidate.at = Position /\ Candidate.size = Here.size
      /\ Position' = Position + Here.size
      /\ Here.size \in Nat /\ Position \in Nat
      /\ Here = CellAt(stream, Position)
  BY <1>1, ConsumeLays
<1>3. /\ hdr' = hdr /\ pc' = pc /\ call' = call /\ stream' = stream
      /\ size' = size + Here.size
  BY <1>1 DEF GatherFrame, Weigh, Consume, input
<1>4. PICK m \in 1 .. Len(taken) : RunsFrom(m)
  BY <1>1 DEF HeldRuns, Holding
<1>5. /\ taken[m] = hdr /\ hdr.at + size = Position
      /\ \A k \in m .. Len(taken) :
           /\ taken[k].at + taken[k].size =
                IF k = Len(taken) THEN Position ELSE taken[k + 1].at
           /\ CellAt(stream, taken[k].at).advances <=> k = m
  BY <1>1, <1>4 DEF RunsFrom, Held
<1>6. taken'[m] = hdr' /\ m \in 1 .. Len(taken')
  BY <1>2, <1>3, <1>5
<1>7. hdr'.at + Held' = Position'
  <2>1. hdr.at \in Nat /\ size \in Nat
    BY <1>0 DEF TypeOK
  <2>2. hdr.at + (size + Here.size) = Position + Here.size
    BY <1>2, <1>5, <2>1
  <2>. QED
    BY <1>1, <1>2, <1>3, <2>2 DEF Held
<1>8. ASSUME NEW k \in m .. Len(taken')
      PROVE  /\ taken'[k].at + taken'[k].size =
                  IF k = Len(taken') THEN Position' ELSE taken'[k + 1].at
             /\ CellAt(stream', taken'[k].at).advances <=> k = m
  <2>1. CASE k = Len(taken) + 1
    <3>1. taken'[k].at = Position /\ taken'[k].size = Here.size
          /\ k = Len(taken') /\ k # m
      BY <1>2, <1>4, <2>1
    <3>. QED
      BY <1>1, <1>2, <1>3, <3>1
  <2>2. CASE k = Len(taken)
    <3>1. /\ taken'[k] = taken[k] /\ k \in m .. Len(taken)
          /\ k # Len(taken') /\ taken'[k + 1] = Candidate
      BY <1>2, <1>4, <2>2
    <3>2. taken[k].at + taken[k].size = Position
          /\ (CellAt(stream, taken[k].at).advances <=> k = m)
      BY <1>5, <2>2, <3>1
    <3>. QED
      BY <1>2, <1>3, <3>1, <3>2
  <2>3. CASE k # Len(taken) /\ k # Len(taken) + 1
    <3>1. /\ taken'[k] = taken[k] /\ taken'[k + 1] = taken[k + 1]
          /\ k \in m .. Len(taken) /\ k # Len(taken')
      BY <1>2, <1>4, <2>3
    <3>2. taken[k].at + taken[k].size = taken[k + 1].at
          /\ (CellAt(stream, taken[k].at).advances <=> k = m)
      BY <1>5, <2>3, <3>1
    <3>. QED
      BY <1>3, <3>1, <3>2
  <2>. QED
    BY <2>1, <2>2, <2>3
<1>9. RunsFrom(m)'
  BY <1>1, <1>3, <1>6, <1>7, <1>8 DEF RunsFrom
<1>. QED
  BY <1>1, <1>2, <1>3, <1>6, <1>9 DEF HeldRuns, Holding

LEMMA StepKeepsRuns ==
  IInv /\ IInv' /\ LaidOut /\ HeldRuns /\ [Next]_vars => LaidOut' /\ HeldRuns'
<1>. SUFFICES ASSUME IInv, IInv', LaidOut, HeldRuns, [Next]_vars
              PROVE  LaidOut' /\ HeldRuns'
  OBVIOUS
<1>0. TypeOK /\ InFlightIsHeld
  BY DEF IInv
<1>1. CASE UNCHANGED vars \/ SetCRCMode
  <2>1. /\ taken' = taken /\ hdr' = hdr /\ stream' = stream /\ call' = call
        /\ pc' = pc /\ result' = result /\ frame' = frame /\ start' = start
        /\ Position' = Position /\ Held' = Held
    BY <1>1
    DEF vars, SetCRCMode, input, store, found, unit, Position, Avail, Held
  <2>2. CASE Holding
    BY <2>1, <2>2, HeldOn DEF HeldRuns, Holding
  <2>3. CASE ~Holding
    <3>1. LaidOut'
      BY <2>1 DEF LaidOut
    <3>. QED
      BY <2>1, <2>3, <3>1 DEF HeldRuns, Holding
  <2>. QED
    BY <2>2, <2>3
<1>2. CASE CallNext \/ CallNextAccessUnit \/ Fill \/ AwaitRest \/ Resync
           \/ DropOrphan
  <2>1. taken' = taken /\ pc' = "next"
    BY <1>2
    DEF CallNext, CallNextAccessUnit, Call, Fill, AwaitRest, Resync, Weighing,
        DropOrphan, found
  <2>. QED
    BY <2>1, NothingIsHeld
<1>3. CASE EndOfStream \/ DropTail \/ ReportByteOrder
  <2>1. taken' = taken /\ pc' = "idle" /\ result' # "frame"
    BY <1>3 DEF EndOfStream, DropTail, ReportByteOrder, Return, found
  <2>. QED
    BY <2>1, NothingIsHeld
<1>4. CASE TakeFrame
  BY <1>4, TakenAlone
<1>5. CASE OpenUnit
  <2>1. /\ taken' = taken /\ hdr' = hdr /\ stream' = stream /\ call' = call
        /\ pc = "found" /\ pc' = "gather"
        /\ CellAt(stream, hdr.at).advances /\ size' = frame.len
        /\ source' = source /\ start' = start /\ end' = end
    BY <1>5 DEF OpenUnit, input, store, found
  <2>2. Position' = Position /\ Held' = Held /\ Holding
    BY <2>1 DEF Position, Avail, Held, Holding
  <2>. QED
    BY <2>1, <2>2, HeldOn
<1>6. CASE GatherMore
  <2>1. start - size \in 0 .. start /\ ReadBehind(start - size)
    BY <1>6, ReadsAreBehind
  <2>2. Position' = Position
    BY <2>1, ReadKeepsInv
  <2>3. /\ taken' = taken /\ hdr' = hdr /\ stream' = stream /\ call' = call
        /\ pc = "gather" /\ pc' = pc /\ size' = size
    BY <1>6
    DEF GatherMore, Gathering, CompactAndRead, found, unit
  <2>4. Held' = Held /\ Holding
    BY <2>3 DEF Held, Holding
  <2>. QED
    BY <2>2, <2>3, <2>4, HeldOn
<1>7. CASE GatherFrame
  BY <1>7, GatheredBehind
<1>8. CASE CloseUnit
  <2>1. /\ taken' = taken /\ stream' = stream /\ call' = call
        /\ pc = "gather" /\ pc' = "idle" /\ result' = "frame"
        /\ frame' = [from |-> start - size, len |-> size]
        /\ source' = source /\ start' = start /\ end' = end
    BY <1>8 DEF CloseUnit, Unit, input, store
  <2>2. hdr' = hdr
    BY <1>8 DEF CloseUnit, Weigh
  <2>3. Position' = Position /\ Held' = Held /\ Holding
    BY <2>1 DEF Position, Avail, Held, Holding
  <2>4. frame'.from + frame'.len = start'
    <3>1. start \in Nat /\ size \in Nat /\ size <= start /\ end \in Nat
      BY <1>0, <2>1 DEF TypeOK, InFlightIsHeld
    <3>2. (start - size) + size = start
      BY <3>1
    <3>. QED
      BY <2>1, <3>2
  <2>. QED
    BY <2>1, <2>2, <2>3, <2>4, HeldOn
<1>. QED
  BY <1>1, <1>2, <1>3, <1>4, <1>5, <1>6, <1>7, <1>8 DEF Next, Step

(* What is held is what the call's slice must be.                          *)
LEMMA HeldIsTheSlice == IInv /\ LaidOut /\ HeldRuns => SliceIsUnit
<1>. SUFFICES ASSUME IInv, LaidOut, HeldRuns, pc = "idle", result = "frame"
              PROVE  SliceIsUnit
  BY DEF SliceIsUnit
<1>0. TypeOK /\ WindowIsStream
  BY DEF IInv
<1>1. /\ Len(taken) \in Nat /\ DOMAIN taken = 1 .. Len(taken)
      /\ \A k \in 1 .. Len(taken) : taken[k] \in [at : Nat, size : Nat]
  BY <1>0, FramesTaken
<1>2. PICK m \in 1 .. Len(taken) : RunsFrom(m)
  BY DEF HeldRuns, Holding
<1>3. /\ taken[m] = hdr /\ hdr.at + frame.len = Position
      /\ \A k \in m .. Len(taken) :
           taken[k].at + taken[k].size =
             IF k = Len(taken) THEN Position ELSE taken[k + 1].at
      /\ call = "NextAccessUnit" =>
           \A k \in m .. Len(taken) :
             CellAt(stream, taken[k].at).advances <=> k = m
      /\ call = "Next" => m = Len(taken)
  BY <1>2 DEF RunsFrom, Held
<1>4. frame.from + frame.len = start
  BY DEF HeldRuns
<1>5. /\ hdr.at \in Nat /\ hdr.size \in Nat
      /\ frame.from \in Nat /\ frame.len \in Nat
      /\ start \in Nat /\ end \in Nat /\ source \in Nat /\ start <= end
      /\ Position = source - (end - start)
  BY <1>0, HereIsPosition DEF TypeOK, Position, Avail
<1>6. hdr.size > 0 /\ hdr.at + hdr.size <= Position
  BY <1>2, <1>3 DEF LaidOut
<1>7. \A i \in frame.from .. (frame.from + frame.len - 1) :
        buf[i] = hdr.at + (i - frame.from)
  <2>. SUFFICES ASSUME NEW i \in frame.from .. (frame.from + frame.len - 1)
                PROVE  buf[i] = hdr.at + (i - frame.from)
    OBVIOUS
  <2>1. i \in 0 .. (end - 1)
    BY <1>4, <1>5
  <2>2. buf[i] = source - end + i
    BY <1>0, <2>1 DEF WindowIsStream
  <2>3. hdr.at = source - (end - start) - frame.len
    BY <1>3, <1>5
  <2>. QED
    BY <1>4, <1>5, <2>1, <2>2, <2>3
<1>8. buf[frame.from] = hdr.at
  <2>1. frame.len > 0
    BY <1>3, <1>5, <1>6
  <2>2. buf[frame.from] = hdr.at + (frame.from - frame.from)
    BY <1>5, <1>7, <2>1
  <2>. QED
    BY <1>5, <2>2
<1>9. \A k \in 1 .. Len(taken) :
        /\ taken[k].at >= hdr.at <=> k \in m .. Len(taken)
        /\ taken[k] = hdr => k = m
  <2>. SUFFICES ASSUME NEW k \in 1 .. Len(taken)
                PROVE  /\ taken[k].at >= hdr.at <=> k \in m .. Len(taken)
                       /\ taken[k] = hdr => k = m
    OBVIOUS
  <2>1. taken[k].at \in Nat /\ taken[k].size \in Nat
    BY <1>1
  <2>2. ASSUME k < m PROVE taken[k].at < hdr.at
    <3>1. taken[k].at + taken[k].size <= taken[m].at /\ taken[k].size > 0
      BY <1>1, <2>2 DEF LaidOut
    <3>. QED
      BY <1>3, <1>5, <2>1, <3>1
  <2>3. ASSUME k > m PROVE taken[k].at > hdr.at
    <3>1. taken[m].at + taken[m].size <= taken[k].at
      BY <1>1, <2>3 DEF LaidOut
    <3>. QED
      BY <1>3, <1>5, <1>6, <2>1, <3>1
  <2>4. CASE k < m
    BY <1>1, <1>5, <2>1, <2>2, <2>4
  <2>5. CASE k > m
    BY <1>1, <1>5, <2>1, <2>3, <2>5
  <2>6. CASE k = m
    <3>1. taken[k] = hdr /\ taken[k].at = hdr.at
      BY <1>3, <2>6
    <3>2. k \in m .. Len(taken)
      BY <1>1, <2>6
    <3>. QED
      BY <1>5, <2>6, <3>1, <3>2
  <2>. QED
    BY <1>1, <2>4, <2>5, <2>6
<1> DEFINE parts == {k \in DOMAIN taken : taken[k].at >= hdr.at}
<1>10. parts = m .. Len(taken)
  <2>1. m .. Len(taken) \subseteq 1 .. Len(taken)
    BY <1>1
  <2>2. \A k : k \in parts <=> k \in m .. Len(taken)
    BY <1>1, <1>9, <2>1
  <2>. QED
    BY <2>2
<1>11. hdr \in {taken[k] : k \in parts}
  <2>1. m \in parts
    BY <1>1, <1>10
  <2>. QED
    BY <1>3, <2>1
<1>12. ASSUME NEW k \in parts
       PROVE  /\ \/ taken[k].at + taken[k].size = hdr.at + frame.len
                 \/ /\ k + 1 \in parts
                    /\ taken[k + 1].at = taken[k].at + taken[k].size
              /\ call = "NextAccessUnit" =>
                   (CellAt(stream, taken[k].at).advances <=> taken[k] = hdr)
  <2>1. k \in m .. Len(taken) /\ k \in 1 .. Len(taken)
    BY <1>1, <1>10, <1>12
  <2>2. k # Len(taken) => k + 1 \in parts
    BY <1>1, <1>10, <2>1
  <2>3. k = m <=> taken[k] = hdr
    BY <1>3, <1>9, <2>1
  <2>. QED
    BY <1>3, <2>1, <2>2, <2>3
<1>13. call = "Next" => hdr.size = frame.len
  <2>. SUFFICES ASSUME call = "Next" PROVE hdr.size = frame.len
    OBVIOUS
  <2>0. m = Len(taken)
    BY <1>3
  <2>1. m = Len(taken) /\ m \in m .. Len(taken)
    BY <1>1, <2>0
  <2>2. taken[m].at + taken[m].size = Position
    BY <1>3, <2>1
  <2>3. hdr.at + hdr.size = Position
    BY <1>3, <2>2
  <2>. QED
    BY <1>3, <1>5, <2>3
<1>. QED
  BY <1>4, <1>7, <1>8, <1>11, <1>12, <1>13 DEF SliceIsUnit

(* The slice of Next is the one frame Header describes, and that of        *)
(* NextAccessUnit one run of the stream, made of whole frames end to end   *)
(* of which the first alone advances time, wherever the buffer was moved   *)
(* while the unit was gathered (framereader.go:137-264).                   *)
THEOREM SliceIsTheUnit == Spec => []SliceIsUnit
<1>1. Init => LaidOut /\ HeldRuns
  <2>. SUFFICES ASSUME Init PROVE LaidOut /\ HeldRuns
    OBVIOUS
  <2>1. taken = <<>> /\ pc = "idle" /\ result = "none"
    BY DEF Init
  <2>2. 1 .. Len(taken) = {}
    BY <2>1
  <2>. QED
    BY <2>1, <2>2 DEF LaidOut, HeldRuns, Holding
<1>. QED
  BY <1>1, InitIsInv, StepKeepsInv, StepKeepsRuns, HeldIsTheSlice, PTL DEF Spec

(* What Header shows was a frame, at every moment of every call: never the *)
(* scratch of a candidate tryFrameAt turned away (framereader.go:268-311). *)
THEOREM HeaderIsAFrames == Spec => []HeaderIsOfAFrame
<1>1. Init => LaidOut /\ HeldRuns /\ HeaderIsOfAFrame
  <2>. SUFFICES ASSUME Init PROVE LaidOut /\ HeldRuns /\ HeaderIsOfAFrame
    OBVIOUS
  <2>1. taken = <<>> /\ pc = "idle" /\ result = "none" /\ hdr = NoHeader
    BY DEF Init
  <2>2. 1 .. Len(taken) = {}
    BY <2>1
  <2>. QED
    BY <2>1, <2>2 DEF LaidOut, HeldRuns, Holding, HeaderIsOfAFrame
<1>2. ASSUME IInv, IInv', LaidOut, HeldRuns, HeaderIsOfAFrame, [Next]_vars
      PROVE  HeaderIsOfAFrame'
  <2>1. CASE Holding'
    <3>1. HeldRuns'
      BY <1>2, StepKeepsRuns
    <3>2. PICK m \in 1 .. Len(taken') : taken'[m] = hdr'
      BY <2>1, <3>1 DEF HeldRuns, RunsFrom
    <3>3. DOMAIN taken' = 1 .. Len(taken')
      <4>1. taken' \in Seq([at : Nat, size : Nat])
        BY <1>2 DEF IInv, TypeOK
      <4>. QED
        BY <4>1, LenProperties
    <3>. QED
      BY <3>2, <3>3 DEF HeaderIsOfAFrame
  <2>2. CASE ~Holding'
    <3>1. hdr' = hdr /\ taken' = taken
      <4>1. CASE UNCHANGED vars
        BY <4>1 DEF vars, found
      <4>2. CASE Next
        <5>1. ~TakeFrame /\ ~GatherFrame /\ ~CloseUnit
          BY <2>2
          DEF Holding, TakeFrame, GatherFrame, Gathering, CloseUnit
        <5>2. pc = "next" /\ Verdict # "ok" /\ Weigh => hdr' = hdr
          BY DEF Weigh
        <5>3. AwaitRest \/ Resync => hdr' = hdr /\ taken' = taken
          BY <5>2 DEF AwaitRest, Awaited, Resync, Weighing
        <5>. QED
          BY <4>2, <5>1, <5>3
          DEF Next, Step, CallNext, CallNextAccessUnit, Call, SetCRCMode, Fill,
              EndOfStream, DropTail, ReportByteOrder, DropOrphan, OpenUnit,
              GatherMore, found
      <4>. QED
        BY <1>2, <4>1, <4>2
    <3>. QED
      BY <1>2, <3>1 DEF HeaderIsOfAFrame
  <2>. QED
    BY <2>1, <2>2
<1>. QED
  BY <1>1, <1>2, InitIsInv, StepKeepsInv, StepKeepsRuns, PTL DEF Spec

-----------------------------------------------------------------------------
(* A stream in the other byte order.                                       *)

Swapped == CellAt(stream, 0).sync = "swapped"

(* Its reader stays at its head, unless it ends before its syncinfo does.  *)
StaysAtHead ==
  Swapped => \/ Position = 0 /\ taken = <<>>
             \/ eof /\ source < EAC3SyncInfoSize

(* What a frame found leaves behind, and how long an answer stands.        *)
AnswersStand ==
  /\ frames = Len(taken)
  /\ frames = 0 => handed = 0 /\ pc \notin {"found", "gather"}
  /\ result \in {"EOF", "readErr"} => pc = "idle"
  /\ pc = "idle" /\ result = "byteOrder" => Position = 0

LEMMA AtTheHead ==
  ASSUME IInv, AnswersStand, frames = 0
  PROVE  /\ InFlight = 0 /\ handed = 0
         /\ Position = 0 <=> skipped = 0
<1>1. InFlight = 0 /\ handed = 0
  BY DEF AnswersStand, InFlight
<1>. QED
  BY <1>1 DEF IInv, EveryByteIsAccounted, TypeOK

LEMMA AnswersKeepStanding ==
  IInv /\ IInv' /\ AnswersStand /\ [Next]_vars => AnswersStand'
<1>. SUFFICES ASSUME IInv, IInv', AnswersStand, [Next]_vars
              PROVE  AnswersStand'
  OBVIOUS
<1>0. TypeOK /\ WindowIsStream
  BY DEF IInv
<1>a. /\ Len(taken) \in Nat /\ frames \in Nat
      /\ frames = Len(taken) /\ frames + 1 # 0
  BY <1>0, FramesTaken DEF TypeOK, AnswersStand
<1>1. CASE UNCHANGED vars \/ SetCRCMode
  BY <1>1
  DEF vars, SetCRCMode, input, store, found, unit, AnswersStand, Position, Avail
<1>2. CASE CallNext \/ CallNextAccessUnit \/ Fill \/ AwaitRest \/ Resync
           \/ DropOrphan
  BY <1>2
  DEF CallNext, CallNextAccessUnit, Call, Fill, AwaitRest, Resync, Weighing,
      DropOrphan, found, AnswersStand
<1>3. CASE EndOfStream \/ DropTail
  BY <1>3
  DEF EndOfStream, DropTail, Return, found, AnswersStand
<1>4. CASE ReportByteOrder
  <2>1. frames = 0 /\ skipped = 0
    BY <1>4 DEF ReportByteOrder, AtHead
  <2>2. Position = 0
    BY <2>1, AtTheHead
  <2>3. Position' = Position
    BY <1>4 DEF ReportByteOrder, input, store, Position, Avail
  <2>. QED
    BY <1>4, <2>2, <2>3 DEF ReportByteOrder, Return, found, AnswersStand
<1>5. CASE TakeFrame \/ GatherFrame
  <2>1. Consume
    BY <1>5 DEF TakeFrame, GatherFrame
  <2>2. Len(taken') = Len(taken) + 1
    BY <1>0, <2>1, AppendProperties, WeighKeepsTypes, LenProperties
    DEF Consume, TypeOK
  <2>3. frames' = frames + 1
    BY <2>1 DEF Consume
  <2>4. result' \in {"EOF", "readErr"} => pc' = "idle"
    BY <1>5 DEF TakeFrame, Weighing, GatherFrame, Gathering, AnswersStand
  <2>5. ~(pc' = "idle" /\ result' = "byteOrder")
    BY <1>5 DEF TakeFrame, Weighing, GatherFrame, Gathering
  <2>. QED
    BY <1>a, <2>2, <2>3, <2>4, <2>5 DEF AnswersStand
<1>6. CASE OpenUnit \/ GatherMore
  BY <1>6 DEF OpenUnit, GatherMore, Gathering, found, AnswersStand
<1>7. CASE CloseUnit
  BY <1>7 DEF CloseUnit, AnswersStand
<1>. QED
  BY <1>1, <1>2, <1>3, <1>4, <1>5, <1>6, <1>7 DEF Next, Step

(* Nothing but the end of a stream too short to tell is ever walked past   *)
(* at the head of one in the other byte order.                             *)
LEMMA HeadIsKept ==
  IInv /\ IInv' /\ AnswersStand /\ StaysAtHead /\ [Next]_vars => StaysAtHead'
<1>. SUFFICES ASSUME IInv, IInv', AnswersStand, StaysAtHead, [Next]_vars,
                     Swapped'
              PROVE  \/ Position' = 0 /\ taken' = <<>>
                     \/ eof' /\ source' < EAC3SyncInfoSize
  BY DEF StaysAtHead
<1>0. TypeOK /\ WindowIsStream
  BY DEF IInv
<1>1. stream' = stream /\ Swapped
  BY GoesForward DEF Swapped
<1>2. [F!Next]_(F!vars)
  BY StepIsOfTheWalk
<1>3. CASE eof /\ source < EAC3SyncInfoSize
  BY <1>2, <1>3 DEF F!Next, F!Arrive, F!Narrow, F!Take, F!Pass, F!vars
<1>4. CASE Position = 0 /\ taken = <<>>
  <2>1. CASE F!Arrive \/ F!Narrow \/ UNCHANGED F!vars
    BY <1>4, <2>1 DEF F!Arrive, F!Narrow, F!vars
  <2>2. CASE F!Take
    BY <1>1, <1>4, <2>2, SameStream DEF F!Take, Sound, Swapped
  <2>3. CASE Resync
    <3>1. /\ frames = 0 /\ skipped = 0
      BY <1>0, <1>4, AtTheHead DEF AnswersStand
    <3>2. Verdict # "byteOrder" /\ ~Awaited /\ Avail >= SyncInfoSize
      BY <2>3, <3>1 DEF Resync, AtHead, Weighing
    <3>3. /\ Avail > 0 /\ Avail \in Nat /\ source = Avail
          /\ EAC3SyncInfoSize \in Nat
      BY <1>0, <1>4, <3>2, HereIsPosition, SizesAssumption
    <3>4. Here.sync = "swapped"
      BY <1>0, <1>1, <1>4, <3>3, HereIsPosition DEF Here, Swapped
    <3>5. Avail < EAC3SyncInfoSize
      BY <3>2, <3>4 DEF Verdict, TryFrameAt, ParseHeader, ParseSyncInfo
    <3>6. Verdict = "short"
      BY <3>5 DEF Verdict, TryFrameAt, ParseHeader, ParseSyncInfo
    <3>7. eof
      BY <3>2, <3>6 DEF Awaited
    <3>8. eof' = eof /\ source' = source
      BY <2>3 DEF Resync, input
    <3>. QED
      BY <3>3, <3>5, <3>7, <3>8
  <2>4. CASE DropTail
    <3>1. /\ Avail \in Nat /\ source = Avail /\ Avail < SyncInfoSize
          /\ SyncInfoSize \in Nat /\ EAC3SyncInfoSize \in Nat
          /\ MaxAnyFrameSize \in Nat
          /\ SyncInfoSize < EAC3SyncInfoSize
          /\ EAC3SyncInfoSize <= MaxAnyFrameSize
      BY <1>0, <1>4, <2>4, HereIsPosition, SizesAssumption DEF DropTail
    <3>2. eof
      BY <2>4, <3>1 DEF DropTail, MustFill
    <3>3. eof' = eof /\ source' = source
      BY <2>4 DEF DropTail, input
    <3>. QED
      BY <3>1, <3>2, <3>3
  <2>5. CASE F!Pass /\ ~Resync /\ ~DropTail
    <3>1. Position' # Position /\ taken' = taken
      <4>1. Position \in Nat
        BY <1>0, HereIsPosition
      <4>. QED
        BY <2>5, <4>1 DEF F!Pass
    <3>2. ~(Fill \/ AwaitRest \/ GatherMore)
      BY <3>1, ReadsAreBehind, ReadKeepsInv
    <3>3. ~Consume
      <4>1. frames = Len(taken) /\ frames' = Len(taken') /\ frames \in Nat
        BY <1>0, AnswersKeepStanding DEF AnswersStand, TypeOK
      <4>2. frames' = frames
        BY <3>1, <4>1
      <4>. QED
        BY <4>1, <4>2 DEF Consume
    <3>4. UNCHANGED <<source, start, end>>
      BY <2>5, <3>2, <3>3
      DEF vars, Next, Step, CallNext, CallNextAccessUnit, Call, SetCRCMode,
          EndOfStream, TakeFrame, ReportByteOrder, DropOrphan, OpenUnit,
          GatherFrame, CloseUnit, input, store
    <3>. QED
      BY <3>1, <3>4 DEF Position, Avail
  <2>. QED
    BY <1>2, <2>1, <2>2, <2>3, <2>4, <2>5 DEF F!Next
<1>. QED
  BY <1>1, <1>3, <1>4 DEF StaysAtHead

(* A stream in the other byte order is reported at its head on every call, *)
(* and never called ended or walked past (framereader.go:160-163).         *)
THEOREM SwappedIsReported == Spec => []SwappedStreamIsReported
<1>1. Init => AnswersStand /\ StaysAtHead
  <2>. SUFFICES ASSUME Init PROVE AnswersStand /\ StaysAtHead
    OBVIOUS
  <2>1. /\ taken = <<>> /\ frames = 0 /\ handed = 0 /\ pc = "idle"
        /\ result = "none" /\ Position = 0
    BY DEF Init, Position, Avail
  <2>. QED
    BY <2>1 DEF AnswersStand, StaysAtHead
<1>2. IInv /\ AnswersStand /\ StaysAtHead /\ EndComesLast
        => SwappedStreamIsReported
  <2>. SUFFICES ASSUME IInv, AnswersStand, StaysAtHead, EndComesLast
                PROVE  SwappedStreamIsReported
    OBVIOUS
  <2>1. source \in Nat /\ EAC3SyncInfoSize \in Nat \ {0}
        /\ skipped \in Nat /\ handed \in Nat
    BY HereIsPosition, SizesAssumption DEF IInv, TypeOK
  <2>2. ASSUME source >= EAC3SyncInfoSize, Swapped
        PROVE  Position = 0 /\ taken = <<>> /\ result \notin {"EOF", "readErr"}
    <3>1. Position = 0 /\ taken = <<>>
      BY <2>1, <2>2 DEF StaysAtHead
    <3>2. ASSUME result \in {"EOF", "readErr"} PROVE FALSE
      <4>1. pc = "idle" /\ skipped + handed = source
        BY <3>2 DEF AnswersStand, EndComesLast
      <4>2. InFlight = 0
        BY <4>1 DEF InFlight
      <4>3. skipped + handed + 0 = 0
        BY <3>1, <4>2 DEF IInv, EveryByteIsAccounted
      <4>. QED
        BY <2>1, <2>2, <4>1, <4>3
    <3>. QED
      BY <3>1, <3>2
  <2>. QED
    BY <2>2 DEF AnswersStand, SwappedStreamIsReported, Swapped
<1>. QED
  BY <1>1, <1>2, InitIsInv, StepKeepsInv, AnswersKeepStanding, HeadIsKept,
     TheEndComesLast, PTL
  DEF Spec

-----------------------------------------------------------------------------
(* A call runs out of things to do.                                        *)

(* Empty reads come one after another only so often.                       *)
EmptyFew ==
  /\ empty <= MaxEmptyReads
  /\ ~eof => empty < MaxEmptyReads

(* The bytes the source still owes outweigh any number of empty reads.     *)
LEMMA FewerOwed ==
  ASSUME NEW most \in Nat, NEW owed \in Nat, NEW left \in Nat, left < owed
  PROVE  (most + 1) * left + most < (most + 1) * owed
<1>. DEFINE more == owed - left
<1>1. more \in Nat /\ more >= 1 /\ owed = left + more
  OBVIOUS
<1>. HIDE DEF more
<1>2. (most + 1) * owed = (most + 1) * left + (most + 1) * more
  BY <1>1
<1>3. (most + 1) * more >= most + 1
  BY <1>1
<1>4. (most + 1) * left \in Nat /\ (most + 1) * owed \in Nat
      /\ (most + 1) * more \in Nat
  BY <1>1
<1>. QED
  BY <1>2, <1>3, <1>4

(* What a call has left to do is a number of steps.                        *)
LEMMA StepsAreCounted ==
  IInv /\ EmptyFew =>
    /\ 2 * (Len(stream) - Position) \in Nat
    /\ (MaxEmptyReads + 1) * (Len(stream) - source) \in Nat
    /\ MaxEmptyReads - empty \in Nat
    /\ StepsLeft \in Nat
<1>. SUFFICES ASSUME IInv, EmptyFew
              PROVE  /\ 2 * (Len(stream) - Position) \in Nat
                     /\ (MaxEmptyReads + 1) * (Len(stream) - source) \in Nat
                     /\ MaxEmptyReads - empty \in Nat
                     /\ StepsLeft \in Nat
  OBVIOUS
<1>0. TypeOK /\ WindowIsStream
  BY DEF IInv
<1>1. /\ Position \in Nat /\ source \in Nat /\ Len(stream) \in Nat
      /\ Position <= source /\ source <= Len(stream)
  BY <1>0, HereIsPosition
<1>2. MaxEmptyReads \in Nat /\ empty \in Nat /\ empty <= MaxEmptyReads
  BY <1>0, ReaderAssumption DEF TypeOK, EmptyFew
<1>. DEFINE ahead == Len(stream) - Position
            owed == Len(stream) - source
            most == MaxEmptyReads + 1
            few == MaxEmptyReads - empty
<1>3. ahead \in Nat /\ owed \in Nat /\ most \in Nat /\ few \in Nat
  BY <1>1, <1>2
<1>. HIDE DEF ahead, owed, most, few
<1>4. 2 * ahead \in Nat /\ most * owed \in Nat
  BY <1>3
<1>5. StepsLeft = 2 * ahead + most * owed + few
                    + (IF eof THEN 0 ELSE 1) + (IF pc = "found" THEN 1 ELSE 0)
  BY DEF StepsLeft, ahead, owed, most, few
<1>6. StepsLeft \in Nat
  BY <1>3, <1>4, <1>5
<1>. QED
  BY <1>3, <1>4, <1>6 DEF ahead, owed, most, few

(* What a byte takes off the reads still owed is more than the empty reads *)
(* and the end of the source can put back.                                 *)
LEMMA OwedOutweighs ==
  ASSUME NEW ahead \in Nat, NEW before \in Nat, NEW after \in Nat,
         NEW most \in Nat, NEW was \in 0 .. most, NEW is \in 0 .. most,
         NEW still \in 0 .. 1, after + most < before
  PROVE  ahead + after + (most - is) + still
           < ahead + before + (most - was) + 1
  OBVIOUS

(* A read of a source that has not stopped leaves less to do.              *)
LEMMA ReadGetsOn ==
  ASSUME IInv, EmptyFew, ~eof, NEW from \in 0 .. start, ReadBehind(from)
  PROVE  /\ EmptyFew' /\ StepsLeft' < StepsLeft
<1>0. /\ TypeOK /\ WindowIsStream /\ source \in Nat /\ Len(stream) \in Nat
      /\ source <= Len(stream) /\ Position \in Nat /\ empty \in Nat
      /\ MaxEmptyReads \in Nat \ {0}
  BY HereIsPosition, ReaderAssumption DEF IInv, TypeOK
<1>1. /\ stream' = stream /\ Position' = Position
      /\ source' \in Nat /\ source <= source' /\ source' <= Len(stream)
  BY <1>0, ReadKeepsWindow, ReadKeepsInv DEF ReadBehind
<1>2. pc \in {"next", "gather"} /\ pc' = pc
  BY DEF ReadBehind
<1>3. PICK bytes \in Nat :
        /\ source' = source + bytes
        /\ \/ eof' /\ empty' = empty
           \/ /\ bytes = 0 /\ empty' = empty + 1
              /\ eof' <=> empty + 1 >= MaxEmptyReads
           \/ bytes # 0 /\ empty' = 0 /\ ~eof'
  <2>1. Read(end - from, from)
    BY DEF ReadBehind, CompactAndRead
  <2>2. PICK cap, a :
          /\ a \in Answers(cap - (end - from))
          /\ source' = source + a.bytes
          /\ empty' = CASE a.err # "nil" -> empty
                        [] a.err = "nil" /\ a.bytes = 0 -> empty + 1
                        [] OTHER -> 0
          /\ eof' = (\/ a.err # "nil"
                     \/ a.bytes = 0 /\ empty + 1 >= MaxEmptyReads)
    BY <2>1 DEF Read
  <2>3. a.bytes \in Nat
    BY <1>0, <2>2 DEF Answers
  <2>. DEFINE in == a.bytes
              nil == a.err = "nil"
  <2>4. /\ source' = source + in
        /\ empty' = IF ~nil THEN empty ELSE IF in = 0 THEN empty + 1 ELSE 0
        /\ eof' = (~nil \/ (in = 0 /\ empty + 1 >= MaxEmptyReads))
    BY <2>2
  <2>. HIDE DEF in, nil
  <2>5. \/ eof' /\ empty' = empty
        \/ in = 0 /\ empty' = empty + 1 /\ (eof' <=> empty + 1 >= MaxEmptyReads)
        \/ in # 0 /\ empty' = 0 /\ ~eof'
    <3>1. CASE ~nil
      BY <2>4, <3>1
    <3>2. CASE nil /\ in = 0
      BY <2>4, <3>2
    <3>3. CASE nil /\ in # 0
      BY <2>4, <3>3
    <3>. QED
      BY <3>1, <3>2, <3>3
  <2>. USE <2>3 DEF in
  <2>. WITNESS in \in Nat
  <2>. QED
    BY <2>4, <2>5
<1>4. empty < MaxEmptyReads
  BY DEF EmptyFew
<1>5. EmptyFew' /\ empty' \in Nat /\ eof' \in BOOLEAN
  <2>1. empty' \in Nat /\ eof' \in BOOLEAN
    BY ReadKeepsInv DEF IInv, TypeOK
  <2>2. CASE eof' /\ empty' = empty
    BY <1>0, <1>4, <2>1, <2>2 DEF EmptyFew
  <2>3. CASE empty' = empty + 1 /\ (eof' <=> empty + 1 >= MaxEmptyReads)
    BY <1>0, <1>4, <2>1, <2>3 DEF EmptyFew
  <2>4. CASE empty' = 0
    BY <1>0, <2>1, <2>4 DEF EmptyFew
  <2>. QED
    BY <1>3, <2>1, <2>2, <2>3, <2>4
<1>. DEFINE most == MaxEmptyReads
            Owed(from_) == (most + 1) * (Len(stream) - from_)
<1>6. /\ 2 * (Len(stream) - Position) \in Nat /\ Owed(source) \in Nat
      /\ StepsLeft = 2 * (Len(stream) - Position) + Owed(source)
                       + (most - empty) + 1
  <2>1. 2 * (Len(stream) - Position) \in Nat /\ Owed(source) \in Nat
    BY StepsAreCounted
  <2>2. StepsLeft = 2 * (Len(stream) - Position) + Owed(source)
                      + (most - empty) + 1 + 0
    BY <1>2 DEF StepsLeft
  <2>. HIDE DEF Owed
  <2>. QED
    BY <1>0, <2>1, <2>2
<1>7. /\ empty' \in Nat /\ empty' <= most
      /\ StepsLeft' = 2 * (Len(stream) - Position) + Owed(source')
                        + (most - empty') + (IF eof' THEN 0 ELSE 1)
  <2>1. empty' \in Nat /\ empty' <= most
    BY <1>0, <1>5 DEF EmptyFew
  <2>2. StepsLeft' = 2 * (Len(stream') - Position') + (most + 1) * (Len(stream') - source')
                       + (most - empty') + (IF eof' THEN 0 ELSE 1)
                       + (IF pc' = "found" THEN 1 ELSE 0)
    BY DEF StepsLeft
  <2>3. StepsLeft' = 2 * (Len(stream) - Position) + Owed(source')
                       + (most - empty') + (IF eof' THEN 0 ELSE 1) + 0
    BY <1>1, <1>2, <2>2
  <2>4. Owed(source') \in Int
    BY <1>0, <1>1
  <2>. HIDE DEF Owed
  <2>. QED
    BY <1>0, <1>6, <2>1, <2>3, <2>4
<1>8. CASE source' = source
  <2>1. bytes = 0
    BY <1>0, <1>3, <1>8
  <2>2. \/ eof' /\ empty' = empty
        \/ empty' = empty + 1
    BY <1>0, <1>3, <2>1
  <2>3. Owed(source') = Owed(source)
    BY <1>8
  <2>. HIDE DEF Owed
  <2>. QED
    BY <1>0, <1>4, <1>5, <1>6, <1>7, <2>2, <2>3
<1>9. CASE source' # source
  <2>1. /\ Len(stream) - source' \in Nat /\ Len(stream) - source \in Nat
        /\ Len(stream) - source' < Len(stream) - source
    BY <1>0, <1>1, <1>9
  <2>2. Owed(source') + most < Owed(source)
    BY <1>0, <2>1, FewerOwed
  <2>3. Owed(source') \in Nat
    <3>1. \A a, b \in Nat : a * b \in Nat
      OBVIOUS
    <3>. QED
      BY <1>0, <2>1, <3>1
  <2>. DEFINE ahead == 2 * (Len(stream) - Position)
              before == Owed(source)
              after == Owed(source')
              still == IF eof' THEN 0 ELSE 1
  <2>4. /\ ahead \in Nat /\ before \in Nat /\ after \in Nat
        /\ still \in 0 .. 1 /\ after + most < before
    BY <1>6, <2>2, <2>3
  <2>5. /\ StepsLeft = ahead + before + (most - empty) + 1
        /\ StepsLeft' = ahead + after + (most - empty') + still
    BY <1>6, <1>7
  <2>6. /\ most \in Nat /\ empty \in 0 .. most /\ empty' \in 0 .. most
    BY <1>0, <1>4, <1>7
  <2>. HIDE DEF ahead, before, after, still, most, Owed
  <2>7. ahead + after + (most - empty') + still
          < ahead + before + (most - empty) + 1
    BY <2>4, <2>6, OwedOutweighs
  <2>8. StepsLeft' < StepsLeft
    BY <2>5, <2>7
  <2>. QED
    BY <1>5, <2>8
<1>. QED
  BY <1>5, <1>8, <1>9

(* A byte taken or passed over leaves less to do, too, even if a frame is  *)
(* still to be judged for it.                                              *)
LEMMA ForwardGetsOn ==
  ASSUME IInv, EmptyFew, pc # "found",
         UNCHANGED <<stream, source, eof, empty>>,
         Position' \in (Position + 1) .. Len(stream)
  PROVE  EmptyFew' /\ StepsLeft' < StepsLeft
<1>1. EmptyFew'
  BY DEF EmptyFew
<1>. DEFINE owed == (MaxEmptyReads + 1) * (Len(stream) - source)
            few == MaxEmptyReads - empty
            still == IF eof THEN 0 ELSE 1
<1>2. /\ owed \in Nat /\ few \in Nat /\ still \in Nat
      /\ Position \in Nat /\ Len(stream) \in Nat
  <2>1. owed \in Nat /\ few \in Nat
    BY StepsAreCounted
  <2>2. Position \in Nat /\ Len(stream) \in Nat
    BY HereIsPosition DEF IInv
  <2>. QED
    BY <2>1, <2>2
<1>3. /\ StepsLeft = 2 * (Len(stream) - Position) + owed + few + still + 0
      /\ StepsLeft' = 2 * (Len(stream) - Position') + owed + few + still
                        + (IF pc' = "found" THEN 1 ELSE 0)
  BY DEF StepsLeft
<1>. HIDE DEF owed, few, still
<1>. QED
  BY <1>1, <1>2, <1>3

(* Each step keeps the count of empty reads, and each that does not end    *)
(* its call leaves less to do.                                             *)
LEMMA StepGetsOn ==
  ASSUME IInv, EmptyFew, [Next]_vars
  PROVE  /\ EmptyFew'
         /\ pc # "idle" /\ pc' # "idle" =>
              StepsLeft' < StepsLeft \/ UNCHANGED vars
<1>0. TypeOK /\ WindowIsStream /\ source \in Nat /\ Len(stream) \in Nat
      /\ source <= Len(stream) /\ Position \in Nat
  BY HereIsPosition DEF IInv
<1>1. CASE UNCHANGED vars
  BY <1>1 DEF EmptyFew, vars, store
<1>2. CASE CallNext \/ CallNextAccessUnit \/ SetCRCMode
  BY <1>2 DEF CallNext, CallNextAccessUnit, Call, SetCRCMode, EmptyFew, store
<1>3. CASE EndOfStream \/ DropTail \/ ReportByteOrder \/ CloseUnit
  BY <1>3
  DEF EndOfStream, DropTail, ReportByteOrder, CloseUnit, Return, EmptyFew, store
<1>4. CASE Fill \/ AwaitRest
  <2>1. ~eof
    BY <1>4 DEF Fill, MustFill, AwaitRest, Awaited
  <2>. QED
    BY <1>4, <2>1, ReadsAreBehind, ReadGetsOn
<1>5. CASE GatherMore
  <2>1. ~eof
    BY <1>5 DEF GatherMore
  <2>. QED
    BY <1>5, <2>1, ReadsAreBehind, ReadGetsOn
<1>6. CASE TakeFrame \/ GatherFrame
  <2>1. Avail > 0 /\ Verdict = "ok" /\ Consume /\ pc # "found"
    BY <1>0, <1>6, HereIsPosition, SizesAssumption
    DEF TakeFrame, Weighing, GatherFrame, Gathering, Short
  <2>2. F!Take
    BY <1>0, <2>1, ConsumeTakes
  <2>3. /\ Position < source
        /\ Position + CellAt(stream, Position).size <= source
        /\ Position' = Position + CellAt(stream, Position).size
    BY <2>2, SameStream DEF F!Take
  <2>4. CellAt(stream, Position).size \in Nat \ {0}
    <3>1. CellAt(stream, Position) \in Cell
      BY <1>0, <2>3, StreamCells DEF TypeOK
    <3>. QED
      BY <3>1, SizesAssumption DEF Cell
  <2>5. Position' \in (Position + 1) .. Len(stream)
    <3>. DEFINE more == CellAt(stream, Position).size
    <3>1. more \in Nat \ {0} /\ Position + more <= source
          /\ Position' = Position + more
      BY <2>3, <2>4
    <3>. HIDE DEF more
    <3>. QED
      BY <1>0, <3>1
  <2>6. UNCHANGED <<stream, source, eof, empty>>
    BY <2>1 DEF Consume, input
  <2>. QED
    BY <2>1, <2>5, <2>6, ForwardGetsOn
<1>7. CASE Resync
  <2>1. F!Pass /\ pc # "found" /\ UNCHANGED <<stream, source, eof, empty>>
    BY <1>0, <1>7, ResyncPasses DEF Resync, Weighing, input
  <2>2. Position' \in (Position + 1) .. Len(stream)
    BY <1>0, <2>1 DEF F!Pass
  <2>. QED
    BY <2>1, <2>2, ForwardGetsOn
<1>8. CASE DropOrphan \/ OpenUnit
  <2>1. /\ pc = "found" /\ pc' # "found"
        /\ UNCHANGED <<stream, source, eof, empty, Position>>
    BY <1>8 DEF DropOrphan, OpenUnit, input, store, Position, Avail
  <2>. DEFINE rest == 2 * (Len(stream) - Position)
                        + (MaxEmptyReads + 1) * (Len(stream) - source)
                        + (MaxEmptyReads - empty) + (IF eof THEN 0 ELSE 1)
  <2>2. rest \in Nat /\ StepsLeft = rest + 1
    BY <2>1, StepsAreCounted DEF StepsLeft
  <2>3. StepsLeft' = rest
    BY <2>1, <2>2 DEF StepsLeft
  <2>4. EmptyFew'
    BY <2>1 DEF EmptyFew
  <2>. HIDE DEF rest
  <2>. QED
    BY <2>2, <2>3, <2>4
<1>. QED
  BY <1>1, <1>2, <1>3, <1>4, <1>5, <1>6, <1>7, <1>8 DEF Next, Step

(* Every step a call takes before it returns - a read, a frame taken, a    *)
(* byte passed over, a verdict on a frame - leaves fewer of them to take,  *)
(* so that no call goes on for ever, whatever the source answers and       *)
(* whatever the stream holds (the loops of framereader.go:137-194,         *)
(* :213-265 and readMore's count of empty reads, :362-394).                *)
THEOREM CallsComeToAnEnd == Spec => CallsRunOut
<1>1. Init => EmptyFew
  BY ReaderAssumption DEF Init, EmptyFew
<1>2. IInv /\ EmptyFew /\ [Next]_vars => EmptyFew'
  BY StepGetsOn
<1>3. IInv' /\ EmptyFew' => (StepsLeft \in Nat)'
  <2>1. IInv /\ EmptyFew => StepsLeft \in Nat
    BY StepsAreCounted
  <2>. QED
    BY <2>1, PTL
<1>4. IInv /\ EmptyFew /\ IInv' /\ EmptyFew' /\ [Next]_vars =>
        [pc # "idle" /\ pc' # "idle" => StepsLeft' \in 0 .. StepsLeft - 1]_vars
  <2>. SUFFICES ASSUME IInv, EmptyFew, IInv', EmptyFew', [Next]_vars,
                       pc # "idle", pc' # "idle", ~UNCHANGED vars
                PROVE  StepsLeft' \in 0 .. StepsLeft - 1
    OBVIOUS
  <2>1. StepsLeft \in Nat /\ StepsLeft' \in Nat
    BY <1>3, StepsAreCounted
  <2>2. StepsLeft' < StepsLeft
    BY StepGetsOn
  <2>. QED
    BY <2>1, <2>2
<1>. QED
  BY <1>1, <1>2, <1>4, InitIsInv, StepKeepsInv, PTL DEF Spec, CallsRunOut
=============================================================================
