----------------------------- MODULE Syncframes -----------------------------
(***************************************************************************)
(* What the bytes of an elementary stream look like to the code that cuts  *)
(* syncframes out of it.                                                   *)
(*                                                                         *)
(* A stream is a sequence of cells, one for each byte offset: the cell at  *)
(* offset p says what ParseSyncInfo, ParseHeader and the check words make  *)
(* of the bytes that begin at p.  Offsets count from 0, as they do in Go.  *)
(* The modules of this project that read a stream know nothing of it but   *)
(* what the operators below say of a cell and of the bytes in view.        *)
(***************************************************************************)
EXTENDS Naturals, Sequences

CONSTANTS
  Streams,           (* The streams a reader may be opened on.             *)
  SyncInfoSize,      (* Bytes of an AC-3 syncinfo: 5 in the code.          *)
  EAC3SyncInfoSize,  (* Bytes either syncinfo fits in: 6 in the code.      *)
  MaxAnyFrameSize    (* Bytes of the largest frame: 4096 in the code.      *)

(***************************************************************************)
(* What the first bytes at an offset are:                                  *)
(*   "audio"    neither byte order's syncword, and not its first byte      *)
(*   "swapped"  the syncword in the other byte order, 0x770B               *)
(*   "false"    0x0B, but no syncinfo: no syncword, or a reserved code     *)
(*   "tiny"     an enhanced syncinfo stating a frame smaller than itself   *)
(*   "syncinfo" a syncinfo both syntaxes accept                            *)
(***************************************************************************)
SyncKinds == {"audio", "swapped", "false", "tiny", "syncinfo"}

(***************************************************************************)
(* What the bit stream information behind a syncinfo is: all there, past   *)
(* the end of the frame it belongs to, or holding a reserved code.         *)
(***************************************************************************)
BsiKinds == {"whole", "overrun", "reserved"}

CheckWords == {"crc1", "crc2", "crc"}
CRCModes == {"full", "first", "none"}

(***************************************************************************)
(* The rest of a cell: the size and kind of frame the syncinfo announces,  *)
(* and which check words verify over that many bytes.                      *)
(***************************************************************************)
Cell == [sync : SyncKinds,
         size : EAC3SyncInfoSize .. MaxAnyFrameSize,
         eac3 : BOOLEAN,
         advances : BOOLEAN,
         bsi : BsiKinds,
         verifies : SUBSET CheckWords]

ASSUME SizesAssumption ==
  /\ SyncInfoSize \in Nat \ {0}
  /\ EAC3SyncInfoSize \in Nat
  /\ MaxAnyFrameSize \in Nat
  /\ SyncInfoSize < EAC3SyncInfoSize
  /\ EAC3SyncInfoSize <= MaxAnyFrameSize

ASSUME StreamsAssumption == Streams \subseteq Seq(Cell)

CellAt(stream, p) == stream[p + 1]

-----------------------------------------------------------------------------
(* ParseSyncInfo with `have` bytes in view.  Fewer than six bytes are too  *)
(* few for either syntax, whatever they are.                               *)
ParseSyncInfo(c, have) ==
  IF have < EAC3SyncInfoSize THEN "short"
  ELSE CASE c.sync = "swapped"            -> "byteOrder"
         [] c.sync \in {"audio", "false"} -> "reject"
         [] c.sync = "tiny"               -> "short"
         [] c.sync = "syncinfo"           -> "ok"

(* ParseHeader.  A BSI that runs past the frame's own end is reported the  *)
(* way a buffer that stops too early is.                                   *)
ParseHeader(c, have) ==
  IF ParseSyncInfo(c, have) # "ok" THEN ParseSyncInfo(c, have)
  ELSE CASE c.bsi = "overrun"  -> "short"
         [] c.bsi = "reserved" -> "reject"
         [] c.bsi = "whole"    -> "ok"

(* Whether ParseSyncInfo gets as far as writing into its result.           *)
WritesHeader(c, have) ==
  have >= EAC3SyncInfoSize /\ c.sync \in {"tiny", "syncinfo"}

(* The check words a frame must satisfy under a CRC mode.  An enhanced     *)
(* frame has one word over all of it, so "first" narrows nothing there.    *)
WordsWeighed(c, mode) ==
  IF c.eac3 THEN IF mode = "none" THEN {} ELSE {"crc"}
  ELSE CASE mode = "full"  -> {"crc1", "crc2"}
         [] mode = "first" -> {"crc1"}
         [] mode = "none"  -> {}

(* tryFrameAt with `have` bytes in view.                                   *)
TryFrameAt(c, have, mode) ==
  IF ParseHeader(c, have) # "ok" THEN ParseHeader(c, have)
  ELSE IF have < c.size THEN "short"
  ELSE IF WordsWeighed(c, mode) \subseteq c.verifies THEN "ok"
  ELSE "crc"

(* The first byte of a syncword, which is what syncScan looks for.  A      *)
(* swapped syncword begins with the other one.                             *)
OpensSyncword(c) == c.sync \notin {"audio", "swapped"}

-----------------------------------------------------------------------------
(* A sound frame begins here: its header is whole and its check words hold *)
(* once all of its bytes are in view.                                      *)
Sound(c, mode) ==
  /\ c.sync = "syncinfo"
  /\ c.bsi = "whole"
  /\ WordsWeighed(c, mode) \subseteq c.verifies

=============================================================================
