--------------------------- MODULE MCFrameReader ----------------------------
(***************************************************************************)
(* FrameReader on small streams: every stream is a few segments laid end   *)
(* to end, each standing for something a real stream contains.             *)
(***************************************************************************)
EXTENDS FrameReader, SequencesExt

Plain(kind) ==
  [sync |-> kind, size |-> EAC3SyncInfoSize, eac3 |-> FALSE,
   advances |-> TRUE, bsi |-> "whole", verifies |-> {}]

Audio   == Plain("audio")
Chance  == Plain("false")     \* the syncword's first byte, by chance
Swapped == Plain("swapped")

AC3Head(bytes, words) ==
  [sync |-> "syncinfo", size |-> bytes, eac3 |-> FALSE, advances |-> TRUE,
   bsi |-> "whole", verifies |-> words]

EAC3Head(bytes, adv, words) ==
  [sync |-> "syncinfo", size |-> bytes, eac3 |-> TRUE, advances |-> adv,
   bsi |-> "whole", verifies |-> words]

Fill1(c) == <<c, Audio>>
Fill2(c) == <<c, Audio, Audio>>
Fill3(c) == <<c, Audio, Audio, Audio>>

AC3Frame     == Fill3(AC3Head(4, {"crc1", "crc2"}))
CoreFrame    == Fill2(EAC3Head(3, TRUE, {"crc"}))
Extension    == Fill2(EAC3Head(3, FALSE, {"crc"}))
BigExtension == <<EAC3Head(4, FALSE, {"crc"}), Audio, Chance, Audio>>
(* A frame whose tail was lost: its size reaches into what follows.        *)
SplicedFrame == Fill1(AC3Head(4, {"crc1"}))
BrokenExtension == Fill1(EAC3Head(4, FALSE, {}))
Garbage  == <<Audio, Chance>>
Reversed == Fill2(Swapped)
TinySync == <<[Plain("tiny") EXCEPT !.eac3 = TRUE]>>
Overrun  == <<[EAC3Head(3, FALSE, {"crc"}) EXCEPT !.bsi = "overrun"]>>
Reserved == <<[EAC3Head(3, FALSE, {"crc"}) EXCEPT !.bsi = "reserved"]>>

Segments ==
  {AC3Frame, CoreFrame, Extension, SplicedFrame, BrokenExtension,
   Garbage, Reversed, TinySync, Overrun}

(* Any two segments, any three of those whose order matters most, and the  *)
(* runs long enough to outgrow the buffer and to fill a unit.              *)
MCStreams ==
  {FlattenSeq(s) : s \in UNION {[1 .. k -> Segments] : k \in 0 .. 2}}
    \union {FlattenSeq(s) :
              s \in [1 .. 3 -> {CoreFrame, Extension, SplicedFrame, Overrun}]}
    \union {CoreFrame \o BigExtension \o Extension \o Extension \o AC3Frame,
            Extension \o CoreFrame \o Extension \o Reserved \o CoreFrame,
            Garbage \o CoreFrame \o Extension \o BrokenExtension \o Extension,
            Overrun \o CoreFrame \o Extension \o AC3Frame,
            SplicedFrame \o CoreFrame \o TinySync \o AC3Frame \o Reversed}

=============================================================================
