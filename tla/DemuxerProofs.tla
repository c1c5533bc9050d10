---------------------------- MODULE DemuxerProofs ----------------------------
(***************************************************************************)
(* Whatever a file states of its boxes, sizes and offsets, and in whatever *)
(* order the calls come, no byte outside the buffer at hand is returned,   *)
(* and away from the edges of the integers and from fields taken unseen no *)
(* call panics; of a file as a packager leaves it, the samples of the track*)
(* are returned; and of a segment that was damaged since, the samples      *)
(* before the damage.                                                      *)
(***************************************************************************)
EXTENDS Demuxer, Recursion

Ints == -IntLimit .. IntLimit - 1

SegOK ==
  /\ seg.len \in 0 .. IntLimit - 1 /\ seg.boxes \in Seq(Box)
  /\ \A i \in 1 .. Len(seg.boxes) : \A j \in 1 .. Len(seg.boxes[i].children) :
       LET run == seg.boxes[i].children[j].trun
       IN  run.sizes = <<>> \/ Len(run.sizes) = run.sampleCount

TrackOK ==
  /\ haveTrack \in BOOLEAN /\ trackID \in Tracks \union {None}
  /\ codec \in Codecs \union {""} /\ defaultSize \in Fields32

(* Ranges of the buffer.                                                   *)
Inside(ranges) ==
  /\ ranges \in Seq(ByteRange)
  /\ \A i \in 1 .. Len(ranges) :
       ranges[i].from <= ranges[i].to /\ ranges[i].to <= seg.len

(* Where the walks are: inside a moof, at a child of it when sizes are     *)
(* summed.                                                                 *)
WalkOK ==
  /\ pc \in {"idle", "box", "moof", "sizes"}
  /\ nth \in Nat \ {0} /\ off \in 0 .. seg.len
  /\ child \in Nat \ {0} /\ inner \in 0 .. IntLimit - 1
  /\ pc \in {"moof", "sizes"} => Visited(seg, nth, off) /\ inner <= Moof.len
  /\ pc = "sizes" => Visited(Moof, child, inner) /\ sample <= trun.sampleCount
  /\ sample \in Fields32 /\ total \in Ints

IInv == SegOK /\ TrackOK /\ WalkOK /\ Inside(frames) /\ Inside(out)

LEMMA IInvIsTypeOK == ASSUME IInv PROVE DemuxTypeOK
<1>1. seg.len \in 0 .. IntLimit - 1 /\ off \in 0 .. seg.len /\ IntLimit \in Nat
  BY WidthsAssumption DEF IInv, SegOK, WalkOK
<1>2. off \in 0 .. IntLimit - 1
  BY <1>1
<1> QED
  BY <1>2 DEF IInv, TrackOK, WalkOK, Inside, DemuxTypeOK, Ints

-----------------------------------------------------------------------------
(* The walks.                                                              *)

(* What a 64-bit field and the sum of two ints leave in an int.            *)
LEMMA WrappedIsAnInt ==
  ASSUME NEW n \in Int, -2 * IntLimit <= n, n < 2 * IntLimit
  PROVE  Wrapped(n) \in Ints
BY WidthsAssumption DEF Wrapped, Ints

LEMMA SmallIsItself ==
  ASSUME NEW n \in Int, -IntLimit <= n, n < IntLimit PROVE Wrapped(n) = n
BY WidthsAssumption DEF Wrapped

(* What is walked over: a buffer, or the body of a box.                    *)
Container(c) ==
  /\ c.len \in 0 .. IntLimit - 1 /\ Len(c.boxes) \in Nat
  /\ \A i \in 1 .. Len(c.boxes) :
       c.boxes[i].hdr \in Nat \ {0} /\ c.boxes[i].size \in Fields64

LEMMA ExtentTyped ==
  ASSUME NEW c, Container(c), NEW i \in 1 .. Len(c.boxes), NEW o \in Int
  PROVE  Extent(c, c.boxes[i], o) \in Int
<1>1. /\ c.boxes[i].size \in Nat /\ c.boxes[i].size < 2 * IntLimit
      /\ c.len \in Nat /\ IntLimit \in Nat
  BY WidthsAssumption DEF Container, Fields64
<1>2. Wrapped(c.boxes[i].size) \in Ints
  BY <1>1, WrappedIsAnInt
<1> QED
  BY <1>1, <1>2 DEF Extent, Ints

(* A box the walk visits is one of those there are and lies among them.    *)
LEMMA VisitedFacts ==
  ASSUME NEW c, Container(c), NEW i \in Nat \ {0}, NEW o \in Nat, Visited(c, i, o)
  PROVE  /\ i \in 1 .. Len(c.boxes)
         /\ Extent(c, c.boxes[i], o) \in Nat \ {0}
         /\ c.boxes[i].hdr \in Nat /\ c.boxes[i].hdr <= Extent(c, c.boxes[i], o)
         /\ o + Extent(c, c.boxes[i], o) \in 0 .. c.len
         /\ c.len \in 0 .. IntLimit - 1
<1>1. i \in 1 .. Len(c.boxes) /\ c.len \in 0 .. IntLimit - 1
  BY DEF Visited, Passes, Container
<1>2. c.boxes[i].hdr \in Nat \ {0} /\ Extent(c, c.boxes[i], o) \in Int
  <2>1. o \in Int
    OBVIOUS
  <2>2. Extent(c, c.boxes[i], o) \in Int
    BY <1>1, <2>1, ExtentTyped
  <2> QED
    BY <1>1, <2>2 DEF Container
<1>3. /\ Extent(c, c.boxes[i], o) >= c.boxes[i].hdr
      /\ o + Extent(c, c.boxes[i], o) <= c.len
  BY DEF Visited, Passes
<1> QED
  BY <1>1, <1>2, <1>3, WidthsAssumption

(* A box that passes is visited or bursts, and one that is visited does not*)
(* burst.                                                                  *)
LEMMA PassesIsOneOfTwo ==
  ASSUME NEW c, Container(c), NEW i \in Nat \ {0}, NEW o \in Nat
  PROVE  /\ Passes(c, i, o) <=> Visited(c, i, o) \/ Bursts(c, i, o)
         /\ ~(Visited(c, i, o) /\ Bursts(c, i, o))
<1>1. CASE i \in 1 .. Len(c.boxes)
  <2>0. o \in Int
    OBVIOUS
  <2>1. Extent(c, c.boxes[i], o) \in Int
    BY <1>1, <2>0, ExtentTyped
  <2>2. c.len \in Int
    BY DEF Container
  <2> QED
    BY <2>0, <2>1, <2>2 DEF Visited, Bursts
<1>2. CASE i \notin 1 .. Len(c.boxes)
  <2>1. ~(i <= Len(c.boxes))
    BY <1>2 DEF Container
  <2> QED
    BY <2>1 DEF Visited, Bursts, Passes
<1> QED
  BY <1>1, <1>2

LEMMA BoxesAreAContainer ==
  ASSUME NEW b, b.len \in 0 .. IntLimit - 1, b.boxes \in Seq(Box)
  PROVE  /\ Container(b)
         /\ \A i \in 1 .. Len(b.boxes) :
              /\ b.boxes[i] \in Box /\ b.boxes[i].children \in Seq(Child)
              /\ b.boxes[i].traks \in Seq(Trak) /\ b.boxes[i].trexs \in Seq(Trex)
<1>1. ASSUME NEW i \in 1 .. Len(b.boxes)
      PROVE  /\ b.boxes[i] \in Box /\ b.boxes[i].children \in Seq(Child)
             /\ b.boxes[i].traks \in Seq(Trak) /\ b.boxes[i].trexs \in Seq(Trex)
             /\ b.boxes[i].hdr \in Nat \ {0} /\ b.boxes[i].size \in Fields64
  <2>1. b.boxes[i] \in Box
    OBVIOUS
  <2>2. b.boxes[i].hdr \in {HeaderSize, 2 * HeaderSize} /\ HeaderSize \in Nat \ {0}
    BY <2>1, InputsAssumption DEF Box
  <2>3. b.boxes[i].hdr \in Nat \ {0}
    BY <2>2
  <2> QED
    BY <2>1, <2>3 DEF Box
<1>2. Len(b.boxes) \in Nat
  OBVIOUS
<1> QED
  BY <1>1, <1>2 DEF Container

(* So is the body of a box that is visited.                                *)
LEMMA BodyIsAContainer ==
  ASSUME NEW b, b.len \in 0 .. IntLimit - 1, b.boxes \in Seq(Box),
         NEW i \in Nat \ {0}, NEW o \in Nat, Visited(b, i, o)
  PROVE  /\ Container(Within(b, i, o)) /\ Within(b, i, o).len < b.len
         /\ Within(b, i, o).boxes = b.boxes[i].children
         /\ \A j \in 1 .. Len(b.boxes[i].children) : b.boxes[i].children[j] \in Child
<1>1. /\ Container(b) /\ i \in 1 .. Len(b.boxes)
      /\ b.boxes[i].children \in Seq(Child) /\ b.boxes[i].hdr \in Nat \ {0}
  <2>1. Container(b)
    BY BoxesAreAContainer
  <2>2. i \in 1 .. Len(b.boxes)
    BY <2>1, VisitedFacts
  <2> QED
    BY <2>1, <2>2, BoxesAreAContainer DEF Container
<1>2. /\ Extent(b, b.boxes[i], o) \in Nat /\ b.boxes[i].hdr <= Extent(b, b.boxes[i], o)
      /\ o + Extent(b, b.boxes[i], o) \in 0 .. b.len
  BY <1>1, VisitedFacts
<1>3. /\ Within(b, i, o).len = Extent(b, b.boxes[i], o) - b.boxes[i].hdr
      /\ Within(b, i, o).boxes = b.boxes[i].children
  BY DEF Within
<1>4. Within(b, i, o).len \in 0 .. IntLimit - 1 /\ Within(b, i, o).len < b.len
  BY <1>1, <1>2, <1>3, WidthsAssumption
<1>5. ASSUME NEW j \in 1 .. Len(b.boxes[i].children)
      PROVE  /\ b.boxes[i].children[j] \in Child
             /\ b.boxes[i].children[j].hdr \in Nat \ {0}
             /\ b.boxes[i].children[j].size \in Fields64
  <2>1. b.boxes[i].children[j] \in Child
    BY <1>1
  <2> QED
    BY <2>1, InputsAssumption DEF Child
<1>6. Len(b.boxes[i].children) \in Nat
  BY <1>1
<1> QED
  BY <1>3, <1>4, <1>5, <1>6 DEF Container

(* The walks at hand.                                                      *)
LEMMA AtABox ==
  ASSUME SegOK, WalkOK, Visited(seg, nth, off)
  PROVE  /\ nth \in 1 .. Len(seg.boxes) /\ BoxHere \in Box
         /\ BoxHere.traks \in Seq(Trak) /\ BoxHere.trexs \in Seq(Trex)
         /\ BoxHere.children \in Seq(Child)
         /\ Extent(seg, BoxHere, off) \in Nat \ {0}
         /\ off + Extent(seg, BoxHere, off) \in 0 .. seg.len
         /\ Container(Moof) /\ Moof.boxes = BoxHere.children /\ Moof.len < seg.len
<1>1. /\ nth \in Nat \ {0} /\ off \in Nat
      /\ seg.len \in 0 .. IntLimit - 1 /\ seg.boxes \in Seq(Box)
  BY WidthsAssumption DEF SegOK, WalkOK
<1>2. nth \in 1 .. Len(seg.boxes)
  BY <1>1, BoxesAreAContainer, VisitedFacts
<1>3. /\ Extent(seg, BoxHere, off) \in Nat \ {0}
      /\ off + Extent(seg, BoxHere, off) \in 0 .. seg.len
  BY <1>1, BoxesAreAContainer, VisitedFacts DEF BoxHere
<1>4. /\ BoxHere \in Box /\ BoxHere.traks \in Seq(Trak) /\ BoxHere.trexs \in Seq(Trex)
      /\ BoxHere.children \in Seq(Child)
  BY <1>1, <1>2, BoxesAreAContainer DEF BoxHere
<1>5. Container(Moof) /\ Moof.boxes = BoxHere.children /\ Moof.len < seg.len
  BY <1>1, BodyIsAContainer DEF Moof, BoxHere
<1> QED
  BY <1>2, <1>3, <1>4, <1>5

LEMMA AtAChild ==
  ASSUME SegOK, WalkOK, Visited(seg, nth, off), Visited(Moof, child, inner)
  PROVE  /\ child \in 1 .. Len(BoxHere.children) /\ Traf \in Child
         /\ Extent(Moof, Traf, inner) \in Nat \ {0}
         /\ inner + Extent(Moof, Traf, inner) \in 0 .. Moof.len
         /\ Moof.len \in 0 .. IntLimit - 1
         /\ child + 1 \in Nat \ {0}
         /\ inner + Extent(Moof, Traf, inner) \in 0 .. IntLimit - 1
<1>1. Container(Moof) /\ Moof.boxes = BoxHere.children /\ BoxHere.children \in Seq(Child)
  BY AtABox
<1>2. child \in Nat \ {0} /\ inner \in Nat
  BY WidthsAssumption DEF WalkOK
<1>3. /\ child \in 1 .. Len(Moof.boxes)
      /\ Extent(Moof, Moof.boxes[child], inner) \in Nat \ {0}
      /\ inner + Extent(Moof, Moof.boxes[child], inner) \in 0 .. Moof.len
      /\ Moof.len \in 0 .. IntLimit - 1
  BY <1>1, <1>2, VisitedFacts
<1>4. Traf = Moof.boxes[child]
  BY <1>1 DEF Traf
<1>5. Traf \in Child
  BY <1>1, <1>3 DEF Traf
<1> QED
  BY <1>1, <1>2, <1>3, <1>4, <1>5, WidthsAssumption

LEMMA TrafTyped ==
  ASSUME SegOK, WalkOK, Visited(seg, nth, off), Visited(Moof, child, inner)
  PROVE  /\ tfhd.baseOffset \in Fields64 /\ tfhd.defaultSize \in Fields32
         /\ trun.sampleCount \in Fields32 /\ trun.dataOffset \in Signed32
         /\ trun.sizes \in Seq(Fields32)
         /\ trun.sizes = <<>> \/ Len(trun.sizes) = trun.sampleCount
<1>1. nth \in 1 .. Len(seg.boxes)
  BY AtABox
<1>2. child \in 1 .. Len(BoxHere.children) /\ Traf \in Child
  BY AtAChild
<1>3. tfhd \in Tfhd /\ trun \in Trun
  BY <1>2 DEF Child, tfhd, trun
<1>4. trun.sizes = <<>> \/ Len(trun.sizes) = trun.sampleCount
  BY <1>1, <1>2 DEF SegOK, trun, Traf, BoxHere
<1>5. tfhd.baseOffset \in Fields64 /\ tfhd.defaultSize \in Fields32
  BY <1>3 DEF Tfhd
<1>6. /\ trun.sampleCount \in Fields32 /\ trun.dataOffset \in Signed32
      /\ trun.sizes \in Seq(Fields32)
  BY <1>3 DEF Trun
<1> QED
  BY <1>4, <1>5, <1>6

-----------------------------------------------------------------------------
(* The track.                                                              *)

LEMMA DefaultSizeTyped ==
  ASSUME NEW moov, moov.trexs \in Seq(Trex), NEW id, SetDefaultSize(moov, id)
  PROVE  defaultSize' \in Fields32
<1>1. ASSUME NEW i \in 1 .. Len(moov.trexs), defaultSize' = moov.trexs[i].size
      PROVE  defaultSize' \in Fields32
  <2>1. moov.trexs[i] \in Trex
    OBVIOUS
  <2> QED
    BY <1>1, <2>1 DEF Trex
<1>2. None \in Fields32
  BY WidthsAssumption DEF None, Fields32
<1> QED
  BY <1>1, <1>2 DEF SetDefaultSize

LEMMA ReadMoovKeeps ==
  ASSUME TrackOK, NEW moov, moov.traks \in Seq(Trak), moov.trexs \in Seq(Trex),
         ReadMoov(moov)
  PROVE  TrackOK'
<1>1. CASE UNCHANGED track
  BY <1>1 DEF TrackOK, track
<1>2. ASSUME NEW i \in 1 .. Len(moov.traks), IsAudio(moov.traks[i]),
             haveTrack' = TRUE, trackID' = moov.traks[i].id,
             codec' = moov.traks[i].codec,
             SetDefaultSize(moov, moov.traks[i].id)
      PROVE  TrackOK'
  <2>1. moov.traks[i] \in Trak
    OBVIOUS
  <2>2. moov.traks[i].id \in Tracks \union {None}
    BY <2>1 DEF Trak
  <2>3. moov.traks[i].codec \in Codecs
    BY <1>2 DEF IsAudio
  <2>4. defaultSize' \in Fields32
    BY <1>2, DefaultSizeTyped
  <2> QED
    BY <1>2, <2>2, <2>3, <2>4 DEF TrackOK
<1> QED
  BY <1>1, <1>2 DEF ReadMoov

LEMMA ReadUntilItBurstsKeeps ==
  ASSUME TrackOK, NEW moov \in Box, ReadUntilItBursts(moov) PROVE TrackOK'
<1>1. PICK n \in 0 .. Len(moov.traks) :
        ReadMoov([moov EXCEPT !.traks = SubSeq(moov.traks, 1, n)])
  BY DEF ReadUntilItBursts
<1> DEFINE part == [moov EXCEPT !.traks = SubSeq(moov.traks, 1, n)]
<1>2. moov.traks \in Seq(Trak) /\ moov.trexs \in Seq(Trex)
  BY DEF Box
<1>3. SubSeq(moov.traks, 1, n) \in Seq(Trak)
  BY <1>2
<1>4. part.traks = SubSeq(moov.traks, 1, n) /\ part.trexs = moov.trexs
  BY DEF Box
<1> HIDE DEF part
<1>5. ReadMoov(part)
  BY <1>1 DEF part
<1> QED
  BY <1>2, <1>3, <1>4, <1>5, ReadMoovKeeps

-----------------------------------------------------------------------------
(* The calls.                                                              *)

LEMMA CalledKeeps ==
  ASSUME NEW how, NEW b \in Inputs, Called(how, b), pc' \in {"idle", "box"}
  PROVE  SegOK' /\ WalkOK' /\ Inside(frames)' /\ Inside(out)'
<1>1. /\ seg' = b /\ nth' = 1 /\ off' = 0 /\ child' = 1 /\ inner' = 0
      /\ sample' = 0 /\ total' = 0 /\ frames' = <<>> /\ out' = <<>>
  BY DEF Called
<1>2. SegOK'
  <2>1. b.len \in 0 .. IntLimit - 1 /\ b.boxes \in Seq(Box)
    BY InputsAssumption
  <2>2. ASSUME NEW i \in 1 .. Len(b.boxes), NEW j \in 1 .. Len(b.boxes[i].children)
        PROVE  \/ b.boxes[i].children[j].trun.sizes = <<>>
               \/ Len(b.boxes[i].children[j].trun.sizes)
                    = b.boxes[i].children[j].trun.sampleCount
    BY InputsAssumption
  <2> QED
    BY <1>1, <2>1, <2>2 DEF SegOK
<1>3. 0 \in 0 .. b.len /\ 0 \in 0 .. IntLimit - 1 /\ 0 \in Fields32 /\ 0 \in Ints
  BY WidthsAssumption, InputsAssumption DEF Fields32, Ints
<1>4. WalkOK'
  BY <1>1, <1>3 DEF WalkOK
<1>5. <<>> \in Seq(ByteRange) /\ 1 .. Len(<<>>) = {}
  OBVIOUS
<1> QED
  BY <1>1, <1>2, <1>4, <1>5 DEF Inside

LEMMA InitSegmentKeeps ==
  ASSUME IInv, NEW b \in Inputs, InitSegment(b)
  PROVE  IInv'
<1>1. SegOK' /\ WalkOK' /\ Inside(frames)' /\ Inside(out)'
  BY CalledKeeps DEF InitSegment
<1>2. TrackOK
  BY DEF IInv
<1>3. TrackOK'
  <2>1. CASE UNCHANGED track
    BY <1>2, <2>1 DEF TrackOK, track
  <2>2. ASSUME NEW i \in 1 .. Len(b.boxes),
               ReadMoov(b.boxes[i]) \/ ReadUntilItBursts(b.boxes[i])
        PROVE  TrackOK'
    <3>1. b.boxes[i] \in Box
      BY InputsAssumption
    <3>2. b.boxes[i].traks \in Seq(Trak) /\ b.boxes[i].trexs \in Seq(Trex)
      BY <3>1 DEF Box
    <3> QED
      BY <1>2, <2>2, <3>1, <3>2, ReadMoovKeeps, ReadUntilItBurstsKeeps
  <2> QED
    BY <2>1, <2>2 DEF InitSegment
<1> QED
  BY <1>1, <1>3 DEF IInv

LEMMA CallKeeps ==
  ASSUME IInv, NEW b \in Inputs, Segment(b) \/ Elementary(b)
  PROVE  IInv'
<1>1. SegOK' /\ WalkOK' /\ Inside(frames)' /\ Inside(out)'
  BY CalledKeeps DEF Segment, Elementary
<1>2. TrackOK'
  BY DEF Segment, Elementary, IInv, TrackOK, track
<1> QED
  BY <1>1, <1>2 DEF IInv

-----------------------------------------------------------------------------
(* Steps of a walk.                                                        *)

(* Within a box its body stays what it is.                                 *)
LEMMA StayPut ==
  ASSUME UNCHANGED <<seg, nth, off>>
  PROVE  /\ BoxHere' = BoxHere /\ Moof' = Moof
         /\ Visited(seg, nth, off)' <=> Visited(seg, nth, off)
BY DEF BoxHere, Moof, Within, Visited, Passes, Extent

(* The walk moves on to a place in the buffer.                             *)
LEMMA StepOnTyped ==
  ASSUME SegOK, WalkOK, Visited(seg, nth, off), StepOn
  PROVE  nth' \in Nat \ {0} /\ off' \in 0 .. seg.len
<1>1. nth \in Nat \ {0} /\ off + Extent(seg, BoxHere, off) \in 0 .. seg.len
  BY AtABox DEF WalkOK
<1> QED
  BY <1>1 DEF StepOn

LEMMA ToNextChildTyped ==
  ASSUME SegOK, WalkOK, Visited(seg, nth, off), Visited(Moof, child, inner), ToNextChild
  PROVE  /\ child' \in Nat \ {0} /\ inner' \in 0 .. IntLimit - 1
         /\ inner' <= Moof.len
<1>1. /\ child + 1 \in Nat \ {0}
      /\ inner + Extent(Moof, Traf, inner) \in 0 .. IntLimit - 1
      /\ inner + Extent(Moof, Traf, inner) \in 0 .. Moof.len
  BY AtAChild
<1> QED
  BY <1>1 DEF ToNextChild

(* A call that ends early keeps what there was, whatever it returns of it. *)
LEMMA EndKeeps ==
  ASSUME IInv, TrackOK', pc' = "idle", out' = out \/ out' = <<>>,
         UNCHANGED <<asked, nth, off, nested, sums>>
  PROVE  IInv'
<1>1. SegOK' /\ Inside(frames)'
  BY DEF IInv, SegOK, Inside, asked, nested
<1>2. Inside(out)'
  <2>1. CASE out' = out
    BY <2>1 DEF IInv, Inside, asked
  <2>2. CASE out' = <<>>
    <3>1. <<>> \in Seq(ByteRange) /\ 1 .. Len(<<>>) = {}
      OBVIOUS
    <3> QED
      BY <2>2, <3>1 DEF Inside
  <2> QED
    BY <2>1, <2>2
<1>3. WalkOK'
  BY DEF IInv, WalkOK, asked, nested, sums
<1> QED
  BY <1>1, <1>2, <1>3 DEF IInv

LEMMA PanicKeeps == ASSUME IInv, Panic, TrackOK' PROVE IInv'
BY EndKeeps DEF Panic

LEMMA FailKeeps == ASSUME IInv, NEW why, FailCall(why) PROVE IInv'
<1>1. TrackOK'
  BY DEF FailCall, IInv, TrackOK, track
<1> QED
  BY <1>1, EndKeeps DEF FailCall, KeptSoFar

LEMMA VisitMoovKeeps == ASSUME IInv, VisitMoov PROVE IInv'
<1>1. BoxHere \in Box /\ BoxHere.traks \in Seq(Trak) /\ BoxHere.trexs \in Seq(Trex)
  BY AtABox DEF VisitMoov, AtBox, IInv
<1>2. CASE BoxHere.bursts
  <2>1. TrackOK'
    BY <1>1, <1>2, ReadUntilItBurstsKeeps DEF VisitMoov, IInv
  <2> QED
    BY <1>2, <2>1, PanicKeeps DEF VisitMoov
<1>3. CASE ~BoxHere.bursts
  <2>1. TrackOK'
    BY <1>1, <1>3, ReadMoovKeeps DEF VisitMoov, IInv
  <2>2. /\ StepOn /\ pc = "box" /\ Visited(seg, nth, off)
        /\ UNCHANGED <<asked, pc, nested, sums, out, outcome>>
    BY <1>3 DEF VisitMoov, AtBox
  <2>3. SegOK' /\ Inside(frames)' /\ Inside(out)'
    BY <2>2 DEF IInv, SegOK, Inside, asked, nested
  <2>4. nth' \in Nat \ {0} /\ off' \in 0 .. seg.len
    BY <2>2, StepOnTyped DEF IInv
  <2>5. WalkOK'
    BY <2>2, <2>4 DEF IInv, WalkOK, asked, nested, sums
  <2> QED
    BY <2>1, <2>3, <2>5 DEF IInv
<1> QED
  BY <1>2, <1>3

LEMMA VisitOtherKeeps == ASSUME IInv, VisitOther PROVE IInv'
<1>1. SegOK' /\ TrackOK' /\ Inside(frames)' /\ Inside(out)'
  BY DEF VisitOther, IInv, SegOK, Inside, TrackOK, asked, track, nested
<1>2. nth' \in Nat \ {0} /\ off' \in 0 .. seg.len
  BY StepOnTyped DEF VisitOther, AtBox, IInv
<1>3. WalkOK'
  BY <1>2 DEF VisitOther, AtBox, IInv, WalkOK, asked, nested, sums
<1> QED
  BY <1>1, <1>3 DEF IInv

LEMMA VisitMoofKeeps == ASSUME IInv, VisitMoof PROVE IInv'
<1>1. /\ pc' = "moof" /\ child' = 1 /\ inner' = 0 /\ frames' = <<>>
      /\ UNCHANGED <<track, asked, nth, off, sums, out>> /\ Visited(seg, nth, off)
  BY DEF VisitMoof, AtBox
<1>2. SegOK' /\ TrackOK' /\ Inside(out)' /\ seg' = seg
  BY <1>1 DEF IInv, SegOK, Inside, TrackOK, asked, track
<1>3. Inside(frames)'
  <2>1. <<>> \in Seq(ByteRange) /\ 1 .. Len(<<>>) = {}
    OBVIOUS
  <2> QED
    BY <1>1, <2>1 DEF Inside
<1>4. Moof' = Moof /\ Visited(seg, nth, off)'
  BY <1>1, <1>2, StayPut
<1>5. 0 <= Moof.len
  <2>1. Container(Moof)
    BY <1>1, AtABox DEF IInv
  <2> QED
    BY <2>1 DEF Container
<1>6. 0 \in 0 .. IntLimit - 1
  BY WidthsAssumption
<1>7. WalkOK'
  BY <1>1, <1>2, <1>4, <1>5, <1>6 DEF IInv, WalkOK, sums
<1> QED
  BY <1>2, <1>3, <1>7 DEF IInv

LEMMA EndOfBufferKeeps == ASSUME IInv, EndOfBuffer PROVE IInv'
<1>1. TrackOK'
  BY DEF EndOfBuffer, IInv, TrackOK, track
<1> QED
  BY <1>1, EndKeeps DEF EndOfBuffer

-----------------------------------------------------------------------------
(* readFragment and readTraf.                                              *)

(* The walk in a moof: the box is visited, and so is the child a traf is.  *)
LEMMA InAMoof ==
  ASSUME IInv, pc \in {"moof", "sizes"}
  PROVE  /\ SegOK /\ WalkOK /\ Visited(seg, nth, off) /\ inner <= Moof.len
         /\ AtChild \/ pc = "sizes" => Visited(Moof, child, inner)
BY DEF IInv, WalkOK, AtChild

LEMMA BrokenKeeps == ASSUME IInv, Broken PROVE IInv'
BY FailKeeps DEF Broken

LEMMA RefuseRangeKeeps == ASSUME IInv, RefuseRange PROVE IInv'
BY FailKeeps DEF RefuseRange

LEMMA PanicsKeep ==
  ASSUME IInv, PanicInWalk \/ PanicInTraf \/ PanicInRange PROVE IInv'
<1>1. Panic /\ UNCHANGED track
  BY DEF PanicInWalk, PanicInTraf, PanicInRange
<1>2. TrackOK'
  BY <1>1 DEF IInv, TrackOK, track
<1> QED
  BY <1>1, <1>2, PanicKeeps

(* On to the child behind.                                                 *)
LEMMA NextChildKeeps ==
  ASSUME IInv, AtChild, ToNextChild,
         UNCHANGED <<track, asked, pc, nth, off, frames, sums, out>>
  PROVE  IInv'
<1>1. SegOK' /\ TrackOK' /\ Inside(frames)' /\ Inside(out)' /\ seg' = seg
  BY DEF IInv, SegOK, Inside, TrackOK, asked, track
<1>2. /\ SegOK /\ WalkOK /\ Visited(seg, nth, off) /\ Visited(Moof, child, inner)
      /\ pc = "moof" /\ pc' = "moof"
  BY InAMoof DEF AtChild
<1>3. child' \in Nat \ {0} /\ inner' \in 0 .. IntLimit - 1 /\ inner' <= Moof.len
  BY <1>2, ToNextChildTyped
<1>4. Moof' = Moof /\ Visited(seg, nth, off)'
  BY <1>1, <1>2, StayPut
<1>5. WalkOK'
  BY <1>1, <1>2, <1>3, <1>4 DEF WalkOK, sums
<1> QED
  BY <1>1, <1>5 DEF IInv

LEMMA PassChildKeeps == ASSUME IInv, PassChild PROVE IInv'
BY NextChildKeeps DEF PassChild

LEMMA SkipTrafKeeps == ASSUME IInv, SkipTraf PROVE IInv'
BY NextChildKeeps DEF SkipTraf, Complete, AtTraf

LEMMA EnterTrafKeeps == ASSUME IInv, EnterTraf PROVE IInv'
<1>1. /\ SegOK' /\ TrackOK' /\ Inside(frames)' /\ Inside(out)' /\ seg' = seg
      /\ UNCHANGED <<nth, off, child, inner>>
      /\ pc' = "sizes" /\ sample' = 0 /\ total' = 0
  BY DEF EnterTraf, IInv, SegOK, Inside, TrackOK, asked, track, nested
<1>2. /\ SegOK /\ WalkOK /\ Visited(seg, nth, off) /\ inner <= Moof.len
      /\ Visited(Moof, child, inner)
  BY InAMoof DEF EnterTraf, Ours, Complete, AtTraf, AtChild
<1>3. trun.sampleCount \in Fields32
  BY <1>2, TrafTyped
<1>4. BoxHere' = BoxHere /\ Moof' = Moof /\ Visited(seg, nth, off)'
  BY <1>1, <1>2, StayPut
<1>5. trun' = trun /\ Visited(Moof, child, inner)'
  BY <1>1, <1>2, <1>4 DEF trun, Traf, Visited, Passes, Extent
<1>6. 0 \in Fields32 /\ 0 \in Ints /\ 0 <= trun.sampleCount
  BY <1>3, WidthsAssumption DEF Fields32, Ints
<1>7. WalkOK'
  BY <1>1, <1>2, <1>4, <1>5, <1>6 DEF WalkOK
<1> QED
  BY <1>1, <1>7 DEF IInv

(* What is added for a sample, and where the range lies.                   *)
SizeOfNext == IF trun.sizes # <<>> THEN trun.sizes[sample + 1] ELSE Def

LEMMA SizeTyped ==
  ASSUME IInv, pc = "sizes"
  PROVE  /\ Def \in Fields32 /\ sample \in Nat /\ trun.sampleCount \in Nat
         /\ sample < trun.sampleCount => SizeOfNext \in Fields32
<1>1. /\ tfhd.defaultSize \in Fields32 /\ trun.sampleCount \in Fields32
      /\ trun.sizes \in Seq(Fields32)
      /\ trun.sizes = <<>> \/ Len(trun.sizes) = trun.sampleCount
  BY InAMoof, TrafTyped
<1>2. Def \in Fields32
  BY <1>1 DEF Def, IInv, TrackOK
<1>3. sample \in Nat /\ trun.sampleCount \in Nat
  BY <1>1, WidthsAssumption DEF IInv, WalkOK, Fields32
<1>4. ASSUME sample < trun.sampleCount, trun.sizes # <<>>
      PROVE  trun.sizes[sample + 1] \in Fields32
  <2>1. sample + 1 \in 1 .. Len(trun.sizes)
    BY <1>1, <1>3, <1>4
  <2> QED
    BY <1>1, <2>1
<1> QED
  BY <1>2, <1>3, <1>4 DEF SizeOfNext

LEMMA AddSampleKeeps == ASSUME IInv, AddSample PROVE IInv'
<1>1. /\ SegOK' /\ TrackOK' /\ Inside(frames)' /\ Inside(out)' /\ seg' = seg
      /\ UNCHANGED <<pc, nth, off, child, inner>>
  BY DEF AddSample, IInv, SegOK, Inside, TrackOK, asked, track, nested
<1>2. /\ pc = "sizes" /\ sample < trun.sampleCount /\ sample' = sample + 1
      /\ total' = Wrapped(total + SizeOfNext)
  BY DEF AddSample, SizeOfNext
<1>3. /\ SegOK /\ WalkOK /\ Visited(seg, nth, off) /\ inner <= Moof.len
      /\ Visited(Moof, child, inner)
  BY <1>2, InAMoof
<1>4. sample \in Nat /\ trun.sampleCount \in Nat /\ SizeOfNext \in Fields32
  BY <1>2, SizeTyped
<1>5. trun.sampleCount \in Fields32
  BY <1>3, TrafTyped
<1>6. sample' \in Fields32 /\ sample' <= trun.sampleCount
  BY <1>2, <1>4, <1>5, WidthsAssumption DEF Fields32
<1>7. total' \in Ints
  <2>1. total \in Ints
    BY <1>3 DEF WalkOK
  <2>2. /\ total + SizeOfNext \in Int /\ -2 * IntLimit <= total + SizeOfNext
        /\ total + SizeOfNext < 2 * IntLimit
    BY <1>4, <2>1, WidthsAssumption DEF Ints, Fields32
  <2> QED
    BY <1>2, <2>2, WrappedIsAnInt
<1>8. BoxHere' = BoxHere /\ Moof' = Moof /\ Visited(seg, nth, off)'
  BY <1>1, <1>3, StayPut
<1>9. trun' = trun /\ Visited(Moof, child, inner)'
  BY <1>1, <1>3, <1>8 DEF trun, Traf, Visited, Passes, Extent
<1>10. WalkOK'
  BY <1>1, <1>2, <1>3, <1>6, <1>7, <1>8, <1>9 DEF WalkOK
<1> QED
  BY <1>1, <1>10 DEF IInv

LEMMA RangeTyped ==
  ASSUME IInv, pc = "sizes"
  PROVE  /\ Base \in Ints /\ Start \in Ints /\ End \in Ints /\ total \in Ints
         /\ trun.dataOffset \in Int
<1>1. /\ tfhd.baseOffset \in Fields64 /\ trun.dataOffset \in Signed32
      /\ off \in 0 .. seg.len /\ seg.len \in 0 .. IntLimit - 1 /\ total \in Ints
  BY InAMoof, TrafTyped DEF SegOK, WalkOK
<1>2. Base \in Ints
  <2>1. off \in Ints
    BY <1>1, WidthsAssumption DEF Ints
  <2>2. /\ tfhd.baseOffset \in Int /\ -2 * IntLimit <= tfhd.baseOffset
        /\ tfhd.baseOffset < 2 * IntLimit
    BY <1>1, WidthsAssumption DEF Fields64
  <2>3. Wrapped(tfhd.baseOffset) \in Ints
    BY <2>2, WrappedIsAnInt
  <2> QED
    BY <2>1, <2>3 DEF Base
<1>3. Start \in Ints
  <2>1. /\ Base + trun.dataOffset \in Int /\ -2 * IntLimit <= Base + trun.dataOffset
        /\ Base + trun.dataOffset < 2 * IntLimit
    BY <1>1, <1>2, WidthsAssumption DEF Ints, Signed32
  <2> QED
    BY <2>1, WrappedIsAnInt DEF Start
<1>4. End \in Ints
  <2>1. /\ Start + total \in Int /\ -2 * IntLimit <= Start + total
        /\ Start + total < 2 * IntLimit
    BY <1>1, <1>3, WidthsAssumption DEF Ints
  <2> QED
    BY <2>1, WrappedIsAnInt DEF End
<1>5. trun.dataOffset \in Int
  BY <1>1 DEF Signed32
<1> QED
  BY <1>1, <1>2, <1>3, <1>4, <1>5

(* What is taken lies in the buffer: the two conditions, and Go's own on   *)
(* the order of a slice's ends, leave no other place for it.               *)
LEMMA TakenInside ==
  ASSUME IInv, TakeRange
  PROVE  /\ Start \in Nat /\ End \in Nat /\ Start <= End /\ End <= seg.len
         /\ [from |-> Start, to |-> End] \in ByteRange
<1>1. pc = "sizes" /\ ~Outside /\ InOrder
  BY DEF TakeRange, AtRange
<1>2. Start \in Ints /\ End \in Ints /\ seg.len \in Nat
  BY <1>1, RangeTyped DEF IInv, SegOK
<1>3. Start \in Int /\ End \in Int
  BY <1>2 DEF Ints
<1>4. Start \in Nat /\ End \in Nat /\ Start <= End /\ End <= seg.len
  BY <1>1, <1>2, <1>3 DEF Outside, InOrder
<1> QED
  BY <1>4 DEF ByteRange

LEMMA TakeRangeKeeps == ASSUME IInv, TakeRange PROVE IInv'
<1> DEFINE r == [from |-> Start, to |-> End]
<1>1. /\ SegOK' /\ TrackOK' /\ Inside(out)' /\ seg' = seg
      /\ UNCHANGED <<nth, off, sample, total>>
  BY DEF TakeRange, IInv, SegOK, Inside, TrackOK, asked, track, sums
<1>2. r \in ByteRange /\ r.from <= r.to /\ r.to <= seg.len
  BY TakenInside
<1>3. pc = "sizes" /\ pc' = "moof" /\ ToNextChild /\ frames' = Append(frames, r)
  BY DEF TakeRange, AtRange
<1> HIDE DEF r
<1>4. Inside(frames)'
  <2>1. frames \in Seq(ByteRange)
    BY DEF IInv, Inside
  <2>2. frames' \in Seq(ByteRange) /\ Len(frames') = Len(frames) + 1
    BY <1>2, <1>3, <2>1
  <2>3. ASSUME NEW i \in 1 .. Len(frames')
        PROVE  frames'[i].from <= frames'[i].to /\ frames'[i].to <= seg'.len
    <3>1. CASE i \in 1 .. Len(frames)
      <4>1. frames'[i] = frames[i]
        BY <1>3, <2>1, <3>1
      <4> QED
        BY <3>1, <4>1, <1>1 DEF IInv, Inside
    <3>2. CASE i = Len(frames) + 1
      <4>1. frames'[i] = r
        BY <1>3, <2>1, <3>2
      <4> QED
        BY <4>1, <1>1, <1>2
    <3> QED
      BY <2>1, <2>2, <3>1, <3>2
  <2> QED
    BY <2>2, <2>3 DEF Inside
<1>5. /\ SegOK /\ WalkOK /\ Visited(seg, nth, off) /\ Visited(Moof, child, inner)
  BY <1>3, InAMoof
<1>6. child' \in Nat \ {0} /\ inner' \in 0 .. IntLimit - 1 /\ inner' <= Moof.len
  BY <1>3, <1>5, ToNextChildTyped
<1>7. Moof' = Moof /\ Visited(seg, nth, off)'
  BY <1>1, <1>5, StayPut
<1>8. WalkOK'
  BY <1>1, <1>3, <1>5, <1>6, <1>7 DEF WalkOK
<1> QED
  BY <1>1, <1>4, <1>8 DEF IInv

LEMMA EndOfMoofKeeps == ASSUME IInv, EndOfMoof PROVE IInv'
<1>1. /\ SegOK' /\ TrackOK' /\ Inside(frames)' /\ seg' = seg
      /\ UNCHANGED <<child, inner, sample, total>> /\ pc' = "box"
  BY DEF EndOfMoof, IInv, SegOK, Inside, TrackOK, asked, track, nested, sums
<1>2. nth' \in Nat \ {0} /\ off' \in 0 .. seg.len
  BY InAMoof, StepOnTyped DEF EndOfMoof
<1>3. WalkOK'
  BY <1>1, <1>2 DEF IInv, WalkOK
<1>4. out' = out \o frames
  BY DEF EndOfMoof
<1>5. out \in Seq(ByteRange) /\ frames \in Seq(ByteRange)
  BY DEF IInv, Inside
<1>6. out' \in Seq(ByteRange) /\ Len(out') = Len(out) + Len(frames)
  BY <1>4, <1>5
<1>7. ASSUME NEW i \in 1 .. Len(out')
      PROVE  out'[i].from <= out'[i].to /\ out'[i].to <= seg'.len
  <2>1. CASE i \in 1 .. Len(out)
    <3>1. out'[i] = out[i]
      BY <1>4, <1>5, <2>1
    <3> QED
      BY <2>1, <3>1, <1>1 DEF IInv, Inside
  <2>2. CASE i \in Len(out) + 1 .. Len(out) + Len(frames)
    <3>1. i - Len(out) \in 1 .. Len(frames) /\ out'[i] = frames[i - Len(out)]
      BY <1>4, <1>5, <2>2
    <3> QED
      BY <3>1, <1>1 DEF IInv, Inside
  <2> QED
    BY <1>5, <1>6, <2>1, <2>2
<1>8. Inside(out)'
  BY <1>6, <1>7 DEF Inside
<1> QED
  BY <1>1, <1>3, <1>8 DEF IInv

-----------------------------------------------------------------------------
LEMMA InitHolds == ASSUME DemuxInit PROVE IInv
<1>1. SegOK
  <2>1. seg.len = 0 /\ seg.boxes = <<>> /\ Len(seg.boxes) = 0
    BY DEF DemuxInit, NoBuffer
  <2>2. 0 \in 0 .. IntLimit - 1
    BY WidthsAssumption
  <2> QED
    BY <2>1, <2>2 DEF SegOK
<1>2. <<>> \in Seq(ByteRange) /\ 1 .. Len(<<>>) = {}
  OBVIOUS
<1>3. Inside(frames) /\ Inside(out)
  BY <1>2 DEF DemuxInit, Inside
<1>4. 0 \in Fields32 /\ 0 \in Ints /\ 0 \in 0 .. IntLimit - 1
  BY WidthsAssumption DEF Fields32, Ints
<1>5. TrackOK
  BY <1>4 DEF DemuxInit, NewDemuxer, TrackOK, None
<1>6. WalkOK
  BY <1>4 DEF DemuxInit, WalkOK, NoBuffer
<1> QED
  BY <1>1, <1>3, <1>5, <1>6 DEF IInv

LEMMA NextKeeps == ASSUME IInv, [DemuxNext]_demuxVars PROVE IInv'
<1>1. ASSUME NEW b \in Inputs, InitSegment(b) \/ Segment(b) \/ Elementary(b)
      PROVE  IInv'
  BY <1>1, InitSegmentKeeps, CallKeeps
<1>2. CASE UNCHANGED demuxVars
  BY <1>2 DEF demuxVars, asked, track, nested, sums, IInv, SegOK, TrackOK, WalkOK, Inside,
              Visited, Passes, Extent, Moof, Within, BoxHere, Traf, trun
<1> QED
  BY <1>1, <1>2, VisitMoovKeeps, VisitOtherKeeps, VisitMoofKeeps, EndOfBufferKeeps,
     PassChildKeeps, BrokenKeeps, SkipTrafKeeps, EnterTrafKeeps, AddSampleKeeps,
     RefuseRangeKeeps, TakeRangeKeeps, EndOfMoofKeeps, PanicsKeep DEF DemuxNext

(* The inductive invariant: the walks stay on the boxes of the buffer and  *)
(* of a moof, and the ranges read so far in the buffer.                    *)
THEOREM DemuxerInvariant == DemuxSpec => []IInv
<1>1. DemuxInit => IInv
  BY InitHolds
<1>2. IInv /\ [DemuxNext]_demuxVars => IInv'
  BY NextKeeps
<1> QED
  BY <1>1, <1>2, PTL DEF DemuxSpec

(* Nothing outside the buffer is ever handed back, whatever sizes, offsets *)
(* and counts its boxes state, those that leave the integers included:     *)
(* what passes the check at cmaf.go:265 and lies elsewhere all the same is *)
(* not taken, for the slice at 268 panics on it.                           *)
THEOREM NothingOutside == DemuxSpec => []DemuxTypeOK
<1>1. IInv => DemuxTypeOK
  BY IInvIsTypeOK
<1> QED
  BY <1>1, DemuxerInvariant, PTL

-----------------------------------------------------------------------------
(* The bytes of some ranges.                                               *)

Piece(r) == [k \in 1 .. r.to - r.from |-> r.from + k - 1]

Joins(ranges, bytes, n) ==
  bytes = [i \in 0 .. n |-> IF i = 0 THEN <<>> ELSE bytes[i - 1] \o Piece(ranges[i])]

LEMMA PieceTyped == ASSUME NEW r \in ByteRange PROVE Piece(r) \in Seq(Nat)
<1>1. r.from \in Nat /\ r.to \in Nat
  BY DEF ByteRange
<1>2. \A k \in 1 .. r.to - r.from : r.from + k - 1 \in Nat
  BY <1>1
<1>3. CASE r.from <= r.to
  <2>1. r.to - r.from \in Nat
    BY <1>1, <1>3
  <2> QED
    BY <1>2, <2>1 DEF Piece
<1>4. CASE r.to < r.from
  <2>1. 1 .. r.to - r.from = 1 .. 0
    BY <1>1, <1>4
  <2>2. Piece(r) = [k \in 1 .. 0 |-> r.from + k - 1]
    BY <2>1 DEF Piece
  <2> QED
    BY <2>2
<1> QED
  BY <1>1, <1>3, <1>4

(* A range that ends where it begins has none.                             *)
LEMMA NoPiece ==
  ASSUME NEW r \in ByteRange, r.from = r.to, NEW s \in Seq(Nat)
  PROVE  s \o Piece(r) = s
<1>1. r.from \in Nat /\ r.to - r.from = 0
  BY DEF ByteRange
<1>2. Piece(r) = [k \in 1 .. 0 |-> r.from + k - 1]
  BY <1>1 DEF Piece
<1>3. Piece(r) = <<>>
  BY <1>2
<1> QED
  BY <1>3

LEMMA JoinsExists ==
  ASSUME NEW n \in Nat, NEW ranges, \A i \in 1 .. n : ranges[i] \in ByteRange
  PROVE  \E bytes \in [0 .. n -> Seq(Nat)] : Joins(ranges, bytes, n)
<1> DEFINE h == [i \in 1 .. n |-> [x \in Seq(Nat) |-> x \o Piece(ranges[i])]]
<1>1. \A i \in 1 .. n : Piece(ranges[i]) \in Seq(Nat)
  BY PieceTyped
<1>2. h \in [1 .. n -> [Seq(Nat) -> Seq(Nat)]]
  <2>1. ASSUME NEW i \in 1 .. n
        PROVE  [x \in Seq(Nat) |-> x \o Piece(ranges[i])] \in [Seq(Nat) -> Seq(Nat)]
    BY <1>1
  <2> QED
    BY <2>1
<1>3. \A i \in 1 .. n : \A x \in Seq(Nat) : h[i][x] = x \o Piece(ranges[i])
  OBVIOUS
<1> HIDE DEF h
<1>4. PICK v \in [0 .. n -> Seq(Nat)] :
        v[0] = <<>> /\ \A i \in 1 .. n : v[i] = h[i][v[i - 1]]
  <2>1. <<>> \in Seq(Nat)
    OBVIOUS
  <2>2. Recursions(Seq(Nat), <<>>, n, h) # {}
    BY <1>2, <2>1, RecursionExists
  <2> QED
    BY <2>2 DEF Recursions
<1>5. ASSUME NEW i \in 0 .. n
      PROVE  v[i] = IF i = 0 THEN <<>> ELSE v[i - 1] \o Piece(ranges[i])
  <2>1. CASE i = 0
    BY <1>4, <2>1
  <2>2. CASE i # 0
    <3>1. i \in 1 .. n /\ i - 1 \in 0 .. n
      BY <2>2
    <3>2. v[i - 1] \in Seq(Nat)
      BY <3>1
    <3> QED
      BY <1>3, <1>4, <2>2, <3>1, <3>2
  <2> QED
    BY <2>1, <2>2
<1>6. v = [i \in 0 .. n |-> IF i = 0 THEN <<>> ELSE v[i - 1] \o Piece(ranges[i])]
  <2>1. v = [i \in 0 .. n |-> v[i]]
    OBVIOUS
  <2> QED
    BY <1>5, <2>1, Zenon
<1>7. Joins(ranges, v, n)
  BY <1>6 DEF Joins
<1> QED
  BY <1>7

(* They depend on no range behind.                                         *)
LEMMA JoinsAgree ==
  ASSUME NEW n \in Nat, NEW m \in n .. n + 1, NEW r, NEW s,
         \A i \in 1 .. n : r[i] = s[i]
  PROVE  \A u, v : Joins(r, u, m) /\ Joins(s, v, n) => u[n] = v[n]
<1> SUFFICES ASSUME NEW u, NEW v, Joins(r, u, m), Joins(s, v, n) PROVE u[n] = v[n]
  OBVIOUS
<1> DEFINE S == {i \in 0 .. n : u[i] = v[i]}
<1>1. 0 \in S
  <2>1. u[0] = <<>> /\ v[0] = <<>>
    BY DEF Joins
  <2> QED
    BY <2>1
<1>2. ASSUME NEW i \in 1 .. n, i - 1 \in S PROVE i \in S
  <2>1. i \in 0 .. n /\ i \in 0 .. m /\ i # 0
    OBVIOUS
  <2>2. u[i] = u[i - 1] \o Piece(r[i]) /\ v[i] = v[i - 1] \o Piece(s[i])
    BY <2>1 DEF Joins
  <2> QED
    BY <1>2, <2>1, <2>2
<1> HIDE DEF S
<1>3. n \in S
  BY <1>1, <1>2, InductTo
<1> QED
  BY <1>3 DEF S

LEMMA BytesIs ==
  ASSUME NEW n \in Nat, NEW r, \A i \in 1 .. n : r[i] \in ByteRange
  PROVE  \E v \in [0 .. n -> Seq(Nat)] : Joins(r, v, n) /\ Bytes(r, n) = v[n]
<1> DEFINE x == CHOOSE y : Joins(r, y, n)
<1>1. PICK v \in [0 .. n -> Seq(Nat)] : Joins(r, v, n)
  BY JoinsExists
<1>2. Joins(r, x, n)
  BY <1>1
<1>3. Bytes(r, n) = x[n]
  BY DEF Bytes, Joins, Piece
<1> HIDE DEF x
<1>4. x[n] = v[n]
  <2>1. n \in n .. n + 1
    OBVIOUS
  <2>2. \A y, z : Joins(r, y, n) /\ Joins(r, z, n) => y[n] = z[n]
    BY <2>1, JoinsAgree
  <2> QED
    BY <1>1, <1>2, <2>2
<1> QED
  BY <1>1, <1>3, <1>4

LEMMA NoBytes == ASSUME NEW r PROVE Bytes(r, 0) = <<>>
<1> DEFINE n == 0
<1>1. n \in Nat /\ \A i \in 1 .. n : r[i] \in ByteRange
  OBVIOUS
<1> HIDE DEF n
<1>2. PICK v \in [0 .. n -> Seq(Nat)] : Joins(r, v, n) /\ Bytes(r, n) = v[n]
  BY <1>1, BytesIs
<1> QED
  BY <1>2 DEF Joins, n

LEMMA BytesAgree ==
  ASSUME NEW n \in Nat, NEW r, NEW s, \A i \in 1 .. n : r[i] \in ByteRange,
         \A i \in 1 .. n : r[i] = s[i]
  PROVE  Bytes(r, n) = Bytes(s, n)
<1>1. \A i \in 1 .. n : s[i] \in ByteRange
  OBVIOUS
<1>2. PICK u \in [0 .. n -> Seq(Nat)] : Joins(r, u, n) /\ Bytes(r, n) = u[n]
  BY BytesIs
<1>3. PICK v \in [0 .. n -> Seq(Nat)] : Joins(s, v, n) /\ Bytes(s, n) = v[n]
  BY <1>1, BytesIs
<1>4. n \in n .. n + 1
  OBVIOUS
<1>5. \A y, z : Joins(r, y, n) /\ Joins(s, z, n) => y[n] = z[n]
  BY <1>4, JoinsAgree
<1> QED
  BY <1>2, <1>3, <1>5

(* One range more.                                                         *)
LEMMA MoreBytes ==
  ASSUME NEW n \in Nat, NEW r, \A i \in 1 .. n + 1 : r[i] \in ByteRange
  PROVE  /\ Bytes(r, n) \in Seq(Nat)
         /\ Bytes(r, n + 1) = Bytes(r, n) \o Piece(r[n + 1])
<1> DEFINE m == n + 1
<1>1. m \in Nat /\ m \in n .. n + 1 /\ m \in 0 .. m /\ m # 0 /\ m - 1 = n
        /\ \A i \in 1 .. n : r[i] \in ByteRange
  OBVIOUS
<1>0. \A i \in 1 .. m : r[i] \in ByteRange
  OBVIOUS
<1> HIDE DEF m
<1>2. PICK u \in [0 .. m -> Seq(Nat)] : Joins(r, u, m) /\ Bytes(r, m) = u[m]
  BY <1>0, <1>1, BytesIs
<1>3. PICK v \in [0 .. n -> Seq(Nat)] : Joins(r, v, n) /\ Bytes(r, n) = v[n]
  BY <1>1, BytesIs
<1>4. \A y, z : Joins(r, y, m) /\ Joins(r, z, n) => y[n] = z[n]
  BY <1>1, JoinsAgree
<1>5. u[n] = v[n]
  BY <1>2, <1>3, <1>4
<1>6. u[m] = u[m - 1] \o Piece(r[m])
  BY <1>1, <1>2 DEF Joins
<1>7. v[n] \in Seq(Nat)
  BY <1>3
<1> QED
  BY <1>1, <1>2, <1>3, <1>5, <1>6, <1>7 DEF m

(* A tail of ranges that are empty adds nothing.                           *)
LEMMA EmptyTail ==
  ASSUME NEW n \in Nat, NEW m \in Nat, n <= m, NEW r,
         \A i \in 1 .. m : r[i] \in ByteRange,
         \A i \in n + 1 .. m : r[i].from = r[i].to
  PROVE  Bytes(r, m) = Bytes(r, n)
<1> DEFINE w == m - n
           S == {k \in 0 .. w : Bytes(r, n + k) = Bytes(r, n)}
<1>1. w \in Nat /\ 0 \in S
  OBVIOUS
<1>2. ASSUME NEW k \in 1 .. w, k - 1 \in S PROVE k \in S
  <2> DEFINE l == n + (k - 1)
  <2>1. l \in Nat /\ l + 1 = n + k /\ l + 1 \in n + 1 .. m /\ k \in 0 .. w
    BY <1>1
  <2>2. \A i \in 1 .. l + 1 : r[i] \in ByteRange
    BY <2>1
  <2>3. r[l + 1] \in ByteRange /\ r[l + 1].from = r[l + 1].to
    BY <2>1
  <2>4. Bytes(r, l) = Bytes(r, n)
    BY <1>2
  <2> HIDE DEF l
  <2>5. Bytes(r, l) \in Seq(Nat) /\ Bytes(r, l + 1) = Bytes(r, l) \o Piece(r[l + 1])
    BY <2>1, <2>2, MoreBytes
  <2>6. Bytes(r, l + 1) = Bytes(r, l)
    BY <2>3, <2>5, NoPiece
  <2> QED
    BY <2>1, <2>4, <2>6
<1> HIDE DEF S
<1>3. w \in S
  BY <1>1, <1>2, InductTo
<1> QED
  BY <1>3 DEF S

-----------------------------------------------------------------------------
(* Where boxes begin, and whose runs come before them.                     *)

LEMMA StartsStep ==
  ASSUME NEW c, Container(c), 1 <= Len(c.boxes)
  PROVE  /\ BoxStarts(c)[1] = 0
         /\ \A i \in 2 .. Len(c.boxes) :
              BoxStarts(c)[i] = BoxStarts(c)[i - 1]
                                  + Extent(c, c.boxes[i - 1], BoxStarts(c)[i - 1])
<1> DEFINE w == Len(c.boxes)
           step(i, x) == x + Extent(c, c.boxes[i], x)
           Is(f) == f = [i \in 1 .. w |-> IF i = 1 THEN 0 ELSE step(i - 1, f[i - 1])]
           h == [i \in 1 .. w - 1 |-> [x \in Int |-> step(i, x)]]
<1>1. w \in Nat \ {0}
  BY DEF Container
<1>2. \A i \in 1 .. w : \A x \in Int : step(i, x) \in Int
  BY ExtentTyped
<1>3. BoxStarts(c) = CHOOSE f : Is(f)
  BY DEF BoxStarts
<1> HIDE DEF w, step
<1>4. h \in [1 .. w - 1 -> [Int -> Int]]
  <2>1. ASSUME NEW i \in 1 .. w - 1 PROVE [x \in Int |-> step(i, x)] \in [Int -> Int]
    <3>1. i \in 1 .. w
      BY <1>1
    <3> QED
      BY <1>2, <3>1
  <2> QED
    BY <2>1
<1>5. \A i \in 1 .. w - 1 : \A x \in Int : h[i][x] = step(i, x)
  OBVIOUS
<1> HIDE DEF h
<1>6. PICK f \in [1 .. w -> Int] : f[1] = 0 /\ \A i \in 2 .. w : f[i] = h[i - 1][f[i - 1]]
  <2>1. 0 \in Int
    OBVIOUS
  <2>2. Chains(Int, 0, w, h) # {}
    BY <1>1, <1>4, <2>1, ChainExists
  <2> QED
    BY <2>2 DEF Chains
<1>7. ASSUME NEW i \in 1 .. w PROVE f[i] = IF i = 1 THEN 0 ELSE step(i - 1, f[i - 1])
  <2>1. CASE i = 1
    BY <1>6, <2>1
  <2>2. CASE i # 1
    <3>1. i \in 2 .. w /\ i - 1 \in 1 .. w - 1 /\ i - 1 \in 1 .. w
      BY <1>1, <2>2
    <3>2. f[i - 1] \in Int
      BY <3>1
    <3> QED
      BY <1>5, <1>6, <2>2, <3>1, <3>2
  <2> QED
    BY <2>1, <2>2
<1>8. Is(f)
  <2>1. f = [i \in 1 .. w |-> f[i]]
    OBVIOUS
  <2> QED
    BY <1>7, <2>1, Zenon
<1>9. Is(BoxStarts(c))
  BY <1>3, <1>8
<1> DEFINE o == BoxStarts(c)
<1> HIDE DEF o
<1>10. o = [i \in 1 .. w |-> IF i = 1 THEN 0 ELSE step(i - 1, o[i - 1])]
  BY <1>9 DEF o
<1>11. o[1] = 0 /\ \A i \in 2 .. w : o[i] = step(i - 1, o[i - 1])
  <2>1. 1 \in 1 .. w
    BY <1>1
  <2>2. \A i \in 2 .. w : i \in 1 .. w /\ i # 1
    BY <1>1
  <2> QED
    BY <1>10, <2>1, <2>2
<1> QED
  BY <1>11 DEF o, step, w

(* A box the walk comes to begins in what is walked over.                  *)
LEMMA StartsInside ==
  ASSUME NEW c, Container(c), NEW i \in 1 .. Len(c.boxes), Reached(c, i - 1)
  PROVE  BoxStarts(c)[i] \in 0 .. c.len
<1> DEFINE S == {n \in 0 .. i - 1 : BoxStarts(c)[n + 1] \in 0 .. c.len}
<1>1. Len(c.boxes) \in Nat /\ 1 <= Len(c.boxes) /\ i - 1 \in Nat /\ c.len \in Nat
  BY DEF Container
<1>2. 0 \in S
  BY <1>1, StartsStep
<1>3. ASSUME NEW n \in 1 .. i - 1, n - 1 \in S PROVE n \in S
  <2>1. BoxStarts(c)[n] \in Nat /\ n \in Nat \ {0} /\ n + 1 \in 2 .. Len(c.boxes)
    BY <1>1, <1>3
  <2>2. Visited(c, n, BoxStarts(c)[n])
    BY DEF Reached
  <2>3. BoxStarts(c)[n] + Extent(c, c.boxes[n], BoxStarts(c)[n]) \in 0 .. c.len
    BY <2>1, <2>2, VisitedFacts
  <2>4. BoxStarts(c)[n + 1] = BoxStarts(c)[n] + Extent(c, c.boxes[n], BoxStarts(c)[n])
    BY <1>1, <2>1, StartsStep
  <2> QED
    BY <2>1, <2>3, <2>4
<1> HIDE DEF S
<1>4. \A n \in 0 .. i - 1 : n \in S
  BY <1>1, <1>2, <1>3, InductTo
<1>5. i - 1 \in S
  BY <1>1, <1>4
<1> QED
  BY <1>5 DEF S

LEMMA RunsStep ==
  ASSUME NEW b, b.boxes \in Seq(Box)
  PROVE  /\ RunsBefore(b)[1] = 0
         /\ \A i \in 1 .. Len(b.boxes) + 1 : RunsBefore(b)[i] \in Nat
         /\ \A i \in 1 .. Len(b.boxes) :
              RunsBefore(b)[i + 1] = RunsBefore(b)[i] + Len(b.boxes[i].children)
<1> DEFINE w == Len(b.boxes) + 1
           step(i, x) == x + Len(b.boxes[i].children)
           Is(f) == f = [i \in 1 .. w |-> IF i = 1 THEN 0 ELSE step(i - 1, f[i - 1])]
           h == [i \in 1 .. w - 1 |-> [x \in Nat |-> step(i, x)]]
<1>1. w \in Nat \ {0} /\ w - 1 = Len(b.boxes)
  OBVIOUS
<1>2. \A i \in 1 .. w - 1 : \A x \in Nat : step(i, x) \in Nat
  <2>1. ASSUME NEW i \in 1 .. w - 1 PROVE b.boxes[i].children \in Seq(Child)
    <3>1. b.boxes[i] \in Box
      BY <1>1
    <3> QED
      BY <3>1 DEF Box
  <2>2. \A i \in 1 .. w - 1 : Len(b.boxes[i].children) \in Nat
    BY <2>1
  <2> QED
    BY <2>2
<1>3. RunsBefore(b) = CHOOSE f : Is(f)
  BY DEF RunsBefore
<1> HIDE DEF w, step
<1>4. h \in [1 .. w - 1 -> [Nat -> Nat]]
  <2>1. ASSUME NEW i \in 1 .. w - 1 PROVE [x \in Nat |-> step(i, x)] \in [Nat -> Nat]
    BY <1>2
  <2> QED
    BY <2>1
<1>5. \A i \in 1 .. w - 1 : \A x \in Nat : h[i][x] = step(i, x)
  OBVIOUS
<1> HIDE DEF h
<1>6. PICK f \in [1 .. w -> Nat] : f[1] = 0 /\ \A i \in 2 .. w : f[i] = h[i - 1][f[i - 1]]
  <2>1. 0 \in Nat
    OBVIOUS
  <2>2. Chains(Nat, 0, w, h) # {}
    BY <1>1, <1>4, <2>1, ChainExists
  <2> QED
    BY <2>2 DEF Chains
<1>7. ASSUME NEW i \in 1 .. w PROVE f[i] = IF i = 1 THEN 0 ELSE step(i - 1, f[i - 1])
  <2>1. CASE i = 1
    BY <1>6, <2>1
  <2>2. CASE i # 1
    <3>1. i \in 2 .. w /\ i - 1 \in 1 .. w - 1 /\ i - 1 \in 1 .. w
      BY <1>1, <2>2
    <3>2. f[i - 1] \in Nat
      BY <3>1
    <3> QED
      BY <1>5, <1>6, <2>2, <3>1, <3>2
  <2> QED
    BY <2>1, <2>2
<1>8. Is(f)
  <2>1. f = [i \in 1 .. w |-> f[i]]
    OBVIOUS
  <2> QED
    BY <1>7, <2>1, Zenon
<1>9. Is(RunsBefore(b))
  BY <1>3, <1>8
<1> DEFINE o == RunsBefore(b)
           S == {n \in 0 .. w - 1 : o[n + 1] \in Nat}
<1> HIDE DEF o
<1>10. o = [i \in 1 .. w |-> IF i = 1 THEN 0 ELSE step(i - 1, o[i - 1])]
  BY <1>9 DEF o
<1>11. o[1] = 0 /\ \A i \in 1 .. w - 1 : o[i + 1] = step(i, o[i])
  <2>1. 1 \in 1 .. w
    BY <1>1
  <2>2. \A i \in 1 .. w - 1 : i + 1 \in 1 .. w /\ i + 1 # 1 /\ (i + 1) - 1 = i
    BY <1>1
  <2> QED
    BY <1>10, <2>1, <2>2
<1>12. \A i \in 1 .. w : o[i] \in Nat
  <2>1. 0 \in S /\ w - 1 \in Nat
    BY <1>1, <1>11
  <2>2. ASSUME NEW n \in 1 .. w - 1, n - 1 \in S PROVE n \in S
    <3>1. o[n] \in Nat /\ n \in 0 .. w - 1
      BY <2>2
    <3>2. o[n + 1] = step(n, o[n])
      BY <1>11
    <3> QED
      BY <1>2, <3>1, <3>2
  <2> HIDE DEF S
  <2>3. \A n \in 0 .. w - 1 : n \in S
    BY <2>1, <2>2, InductTo
  <2>4. \A i \in 1 .. w : i - 1 \in 0 .. w - 1 /\ (i - 1) + 1 = i
    BY <1>1
  <2> QED
    BY <2>3, <2>4 DEF S
<1> QED
  BY <1>1, <1>11, <1>12 DEF o, step, w

(* Boxes further on have no fewer runs before them.                        *)
LEMMA RunsGrow ==
  ASSUME NEW b, b.boxes \in Seq(Box), NEW i \in 1 .. Len(b.boxes) + 1,
         NEW k \in i .. Len(b.boxes) + 1
  PROVE  RunsBefore(b)[i] <= RunsBefore(b)[k]
<1> DEFINE w == Len(b.boxes) + 1 - i
           S == {n \in 0 .. w : RunsBefore(b)[i] <= RunsBefore(b)[i + n]}
<1>1. w \in Nat /\ k - i \in 0 .. w
  OBVIOUS
<1>2. 0 \in S
  BY <1>1, RunsStep
<1>3. ASSUME NEW n \in 1 .. w, n - 1 \in S PROVE n \in S
  <2> DEFINE l == i + (n - 1)
  <2>1. /\ l \in 1 .. Len(b.boxes) /\ l \in 1 .. Len(b.boxes) + 1
        /\ l + 1 = i + n /\ n \in 0 .. w
    BY <1>1
  <2>2. RunsBefore(b)[i] <= RunsBefore(b)[l]
    BY <1>3
  <2> HIDE DEF l
  <2>3. Len(b.boxes[l].children) \in Nat
    <3>1. b.boxes[l] \in Box
      BY <2>1
    <3>2. b.boxes[l].children \in Seq(Child)
      BY <3>1 DEF Box
    <3> QED
      BY <3>2
  <2>4. RunsBefore(b)[l + 1] = RunsBefore(b)[l] + Len(b.boxes[l].children)
    BY <2>1, RunsStep
  <2>5. RunsBefore(b)[i] \in Nat /\ RunsBefore(b)[l] \in Nat
    BY <2>1, RunsStep
  <2>6. RunsBefore(b)[i] <= RunsBefore(b)[l + 1]
    BY <2>2, <2>3, <2>4, <2>5
  <2> QED
    BY <2>1, <2>6
<1> HIDE DEF S
<1>4. k - i \in S
  BY <1>1, <1>2, <1>3, InductTo
<1> QED
  BY <1>4 DEF S

(* Each run is that of one box in one moof.                                *)
LEMMA OneRunEach ==
  ASSUME NEW b, b.boxes \in Seq(Box),
         NEW i \in 1 .. Len(b.boxes), NEW j \in 1 .. Len(b.boxes[i].children)
  PROVE  RunIsMet(b, RunsBefore(b)[i] + j) <=> Met(b, i, j)
<1>1. ASSUME NEW i2 \in 1 .. Len(b.boxes), NEW j2 \in 1 .. Len(b.boxes[i2].children),
             NEW i1 \in 1 .. Len(b.boxes), NEW j1 \in 1 .. Len(b.boxes[i1].children),
             i1 < i2
      PROVE  RunsBefore(b)[i1] + j1 # RunsBefore(b)[i2] + j2
  <2>1. b.boxes[i1] \in Box /\ b.boxes[i2] \in Box
    OBVIOUS
  <2>2. b.boxes[i1].children \in Seq(Child) /\ b.boxes[i2].children \in Seq(Child)
    BY <2>1 DEF Box
  <2>3. /\ i1 + 1 \in 1 .. Len(b.boxes) + 1 /\ i2 \in i1 + 1 .. Len(b.boxes) + 1
        /\ i1 \in 1 .. Len(b.boxes) + 1 /\ i2 \in 1 .. Len(b.boxes) + 1
    BY <1>1
  <2>4. /\ RunsBefore(b)[i1 + 1] = RunsBefore(b)[i1] + Len(b.boxes[i1].children)
        /\ RunsBefore(b)[i1] \in Nat /\ RunsBefore(b)[i2] \in Nat
    BY <2>3, RunsStep
  <2>5. RunsBefore(b)[i1 + 1] <= RunsBefore(b)[i2]
    BY <2>3, RunsGrow
  <2>6. j1 \in Nat /\ j2 \in Nat \ {0} /\ j1 <= Len(b.boxes[i1].children)
        /\ Len(b.boxes[i1].children) \in Nat
    BY <2>2
  <2>7. RunsBefore(b)[i1] + j1 < RunsBefore(b)[i2] + j2
    BY <2>4, <2>5, <2>6
  <2> QED
    BY <2>4, <2>6, <2>7
<1>2. ASSUME NEW i2 \in 1 .. Len(b.boxes), NEW j2 \in 1 .. Len(b.boxes[i2].children),
             RunsBefore(b)[i2] + j2 = RunsBefore(b)[i] + j
      PROVE  i2 = i /\ j2 = j
  <2>1. i2 = i
    <3>1. ~(i < i2)
      BY <1>1, <1>2
    <3>2. ~(i2 < i)
      BY <1>1, <1>2
    <3> QED
      BY <3>1, <3>2
  <2>2. i \in 1 .. Len(b.boxes) + 1
    OBVIOUS
  <2>3. RunsBefore(b)[i] \in Nat
    BY <2>2, RunsStep
  <2>4. j \in Int /\ j2 \in Int
    OBVIOUS
  <2> QED
    BY <1>2, <2>1, <2>3, <2>4
<1> QED
  BY <1>2 DEF RunIsMet

-----------------------------------------------------------------------------
(* What has been read of a buffer: as its packager left it, or, by Segment,*)
(* of a damaged one.                                                       *)

Followed == seg.sound \/ call = "segment"

InMoof == pc \in {"moof", "sizes"}

(* The runs read, or passed by, and the ranges they gave.                  *)
Done == RunsBefore(seg)[nth] + (IF InMoof THEN child - 1 ELSE 0)
Got == IF InMoof THEN out \o frames ELSE out
Run == seg.media[Done + 1]

(* The walk is at a box that begins where the boxes before it end, all of  *)
(* which were there; nothing is taken before the first moof.               *)
OnBox ==
  /\ seg \in Inputs
  /\ nth \in 1 .. Len(seg.boxes) + 1
  /\ nth <= Len(seg.boxes) => off = BoxStarts(seg)[nth]
  /\ Reached(seg, nth - 1)
  /\ RunsBefore(seg)[nth] = 0 => out = <<>>

(* And so is the walk within it.                                           *)
OnChild ==
  /\ nth <= Len(seg.boxes) /\ BoxHere.typ = "moof"
  /\ child <= Len(BoxHere.children) + 1
  /\ child <= Len(BoxHere.children) => inner = BoxStarts(Moof)[child]
  /\ Reached(Moof, child - 1)
  /\ child = 1 => frames = <<>>

(* Samples are summed for the track's runs only, and come to where the     *)
(* next of them begins, as far as an int holds it.                         *)
Told == TellsOf(seg, nth, Traf, Run)
Sum  == Run.cuts[sample + 1] - From(Run)
OnSample ==
  /\ Traf.typ = "traf" /\ ~Traf.bursts /\ trun.present /\ ~Foreign
  /\ Parse(tfhd, TfhdFields) = "whole" /\ TrunForm(trun) = "whole"
  /\ Agree /\ Told => Sum \in 0 .. sample * FieldLimit /\ total = Wrapped(Sum)

(* What goes out is whole fragments, what is at hand whole runs.           *)
TakenSoFar ==
  /\ Bytes(out, Len(out)) = Bytes(Samples, RunsBefore(seg)[nth])
  /\ Bytes(Got, Len(Got)) = Bytes(Samples, Done)

PackInv ==
  /\ Followed =>
       /\ pc # "idle" => OnBox
       /\ pc # "idle" /\ Agree => TakenSoFar
       /\ InMoof => OnChild
       /\ pc = "sizes" => OnSample
  /\ SamplesOfTheTrack
  /\ SamplesBeforeTheDamage

(* What PackagedAssumption says of the buffer at hand.                     *)
LEMMA Packaged ==
  ASSUME IInv, PackInv, Followed, pc # "idle"
  PROVE  /\ seg.media \in Seq(Runs)
         /\ RunsBefore(seg)[Len(seg.boxes) + 1] = Len(seg.media)
         /\ seg.boxes \in Seq(Box) /\ seg.len \in 0 .. IntLimit - 1
         /\ \A i \in 1 .. Len(seg.boxes) :
              seg.boxes[i].typ # "moof" => seg.boxes[i].children = <<>>
         /\ seg.sound =>
              \A i \in 1 .. Len(seg.boxes) :
                /\ Visited(seg, i, BoxStarts(seg)[i])
                /\ seg.boxes[i].typ = "moov" => RunsBefore(seg)[i] = 0
<1>1. seg \in Inputs
  BY DEF PackInv, OnBox
<1>2. \A i \in 1 .. Len(seg.boxes) :
        seg.boxes[i].typ # "moof" => seg.boxes[i].children = <<>>
  BY <1>1, PackagedAssumption
<1>3. seg.sound =>
        \A i \in 1 .. Len(seg.boxes) :
          /\ Visited(seg, i, BoxStarts(seg)[i])
          /\ seg.boxes[i].typ = "moov" => RunsBefore(seg)[i] = 0
  BY <1>1, PackagedAssumption
<1>4. /\ seg.media \in Seq(Runs)
      /\ RunsBefore(seg)[Len(seg.boxes) + 1] = Len(seg.media)
  BY <1>1, PackagedAssumption
<1> QED
  BY <1>2, <1>3, <1>4 DEF IInv, SegOK

LEMMA SamplesTyped ==
  ASSUME seg.media \in Seq(Runs)
  PROVE  /\ Len(Samples) = Len(seg.media) /\ Len(seg.media) \in Nat
         /\ \A n \in 1 .. Len(seg.media) :
              /\ Samples[n] \in ByteRange
              /\ Samples[n] = [from |-> From(seg.media[n]),
                               to |-> IF OfTheTrack(seg.media[n]) /\ RunIsMet(seg, n)
                                      THEN To(seg.media[n]) ELSE From(seg.media[n])]
<1>1. Len(seg.media) \in Nat
  OBVIOUS
<1>2. ASSUME NEW n \in 1 .. Len(seg.media)
      PROVE  From(seg.media[n]) \in Nat /\ To(seg.media[n]) \in Nat
  <2>1. seg.media[n] \in Runs
    OBVIOUS
  <2> DEFINE c == seg.media[n].cuts
  <2>2. c \in Seq(Nat) /\ c # <<>>
    BY <2>1 DEF Runs
  <2> HIDE DEF c
  <2>3. Len(c) \in 1 .. Len(c) /\ 1 \in 1 .. Len(c)
    BY <2>2
  <2>4. c[1] \in Nat /\ c[Len(c)] \in Nat
    BY <2>2, <2>3
  <2> QED
    BY <2>4 DEF c, From, To
<1>3. Samples \in Seq(ByteRange) /\ Len(Samples) = Len(seg.media)
  BY <1>1, <1>2 DEF Samples, ByteRange
<1>4. ASSUME NEW n \in 1 .. Len(seg.media)
      PROVE  /\ Samples[n] \in ByteRange
             /\ Samples[n] = [from |-> From(seg.media[n]),
                              to |-> IF OfTheTrack(seg.media[n]) /\ RunIsMet(seg, n)
                                     THEN To(seg.media[n]) ELSE From(seg.media[n])]
  BY <1>2 DEF Samples, ByteRange
<1> QED
  BY <1>1, <1>3, <1>4

(* The moof at hand, and the runs of the boxes in it.                      *)
LEMMA MoofFacts ==
  ASSUME IInv, PackInv, Followed, InMoof
  PROVE  /\ seg \in Inputs /\ seg.boxes \in Seq(Box) /\ nth \in 1 .. Len(seg.boxes)
         /\ Moof = Within(seg, nth, BoxStarts(seg)[nth]) /\ off = BoxStarts(seg)[nth]
         /\ BoxHere = seg.boxes[nth] /\ BoxHere.children \in Seq(Child)
         /\ Len(BoxHere.children) \in Nat
         /\ Container(Moof) /\ Moof.boxes = BoxHere.children
         /\ Visited(seg, nth, off) /\ Reached(seg, nth)
         /\ child \in 1 .. Len(BoxHere.children) + 1
         /\ RunsBefore(seg)[nth] \in Nat
         /\ RunsBefore(seg)[nth + 1] = RunsBefore(seg)[nth] + Len(BoxHere.children)
         /\ RunsBefore(seg)[nth + 1] <= Len(seg.media)
         /\ Done = RunsBefore(seg)[nth] + child - 1 /\ Done \in Nat
         /\ seg.media \in Seq(Runs) /\ Len(seg.media) \in Nat
<1>1. /\ OnBox /\ OnChild /\ pc # "idle"
      /\ SegOK /\ WalkOK /\ Visited(seg, nth, off)
  BY InAMoof DEF PackInv, InMoof
<1>2. nth \in 1 .. Len(seg.boxes) /\ seg.boxes \in Seq(Box)
  BY <1>1, AtABox DEF SegOK
<1>3. /\ BoxHere = seg.boxes[nth] /\ BoxHere.children \in Seq(Child)
      /\ Container(Moof) /\ Moof.boxes = BoxHere.children
  BY <1>1, AtABox DEF BoxHere
<1>4. Len(BoxHere.children) \in Nat
  BY <1>3
<1>5. off = BoxStarts(seg)[nth] /\ seg \in Inputs
  BY <1>1 DEF OnBox, OnChild
<1>6. Moof = Within(seg, nth, BoxStarts(seg)[nth])
  BY <1>5 DEF Moof
<1>7. Reached(seg, nth)
  <2>1. \A k \in 1 .. nth : k = nth \/ k \in 1 .. nth - 1
    BY <1>2
  <2> QED
    BY <1>1, <1>5, <2>1 DEF OnBox, Reached
<1>8. child \in 1 .. Len(BoxHere.children) + 1
  BY <1>1, <1>4 DEF WalkOK, OnChild
<1>9. nth \in 1 .. Len(seg.boxes) + 1 /\ nth + 1 \in 1 .. Len(seg.boxes) + 1
      /\ Len(seg.boxes) + 1 \in nth + 1 .. Len(seg.boxes) + 1
  BY <1>2
<1>10. /\ RunsBefore(seg)[nth] \in Nat
       /\ RunsBefore(seg)[nth + 1] = RunsBefore(seg)[nth] + Len(BoxHere.children)
  BY <1>2, <1>3, <1>9, RunsStep
<1>11. /\ seg.media \in Seq(Runs)
       /\ RunsBefore(seg)[Len(seg.boxes) + 1] = Len(seg.media)
  BY <1>1, Packaged
<1>12. RunsBefore(seg)[nth + 1] <= Len(seg.media)
  BY <1>2, <1>9, <1>11, RunsGrow
<1>13. Len(seg.media) \in Nat
  BY <1>11
<1>14. Done = RunsBefore(seg)[nth] + child - 1 /\ Done \in Nat
  BY <1>8, <1>10 DEF Done
<1> QED
  BY <1>1, <1>2, <1>3, <1>4, <1>5, <1>6, <1>7, <1>8, <1>10, <1>11, <1>12, <1>13, <1>14

(* A run of the moof, and whether its box is met.                          *)
LEMMA RunOfMoof ==
  ASSUME IInv, PackInv, Followed, InMoof, NEW j \in 1 .. Len(BoxHere.children)
  PROVE  LET n == RunsBefore(seg)[nth] + j
         IN  /\ n \in 1 .. Len(seg.media) /\ seg.media[n] \in Runs
             /\ RunIsMet(seg, n) <=> Reached(Moof, j)
             /\ Reached(Moof, j) =>
                  \/ StandsFor(seg, nth, BoxHere.children[j], seg.media[n])
                  \/ /\ BoxHere.children[j].typ = "traf"
                     /\ ShowsDamage(seg, nth, BoxHere.children[j], seg.media[n])
<1> DEFINE n == RunsBefore(seg)[nth] + j
<1>1. /\ seg \in Inputs /\ seg.boxes \in Seq(Box) /\ nth \in 1 .. Len(seg.boxes)
      /\ Moof = Within(seg, nth, BoxStarts(seg)[nth]) /\ Reached(seg, nth)
      /\ BoxHere = seg.boxes[nth] /\ Len(BoxHere.children) \in Nat
      /\ RunsBefore(seg)[nth] \in Nat
      /\ RunsBefore(seg)[nth] + Len(BoxHere.children) <= Len(seg.media)
      /\ seg.media \in Seq(Runs) /\ Len(seg.media) \in Nat
  BY MoofFacts
<1>2. n \in 1 .. Len(seg.media)
  BY <1>1
<1>3. seg.media[n] \in Runs
  BY <1>1, <1>2
<1>4. Met(seg, nth, j) <=> Reached(Moof, j)
  BY <1>1 DEF Met
<1>5. RunIsMet(seg, n) <=> Met(seg, nth, j)
  BY <1>1, OneRunEach
<1>6. Met(seg, nth, j) =>
        \/ StandsFor(seg, nth, seg.boxes[nth].children[j], seg.media[n])
        \/ /\ seg.boxes[nth].children[j].typ = "traf"
           /\ ShowsDamage(seg, nth, seg.boxes[nth].children[j], seg.media[n])
  BY <1>1, PackagedAssumption
<1> QED
  BY <1>1, <1>2, <1>3, <1>4, <1>5, <1>6

(* The next run: of the child the walk is at.                              *)
LEMMA NextRun ==
  ASSUME IInv, PackInv, Followed, InMoof, Visited(Moof, child, inner)
  PROVE  /\ child \in 1 .. Len(BoxHere.children) /\ Reached(Moof, child)
         /\ Traf = BoxHere.children[child]
         /\ Done + 1 = RunsBefore(seg)[nth] + child
         /\ Done + 1 \in 1 .. Len(seg.media) /\ Run \in Runs
         /\ \/ StandsFor(seg, nth, Traf, Run)
            \/ Traf.typ = "traf" /\ ShowsDamage(seg, nth, Traf, Run)
         /\ Samples[Done + 1] \in ByteRange
         /\ Samples[Done + 1] = [from |-> From(Run),
                                to |-> IF OfTheTrack(Run) THEN To(Run) ELSE From(Run)]
         /\ Bytes(Samples, Done) \in Seq(Nat)
         /\ Bytes(Samples, Done + 1) = Bytes(Samples, Done) \o Piece(Samples[Done + 1])
<1>1. /\ Container(Moof) /\ Moof.boxes = BoxHere.children
      /\ child \in 1 .. Len(BoxHere.children) + 1
      /\ RunsBefore(seg)[nth] \in Nat /\ Len(BoxHere.children) \in Nat
      /\ Done = RunsBefore(seg)[nth] + child - 1 /\ Done \in Nat
      /\ seg.media \in Seq(Runs) /\ Len(seg.media) \in Nat
  BY MoofFacts
<1>2. child \in 1 .. Len(BoxHere.children)
  <2>1. child <= Len(Moof.boxes)
    BY DEF Visited, Passes
  <2> QED
    BY <1>1, <2>1
<1>3. Reached(Moof, child)
  <2>1. OnChild
    BY DEF PackInv
  <2>2. \A k \in 1 .. child : k = child \/ k \in 1 .. child - 1
    BY <1>2
  <2>3. inner = BoxStarts(Moof)[child]
    BY <1>2, <2>1 DEF OnChild
  <2> QED
    BY <2>1, <2>2, <2>3 DEF OnChild, Reached
<1>4. Done + 1 = RunsBefore(seg)[nth] + child
  BY <1>1
<1>5. /\ Done + 1 \in 1 .. Len(seg.media) /\ Run \in Runs /\ RunIsMet(seg, Done + 1)
      /\ \/ StandsFor(seg, nth, Traf, Run)
         \/ Traf.typ = "traf" /\ ShowsDamage(seg, nth, Traf, Run)
  BY <1>2, <1>3, <1>4, RunOfMoof DEF Run, Traf
<1>6. \A n \in 1 .. Done + 1 : Samples[n] \in ByteRange
  <2>1. \A n \in 1 .. Done + 1 : n \in 1 .. Len(seg.media)
    BY <1>1, <1>5
  <2> QED
    BY <1>1, <2>1, SamplesTyped
<1>7. /\ Bytes(Samples, Done) \in Seq(Nat)
      /\ Bytes(Samples, Done + 1) = Bytes(Samples, Done) \o Piece(Samples[Done + 1])
  BY <1>1, <1>6, MoreBytes
<1>8. Samples[Done + 1] = [from |-> From(Run),
                          to |-> IF OfTheTrack(Run) THEN To(Run) ELSE From(Run)]
  BY <1>1, <1>5, SamplesTyped DEF Run
<1>9. Samples[Done + 1] \in ByteRange
  BY <1>1, <1>6
<1> QED
  BY <1>2, <1>3, <1>4, <1>5, <1>7, <1>8, <1>9 DEF Traf

(* What a traf tells of its run, in the fields' own names.                 *)
LEMMA TrafTells ==
  ASSUME IInv, PackInv, Followed, pc = "sizes"
  PROVE  /\ PlaceOf(seg, nth, Traf) = Start
         /\ Told \/ ShowsDamage(seg, nth, Traf, Run)
         /\ Told => /\ Run.track = tfhd.trackID
                    /\ Len(Run.cuts) = trun.sampleCount + 1
                    /\ From(Run) = Start
                    /\ \A k \in 1 .. trun.sampleCount :
                         Run.cuts[k + 1] = Run.cuts[k] + SizeStated(seg, Traf, k)
                    /\ trun.sizes = <<>> /\ tfhd.defaultSize = None
                         => seg.relies \notin {None, AnySize}
<1>1. InMoof /\ Visited(Moof, child, inner) /\ OnSample
  BY InAMoof DEF InMoof, PackInv
<1>2. Told \/ ShowsDamage(seg, nth, Traf, Run)
  BY <1>1, NextRun DEF OnSample, StandsFor, Told
<1>3. PlaceOf(seg, nth, Traf) = Start
  <2>1. off = BoxStarts(seg)[nth]
    BY <1>1, MoofFacts
  <2>2. PlaceOf(seg, nth, Traf) = Wrapped(trun.dataOffset + Base)
    BY <2>1 DEF PlaceOf, Base, trun, tfhd
  <2>3. trun.dataOffset \in Int /\ Base \in Int
    BY RangeTyped DEF Ints
  <2>4. trun.dataOffset + Base = Base + trun.dataOffset
    BY <2>3
  <2> QED
    BY <2>2, <2>4 DEF Start
<1> QED
  BY <1>2, <1>3 DEF Told, TellsOf, Leans, trun, tfhd

(* Nothing but a moov and a call changes whose samples are wanted.         *)
LEMMA WantsStay ==
  ASSUME UNCHANGED <<track, asked>>
  PROVE  /\ Samples' = Samples /\ Agree' = Agree /\ seg' = seg /\ call' = call
         /\ Followed' = Followed
BY DEF track, asked, Samples, OfTheTrack, Agree, Followed

(* A call that fails returns what went out before the fragment at hand.    *)
LEMMA FailPacks ==
  ASSUME IInv, PackInv, NEW why, why # "none", FailCall(why), pc # "idle"
  PROVE  PackInv'
<1>1. pc' = "idle" /\ outcome' # "none" /\ UNCHANGED <<track, asked, nth>>
  BY DEF FailCall
<1>2. Samples' = Samples /\ Agree' = Agree /\ seg' = seg /\ call' = call
  BY <1>1, WantsStay
<1>3. ASSUME call = "segment", Agree PROVE SamplesBeforeTheDamage'
  <2>1. OnBox /\ TakenSoFar
    BY <1>3 DEF PackInv, Followed
  <2>2. out' = out
    BY <1>3 DEF FailCall, KeptSoFar
  <2> QED
    BY <1>2, <2>1, <2>2 DEF OnBox, TakenSoFar, SamplesBeforeTheDamage
<1>4. SamplesBeforeTheDamage'
  BY <1>2, <1>3 DEF SamplesBeforeTheDamage
<1> QED
  BY <1>1, <1>4 DEF PackInv, InMoof, SamplesOfTheTrack

LEMMA BrokenPacks == ASSUME IInv, PackInv, Broken PROVE PackInv'
<1>1. pc # "idle"
  BY DEF Broken, Ours, Complete, AtTraf, AtChild
<1> QED
  BY <1>1, FailPacks DEF Broken

LEMMA RefuseRangePacks == ASSUME IInv, PackInv, RefuseRange PROVE PackInv'
<1>1. pc # "idle"
  BY DEF RefuseRange, AtRange
<1> QED
  BY <1>1, FailPacks DEF RefuseRange

(* A call that panics returns nothing.                                     *)
LEMMA PanicPacks == ASSUME IInv, Panic PROVE PackInv'
<1>1. pc' = "idle" /\ outcome' = "panic" /\ out' = <<>> /\ seg' = seg
  BY DEF Panic, asked
<1>2. RunsBefore(seg)[1] = 0 /\ 1 \in 1 .. Len(seg.boxes) + 1
  <2>1. seg.boxes \in Seq(Box)
    BY DEF IInv, SegOK
  <2> QED
    BY <2>1, RunsStep
<1>3. Len(out') = 0
  BY <1>1
<1>4. SamplesBeforeTheDamage'
  BY <1>1, <1>2, <1>3, NoBytes DEF SamplesBeforeTheDamage
<1> QED
  BY <1>1, <1>4 DEF PackInv, InMoof, SamplesOfTheTrack

LEMMA PanicsPack ==
  ASSUME IInv, PanicInWalk \/ PanicInTraf \/ PanicInRange PROVE PackInv'
BY PanicPacks DEF PanicInWalk, PanicInTraf, PanicInRange

LEMMA InitSegmentPacks ==
  ASSUME NEW b \in Inputs, InitSegment(b)
  PROVE  PackInv'
<1>1. pc' = "idle" /\ call' = "init"
  BY DEF InitSegment, Called
<1> QED
  BY <1>1 DEF PackInv, InMoof, SamplesOfTheTrack, SamplesBeforeTheDamage

(* A walk that begins has taken nothing of what there is.                  *)
LEMMA CallPacks ==
  ASSUME NEW b \in Inputs, Segment(b) \/ Elementary(b)
  PROVE  PackInv'
<1>1. pc' = "box" /\ seg' = b /\ nth' = 1 /\ off' = 0 /\ out' = <<>>
  BY DEF Segment, Elementary, Called
<1>2. b.boxes \in Seq(Box) /\ b.len \in 0 .. IntLimit - 1
  BY InputsAssumption
<1>3. RunsBefore(b)[1] = 0
  BY <1>2, RunsStep
<1>4. OnBox'
  <2>1. 1 <= Len(b.boxes) => BoxStarts(b)[1] = 0
    BY <1>2, BoxesAreAContainer, StartsStep
  <2>2. 1 \in 1 .. Len(b.boxes) + 1 /\ 1 .. 1 - 1 = {}
    BY <1>2
  <2>3. Reached(b, 1 - 1)
    BY <2>2 DEF Reached
  <2> QED
    BY <1>1, <2>1, <2>2, <2>3 DEF OnBox
<1>5. TakenSoFar'
  <2>1. Got' = <<>> /\ Len(Got') = 0 /\ Done' = 0
    BY <1>1, <1>3 DEF Got, Done, InMoof
  <2>2. TakenSoFar' <=> /\ Bytes(out', Len(out')) = Bytes(Samples', RunsBefore(seg')[nth'])
                        /\ Bytes(Got', Len(Got')) = Bytes(Samples', Done')
    BY DEF TakenSoFar
  <2>3. Len(out') = 0 /\ RunsBefore(seg')[nth'] = 0
    BY <1>1, <1>3
  <2> QED
    BY <1>1, <2>1, <2>2, <2>3, NoBytes
<1> QED
  BY <1>1, <1>4, <1>5 DEF PackInv, InMoof, SamplesOfTheTrack, SamplesBeforeTheDamage

(* Stepping on, the walk is where the box behind begins.                   *)
LEMMA StepOnPacks ==
  ASSUME IInv, PackInv, Followed, pc # "idle", Visited(seg, nth, off), StepOn, seg' = seg
  PROVE  /\ seg' \in Inputs
         /\ nth \in 1 .. Len(seg.boxes) /\ nth' = nth + 1 /\ nth' \in 1 .. Len(seg.boxes) + 1
         /\ nth' <= Len(seg.boxes) => off' = BoxStarts(seg)[nth']
         /\ Reached(seg, nth' - 1)
         /\ RunsBefore(seg)[nth] \in Nat
         /\ RunsBefore(seg)[nth'] = RunsBefore(seg)[nth] + Len(BoxHere.children)
<1>1. nth \in 1 .. Len(seg.boxes) /\ nth' = nth + 1
        /\ off' = off + Extent(seg, BoxHere, off)
  BY AtABox DEF IInv, StepOn
<1>2. OnBox
  BY DEF PackInv
<1>3. off = BoxStarts(seg)[nth] /\ seg' \in Inputs
  BY <1>1, <1>2 DEF OnBox
<1>4. seg.boxes \in Seq(Box) /\ seg.len \in 0 .. IntLimit - 1
  BY DEF IInv, SegOK
<1>5. ASSUME nth' <= Len(seg.boxes) PROVE off' = BoxStarts(seg)[nth']
  <2>1. nth' \in 2 .. Len(seg.boxes) /\ 1 <= Len(seg.boxes) /\ nth' - 1 = nth
    BY <1>1, <1>4, <1>5
  <2>2. BoxStarts(seg)[nth'] = BoxStarts(seg)[nth' - 1]
          + Extent(seg, seg.boxes[nth' - 1], BoxStarts(seg)[nth' - 1])
    BY <1>4, <2>1, BoxesAreAContainer, StartsStep
  <2> QED
    BY <1>1, <1>3, <2>1, <2>2 DEF BoxHere
<1>6. /\ RunsBefore(seg)[nth] \in Nat
      /\ RunsBefore(seg)[nth + 1] = RunsBefore(seg)[nth] + Len(seg.boxes[nth].children)
  <2>1. nth \in 1 .. Len(seg.boxes) + 1
    BY <1>1, <1>4
  <2> QED
    BY <1>1, <1>4, <2>1, RunsStep
<1>7. nth' \in 1 .. Len(seg.boxes) + 1
  BY <1>1, <1>4
<1>8. Reached(seg, nth' - 1)
  <2>1. \A k \in 1 .. nth' - 1 : k \in 1 .. nth - 1 \/ k = nth
    BY <1>1
  <2> QED
    BY <1>2, <1>3, <2>1 DEF OnBox, Reached
<1> QED
  BY <1>1, <1>3, <1>5, <1>6, <1>7, <1>8 DEF BoxHere

(* A box without samples leaves the walk with what it had.                 *)
LEMMA OtherBoxPacks ==
  ASSUME IInv, PackInv, Followed, AtBox, BoxHere.typ # "moof", StepOn, seg' = seg,
         pc' = pc, out' = out,
         UNCHANGED track \/ RunsBefore(seg)[nth] = 0
  PROVE  OnBox' /\ (Agree' => TakenSoFar')
<1>1. pc = "box" /\ pc' = "box" /\ Visited(seg, nth, off)
  BY DEF AtBox
<1>2. /\ nth \in 1 .. Len(seg.boxes) /\ nth' \in 1 .. Len(seg.boxes) + 1
      /\ nth' <= Len(seg.boxes) => off' = BoxStarts(seg)[nth']
      /\ Reached(seg, nth' - 1)
      /\ RunsBefore(seg)[nth] \in Nat /\ seg' \in Inputs
      /\ RunsBefore(seg)[nth'] = RunsBefore(seg)[nth] + Len(BoxHere.children)
  BY <1>1, StepOnPacks
<1>3. BoxHere.children = <<>>
  BY <1>1, <1>2, Packaged DEF BoxHere
<1>4. RunsBefore(seg)[nth'] = RunsBefore(seg)[nth]
  BY <1>2, <1>3
<1>5. OnBox /\ (Agree => TakenSoFar)
  BY <1>1 DEF PackInv
<1>6. OnBox'
  BY <1>2, <1>4, <1>5 DEF OnBox
<1>7. ASSUME Agree' PROVE TakenSoFar'
  <2>1. Got' = out /\ Got = out /\ Done = RunsBefore(seg)[nth] + 0 /\ Done' = Done
    BY <1>1, <1>4 DEF Got, Done, InMoof
  <2>2. TakenSoFar' <=> Bytes(out, Len(out)) = Bytes(Samples', RunsBefore(seg)[nth])
    <3>1. Done = RunsBefore(seg)[nth]
      BY <1>2, <2>1
    <3> QED
      BY <1>4, <2>1, <3>1 DEF TakenSoFar
  <2>3. CASE RunsBefore(seg)[nth] = 0
    <3>1. out = <<>> /\ Len(out) = 0
      BY <1>5, <2>3 DEF OnBox
    <3> QED
      BY <2>2, <2>3, <3>1, NoBytes
  <2>4. CASE UNCHANGED track
    <3>1. Samples' = Samples /\ Agree' = Agree
      BY <2>4 DEF track, Samples, OfTheTrack, Agree
    <3> QED
      BY <1>5, <1>7, <2>1, <2>2, <3>1 DEF TakenSoFar
  <2> QED
    BY <2>3, <2>4
<1> QED
  BY <1>6, <1>7

LEMMA VisitMoovPacks == ASSUME IInv, PackInv, VisitMoov PROVE PackInv'
<1>1. CASE BoxHere.bursts
  BY <1>1, PanicPacks DEF VisitMoov
<1>2. CASE ~BoxHere.bursts
  <2>1. /\ AtBox /\ BoxHere.typ = "moov" /\ BoxHere.typ # "moof" /\ StepOn /\ seg' = seg
        /\ pc' = pc /\ out' = out /\ pc = "box" /\ pc' = "box"
        /\ call = "elementary" /\ Followed' = Followed /\ seg.sound' = seg.sound
    BY <1>2 DEF VisitMoov, AtBox, asked, Followed
  <2>2. ASSUME Followed PROVE OnBox' /\ (Agree' => TakenSoFar')
    <3>1. nth \in 1 .. Len(seg.boxes)
      BY <2>1, AtABox DEF AtBox, IInv
    <3>2. seg.sound
      BY <2>1, <2>2 DEF Followed
    <3>3. RunsBefore(seg)[nth] = 0
      BY <2>1, <2>2, <3>1, <3>2, Packaged DEF BoxHere
    <3> QED
      BY <2>1, <2>2, <3>3, OtherBoxPacks
  <2> QED
    BY <2>1, <2>2 DEF PackInv, InMoof, SamplesOfTheTrack, SamplesBeforeTheDamage
<1> QED
  BY <1>1, <1>2

LEMMA VisitOtherPacks == ASSUME IInv, PackInv, VisitOther PROVE PackInv'
<1>1. /\ AtBox /\ BoxHere.typ # "moof" /\ StepOn /\ seg' = seg /\ UNCHANGED track
      /\ pc' = pc /\ out' = out /\ pc = "box" /\ pc' = "box"
      /\ Followed' = Followed
  BY DEF VisitOther, AtBox, asked, Followed
<1>2. ASSUME Followed PROVE OnBox' /\ (Agree' => TakenSoFar')
  BY <1>1, <1>2, OtherBoxPacks
<1> QED
  BY <1>1, <1>2 DEF PackInv, InMoof, SamplesOfTheTrack, SamplesBeforeTheDamage

LEMMA VisitMoofPacks == ASSUME IInv, PackInv, VisitMoof PROVE PackInv'
<1>1. /\ pc = "box" /\ pc' = "moof" /\ child' = 1 /\ inner' = 0 /\ frames' = <<>>
      /\ BoxHere.typ = "moof" /\ Visited(seg, nth, off)
      /\ UNCHANGED <<track, asked, nth, off, out>>
  BY DEF VisitMoof, AtBox
<1>2. Samples' = Samples /\ Agree' = Agree /\ seg' = seg /\ Followed' = Followed
  BY <1>1, WantsStay
<1>3. /\ nth \in 1 .. Len(seg.boxes) /\ BoxHere.children \in Seq(Child)
      /\ Container(Moof) /\ Moof.boxes = BoxHere.children
  BY <1>1, AtABox DEF IInv
<1>4. ASSUME Followed PROVE OnBox' /\ OnChild' /\ (Agree' => TakenSoFar')
  <2>1. OnBox /\ (Agree => TakenSoFar)
    BY <1>1, <1>4 DEF PackInv
  <2>2. OnBox'
    BY <1>1, <1>2, <2>1 DEF OnBox
  <2>3. Len(BoxHere.children) \in Nat
    BY <1>3
  <2>4. BoxHere' = BoxHere /\ Moof' = Moof
    BY <1>1, <1>2, StayPut
  <2>5. 1 <= Len(BoxHere.children) => BoxStarts(Moof)[1] = 0
    BY <1>3, StartsStep
  <2>6. Reached(Moof, 1 - 1)
    <3>1. 1 .. 1 - 1 = {}
      OBVIOUS
    <3> QED
      BY <3>1 DEF Reached
  <2>7. 1 <= Len(BoxHere.children) + 1 /\ nth <= Len(seg.boxes)
    BY <1>3, <2>3
  <2>8. OnChild'
    BY <1>1, <1>2, <2>4, <2>5, <2>6, <2>7 DEF OnChild
  <2>9. out \in Seq(ByteRange)
    BY DEF IInv, Inside
  <2>10. Got' = out /\ Got = out
    BY <1>1, <2>9 DEF Got, InMoof
  <2>11. Done' = Done
    BY <1>1, <1>2 DEF Done, InMoof
  <2> QED
    BY <1>1, <1>2, <2>1, <2>2, <2>8, <2>10, <2>11 DEF TakenSoFar
<1> QED
  BY <1>1, <1>2, <1>4 DEF PackInv, InMoof, SamplesOfTheTrack, SamplesBeforeTheDamage

(* A call that comes to the end has met every box.                         *)
LEMMA EndOfBufferPacks == ASSUME IInv, PackInv, EndOfBuffer PROVE PackInv'
<1>1. /\ pc = "box" /\ ~Visited(seg, nth, off) /\ pc' = "idle"
      /\ UNCHANGED <<track, asked, nth, out>>
  BY DEF EndOfBuffer, Visited
<1>2. Samples' = Samples /\ Agree' = Agree /\ seg' = seg /\ Followed' = Followed
  BY <1>1, WantsStay
<1>3. ASSUME seg.sound, Agree
      PROVE  Bytes(out, Len(out)) = Bytes(Samples, Len(Samples))
  <2>1. OnBox /\ TakenSoFar
    BY <1>1, <1>3 DEF PackInv, Followed
  <2>2. /\ seg.media \in Seq(Runs)
        /\ RunsBefore(seg)[Len(seg.boxes) + 1] = Len(seg.media)
        /\ seg.boxes \in Seq(Box)
        /\ \A i \in 1 .. Len(seg.boxes) : Visited(seg, i, BoxStarts(seg)[i])
    BY <1>1, <1>3, Packaged DEF Followed
  <2>3. nth = Len(seg.boxes) + 1
    <3>1. nth \in 1 .. Len(seg.boxes) + 1 /\ nth <= Len(seg.boxes) => off = BoxStarts(seg)[nth]
      BY <2>1 DEF OnBox
    <3>2. nth \notin 1 .. Len(seg.boxes)
      BY <1>1, <2>2, <3>1
    <3> QED
      BY <2>1, <2>2, <3>2 DEF OnBox
  <2>4. Len(Samples) = Len(seg.media) /\ Len(seg.media) \in Nat
    BY <2>2, SamplesTyped
  <2> QED
    BY <2>1, <2>2, <2>3, <2>4 DEF TakenSoFar
<1>4. SamplesOfTheTrack'
  BY <1>1, <1>2, <1>3 DEF SamplesOfTheTrack
<1>5. ASSUME call = "segment", Agree PROVE SamplesBeforeTheDamage'
  <2>1. OnBox /\ TakenSoFar /\ nth' = nth
    BY <1>1, <1>5 DEF PackInv, Followed
  <2> QED
    BY <1>1, <1>2, <2>1 DEF OnBox, TakenSoFar, SamplesBeforeTheDamage
<1>6. SamplesBeforeTheDamage'
  BY <1>1, <1>2, <1>5 DEF SamplesBeforeTheDamage, asked
<1> QED
  BY <1>1, <1>4, <1>6 DEF PackInv, InMoof

(* On to the child behind, the walk is where that begins.                  *)
LEMMA NextChildPacks ==
  ASSUME IInv, PackInv, Followed, InMoof, Visited(Moof, child, inner), ToNextChild,
         InMoof', UNCHANGED <<asked, nth, off>>, out' = out
  PROVE  OnBox' /\ OnChild' /\ Done' = Done + 1
<1>1. OnBox /\ OnChild /\ child' = child + 1 /\ inner' = inner + Extent(Moof, Traf, inner)
  BY DEF PackInv, InMoof, ToNextChild
<1>2. OnBox' /\ seg' = seg
  BY <1>1 DEF OnBox, asked
<1>3. /\ Container(Moof) /\ Moof.boxes = BoxHere.children /\ Len(BoxHere.children) \in Nat
      /\ Visited(seg, nth, off) /\ RunsBefore(seg)[nth] \in Nat
      /\ Done = RunsBefore(seg)[nth] + child - 1
  BY MoofFacts
<1>4. /\ child \in 1 .. Len(BoxHere.children) /\ Reached(Moof, child)
      /\ Traf = Moof.boxes[child] /\ inner = BoxStarts(Moof)[child]
  BY <1>1, <1>3, NextRun DEF OnChild
<1>5. BoxHere' = BoxHere /\ Moof' = Moof
  BY <1>2, StayPut
<1>6. ASSUME child' <= Len(BoxHere.children) PROVE inner' = BoxStarts(Moof)[child']
  <2>1. child' \in 2 .. Len(Moof.boxes) /\ 1 <= Len(Moof.boxes) /\ child' - 1 = child
    BY <1>1, <1>3, <1>4, <1>6
  <2>2. BoxStarts(Moof)[child'] = BoxStarts(Moof)[child' - 1]
          + Extent(Moof, Moof.boxes[child' - 1], BoxStarts(Moof)[child' - 1])
    BY <1>3, <2>1, StartsStep
  <2> QED
    BY <1>1, <1>4, <2>1, <2>2
<1>7. child' <= Len(BoxHere.children) + 1 /\ child' - 1 = child /\ child' # 1
  BY <1>1, <1>3, <1>4
<1>8. OnChild'
  BY <1>1, <1>2, <1>4, <1>5, <1>6, <1>7 DEF OnChild
<1>9. Done' = Done + 1
  <2>1. Done' = RunsBefore(seg)[nth] + (child' - 1)
    BY <1>2 DEF Done
  <2> QED
    BY <1>3, <1>4, <1>7, <2>1
<1> QED
  BY <1>2, <1>8, <1>9

(* A child whose run gives the track nothing is passed by.                 *)
LEMMA NothingPacks ==
  ASSUME IInv, PackInv, AtChild, ToNextChild,
         UNCHANGED <<track, asked, pc, nth, off, frames, sums, out, outcome>>,
         Followed => Samples[Done + 1].from = Samples[Done + 1].to
  PROVE  PackInv'
<1>1. pc = "moof" /\ pc' = "moof" /\ Visited(Moof, child, inner)
  BY DEF AtChild
<1>2. Samples' = Samples /\ Agree' = Agree /\ seg' = seg /\ Followed' = Followed
  BY WantsStay
<1>3. ASSUME Followed PROVE OnBox' /\ OnChild' /\ (Agree' => TakenSoFar')
  <2>1. InMoof /\ InMoof' /\ (Agree => TakenSoFar)
    BY <1>1, <1>3 DEF PackInv, InMoof
  <2>2. OnBox' /\ OnChild' /\ Done' = Done + 1
    BY <1>1, <1>3, <2>1, NextChildPacks
  <2>3. Got' = Got
    BY <1>1 DEF Got, InMoof
  <2>4. /\ Samples[Done + 1] \in ByteRange
        /\ Bytes(Samples, Done) \in Seq(Nat)
        /\ Bytes(Samples, Done + 1) = Bytes(Samples, Done) \o Piece(Samples[Done + 1])
    BY <1>1, <1>3, <2>1, NextRun
  <2>5. Bytes(Samples, Done + 1) = Bytes(Samples, Done)
    BY <1>3, <2>4, NoPiece
  <2> QED
    BY <1>2, <2>1, <2>2, <2>3, <2>5 DEF TakenSoFar
<1> QED
  BY <1>1, <1>2, <1>3 DEF PackInv, InMoof, SamplesOfTheTrack, SamplesBeforeTheDamage

(* A box that is no traf has no samples.                                   *)
LEMMA PassChildPacks == ASSUME IInv, PackInv, PassChild PROVE PackInv'
<1>1. /\ AtChild /\ Traf.typ # "traf" /\ ToNextChild
      /\ UNCHANGED <<track, asked, pc, nth, off, frames, sums, out, outcome>>
  BY DEF PassChild
<1>2. ASSUME Followed PROVE Samples[Done + 1].from = Samples[Done + 1].to
  <2>1. InMoof /\ Visited(Moof, child, inner)
    BY <1>1 DEF AtChild, InMoof
  <2>2. /\ StandsFor(seg, nth, Traf, Run)
        /\ Samples[Done + 1] = [from |-> From(Run),
                               to |-> IF OfTheTrack(Run) THEN To(Run) ELSE From(Run)]
    BY <1>1, <1>2, <2>1, NextRun
  <2>3. From(Run) = To(Run)
    BY <1>1, <2>2 DEF StandsFor
  <2> QED
    BY <2>2, <2>3
<1> QED
  BY <1>1, <1>2, NothingPacks

(* The run of another track is passed by, and is no sample of the track.   *)
LEMMA SkipTrafPacks == ASSUME IInv, PackInv, SkipTraf PROVE PackInv'
<1>1. /\ AtChild /\ Traf.typ = "traf" /\ ~Traf.bursts /\ trun.present /\ Foreign
      /\ Parse(tfhd, TfhdFields) = "whole" /\ ToNextChild
      /\ UNCHANGED <<track, asked, pc, nth, off, frames, sums, out, outcome>>
  BY DEF SkipTraf, Complete, AtTraf
<1>2. ASSUME Followed PROVE Samples[Done + 1].from = Samples[Done + 1].to
  <2>1. InMoof /\ Visited(Moof, child, inner)
    BY <1>1 DEF AtChild, InMoof
  <2>2. /\ \/ StandsFor(seg, nth, Traf, Run)
           \/ Traf.typ = "traf" /\ ShowsDamage(seg, nth, Traf, Run)
        /\ Samples[Done + 1] = [from |-> From(Run),
                               to |-> IF OfTheTrack(Run) THEN To(Run) ELSE From(Run)]
    BY <1>2, <2>1, NextRun
  <2>3. Run.track = tfhd.trackID
    BY <1>1, <2>2 DEF StandsFor, TellsOf, ShowsDamage, tfhd, trun
  <2>4. ~OfTheTrack(Run)
    BY <1>1, <2>3 DEF Foreign, OfTheTrack
  <2> QED
    BY <2>2, <2>4
<1> QED
  BY <1>1, <1>2, NothingPacks

(* Samples are summed: the child stays the one it is.                      *)
LEMMA SumsPack ==
  ASSUME IInv, PackInv, Followed, InMoof, InMoof',
         UNCHANGED <<track, asked, nth, off, nested, out>>
  PROVE  /\ OnBox' /\ OnChild' /\ (Agree' => TakenSoFar')
         /\ Agree' = Agree /\ Foreign' = Foreign /\ Traf' = Traf /\ Told' = Told
         /\ trun' = trun /\ tfhd' = tfhd /\ Run' = Run /\ seg' = seg
<1>1. Samples' = Samples /\ Agree' = Agree /\ seg' = seg
  BY WantsStay
<1>2. OnBox /\ OnChild /\ (Agree => TakenSoFar)
  BY DEF PackInv, InMoof
<1>3. BoxHere' = BoxHere /\ Moof' = Moof
  BY <1>1, StayPut
<1>4. OnBox' /\ OnChild'
  BY <1>1, <1>2, <1>3 DEF OnBox, OnChild, nested
<1>5. Done' = Done /\ Got' = Got /\ Run' = Run
  BY <1>1 DEF Done, Got, Run, nested
<1>6. Traf' = Traf /\ trun' = trun /\ tfhd' = tfhd
  BY <1>3 DEF Traf, trun, tfhd, nested
<1>7. Foreign' = Foreign /\ Told' = Told
  BY <1>1, <1>5, <1>6 DEF Foreign, Told, track
<1> QED
  BY <1>1, <1>2, <1>4, <1>5, <1>6, <1>7 DEF TakenSoFar

LEMMA EnterTrafPacks == ASSUME IInv, PackInv, EnterTraf PROVE PackInv'
<1>1. /\ pc = "moof" /\ pc' = "sizes" /\ sample' = 0 /\ total' = 0
      /\ Traf.typ = "traf" /\ ~Traf.bursts /\ trun.present /\ ~Foreign
      /\ Parse(tfhd, TfhdFields) = "whole" /\ TrunForm(trun) = "whole"
      /\ UNCHANGED <<track, asked, nth, off, nested, out>>
      /\ Visited(Moof, child, inner)
  BY DEF EnterTraf, Ours, Complete, AtTraf, AtChild
<1>2. Followed' = Followed
  BY <1>1, WantsStay
<1>3. ASSUME Followed
      PROVE  OnBox' /\ OnChild' /\ (Agree' => TakenSoFar') /\ OnSample'
  <2>1. InMoof /\ InMoof'
    BY <1>1 DEF InMoof
  <2>2. /\ OnBox' /\ OnChild' /\ (Agree' => TakenSoFar')
        /\ Foreign' = Foreign /\ Traf' = Traf
        /\ trun' = trun /\ tfhd' = tfhd /\ Run' = Run
    BY <1>1, <1>3, <2>1, SumsPack
  <2>3. From(Run) \in Nat
    <3>1. Run \in Runs
      BY <1>1, <1>3, <2>1, NextRun
    <3>2. Run.cuts \in Seq(Nat) /\ Run.cuts # <<>>
      BY <3>1 DEF Runs
    <3> QED
      BY <3>2 DEF From
  <2>4. Sum' = 0
    <3>1. Sum' = Run.cuts[0 + 1] - Run.cuts[1]
      BY <1>1, <2>2 DEF Sum, From
    <3> QED
      BY <2>3, <3>1 DEF From
  <2>5. Sum' \in 0 .. sample' * FieldLimit /\ total' = Wrapped(Sum')
    <3>1. 0 * FieldLimit = 0 /\ IntLimit \in Nat /\ IntLimit > 0
      BY WidthsAssumption
    <3>2. Wrapped(0) = 0
      BY <3>1, SmallIsItself
    <3> QED
      BY <1>1, <2>4, <3>1, <3>2
  <2>6. OnSample'
    <3>1. Wrapped(Sum)' = Wrapped(Sum')
      BY DEF Wrapped
    <3> QED
      BY <1>1, <2>2, <2>5, <3>1 DEF OnSample
  <2> QED
    BY <2>2, <2>6
<1> QED
  BY <1>1, <1>2, <1>3 DEF PackInv, InMoof, SamplesOfTheTrack, SamplesBeforeTheDamage

(* A product grows with its factor.                                        *)
LEMMA TimesGrows ==
  ASSUME NEW a \in Nat, NEW b \in Nat, a <= b, NEW n \in Nat
  PROVE  a * n <= b * n
<1>1. (b - a) * n \in Nat
  OBVIOUS
<1>2. b * n = a * n + (b - a) * n
  OBVIOUS
<1>3. a * n \in Nat /\ b * n \in Nat
  OBVIOUS
<1> QED
  BY <1>1, <1>2, <1>3

(* Sums wrapped on the way come to the sum wrapped.                        *)
LEMMA WrappedSum ==
  ASSUME NEW s \in Nat, NEW x \in Nat, x < IntLimit, s + x < 2 * IntLimit
  PROVE  Wrapped(Wrapped(s) + x) = Wrapped(s + x)
<1>1. IntLimit \in Nat
  BY WidthsAssumption
<1>2. CASE s < IntLimit
  <2>1. Wrapped(s) = s
    BY <1>1, <1>2, SmallIsItself
  <2> QED
    BY <2>1
<1>3. CASE s >= IntLimit
  <2>1. Wrapped(s) = s - 2 * IntLimit
    BY <1>1, <1>3 DEF Wrapped
  <2>2. -IntLimit <= s - 2 * IntLimit + x /\ s - 2 * IntLimit + x < IntLimit
    BY <1>1, <1>3
  <2>3. Wrapped(s - 2 * IntLimit + x) = s - 2 * IntLimit + x
    BY <1>1, <2>2, SmallIsItself
  <2>4. Wrapped(s + x) = s + x - 2 * IntLimit
    BY <1>1, <1>3 DEF Wrapped
  <2> QED
    BY <1>1, <2>1, <2>3, <2>4
<1> QED
  BY <1>1, <1>2, <1>3

(* What the samples of a traf come to is less than two ints hold.          *)
LEMMA SumsAreBounded ==
  ASSUME NEW n \in Fields32, NEW k \in 0 .. n
  PROVE  /\ k * FieldLimit \in Nat /\ k * FieldLimit < 2 * IntLimit
         /\ (k + 1) * FieldLimit = k * FieldLimit + FieldLimit
<1>1. /\ IntLimit \in Nat /\ FieldLimit \in Nat \ {0} /\ k \in Nat /\ k + 1 \in Nat
      /\ FieldLimit * FieldLimit <= 2 * IntLimit /\ k + 1 <= FieldLimit
  BY WidthsAssumption DEF Fields32
<1>2. (k + 1) * FieldLimit <= FieldLimit * FieldLimit
  BY <1>1, TimesGrows
<1>3. (k + 1) * FieldLimit = k * FieldLimit + FieldLimit
  BY <1>1
<1>4. k * FieldLimit \in Nat
  BY <1>1
<1>5. FieldLimit * FieldLimit \in Nat
  BY <1>1
<1> QED
  BY <1>1, <1>2, <1>3, <1>4, <1>5

(* The next sample's size is the one the traf states.                      *)
LEMMA AddSamplePacks == ASSUME IInv, PackInv, AddSample PROVE PackInv'
<1>1. /\ pc = "sizes" /\ pc' = "sizes" /\ sample < trun.sampleCount
      /\ sample' = sample + 1 /\ total' = Wrapped(total + SizeOfNext)
      /\ UNCHANGED <<track, asked, nth, off, nested, out>>
  BY DEF AddSample, SizeOfNext
<1>2. Followed' = Followed
  BY <1>1, WantsStay
<1>3. ASSUME Followed
      PROVE  OnBox' /\ OnChild' /\ (Agree' => TakenSoFar') /\ OnSample'
  <2>1. InMoof /\ InMoof' /\ OnSample /\ Visited(Moof, child, inner)
    BY <1>1, <1>3, InAMoof DEF InMoof, PackInv
  <2>2. /\ OnBox' /\ OnChild' /\ (Agree' => TakenSoFar')
        /\ Agree' = Agree /\ Foreign' = Foreign /\ Traf' = Traf /\ Told' = Told
        /\ trun' = trun /\ tfhd' = tfhd /\ Run' = Run
    BY <1>1, <1>3, <2>1, SumsPack
  <2>3. /\ Run \in Runs
        /\ Told =>
             /\ Len(Run.cuts) = trun.sampleCount + 1
             /\ \A k \in 1 .. trun.sampleCount :
                  Run.cuts[k + 1] = Run.cuts[k] + SizeStated(seg, Traf, k)
             /\ trun.sizes = <<>> /\ tfhd.defaultSize = None
                  => seg.relies \notin {None, AnySize}
    BY <1>1, <1>3, <2>1, NextRun, TrafTells
  <2>4. /\ sample \in Nat /\ trun.sampleCount \in Nat /\ SizeOfNext \in Fields32
        /\ sample + 1 \in 1 .. trun.sampleCount
    <3>1. sample \in Nat /\ trun.sampleCount \in Nat /\ SizeOfNext \in Fields32
      BY <1>1, SizeTyped
    <3> QED
      BY <1>1, <3>1
  <2>5. ASSUME Agree, Told PROVE SizeStated(seg, Traf, sample + 1) = SizeOfNext
    BY <2>3, <2>5 DEF SizeStated, SizeOfNext, Def, Agree, trun, tfhd
  <2>6. ASSUME Agree, Told
        PROVE  Sum' \in 0 .. sample' * FieldLimit /\ total' = Wrapped(Sum')
    <3> DEFINE c == Run.cuts
    <3>1. c \in Seq(Nat) /\ Len(c) = trun.sampleCount + 1
      BY <2>3, <2>6 DEF Runs
    <3>2. c[(sample + 1) + 1] = c[sample + 1] + SizeOfNext
      BY <2>3, <2>4, <2>5, <2>6
    <3>3. Sum = c[sample + 1] - c[1] /\ Sum' = c[(sample + 1) + 1] - c[1]
      BY <1>1, <2>2 DEF Sum, From
    <3> HIDE DEF c
    <3>4. c[(sample + 1) + 1] \in Nat /\ c[sample + 1] \in Nat /\ c[1] \in Nat
      <4>1. /\ (sample + 1) + 1 \in 1 .. Len(c) /\ sample + 1 \in 1 .. Len(c)
            /\ 1 \in 1 .. Len(c)
        BY <2>4, <3>1
      <4> QED
        BY <3>1, <4>1
    <3>5. SizeOfNext \in Nat /\ SizeOfNext < FieldLimit /\ SizeOfNext < IntLimit
      BY <2>4, WidthsAssumption DEF Fields32
    <3>6. Sum' = Sum + SizeOfNext
      BY <3>2, <3>3, <3>4, <3>5
    <3>7. Sum \in 0 .. sample * FieldLimit /\ total = Wrapped(Sum)
      BY <2>1, <2>6 DEF OnSample
    <3>8. /\ sample * FieldLimit \in Nat
          /\ (sample + 1) * FieldLimit = sample * FieldLimit + FieldLimit
          /\ (sample + 1) * FieldLimit \in Nat /\ (sample + 1) * FieldLimit < 2 * IntLimit
      <4>1. trun.sampleCount \in Fields32
        BY <2>1, InAMoof, TrafTyped DEF InMoof
      <4>2. sample \in 0 .. trun.sampleCount /\ sample + 1 \in 0 .. trun.sampleCount
        BY <2>4
      <4> QED
        BY <4>1, <4>2, SumsAreBounded
    <3> DEFINE most == sample * FieldLimit
               more == (sample + 1) * FieldLimit
    <3>9. /\ most \in Nat /\ more = most + FieldLimit /\ more < 2 * IntLimit
          /\ Sum \in 0 .. most
      BY <3>7, <3>8
    <3> HIDE DEF most, more
    <3>10. Sum' \in 0 .. more /\ Sum \in Nat /\ Sum + SizeOfNext < 2 * IntLimit
      BY <3>5, <3>6, <3>9, WidthsAssumption
    <3>11. Wrapped(total + SizeOfNext) = Wrapped(Sum + SizeOfNext)
      BY <3>5, <3>7, <3>10, WrappedSum
    <3> QED
      BY <1>1, <3>6, <3>10, <3>11 DEF more
  <2>7. OnSample'
    <3>1. Wrapped(Sum)' = Wrapped(Sum')
      BY DEF Wrapped
    <3> QED
      BY <2>1, <2>2, <2>6, <3>1 DEF OnSample
  <2> QED
    BY <2>2, <2>7
<1> QED
  BY <1>1, <1>2, <1>3 DEF PackInv, InMoof, SamplesOfTheTrack, SamplesBeforeTheDamage

(* A range taken is as long as its samples come to: a sum that has wrapped *)
(* leaves it outside, or its ends out of order.                            *)
LEMMA TakenIsWhole ==
  ASSUME IInv, TakeRange, NEW s \in Nat, s < 2 * IntLimit, total = Wrapped(s)
  PROVE  End = Start + s
<1>1. /\ Start \in Nat /\ End \in Nat /\ Start <= End /\ End <= seg.len
      /\ seg.len \in Nat /\ seg.len < IntLimit /\ IntLimit \in Nat
  BY TakenInside, WidthsAssumption DEF IInv, SegOK
<1>2. End = Wrapped(Start + total)
  BY DEF End
<1>3. CASE s < IntLimit
  <2>1. total = s
    BY <1>1, <1>3, SmallIsItself
  <2>2. ~(Start + s >= IntLimit)
    <3>1. ASSUME Start + s >= IntLimit PROVE FALSE
      <4>1. End = Start + s - 2 * IntLimit
        BY <1>1, <1>2, <2>1, <3>1 DEF Wrapped
      <4> QED
        BY <1>1, <1>3, <4>1
    <3> QED
      BY <3>1
  <2> QED
    BY <1>1, <1>2, <2>1, <2>2, SmallIsItself
<1>4. CASE s >= IntLimit
  <2>1. total = s - 2 * IntLimit
    BY <1>1, <1>4 DEF Wrapped
  <2>2. End = Start + total
    <3>1. -IntLimit <= Start + total /\ Start + total < IntLimit /\ Start + total \in Int
      BY <1>1, <1>4, <2>1
    <3> QED
      BY <1>2, <3>1, SmallIsItself
  <2> QED
    BY <1>1, <2>1, <2>2
<1> QED
  BY <1>1, <1>3, <1>4

(* What the samples come to is the run, and it is the next of the track's. *)
LEMMA TakeRangePacks == ASSUME IInv, PackInv, TakeRange PROVE PackInv'
<1> DEFINE r == [from |-> Start, to |-> End]
<1>1. /\ pc = "sizes" /\ pc' = "moof" /\ ToNextChild /\ sample = trun.sampleCount
      /\ frames' = Append(frames, r)
      /\ UNCHANGED <<track, asked, nth, off, out>>
  BY DEF TakeRange, AtRange
<1>2. Samples' = Samples /\ Agree' = Agree /\ seg' = seg /\ Followed' = Followed
  BY <1>1, WantsStay
<1>3. r \in ByteRange /\ frames \in Seq(ByteRange) /\ out \in Seq(ByteRange)
  BY TakenInside DEF IInv, Inside
<1>4. ASSUME Followed PROVE OnBox' /\ OnChild' /\ (Agree' => TakenSoFar')
  <2>1. /\ InMoof /\ InMoof' /\ OnSample /\ (Agree => TakenSoFar)
        /\ Visited(Moof, child, inner)
    BY <1>1, <1>4, InAMoof DEF PackInv, InMoof
  <2>2. OnBox' /\ OnChild' /\ Done' = Done + 1
    BY <1>1, <1>4, <2>1, NextChildPacks
  <2>3. /\ Run \in Runs /\ Samples[Done + 1] \in ByteRange
        /\ Samples[Done + 1] = [from |-> From(Run),
                               to |-> IF OfTheTrack(Run) THEN To(Run) ELSE From(Run)]
        /\ Bytes(Samples, Done + 1) = Bytes(Samples, Done) \o Piece(Samples[Done + 1])
    BY <1>4, <2>1, NextRun
  <2>4. /\ PlaceOf(seg, nth, Traf) = Start
        /\ Told \/ ShowsDamage(seg, nth, Traf, Run)
        /\ Told => /\ Run.track = tfhd.trackID /\ From(Run) = Start
                   /\ Len(Run.cuts) = trun.sampleCount + 1
    BY <1>1, <1>4, TrafTells
  <2>5. ASSUME Agree PROVE Told
    <3>1. Start \in 0 .. seg.len
      BY TakenInside DEF IInv, SegOK
    <3>2. ~(Leans(Traf) /\ seg.relies = None)
      BY <2>5 DEF TakeRange, Sizeless, Leans, Agree, Def, AnySize, None, tfhd, trun
    <3>3. ~ShowsDamage(seg, nth, Traf, Run)
      BY <2>1, <2>4, <3>1, <3>2 DEF ShowsDamage, OnSample, tfhd, trun
    <3> QED
      BY <2>4, <3>3
  <2>6. ASSUME Agree PROVE Samples[Done + 1] = r
    <3> DEFINE c == Run.cuts
    <3>0. Told /\ OfTheTrack(Run)
      BY <2>1, <2>4, <2>5, <2>6 DEF OnSample, Foreign, OfTheTrack
    <3>1. c \in Seq(Nat) /\ c # <<>> /\ From(Run) = c[1] /\ To(Run) = c[Len(c)]
      BY <2>3 DEF Runs, From, To
    <3>2. Sum = c[Len(c)] - c[1]
      BY <1>1, <2>4, <3>0 DEF Sum, From
    <3> HIDE DEF c
    <3>3. c[1] \in Nat /\ c[Len(c)] \in Nat
      BY <3>1
    <3>4. Sum \in 0 .. sample * FieldLimit /\ total = Wrapped(Sum)
      BY <2>1, <2>6, <3>0 DEF OnSample
    <3>5. sample * FieldLimit \in Nat /\ sample * FieldLimit < 2 * IntLimit
      <4>1. trun.sampleCount \in Fields32
        BY <2>1, InAMoof, TrafTyped DEF InMoof
      <4>2. sample \in 0 .. trun.sampleCount
        BY <1>1, <4>1, WidthsAssumption DEF Fields32
      <4> QED
        BY <4>1, <4>2, SumsAreBounded
    <3>6. Sum \in Nat /\ Sum < 2 * IntLimit
      BY <3>4, <3>5, WidthsAssumption
    <3>7. End = Start + Sum
      BY <3>4, <3>6, TakenIsWhole
    <3>8. To(Run) = End /\ From(Run) = Start
      BY <2>4, <3>0, <3>1, <3>2, <3>3, <3>7
    <3> QED
      BY <2>3, <3>0, <3>8
  <2>7. ASSUME Agree PROVE TakenSoFar'
    <3> HIDE DEF r
    <3>1. Got \in Seq(ByteRange) /\ Got = out \o frames
      BY <1>3, <2>1 DEF Got
    <3>2. Got' = Append(Got, r)
      <4>1. Got' = out \o Append(frames, r)
        BY <1>1, <2>1 DEF Got
      <4>2. out \o Append(frames, r) = Append(out \o frames, r)
        BY <1>3
      <4> QED
        BY <3>1, <4>1, <4>2
    <3>3. /\ Got' \in Seq(ByteRange) /\ Len(Got) \in Nat /\ Len(Got') = Len(Got) + 1
          /\ Got'[Len(Got) + 1] = r /\ \A i \in 1 .. Len(Got) : Got'[i] = Got[i]
      BY <1>3, <3>1, <3>2
    <3>4. \A i \in 1 .. Len(Got) + 1 : Got'[i] \in ByteRange
      BY <3>3
    <3>5. Bytes(Got', Len(Got) + 1) = Bytes(Got', Len(Got)) \o Piece(r)
      BY <3>3, <3>4, MoreBytes
    <3>6. Bytes(Got', Len(Got)) = Bytes(Got, Len(Got))
      <4>1. \A i \in 1 .. Len(Got) : Got[i] \in ByteRange
        BY <3>1
      <4> QED
        BY <3>3, <4>1, BytesAgree
    <3>7. Bytes(Got, Len(Got)) = Bytes(Samples, Done)
      BY <2>1, <2>7 DEF TakenSoFar
    <3>8. TakenSoFar' <=> Bytes(Got', Len(Got')) = Bytes(Samples', Done')
      BY <1>1, <1>2, <2>1, <2>7 DEF TakenSoFar
    <3>9. Bytes(Got', Len(Got')) = Bytes(Samples, Done + 1)
      BY <2>3, <2>6, <2>7, <3>3, <3>5, <3>6, <3>7
    <3> QED
      BY <1>2, <2>2, <3>8, <3>9
  <2> QED
    BY <1>2, <2>2, <2>7
<1> QED
  BY <1>1, <1>2, <1>4 DEF PackInv, InMoof, SamplesOfTheTrack, SamplesBeforeTheDamage

(* The walk in a moof ends at its end or at a child it does not meet; the  *)
(* runs of that one and those behind give nothing.                         *)
LEMMA EndOfMoofPacks == ASSUME IInv, PackInv, EndOfMoof PROVE PackInv'
<1>1. /\ pc = "moof" /\ pc' = "box" /\ ~Visited(Moof, child, inner)
      /\ out' = out \o frames /\ StepOn /\ UNCHANGED <<track, asked>>
  BY DEF EndOfMoof, Visited
<1>2. Samples' = Samples /\ Agree' = Agree /\ seg' = seg /\ Followed' = Followed
  BY <1>1, WantsStay
<1>3. ASSUME Followed PROVE OnBox' /\ (Agree' => TakenSoFar')
  <2>1. InMoof /\ OnBox /\ OnChild /\ (Agree => TakenSoFar) /\ pc # "idle"
    BY <1>1, <1>3 DEF PackInv, InMoof
  <2>2. /\ Visited(seg, nth, off) /\ Len(BoxHere.children) \in Nat
        /\ child \in 1 .. Len(BoxHere.children) + 1
        /\ RunsBefore(seg)[nth] + Len(BoxHere.children) <= Len(seg.media)
        /\ Done = RunsBefore(seg)[nth] + child - 1 /\ Done \in Nat
        /\ seg.media \in Seq(Runs) /\ Len(seg.media) \in Nat
    BY <1>3, <2>1, MoofFacts
  <2>3. /\ seg' \in Inputs
        /\ nth \in 1 .. Len(seg.boxes) /\ nth' \in 1 .. Len(seg.boxes) + 1
        /\ nth' <= Len(seg.boxes) => off' = BoxStarts(seg)[nth']
        /\ Reached(seg, nth' - 1)
        /\ RunsBefore(seg)[nth] \in Nat
        /\ RunsBefore(seg)[nth'] = RunsBefore(seg)[nth] + Len(BoxHere.children)
    BY <1>1, <1>2, <1>3, <2>1, <2>2, StepOnPacks
  <2>4. RunsBefore(seg)[nth'] = 0 => out' = <<>>
    <3>1. ASSUME RunsBefore(seg)[nth'] = 0 PROVE out = <<>> /\ frames = <<>>
      <4>1. RunsBefore(seg)[nth] = 0 /\ child = 1
        BY <2>2, <2>3, <3>1
      <4> QED
        BY <2>1, <4>1 DEF OnBox, OnChild
    <3> QED
      BY <1>1, <3>1
  <2>5. OnBox'
    BY <1>2, <2>3, <2>4 DEF OnBox
  <2> DEFINE m == RunsBefore(seg)[nth']
  <2>6. m \in Nat /\ Done <= m /\ m <= Len(seg.media)
    BY <2>2, <2>3
  <2>7. \A n \in 1 .. m : Samples[n] \in ByteRange
    <3>1. \A n \in 1 .. m : n \in 1 .. Len(seg.media)
      BY <2>2, <2>6
    <3> QED
      BY <2>2, <3>1, SamplesTyped
  <2>8. ASSUME NEW n \in Done + 1 .. m PROVE Samples[n].from = Samples[n].to
    <3> DEFINE k == RunsBefore(seg)[nth]
               j == n - k
               last == Len(BoxHere.children)
    <3>0. /\ k \in Nat /\ last \in Nat /\ child \in 1 .. last + 1
          /\ n \in (k + child - 1) + 1 .. k + last /\ k + last <= Len(seg.media)
          /\ Len(seg.media) \in Nat
      BY <2>2, <2>3
    <3> HIDE DEF k, last
    <3>1. /\ j \in 1 .. last /\ n = k + j /\ n \in 1 .. Len(seg.media)
          /\ child \in 1 .. j /\ child \in 1 .. last
      BY <3>0
    <3> USE DEF k, last
    <3> HIDE DEF j
    <3>2. inner = BoxStarts(Moof)[child]
      BY <2>1, <3>1, <2>2 DEF OnChild
    <3>3. ~Reached(Moof, j)
      BY <1>1, <3>1, <3>2 DEF Reached
    <3>4. ~RunIsMet(seg, n)
      BY <1>3, <2>1, <3>1, <3>3, RunOfMoof
    <3>5. Samples[n] = [from |-> From(seg.media[n]), to |-> From(seg.media[n])]
      BY <2>2, <3>1, <3>4, SamplesTyped
    <3> QED
      BY <3>5
  <2>9. Bytes(Samples, m) = Bytes(Samples, Done)
    <3> HIDE DEF m
    <3> QED
      BY <2>2, <2>6, <2>7, <2>8, EmptyTail
  <2>10. Got' = Got /\ out' = Got'
    BY <1>1, <2>1 DEF Got, InMoof
  <2>11. Done' = m
    <3>1. Done' = m + 0
      BY <1>1, <1>2 DEF Done, InMoof
    <3> QED
      BY <2>6, <3>1
  <2> QED
    BY <1>2, <2>1, <2>5, <2>9, <2>10, <2>11 DEF TakenSoFar
<1> QED
  BY <1>1, <1>2, <1>3 DEF PackInv, InMoof, SamplesOfTheTrack, SamplesBeforeTheDamage

LEMMA InitPacks == ASSUME DemuxInit PROVE PackInv
BY DEF DemuxInit, PackInv, InMoof, SamplesOfTheTrack, SamplesBeforeTheDamage

LEMMA NextPacks == ASSUME IInv, PackInv, [DemuxNext]_demuxVars PROVE PackInv'
<1>1. ASSUME NEW b \in Inputs, InitSegment(b) \/ Segment(b) \/ Elementary(b)
      PROVE  PackInv'
  BY <1>1, InitSegmentPacks, CallPacks
<1>2. CASE UNCHANGED demuxVars
  <2>1. Samples' = Samples /\ Agree' = Agree /\ seg' = seg /\ Followed' = Followed
    BY <1>2, WantsStay DEF demuxVars
  <2>2. BoxHere' = BoxHere /\ Moof' = Moof /\ Traf' = Traf /\ tfhd' = tfhd /\ trun' = trun
    BY <1>2, <2>1, StayPut DEF demuxVars, nested, Traf, tfhd, trun
  <2>3. OnBox' = OnBox /\ OnChild' = OnChild /\ Run' = Run
    BY <1>2, <2>1, <2>2 DEF demuxVars, nested, OnBox, OnChild, Run, Done, InMoof
  <2>4. Sum' = Sum /\ Told' = Told
    BY <1>2, <2>1, <2>2, <2>3 DEF demuxVars, sums, Sum, From, Told
  <2>5. OnSample' = OnSample
    BY <1>2, <2>1, <2>2, <2>3, <2>4 DEF demuxVars, track, sums, OnSample, Foreign, Wrapped
  <2> QED
    BY <1>2, <2>1, <2>3, <2>5 DEF demuxVars, asked, nested, PackInv, InMoof, TakenSoFar,
       Got, Done, SamplesOfTheTrack, SamplesBeforeTheDamage
<1> QED
  BY <1>1, <1>2, VisitMoovPacks, VisitOtherPacks, VisitMoofPacks, EndOfBufferPacks,
     PassChildPacks, BrokenPacks, SkipTrafPacks, EnterTrafPacks, AddSamplePacks,
     RefuseRangePacks, TakeRangePacks, EndOfMoofPacks, PanicsPack DEF DemuxNext

(* What a packager put in for the track comes out, byte for byte, and      *)
(* nothing of another track (cmaf_test.go:12-16).                          *)
THEOREM WhatGoesInComesOut == DemuxSpec => []SamplesOfTheTrack
<1>1. DemuxInit => PackInv
  BY InitPacks
<1>2. IInv /\ PackInv /\ [DemuxNext]_demuxVars => PackInv'
  BY NextPacks
<1>3. PackInv => SamplesOfTheTrack
  BY DEF PackInv
<1> QED
  BY <1>1, <1>2, <1>3, DemuxerInvariant, PTL DEF DemuxSpec

(* Of a segment cut short or damaged in a way that shows, the samples      *)
(* before the damage come out and no piece of a run: a traf that was read  *)
(* is given up with the fragment it belongs to when a later one fails      *)
(* (cmaf.go:82-94), and a moof that breaks off in a box that does not fit  *)
(* gives the runs before that box (box.go:61-63).                          *)
THEOREM NothingBehindTheDamage == DemuxSpec => []SamplesBeforeTheDamage
<1>1. DemuxInit => PackInv
  BY InitPacks
<1>2. IInv /\ PackInv /\ [DemuxNext]_demuxVars => PackInv'
  BY NextPacks
<1>3. PackInv => SamplesBeforeTheDamage
  BY DEF PackInv
<1> QED
  BY <1>1, <1>2, <1>3, DemuxerInvariant, PTL DEF DemuxSpec

-----------------------------------------------------------------------------
(* Away from the edges no call panics.                                     *)

(* No box bursts whose size does not reach the end of the integers.        *)
LEMMA SmallDoesNotBurst ==
  ASSUME NEW c, Container(c), NEW i \in Nat \ {0}, NEW o \in 0 .. c.len,
         i \in 1 .. Len(c.boxes) => c.boxes[i].size + c.len < IntLimit
  PROVE  ~Bursts(c, i, o)
<1> SUFFICES ASSUME Bursts(c, i, o) PROVE FALSE
  OBVIOUS
<1>1. i \in 1 .. Len(c.boxes)
  BY DEF Bursts, Passes, Container
<1>2. /\ c.boxes[i].size \in Nat /\ c.boxes[i].hdr \in Nat /\ c.len \in Nat
      /\ c.len < IntLimit /\ IntLimit \in Nat
  BY <1>1, WidthsAssumption DEF Container, Fields64
<1> DEFINE size == c.boxes[i].size
           e == Extent(c, c.boxes[i], o)
<1>3. size \in Nat /\ size + c.len < IntLimit /\ o \in Nat /\ o <= c.len
  BY <1>1, <1>2
<1>4. Wrapped(size) = size
  BY <1>2, <1>3, SmallIsItself
<1>5. e = size \/ e = c.len - o
  BY <1>4 DEF Extent
<1> HIDE DEF size, e
<1>6. e \in Nat /\ o + e < IntLimit
  BY <1>2, <1>3, <1>5
<1>7. Wrapped(o + e) = o + e
  BY <1>2, <1>3, <1>6, SmallIsItself
<1>8. Wrapped(o + e) <= c.len /\ o + e > c.len
  BY DEF Bursts, Passes, e
<1> QED
  BY <1>2, <1>3, <1>6, <1>7, <1>8

(* The boxes of a clear buffer, and of a moof in it.                       *)
LEMMA ClearBoxes ==
  ASSUME NEW b, Clear(b), NEW i \in 1 .. Len(b.boxes)
  PROVE  b.boxes[i].size + b.len < IntLimit /\ ~b.boxes[i].bursts
BY DEF Clear

LEMMA ClearChildren ==
  ASSUME NEW b, Clear(b), NEW i \in 1 .. Len(b.boxes),
         NEW j \in 1 .. Len(b.boxes[i].children)
  PROVE  LET t == b.boxes[i].children[j]
         IN  /\ t.size + b.len < IntLimit /\ ~t.bursts
             /\ Parse(t.tfhd, TfhdFields) # "panic"
             /\ Parse(t.trun, TrunFields) # "panic"
             /\ "sizes" \in t.trun.flags => t.trun.sampleCount <= Allocatable
             /\ t.tfhd.baseOffset + FieldLimit * (t.trun.sampleCount + 1) + b.len < IntLimit
BY DEF Clear

LEMMA ClearTraf ==
  ASSUME IInv, Clear(seg), pc \in {"moof", "sizes"}, Visited(Moof, child, inner)
  PROVE  /\ ~Traf.bursts /\ Parse(tfhd, TfhdFields) # "panic"
         /\ Parse(trun, TrunFields) # "panic" /\ ~Overasks
         /\ tfhd.baseOffset + FieldLimit * (trun.sampleCount + 1) + seg.len < IntLimit
<1>1. SegOK /\ WalkOK /\ Visited(seg, nth, off)
  BY InAMoof
<1>2. nth \in 1 .. Len(seg.boxes) /\ child \in 1 .. Len(seg.boxes[nth].children)
  BY <1>1, AtABox, AtAChild DEF BoxHere
<1>3. trun.sampleCount \in Nat
  BY <1>1, TrafTyped, WidthsAssumption DEF Fields32
<1>4. "sizes" \in trun.flags => trun.sampleCount <= Allocatable
  BY <1>2, ClearChildren DEF Traf, BoxHere, trun
<1>5. ~Overasks
  BY <1>3, <1>4, WidthsAssumption DEF Overasks
<1> QED
  BY <1>2, <1>5, ClearChildren DEF Traf, BoxHere, tfhd, trun

LEMMA ClearWalk ==
  ASSUME IInv, Clear(seg)
  PROVE  /\ ~Bursts(seg, nth, off)
         /\ pc = "moof" => ~Bursts(Moof, child, inner)
<1>1. /\ SegOK /\ WalkOK /\ Container(seg) /\ seg.len \in 0 .. IntLimit - 1
      /\ nth \in Nat \ {0} /\ off \in 0 .. seg.len
  BY BoxesAreAContainer DEF IInv, SegOK, WalkOK
<1>2. ~Bursts(seg, nth, off)
  <2>1. nth \in 1 .. Len(seg.boxes) => seg.boxes[nth].size + seg.len < IntLimit
    BY ClearBoxes
  <2> QED
    BY <1>1, <2>1, SmallDoesNotBurst
<1>3. ASSUME pc = "moof" PROVE ~Bursts(Moof, child, inner)
  <2>1. /\ Visited(seg, nth, off) /\ inner <= Moof.len
        /\ child \in Nat \ {0} /\ inner \in 0 .. IntLimit - 1
    BY <1>3, InAMoof DEF WalkOK
  <2>2. /\ nth \in 1 .. Len(seg.boxes) /\ Container(Moof)
        /\ Moof.boxes = seg.boxes[nth].children /\ Moof.len < seg.len
    BY <1>1, <2>1, AtABox DEF BoxHere
  <2>3. Moof.len \in Nat /\ inner \in 0 .. Moof.len
    BY <2>1, <2>2, WidthsAssumption DEF Container
  <2>4. ASSUME child \in 1 .. Len(Moof.boxes)
        PROVE  Moof.boxes[child].size + Moof.len < IntLimit
    <3>1. Moof.boxes[child].size + seg.len < IntLimit
      BY <2>2, <2>4, ClearChildren
    <3>2. Moof.boxes[child].size \in Nat
      BY <2>2, <2>4, WidthsAssumption DEF Container, Fields64
    <3> QED
      BY <1>1, <2>2, <2>3, <3>1, <3>2, WidthsAssumption
  <2> QED
    BY <2>1, <2>2, <2>3, <2>4, SmallDoesNotBurst
<1> QED
  BY <1>2, <1>3

LEMMA ClearIsFound ==
  ASSUME NEW b \in Inputs, Clear(b) PROVE ~WalkBursts(b)
<1>1. /\ b.len \in 0 .. IntLimit - 1 /\ b.boxes \in Seq(Box) /\ Container(b)
  BY InputsAssumption, BoxesAreAContainer
<1>2. ASSUME NEW i \in 1 .. Len(b.boxes), Reached(b, i - 1)
      PROVE  ~Bursts(b, i, BoxStarts(b)[i])
  <2>1. BoxStarts(b)[i] \in 0 .. b.len
    BY <1>1, <1>2, StartsInside
  <2>2. i \in Nat \ {0} /\ b.boxes[i].size + b.len < IntLimit
    BY ClearBoxes
  <2> QED
    BY <1>1, <2>1, <2>2, SmallDoesNotBurst
<1> QED
  BY <1>2 DEF WalkBursts

(* The sizes of a clear buffer's samples are summed as they are.           *)
ClearInv ==
  Clear(seg) =>
    /\ outcome # "panic"
    /\ pc = "sizes" => total \in 0 .. sample * FieldLimit

LEMMA ClearTotal ==
  ASSUME IInv, ClearInv, Clear(seg), pc = "sizes"
  PROVE  /\ sample * FieldLimit \in Nat
         /\ (sample + 1) * FieldLimit = sample * FieldLimit + FieldLimit
         /\ total \in 0 .. sample * FieldLimit
         /\ trun.sampleCount * FieldLimit \in Nat
         /\ sample * FieldLimit <= trun.sampleCount * FieldLimit
         /\ tfhd.baseOffset \in Nat /\ seg.len \in Nat
         /\ tfhd.baseOffset + trun.sampleCount * FieldLimit + FieldLimit + seg.len < IntLimit
<1>1. /\ SegOK /\ WalkOK /\ Visited(seg, nth, off) /\ Visited(Moof, child, inner)
      /\ sample <= trun.sampleCount
  BY InAMoof DEF WalkOK
<1>2. trun.sampleCount \in Fields32 /\ tfhd.baseOffset \in Nat /\ seg.len \in Nat
  BY <1>1, TrafTyped, WidthsAssumption DEF Fields64, SegOK
<1>3. trun.sampleCount \in Nat /\ sample \in Nat /\ FieldLimit \in Nat \ {0}
  BY SizeTyped, WidthsAssumption
<1>4. sample * FieldLimit <= trun.sampleCount * FieldLimit
  BY <1>1, <1>3, TimesGrows
<1>5. /\ (sample + 1) * FieldLimit = sample * FieldLimit + FieldLimit
      /\ FieldLimit * (trun.sampleCount + 1) = trun.sampleCount * FieldLimit + FieldLimit
      /\ sample * FieldLimit \in Nat /\ trun.sampleCount * FieldLimit \in Nat
  BY <1>3
<1>6. tfhd.baseOffset + FieldLimit * (trun.sampleCount + 1) + seg.len < IntLimit
  BY <1>1, ClearTraf
<1> DEFINE most == trun.sampleCount * FieldLimit
<1>7. tfhd.baseOffset + (most + FieldLimit) + seg.len < IntLimit /\ most \in Nat
  BY <1>5, <1>6
<1>8. tfhd.baseOffset + most + FieldLimit + seg.len < IntLimit
  <2> HIDE DEF most
  <2> QED
    BY <1>2, <1>3, <1>7
<1>9. total \in 0 .. sample * FieldLimit
  BY DEF ClearInv
<1> QED
  BY <1>2, <1>4, <1>5, <1>8, <1>9

LEMMA AddSampleIsClear ==
  ASSUME IInv, ClearInv, Clear(seg), AddSample PROVE total' \in 0 .. sample' * FieldLimit
<1>1. /\ pc = "sizes" /\ sample < trun.sampleCount /\ sample' = sample + 1
      /\ total' = Wrapped(total + SizeOfNext)
  BY DEF AddSample, SizeOfNext
<1> DEFINE sum == sample * FieldLimit
           more == (sample + 1) * FieldLimit
           most == trun.sampleCount * FieldLimit
<1>2. /\ sum \in Nat /\ more = sum + FieldLimit /\ total \in 0 .. sum
      /\ most \in Nat /\ sum <= most /\ tfhd.baseOffset \in Nat /\ seg.len \in Nat
      /\ tfhd.baseOffset + most + FieldLimit + seg.len < IntLimit
  BY <1>1, ClearTotal
<1>3. SizeOfNext \in Nat /\ SizeOfNext < FieldLimit /\ FieldLimit \in Nat /\ IntLimit \in Nat
  BY <1>1, SizeTyped, WidthsAssumption DEF Fields32
<1> HIDE DEF sum, more, most
<1>4. total + SizeOfNext \in 0 .. more /\ total + SizeOfNext < IntLimit
  BY <1>2, <1>3
<1>5. Wrapped(total + SizeOfNext) = total + SizeOfNext
  BY <1>2, <1>3, <1>4, SmallIsItself
<1> QED
  BY <1>1, <1>4, <1>5 DEF more

LEMMA ClearIsInOrder ==
  ASSUME IInv, ClearInv, Clear(seg), AtRange, ~Outside PROVE InOrder
<1>1. pc = "sizes" /\ sample = trun.sampleCount
  BY DEF AtRange
<1> DEFINE most == trun.sampleCount * FieldLimit
<1>2. /\ total \in 0 .. most /\ most \in Nat
      /\ tfhd.baseOffset \in Nat /\ seg.len \in Nat
      /\ tfhd.baseOffset + most + FieldLimit + seg.len < IntLimit
  BY <1>1, ClearTotal
<1> HIDE DEF most
<1>3. FieldLimit \in Nat \ {0} /\ IntLimit \in Nat /\ FieldLimit <= IntLimit
  BY WidthsAssumption
<1>4. Base \in Nat /\ Base <= tfhd.baseOffset + seg.len
  <2>1. Wrapped(tfhd.baseOffset) = tfhd.baseOffset
    BY <1>2, <1>3, SmallIsItself
  <2>2. off \in 0 .. seg.len
    BY DEF IInv, WalkOK
  <2> QED
    BY <1>2, <2>1, <2>2 DEF Base
<1>5. trun.dataOffset \in Int /\ -FieldLimit <= trun.dataOffset /\ trun.dataOffset < FieldLimit
  <2>1. trun.dataOffset \in Signed32
    BY <1>1, InAMoof, TrafTyped
  <2> QED
    BY <1>3, <2>1 DEF Signed32
<1>6. Start = Base + trun.dataOffset
  <2>1. /\ Base + trun.dataOffset \in Int /\ -IntLimit <= Base + trun.dataOffset
        /\ Base + trun.dataOffset < IntLimit
    BY <1>2, <1>3, <1>4, <1>5
  <2> QED
    BY <2>1, SmallIsItself DEF Start
<1>7. Start \in Nat /\ Start + total < IntLimit
  <2>1. Start \in Int /\ ~(Start < 0)
    BY <1>4, <1>5, <1>6 DEF Outside
  <2> QED
    BY <1>2, <1>3, <1>4, <1>5, <1>6, <2>1
<1>8. End = Start + total
  BY <1>2, <1>3, <1>7, SmallIsItself DEF End
<1> QED
  BY <1>2, <1>7, <1>8 DEF InOrder

LEMMA StaysClear ==
  ASSUME IInv, ClearInv, [DemuxNext]_demuxVars PROVE ClearInv'
<1> SUFFICES ASSUME Clear(seg')
             PROVE  outcome' # "panic" /\ (pc' = "sizes" => total' \in 0 .. sample' * FieldLimit)
  BY DEF ClearInv
<1>1. CASE \E b \in Inputs : InitSegment(b) \/ Segment(b) \/ Elementary(b)
  <2>1. PICK b \in Inputs : InitSegment(b) \/ Segment(b) \/ Elementary(b)
    BY <1>1
  <2>2. seg' = b /\ Clear(b)
    BY <2>1 DEF InitSegment, Segment, Elementary, Called
  <2>3. CASE InitSegment(b)
    <3>1. ~WalkBursts(b)
      BY <2>2, ClearIsFound
    <3>2. \A i \in 1 .. Len(b.boxes) : ~b.boxes[i].bursts
      BY <2>2, ClearBoxes
    <3> QED
      BY <2>3, <3>1, <3>2 DEF InitSegment
  <2>4. CASE Segment(b) \/ Elementary(b)
    BY <2>4 DEF Segment, Elementary
  <2> QED
    BY <2>1, <2>3, <2>4
<1> DEFINE Rest ==
       \/ VisitMoov \/ VisitOther \/ VisitMoof \/ EndOfBuffer
       \/ PassChild \/ EndOfMoof \/ Broken \/ SkipTraf \/ EnterTraf
       \/ AddSample \/ RefuseRange \/ TakeRange
       \/ PanicInWalk \/ PanicInTraf \/ PanicInRange \/ UNCHANGED demuxVars
<1>2. CASE Rest
  <2>1. seg' = seg
    BY <1>2 DEF VisitMoov, VisitOther, VisitMoof, EndOfBuffer, PassChild, EndOfMoof,
       Broken, SkipTraf, EnterTraf, AddSample, RefuseRange, TakeRange, PanicInWalk,
       PanicInTraf, PanicInRange, Panic, FailCall, demuxVars, asked
  <2>2. Clear(seg)
    BY <2>1
  <2>3. outcome # "panic" /\ (pc = "sizes" => total \in 0 .. sample * FieldLimit)
    BY <2>2 DEF ClearInv
  <2>4. CASE VisitMoov
    <3>1. ~BoxHere.bursts
      <4>1. nth \in 1 .. Len(seg.boxes)
        BY <2>4, AtABox DEF VisitMoov, AtBox, IInv
      <4> QED
        BY <2>2, <4>1, ClearBoxes DEF BoxHere
    <3> QED
      BY <2>3, <2>4, <3>1 DEF VisitMoov, AtBox
  <2>5. CASE VisitOther \/ VisitMoof \/ EndOfBuffer \/ EndOfMoof
    BY <2>3, <2>5 DEF VisitOther, VisitMoof, EndOfBuffer, EndOfMoof, AtBox
  <2>6. CASE PassChild \/ SkipTraf \/ TakeRange
    BY <2>3, <2>6 DEF PassChild, SkipTraf, TakeRange, Complete, AtTraf, AtChild
  <2>7. CASE Broken \/ RefuseRange
    BY <2>7 DEF Broken, RefuseRange, FailCall
  <2>8. CASE EnterTraf
    <3>1. 0 \in 0 .. 0 * FieldLimit
      BY WidthsAssumption
    <3> QED
      BY <2>3, <2>8, <3>1 DEF EnterTraf
  <2>9. CASE AddSample
    <3>1. total' \in 0 .. sample' * FieldLimit
      BY <2>2, <2>9, AddSampleIsClear
    <3> QED
      BY <2>3, <2>9, <3>1 DEF AddSample
  <2>10. ASSUME PanicInWalk PROVE FALSE
    <3>1. pc = "moof" /\ Visited(Moof, child, inner) => ~Traf.bursts
      BY <2>2, ClearTraf
    <3> QED
      BY <2>2, <2>10, <3>1, ClearWalk DEF PanicInWalk, AtTraf, AtChild
  <2>11. ASSUME PanicInTraf PROVE FALSE
    <3>1. pc = "moof" /\ Visited(Moof, child, inner)
      BY <2>11 DEF PanicInTraf, Ours, Complete, AtTraf, AtChild
    <3> QED
      BY <2>2, <2>11, <3>1, ClearTraf DEF PanicInTraf
  <2>12. ASSUME PanicInRange PROVE FALSE
    BY <2>2, <2>12, ClearIsInOrder DEF PanicInRange
  <2>13. CASE UNCHANGED demuxVars
    BY <2>3, <2>13 DEF demuxVars, sums
  <2> QED
    BY <1>2, <2>4, <2>5, <2>6, <2>7, <2>8, <2>9, <2>10, <2>11, <2>12, <2>13
<1> QED
  BY <1>1, <1>2 DEF DemuxNext

(* A buffer that keeps clear of the edges nothing looks at is refused, if  *)
(* it must be, and no call on it panics: the checks before the slices at   *)
(* box.go:64 and cmaf.go:268 are enough there.                             *)
THEOREM ClearBuffersDoNotPanic == DemuxSpec => []RefusesInsteadOfPanicking
<1>1. DemuxInit => ClearInv
  BY DEF DemuxInit, ClearInv
<1>2. IInv /\ ClearInv /\ [DemuxNext]_demuxVars => ClearInv'
  BY StaysClear
<1>3. ClearInv => RefusesInsteadOfPanicking
  BY DEF ClearInv, RefusesInsteadOfPanicking
<1> QED
  BY <1>1, <1>2, <1>3, DemuxerInvariant, PTL DEF DemuxSpec

-----------------------------------------------------------------------------
(* A call runs out of things to do.                                        *)

(* What is left is counted in numbers.                                     *)
LEMMA LeftIsCounted == IInv /\ pc # "idle" => LeftToDo \in [1 .. 5 -> Nat]
<1> SUFFICES ASSUME IInv, pc # "idle" PROVE LeftToDo \in [1 .. 5 -> Nat]
  OBVIOUS
<1> DEFINE two   == IF pc = "box" THEN 1 ELSE 0
           three == IF pc = "box" THEN 0 ELSE Moof.len - inner
           four  == IF pc = "moof" THEN 1 ELSE 0
           five  == IF pc = "sizes" THEN trun.sampleCount - sample ELSE 0
<1>1. seg.len - off \in Nat
  BY WidthsAssumption DEF IInv, SegOK, WalkOK
<1>2. pc # "box" => Moof.len - inner \in Nat
  <2>1. SUFFICES ASSUME pc # "box" PROVE Moof.len - inner \in Nat
    OBVIOUS
  <2>2. pc \in {"moof", "sizes"}
    BY <2>1 DEF IInv, WalkOK
  <2>3. Container(Moof) /\ inner <= Moof.len /\ inner \in Nat
    BY <2>2, InAMoof, AtABox, WidthsAssumption DEF WalkOK
  <2> QED
    BY <2>3, WidthsAssumption DEF Container
<1>3. pc = "sizes" => trun.sampleCount - sample \in Nat
  <2>1. pc = "sizes" => sample \in Nat /\ trun.sampleCount \in Nat
    BY SizeTyped
  <2> QED
    BY <2>1 DEF IInv, WalkOK
<1>4. two \in Nat /\ three \in Nat /\ four \in Nat /\ five \in Nat
  BY <1>2, <1>3
<1>5. LeftToDo = <<seg.len - off, two, three, four, five>>
  BY DEF LeftToDo
<1> HIDE DEF two, three, four, five
<1> QED
  BY <1>1, <1>4, <1>5

(* Each step leaves less to do.                                            *)
LEMMA StepLeavesLess ==
  ASSUME IInv, [DemuxNext]_demuxVars, pc # "idle", pc' # "idle"
  PROVE  Less(LeftToDo', LeftToDo) \/ UNCHANGED demuxVars
<1>1. CASE VisitMoov \/ VisitOther \/ EndOfMoof
  <2>1. seg' = seg /\ StepOn /\ SegOK /\ WalkOK /\ Visited(seg, nth, off)
    BY <1>1, InAMoof DEF VisitMoov, VisitOther, EndOfMoof, AtBox, asked, IInv, Panic
  <2>2. /\ Extent(seg, BoxHere, off) \in Nat \ {0} /\ off \in Nat /\ seg.len \in Nat
        /\ off' = off + Extent(seg, BoxHere, off)
    BY <2>1, AtABox, WidthsAssumption DEF StepOn, SegOK, WalkOK
  <2>3. off < off'
    BY <2>2
  <2>4. LeftToDo'[1] < LeftToDo[1]
    BY <2>1, <2>2, <2>3 DEF LeftToDo
  <2> QED
    BY <2>4 DEF Less
<1>2. CASE VisitMoof
  <2>1. pc = "box" /\ pc' = "moof" /\ UNCHANGED <<seg, off>>
    BY <1>2 DEF VisitMoof, AtBox, asked
  <2>2. LeftToDo'[1] = LeftToDo[1] /\ LeftToDo'[2] < LeftToDo[2]
    BY <2>1 DEF LeftToDo
  <2> QED
    BY <2>2 DEF Less
<1>3. CASE PassChild \/ SkipTraf \/ TakeRange
  <2>1. /\ pc \in {"moof", "sizes"} /\ pc' = "moof" /\ UNCHANGED <<seg, nth, off>>
        /\ ToNextChild
    BY <1>3 DEF PassChild, SkipTraf, TakeRange, AtRange, Complete, AtTraf, AtChild, asked
  <2>2. /\ SegOK /\ WalkOK /\ Visited(seg, nth, off) /\ Visited(Moof, child, inner)
    BY <1>3, <2>1, InAMoof DEF PassChild, SkipTraf, TakeRange, AtRange, Complete, AtTraf
  <2>3. /\ Extent(Moof, Traf, inner) \in Nat \ {0} /\ inner \in Nat /\ Moof.len \in Nat
        /\ inner' = inner + Extent(Moof, Traf, inner)
    BY <2>1, <2>2, AtAChild, WidthsAssumption DEF ToNextChild, WalkOK
  <2>4. Moof' = Moof
    BY <2>1, StayPut
  <2>5. LeftToDo'[1] = LeftToDo[1] /\ LeftToDo'[2] = LeftToDo[2]
    BY <2>1 DEF LeftToDo
  <2>6. LeftToDo[3] = Moof.len - inner /\ LeftToDo'[3] = Moof.len - inner'
    BY <2>1, <2>4 DEF LeftToDo
  <2>7. LeftToDo'[3] < LeftToDo[3]
    BY <2>3, <2>6
  <2> QED
    BY <2>5, <2>7 DEF Less
<1>4. CASE EnterTraf
  <2>1. pc = "moof" /\ pc' = "sizes" /\ UNCHANGED <<seg, nth, off, inner>>
    BY <1>4 DEF EnterTraf, Ours, Complete, AtTraf, AtChild, asked, nested
  <2>2. Moof' = Moof
    BY <2>1, StayPut
  <2>3. /\ LeftToDo'[1] = LeftToDo[1] /\ LeftToDo'[2] = LeftToDo[2] /\ LeftToDo'[3] = LeftToDo[3]
        /\ LeftToDo'[4] < LeftToDo[4]
    BY <2>1, <2>2 DEF LeftToDo
  <2> QED
    BY <2>3 DEF Less
<1>5. CASE AddSample
  <2>1. /\ pc = "sizes" /\ pc' = "sizes" /\ sample' = sample + 1
        /\ UNCHANGED <<seg, nth, off, child, inner>>
    BY <1>5 DEF AddSample, asked, nested
  <2>2. BoxHere' = BoxHere /\ Moof' = Moof
    BY <2>1, StayPut
  <2>3. trun' = trun /\ sample \in Nat /\ trun.sampleCount \in Nat
    BY <2>1, <2>2, SizeTyped DEF trun, Traf
  <2>4. /\ LeftToDo'[1] = LeftToDo[1] /\ LeftToDo'[2] = LeftToDo[2] /\ LeftToDo'[3] = LeftToDo[3]
        /\ LeftToDo'[4] = LeftToDo[4]
    BY <2>1, <2>2 DEF LeftToDo
  <2>5. /\ LeftToDo[5] = trun.sampleCount - sample
        /\ LeftToDo'[5] = trun.sampleCount - (sample + 1)
    BY <2>1, <2>3 DEF LeftToDo
  <2>6. LeftToDo'[5] < LeftToDo[5]
    BY <2>3, <2>5
  <2> QED
    BY <2>4, <2>6 DEF Less
<1>6. ASSUME NEW b \in Inputs, InitSegment(b) \/ Segment(b) \/ Elementary(b)
      PROVE  FALSE
  BY <1>6 DEF InitSegment, Segment, Elementary, Called
<1>7. ~(EndOfBuffer \/ Broken \/ RefuseRange \/ PanicInWalk \/ PanicInTraf \/ PanicInRange)
  BY DEF EndOfBuffer, Broken, RefuseRange, PanicInWalk, PanicInTraf, PanicInRange,
         FailCall, Panic
<1> QED
  BY <1>1, <1>2, <1>3, <1>4, <1>5, <1>6, <1>7 DEF DemuxNext

(* Whatever sizes a buffer's boxes state, a call on it comes to an end: of *)
(* the walk over it and over a moof (box.go:44-70) and of the samples of a *)
(* traf (cmaf.go:198-268) each step leaves less.                           *)
THEOREM CallsComeToAnEnd == DemuxSpec => CallsRunOut
<1>1. IInv' /\ (pc # "idle")' => (LeftToDo \in [1 .. 5 -> Nat])'
  BY LeftIsCounted, PTL
<1>2. IInv /\ IInv' /\ [DemuxNext]_demuxVars =>
        [pc # "idle" /\ pc' # "idle" =>
           LeftToDo' \in [1 .. 5 -> Nat] /\ Less(LeftToDo', LeftToDo)]_demuxVars
  BY <1>1, StepLeavesLess
<1> QED
  BY <1>2, DemuxerInvariant, PTL DEF DemuxSpec, CallsRunOut
=============================================================================
