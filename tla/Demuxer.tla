------------------------------- MODULE Demuxer -------------------------------
(***************************************************************************)
(* The demuxer that pulls one audio track's samples out of fragmented MP4  *)
(* segments (src/cmaf/cmaf.go, box.go): the walk over boxes, the choice of *)
(* the track, and where the samples of a fragment lie.                     *)
(*                                                                         *)
(* A buffer is its length and the boxes in it, one behind the other; what  *)
(* a box says of tracks and samples is a record.  Bytes are known by their *)
(* place in the buffer, so that what is handed back is a sequence of       *)
(* ranges.  Fields hold what their width lets them state, and ints wrap.   *)
(***************************************************************************)
EXTENDS Integers, Sequences, FiniteSets

CONSTANTS
  Inputs,       \* what the calls may be handed
  HeaderSize,   \* of a box: eight bytes, and twice as many with a long size
  Tracks,       \* the track identifiers files use
  IntLimit,     \* an int lies between this and its negative: 2^63
  FieldLimit,   \* a field of 32 bits lies below this: 2^32
  Allocatable   \* room for so many sample sizes there always is

Fields32 == 0 .. FieldLimit - 1
Fields64 == 0 .. 2 * IntLimit - 1
Signed32 == {n \in Int : -FieldLimit <= 2 * n /\ 2 * n < FieldLimit}

(* What an int holds of a 64-bit field, or of the sum of two ints.         *)
Wrapped(n) ==
  IF n >= IntLimit THEN n - 2 * IntLimit
  ELSE IF n < -IntLimit THEN n + 2 * IntLimit ELSE n

Codecs == {"ac-3", "ec-3"}
None == 0       \* what an absent identifier or size is read as
AnySize == -1       \* of a buffer that reads alike whatever size the moov declared

(* A trak: its handler, what its first sample entry is, and its identifier.*)
Trak == [handler : {"soun", "other"}, codec : Codecs \union {"other"},
         id : Tracks \union {None}]

Trex == [id : Tracks, size : Fields32]

(* The first tfhd and the first trun of a traf: the words of four bytes in *)
(* the body, the optional fields and tables that the flags announce, and   *)
(* what the fields say, None where they are not announced.                 *)
Tables == {"durations", "sizes", "sampleFlags", "compositionOffsets"}
Tfhd == [present : BOOLEAN, words : Nat,
         flags : SUBSET {"base", "description", "duration", "size"},
         trackID : Tracks, baseOffset : Fields64, defaultSize : Fields32]
Trun == [present : BOOLEAN, words : Nat,
         flags : SUBSET ({"offset", "firstFlags"} \union Tables),
         sampleCount : Fields32, dataOffset : Signed32, sizes : Seq(Fields32)]

(* A box, and one in a moof.  A walk inside a box that bursts meets a size *)
(* whose end does not fit in an int.                                       *)
Child == [typ : {"traf", "other"}, hdr : {HeaderSize, 2 * HeaderSize},
          size : Fields64, bursts : BOOLEAN, tfhd : Tfhd, trun : Trun]
Box == [typ : {"moov", "moof", "other"}, hdr : {HeaderSize, 2 * HeaderSize},
        size : Fields64, bursts : BOOLEAN, traks : Seq(Trak), trexs : Seq(Trex),
        children : Seq(Child)]

-----------------------------------------------------------------------------
(* parseTfhd and parseTrun.                                                *)

(* The optional fields in their order, their words, and whether the code   *)
(* looks for them before it takes them.                                    *)
Field(flag, words, checked) == [flag |-> flag, words |-> words, checked |-> checked]
TfhdFields == <<Field("base", 2, TRUE), Field("description", 1, FALSE),
                Field("duration", 1, FALSE), Field("size", 1, TRUE)>>
TrunFields == <<Field("offset", 1, TRUE), Field("firstFlags", 1, FALSE)>>

(* Where the first k fields end, behind two words that are always there.   *)
FieldsEnd(box, fields) ==
  LET end[k \in 0 .. Len(fields)] ==
        IF k = 0 THEN 2
        ELSE end[k - 1] + (IF fields[k].flag \in box.flags THEN fields[k].words ELSE 0)
  IN end

(* How parsing ends: a field that is looked for and not there is an error, *)
(* one that is only taken a slice out of range.                            *)
Parse(box, fields) ==
  LET fits(k) == FieldsEnd(box, fields)[k] <= box.words
  IN  IF ~box.present THEN "missing"
      ELSE IF fits(Len(fields)) THEN "whole"
      ELSE IF \E k \in 1 .. Len(fields) : fits(k - 1) /\ ~fits(k) /\ ~fields[k].checked
           THEN "panic" ELSE "short"

(* The tables come last, one word for each sample.                         *)
TrunForm(run) ==
  IF /\ Parse(run, TrunFields) = "whole"
     /\ FieldsEnd(run, TrunFields)[Len(TrunFields)]
          + run.sampleCount * Cardinality(run.flags \intersect Tables) > run.words
  THEN "short" ELSE Parse(run, TrunFields)

ASSUME WidthsAssumption ==
  /\ IntLimit \in Nat /\ FieldLimit \in Nat \ {0} /\ Allocatable \in Nat
  /\ FieldLimit <= IntLimit /\ FieldLimit * FieldLimit <= 2 * IntLimit

(* A buffer is [len, boxes] and what its packager put into it: the runs of *)
(* samples, in order, the default size that the moov declared for them,    *)
(* and whether it is as the packager left it.                              *)
(* A run of samples that states their sizes states all of them.            *)
ASSUME InputsAssumption ==
  /\ HeaderSize \in Nat \ {0} /\ None \notin Tracks
  /\ \A b \in Inputs :
       /\ b.len \in 0 .. IntLimit - 1 /\ b.boxes \in Seq(Box)
       /\ \A i \in 1 .. Len(b.boxes) : \A j \in 1 .. Len(b.boxes[i].children) :
            LET head == b.boxes[i].children[j].tfhd
                run  == b.boxes[i].children[j].trun
            IN  /\ "base" \notin head.flags => head.baseOffset = 0
                /\ "size" \notin head.flags => head.defaultSize = None
                /\ "offset" \notin run.flags => run.dataOffset = 0
                /\ IF "sizes" \in run.flags /\ TrunForm(run) = "whole"
                   THEN Len(run.sizes) = run.sampleCount ELSE run.sizes = <<>>

VARIABLES
  haveTrack, trackID, codec, defaultSize,   \* the Demuxer
  call, seg,            \* the call under way or last made, and its buffer
  pc, nth, off,         \* the box the walk is at, and where it begins
  child, inner, frames, \* in a moof: the child, where it begins, and the ranges read
  sample, total,        \* in a traf: the samples summed, and their sum
  out, outcome          \* what the call has to return

track == <<haveTrack, trackID, codec, defaultSize>>
asked == <<call, seg>>
nested == <<child, inner, frames>>
sums  == <<sample, total>>
demuxVars == <<track, asked, pc, nth, off, nested, sums, out, outcome>>

-----------------------------------------------------------------------------
(* The walk over the boxes of a buffer, or over the children of one.       *)

BoxHere == seg.boxes[nth]

(* A box of stated size 0 runs to the end, unless it is the long size that *)
(* states it.                                                              *)
Extent(b, box, o) ==
  IF box.size = 0 /\ box.hdr = HeaderSize THEN b.len - o ELSE Wrapped(box.size)

(* The body of the i-th box, which begins at o.                            *)
Within(b, i, o) ==
  [len   |-> Extent(b, b.boxes[i], o) - b.boxes[i].hdr,
   boxes |-> b.boxes[i].children]

(* The walk goes on while a box seems to lie in the buffer, and stops in   *)
(* silence at the first that does not.                                     *)
Passes(b, i, o) ==
  /\ i <= Len(b.boxes) /\ o + b.boxes[i].hdr <= b.len
  /\ Extent(b, b.boxes[i], o) >= b.boxes[i].hdr
  /\ Wrapped(o + Extent(b, b.boxes[i], o)) <= b.len

(* One whose end fits in no int seems to as well: slicing by it panics.    *)
Visited(b, i, o) == Passes(b, i, o) /\ o + Extent(b, b.boxes[i], o) <= b.len
Bursts(b, i, o)  == Passes(b, i, o) /\ o + Extent(b, b.boxes[i], o) > b.len

BoxStarts(b) ==
  LET o[i \in 1 .. Len(b.boxes)] ==
        IF i = 1 THEN 0 ELSE o[i - 1] + Extent(b, b.boxes[i - 1], o[i - 1])
  IN o

(* The walk comes to the i-th box and it is there.                         *)
Reached(b, i) == \A k \in 1 .. i : Visited(b, k, BoxStarts(b)[k])

(* A walk over all of the buffer meets a box that it cannot slice.         *)
WalkBursts(b) ==
  \E i \in 1 .. Len(b.boxes) : Reached(b, i - 1) /\ Bursts(b, i, BoxStarts(b)[i])

(* The moov of a buffer that topLevel finds: the first, if there is one.   *)
IsFirstMoov(b, i) ==
  /\ Reached(b, i)
  /\ b.boxes[i].typ = "moov" /\ \A j \in 1 .. i - 1 : b.boxes[j].typ # "moov"

-----------------------------------------------------------------------------
(* The track.                                                              *)

IsAudio(trak) == trak.handler = "soun" /\ trak.codec \in Codecs

(* trexSize[id] once every trex is read: the last of them, or nothing.     *)
SetDefaultSize(moov, id) ==
  \/ /\ \A i \in 1 .. Len(moov.trexs) : moov.trexs[i].id # id
     /\ defaultSize' = None
  \/ \E i \in 1 .. Len(moov.trexs) :
       /\ moov.trexs[i].id = id
       /\ \A j \in i + 1 .. Len(moov.trexs) : moov.trexs[j].id # id
       /\ defaultSize' = moov.trexs[i].size

(* readMoov: of several audio tracks the last stays; without one nothing   *)
(* changes.                                                                *)
ReadMoov(moov) ==
  \/ /\ \A i \in 1 .. Len(moov.traks) : ~IsAudio(moov.traks[i])
     /\ UNCHANGED track
  \/ \E i \in 1 .. Len(moov.traks) :
       /\ IsAudio(moov.traks[i])
       /\ \A j \in i + 1 .. Len(moov.traks) : ~IsAudio(moov.traks[j])
       /\ haveTrack' = TRUE
       /\ trackID' = moov.traks[i].id
       /\ codec' = moov.traks[i].codec
       /\ SetDefaultSize(moov, moov.traks[i].id)

(* What is read of one that bursts: the traks before it does, if any.      *)
ReadUntilItBursts(moov) ==
  \E n \in 0 .. Len(moov.traks) :
    ReadMoov([moov EXCEPT !.traks = SubSeq(moov.traks, 1, n)])

-----------------------------------------------------------------------------
(* The calls.                                                              *)

NewDemuxer == haveTrack = FALSE /\ trackID = None /\ codec = "" /\ defaultSize = None

NoBuffer == [len |-> 0, boxes |-> <<>>, media |-> <<>>, sound |-> TRUE, relies |-> AnySize]

DemuxInit ==
  /\ NewDemuxer
  /\ call = "none" /\ seg = NoBuffer /\ pc = "idle"
  /\ nth = 1 /\ off = 0 /\ child = 1 /\ inner = 0 /\ frames = <<>>
  /\ sample = 0 /\ total = 0
  /\ out = <<>> /\ outcome = "none"

Called(how, b) ==
  /\ pc = "idle"
  /\ call' = how /\ seg' = b
  /\ nth' = 1 /\ off' = 0 /\ child' = 1 /\ inner' = 0 /\ frames' = <<>>
  /\ sample' = 0 /\ total' = 0 /\ out' = <<>>

(* Init: the method of that name.  topLevel walks on to the end when it has*)
(* found the moov.                                                         *)
InitSegment(b) ==
  /\ Called("init", b) /\ pc' = "idle"
  /\ \/ WalkBursts(b) /\ outcome' = "panic" /\ UNCHANGED track
     \/ /\ ~WalkBursts(b) /\ \A i \in 1 .. Len(b.boxes) : ~IsFirstMoov(b, i)
        /\ outcome' = "noMoov" /\ UNCHANGED track
     \/ /\ ~WalkBursts(b)
        /\ \E i \in 1 .. Len(b.boxes) :
             /\ IsFirstMoov(b, i)
             /\ IF b.boxes[i].bursts
                THEN ReadUntilItBursts(b.boxes[i]) /\ outcome' = "panic"
                ELSE /\ ReadMoov(b.boxes[i])
                     /\ outcome' = IF haveTrack' THEN "none" ELSE "noTrack"

Segment(b) ==
  /\ Called("segment", b)
  /\ pc' = "box" /\ outcome' = "none" /\ UNCHANGED track

Elementary(b) ==
  /\ Called("elementary", b)
  /\ pc' = "box" /\ outcome' = "none" /\ UNCHANGED track

(* A fault: the walk steps on by the size stated and not by the one used.  *)
StepOnStated == nth' = nth + 1 /\ off' = off + BoxHere.size

(* To the box behind this one.                                             *)
StepOn == nth' = nth + 1 /\ off' = off + Extent(seg, BoxHere, off)

AtBox == pc = "box" /\ Visited(seg, nth, off)

(* A slice out of range: the call ends there, with nothing to return, and  *)
(* the Demuxer is what it was made by then - for who recovers from it.     *)
Panic ==
  /\ outcome' = "panic" /\ pc' = "idle" /\ out' = <<>>
  /\ UNCHANGED <<asked, nth, off, nested, sums>>

(* Elementary reads the track as it comes; Segment has no eyes for it.     *)
VisitMoov ==
  /\ AtBox /\ BoxHere.typ = "moov" /\ call = "elementary"
  /\ \/ BoxHere.bursts /\ ReadUntilItBursts(BoxHere) /\ Panic
     \/ /\ ~BoxHere.bursts /\ ReadMoov(BoxHere) /\ StepOn
        /\ UNCHANGED <<asked, pc, nested, sums, out, outcome>>

VisitOther ==
  /\ AtBox /\ BoxHere.typ # "moof" /\ ~(BoxHere.typ = "moov" /\ call = "elementary")
  /\ StepOn
  /\ UNCHANGED <<track, asked, pc, nested, sums, out, outcome>>

VisitMoof ==
  /\ AtBox /\ BoxHere.typ = "moof"
  /\ pc' = "moof" /\ child' = 1 /\ inner' = 0 /\ frames' = <<>>
  /\ UNCHANGED <<track, asked, nth, off, sums, out, outcome>>

EndOfBuffer ==
  /\ pc = "box" /\ ~Passes(seg, nth, off)
  /\ pc' = "idle"
  /\ outcome' = IF /\ call = "elementary" /\ ~haveTrack
                   /\ \A i \in 1 .. Len(out) : out[i].from = out[i].to
                THEN "noTrack" ELSE "none"
  /\ UNCHANGED <<track, asked, nth, off, nested, sums, out>>

-----------------------------------------------------------------------------
(* readFragment and readTraf.                                              *)

Moof == Within(seg, nth, off)
Traf == BoxHere.children[child]
tfhd == Traf.tfhd
trun == Traf.trun

ToNextChild == child' = child + 1 /\ inner' = inner + Extent(Moof, Traf, inner)

AtChild == pc = "moof" /\ Visited(Moof, child, inner)
AtTraf  == AtChild /\ Traf.typ = "traf"

PassChild ==
  /\ AtChild /\ Traf.typ # "traf"
  /\ ToNextChild
  /\ UNCHANGED <<track, asked, pc, nth, off, frames, sums, out, outcome>>

(* The fragment is read as far as its children go: its samples are appended*)
(* to those before.                                                        *)
EndOfMoof ==
  /\ pc = "moof" /\ ~Passes(Moof, child, inner)
  /\ out' = out \o frames
  /\ pc' = "box" /\ StepOn
  /\ UNCHANGED <<track, asked, nested, sums, outcome>>

(* A walk comes to a box that it cannot slice.                             *)
PanicInWalk ==
  /\ \/ pc = "box" /\ Bursts(seg, nth, off)
     \/ pc = "moof" /\ Bursts(Moof, child, inner)
     \/ AtTraf /\ Traf.bursts
  /\ Panic /\ UNCHANGED track

(* A fault: the fragments are appended as their trafs are read, so that a  *)
(* failing one leaves half of it behind.                                   *)
KeptWithHalf == out \o frames

(* What a failing call returns: Segment the fragments before the one that  *)
(* failed, Elementary nothing.                                             *)
KeptSoFar == out

FailCall(why) ==
  /\ outcome' = why /\ pc' = "idle"
  /\ out' = IF call = "elementary" THEN <<>> ELSE KeptSoFar
  /\ UNCHANGED <<track, asked, nth, off, nested, sums>>

(* A traf for a track known not to be the audio one.                       *)
Foreign == haveTrack /\ tfhd.trackID # trackID

(* The traf with both its boxes, and with its tfhd parsed for the track.   *)
Complete == AtTraf /\ ~Traf.bursts /\ tfhd.present /\ trun.present
Ours     == Complete /\ Parse(tfhd, TfhdFields) = "whole" /\ ~Foreign

(* The sizes' table is made as long as the count asks, before it is looked *)
(* for: for a count beyond the memory there is, that is the end as well.   *)
Overasks == "sizes" \in trun.flags /\ trun.sampleCount > Allocatable

Broken ==
  \/ AtTraf /\ ~Traf.bursts /\ ~Complete /\ FailCall("missing")
  \/ Complete /\ Parse(tfhd, TfhdFields) = "short" /\ FailCall("short")
  \/ Ours /\ TrunForm(trun) = "short" /\ FailCall("short")

PanicInTraf ==
  /\ \/ Complete /\ Parse(tfhd, TfhdFields) = "panic"
     \/ Ours /\ Parse(trun, TrunFields) = "panic"
     \/ Ours /\ Parse(trun, TrunFields) = "whole" /\ Overasks
  /\ Panic /\ UNCHANGED track

SkipTraf ==
  /\ Complete /\ Parse(tfhd, TfhdFields) = "whole" /\ Foreign
  /\ ToNextChild
  /\ UNCHANGED <<track, asked, pc, nth, off, frames, sums, out, outcome>>

EnterTraf ==
  /\ Ours /\ TrunForm(trun) = "whole"
  /\ pc' = "sizes" /\ sample' = 0 /\ total' = 0
  /\ UNCHANGED <<track, asked, nth, off, nested, out, outcome>>

(* Where offsets are measured from: the moof, unless a place is asked.     *)
Base == IF "base" \in tfhd.flags THEN Wrapped(tfhd.baseOffset) ELSE off

(* A fault: the track's default comes before the fragment's.               *)
DefOfTrack == IF defaultSize = None THEN tfhd.defaultSize ELSE defaultSize

(* The fragment's default size, else the track's.                          *)
Def == IF tfhd.defaultSize = None THEN defaultSize ELSE tfhd.defaultSize

(* The size of the next sample: its own, else the default.                 *)
AddSample ==
  /\ pc = "sizes" /\ sample < trun.sampleCount
  /\ sample' = sample + 1
  /\ total' = Wrapped(total + (IF trun.sizes # <<>> THEN trun.sizes[sample + 1] ELSE Def))
  /\ UNCHANGED <<track, asked, pc, nth, off, nested, out, outcome>>

Start == Wrapped(Base + trun.dataOffset)
End   == Wrapped(Start + total)

(* A fault: only the end of the samples is weighed.                        *)
OutsideAbove == End > seg.len

(* A fault: only their beginning is weighed.                               *)
OutsideBelow == Start < 0

Outside == Start < 0 \/ End > seg.len

Sizeless == Def = None /\ trun.sizes = <<>>

(* What Go slices by, as far as the buffer's memory goes.                  *)
InOrder == 0 <= Start /\ Start <= End

AtRange == pc = "sizes" /\ sample = trun.sampleCount

RefuseRange ==
  /\ AtRange
  /\ \/ Sizeless /\ FailCall("noSizes")
     \/ ~Sizeless /\ Outside /\ FailCall("outside")

TakeRange ==
  /\ AtRange /\ ~Sizeless /\ ~Outside /\ InOrder
  /\ frames' = Append(frames, [from |-> Start, to |-> End])
  /\ pc' = "moof" /\ ToNextChild
  /\ UNCHANGED <<track, asked, nth, off, sums, out, outcome>>

(* The end of the samples has wrapped, and passed for one in the buffer.   *)
PanicInRange ==
  /\ AtRange /\ ~Sizeless /\ ~Outside /\ ~InOrder
  /\ Panic /\ UNCHANGED track

DemuxNext ==
  \/ \E b \in Inputs : InitSegment(b) \/ Segment(b) \/ Elementary(b)
  \/ VisitMoov \/ VisitOther \/ VisitMoof \/ EndOfBuffer
  \/ PassChild \/ EndOfMoof \/ Broken \/ SkipTraf \/ EnterTraf
  \/ AddSample \/ RefuseRange \/ TakeRange
  \/ PanicInWalk \/ PanicInTraf \/ PanicInRange

(* A call runs to its end: nothing in it waits.                            *)
DemuxSpec == DemuxInit /\ [][DemuxNext]_demuxVars

-----------------------------------------------------------------------------
(* Properties.                                                             *)

ByteRange == [from : Nat, to : Nat]

(* Types, the widths of the integers, and the promise readTraf slices by   *)
(* (cmaf.go:265-268): nothing handed back lies outside the buffer the call *)
(* was asked.                                                              *)
DemuxTypeOK ==
  /\ haveTrack \in BOOLEAN /\ trackID \in Tracks \union {None}
  /\ codec \in Codecs \union {""} /\ defaultSize \in Fields32
  /\ pc \in {"idle", "box", "moof", "sizes"}
  /\ nth \in Nat \ {0} /\ off \in 0 .. IntLimit - 1
  /\ child \in Nat \ {0} /\ inner \in 0 .. IntLimit - 1
  /\ sample \in Fields32 /\ total \in -IntLimit .. IntLimit - 1
  /\ frames \in Seq(ByteRange) /\ out \in Seq(ByteRange)
  /\ \A i \in 1 .. Len(frames) : frames[i].from <= frames[i].to /\ frames[i].to <= seg.len
  /\ \A i \in 1 .. Len(out) : out[i].from <= out[i].to /\ out[i].to <= seg.len

(* The bytes of the first n of some ranges, in order.                      *)
Bytes(ranges, n) ==
  LET bytes[i \in 0 .. n] ==
        IF i = 0 THEN <<>>
        ELSE bytes[i - 1] \o [k \in 1 .. ranges[i].to - ranges[i].from |->
                                ranges[i].from + k - 1]
  IN bytes[n]

(* What a packager laid down: runs of samples, each with its track and the *)
(* places where a sample begins and the last one ends.                     *)
Runs == [track : Tracks, cuts : Seq(Nat) \ {<<>>}]
From(run) == run.cuts[1]
To(run)   == run.cuts[Len(run.cuts)]

(* How many runs the boxes before the i-th stand for: one for each child,  *)
(* an empty one for a child that is no traf.                               *)
RunsBefore(b) ==
  LET runs[i \in 1 .. Len(b.boxes) + 1] ==
        IF i = 1 THEN 0 ELSE runs[i - 1] + Len(b.boxes[i - 1].children)
  IN runs

(* The size a traf states for its k-th sample: the sample's own, else its  *)
(* default, else the one in the moov.                                      *)
SizeStated(b, t, k) ==
  IF t.trun.sizes # <<>> THEN t.trun.sizes[k]
  ELSE IF t.tfhd.defaultSize # None THEN t.tfhd.defaultSize ELSE b.relies

(* Where a traf of the i-th box says its samples begin, and whether nothing*)
(* but the moov says their size.                                           *)
PlaceOf(b, i, t) ==
  Wrapped(t.trun.dataOffset + (IF "base" \in t.tfhd.flags THEN Wrapped(t.tfhd.baseOffset)
                               ELSE BoxStarts(b)[i]))
Leans(t) == t.trun.sizes = <<>> /\ t.tfhd.defaultSize = None

(* A traf of the i-th box tells of a run.                                  *)
TellsOf(b, i, t, run) ==
  /\ run.track = t.tfhd.trackID
  /\ Len(run.cuts) = t.trun.sampleCount + 1
  /\ From(run) = PlaceOf(b, i, t)
  /\ \A k \in 1 .. t.trun.sampleCount :
       run.cuts[k + 1] = run.cuts[k] + SizeStated(b, t, k)
  /\ Leans(t) => b.relies \notin {None, AnySize}

(* A traf that told of a run shows that it is damaged: a box in it runs out*)
(* of the integers, a part is missing or too short for what it announces,  *)
(* its samples begin outside the buffer, or no size of theirs is left.     *)
ShowsDamage(b, i, t, run) ==
  \/ t.bursts \/ ~t.trun.present \/ Parse(t.tfhd, TfhdFields) # "whole"
  \/ /\ run.track = t.tfhd.trackID
     /\ \/ TrunForm(t.trun) # "whole"
        \/ PlaceOf(b, i, t) \notin 0 .. b.len
        \/ Leans(t) /\ b.relies = None

(* The j-th child of the i-th box is met by the walk inside that box.      *)
Met(b, i, j) == Reached(Within(b, i, BoxStarts(b)[i]), j)

(* A child stands for its run: a traf tells of it, any other box of none.  *)
StandsFor(b, i, t, run) ==
  IF t.typ = "traf" THEN TellsOf(b, i, t, run) ELSE From(run) = To(run)

(* Each traf tells of the next run laid down.  A buffer cut short or       *)
(* damaged may end before its boxes do, have a box, or a box in a moof,    *)
(* that does not fit or whose end does not fit in an int, or trafs that    *)
(* show damage; what is wrong elsewhere and still fits nobody could notice.*)
(* As a packager leaves it, a file has none of these, and its moov comes   *)
(* before any samples.                                                     *)
ASSUME PackagedAssumption ==
  \A b \in Inputs :
    /\ b.media \in Seq(Runs) /\ b.relies \in Nat \union {AnySize}
    /\ RunsBefore(b)[Len(b.boxes) + 1] = Len(b.media)
    /\ \A i \in 1 .. Len(b.boxes) :
         LET run(j) == b.media[RunsBefore(b)[i] + j]
             t(j)   == b.boxes[i].children[j]
         IN  /\ b.boxes[i].children # <<>> => b.boxes[i].typ = "moof"
             /\ Reached(b, i) =>
                  \A j \in 1 .. Len(b.boxes[i].children) : Met(b, i, j) =>
                    /\ RunsBefore(b)[i] + j <= Len(b.media)
                    /\ \/ StandsFor(b, i, t(j), run(j))
                       \/ t(j).typ = "traf" /\ ShowsDamage(b, i, t(j), run(j))
             /\ b.sound =>
                  /\ Visited(b, i, BoxStarts(b)[i])
                  /\ b.boxes[i].typ = "moov" => RunsBefore(b)[i] = 0
                  /\ \A j \in 1 .. Len(b.boxes[i].children) :
                       Met(b, i, j) /\ StandsFor(b, i, t(j), run(j))

(* The samples a buffer holds for the track found, or for any without one, *)
(* as far as the walks come to the trafs that tell of them: of another     *)
(* track's run, and of one whose traf is not met, nothing.                 *)
OfTheTrack(run) == ~haveTrack \/ run.track = trackID
RunIsMet(b, n) ==
  \A i \in 1 .. Len(b.boxes) : \A j \in 1 .. Len(b.boxes[i].children) :
    RunsBefore(b)[i] + j = n => Met(b, i, j)
Samples ==
  [n \in 1 .. Len(seg.media) |->
     LET run == seg.media[n]
     IN [from |-> From(run),
         to   |-> IF OfTheTrack(run) /\ RunIsMet(seg, n) THEN To(run) ELSE From(run)]]

(* The demuxer and the packager agree on the default size.                 *)
Agree == seg.relies \in {AnySize, defaultSize}

(* What goes in comes out, byte for byte (cmaf_test.go:12-16): of what a   *)
(* packager made, a call that succeeds returns the track's samples, all of *)
(* them, in order, and nothing of another track, wherever the sizes and    *)
(* offsets are stated.                                                     *)
SamplesOfTheTrack ==
  /\ pc = "idle" /\ outcome = "none" /\ call \in {"segment", "elementary"}
  /\ seg.sound /\ Agree
  => Bytes(out, Len(out)) = Bytes(Samples, Len(Samples))

(* And of what was cut short or damaged after it was packaged, Segment     *)
(* returns the fragments before the damage and no piece of a sample run,   *)
(* whether it tells of the damage or not.  Of a fragment whose moof breaks *)
(* off in a child that does not fit, it returns the runs told of before    *)
(* that child, and says nothing of the rest.                               *)
SamplesBeforeTheDamage ==
  pc = "idle" /\ call = "segment" /\ Agree =>
    \E i \in 1 .. Len(seg.boxes) + 1 :
      Bytes(out, Len(out)) = Bytes(Samples, RunsBefore(seg)[i])

(* A buffer that keeps clear of the edges the code does not look at: every *)
(* field it takes unseen is there, no sum of sizes and offsets reaches the *)
(* end of the ints, and no count asks for more memory than there is.       *)
Clear(b) ==
  LET small(n) == n + b.len < IntLimit
  IN  \A i \in 1 .. Len(b.boxes) :
        /\ small(b.boxes[i].size) /\ ~b.boxes[i].bursts
        /\ \A j \in 1 .. Len(b.boxes[i].children) :
             LET t == b.boxes[i].children[j]
             IN  /\ small(t.size) /\ ~t.bursts
                 /\ Parse(t.tfhd, TfhdFields) # "panic"
                 /\ Parse(t.trun, TrunFields) # "panic"
                 /\ "sizes" \in t.trun.flags => t.trun.sampleCount <= Allocatable
                 /\ small(t.tfhd.baseOffset + FieldLimit * (t.trun.sampleCount + 1))

(* Apart from those edges the demuxer refuses what it cannot read and does *)
(* not panic: not for an offset that points before the buffer or behind it,*)
(* a box that is too small or too large, a part that is missing or short.  *)
RefusesInsteadOfPanicking == Clear(seg) => outcome # "panic"

(* What the WebAssembly module is said to do with a malformed stream       *)
(* (main.go:60-62): an error is returned for it, and no panic tears the    *)
(* instance down.  Its decode and probe call Elementary.                   *)
MalformedIsAnError == call = "elementary" => outcome # "panic"

(* What a call has left to do: bytes of the buffer to walk over, and of the*)
(* box it is at to look at it, bytes of a moof to walk over, and of a child*)
(* to look at it, and samples to sum.                                      *)
LeftToDo ==
  <<seg.len - off,
    IF pc = "box" THEN 1 ELSE 0,
    IF pc = "box" THEN 0 ELSE Moof.len - inner,
    IF pc = "moof" THEN 1 ELSE 0,
    IF pc = "sizes" THEN trun.sampleCount - sample ELSE 0>>

(* Less is left if the first of these that differs is less.                *)
Less(a, b) == \E i \in 1 .. 5 : a[i] < b[i] /\ \A j \in 1 .. i - 1 : a[j] = b[j]

(* No size a file states holds a call up (box.go:44-70): each step leaves  *)
(* less to do, so that the walk never stands still and never turns back,   *)
(* and a call takes a number of steps its buffer bounds.                   *)
CallsRunOut ==
  [][pc # "idle" /\ pc' # "idle" =>
       LeftToDo' \in [1 .. 5 -> Nat] /\ Less(LeftToDo', LeftToDo)]_demuxVars

=============================================================================
