------------------------------ MODULE MCDemuxer ------------------------------
(***************************************************************************)
(* Demuxer on what a small packager makes: one or two tracks, one or two   *)
(* fragments, sizes stated in each of the three places - and on the same   *)
(* cut short, damaged, and without a track to find.  A header is one unit  *)
(* of length; ints have ten bits and fields five.                          *)
(***************************************************************************)
EXTENDS Demuxer, SequencesExt

CONSTANTS Audio, Second   \* track identifiers

Plain(typ, size) == [typ |-> typ, hdr |-> HeaderSize, size |-> size, bursts |-> FALSE,
                     traks |-> <<>>, trexs |-> <<>>, children |-> <<>>]
Long(box) == [box EXCEPT !.hdr = 2 * HeaderSize, !.size = @ + HeaderSize]

(* A box whose size is stated in 64 bits.                                  *)
Stated(box, size) == [box EXCEPT !.hdr = 2 * HeaderSize, !.size = size]

Sound(id) == [handler |-> "soun", codec |-> "ec-3", id |-> id]
Video(id) == [handler |-> "other", codec |-> "other", id |-> id]
Aac(id)   == [handler |-> "soun", codec |-> "other", id |-> id]

Moov(traks, trexs) == [Plain("moov", 2) EXCEPT !.traks = traks, !.trexs = trexs]

(* A traf as the packager is asked for it: whose samples, their sizes, and *)
(* where it is to state the sizes and the place of the data.               *)
Want(id, sizes, how) == [track |-> id, sizes |-> sizes, how |-> how, base |-> FALSE]
WithBase(w) == [w EXCEPT !.base = TRUE]
Sum(sizes) == FoldLeft(LAMBDA a, x : a + x, 0, sizes)

(* Where samples of these sizes begin, and the last ends.                  *)
Cuts(sizes, from) ==
  [k \in 1 .. Len(sizes) + 1 |-> from + Sum(SubSeq(sizes, 1, k - 1))]

(* The traf, with its data at `from' and its moof at `o': bodies of just   *)
(* the words that their flags announce.                                    *)
TfhdBox(id, flags, base, size) ==
  LET t == [present |-> TRUE, words |-> 0, flags |-> flags, trackID |-> id,
            baseOffset |-> base, defaultSize |-> size]
  IN [t EXCEPT !.words = FieldsEnd(t, TfhdFields)[Len(TfhdFields)]]
TrunBox(flags, count, offset, sizes) ==
  LET t == [present |-> TRUE, words |-> 0, flags |-> flags, sampleCount |-> count,
            dataOffset |-> offset, sizes |-> sizes]
  IN [t EXCEPT !.words = FieldsEnd(t, TrunFields)[Len(TrunFields)]
                           + count * Cardinality(flags \intersect Tables)]

NoTfhd == [TfhdBox(Audio, {}, 0, None) EXCEPT !.present = FALSE]
NoTrun == [TrunBox({}, 0, 0, <<>>) EXCEPT !.present = FALSE]
Mfhd == [typ |-> "other", hdr |-> HeaderSize, size |-> 1, bursts |-> FALSE,
         tfhd |-> NoTfhd, trun |-> NoTrun]
TrafSize == 2

Pack(w, o, from) ==
  [Mfhd EXCEPT !.typ = "traf", !.size = TrafSize,
     !.tfhd = TfhdBox(w.track,
                {"description"} \union (IF w.base THEN {"base"} ELSE {})
                  \union (IF w.how = "tfhd" THEN {"size"} ELSE {}),
                IF w.base THEN from - 1 ELSE 0,
                IF w.how = "tfhd" THEN w.sizes[1] ELSE None),
     !.trun = TrunBox({"offset"} \union (IF w.how = "trun" THEN {"sizes", "durations"} ELSE {}),
                Len(w.sizes), IF w.base THEN 1 ELSE from - o,
                IF w.how = "trun" THEN w.sizes ELSE <<>>)]

(* A buffer with one more fragment: moof and mdat, in either order.        *)
WithFragment(b, wants, dataFirst) ==
  LET data(k) == Sum(FlattenSeq([i \in 1 .. k |-> wants[i].sizes]))
      moof == 2 + TrafSize * Len(wants)
      mdat == 1 + data(Len(wants))
      o    == IF dataFirst THEN b.len + mdat ELSE b.len
      d    == IF dataFirst THEN b.len + 1 ELSE b.len + moof + 1
      boxes == <<[Plain("moof", moof) EXCEPT !.children = <<Mfhd>> \o
                    [i \in 1 .. Len(wants) |-> Pack(wants[i], o, d + data(i - 1))]],
                 Plain("other", mdat)>>
  IN [b EXCEPT !.len = @ + moof + mdat,
               !.boxes = @ \o (IF dataFirst THEN Reverse(boxes) ELSE boxes),
               !.media = @ \o <<[track |-> Audio, cuts |-> <<0>>]>>
                            \o [i \in 1 .. Len(wants) |->
                                 [track |-> wants[i].track,
                                  cuts |-> Cuts(wants[i].sizes, d + data(i - 1))]]]

Opening(boxes) ==
  [NoBuffer EXCEPT !.boxes = boxes, !.len = FoldLeft(LAMBDA a, x : a + x.size, 0, boxes)]

File(boxes, fragments) ==
  FoldLeft(LAMBDA b, f : WithFragment(b, f, FALSE), Opening(boxes), fragments)

Relying(b, n) == [b EXCEPT !.relies = n]
Cut(b, n) == [b EXCEPT !.len = n, !.sound = FALSE]

(* A buffer with its n-th box replaced, in a way no packager would.        *)
Damaged(b, n, box) == [b EXCEPT !.boxes[n] = box, !.sound = FALSE]

-----------------------------------------------------------------------------
Movie  == Moov(<<Video(Second), Sound(Audio)>>, <<[id |-> Audio, size |-> 2]>>)
Plainly == Moov(<<Sound(Audio)>>, <<>>)
Twice  == Moov(<<Sound(Second), Sound(Audio), Aac(Second)>>,
               <<[id |-> Second, size |-> 3], [id |-> Audio, size |-> 1],
                 [id |-> Audio, size |-> 2]>>)
Silent == Moov(<<Video(Second), Aac(Audio)>>, <<>>)
Styp   == Plain("other", 1)

One  == <<Want(Audio, <<1, 2>>, "trun")>>
Even == <<Want(Audio, <<2, 2>>, "tfhd")>>
Lean == <<Want(Audio, <<2, 2>>, "trex")>>
Both == <<Want(Second, <<3>>, "trun"), Want(Audio, <<1, 1>>, "tfhd")>>
Place == <<WithBase(Want(Audio, <<1, 1>>, "trun"))>>

Wants == {One, Even, Lean, Both}
Needs(w) == IF w = Lean THEN 2 ELSE AnySize

Inits == {Opening(<<Styp, m>>) : m \in {Movie, Plainly, Twice, Silent}}
           \union {Opening(<<Styp>>), Opening(<<Plainly, Silent>>)}
MediaSegments ==
  {Relying(File(<<Styp>>, <<w>>), Needs(w)) : w \in Wants}
    \union {File(<<>>, <<One, Both>>), File(<<Long(Styp)>>, <<Even, One>>),
            WithFragment(NoBuffer, Both, TRUE)}
Files ==
  {Relying(File(<<Styp, Movie>>, <<w, One>>), 2) : w \in Wants \union {Place}}
    \union {File(<<Silent>>, <<Both>>), Relying(File(<<Twice>>, <<Lean>>), 2)}

(* The last box of a file may leave its end open.                          *)
OpenEnded(b) == [b EXCEPT !.boxes[Len(b.boxes)].size = 0]

Pair == File(<<>>, <<One, Both>>)       \* moof, mdat, moof, mdat
Moof2 == Pair.boxes[3]                  \* of an mfhd and two trafs

(* Its second moof with another mfhd or another traf in the j-th place.    *)
InMoof(j, box) == Damaged(Pair, 3, [Moof2 EXCEPT !.children[j] = box])
Closing == Moof2.children[3]
InTfhd(t) == InMoof(3, [Closing EXCEPT !.tfhd = t])
InTrun(t) == InMoof(3, [Closing EXCEPT !.trun = t])

Cuttings == {Cut(Pair, n) : n \in 0 .. Pair.len - 1}

(* Boxes that do not fit, do not move, or end beyond the ints.             *)
Misfits ==
  {Damaged(Pair, 2, box) : box \in
     {[Pair.boxes[2] EXCEPT !.size = n] : n \in {0, Pair.len}}
       \union {Stated(Pair.boxes[2], n) : n \in {0, 1, IntLimit - 1, IntLimit}}}
    \union {InMoof(j, [Moof2.children[j] EXCEPT !.size = n]) :
              j \in 1 .. 3, n \in {0, Moof2.size}}
    \union {InMoof(j, Stated(Moof2.children[j], n)) :
              j \in 1 .. 3, n \in {IntLimit - 1, IntLimit}}
    \union {InMoof(3, [Closing EXCEPT !.bursts = TRUE])}
    \union {[b EXCEPT !.boxes[2].bursts = TRUE, !.sound = FALSE] :
              b \in {Opening(<<Styp, Movie>>), File(<<Styp, Movie>>, <<Even>>),
                     Opening(<<Styp, Plainly>>)}}
    \union {Damaged(Opening(<<Movie, Styp>>), 2, Stated(Styp, IntLimit - 1))}

(* Parts that are missing, too short for their flags at each of their ends,*)
(* or ask for more samples than they hold.                                 *)
Rich == TfhdBox(Audio, {"base", "description", "duration", "size"}, 0, 1)
Bare == TrunBox({"offset", "firstFlags", "sizes"}, 2, 0, <<1, 1>>)
Untabled(t) == [t EXCEPT !.sizes = <<>>]
ShortParts ==
  {InTfhd(NoTfhd), InTrun(NoTrun)}
    \union {InTfhd([Rich EXCEPT !.words = n]) : n \in 0 .. Rich.words - 1}
    \union {InTrun([Untabled(Bare) EXCEPT !.words = n]) : n \in 0 .. Bare.words - 1}
    \union {InTrun([Untabled(Bare) EXCEPT !.sampleCount = Allocatable + 1])}

(* Samples in places where there are none, and more than an int can sum.   *)
Elsewhere ==
  {Damaged(Pair, 1, [Pair.boxes[1] EXCEPT !.children[2].trun.dataOffset = -1]),
   Relying(InTfhd(TfhdBox(Audio, {}, 0, None)), None)}
    \union {InTfhd(TfhdBox(Audio, {"base", "size"}, n, 1)) :
              n \in {Pair.len, IntLimit - 12, IntLimit - 1, IntLimit, 2 * IntLimit - 20}}

Biggest == FieldLimit - 1
Vast ==
  LET t == Pack(Want(Audio, [k \in 1 .. Biggest |-> Biggest], "tfhd"), 0, 5)
  IN  [Opening(<<[Plain("moof", 4) EXCEPT !.children = <<Mfhd, t>>], Styp>>) EXCEPT
         !.media = <<[track |-> Audio, cuts |-> <<0>>],
                     [track |-> Audio, cuts |-> Cuts([k \in 1 .. Biggest |-> Biggest], 5)]>>,
         !.sound = FALSE]

MCInputs ==
  Inits \union MediaSegments \union Files \union {OpenEnded(b) : b \in Files}
    \union Cuttings \union Misfits \union ShortParts \union Elsewhere \union {Vast}

(* A file like any other, but for a tfhd that announces the index of a     *)
(* sample description and ends before it.                                  *)
Beheaded ==
  LET b == File(<<Styp, Movie>>, <<Even>>)
  IN  {Damaged(b, 3, [b.boxes[3] EXCEPT !.children[2].tfhd =
                        [TfhdBox(Audio, {"description"}, 0, None) EXCEPT !.words = 2]])}

=============================================================================
