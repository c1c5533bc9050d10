------------------------------- MODULE MCCoding ------------------------------
(***************************************************************************)
(* What stands between the bytes of a file and a spectrum, in one run: the *)
(* demuxer, the bit reader, the header, allocating a channel, the grouped  *)
(* mantissas, a hybrid channel's gains and the copy of an extension.  They *)
(* share no state of these models, so a stage takes its steps where the    *)
(* others are at rest.                                                     *)
(***************************************************************************)
EXTENDS BitReader, Allocation, Mantissas, Hybrid, Extension, Headers, MCDemuxer

Stages == {"demuxer", "bits", "header", "allocation", "mantissas", "hybrid", "extension"}

BitsRest == buf = <<>> /\ err = "none" /\ answer = 0 /\ ideal = 0

MantRest ==
  /\ mstate = "block"
  /\ \A b \in Grouped : open[b] = 0 /\ Len(owed[b]) = 0
  /\ pending = [b \in Grouped |-> [k \in {0, 1} |-> 0]]

(* One of the headers nothing was parsed into yet stands for all of them.  *)
HeaderRest == HeaderInit /\ field = "compr"

(* A stage rests where its next piece of work would begin; the demuxer,    *)
(* which remembers a track, before its first call.                         *)
AtRest(stage) ==
  CASE stage = "demuxer"    -> DemuxInit /\ UNCHANGED demuxVars
    [] stage = "bits"       -> BitsRest /\ UNCHANGED vars
    [] stage = "header"     -> HeaderRest /\ UNCHANGED headerVars
    [] stage = "allocation" -> astate = "idle" /\ UNCHANGED allocVars
    [] stage = "mantissas"  -> MantRest /\ UNCHANGED mantVars
    [] stage = "hybrid"     -> hstate = "idle" /\ UNCHANGED hybridVars
    [] stage = "extension"  -> xstate = "idle" /\ UNCHANGED spxVars

OthersRest(stage) == \A other \in Stages \ {stage} : AtRest(other)

CodingInit ==
  DemuxInit /\ Init /\ HeaderInit /\ AllocInit /\ MantInit /\ HybridInit /\ SpxInit

CodingNext ==
  \/ OthersRest("demuxer") /\ DemuxNext
  \/ OthersRest("bits") /\ Next
  \/ OthersRest("header") /\ HeaderNext
  \/ OthersRest("allocation") /\ AllocNext
  \/ OthersRest("mantissas") /\ MantNext
  \/ OthersRest("hybrid") /\ HybridNext
  \/ OthersRest("extension") /\ SpxNext

CodingSpec ==
  CodingInit /\ [][CodingNext]_<<demuxVars, vars, headerVars, allocVars, mantVars, hybridVars, spxVars>>

-----------------------------------------------------------------------------
(* An int of six bits addresses three bytes, and a field of 17 bits spans  *)
(* all of them: buffers of every length up to one byte more.               *)
MCBuffers == {<<>>, <<183>>, <<183, 44>>, <<183, 44, 240>>, <<1, 254, 129>>,
              <<15, 0, 255, 85>>}

-----------------------------------------------------------------------------
(* The tables and ranges of the code.                                      *)

BandWidths == [k \in 0 .. 49 |-> IF k < 28 THEN 1 ELSE IF k < 35 THEN 3
                ELSE IF k < 41 THEN 6 ELSE IF k < 45 THEN 12 ELSE 24]

BandStarts == [k \in 0 .. 49 |-> CASE k < 28 -> k
                                   [] k \in 28 .. 34 -> 28 + 3 * (k - 28)
                                   [] k \in 35 .. 40 -> 49 + 6 * (k - 35)
                                   [] k \in 41 .. 44 -> 85 + 12 * (k - 41)
                                   [] OTHER -> 133 + 24 * (k - 45)]

BandOfBin == [i \in 0 .. 255 |->
  IF i > 252 THEN 0
  ELSE CHOOSE k \in 0 .. 49 : BandStarts[k] <= i /\ i < BandStarts[k] + BandWidths[k]]

(* chbwcodEndMant, cplbegfStrtMant and the first bin of an extension.      *)
ChannelEnds ==
  {(chbwcod + 12) * 3 + 37 : chbwcod \in 0 .. 60}
    \union {cplbegf * 12 + 37 : cplbegf \in 0 .. 15}
    \union {subbnd * 12 + 25 : subbnd \in {2, 3, 4, 5, 6, 7, 9, 11}}

(* An extension may end coupling below what its own code can say.          *)
Ranges == {<<b * 12 + 37, (e + 3) * 12 + 37>> : b \in 0 .. 15, e \in -2 .. 15}
Couplings == {r \in Ranges : r[1] < r[2]}

DeltaSegments == {<<0, 1>>, <<2, 15>>, <<31, 4>>}

StepsOf == [b \in Grouped |-> CASE b = 1 -> 3 [] b = 2 -> 5 [] b = 4 -> 11]
SizeOf  == [b \in Grouped |-> IF b = 4 THEN 2 ELSE 3]

=============================================================================
