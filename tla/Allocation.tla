------------------------------ MODULE Allocation -----------------------------
(***************************************************************************)
(* One channel of a block on its way to its bit allocation                 *)
(* (src/ac3/exponents.go, bitalloc.go): how far its exponents reach, and   *)
(* the walk of the psychoacoustic model over its bands, step by step.      *)
(*                                                                         *)
(* Levels are abstracted to whether they are of this call: the scratch is  *)
(* the decoder's, and holds what the channel before left in it.            *)
(***************************************************************************)
EXTENDS Integers, FiniteSets

CONSTANTS
  nBands, bndtab, bndsz,  \* the bands: how many, where each begins, how wide
  masktab,                \* the band of each bin
  MaxCoefs,               \* how many bins there are
  FullEnds,               \* where full bandwidth channels may end
  CouplingRanges,         \* where the coupling channel may begin and end
  Segments                \* the delta segments a channel may carry

AllBands == 0 .. nBands - 1
Bins     == 0 .. MaxCoefs - 1
Top      == bndtab[nBands - 1] + bndsz[nBands - 1]
lfeMants == 7
lfeBands == 7                 \* the number excitation tells the channel by
lowBands == 22                \* compensated for what the band above holds

ASSUME TablesAssumption ==
  /\ nBands \in Nat /\ nBands > lowBands
  /\ MaxCoefs \in Nat
  /\ bndtab \in [AllBands -> Nat] /\ bndsz \in [AllBands -> Nat \ {0}]
  /\ bndtab[0] = 0
  /\ \A k \in AllBands \ {0} : bndtab[k] = bndtab[k - 1] + bndsz[k - 1]
  /\ Top \in Nat /\ Top <= MaxCoefs
  /\ masktab \in [Bins -> AllBands]
  /\ \A k \in AllBands : \A i \in bndtab[k] .. bndtab[k] + bndsz[k] - 1 :
       i \in Bins /\ masktab[i] = k
  /\ \A i \in 0 .. Top - 1 :
       bndtab[masktab[i]] <= i /\ i < bndtab[masktab[i]] + bndsz[masktab[i]]
  /\ \A i, j \in 0 .. Top - 1 : i <= j => masktab[i] <= masktab[j]
  /\ lfeMants < Top /\ masktab[0] = 0 /\ masktab[lfeMants - 1] = lfeBands - 1

ASSUME RangesAssumption ==
  /\ \A end \in FullEnds :
       /\ end \in 1 .. Top /\ end % 3 = 1
       /\ masktab[end - 1] >= lowBands
  /\ \A r \in CouplingRanges :
       /\ r \in Nat \X Nat /\ r[1] < r[2] /\ r[2] <= Top
       /\ (r[2] - r[1]) % 12 = 0
  /\ Segments \subseteq Nat \X Nat

Strategies == {"D15", "D25", "D45"}
expGroupSize == [D15 |-> 1, D25 |-> 2, D45 |-> 4]

VARIABLES
  astate,               \* where the call is
  channel,              \* whose bins are allocated
  from, coded,          \* the set in force: its first bin, and one past its last
  widened,              \* history: the channel has outgrown the range it was sent for
  band, bin,            \* the cursors of the walk
  powered, excited, masked,  \* the bands with a value of this call
  allocated,            \* one past the last bin with a pointer
  segs,                 \* how many segments are left
  own                   \* history: all that was read so far was of this call

cursors   == <<band, bin, allocated, segs>>
scratch   == <<powered, excited, masked>>
expset    == <<from, coded, widened>>
allocVars == <<astate, channel, expset, cursors, scratch, own>>

Shape == [kind : {"full", "lfe", "coupling"}, start : Nat, end : Nat]

NoChannel == [kind |-> "lfe", start |-> 0, end |-> lfeMants]

Channels ==
  {[kind |-> "full", start |-> 0, end |-> e] : e \in FullEnds}
    \union {[kind |-> "coupling", start |-> r[1], end |-> r[2]] : r \in CouplingRanges}
    \union {NoChannel}

AllocInit ==
  /\ astate = "idle" /\ channel = NoChannel
  /\ from = 0 /\ coded = 0 /\ widened = FALSE
  /\ band = 0 /\ bin = 0 /\ allocated = 0 /\ segs = 0
  /\ powered = {} /\ excited = {} /\ masked = {}
  /\ own = TRUE

Smaller(a, b) == IF a < b THEN a ELSE b

(* The exponents: groups of three, each of which covers some bins.         *)

fbwExpGroups(strategy, end) ==
  CASE strategy = "D15" -> (end - 1) \div 3
    [] strategy = "D25" -> (end - 1 + 3) \div 6
    [] strategy = "D45" -> (end - 1 + 9) \div 12

cplExpGroups(strategy, start, end) ==
  (end - start) \div (3 * expGroupSize[strategy])

lfeExpGroups == 2

(* One past the last bin a set covers: a full bandwidth channel's leading  *)
(* exponent is that of bin 0, the coupling channel's is of none.           *)
ExponentsReach(c, strategy) ==
  CASE c.kind = "full" ->
         1 + fbwExpGroups(strategy, c.end) * 3 * expGroupSize[strategy]
    [] c.kind = "lfe" -> 1 + lfeExpGroups * 3
    [] c.kind = "coupling" ->
         c.start + cplExpGroups(strategy, c.start, c.end)
                   * 3 * expGroupSize[strategy]

(* What a set may be sent by.                                              *)
MaySend(c) == IF c.kind = "lfe" THEN {"D15"} ELSE Strategies

(* decodeExponents refuses a group, or a chain that leaves its range, or   *)
(* takes them all; a buffer they would not fit is refused before.          *)
DecodeExponents ==
  /\ astate = "idle"
  /\ channel' \in Channels
  /\ \E strategy \in MaySend(channel') :
       /\ \/ ExponentsReach(channel', strategy) > MaxCoefs /\ astate' = "refused"
          \/ ExponentsReach(channel', strategy) <= MaxCoefs
               /\ astate' \in {"compute", "refused"}
       /\ coded' = ExponentsReach(channel', strategy)
  /\ from' = channel'.start /\ widened' = FALSE
  /\ UNCHANGED <<cursors, scratch, own>>

(* ExpReuse: the set of an earlier block, or of a frame before, stays in   *)
(* force, whatever range it was sent for and whatever the channel has come *)
(* to since - or there is none, or a failed frame left half of one.        *)
ReuseExponents ==
  /\ astate = "idle" /\ astate' = "compute"
  /\ channel' \in Channels
  /\ \/ \E before \in Channels : \E strategy \in MaySend(before) :
          /\ before.kind = channel'.kind
          /\ ExponentsReach(before, strategy) <= MaxCoefs
          /\ from' = before.start /\ coded' = ExponentsReach(before, strategy)
          /\ widened' = (channel'.start < before.start \/ channel'.end > before.end)
     \/ from' = 0 /\ coded' = 0 /\ widened' = TRUE
  /\ UNCHANGED <<cursors, scratch, own>>

bndstrt == masktab[channel.start]
bndend  == masktab[channel.end - 1] + 1
isLFE   == bndend = lfeBands

(* compute: the psd of every bin, which stands for the exponents from here *)
(* on, then the walk.                                                      *)
StartWalk ==
  /\ astate = "compute" /\ channel.start < channel.end /\ channel.end <= Top
  /\ astate' = "integrate"
  /\ from' = 0 /\ coded' = 0 /\ widened' = FALSE
  /\ band' = bndstrt /\ bin' = channel.start
  /\ UNCHANGED <<channel, allocated, segs, scratch, own>>

lastbin == Smaller(bndtab[band] + bndsz[band], channel.end)

(* integrate: one band of the loop.                                        *)
Integrate ==
  /\ astate = "integrate"
  /\ powered' = powered \union {band}
  /\ bin' = lastbin
  /\ IF channel.end <= lastbin \/ band + 1 >= nBands
     THEN /\ astate' = IF channel.kind = "coupling" THEN "spread" ELSE "low"
          /\ band' = IF channel.kind = "coupling" THEN bndstrt ELSE 0
     ELSE UNCHANGED astate /\ band' = band + 1
  /\ UNCHANGED <<channel, expset, allocated, segs, excited, masked, own>>

(* A fault: the guard for the LFE channel is not there.                    *)
ComparesAlways(b) == {b, b + 1}

(* What calcLowcomp compares: a band and the one above it, which the LFE   *)
(* channel does not have at its last.                                      *)
Compares(b) == IF isLFE /\ b = lfeBands - 1 THEN {b} ELSE {b, b + 1}

(* excitation: the lowest bands one by one, until one is no louder than    *)
(* the band above it; the first two whatever they are.                     *)
ExciteLow ==
  /\ astate = "low"
  /\ own' = (own /\ Compares(band) \subseteq powered)
  /\ excited' = excited \union {band}
  /\ band' = band + 1
  /\ \/ band + 1 < 7 /\ UNCHANGED astate
     \/ band >= 2 /\ band + 1 \in Compares(band) /\ astate' = "middle"
     \/ band + 1 = 7 /\ astate' = "middle"
  /\ UNCHANGED <<channel, expset, bin, allocated, segs, powered, masked>>

ExciteMiddle ==
  /\ astate = "middle" /\ band < Smaller(bndend, lowBands)
  /\ own' = (own /\ Compares(band) \subseteq powered)
  /\ excited' = excited \union {band}
  /\ band' = band + 1
  /\ UNCHANGED <<astate, channel, expset, bin, allocated, segs, powered, masked>>

EndMiddle ==
  /\ astate = "middle" /\ band >= Smaller(bndend, lowBands)
  /\ astate' = "spread" /\ band' = lowBands
  /\ UNCHANGED <<channel, expset, bin, allocated, segs, scratch, own>>

Spread ==
  /\ astate = "spread" /\ band < bndend
  /\ own' = (own /\ band \in powered)
  /\ excited' = excited \union {band}
  /\ band' = band + 1
  /\ UNCHANGED <<astate, channel, expset, bin, allocated, segs, powered, masked>>

EndSpread ==
  /\ astate = "spread" /\ band >= bndend
  /\ astate' = "mask" /\ band' = bndstrt
  /\ UNCHANGED <<channel, expset, bin, allocated, segs, scratch, own>>

Mask ==
  /\ astate = "mask" /\ band < bndend
  /\ own' = (own /\ band \in powered /\ band \in excited)
  /\ masked' = masked \union {band}
  /\ band' = band + 1
  /\ UNCHANGED <<astate, channel, expset, bin, allocated, segs, powered, excited>>

dbaMaxSegs == 8

EndMask ==
  /\ astate = "mask" /\ band >= bndend
  /\ astate' = "delta" /\ band' = bndstrt
  /\ segs' \in 0 .. dbaMaxSegs
  /\ channel.kind = "lfe" => segs' = 0
  /\ UNCHANGED <<channel, expset, bin, allocated, scratch, own>>

(* A fault: a segment may begin and end past the last band.                *)
LeavesLoosely(first, len) == first > nBands \/ len > nBands + 1 - first

(* A segment that leaves the bands.                                        *)
Leaves(first, len) == first >= nBands \/ len > nBands - first

(* applyDelta: a segment moves the mask of some bands and the cursor with  *)
(* them; one that leaves the bands refuses the block.                      *)
Delta ==
  /\ astate = "delta" /\ segs > 0
  /\ \E seg \in Segments :
       LET first == band + seg[1]  len == seg[2]
       IN IF Leaves(first, len)
          THEN astate' = "refused" /\ UNCHANGED <<band, segs>>
          ELSE UNCHANGED astate /\ band' = first + len /\ segs' = segs - 1
  /\ UNCHANGED <<channel, expset, bin, allocated, scratch, own>>

EndDelta ==
  /\ astate = "delta" /\ segs = 0
  /\ astate' = "allocate" /\ band' = bndstrt /\ bin' = channel.start
  /\ allocated' = channel.start
  /\ UNCHANGED <<channel, expset, segs, scratch, own>>

(* The pointers of one band's bins, out of its mask and their psd.         *)
Allocate ==
  /\ astate = "allocate"
  /\ own' = (own /\ band \in masked)
  /\ bin' = lastbin /\ allocated' = lastbin
  /\ IF channel.end <= lastbin \/ band + 1 >= nBands
     THEN astate' = "allocated" /\ UNCHANGED band
     ELSE band' = band + 1 /\ UNCHANGED astate
  /\ UNCHANGED <<channel, expset, segs, scratch>>

(* The next channel finds the scratch full of this one's values.           *)
EndOfChannel ==
  /\ astate \in {"allocated", "refused"}
  /\ astate' = "idle" /\ channel' = NoChannel
  /\ from' = 0 /\ coded' = 0 /\ widened' = FALSE
  /\ band' = 0 /\ bin' = 0 /\ allocated' = 0 /\ segs' = 0
  /\ powered' = {} /\ excited' = {} /\ masked' = {} /\ own' = TRUE

AllocNext ==
  \/ DecodeExponents \/ ReuseExponents \/ StartWalk \/ Integrate
  \/ ExciteLow \/ ExciteMiddle \/ EndMiddle \/ Spread \/ EndSpread
  \/ Mask \/ EndMask \/ Delta \/ EndDelta \/ Allocate \/ EndOfChannel

AllocSpec == AllocInit /\ [][AllocNext]_allocVars

-----------------------------------------------------------------------------
(* Properties.                                                             *)

(* Types, and the bounds every array is indexed within: a band cursor in   *)
(* use names a band, the bins it stands for lie below the top, and the     *)
(* exponents end inside their array unless they were refused.              *)
AllocTypeOK ==
  /\ astate \in {"idle", "compute", "integrate", "low", "middle", "spread",
                 "mask", "delta", "allocate", "allocated", "refused"}
  /\ channel \in Channels
  /\ from \in Nat /\ coded \in Nat /\ (astate # "refused" => coded <= MaxCoefs)
  /\ band \in 0 .. nBands
  /\ bin \in 0 .. Top /\ allocated \in 0 .. Top
  /\ segs \in 0 .. dbaMaxSegs /\ own \in BOOLEAN /\ widened \in BOOLEAN
  /\ powered \subseteq AllBands /\ excited \subseteq AllBands
  /\ masked \subseteq AllBands

(* Nothing an earlier channel left in the scratch is ever used: not its    *)
(* power, not its excitation, not its mask.  And the psd is computed from  *)
(* exponents of the channel's own set, sent or reused, in every bin, as    *)
(* long as the range allocated lies in the one the set was sent for; a     *)
(* range that audblk.go:725-734 has widened since is allocated past the end*)
(* of the set all the same.                                                *)
OnlyOwnLevels ==
  /\ own
  /\ astate = "compute" /\ ~widened => from <= channel.start /\ channel.end <= coded

(* A channel that comes through has a pointer in every bin it codes, each  *)
(* out of the mask of the band the bin belongs to.                         *)
EveryBinIsAllocated ==
  /\ astate = "allocated" => allocated = channel.end
  /\ astate = "allocate" /\ bin < channel.end => masktab[bin] = band

=============================================================================
