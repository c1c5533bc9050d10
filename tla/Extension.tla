------------------------------ MODULE Extension ------------------------------
(***************************************************************************)
(* The copy of the spectral extension (src/ac3/spx.go): the bands a        *)
(* strategy states, and how a source shorter than the extension is copied  *)
(* over it again and again, in sections that begin where a band would run  *)
(* over the source's end.                                                  *)
(***************************************************************************)
EXTENDS Integers, Sequences, FiniteSets, FiniteSetsExt

CONSTANTS
  StartCodes, BeginCodes, EndCodes,   \* what spxstrtf, spxbegf, spxendf may be
  spxMaxBands, spxSubbandBins, spxBandBase

BeginSubbnd(spxbegf) == IF spxbegf >= 6 THEN spxbegf * 2 - 3 ELSE spxbegf + 2
EndSubbnd(spxendf) == IF spxendf >= 3 THEN spxendf * 2 + 3 ELSE spxendf + 5

(* The table of bands is numbered by sub-band, and as long as the grid.    *)
ASSUME CodesAssumption ==
  /\ StartCodes \subseteq 0 .. 3
  /\ BeginCodes \subseteq 0 .. 7 /\ EndCodes \subseteq 0 .. 7
  /\ spxMaxBands \in Nat /\ spxMaxBands >= EndSubbnd(7)
  /\ spxSubbandBins \in Nat \ {0} /\ spxBandBase \in Nat

VARIABLES
  xstate,                             \* where the block is
  spxdststrtmant, spxstrtmant, spxendmant,  \* the source, and the extension
  spxbndsz,                           \* the widths of its bands
  bnd, copied, at,                    \* the cursors: band, bins of it copied,
                                      \* bins of the source behind
  spxCopySize, spxwrap                \* the sections, and where they begin

spxStrategy == <<spxdststrtmant, spxstrtmant, spxendmant, spxbndsz>>
spxVars  == <<xstate, spxStrategy, bnd, copied, at, spxCopySize, spxwrap>>

spxMaxCopySections == 2 * spxMaxBands + 1

SpxInit ==
  /\ xstate = "idle"
  /\ spxdststrtmant = 0 /\ spxstrtmant = 0 /\ spxendmant = 0
  /\ spxbndsz = <<>>
  /\ bnd = 0 /\ copied = 0 /\ at = 0
  /\ spxCopySize = <<>> /\ spxwrap = {}

BinOf(subbnd) == subbnd * spxSubbandBins + spxBandBase

(* A fault: a source may begin where the extension does.                   *)
RefusedLoosely(start, begin, end) == begin >= end \/ start > begin

(* An empty extension, and one that does not lie above its source.         *)
RefusedRange(start, begin, end) == begin >= end \/ start >= begin

(* A band begins at every sub-band that is not joined to the one before.   *)
BandsOf(joined, first, end) ==
  LET opens == {s \in first .. end - 1 : s = first \/ s \notin joined}
      Width(s) == (Min({t \in opens \union {end} : t > s}) - s) * spxSubbandBins
      Nth(b) == CHOOSE s \in opens : Cardinality({t \in opens : t < s}) = b - 1
  IN [b \in 1 .. Cardinality(opens) |-> Width(Nth(b))]

(* readSpxStrategy: the range, and the bands, stated or kept or set to the *)
(* default: any set of sub-bands may be joined.                            *)
ReadSpxStrategy ==
  /\ xstate = "idle"
  /\ \E s \in StartCodes, b \in BeginCodes, e \in EndCodes :
       LET begin == BeginSubbnd(b)  end == EndSubbnd(e)
       IN /\ spxdststrtmant' = BinOf(s)
          /\ spxstrtmant' = BinOf(begin) /\ spxendmant' = BinOf(end)
          /\ IF RefusedRange(s, begin, end)
             THEN xstate' = "refused" /\ UNCHANGED spxbndsz
             ELSE /\ xstate' = "band"
                  /\ \E joined \in SUBSET (begin + 1 .. end - 1) :
                       spxbndsz' = BandsOf(joined, begin, end)
  /\ UNCHANGED <<bnd, copied, at, spxCopySize, spxwrap>>

src == spxstrtmant - spxdststrtmant

(* A fault: a band straddles the end of the source.                        *)
Straddles(size) == at >= src

(* A band that does not fit in what is left of the source.                 *)
RunsOver(size) == at + size > src

(* mapSpxCopy: a section ends where the copy is.                           *)
EndSection == spxCopySize' = Append(spxCopySize, at)

StartBand ==
  /\ xstate = "band" /\ bnd < Len(spxbndsz)
  /\ LET wraps == RunsOver(spxbndsz[bnd + 1])
     IN /\ IF wraps THEN EndSection /\ at' = 0 ELSE UNCHANGED <<spxCopySize, at>>
        /\ spxwrap' = IF wraps \/ bnd = 0 THEN spxwrap \union {bnd} ELSE spxwrap
  /\ copied' = 0 /\ xstate' = "copy"
  /\ UNCHANGED <<spxStrategy, bnd>>

(* One turn of the inner loop.                                             *)
CopyPart ==
  /\ xstate = "copy" /\ copied < spxbndsz[bnd + 1]
  /\ LET from == IF at = src THEN 0 ELSE at
         part == Min({spxbndsz[bnd + 1] - copied, src - from})
     IN at' = from + part /\ copied' = copied + part
  /\ IF at = src THEN EndSection ELSE UNCHANGED spxCopySize
  /\ UNCHANGED <<xstate, spxStrategy, bnd, spxwrap>>

EndBand ==
  /\ xstate = "copy" /\ copied = spxbndsz[bnd + 1]
  /\ xstate' = "band" /\ bnd' = bnd + 1
  /\ UNCHANGED <<spxStrategy, copied, at, spxCopySize, spxwrap>>

LastSection ==
  /\ xstate = "band" /\ bnd = Len(spxbndsz)
  /\ EndSection /\ xstate' = "mapped"
  /\ UNCHANGED <<spxStrategy, bnd, copied, at, spxwrap>>

NextStrategy ==
  /\ xstate \in {"mapped", "refused"}
  /\ xstate' = "idle"
  /\ spxdststrtmant' = 0 /\ spxstrtmant' = 0 /\ spxendmant' = 0 /\ spxbndsz' = <<>>
  /\ bnd' = 0 /\ copied' = 0 /\ at' = 0
  /\ spxCopySize' = <<>> /\ spxwrap' = {}

SpxNext ==
  ReadSpxStrategy \/ StartBand \/ CopyPart \/ EndBand \/ LastSection \/ NextStrategy

SpxSpec == SpxInit /\ [][SpxNext]_spxVars

-----------------------------------------------------------------------------
(* What applySpx makes of the sections: each is copied from the source's   *)
(* beginning, one behind the other.                                        *)

Upto(widths, k) ==
  LET sum[n \in 0 .. k] == IF n = 0 THEN 0 ELSE sum[n - 1] + widths[n]
  IN  sum[k]

(* Where in the extension the copy takes up the source anew.               *)
Restarts == {Upto(spxCopySize, k) : k \in 0 .. Len(spxCopySize) - 1}

BandStart(b) == Upto(spxbndsz, b)     \* from the extension's first bin

-----------------------------------------------------------------------------
(* Properties.                                                             *)

(* The sections fill the extension to the bin, whatever its bands; none    *)
(* reaches past its source into what the copy itself has written; and      *)
(* their array holds them.                                                 *)
CopyFillsTheExtension ==
  /\ Len(spxCopySize) <= spxMaxCopySections
  /\ \A m \in 1 .. Len(spxCopySize) : spxCopySize[m] <= src
  /\ xstate = "mapped" =>
       /\ spxendmant <= BinOf(spxMaxBands)
       /\ Upto(spxCopySize, Len(spxCopySize)) = spxendmant - spxstrtmant

(* The notch is applied exactly where a band begins and the copy restarts, *)
(* and a band the source is long enough for is copied in one piece.        *)
BandsAreWhole ==
  xstate = "mapped" =>
    \A b \in 0 .. Len(spxbndsz) - 1 :
      /\ b \in spxwrap <=> BandStart(b) \in Restarts
      /\ spxbndsz[b + 1] <= src =>
           Restarts \intersect (BandStart(b) + 1 .. BandStart(b + 1) - 1) = {}

=============================================================================
