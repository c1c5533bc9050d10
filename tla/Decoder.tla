------------------------------- MODULE Decoder ------------------------------
(***************************************************************************)
(* The life of a Decoder over the access units it is handed                *)
(* (src/ac3/audblk.go, eac3_71.go, downmix.go, dialnorm.go, imdct.go):     *)
(* whose samples its planes hold, whose tail each channel was overlapped   *)
(* with, how far an access unit reaches, and which header the cached gains *)
(* were computed for.                                                      *)
(*                                                                         *)
(* Samples are abstracted to whether the last call of DecodeFrame wrote    *)
(* them.  A buffer is a sequence of frames, so that lengths count frames;  *)
(* only the last frame of a buffer may be cut short.  How blocks are read  *)
(* is the matter of AudioBlocks: here a frame says how many of them decode.*)
(***************************************************************************)
EXTENDS Integers, Sequences, FiniteSets

CONSTANTS
  Buffers,      \* what DecodeFrame may be handed
  Modes,        \* the layouts frames code
  NumChannels,  \* how many channels each has
  Levels,       \* the mix levels and dialogue levels headers state
  Targets,      \* the target levels callers ask for
  Widths,       \* the downmixes they ask for: none, one channel or two
  MaxBlocks     \* six

Strmtyps == {"ac3", "independent", "dependent", "convert"}

(* A frame: its syncinfo, how much of its header is there, the layout, and *)
(* how its audio decodes: `good' of its blocks, and all of them `fits'.    *)
Frame ==
  [strmtyp : Strmtyps, substreamid : {0, 1}, halfRate : BOOLEAN,
   head : {"none", "syncinfo", "whole"}, whole : BOOLEAN,
   mode : Modes, chanmap71 : BOOLEAN, mixlev : Levels, dialnorm : Levels,
   blocks : 1 .. MaxBlocks, good : 0 .. MaxBlocks, fits : BOOLEAN]

Off == 0                          \* targetLevelOff, and no downmix

ASSUME BuffersAssumption ==
  /\ MaxBlocks \in Nat \ {0}
  /\ {"1+1", "stereo", "2/2", "5.1"} \subseteq Modes
  /\ NumChannels \in [Modes -> 1 .. 6]
  /\ NumChannels["5.1"] = 6 /\ NumChannels["2/2"] = 4 /\ NumChannels["stereo"] = 2
  /\ Levels # {} /\ Off \notin Targets
  /\ Off \in Widths /\ Widths \subseteq {Off, 1, 2}
  /\ Buffers \subseteq Seq(Frame)
  /\ \A b \in Buffers :
       /\ b # <<>>
       /\ \A i \in 1 .. Len(b) : b[i].good <= b[i].blocks
       /\ \A i \in 1 .. Len(b) - 1 : b[i].whole

VARIABLES
  h,                    \* the header of the frame last parsed
  core, dep,            \* the filter banks of the decoder and of d.dep
  dmix,                 \* how many blocks of the mixed planes it wrote
  output71, coded71, depSkipped, auSize, nsamp,
  dmixChannels, dmixFor, dmixCoeffs,
  targetLevel, levelGainsFor, levelGains,
  outcome,              \* why the last DecodeFrame failed, or "ok"
  buffer,               \* history: what it was handed
  used,                 \* history: the options it decoded with
  last, before          \* history: what the last call left, and the one before

told    == <<output71, coded71, depSkipped, auSize, nsamp>>
asked   == <<dmixChannels, targetLevel>>
cached  == <<dmixFor, dmixCoeffs, levelGainsFor, levelGains>>
history == <<buffer, used, before>>
vars    == <<h, core, dep, dmix, told, asked, cached, outcome, history, last>>

Channels == 0 .. 5
Blocks == 0 .. MaxBlocks - 1
Coded(f) == 0 .. NumChannels[f.mode] - 1

-----------------------------------------------------------------------------
(* Filter banks: the tail each channel holds for its next block, how many *)
(* blocks of its plane the last call wrote, and (history) the tail that    *)
(* call began from.  A tail is fresh when the last call left it.           *)

Tails == {"none", "fresh", "stale"}

Bank == [delay : [Channels -> Tails], wrote : [Channels -> 0 .. MaxBlocks],
         overlap : [Channels -> Tails]]

Silence == [c \in Channels |-> "none"]
Silent == [delay |-> Silence, wrote |-> [c \in Channels |-> 0], overlap |-> Silence]

Aged(tail) == IF tail = "fresh" THEN "stale" ELSE tail

(* What a call leaves of a bank when it synthesizes n[c] blocks of each    *)
(* channel: the first of them is overlapped with the tail that was there.  *)
Synthesized(bank, n) ==
  [delay |-> [c \in Channels |-> IF n[c] > 0 THEN "fresh" ELSE Aged(bank.delay[c])],
   wrote |-> n,
   overlap |-> [c \in Channels |-> IF n[c] > 0 THEN bank.delay[c] ELSE "none"]]

(* A bank a call leaves alone.                                             *)
Idle(bank) == Synthesized(bank, [c \in Channels |-> 0])

(* A fault: the filter bank is started anew for every frame.               *)
SynthesizeCold(bank, f) ==
  Synthesized(Silent, [c \in Channels |-> IF c \in Coded(f) THEN f.good ELSE 0])

(* The blocks of f that decode, each overlapped with the one before it.    *)
Synthesize(bank, f) ==
  Synthesized(bank, [c \in Channels |-> IF c \in Coded(f) THEN f.good ELSE 0])

-----------------------------------------------------------------------------
(* Options, and what is cached for them.                                   *)

(* downmixing: a stereo frame asked for stereo is left alone.              *)
Mixing(f, width) == width # Off /\ ~(width = 2 /\ f.mode = "stereo")
downmixing == Mixing(h, dmixChannels)

NoKey == <<>>

(* A fault: the key lacks the levels.                                      *)
MixKeyOfMode(f, width) == <<f.mode, width>>

(* What setDownmixCoeffs depends on, and the key that is to stand for it:  *)
(* the levels are codes, and what a code means depends on the syntax.      *)
MixFor(f, width) == [enhanced |-> f.strmtyp # "ac3", mode |-> f.mode,
                     mixlev |-> f.mixlev, width |-> width]
MixKey(f, width) == <<f.mode, f.mixlev, width>>

LevelFor(f, target) == [target |-> target, dialnorm |-> f.dialnorm]
LevelKey(f) == <<f.dialnorm>>

(* The zero Header: an AC-3 header of two programmes.                      *)
NoHeader ==
  [strmtyp |-> "ac3", substreamid |-> 0, halfRate |-> FALSE, head |-> "none",
   whole |-> FALSE, mode |-> "1+1", chanmap71 |-> FALSE,
   mixlev |-> CHOOSE l \in Levels : TRUE, dialnorm |-> CHOOSE l \in Levels : TRUE,
   blocks |-> MaxBlocks, good |-> 0, fits |-> FALSE]

Unmixed == [p \in {0, 1} |-> 0]

(* What a call leaves behind for the next: only one that decoded leaves a  *)
(* frame to speak of.                                                      *)
Left(how) == [how |-> how, mode |-> "1+1", merged |-> FALSE]

Init ==
  /\ h = NoHeader /\ outcome = "none"
  /\ core = Silent /\ dep = Silent /\ dmix = Unmixed
  /\ output71 = FALSE /\ coded71 = FALSE /\ depSkipped = FALSE
  /\ auSize = 0 /\ nsamp = MaxBlocks
  /\ dmixChannels = Off /\ dmixFor = NoKey /\ dmixCoeffs = MixFor(NoHeader, Off)
  /\ targetLevel = Off /\ levelGainsFor = NoKey
  /\ levelGains = LevelFor(NoHeader, Off)
  /\ buffer = <<>>
  /\ used = [target |-> Off, width |-> Off]
  /\ last = Left("fresh") /\ before = Left("fresh")

SetDownmix(width) ==
  /\ dmixChannels' = width /\ dmixFor' = NoKey
  /\ UNCHANGED <<h, core, dep, dmix, told, targetLevel, dmixCoeffs,
                 levelGainsFor, levelGains, outcome, history, last>>

(* A fault: a new target finds the gains of the old one.                   *)
NewLevelKeyKept == levelGainsFor

(* What SetTargetLevel leaves of the key.                                  *)
NewLevelKey == NoKey

SetTargetLevel(target) ==
  /\ targetLevel' = target /\ levelGainsFor' = NewLevelKey
  /\ UNCHANGED <<h, core, dep, dmix, told, dmixChannels, dmixFor, dmixCoeffs,
                 levelGains, outcome, history, last>>

(* Reset drops the carry over of the decoder's own filter bank.            *)
Reset ==
  /\ core' = [core EXCEPT !.delay = Silence]
  /\ last' = Left("reset")
  /\ UNCHANGED <<h, dep, dmix, told, asked, cached, outcome, history>>

(* updateLevelGains and updateDownmix, for the header just parsed.         *)
UpdateLevelGains ==
  IF targetLevel = Off
  THEN levelGains' = LevelFor(NoHeader, Off) /\ UNCHANGED levelGainsFor
  ELSE IF levelGainsFor = LevelKey(h')
  THEN UNCHANGED <<levelGains, levelGainsFor>>
  ELSE levelGains' = LevelFor(h', targetLevel) /\ levelGainsFor' = LevelKey(h')

UpdateDownmix ==
  IF ~Mixing(h', dmixChannels) \/ dmixFor = MixKey(h', dmixChannels)
  THEN UNCHANGED <<dmixCoeffs, dmixFor>>
  ELSE dmixCoeffs' = MixFor(h', dmixChannels) /\ dmixFor' = MixKey(h', dmixChannels)

-----------------------------------------------------------------------------
(* DecodeFrame.                                                            *)

(* What every call does; what each outcome of it does to the rest follows. *)
Handed(b) ==
  /\ b \in Buffers
  /\ UNCHANGED asked

Fails(how) ==
  /\ outcome' = how
  /\ last' = Left("failed") /\ before' = Left("failed")
  /\ buffer' = <<>> /\ UNCHANGED used

IdleBanks ==
  /\ core' = Idle(core) /\ dep' = Idle(dep)
  /\ dmix' = Unmixed

(* The header is not one, or not all there, or the frame is not: nothing   *)
(* is decoded, and the size and length of the last frame still stand.  (A  *)
(* header left half read is taken whole, and what a rejected syncinfo      *)
(* leaves is left out: no property asks before the next call.)             *)
RefuseHeader(b) ==
  /\ b[1].head # "whole" \/ ~b[1].whole
  /\ Handed(b)
  /\ h' = IF b[1].head = "none" THEN h ELSE b[1]
  /\ Fails(IF b[1].head = "none" /\ b[1].whole THEN "header" ELSE "truncated")
  /\ output71' = FALSE /\ coded71' = FALSE /\ depSkipped' = FALSE
  /\ IdleBanks
  /\ UNCHANGED <<auSize, nsamp, cached>>

(* A fault: a frame is as long as the longest.                             *)
LengthOfAny(f) == MaxBlocks

(* How many blocks of every plane hold samples.                            *)
Length(f) == f.blocks

(* From there on the frame is the decoder's.                               *)
Entered(b) ==
  /\ b[1].head = "whole" /\ b[1].whole
  /\ Handed(b)
  /\ h' = b[1] /\ nsamp' = Length(b[1])
  /\ UpdateLevelGains /\ UpdateDownmix

Unsupported(f) == f.strmtyp # "ac3" /\ (f.substreamid # 0 \/ f.halfRate)
Sound(f) == f.good = f.blocks /\ f.fits

RefuseUnsupported(b) ==
  /\ Unsupported(b[1])
  /\ Entered(b)
  /\ Fails(IF b[1].substreamid # 0 THEN "substream" ELSE "reducedRate")
  /\ output71' = FALSE /\ coded71' = FALSE /\ depSkipped' = FALSE /\ auSize' = 1
  /\ IdleBanks

(* A block fails after the ones before it were synthesized, or they all    *)
(* decode and turn out to run past the frame's end.                        *)
FailBlock(b) ==
  /\ ~Unsupported(b[1]) /\ ~Sound(b[1])
  /\ Entered(b)
  /\ Fails(IF b[1].good < b[1].blocks THEN "block" ELSE "overrun")
  /\ output71' = FALSE /\ coded71' = FALSE /\ depSkipped' = FALSE /\ auSize' = 1
  /\ core' = Synthesize(core, b[1]) /\ dep' = Idle(dep)
  /\ dmix' = Unmixed

(* The frame decodes, and is mixed down if it is to be.                    *)
DecodesCore(b) ==
  /\ ~Unsupported(b[1]) /\ Sound(b[1])
  /\ Entered(b)
  /\ core' = Synthesize(core, b[1])
  /\ dmix' = [p \in {0, 1} |->
                IF Mixing(b[1], dmixChannels) /\ p < dmixChannels
                THEN b[1].blocks ELSE 0]

AdvancesTime(f) ==
  f.strmtyp = "ac3" \/ (f.strmtyp # "dependent" /\ f.substreamid = 0)

(* A fault: whatever follows is part of the unit.                          *)
AttachedWhatever(g) == g.head # "none" /\ g.whole

(* A fault: a substream cut short is stepped over like a whole one.        *)
AttachedCut(g) == g.head # "none" /\ ~AdvancesTime(g)

(* A frame spanSubstreams steps over.                                      *)
Attached(g) == g.head # "none" /\ g.whole /\ ~AdvancesTime(g)

(* How far the unit reaches that its first `from' frames begin.            *)
Span(b, from) ==
  CHOOSE n \in from .. Len(b) :
    /\ \A i \in from + 1 .. n : Attached(b[i])
    /\ n = Len(b) \/ ~Attached(b[n + 1])

(* spanSubstreams, and the end of a call that decoded.                     *)
Spans(b, from, skipped) ==
  /\ auSize' = IF b[1].strmtyp = "dependent" THEN from ELSE Span(b, from)
  /\ depSkipped' = (skipped \/ \E i \in from + 1 .. auSize' :
                                  b[i].strmtyp = "dependent")
  /\ outcome' = "ok"
  /\ buffer' = b /\ before' = last
  /\ last' = [how |-> "ok", mode |-> b[1].mode, merged |-> output71']
  /\ used' = [target |-> targetLevel, width |-> dmixChannels]

(* The dependent substream decodeDependent71 looks for behind the frame.   *)
Extended(b) ==
  /\ b[1].strmtyp \in {"ac3", "independent"}
  /\ Len(b) > 1
  /\ b[2].head = "whole" /\ b[2].whole
  /\ b[2].strmtyp = "dependent" /\ b[2].substreamid = 0

is71Extension(b) == b[1].mode = "5.1" /\ b[2].chanmap71

DecodeAlone(b) ==
  /\ ~Extended(b) /\ DecodesCore(b)
  /\ output71' = FALSE /\ coded71' = FALSE
  /\ dep' = Idle(dep)
  /\ Spans(b, 1, FALSE)

(* An extension of another kind, or one a downmix has no use for.          *)
StepOver(b) ==
  /\ Extended(b)
  /\ ~is71Extension(b) \/ Mixing(b[1], dmixChannels)
  /\ DecodesCore(b)
  /\ output71' = FALSE /\ coded71' = is71Extension(b)
  /\ dep' = Idle(dep)
  /\ Spans(b, 2, TRUE)

Merges(b) ==
  Extended(b) /\ is71Extension(b) /\ ~Mixing(b[1], dmixChannels) /\ DecodesCore(b)

(* A fault: a substream decoded and then dropped is not counted.           *)
DroppedUnnoticed(b) == FALSE

(* What decodes must code the four channels it is to bring.                *)
Dropped(b) == NumChannels[b[2].mode] # 4

DecodeDependent71(b) ==
  /\ Merges(b) /\ Sound(b[2]) /\ ~b[2].halfRate
  /\ dep' = Synthesize(dep, b[2])
  /\ coded71' = (NumChannels[b[2].mode] = 4) /\ output71' = coded71'
  /\ Spans(b, 2, Dropped(b))

FailDependent(b) ==
  /\ Merges(b) /\ ~(Sound(b[2]) /\ ~b[2].halfRate)
  /\ dep' = IF b[2].halfRate THEN Idle(dep) ELSE Synthesize(dep, b[2])
  /\ coded71' = TRUE /\ output71' = FALSE /\ depSkipped' = FALSE /\ auSize' = 2
  /\ Fails("dependent")

DecodeFrame(b) ==
  \/ RefuseHeader(b) \/ RefuseUnsupported(b) \/ FailBlock(b)
  \/ DecodeAlone(b) \/ StepOver(b) \/ DecodeDependent71(b) \/ FailDependent(b)

Next ==
  \/ \E b \in Buffers : DecodeFrame(b)
  \/ \E width \in Widths : SetDownmix(width)
  \/ \E target \in Targets \union {Off} : SetTargetLevel(target)
  \/ Reset

Spec == Init /\ [][Next]_vars

-----------------------------------------------------------------------------
(* What Samples hands back.                                                *)

(* samples71: the core without its surrounds, and the dependent's four.    *)
Core71 == {0, 1, 2, 5}
Sides  == 0 .. 3
CorePlanes == IF output71 THEN Core71 ELSE Coded(h)

(* How many blocks the last call wrote of each plane handed back.          *)
Samples ==
  IF output71
  THEN {core.wrote[c] : c \in Core71} \union {dep.wrote[c] : c \in Sides}
  ELSE IF downmixing THEN {dmix[p] : p \in 0 .. dmixChannels - 1}
  ELSE {core.wrote[c] : c \in Coded(h)}

Overlaps(bank, planes) == {bank.overlap[c] : c \in planes}

-----------------------------------------------------------------------------
(* Properties.                                                             *)

(* Types, and the promise every caller slices by: an access unit ends      *)
(* inside the buffer it was decoded from (eac3_71.go:58-60).               *)
TypeOK ==
  /\ h \in Frame /\ core \in Bank /\ dep \in Bank
  /\ dmix \in [{0, 1} -> 0 .. MaxBlocks]
  /\ output71 \in BOOLEAN /\ coded71 \in BOOLEAN /\ depSkipped \in BOOLEAN
  /\ auSize \in Nat /\ nsamp \in 1 .. MaxBlocks
  /\ dmixChannels \in Widths /\ targetLevel \in Targets \union {Off}
  /\ outcome \in {"none", "ok", "header", "truncated", "substream",
                  "reducedRate", "block", "overrun", "dependent"}
  /\ outcome = "ok" =>
       auSize \in 1 .. Len(buffer) /\ \A i \in 1 .. auSize : buffer[i].whole

(* The frame reader's idea of an access unit in the buffer: a frame that   *)
(* advances time and the frames behind it that do not.                     *)
IsUnit(b, n) ==
  /\ AdvancesTime(b[1])
  /\ \A i \in 2 .. n : ~AdvancesTime(b[i])
  /\ n = Len(b) \/ AdvancesTime(b[n + 1])

(* Handed a stream of whole frames, the decoder steps over exactly the     *)
(* access unit NextAccessUnit would have cut: a caller that advances by    *)
(* AccessUnitSize meets every programme frame, and none but those.         *)
SpanIsTheUnit ==
  outcome = "ok" /\ AdvancesTime(h)
    /\ (\A i \in 1 .. Len(buffer) : buffer[i].whole /\ buffer[i].head = "whole")
    => IsUnit(buffer, auSize)

(* What DependentSkipped counts: a unit holds a dependent substream that   *)
(* was not merged exactly when it is said to have been stepped over, and   *)
(* a merged one is the second frame.                                       *)
NoDependentGoesUnnoticed ==
  outcome = "ok" /\ AdvancesTime(h) =>
    (depSkipped <=> \E i \in 2 .. auSize : /\ buffer[i].strmtyp = "dependent"
                                           /\ ~(i = 2 /\ output71))

(* A frame is overlapped with the frame before it, channel by channel,     *)
(* when that one decoded and coded the same layout - the side and back     *)
(* channels with theirs when both were merged - and with silence when      *)
(* there is none; Reset makes it so for the frame's own channels.          *)
OverlapsTheFrameBefore ==
  outcome = "ok" =>
    /\ before.how = "fresh" => Overlaps(core, CorePlanes) = {"none"}
    /\ before.how = "reset" => Overlaps(core, CorePlanes) = {"none"}
    /\ before.how = "ok" /\ before.mode = h.mode =>
         /\ Overlaps(core, CorePlanes) = {"fresh"}
         /\ before.merged /\ output71 => Overlaps(dep, Sides) = {"fresh"}

(* Every sample handed back is the last unit's, so long as the downmix is  *)
(* what it was when the unit was decoded and a merged substream holds as   *)
(* many blocks as its core.                                                *)
SamplesAreOfTheUnit ==
  /\ outcome = "ok" /\ used.width = dmixChannels
  /\ output71 => buffer[2].blocks >= nsamp
  => \A n \in Samples : n >= nsamp

(* The gains cached between calls are those of the unit: the levels for    *)
(* its dialogue level and the target asked for, and the mix for its layout *)
(* and levels and the width asked for.  (A mix may be of the other         *)
(* syntax: the key lacks it, and one pair of codes is legal in both.)      *)
LevelsAreOfTheHeader ==
  used.target # Off => levelGains = LevelFor(h, used.target)
MixIsOfTheHeader ==
  Mixing(h, used.width) =>
    /\ dmixCoeffs.mode = h.mode /\ dmixCoeffs.mixlev = h.mixlev
    /\ dmixCoeffs.width = used.width
GainsAreOfTheHeader ==
  outcome = "ok" => LevelsAreOfTheHeader /\ MixIsOfTheHeader

(* What Reset's comment says (audblk.go:256-257): the next frame decodes   *)
(* as the first of a stream.                                               *)
ResetStartsAfresh ==
  outcome = "ok" /\ before.how = "reset" /\ output71 =>
    Overlaps(dep, Sides) = {"none"}

=============================================================================
