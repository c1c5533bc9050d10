---------------------------- MODULE AudioBlocks -----------------------------
(***************************************************************************)
(* What the audio blocks of a frame take from each other, and from frames  *)
(* before (src/ac3/audblk.go, audblk_eac3.go, audfrm_eac3.go, spx.go).     *)
(*                                                                         *)
(* A block that does not state a parameter uses what the decoder holds.    *)
(* Values are abstracted to where they come from: a variable says what of  *)
(* it this frame stated, so that a use of the rest is a use of what an     *)
(* earlier frame left, collected in "inherited".  A spectrum is cut into   *)
(* sections: section 0 is the 37 bins below the coupling grid, section n   *)
(* the grid's n-th twelve bins, and a channel that reaches n codes the     *)
(* sections 0 .. n.                                                        *)
(*                                                                         *)
(* The low frequency channel is left out: it is a channel that never       *)
(* couples and never extends.  A frame whose SNR offsets are all zero uses *)
(* less than what is counted here.                                         *)
(***************************************************************************)
EXTENDS Integers, FiniteSets

CONSTANTS
  Channels,        \* the full bandwidth channels a frame may code
  Cpl,             \* the coupling channel
  Syntaxes,        \* which syntaxes the stream holds: AC-3, enhanced or both
  Acmods,          \* the kinds of audio coding mode: mono, dual, stereo, more
  ChannelsOf,      \* the channels each of them codes
  BlocksPerFrame,  \* six
  BlockCounts,     \* how many blocks an enhanced frame may hold
  CplBegins, CplEnds,   \* the sections the coupling channel lies between
  Widths,          \* how far a channel that states its bandwidth reaches
  Narrowest,       \* how far one reaches whose chbwcod is zero
  SpxBegins,       \* where the spectral extension may begin
  SpxBands         \* how many bands it may have

ASSUME SectionsAssumption ==
  /\ CplBegins \subseteq Nat /\ CplEnds \subseteq Nat
  /\ Widths \subseteq Nat /\ Narrowest \in Nat
  /\ SpxBegins \subseteq Nat /\ SpxBands \subseteq Nat

ASSUME FramesAssumption ==
  /\ BlocksPerFrame \in Nat \ {0}
  /\ BlockCounts \subseteq 1 .. BlocksPerFrame
  /\ Cpl \notin Channels
  /\ Syntaxes \subseteq {"ac3", "eac3"}
  /\ Acmods \subseteq {"mono", "dual", "stereo", "more"} /\ Acmods # {}
  /\ ChannelsOf \in [Acmods -> SUBSET Channels]

VARIABLES
  frame,       \* [syntax, acmod, blocks] of the frame being decoded
  blk, pc,     \* the block, and which part of it is read next
  cplinu, cplinuPrev, chincpl,   \* who couples
  cplBegin, cplEnd,              \* cplstrtmant and cplendmant, as sections
  spxinu, chinspx,               \* who extends
  spxBegin, nspxbnd,
  reach,       \* what chbwcod says each channel reaches when it codes its top
  usesAHT,     \* the channels under the adaptive hybrid transform
  firstCplCoords, firstSpxCoords, firstCplLeak,
  stated,      \* the parameters this frame stated, defaulted or cleared
  cplco,       \* the channels whose coupling gains are not an earlier frame's
  spxco,       \* how many of a channel's extension gains this frame stated
  exp,         \* the sections of each channel whose exponents this frame read
  preMantissa, \* the same of the adaptive hybrid transform's mantissas
  inherited,   \* what a block used that an earlier frame left
  steady,      \* history: no block after the first restated the arrangement
  spell        \* history: what was read since coupling or extension came up

cplVars   == <<cplinu, chincpl, cplBegin, cplEnd>>
spxVars   == <<spxinu, chinspx, spxBegin, nspxbnd>>
firstVars == <<firstCplCoords, firstSpxCoords, firstCplLeak>>
dataVars  == <<cplco, spxco, reach, exp, preMantissa>>
vars == <<frame, blk, pc, cplVars, cplinuPrev, spxVars, firstVars, usesAHT,
          stated, dataVars, inherited, steady, spell>>

All == Channels \union {Cpl}
chans == ChannelsOf[frame.acmod]
enhanced == frame.syntax = "eac3"

(* The modes in which an enhanced frame may couple.                        *)
Couplable == {"stereo", "more"}

-----------------------------------------------------------------------------
(* Frames.                                                                 *)

Init ==
  /\ frame = [syntax |-> "ac3", acmod |-> CHOOSE m \in Acmods : TRUE,
              blocks |-> BlocksPerFrame]
  /\ blk = 0 /\ pc = "idle"
  /\ cplinu = FALSE /\ cplinuPrev = FALSE /\ chincpl = {}
  /\ cplBegin = 0 /\ cplEnd = 0
  /\ spxinu = FALSE /\ chinspx = {} /\ spxBegin = 0 /\ nspxbnd = 0
  /\ reach = [c \in Channels |-> Narrowest]
  /\ usesAHT = {}
  /\ firstCplCoords = {} /\ firstSpxCoords = {} /\ firstCplLeak = FALSE
  /\ stated = {} /\ cplco = {} /\ spxco = [c \in Channels |-> 0]
  /\ exp = [c \in All |-> {}] /\ preMantissa = [c \in All |-> {}]
  /\ inherited = {} /\ steady = TRUE /\ spell = {}

(* reset: what every frame starts without.  Coupling and extension ranges  *)
(* are not cleared in the code; no block reads them before it states them. *)
ResetParameters == {"remat", "phase", "delta", "noise"}

(* A fault: the coupling gains are not cleared between frames.             *)
ResetGainsKept == {}

ResetGains == Channels

(* What the audio frame field may say of the hybrid transform: it takes a  *)
(* frame of six blocks.  That its channels read exponents in block 0 only, *)
(* and a coupling channel under it an unchanging strategy, is required     *)
(* where the blocks read them (parseEAC3AHT knows both beforehand).        *)
MayUseAHT(f) ==
  IF f.blocks = BlocksPerFrame
  THEN SUBSET (ChannelsOf[f.acmod]
                 \union (IF f.acmod \in Couplable THEN {Cpl} ELSE {}))
  ELSE {{}}

FirstPart(f) == IF f.syntax = "eac3" THEN "extension" ELSE "coupling"

(* decodeFrame up to its first block: reset, and for an enhanced frame     *)
(* parseEAC3AudioFrame, which may state the model (by its defaults) and    *)
(* the SNR offsets for all the blocks.                                     *)
BeginFrame ==
  /\ pc = "idle"
  /\ \E s \in Syntaxes, m \in Acmods, n \in BlockCounts \union {BlocksPerFrame} :
       /\ s = "ac3" => n = BlocksPerFrame
       /\ frame' = [syntax |-> s, acmod |-> m, blocks |-> n]
  /\ blk' = 0 /\ pc' = FirstPart(frame')
  /\ cplinu' = FALSE /\ cplinuPrev' = FALSE /\ chincpl' = {}
  /\ cplBegin' = 0 /\ cplEnd' = 0
  /\ spxinu' = FALSE /\ chinspx' = {} /\ spxBegin' = 0 /\ nspxbnd' = 0
  /\ reach' = [c \in Channels |-> Narrowest]
  /\ IF frame'.syntax = "eac3"
     THEN /\ usesAHT' \in MayUseAHT(frame')
          /\ firstCplCoords' = Channels /\ firstSpxCoords' = Channels
          /\ firstCplLeak' = TRUE
          /\ \E p \in SUBSET {"model", "snr"} :
               stated' = ResetParameters \union p
                           \union (IF "snr" \in p THEN {"cplSnr"} ELSE {})
     ELSE /\ UNCHANGED <<usesAHT, firstVars>>
          /\ stated' = ResetParameters
  /\ cplco' = ResetGains /\ spxco' = [c \in Channels |-> 0]
  /\ exp' = [c \in All |-> {}] /\ preMantissa' = [c \in All |-> {}]
  /\ inherited' = {} /\ steady' = TRUE /\ spell' = {}

(* Any error of any part: the frame is given up and the next one begins    *)
(* with what the decoder holds.  A value a part refuses ends here too.     *)
(* The history is of the frame, and goes with it.                          *)
Abandon ==
  /\ pc # "idle" /\ pc' = "idle"
  /\ inherited' = {} /\ steady' = TRUE /\ spell' = {}
  /\ UNCHANGED <<frame, blk, cplVars, cplinuPrev, spxVars, firstVars, usesAHT,
                 stated, dataVars>>

-----------------------------------------------------------------------------
(* The parts of a block, in the order they are read.                       *)

(* A fault: a channel that leaves is not noted, so that it comes back to   *)
(* gains of before it left.                                                *)
FirstAfterLeaving(first, using, now) == first \ now

(* A channel whose gains are next to be stated without a flag: one that    *)
(* did not use them in this block, or had not stated them since it began.  *)
FirstAfter(first, using, now) == (first \ now) \union (chans \ using)

(* What the history keeps of gains: those of the channels still using them.*)
GainsOfSpell(what, using, now) ==
  {<<what, c>> : c \in {d \in using : d \in now \/ <<what, d>> \in spell}}

Spell(what) == {<<what, c>> : c \in Channels}

(* readSpxStrategy, when the block carries one.  Only block 0 starts its   *)
(* band structure from the default table.                                  *)
ReadSpxStrategy ==
  \/ /\ blk # 0
     /\ UNCHANGED <<spxVars, stated, inherited, steady>>
  \/ /\ spxinu' = FALSE /\ chinspx' = {}
     /\ steady' = (steady /\ blk = 0)
     /\ UNCHANGED <<spxBegin, nspxbnd, stated, inherited>>
  \/ /\ spxinu' = TRUE
     /\ chinspx' \in (IF frame.acmod = "mono" THEN {chans} ELSE SUBSET chans)
     /\ spxBegin' \in SpxBegins /\ nspxbnd' \in SpxBands
     /\ steady' = (steady /\ blk = 0)
     /\ \/ /\ blk = 0
           /\ stated' = stated \union {"spxBands"}
           /\ UNCHANGED inherited
        \/ /\ blk # 0              \* spxbndstrce: it may state its own
           /\ UNCHANGED stated
           /\ inherited' \in {inherited, inherited \union
                                ({"spxBands"} \ stated)}

(* A frame without the strategy keeps what there is; a channel that is not *)
(* extending will state its gains outright when it next does.              *)
ReadExtension ==
  /\ pc = "extension" /\ pc' = "coupling"
  /\ ReadSpxStrategy
  /\ \E now \in SUBSET chinspx' :
       /\ chinspx' \intersect firstSpxCoords \subseteq now
       /\ firstSpxCoords' = FirstAfter(firstSpxCoords, chinspx', now)
       /\ spxco' = [c \in Channels |->
                      IF c \in now /\ spxco[c] < nspxbnd' THEN nspxbnd'
                      ELSE spxco[c]]
       /\ spell' = (spell \ Spell("spx")) \union GainsOfSpell("spx", chinspx', now)
  /\ UNCHANGED <<frame, blk, cplVars, cplinuPrev, firstCplCoords, firstCplLeak,
                 usesAHT, cplco, reach, exp, preMantissa>>

(* A fault: a coupling channel comes under the hybrid transform in a frame *)
(* whose later blocks restate the strategy.                                *)
MayRestateAHT == enhanced => frame.acmod \in Couplable

(* Whether this block may, and must, carry a coupling strategy.            *)
MayRestate ==
  /\ enhanced => frame.acmod \in Couplable
  /\ enhanced /\ Cpl \in usesAHT => blk = 0
MustRestate == blk = 0 /\ (enhanced => frame.acmod \in Couplable)

(* Who may couple: an enhanced stereo frame couples both its channels.     *)
MayCouple ==
  IF enhanced /\ frame.acmod = "stereo" THEN {chans} ELSE SUBSET chans

(* Where the coupling channel may end: where the extension begins.         *)
MayEnd == IF spxinu THEN {spxBegin} ELSE CplEnds

KeepStrategy ==
  /\ ~MustRestate
  /\ UNCHANGED <<cplVars, firstCplCoords, firstCplLeak, stated, inherited,
                 steady>>

(* A fault: the list of coupled channels outlives coupling.                *)
StopCouplingOnly ==
  /\ MayRestate
  /\ ~(enhanced /\ Cpl \in usesAHT)
  /\ cplinu' = FALSE
  /\ IF enhanced THEN firstCplCoords' = firstCplCoords \union chans /\ firstCplLeak' = TRUE
     ELSE UNCHANGED <<firstCplCoords, firstCplLeak>>
  /\ steady' = (steady /\ blk = 0)
  /\ UNCHANGED <<chincpl, cplBegin, cplEnd, stated, inherited>>

(* An enhanced block that does not couple resets what the next that does   *)
(* will need; in an AC-3 block every such field has a flag of its own.     *)
StopCoupling ==
  /\ MayRestate
  /\ ~(enhanced /\ Cpl \in usesAHT)
  /\ cplinu' = FALSE /\ chincpl' = {}
  /\ IF enhanced THEN firstCplCoords' = firstCplCoords \union chans /\ firstCplLeak' = TRUE
     ELSE UNCHANGED <<firstCplCoords, firstCplLeak>>
  /\ steady' = (steady /\ blk = 0)
  /\ UNCHANGED <<cplBegin, cplEnd, stated, inherited>>

(* The strategy.  AC-3 states its band structure every time, an enhanced   *)
(* block 0 starts from the default, a later one keeps what it does not     *)
(* state.                                                                  *)
StateCoupling ==
  /\ MayRestate
  /\ cplinu' = TRUE
  /\ chincpl' \in MayCouple
  /\ cplBegin' \in CplBegins /\ cplEnd' \in MayEnd /\ cplBegin' < cplEnd'
  /\ \/ /\ blk = 0 \/ ~enhanced
        /\ stated' = stated \union {"cplBands"}
        /\ UNCHANGED inherited
     \/ /\ blk # 0 /\ enhanced
        /\ UNCHANGED stated
        /\ inherited' \in {inherited, inherited \union ({"cplBands"} \ stated)}
  /\ steady' = (steady /\ blk = 0 /\ chincpl' # {})
  /\ UNCHANGED <<firstCplCoords, firstCplLeak>>

ReadCouplingStrategy ==
  /\ pc = "coupling" /\ pc' = "coords"
  /\ KeepStrategy \/ StopCoupling \/ StateCoupling
  /\ UNCHANGED <<frame, blk, cplinuPrev, spxVars, firstSpxCoords, usesAHT,
                 dataVars, spell>>

(* Channels that must state their coupling gains in this block.            *)
MustStateCoords ==
  IF blk = 0 THEN chincpl
  ELSE IF enhanced THEN chincpl \intersect firstCplCoords ELSE {}

ReadCouplingCoords ==
  /\ pc = "coords" /\ pc' = "exponents"
  /\ \E now \in SUBSET (IF cplinu THEN chincpl ELSE {}) :
       /\ cplinu => MustStateCoords \subseteq now
       /\ cplco' = cplco \union now
       /\ firstCplCoords' = IF enhanced /\ cplinu
                            THEN FirstAfter(firstCplCoords, chincpl, now)
                            ELSE firstCplCoords
       /\ spell' = (spell \ Spell("cpl")) \union GainsOfSpell("cpl", chincpl, now)
  /\ UNCHANGED <<frame, blk, cplVars, cplinuPrev, spxVars, firstSpxCoords,
                 firstCplLeak, usesAHT, stated, spxco, reach, exp, preMantissa,
                 inherited, steady>>

(* The sections a channel codes, given what it codes when nothing takes    *)
(* its top: a coupled one stops where the coupling channel starts, an      *)
(* extended one where the extension does.                                  *)
Coded(c, wide) ==
  IF c = Cpl THEN cplBegin + 1 .. cplEnd
  ELSE 0 .. (IF c \in chincpl THEN cplBegin
             ELSE IF c \in chinspx THEN spxBegin ELSE wide[c])

(* A fault: a coupling channel may always reuse.                           *)
MayReuseCplEver == TRUE

(* A fault: only block 0 is refused.                                       *)
MayReuseCplLater == ~cplinu \/ blk # 0

(* A coupling channel just come up has no exponents to reuse.              *)
MayReuseCpl == ~cplinu \/ cplinuPrev

(* A fault: no block is refused.                                           *)
MustReadNoExponents == {}

(* Only an AC-3 block 0 is refused for a channel that reuses its exponents.*)
MustReadExponents == IF blk = 0 /\ ~enhanced THEN chans ELSE {}

ReadExponents ==
  /\ pc = "exponents" /\ pc' = "alloc"
  /\ \E new \in SUBSET (chans \union (IF cplinu THEN {Cpl} ELSE {})) :
       /\ MustReadExponents \subseteq new
       /\ Cpl \in new \/ MayReuseCpl
       /\ enhanced /\ blk # 0 => new \intersect usesAHT = {}
       /\ \E w \in [(new \intersect Channels) \ (chincpl \union chinspx) -> Widths] :
            reach' = [c \in Channels |-> IF c \in DOMAIN w THEN w[c] ELSE reach[c]]
       /\ exp' = [c \in All |-> IF c \in new THEN exp[c] \union Coded(c, reach')
                                ELSE exp[c]]
       /\ steady' = (steady /\ (blk = 0 => chans \subseteq new))
       /\ spell' = IF Cpl \in new THEN spell \union {<<"exp", Cpl>>}
                   ELSE IF cplinu THEN spell ELSE spell \ {<<"exp", Cpl>>}
  /\ cplinuPrev' = cplinu
  /\ UNCHANGED <<frame, blk, cplVars, spxVars, firstVars, usesAHT, stated, cplco,
                 spxco, preMantissa, inherited>>

(* A fault: the fast gains are what they were where no block states them.  *)
DefaultGainForgotten == {}

(* readBitAllocInfo and readEAC3BitAllocInfo.  An AC-3 block 0 must state  *)
(* the model and the SNR offsets; an enhanced frame may have stated them   *)
(* ahead of its blocks, else block 0 must state the model and may state    *)
(* the offsets, which no later block can.  Fast gains come with the AC-3   *)
(* offsets; an enhanced block 0 that states none gets the default.  What   *)
(* concerns the coupling channel is read in a block that couples only.     *)
WithCpl(pars, cplPars) == IF cplinu THEN pars \union cplPars ELSE pars

MustStateModel == blk = 0 /\ "model" \notin stated
MustStateOffsets == blk = 0 /\ ~enhanced
MustStateLeak == cplinu /\ enhanced /\ firstCplLeak
DefaultGain == IF blk = 0 THEN {"gain", "cplGain"} ELSE {}

Offsets ==
  IF ~enhanced THEN {{}, WithCpl({"snr", "gain"}, {"cplSnr", "cplGain"})}
  ELSE {o \union g :
          o \in IF blk = 0 /\ "snr" \notin stated
                THEN {{}, WithCpl({"snr"}, {"cplSnr"})} ELSE {{}},
          g \in {WithCpl({"gain"}, {"cplGain"}), DefaultGain}}

ReadBitAllocInfo ==
  /\ pc = "alloc" /\ pc' = "mantissas"
  /\ \E model \in {{}, {"model"}}, offsets \in Offsets, leak \in {{}, {"cplLeak"}} :
       /\ MustStateModel => model # {}
       /\ MustStateOffsets => offsets # {}
       /\ leak # {} => cplinu
       /\ MustStateLeak => leak # {}
       /\ stated' = stated \union model \union offsets \union leak
       /\ steady' = (steady /\ (blk = 0 => /\ "snr" \in stated'
                                          /\ (cplinu => leak # {})))
       /\ spell' = IF leak # {} THEN spell \union {<<"leak", Cpl>>}
                   ELSE IF cplinu THEN spell ELSE spell \ {<<"leak", Cpl>>}
  /\ firstCplLeak' = (firstCplLeak /\ ~(enhanced /\ cplinu))
  /\ UNCHANGED <<frame, blk, cplVars, cplinuPrev, spxVars, firstCplCoords,
                 firstSpxCoords, usesAHT, dataVars, inherited>>

(* The channels the bit allocation is computed for, and those whose        *)
(* mantissas are read: the coupling channel's come after the first channel *)
(* that couples, and not at all when none does.                            *)
Allocated == chans \union (IF cplinu THEN {Cpl} ELSE {})
Read == chans \union (IF cplinu /\ chincpl # {} THEN {Cpl} ELSE {})

UsedParameters ==
  {"model", "snr", "gain", "delta", "noise"}
    \union (IF cplinu THEN {"cplSnr", "cplGain", "cplLeak"} ELSE {})
    \union (IF frame.acmod = "stereo" THEN {"remat", "phase"} ELSE {})

Lacking(what, channels, have) ==
  IF \E c \in channels : ~(Coded(c, reach) \subseteq have[c]) THEN {what} ELSE {}

When(condition, what) == IF condition THEN {what} ELSE {}

(* What computeBitAlloc, readMantissas, decouple, rematrix and applySpx    *)
(* use that is an earlier frame's: usesAHT is the audio frame field's, and *)
(* b.Cpl keeps what it held when nobody couples.                           *)
Borrowed ==
  (UsedParameters \ stated)
    \union Lacking("exponents", chans, exp)
    \union Lacking("cplExponents", Allocated \ chans, exp)
    \union Lacking("preMantissa", chans \intersect usesAHT, preMantissa')
    \union Lacking("cplPreMantissa", (Read \ chans) \intersect usesAHT, preMantissa')
    \union When(~enhanced /\ Allocated \intersect usesAHT # {}, "usesAHT")
    \union When(~(chincpl \subseteq cplco), "cplGains")
    \union When(\E c \in chinspx : spxco[c] < nspxbnd, "spxGains")
    \union When(Allocated # Read, "Cpl")

(* A channel under the hybrid transform reads its six blocks' mantissas in *)
(* block 0, over what it codes there; the later blocks are served from it. *)
ReadMantissas ==
  /\ pc = "mantissas"
  /\ preMantissa' = [c \in All |-> IF blk = 0 /\ c \in Read \intersect usesAHT
                                   THEN Coded(c, reach) ELSE preMantissa[c]]
  /\ inherited' = inherited \union Borrowed
  /\ IF blk + 1 < frame.blocks THEN blk' = blk + 1 /\ pc' = FirstPart(frame)
     ELSE pc' = "idle" /\ UNCHANGED blk
  /\ UNCHANGED <<frame, cplVars, cplinuPrev, spxVars, firstVars, usesAHT, stated,
                 cplco, spxco, reach, exp, steady, spell>>

Next ==
  \/ BeginFrame \/ Abandon
  \/ ReadExtension \/ ReadCouplingStrategy \/ ReadCouplingCoords
  \/ ReadExponents \/ ReadBitAllocInfo \/ ReadMantissas

Spec == Init /\ [][Next]_vars

-----------------------------------------------------------------------------
(* Properties.                                                             *)

Parameters == ResetParameters \union
  {"model", "snr", "gain", "cplSnr", "cplGain", "cplLeak", "cplBands", "spxBands"}

Borrowable == Parameters \union
  {"exponents", "cplExponents", "preMantissa", "cplPreMantissa", "usesAHT",
   "cplGains", "spxGains", "Cpl"}

(* Types, and what goes with them: nobody couples or extends while the     *)
(* technique is not in use, and a coupling channel in use spans something. *)
TypeOK ==
  /\ frame \in [syntax : {"ac3", "eac3"}, acmod : Acmods, blocks : 1 .. BlocksPerFrame]
  /\ blk \in 0 .. frame.blocks - 1
  /\ pc \in {"idle", "extension", "coupling", "coords", "exponents", "alloc",
             "mantissas"}
  /\ cplinu \in BOOLEAN /\ cplinuPrev \in BOOLEAN /\ spxinu \in BOOLEAN
  /\ chincpl \subseteq chans /\ (chincpl # {} => cplinu)
  /\ chinspx \subseteq chans /\ (chinspx # {} => spxinu)
  /\ cplBegin \in Nat /\ cplEnd \in Nat /\ (cplinu => cplBegin < cplEnd)
  /\ spxBegin \in Nat /\ nspxbnd \in Nat
  /\ reach \in [Channels -> Nat] /\ spxco \in [Channels -> Nat]
  /\ usesAHT \subseteq All
  /\ firstCplCoords \subseteq Channels /\ firstSpxCoords \subseteq Channels
  /\ firstCplLeak \in BOOLEAN
  /\ stated \subseteq Parameters /\ cplco \subseteq Channels
  /\ exp \in [All -> SUBSET Nat] /\ preMantissa \in [All -> SUBSET Nat]
  /\ inherited \subseteq Borrowable /\ steady \in BOOLEAN
  /\ spell \subseteq (Spell("cpl") \union Spell("spx")
                       \union {<<"exp", Cpl>>, <<"leak", Cpl>>})

(* A frame never uses of the one before it: the model's parameters, the    *)
(* fast gains and the delta allocation, the coupling gains (which reset    *)
(* drops so that the frame decodes on its own), the rematrix and phase     *)
(* flags and the noise.  An AC-3 frame has its SNR offsets from block 0    *)
(* and its band structures from the strategy; an enhanced one its leak     *)
(* levels from the block that brought coupling up, its hybrid transform    *)
(* flags from the audio frame field, and over all six blocks the coupling  *)
(* channel's mantissas from block 0.                                       *)
BlocksOwnWhatTheyUse ==
  /\ inherited \intersect {"model", "gain", "delta", "noise", "cplGains",
                           "remat", "phase"} = {}
  /\ inherited \intersect
       (IF enhanced THEN {"cplLeak", "usesAHT", "cplPreMantissa"}
        ELSE {"snr", "cplBands", "spxBands", "spxGains"}) = {}

(* The first block of an AC-3 frame is refused unless it states what it    *)
(* has nothing to reuse for.  What the refusals leave open: the coupling   *)
(* leak levels, the hybrid transform flags of an enhanced frame before it, *)
(* and a coupling channel nobody is coupled to.                            *)
FirstBlockStandsAlone ==
  ~enhanced /\ blk = 1 /\ pc = "coupling" /\ usesAHT = {}
    => inherited \subseteq {"cplLeak", "Cpl"}

(* Every encoder that states in block 0 all that the frame uses and never  *)
(* restates the arrangement of channels gets a frame that decodes on its   *)
(* own, however its later blocks reuse or restate exponents, gains and     *)
(* offsets, hybrid transform or not.                                       *)
SteadyFramesStandAlone ==
  steady /\ pc = "idle" /\ (~enhanced => usesAHT = {}) => inherited = {}

(* A coupling channel's exponents were read since coupling last came up;   *)
(* in an enhanced frame so were its leak levels and the gains of every     *)
(* channel since it last joined, including one that left and came back.    *)
CouplingIsOfThisSpell ==
  pc = "mantissas" /\ cplinu =>
    /\ <<"exp", Cpl>> \in spell
    /\ enhanced => /\ <<"leak", Cpl>> \in spell
                   /\ \A c \in chincpl : <<"cpl", c>> \in spell

(* The gains of an extended channel were stated since it last began to     *)
(* extend.                                                                 *)
ExtensionIsOfThisSpell ==
  pc \in {"coupling", "coords", "exponents", "alloc", "mantissas"} =>
    \A c \in chinspx : <<"spx", c>> \in spell

(* What a comment says of the hybrid transform flags (audblk.go:156-157):  *)
(* they are empty for AC-3.                                                *)
EmptyForAC3 == pc = "mantissas" /\ ~enhanced => usesAHT = {}

(* What a comment says the refusal of a reused set guarantees              *)
(* (audblk.go:703-705): the coupling exponents were written by this frame, *)
(* all of those the channel is decoded with.                               *)
CouplingExponentsAreOfThisFrame ==
  pc = "mantissas" /\ cplinu => Coded(Cpl, reach) \subseteq exp[Cpl]

=============================================================================
