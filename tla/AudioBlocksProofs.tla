------------------------- MODULE AudioBlocksProofs --------------------------
(***************************************************************************)
(* Proofs about AudioBlocks, for any channels, any number of blocks and    *)
(* any grid of sections.                                                   *)
(***************************************************************************)
EXTENDS AudioBlocks, TLAPS

-----------------------------------------------------------------------------
(* The inductive invariant.                                                *)

Decoding == pc # "idle"

(* Extension: a channel whose next gains carry a flag has had gains since  *)
(* it began to extend, and once a block has read its extension no channel  *)
(* that extends is still to state its first.                               *)
ExtensionInv ==
  Decoding =>
    /\ pc = "extension" => enhanced
    /\ ~enhanced => ~spxinu
    /\ enhanced => \A c \in chans \ firstSpxCoords : <<"spx", c>> \in spell
    /\ enhanced /\ pc # "extension" => chinspx \intersect firstSpxCoords = {}

(* Coupling, the same; and while nobody couples everybody's first gains    *)
(* and the first leak levels are still to come.                            *)
CouplingInv ==
  Decoding /\ enhanced =>
    /\ \A c \in chans \ firstCplCoords : <<"cpl", c>> \in spell
    /\ ~cplinu => chans \subseteq firstCplCoords /\ firstCplLeak
    /\ ~firstCplLeak => <<"leak", Cpl>> \in spell
    /\ pc \in {"exponents", "alloc", "mantissas"}
         => chincpl \intersect firstCplCoords = {}
    /\ pc = "mantissas" /\ cplinu => ~firstCplLeak

(* Coupling exponents may be reused only where they were read.             *)
ExponentsInv ==
  Decoding =>
    /\ cplinuPrev => <<"exp", Cpl>> \in spell
    /\ pc \in {"alloc", "mantissas"} /\ cplinu => <<"exp", Cpl>> \in spell

SpellInv == ExtensionInv /\ CouplingInv /\ ExponentsInv

(* What a frame has stated once its first block's side information is      *)
(* read, and what a coupling channel under the hybrid transform is served  *)
(* from in the blocks after it.                                            *)
OwnInv ==
  Decoding =>
    /\ ResetParameters \subseteq stated
    /\ blk # 0 \/ pc = "mantissas" =>
         /\ {"model", "gain"} \subseteq stated
         /\ ~enhanced => "snr" \in stated
    /\ <<"leak", Cpl>> \in spell => "cplLeak" \in stated
    /\ cplco = Channels
    /\ enhanced /\ Cpl \in usesAHT /\ blk # 0 /\ chincpl # {} =>
         cplBegin + 1 .. cplEnd \subseteq preMantissa[Cpl]

(* What the first block of an AC-3 frame has read by the time it is used.  *)
FirstBlockInv ==
  Decoding /\ ~enhanced /\ blk = 0 =>
    /\ inherited = {}
    /\ pc \in {"coupling", "coords", "exponents"} => ~cplinuPrev
    /\ pc \in {"alloc", "mantissas"} =>
         \A c \in Allocated : Coded(c, reach) \subseteq exp[c]
    /\ pc = "mantissas" =>
         /\ "snr" \in stated
         /\ cplinu => {"cplSnr", "cplGain"} \subseteq stated

-----------------------------------------------------------------------------
(* Types.                                                                  *)

(* The channels of a coding mode are channels, and the coupling channel is *)
(* none of them.                                                           *)
LEMMA ModeChannelsAreChannels ==
  ASSUME NEW m \in Acmods
  PROVE  ChannelsOf[m] \subseteq Channels /\ Cpl \notin ChannelsOf[m]
BY FramesAssumption

LEMMA InitType == Init => TypeOK
<1> SUFFICES ASSUME Init PROVE TypeOK
  OBVIOUS
<1>1. (CHOOSE m \in Acmods : TRUE) \in Acmods
  BY FramesAssumption
<1>2. frame \in [syntax : {"ac3", "eac3"}, acmod : Acmods,
                 blocks : 1 .. BlocksPerFrame]
  BY <1>1, FramesAssumption DEF Init
<1>3. blk \in 0 .. frame.blocks - 1
  BY FramesAssumption DEF Init
<1>4. /\ reach \in [Channels -> Nat] /\ spxco \in [Channels -> Nat]
      /\ exp \in [All -> SUBSET Nat] /\ preMantissa \in [All -> SUBSET Nat]
  BY SectionsAssumption DEF Init
<1>5. QED
  BY <1>2, <1>3, <1>4 DEF Init, TypeOK, Spell

LEMMA BeginFrameType == TypeOK /\ BeginFrame => TypeOK'
<1> SUFFICES ASSUME TypeOK, BeginFrame PROVE TypeOK'
  OBVIOUS
<1>1. frame' \in [syntax : {"ac3", "eac3"}, acmod : Acmods,
                  blocks : 1 .. BlocksPerFrame]
  <2>1. PICK s \in Syntaxes, m \in Acmods,
             n \in BlockCounts \union {BlocksPerFrame} :
               frame' = [syntax |-> s, acmod |-> m, blocks |-> n]
    BY DEF BeginFrame
  <2>2. n \in 1 .. BlocksPerFrame
    BY <2>1, FramesAssumption
  <2>3. s \in {"ac3", "eac3"}
    BY <2>1, FramesAssumption
  <2>4. QED
    BY <2>1, <2>2, <2>3
<1>2. blk' \in 0 .. frame'.blocks - 1
  BY <1>1 DEF BeginFrame
<1>3. pc' \in {"extension", "coupling"}
  BY DEF BeginFrame, FirstPart
<1>4. usesAHT' \subseteq All
  <2>1. CASE frame'.syntax = "eac3"
    <3>1. usesAHT' \in MayUseAHT(frame')
      BY <2>1 DEF BeginFrame
    <3>2. ChannelsOf[frame'.acmod] \subseteq Channels
      BY <1>1, ModeChannelsAreChannels
    <3>3. QED
      BY <3>1, <3>2 DEF MayUseAHT, All
  <2>2. CASE frame'.syntax # "eac3"
    BY <2>2 DEF BeginFrame, TypeOK
  <2>3. QED
    BY <2>1, <2>2
<1>5. /\ firstCplCoords' \subseteq Channels /\ firstSpxCoords' \subseteq Channels
      /\ firstCplLeak' \in BOOLEAN
  BY DEF BeginFrame, TypeOK, firstVars
<1>6. stated' \subseteq Parameters
  BY DEF BeginFrame, Parameters, ResetParameters
<1>7. /\ reach' \in [Channels -> Nat] /\ spxco' \in [Channels -> Nat]
      /\ exp' \in [All -> SUBSET Nat] /\ preMantissa' \in [All -> SUBSET Nat]
  BY SectionsAssumption DEF BeginFrame
<1>8. /\ cplco' \subseteq Channels /\ inherited' = {} /\ steady' = TRUE /\ spell' = {}
      /\ cplinu' = FALSE /\ cplinuPrev' = FALSE /\ spxinu' = FALSE
      /\ chincpl' = {} /\ chinspx' = {}
      /\ cplBegin' = 0 /\ cplEnd' = 0 /\ spxBegin' = 0 /\ nspxbnd' = 0
  BY DEF BeginFrame, ResetGains
<1>9. QED
  BY <1>1, <1>2, <1>3, <1>4, <1>5, <1>6, <1>7, <1>8 DEF TypeOK

LEMMA AbandonType == TypeOK /\ Abandon => TypeOK'
<1> SUFFICES ASSUME TypeOK, Abandon PROVE TypeOK'
  OBVIOUS
<1> USE DEF Abandon, cplVars, spxVars, firstVars, dataVars
<1>1. pc' = "idle"
  OBVIOUS
<1>2. QED
  BY <1>1 DEF TypeOK, chans, All, Spell, Parameters, Borrowable

(* What the history keeps is of the kind it is kept under.                 *)
LEMMA GainsOfSpellAreOfIt ==
  ASSUME NEW what, NEW using, using \subseteq Channels, NEW now
  PROVE  GainsOfSpell(what, using, now) \subseteq Spell(what)
BY DEF GainsOfSpell, Spell

LEMMA ReadExtensionType == TypeOK /\ ReadExtension => TypeOK'
<1> SUFFICES ASSUME TypeOK, ReadExtension PROVE TypeOK'
  OBVIOUS
<1> USE DEF ReadExtension, cplVars
<1>0. frame \in [syntax : {"ac3", "eac3"}, acmod : Acmods,
                 blocks : 1 .. BlocksPerFrame]
  BY DEF TypeOK
<1>1. chans \subseteq Channels
  BY <1>0, ModeChannelsAreChannels DEF chans
<1>2. /\ spxinu' \in BOOLEAN /\ chinspx' \subseteq chans /\ (chinspx' # {} => spxinu')
      /\ spxBegin' \in Nat /\ nspxbnd' \in Nat
  <2>1. ReadSpxStrategy
    OBVIOUS
  <2>2. CASE UNCHANGED spxVars
    BY <2>2 DEF spxVars, TypeOK
  <2>3. CASE spxinu' = FALSE /\ chinspx' = {} /\ UNCHANGED <<spxBegin, nspxbnd>>
    BY <2>3 DEF TypeOK
  <2>4. CASE /\ spxinu' = TRUE
             /\ chinspx' \in (IF frame.acmod = "mono" THEN {chans} ELSE SUBSET chans)
             /\ spxBegin' \in SpxBegins /\ nspxbnd' \in SpxBands
    <3>1. chinspx' \subseteq chans
      BY <2>4
    <3>2. QED
      BY <2>4, <3>1, SectionsAssumption
  <2>5. QED
    BY <2>1, <2>2, <2>3, <2>4 DEF ReadSpxStrategy
<1>3. /\ stated' \subseteq Parameters /\ inherited' \subseteq Borrowable
      /\ steady' \in BOOLEAN
  <2>1. {"spxBands"} \subseteq Parameters /\ Parameters \subseteq Borrowable
    BY DEF Parameters, Borrowable
  <2>2. QED
    BY <2>1 DEF ReadSpxStrategy, TypeOK
<1>4. PICK now \in SUBSET chinspx' :
        /\ firstSpxCoords' = FirstAfter(firstSpxCoords, chinspx', now)
        /\ spxco' = [c \in Channels |->
                       IF c \in now /\ spxco[c] < nspxbnd' THEN nspxbnd'
                       ELSE spxco[c]]
        /\ spell' = (spell \ Spell("spx")) \union GainsOfSpell("spx", chinspx', now)
  OBVIOUS
<1>5. firstSpxCoords' \subseteq Channels
  BY <1>1, <1>4 DEF FirstAfter, TypeOK
<1>6. spxco' \in [Channels -> Nat]
  BY <1>2, <1>4 DEF TypeOK
<1>7. spell' \subseteq (Spell("cpl") \union Spell("spx")
                         \union {<<"exp", Cpl>>, <<"leak", Cpl>>})
  <2>1. GainsOfSpell("spx", chinspx', now) \subseteq Spell("spx")
    BY <1>1, <1>2, GainsOfSpellAreOfIt
  <2>2. QED
    BY <2>1, <1>4 DEF TypeOK
<1>8. /\ UNCHANGED <<frame, blk, cplinu, chincpl, cplBegin, cplEnd, cplinuPrev,
                     firstCplCoords, firstCplLeak, usesAHT, cplco, reach, exp,
                     preMantissa>>
      /\ pc' = "coupling" /\ chans' = chans
  BY DEF chans
<1>9. QED
  BY <1>2, <1>3, <1>5, <1>6, <1>7, <1>8 DEF TypeOK, Spell, All

LEMMA ReadCouplingStrategyType == TypeOK /\ ReadCouplingStrategy => TypeOK'
<1> SUFFICES ASSUME TypeOK, ReadCouplingStrategy PROVE TypeOK'
  OBVIOUS
<1> USE DEF ReadCouplingStrategy, spxVars, dataVars
<1>0. frame \in [syntax : {"ac3", "eac3"}, acmod : Acmods,
                 blocks : 1 .. BlocksPerFrame]
  BY DEF TypeOK
<1>1. chans \subseteq Channels
  BY <1>0, ModeChannelsAreChannels DEF chans
<1>2. /\ cplinu' \in BOOLEAN /\ chincpl' \subseteq chans /\ (chincpl' # {} => cplinu')
      /\ cplBegin' \in Nat /\ cplEnd' \in Nat /\ (cplinu' => cplBegin' < cplEnd')
      /\ firstCplCoords' \subseteq Channels /\ firstCplLeak' \in BOOLEAN
      /\ stated' \subseteq Parameters /\ inherited' \subseteq Borrowable
      /\ steady' \in BOOLEAN
  <2>1. CASE KeepStrategy
    BY <2>1 DEF KeepStrategy, cplVars, TypeOK
  <2>2. CASE StopCoupling
    BY <2>2, <1>1 DEF StopCoupling, TypeOK
  <2>3. CASE StateCoupling
    <3>1. chincpl' \subseteq chans
      BY <2>3 DEF StateCoupling, MayCouple
    <3>2. cplBegin' \in Nat /\ cplEnd' \in Nat /\ cplBegin' < cplEnd'
      BY <2>3, SectionsAssumption DEF StateCoupling, MayEnd, TypeOK
    <3>3. {"cplBands"} \subseteq Parameters /\ Parameters \subseteq Borrowable
      BY DEF Parameters, Borrowable
    <3>4. stated' \subseteq Parameters /\ inherited' \subseteq Borrowable
      BY <2>3, <3>3 DEF StateCoupling, TypeOK
    <3>5. QED
      BY <2>3, <3>1, <3>2, <3>4 DEF StateCoupling, TypeOK
  <2>4. QED
    BY <2>1, <2>2, <2>3
<1>3. /\ UNCHANGED <<frame, blk, cplinuPrev, spxinu, chinspx, spxBegin, nspxbnd,
                     firstSpxCoords, usesAHT, cplco, spxco, reach, exp,
                     preMantissa, spell>>
      /\ pc' = "coords" /\ chans' = chans
  BY DEF chans
<1>4. QED
  BY <1>2, <1>3 DEF TypeOK, Spell, All

LEMMA ReadCouplingCoordsType == TypeOK /\ ReadCouplingCoords => TypeOK'
<1> SUFFICES ASSUME TypeOK, ReadCouplingCoords PROVE TypeOK'
  OBVIOUS
<1> USE DEF ReadCouplingCoords, cplVars, spxVars
<1>0. frame \in [syntax : {"ac3", "eac3"}, acmod : Acmods,
                 blocks : 1 .. BlocksPerFrame]
  BY DEF TypeOK
<1>1. chans \subseteq Channels
  BY <1>0, ModeChannelsAreChannels DEF chans
<1>2. chincpl \subseteq Channels
  BY <1>1 DEF TypeOK
<1>3. PICK now \in SUBSET (IF cplinu THEN chincpl ELSE {}) :
        /\ cplco' = cplco \union now
        /\ firstCplCoords' = IF enhanced /\ cplinu
                             THEN FirstAfter(firstCplCoords, chincpl, now)
                             ELSE firstCplCoords
        /\ spell' = (spell \ Spell("cpl")) \union GainsOfSpell("cpl", chincpl, now)
  OBVIOUS
<1>4. now \subseteq Channels
  BY <1>2
<1>5. cplco' \subseteq Channels /\ firstCplCoords' \subseteq Channels
  BY <1>1, <1>3, <1>4 DEF TypeOK, FirstAfter
<1>6. spell' \subseteq (Spell("cpl") \union Spell("spx")
                         \union {<<"exp", Cpl>>, <<"leak", Cpl>>})
  <2>1. GainsOfSpell("cpl", chincpl, now) \subseteq Spell("cpl")
    BY <1>2, GainsOfSpellAreOfIt
  <2>2. QED
    BY <2>1, <1>3 DEF TypeOK
<1>7. /\ UNCHANGED <<frame, blk, cplinu, chincpl, cplBegin, cplEnd, cplinuPrev,
                     spxinu, chinspx, spxBegin, nspxbnd, firstSpxCoords,
                     firstCplLeak, usesAHT, stated, spxco, reach, exp,
                     preMantissa, inherited, steady>>
      /\ pc' = "exponents" /\ chans' = chans
  BY DEF chans
<1>8. QED
  BY <1>5, <1>6, <1>7 DEF TypeOK, Spell, All

(* The sections a channel codes are numbers.                               *)
LEMMA CodedIsNat ==
  ASSUME TypeOK, NEW c \in All, NEW wide \in [Channels -> Nat]
  PROVE  Coded(c, wide) \subseteq Nat
<1>1. cplBegin \in Nat /\ cplEnd \in Nat /\ spxBegin \in Nat
  BY DEF TypeOK
<1>2. CASE c = Cpl
  BY <1>1, <1>2 DEF Coded
<1>3. CASE c # Cpl
  <2>1. wide[c] \in Nat
    BY <1>3 DEF All
  <2>2. QED
    BY <1>1, <1>3, <2>1 DEF Coded
<1>4. QED
  BY <1>2, <1>3

LEMMA ReadExponentsType == TypeOK /\ ReadExponents => TypeOK'
<1> SUFFICES ASSUME TypeOK, ReadExponents PROVE TypeOK'
  OBVIOUS
<1> USE DEF ReadExponents, cplVars, spxVars, firstVars
<1>1. PICK new \in SUBSET (chans \union (IF cplinu THEN {Cpl} ELSE {})) :
        /\ \E w \in [(new \intersect Channels) \ (chincpl \union chinspx) -> Widths] :
             reach' = [c \in Channels |-> IF c \in DOMAIN w THEN w[c] ELSE reach[c]]
        /\ exp' = [c \in All |-> IF c \in new THEN exp[c] \union Coded(c, reach')
                                 ELSE exp[c]]
        /\ steady' = (steady /\ (blk = 0 => chans \subseteq new))
        /\ spell' = IF Cpl \in new THEN spell \union {<<"exp", Cpl>>}
                    ELSE IF cplinu THEN spell ELSE spell \ {<<"exp", Cpl>>}
  OBVIOUS
<1>2. reach' \in [Channels -> Nat]
  <2>1. PICK w \in [(new \intersect Channels) \ (chincpl \union chinspx) -> Widths] :
          reach' = [c \in Channels |-> IF c \in DOMAIN w THEN w[c] ELSE reach[c]]
    BY <1>1
  <2>2. \A c \in DOMAIN w : w[c] \in Nat
    BY SectionsAssumption
  <2>3. \A c \in Channels : reach[c] \in Nat
    BY DEF TypeOK
  <2>4. QED
    BY <2>1, <2>2, <2>3
<1>3. exp' \in [All -> SUBSET Nat]
  <2>1. \A c \in All : Coded(c, reach') \subseteq Nat
    BY <1>2, CodedIsNat
  <2>2. \A c \in All : exp[c] \subseteq Nat
    BY DEF TypeOK
  <2>3. QED
    BY <1>1, <2>1, <2>2
<1>4. spell' \subseteq (Spell("cpl") \union Spell("spx")
                         \union {<<"exp", Cpl>>, <<"leak", Cpl>>})
  BY <1>1 DEF TypeOK
<1>5. steady' \in BOOLEAN /\ cplinuPrev' \in BOOLEAN
  BY <1>1 DEF TypeOK
<1>6. /\ UNCHANGED <<frame, blk, cplinu, chincpl, cplBegin, cplEnd, spxinu,
                     chinspx, spxBegin, nspxbnd, firstCplCoords, firstSpxCoords,
                     firstCplLeak, usesAHT, stated, cplco, spxco, preMantissa,
                     inherited>>
      /\ pc' = "alloc" /\ chans' = chans
  BY DEF chans
<1>7. QED
  BY <1>2, <1>3, <1>4, <1>5, <1>6 DEF TypeOK, Spell, All

(* What a block may state of offsets and gains is made of parameters.      *)
LEMMA OffsetsAreParameters == \A o \in Offsets : o \subseteq Parameters
BY DEF Offsets, WithCpl, DefaultGain, Parameters

LEMMA ReadBitAllocInfoType == TypeOK /\ ReadBitAllocInfo => TypeOK'
<1> SUFFICES ASSUME TypeOK, ReadBitAllocInfo PROVE TypeOK'
  OBVIOUS
<1> USE DEF ReadBitAllocInfo, cplVars, spxVars, dataVars
<1>1. PICK model \in {{}, {"model"}}, offsets \in Offsets, leak \in {{}, {"cplLeak"}} :
        /\ stated' = stated \union model \union offsets \union leak
        /\ steady' = (steady /\ (blk = 0 => /\ "snr" \in stated'
                                            /\ (cplinu => leak # {})))
        /\ spell' = IF leak # {} THEN spell \union {<<"leak", Cpl>>}
                    ELSE IF cplinu THEN spell ELSE spell \ {<<"leak", Cpl>>}
  OBVIOUS
<1>2. stated' \subseteq Parameters
  <2>1. model \subseteq Parameters /\ leak \subseteq Parameters
    BY DEF Parameters
  <2>2. offsets \subseteq Parameters
    BY OffsetsAreParameters
  <2>3. QED
    BY <1>1, <2>1, <2>2 DEF TypeOK
<1>3. /\ steady' \in BOOLEAN /\ firstCplLeak' \in BOOLEAN
      /\ spell' \subseteq (Spell("cpl") \union Spell("spx")
                            \union {<<"exp", Cpl>>, <<"leak", Cpl>>})
  BY <1>1 DEF TypeOK
<1>4. /\ UNCHANGED <<frame, blk, cplinu, chincpl, cplBegin, cplEnd, cplinuPrev,
                     spxinu, chinspx, spxBegin, nspxbnd, firstCplCoords,
                     firstSpxCoords, usesAHT, cplco, spxco, reach, exp,
                     preMantissa, inherited>>
      /\ pc' = "mantissas" /\ chans' = chans
  BY DEF chans
<1>5. QED
  BY <1>2, <1>3, <1>4 DEF TypeOK, Spell, All

(* All that a block may borrow has a name.                                 *)
LEMMA BorrowedIsBorrowable == Borrowed \subseteq Borrowable
<1>1. UsedParameters \subseteq Borrowable
  BY DEF UsedParameters, Borrowable, Parameters, ResetParameters
<1>2. QED
  BY <1>1 DEF Borrowed, Lacking, When, Borrowable

LEMMA ReadMantissasType == TypeOK /\ ReadMantissas => TypeOK'
<1> SUFFICES ASSUME TypeOK, ReadMantissas PROVE TypeOK'
  OBVIOUS
<1> USE DEF ReadMantissas, cplVars, spxVars, firstVars
<1>1. preMantissa' \in [All -> SUBSET Nat]
  <2>1. \A c \in All : Coded(c, reach) \subseteq Nat
    BY CodedIsNat DEF TypeOK
  <2>2. \A c \in All : preMantissa[c] \subseteq Nat
    BY DEF TypeOK
  <2>3. QED
    BY <2>1, <2>2
<1>2. inherited' \subseteq Borrowable
  BY BorrowedIsBorrowable DEF TypeOK
<1>3. blk' \in 0 .. frame.blocks - 1
  <2>1. frame.blocks \in Nat /\ blk \in 0 .. frame.blocks - 1
    BY FramesAssumption DEF TypeOK
  <2>2. QED
    BY <2>1
<1>4. pc' \in {"idle", "extension", "coupling"}
  BY DEF FirstPart
<1>5. /\ UNCHANGED <<frame, cplinu, chincpl, cplBegin, cplEnd, cplinuPrev,
                     spxinu, chinspx, spxBegin, nspxbnd, firstCplCoords,
                     firstSpxCoords, firstCplLeak, usesAHT, stated, cplco, spxco,
                     reach, exp, steady, spell>>
      /\ chans' = chans
  BY DEF chans
<1>6. QED
  BY <1>1, <1>2, <1>3, <1>4, <1>5 DEF TypeOK, Spell, All

LEMMA StepType == TypeOK /\ [Next]_vars => TypeOK'
<1> SUFFICES ASSUME TypeOK, [Next]_vars PROVE TypeOK'
  OBVIOUS
<1>1. CASE Next
  BY <1>1, BeginFrameType, AbandonType, ReadExtensionType,
     ReadCouplingStrategyType, ReadCouplingCoordsType, ReadExponentsType,
     ReadBitAllocInfoType, ReadMantissasType DEF Next
<1>2. CASE UNCHANGED vars
  BY <1>2 DEF vars, cplVars, spxVars, firstVars, dataVars, TypeOK, chans, Spell,
              All, Parameters, Borrowable
<1>3. QED
  BY <1>1, <1>2

(* Whatever the frames state, the decoder's state keeps its types; above   *)
(* all, nobody couples or extends while the technique is not in use, and a *)
(* coupling channel in use spans at least one section.                     *)
THEOREM BlockStateKeepsItsTypes == Spec => []TypeOK
BY InitType, StepType, PTL DEF Spec

-----------------------------------------------------------------------------
(* Spells.                                                                 *)

(* Restating the gains of one technique changes what is kept of it and     *)
(* nothing else.                                                           *)
LEMMA GainsReplaced ==
  ASSUME NEW what, NEW using, using \subseteq Channels, NEW now,
         spell' = (spell \ Spell(what)) \union GainsOfSpell(what, using, now)
  PROVE  /\ \A c \in using : c \in now \/ <<what, c>> \in spell => <<what, c>> \in spell'
         /\ \A other, c : other # what =>
              (<<other, c>> \in spell' <=> <<other, c>> \in spell)
<1>1. ASSUME NEW c \in using, c \in now \/ <<what, c>> \in spell
      PROVE  <<what, c>> \in spell'
  BY <1>1 DEF GainsOfSpell
<1>2. ASSUME NEW other, NEW c, other # what
      PROVE  <<other, c>> \in spell' <=> <<other, c>> \in spell
  <2>1. <<other, c>> \notin Spell(what)
    BY <1>2 DEF Spell
  <2>2. <<other, c>> \notin GainsOfSpell(what, using, now)
    BY <1>2 DEF GainsOfSpell
  <2>3. QED
    BY <2>1, <2>2
<1>3. QED
  BY <1>1, <1>2

(* Adding or dropping what concerns the coupling channel touches no gain.  *)
LEMMA CplMarksAreApart ==
  \A c, what : what \in {"cpl", "spx"} =>
    <<what, c>> # <<"exp", Cpl>> /\ <<what, c>> # <<"leak", Cpl>>
OBVIOUS

LEMMA BeginFrameSpell == TypeOK /\ BeginFrame => SpellInv'
<1> SUFFICES ASSUME TypeOK, BeginFrame PROVE SpellInv'
  OBVIOUS
<1>1. /\ spxinu' = FALSE /\ chinspx' = {} /\ cplinuPrev' = FALSE /\ chincpl' = {}
      /\ cplinu' = FALSE /\ pc' = FirstPart(frame')
      /\ enhanced' => /\ firstCplCoords' = Channels /\ firstSpxCoords' = Channels
                      /\ firstCplLeak' = TRUE
  BY DEF BeginFrame, enhanced
<1>2. enhanced' <=> pc' = "extension"
  BY <1>1 DEF FirstPart, enhanced
<1>3. pc' \in {"extension", "coupling"}
  BY <1>1 DEF FirstPart
<1>4. chans' \subseteq Channels
  BY BeginFrameType, ModeChannelsAreChannels DEF TypeOK, chans
<1>5. ExtensionInv'
  BY <1>1, <1>2, <1>4 DEF ExtensionInv, Decoding
<1>6. CouplingInv'
  BY <1>1, <1>2, <1>4 DEF CouplingInv, Decoding
<1>7. ExponentsInv'
  BY <1>1, <1>3 DEF ExponentsInv, Decoding
<1>8. QED
  BY <1>5, <1>6, <1>7 DEF SpellInv

LEMMA ReadExtensionSpell == TypeOK /\ SpellInv /\ ReadExtension => SpellInv'
<1> SUFFICES ASSUME TypeOK, SpellInv, ReadExtension PROVE SpellInv'
  OBVIOUS
<1>1. /\ pc = "extension" /\ pc' = "coupling"
      /\ UNCHANGED <<frame, cplinu, chincpl, cplinuPrev, firstCplCoords, firstCplLeak>>
      /\ chans' = chans /\ enhanced' = enhanced
  BY DEF ReadExtension, cplVars, chans, enhanced
<1>2. PICK now \in SUBSET chinspx' :
        /\ chinspx' \intersect firstSpxCoords \subseteq now
        /\ firstSpxCoords' = FirstAfter(firstSpxCoords, chinspx', now)
        /\ spell' = (spell \ Spell("spx")) \union GainsOfSpell("spx", chinspx', now)
  BY DEF ReadExtension
<1>3. chinspx' \subseteq chans /\ chans \subseteq Channels
  BY <1>1, ReadExtensionType, ModeChannelsAreChannels DEF TypeOK, chans
<1>4. /\ \A c \in chinspx' : c \in now \/ <<"spx", c>> \in spell => <<"spx", c>> \in spell'
      /\ \A other, c : other # "spx" =>
           (<<other, c>> \in spell' <=> <<other, c>> \in spell)
  BY <1>2, <1>3, GainsReplaced
<1>5. enhanced
  BY <1>1 DEF SpellInv, ExtensionInv, Decoding
<1>6. ExtensionInv'
  <2>1. ASSUME NEW c \in chans \ firstSpxCoords' PROVE <<"spx", c>> \in spell'
    <3>1. c \in chinspx' /\ (c \in now \/ c \notin firstSpxCoords)
      BY <1>2, <2>1 DEF FirstAfter
    <3>2. c \notin firstSpxCoords => <<"spx", c>> \in spell
      BY <1>1, <1>5, <2>1 DEF SpellInv, ExtensionInv, Decoding
    <3>3. QED
      BY <1>4, <3>1, <3>2
  <2>2. chinspx' \intersect firstSpxCoords' = {}
    BY <1>2 DEF FirstAfter
  <2>3. QED
    BY <1>1, <1>5, <2>1, <2>2 DEF ExtensionInv
<1>7. CouplingInv'
  BY <1>1, <1>4, <1>5 DEF SpellInv, CouplingInv, Decoding
<1>8. ExponentsInv'
  BY <1>1, <1>4 DEF SpellInv, ExponentsInv, Decoding
<1>9. QED
  BY <1>6, <1>7, <1>8 DEF SpellInv

LEMMA ReadCouplingStrategySpell ==
  TypeOK /\ SpellInv /\ ReadCouplingStrategy => SpellInv'
<1> SUFFICES ASSUME TypeOK, SpellInv, ReadCouplingStrategy PROVE SpellInv'
  OBVIOUS
<1>1. /\ pc = "coupling" /\ pc' = "coords"
      /\ UNCHANGED <<frame, cplinuPrev, spxinu, chinspx, firstSpxCoords, spell>>
      /\ chans' = chans /\ enhanced' = enhanced
  BY DEF ReadCouplingStrategy, spxVars, chans, enhanced
<1>2. ExtensionInv'
  BY <1>1 DEF SpellInv, ExtensionInv, Decoding
<1>3. ExponentsInv'
  BY <1>1 DEF SpellInv, ExponentsInv, Decoding
<1>4. ASSUME enhanced PROVE CouplingInv'
  <2>1. /\ \A c \in chans \ firstCplCoords : <<"cpl", c>> \in spell
        /\ ~cplinu => chans \subseteq firstCplCoords /\ firstCplLeak
        /\ ~firstCplLeak => <<"leak", Cpl>> \in spell
    BY <1>1, <1>4 DEF SpellInv, CouplingInv, Decoding
  <2>2. CASE KeepStrategy
    BY <1>1, <2>1, <2>2 DEF KeepStrategy, cplVars, CouplingInv
  <2>3. CASE StopCoupling
    BY <1>1, <1>4, <2>1, <2>3 DEF StopCoupling, CouplingInv
  <2>4. CASE StateCoupling
    BY <1>1, <2>1, <2>4 DEF StateCoupling, CouplingInv
  <2>5. QED
    BY <2>2, <2>3, <2>4 DEF ReadCouplingStrategy
<1>5. CouplingInv'
  BY <1>1, <1>4 DEF CouplingInv
<1>6. QED
  BY <1>2, <1>3, <1>5 DEF SpellInv

LEMMA ReadCouplingCoordsSpell ==
  TypeOK /\ SpellInv /\ ReadCouplingCoords => SpellInv'
<1> SUFFICES ASSUME TypeOK, SpellInv, ReadCouplingCoords PROVE SpellInv'
  OBVIOUS
<1>1. /\ pc = "coords" /\ pc' = "exponents"
      /\ UNCHANGED <<frame, cplinu, chincpl, cplinuPrev, spxinu, chinspx,
                     firstSpxCoords, firstCplLeak>>
      /\ chans' = chans /\ enhanced' = enhanced
  BY DEF ReadCouplingCoords, cplVars, spxVars, chans, enhanced
<1>2. PICK now \in SUBSET (IF cplinu THEN chincpl ELSE {}) :
        /\ cplinu => MustStateCoords \subseteq now
        /\ firstCplCoords' = IF enhanced /\ cplinu
                             THEN FirstAfter(firstCplCoords, chincpl, now)
                             ELSE firstCplCoords
        /\ spell' = (spell \ Spell("cpl")) \union GainsOfSpell("cpl", chincpl, now)
  BY DEF ReadCouplingCoords
<1>3. chincpl \subseteq chans /\ chans \subseteq Channels /\ (chincpl # {} => cplinu)
  BY ModeChannelsAreChannels DEF TypeOK, chans
<1>4. /\ \A c \in chincpl : c \in now \/ <<"cpl", c>> \in spell => <<"cpl", c>> \in spell'
      /\ \A other, c : other # "cpl" =>
           (<<other, c>> \in spell' <=> <<other, c>> \in spell)
  BY <1>2, <1>3, GainsReplaced
<1>5. ExtensionInv'
  BY <1>1, <1>4 DEF SpellInv, ExtensionInv, Decoding
<1>6. ExponentsInv'
  BY <1>1, <1>4 DEF SpellInv, ExponentsInv, Decoding
<1>7. ASSUME enhanced PROVE CouplingInv'
  <2>1. /\ \A c \in chans \ firstCplCoords : <<"cpl", c>> \in spell
        /\ ~cplinu => chans \subseteq firstCplCoords /\ firstCplLeak
        /\ ~firstCplLeak => <<"leak", Cpl>> \in spell
    BY <1>1, <1>7 DEF SpellInv, CouplingInv, Decoding
  <2>2. CASE cplinu
    <3>1. firstCplCoords' = FirstAfter(firstCplCoords, chincpl, now)
      BY <1>2, <1>7, <2>2
    <3>2. ASSUME NEW c \in chans \ firstCplCoords' PROVE <<"cpl", c>> \in spell'
      <4>1. c \in chincpl /\ (c \in now \/ c \notin firstCplCoords)
        BY <3>1, <3>2 DEF FirstAfter
      <4>2. QED
        BY <1>4, <2>1, <3>2, <4>1
    <3>3. chincpl \intersect firstCplCoords \subseteq now
      BY <1>2, <1>7, <2>2 DEF MustStateCoords
    <3>4. chincpl \intersect firstCplCoords' = {}
      BY <3>1, <3>3 DEF FirstAfter
    <3>5. QED
      BY <1>1, <1>4, <2>1, <2>2, <3>2, <3>4 DEF CouplingInv
  <2>3. CASE ~cplinu
    <3>1. chincpl = {} /\ firstCplCoords' = firstCplCoords
      BY <1>2, <1>3, <2>3
    <3>2. chans \ firstCplCoords' = {}
      BY <2>1, <2>3, <3>1
    <3>3. QED
      BY <1>1, <1>4, <2>1, <2>3, <3>1, <3>2 DEF CouplingInv
  <2>4. QED
    BY <2>2, <2>3
<1>8. CouplingInv'
  BY <1>1, <1>7 DEF CouplingInv
<1>9. QED
  BY <1>5, <1>6, <1>8 DEF SpellInv

LEMMA ReadExponentsSpell == TypeOK /\ SpellInv /\ ReadExponents => SpellInv'
<1> SUFFICES ASSUME TypeOK, SpellInv, ReadExponents PROVE SpellInv'
  OBVIOUS
<1>1. /\ pc = "exponents" /\ pc' = "alloc" /\ cplinuPrev' = cplinu
      /\ UNCHANGED <<frame, cplinu, chincpl, spxinu, chinspx, firstCplCoords,
                     firstSpxCoords, firstCplLeak>>
      /\ chans' = chans /\ enhanced' = enhanced
  BY DEF ReadExponents, cplVars, spxVars, firstVars, chans, enhanced
<1>2. PICK new : 
        /\ Cpl \in new \/ MayReuseCpl
        /\ spell' = IF Cpl \in new THEN spell \union {<<"exp", Cpl>>}
                    ELSE IF cplinu THEN spell ELSE spell \ {<<"exp", Cpl>>}
  BY DEF ReadExponents
<1>3. /\ \A c : <<"cpl", c>> \in spell' <=> <<"cpl", c>> \in spell
      /\ \A c : <<"spx", c>> \in spell' <=> <<"spx", c>> \in spell
      /\ <<"leak", Cpl>> \in spell' <=> <<"leak", Cpl>> \in spell
  BY <1>2
<1>4. cplinu => <<"exp", Cpl>> \in spell'
  <2>1. cplinuPrev => <<"exp", Cpl>> \in spell
    BY <1>1 DEF SpellInv, ExponentsInv, Decoding
  <2>2. QED
    BY <1>2, <2>1 DEF MayReuseCpl
<1>5. ExtensionInv'
  BY <1>1, <1>3 DEF SpellInv, ExtensionInv, Decoding
<1>6. CouplingInv'
  BY <1>1, <1>3 DEF SpellInv, CouplingInv, Decoding
<1>7. ExponentsInv'
  BY <1>1, <1>4 DEF ExponentsInv
<1>8. QED
  BY <1>5, <1>6, <1>7 DEF SpellInv

LEMMA ReadBitAllocInfoSpell == TypeOK /\ SpellInv /\ ReadBitAllocInfo => SpellInv'
<1> SUFFICES ASSUME TypeOK, SpellInv, ReadBitAllocInfo PROVE SpellInv'
  OBVIOUS
<1>1. /\ pc = "alloc" /\ pc' = "mantissas"
      /\ UNCHANGED <<frame, cplinu, chincpl, cplinuPrev, spxinu, chinspx,
                     firstCplCoords, firstSpxCoords>>
      /\ firstCplLeak' = (firstCplLeak /\ ~(enhanced /\ cplinu))
      /\ chans' = chans /\ enhanced' = enhanced
  BY DEF ReadBitAllocInfo, cplVars, spxVars, chans, enhanced
<1>2. PICK leak \in {{}, {"cplLeak"}} :
        /\ leak # {} => cplinu
        /\ MustStateLeak => leak # {}
        /\ spell' = IF leak # {} THEN spell \union {<<"leak", Cpl>>}
                    ELSE IF cplinu THEN spell ELSE spell \ {<<"leak", Cpl>>}
  BY DEF ReadBitAllocInfo
<1>3. /\ \A c : <<"cpl", c>> \in spell' <=> <<"cpl", c>> \in spell
      /\ \A c : <<"spx", c>> \in spell' <=> <<"spx", c>> \in spell
      /\ <<"exp", Cpl>> \in spell' <=> <<"exp", Cpl>> \in spell
  BY <1>2
<1>4. ExtensionInv'
  BY <1>1, <1>3 DEF SpellInv, ExtensionInv, Decoding
<1>5. ExponentsInv'
  BY <1>1, <1>3 DEF SpellInv, ExponentsInv, Decoding
<1>6. ASSUME enhanced PROVE CouplingInv'
  <2>1. /\ \A c \in chans \ firstCplCoords : <<"cpl", c>> \in spell
        /\ ~cplinu => chans \subseteq firstCplCoords /\ firstCplLeak
        /\ ~firstCplLeak => <<"leak", Cpl>> \in spell
        /\ chincpl \intersect firstCplCoords = {}
    BY <1>1, <1>6 DEF SpellInv, CouplingInv, Decoding
  <2>2. ~firstCplLeak' => <<"leak", Cpl>> \in spell'
    <3>1. cplinu \/ firstCplLeak'
      BY <1>1, <2>1
    <3>2. CASE cplinu /\ firstCplLeak
      BY <1>2, <1>6, <3>2 DEF MustStateLeak
    <3>3. CASE cplinu /\ ~firstCplLeak
      BY <1>2, <2>1, <3>3
    <3>4. QED
      BY <3>1, <3>2, <3>3
  <2>3. ~cplinu => firstCplLeak'
    BY <1>1, <2>1
  <2>4. cplinu => ~firstCplLeak'
    BY <1>1, <1>6
  <2>5. QED
    BY <1>1, <1>3, <2>1, <2>2, <2>3, <2>4 DEF CouplingInv
<1>7. CouplingInv'
  BY <1>1, <1>6 DEF CouplingInv
<1>8. QED
  BY <1>4, <1>5, <1>7 DEF SpellInv

LEMMA ReadMantissasSpell == TypeOK /\ SpellInv /\ ReadMantissas => SpellInv'
<1> SUFFICES ASSUME TypeOK, SpellInv, ReadMantissas PROVE SpellInv'
  OBVIOUS
<1>1. /\ pc = "mantissas" /\ pc' \in {"idle", FirstPart(frame)}
      /\ UNCHANGED <<frame, cplinu, chincpl, cplinuPrev, spxinu, chinspx,
                     firstCplCoords, firstSpxCoords, firstCplLeak, spell>>
      /\ chans' = chans /\ enhanced' = enhanced
  BY DEF ReadMantissas, cplVars, spxVars, firstVars, chans, enhanced
<1>2. /\ pc' = "idle" \/ (enhanced /\ pc' = "extension")
                      \/ (~enhanced /\ pc' = "coupling")
  BY <1>1 DEF FirstPart, enhanced
<1>3. ExtensionInv'
  BY <1>1, <1>2 DEF SpellInv, ExtensionInv, Decoding
<1>4. CouplingInv'
  BY <1>1, <1>2 DEF SpellInv, CouplingInv, Decoding
<1>5. ExponentsInv'
  BY <1>1, <1>2 DEF SpellInv, ExponentsInv, Decoding
<1>6. QED
  BY <1>3, <1>4, <1>5 DEF SpellInv

LEMMA StepSpell == TypeOK /\ SpellInv /\ [Next]_vars => SpellInv'
<1> SUFFICES ASSUME TypeOK, SpellInv, [Next]_vars PROVE SpellInv'
  OBVIOUS
<1>1. CASE Abandon
  BY <1>1 DEF Abandon, SpellInv, ExtensionInv, CouplingInv, ExponentsInv, Decoding
<1>2. CASE UNCHANGED vars
  BY <1>2 DEF vars, cplVars, spxVars, firstVars, dataVars, SpellInv, ExtensionInv,
              CouplingInv, ExponentsInv, Decoding, chans, enhanced
<1>3. CASE Next /\ ~Abandon
  BY <1>3, BeginFrameSpell, ReadExtensionSpell, ReadCouplingStrategySpell,
     ReadCouplingCoordsSpell, ReadExponentsSpell, ReadBitAllocInfoSpell,
     ReadMantissasSpell DEF Next
<1>4. QED
  BY <1>1, <1>2, <1>3

LEMMA InitSpell == Init => SpellInv
BY DEF Init, SpellInv, ExtensionInv, CouplingInv, ExponentsInv, Decoding

(* However the blocks of a frame turn coupling on and off, move channels   *)
(* in and out of it and restate or reuse, what a coupled block uses was    *)
(* read since coupling last came up, and in an enhanced frame since the    *)
(* channel last joined: for any number of channels and blocks.             *)
THEOREM CouplingStaysInItsSpell == Spec => []CouplingIsOfThisSpell
<1>1. TypeOK /\ SpellInv => CouplingIsOfThisSpell
  <2> SUFFICES ASSUME TypeOK, SpellInv, pc = "mantissas", cplinu
               PROVE  /\ <<"exp", Cpl>> \in spell
                      /\ enhanced => /\ <<"leak", Cpl>> \in spell
                                     /\ \A c \in chincpl : <<"cpl", c>> \in spell
    BY DEF CouplingIsOfThisSpell
  <2>1. <<"exp", Cpl>> \in spell
    BY DEF SpellInv, ExponentsInv, Decoding
  <2>2. enhanced => <<"leak", Cpl>> \in spell
    BY DEF SpellInv, CouplingInv, Decoding
  <2>3. ASSUME enhanced, NEW c \in chincpl PROVE <<"cpl", c>> \in spell
    <3>1. c \in chans \ firstCplCoords
      BY <2>3 DEF SpellInv, CouplingInv, Decoding, TypeOK
    <3>2. QED
      BY <2>3, <3>1 DEF SpellInv, CouplingInv, Decoding
  <2>4. QED
    BY <2>1, <2>2, <2>3
<1>2. QED
  BY <1>1, InitType, StepType, InitSpell, StepSpell, PTL DEF Spec

(* The same of the spectral extension's gains.                             *)
THEOREM ExtensionStaysInItsSpell == Spec => []ExtensionIsOfThisSpell
<1>1. TypeOK /\ SpellInv => ExtensionIsOfThisSpell
  <2> SUFFICES ASSUME TypeOK, SpellInv, NEW c \in chinspx,
                      pc \in {"coupling", "coords", "exponents", "alloc", "mantissas"}
               PROVE  <<"spx", c>> \in spell
    BY DEF ExtensionIsOfThisSpell
  <2>1. spxinu /\ c \in chans
    BY DEF TypeOK
  <2>2. enhanced
    BY <2>1 DEF SpellInv, ExtensionInv, Decoding
  <2>3. c \notin firstSpxCoords
    BY <2>2 DEF SpellInv, ExtensionInv, Decoding
  <2>4. QED
    BY <2>1, <2>2, <2>3 DEF SpellInv, ExtensionInv, Decoding
<1>2. QED
  BY <1>1, InitType, StepType, InitSpell, StepSpell, PTL DEF Spec

-----------------------------------------------------------------------------
(* What a frame owns.                                                      *)

LEMMA BeginFrameOwn == BeginFrame => OwnInv'
<1> SUFFICES ASSUME BeginFrame PROVE OwnInv'
  OBVIOUS
<1>1. /\ blk' = 0 /\ pc' \in {"extension", "coupling"} /\ spell' = {}
      /\ ResetParameters \subseteq stated' /\ cplco' = Channels
  BY DEF BeginFrame, FirstPart, ResetGains
<1>2. QED
  BY <1>1 DEF OwnInv, Decoding

LEMMA ReadExtensionOwn == TypeOK /\ OwnInv /\ ReadExtension => OwnInv'
<1> SUFFICES ASSUME TypeOK, OwnInv, ReadExtension PROVE OwnInv'
  OBVIOUS
<1>1. /\ pc = "extension" /\ pc' = "coupling"
      /\ UNCHANGED <<frame, blk, chincpl, cplBegin, cplEnd, usesAHT, cplco,
                     preMantissa>>
      /\ enhanced' = enhanced
  BY DEF ReadExtension, cplVars, enhanced
<1>2. stated \subseteq stated'
  BY DEF ReadExtension, ReadSpxStrategy
<1>3. <<"leak", Cpl>> \in spell' => <<"leak", Cpl>> \in spell
  BY DEF ReadExtension, GainsOfSpell
<1>4. QED
  BY <1>1, <1>2, <1>3 DEF OwnInv, Decoding

LEMMA ReadCouplingStrategyOwn ==
  TypeOK /\ OwnInv /\ ReadCouplingStrategy => OwnInv'
<1> SUFFICES ASSUME TypeOK, OwnInv, ReadCouplingStrategy PROVE OwnInv'
  OBVIOUS
<1>1. /\ pc = "coupling" /\ pc' = "coords"
      /\ UNCHANGED <<frame, blk, usesAHT, cplco, preMantissa, spell>>
      /\ enhanced' = enhanced
  BY DEF ReadCouplingStrategy, dataVars, enhanced
<1>2. stated \subseteq stated'
  BY DEF ReadCouplingStrategy, KeepStrategy, StopCoupling, StateCoupling
<1>3. enhanced /\ Cpl \in usesAHT /\ blk # 0 =>
        UNCHANGED <<chincpl, cplBegin, cplEnd>>
  BY DEF ReadCouplingStrategy, KeepStrategy, StopCoupling, StateCoupling,
         MayRestate, cplVars
<1>4. QED
  BY <1>1, <1>2, <1>3 DEF OwnInv, Decoding

LEMMA ReadCouplingCoordsOwn == TypeOK /\ OwnInv /\ ReadCouplingCoords => OwnInv'
<1> SUFFICES ASSUME TypeOK, OwnInv, ReadCouplingCoords PROVE OwnInv'
  OBVIOUS
<1>1. /\ pc = "coords" /\ pc' = "exponents"
      /\ UNCHANGED <<frame, blk, chincpl, cplBegin, cplEnd, usesAHT, preMantissa,
                     stated>>
      /\ enhanced' = enhanced
  BY DEF ReadCouplingCoords, cplVars, enhanced
<1>2. cplco' = Channels
  <2>1. chincpl \subseteq Channels
    BY ModeChannelsAreChannels DEF TypeOK, chans
  <2>2. cplco = Channels
    BY <1>1 DEF OwnInv, Decoding
  <2>3. QED
    BY <2>1, <2>2 DEF ReadCouplingCoords
<1>3. <<"leak", Cpl>> \in spell' => <<"leak", Cpl>> \in spell
  BY DEF ReadCouplingCoords, GainsOfSpell
<1>4. QED
  BY <1>1, <1>2, <1>3 DEF OwnInv, Decoding

LEMMA ReadExponentsOwn == TypeOK /\ OwnInv /\ ReadExponents => OwnInv'
<1> SUFFICES ASSUME TypeOK, OwnInv, ReadExponents PROVE OwnInv'
  OBVIOUS
<1>1. /\ pc = "exponents" /\ pc' = "alloc"
      /\ UNCHANGED <<frame, blk, chincpl, cplBegin, cplEnd, usesAHT, cplco,
                     preMantissa, stated>>
      /\ enhanced' = enhanced
  BY DEF ReadExponents, cplVars, enhanced
<1>2. <<"leak", Cpl>> \in spell' => <<"leak", Cpl>> \in spell
  BY DEF ReadExponents
<1>3. QED
  BY <1>1, <1>2 DEF OwnInv, Decoding

(* What the side information of a block states: in block 0 the gains, by   *)
(* default if need be, and in an AC-3 block 0 the offsets.                 *)
LEMMA FirstBlockStatesGains ==
  ASSUME blk = 0, NEW o \in Offsets, MustStateOffsets => o # {}
  PROVE  /\ "gain" \in o
         /\ ~enhanced => /\ "snr" \in o
                         /\ cplinu => {"cplSnr", "cplGain"} \subseteq o
<1>1. CASE ~enhanced
  BY <1>1 DEF Offsets, MustStateOffsets, WithCpl
<1>2. CASE enhanced
  <2>1. PICK g \in {WithCpl({"gain"}, {"cplGain"}), DefaultGain} : g \subseteq o
    BY <1>2 DEF Offsets
  <2>2. "gain" \in g
    BY <2>1 DEF WithCpl, DefaultGain
  <2>3. QED
    BY <1>2, <2>1, <2>2
<1>3. QED
  BY <1>1, <1>2

LEMMA ReadBitAllocInfoOwn == TypeOK /\ OwnInv /\ ReadBitAllocInfo => OwnInv'
<1> SUFFICES ASSUME TypeOK, OwnInv, ReadBitAllocInfo PROVE OwnInv'
  OBVIOUS
<1>1. /\ pc = "alloc" /\ pc' = "mantissas"
      /\ UNCHANGED <<frame, blk, chincpl, cplBegin, cplEnd, usesAHT, cplco,
                     preMantissa>>
      /\ enhanced' = enhanced
  BY DEF ReadBitAllocInfo, cplVars, dataVars, enhanced
<1>2. PICK model \in {{}, {"model"}}, offsets \in Offsets, leak \in {{}, {"cplLeak"}} :
        /\ MustStateModel => model # {}
        /\ MustStateOffsets => offsets # {}
        /\ stated' = stated \union model \union offsets \union leak
        /\ spell' = IF leak # {} THEN spell \union {<<"leak", Cpl>>}
                    ELSE IF cplinu THEN spell ELSE spell \ {<<"leak", Cpl>>}
  BY DEF ReadBitAllocInfo
<1>3. stated \subseteq stated'
  BY <1>2
<1>4. /\ {"model", "gain"} \subseteq stated'
      /\ ~enhanced => "snr" \in stated'
  <2>1. CASE blk = 0
    <3>1. "model" \in stated'
      BY <1>2, <2>1 DEF MustStateModel
    <3>2. "gain" \in offsets /\ (~enhanced => "snr" \in offsets)
      BY <1>2, <2>1, FirstBlockStatesGains
    <3>3. QED
      BY <1>2, <3>1, <3>2
  <2>2. CASE blk # 0
    BY <1>1, <1>3, <2>2 DEF OwnInv, Decoding
  <2>3. QED
    BY <2>1, <2>2
<1>5. <<"leak", Cpl>> \in spell' => "cplLeak" \in stated'
  <2>1. CASE leak # {}
    BY <1>2, <2>1
  <2>2. CASE leak = {}
    BY <1>1, <1>2, <1>3, <2>2 DEF OwnInv, Decoding
  <2>3. QED
    BY <2>1, <2>2
<1>6. QED
  BY <1>1, <1>3, <1>4, <1>5 DEF OwnInv, Decoding

LEMMA ReadMantissasOwn == TypeOK /\ OwnInv /\ ReadMantissas => OwnInv'
<1> SUFFICES ASSUME TypeOK, OwnInv, ReadMantissas PROVE OwnInv'
  OBVIOUS
<1>1. /\ pc = "mantissas"
      /\ UNCHANGED <<frame, cplinu, chincpl, cplBegin, cplEnd, usesAHT, cplco,
                     stated, spell>>
      /\ enhanced' = enhanced
      /\ pc' \in {"idle", "extension", "coupling"}
  BY DEF ReadMantissas, cplVars, enhanced, FirstPart
<1>2. chincpl # {} => cplinu
  BY DEF TypeOK
<1>3. ASSUME enhanced, Cpl \in usesAHT, chincpl # {}
      PROVE  cplBegin + 1 .. cplEnd \subseteq preMantissa'[Cpl]
  <2>1. Cpl \in All /\ Cpl \in Read
    BY <1>2, <1>3 DEF All, Read
  <2>2. preMantissa'[Cpl] = IF blk = 0 /\ Cpl \in Read \intersect usesAHT
                            THEN Coded(Cpl, reach) ELSE preMantissa[Cpl]
    BY <2>1 DEF ReadMantissas
  <2>3. CASE blk = 0
    BY <1>3, <2>1, <2>2, <2>3 DEF Coded
  <2>4. CASE blk # 0
    BY <1>1, <1>3, <2>2, <2>4 DEF OwnInv, Decoding
  <2>5. QED
    BY <2>3, <2>4
<1>4. QED
  BY <1>1, <1>3 DEF OwnInv, Decoding

LEMMA StepOwn == TypeOK /\ OwnInv /\ [Next]_vars => OwnInv'
<1> SUFFICES ASSUME TypeOK, OwnInv, [Next]_vars PROVE OwnInv'
  OBVIOUS
<1>1. CASE Abandon
  BY <1>1 DEF Abandon, OwnInv, Decoding
<1>2. CASE UNCHANGED vars
  BY <1>2 DEF vars, cplVars, dataVars, OwnInv, Decoding, enhanced
<1>3. CASE Next /\ ~Abandon
  BY <1>3, BeginFrameOwn, ReadExtensionOwn, ReadCouplingStrategyOwn,
     ReadCouplingCoordsOwn, ReadExponentsOwn, ReadBitAllocInfoOwn,
     ReadMantissasOwn DEF Next
<1>4. QED
  BY <1>1, <1>2, <1>3

LEMMA InitOwn == Init => OwnInv
BY DEF Init, OwnInv, Decoding

-----------------------------------------------------------------------------
(* What a block borrows.                                                   *)

(* What the invariants rule out of what one block borrows.                 *)
LEMMA BorrowedIsNotOwned ==
  ASSUME TypeOK, SpellInv, OwnInv, ReadMantissas
  PROVE  /\ Borrowed \intersect {"model", "gain", "delta", "noise", "cplGains",
                                 "remat", "phase"} = {}
         /\ enhanced => Borrowed \intersect {"cplLeak", "usesAHT",
                                             "cplPreMantissa"} = {}
         /\ ~enhanced => Borrowed \intersect {"snr", "cplBands", "spxBands",
                                              "spxGains"} = {}
<1>1. /\ pc = "mantissas" /\ chincpl \subseteq Channels
      /\ (chinspx # {} => spxinu)
  BY ModeChannelsAreChannels DEF ReadMantissas, TypeOK, chans
<1>2. /\ {"model", "gain", "delta", "noise", "remat", "phase"} \subseteq stated
      /\ ~enhanced => "snr" \in stated
      /\ cplco = Channels
  BY <1>1 DEF OwnInv, Decoding, ResetParameters
<1>3. enhanced /\ cplinu => "cplLeak" \in stated
  BY <1>1 DEF SpellInv, CouplingInv, OwnInv, Decoding
<1>4. ~enhanced => chinspx = {}
  BY <1>1 DEF SpellInv, ExtensionInv, Decoding
<1>5. chincpl \subseteq cplco
  BY <1>1, <1>2
<1>6. enhanced => Lacking("cplPreMantissa", (Read \ chans) \intersect usesAHT,
                          preMantissa') = {}
  <2>1. SUFFICES ASSUME enhanced, NEW c \in (Read \ chans) \intersect usesAHT
                 PROVE  Coded(c, reach) \subseteq preMantissa'[c]
    BY DEF Lacking
  <2>2. c = Cpl /\ Cpl \in usesAHT /\ chincpl # {} /\ Cpl \in Read
    BY <2>1 DEF Read
  <2>3. preMantissa'[Cpl] = IF blk = 0 THEN Coded(Cpl, reach) ELSE preMantissa[Cpl]
    BY <2>2 DEF ReadMantissas, All
  <2>4. CASE blk = 0
    BY <2>2, <2>3, <2>4
  <2>5. CASE blk # 0
    <3>1. cplBegin + 1 .. cplEnd \subseteq preMantissa[Cpl]
      BY <1>1, <2>1, <2>2, <2>5 DEF OwnInv, Decoding
    <3>2. QED
      BY <2>2, <2>3, <2>5, <3>1 DEF Coded
  <2>6. QED
    BY <2>4, <2>5
<1>7. QED
  BY <1>2, <1>3, <1>4, <1>5, <1>6 DEF Borrowed, UsedParameters, Lacking, When

LEMMA StepBorrows ==
  TypeOK /\ SpellInv /\ OwnInv /\ BlocksOwnWhatTheyUse /\ [Next]_vars
    => BlocksOwnWhatTheyUse'
<1> SUFFICES ASSUME TypeOK, SpellInv, OwnInv, BlocksOwnWhatTheyUse, [Next]_vars
             PROVE  BlocksOwnWhatTheyUse'
  OBVIOUS
<1>1. CASE BeginFrame \/ Abandon
  BY <1>1 DEF BeginFrame, Abandon, BlocksOwnWhatTheyUse
<1>2. CASE ReadMantissas
  <2>1. inherited' = inherited \union Borrowed /\ enhanced' = enhanced
    BY <1>2 DEF ReadMantissas, enhanced
  <2>2. QED
    BY <1>2, <2>1, BorrowedIsNotOwned DEF BlocksOwnWhatTheyUse
<1>3. CASE ReadExtension
  <2>1. enhanced' = enhanced /\ inherited' \subseteq inherited \union {"spxBands"}
    BY <1>3 DEF ReadExtension, ReadSpxStrategy, enhanced
  <2>2. enhanced
    BY <1>3 DEF ReadExtension, SpellInv, ExtensionInv, Decoding
  <2>3. QED
    BY <2>1, <2>2 DEF BlocksOwnWhatTheyUse
<1>4. CASE ReadCouplingStrategy
  <2>1. /\ enhanced' = enhanced
        /\ inherited' \subseteq inherited \union (IF enhanced THEN {"cplBands"} ELSE {})
    BY <1>4 DEF ReadCouplingStrategy, KeepStrategy, StopCoupling, StateCoupling,
                enhanced
  <2>2. QED
    BY <2>1 DEF BlocksOwnWhatTheyUse
<1>5. CASE ReadCouplingCoords \/ ReadExponents \/ ReadBitAllocInfo
            \/ UNCHANGED vars
  <2>1. UNCHANGED <<frame, inherited>>
    BY <1>5 DEF ReadCouplingCoords, ReadExponents, ReadBitAllocInfo, vars
  <2>2. QED
    BY <2>1 DEF BlocksOwnWhatTheyUse, enhanced
<1>6. QED
  BY <1>1, <1>2, <1>3, <1>4, <1>5 DEF Next

(* For any channels, any number of blocks and any grid, a frame never uses *)
(* an earlier frame's model, fast gains, delta allocation, coupling gains, *)
(* rematrix and phase flags or noise; an AC-3 frame not its SNR offsets or *)
(* band structures; an enhanced one not its leak levels or hybrid          *)
(* transform flags, nor over all its blocks a coupling channel's           *)
(* mantissas that block 0 did not read.                                    *)
THEOREM FramesOwnWhatTheyUse == Spec => []BlocksOwnWhatTheyUse
<1>1. Init => BlocksOwnWhatTheyUse
  BY DEF Init, BlocksOwnWhatTheyUse
<1>2. QED
  BY <1>1, InitType, StepType, InitSpell, StepSpell, InitOwn, StepOwn, StepBorrows,
     PTL DEF Spec

-----------------------------------------------------------------------------
(* The first block of an AC-3 frame.                                       *)

LEMMA StepFirstBlock ==
  TypeOK /\ SpellInv /\ OwnInv /\ FirstBlockInv /\ [Next]_vars => FirstBlockInv'
<1> SUFFICES ASSUME TypeOK, SpellInv, OwnInv, FirstBlockInv, [Next]_vars,
                    Decoding', ~enhanced', blk' = 0
             PROVE  /\ inherited' = {}
                    /\ pc' \in {"coupling", "coords", "exponents"} => ~cplinuPrev'
                    /\ pc' \in {"alloc", "mantissas"} =>
                         \A c \in Allocated' : Coded(c, reach)' \subseteq exp'[c]
                    /\ pc' = "mantissas" =>
                         /\ "snr" \in stated'
                         /\ cplinu' => {"cplSnr", "cplGain"} \subseteq stated'
  BY DEF FirstBlockInv
<1>1. CASE BeginFrame
  BY <1>1 DEF BeginFrame, FirstPart
<1>2. CASE Abandon
  BY <1>2 DEF Abandon, Decoding
<1>3. CASE ReadExtension
  BY <1>3 DEF ReadExtension, SpellInv, ExtensionInv, Decoding, enhanced
<1>4. CASE ReadCouplingStrategy
  <2>1. /\ pc = "coupling" /\ pc' = "coords" /\ blk = 0 /\ ~enhanced
        /\ UNCHANGED cplinuPrev
    BY <1>4 DEF ReadCouplingStrategy, enhanced
  <2>2. inherited' = inherited
    BY <1>4, <2>1 DEF ReadCouplingStrategy, KeepStrategy, StopCoupling, StateCoupling
  <2>3. QED
    BY <2>1, <2>2 DEF FirstBlockInv, Decoding
<1>5. CASE ReadCouplingCoords
  BY <1>5 DEF ReadCouplingCoords, FirstBlockInv, Decoding, enhanced
<1>6. CASE ReadExponents
  <2>1. /\ pc = "exponents" /\ pc' = "alloc" /\ blk = 0 /\ ~enhanced
        /\ UNCHANGED <<frame, inherited, cplinu, chincpl, chinspx, cplBegin, cplEnd,
                       spxBegin>>
        /\ chans' = chans
    BY <1>6 DEF ReadExponents, cplVars, spxVars, enhanced, chans
  <2>2. inherited = {} /\ ~cplinuPrev
    BY <2>1 DEF FirstBlockInv, Decoding
  <2>3. PICK new : /\ MustReadExponents \subseteq new
                   /\ Cpl \in new \/ MayReuseCpl
                   /\ exp' = [c \in All |-> IF c \in new THEN exp[c] \union Coded(c, reach')
                                            ELSE exp[c]]
    BY <1>6 DEF ReadExponents
  <2>4. Allocated' = Allocated /\ Allocated \subseteq new /\ Allocated \subseteq All
    <3>1. chans \subseteq new
      BY <2>1, <2>3 DEF MustReadExponents
    <3>2. cplinu => Cpl \in new
      BY <2>2, <2>3 DEF MayReuseCpl
    <3>3. chans \subseteq Channels
      BY ModeChannelsAreChannels DEF TypeOK, chans
    <3>4. QED
      BY <2>1, <3>1, <3>2, <3>3 DEF Allocated, All
  <2>5. \A c : Coded(c, reach)' = Coded(c, reach')
    BY <2>1 DEF Coded
  <2>6. ASSUME NEW c \in Allocated' PROVE Coded(c, reach)' \subseteq exp'[c]
    <3>1. exp'[c] = exp[c] \union Coded(c, reach')
      BY <2>3, <2>4
    <3>2. QED
      BY <2>5, <3>1
  <2>7. QED
    BY <2>1, <2>2, <2>6
<1>7. CASE ReadBitAllocInfo
  <2>1. /\ pc = "alloc" /\ pc' = "mantissas" /\ blk = 0 /\ ~enhanced
        /\ UNCHANGED <<frame, inherited, cplinu, chincpl, chinspx, cplBegin, cplEnd,
                       spxBegin, reach, exp>>
        /\ chans' = chans
    BY <1>7 DEF ReadBitAllocInfo, cplVars, spxVars, dataVars, enhanced, chans
  <2>2. \A c \in Allocated : Coded(c, reach) \subseteq exp[c]
    BY <2>1 DEF FirstBlockInv, Decoding
  <2>3. \A c \in Allocated' : Coded(c, reach)' \subseteq exp'[c]
    BY <2>1, <2>2 DEF Allocated, Coded
  <2>4. PICK offsets \in Offsets :
          /\ MustStateOffsets => offsets # {}
          /\ offsets \subseteq stated'
    BY <1>7 DEF ReadBitAllocInfo
  <2>5. /\ "snr" \in stated'
        /\ cplinu => {"cplSnr", "cplGain"} \subseteq stated'
    BY <2>1, <2>4, FirstBlockStatesGains
  <2>6. QED
    BY <2>1, <2>3, <2>5 DEF FirstBlockInv, Decoding
<1>8. CASE ReadMantissas
  <2>1. pc' = "idle" \/ blk' = blk + 1
    BY <1>8 DEF ReadMantissas
  <2>2. blk \in Nat
    BY FramesAssumption DEF TypeOK
  <2>3. QED
    BY <2>1, <2>2 DEF Decoding
<1>9. CASE UNCHANGED vars
  BY <1>9 DEF vars, cplVars, spxVars, dataVars, FirstBlockInv, Decoding, enhanced,
              Allocated, Coded, chans
<1>10. QED
  BY <1>1, <1>2, <1>3, <1>4, <1>5, <1>6, <1>7, <1>8, <1>9 DEF Next

LEMMA StepFirstBlockStandsAlone ==
  TypeOK /\ SpellInv /\ OwnInv /\ FirstBlockInv /\ FirstBlockStandsAlone
    /\ [Next]_vars => FirstBlockStandsAlone'
<1> SUFFICES ASSUME TypeOK, SpellInv, OwnInv, FirstBlockInv,
                    FirstBlockStandsAlone, [Next]_vars,
                    ~enhanced', blk' = 1, pc' = "coupling", usesAHT' = {}
             PROVE  inherited' \subseteq {"cplLeak", "Cpl"}
  BY DEF FirstBlockStandsAlone
<1>1. CASE ReadMantissas
  <2>1. /\ pc = "mantissas" /\ blk = 0 /\ ~enhanced /\ usesAHT = {}
        /\ inherited' = inherited \union Borrowed
    <3>1. blk \in Nat
      BY FramesAssumption DEF TypeOK
    <3>2. QED
      BY <1>1, <3>1 DEF ReadMantissas, enhanced
  <2>2. inherited = {}
    BY <2>1 DEF FirstBlockInv, Decoding
  <2>3. UsedParameters \ stated \subseteq {"cplLeak"}
    <3>1. /\ "snr" \in stated
          /\ cplinu => {"cplSnr", "cplGain"} \subseteq stated
      BY <2>1 DEF FirstBlockInv, Decoding
    <3>2. {"model", "gain", "delta", "noise", "remat", "phase"} \subseteq stated
      BY <2>1 DEF OwnInv, Decoding, ResetParameters
    <3>3. QED
      BY <3>1, <3>2 DEF UsedParameters
  <2>4. \A c \in Allocated : Coded(c, reach) \subseteq exp[c]
    BY <2>1 DEF FirstBlockInv, Decoding
  <2>5. /\ Lacking("exponents", chans, exp) = {}
        /\ Lacking("cplExponents", Allocated \ chans, exp) = {}
    BY <2>4 DEF Lacking, Allocated
  <2>6. /\ Lacking("preMantissa", chans \intersect usesAHT, preMantissa') = {}
        /\ Lacking("cplPreMantissa", (Read \ chans) \intersect usesAHT, preMantissa') = {}
        /\ Allocated \intersect usesAHT = {}
    BY <2>1 DEF Lacking
  <2>7. chinspx = {} /\ chincpl \subseteq cplco
    <3>1. ~spxinu /\ cplco = Channels
      BY <2>1 DEF SpellInv, ExtensionInv, OwnInv, Decoding
    <3>2. QED
      BY <3>1, ModeChannelsAreChannels DEF TypeOK, chans
  <2>8. Borrowed \subseteq {"cplLeak", "Cpl"}
    BY <2>3, <2>5, <2>6, <2>7 DEF Borrowed, When
  <2>9. QED
    BY <2>1, <2>2, <2>8
<1>2. CASE BeginFrame
  BY <1>2 DEF BeginFrame
<1>3. CASE ReadExtension
  BY <1>3 DEF ReadExtension, SpellInv, ExtensionInv, Decoding, enhanced
<1>4. CASE Abandon \/ ReadCouplingStrategy \/ ReadCouplingCoords \/ ReadExponents
            \/ ReadBitAllocInfo
  BY <1>4 DEF Abandon, ReadCouplingStrategy, ReadCouplingCoords, ReadExponents,
              ReadBitAllocInfo
<1>5. CASE UNCHANGED vars
  BY <1>5 DEF vars, FirstBlockStandsAlone, enhanced
<1>6. QED
  BY <1>1, <1>2, <1>3, <1>4, <1>5 DEF Next

(* The first block of an AC-3 frame uses nothing of the frame before but,  *)
(* where it couples, the leak levels no check asks for, and - if nobody is *)
(* coupled - what the block's coupling channel held; so long as no         *)
(* enhanced frame left its hybrid transform flags behind.                  *)
THEOREM FirstBlocksStandAlone == Spec => []FirstBlockStandsAlone
<1>1. Init => FirstBlockInv /\ FirstBlockStandsAlone
  BY DEF Init, FirstBlockInv, FirstBlockStandsAlone, Decoding
<1>2. QED
  BY <1>1, InitType, StepType, InitSpell, StepSpell, InitOwn, StepOwn,
     StepFirstBlock, StepFirstBlockStandsAlone, PTL DEF Spec

-----------------------------------------------------------------------------
(* Frames that state all they use in block 0.                              *)

(* What such a frame has settled: the arrangement of channels once the     *)
(* first block has stated it, and over it the exponents, the parameters of *)
(* the bit allocation, the hybrid transform's mantissas and the gains.     *)
Settled ==
  /\ blk = 0 /\ pc \in {"extension", "coupling"} => ~cplinu
  /\ blk = 0 /\ pc \notin {"alloc", "mantissas"} => ~cplinuPrev
  /\ blk = 0 /\ pc = "extension" => firstSpxCoords = Channels
  /\ blk = 0 /\ pc # "mantissas" /\ "snr" \in stated => "cplSnr" \in stated
  /\ cplinu => chincpl # {}
  /\ blk # 0 \/ pc # "extension" => \A c \in chinspx : nspxbnd <= spxco[c]
  /\ blk # 0 \/ pc \in {"alloc", "mantissas"} =>
       \A c \in Allocated : Coded(c, reach) \subseteq exp[c]
  /\ blk # 0 \/ pc = "mantissas" =>
       /\ "snr" \in stated
       /\ cplinu => {"cplSnr", "cplGain", "cplLeak"} \subseteq stated
  /\ blk # 0 => \A c \in Read \intersect usesAHT :
                  Coded(c, reach) \subseteq preMantissa[c]

(* The frames the invariant is about, and the invariant.                   *)
Steady == steady /\ (~enhanced => usesAHT = {})

SteadyInv == Steady => inherited = {} /\ (Decoding => Settled)

LEMMA BeginFrameSteady == TypeOK /\ BeginFrame => SteadyInv'
<1> SUFFICES ASSUME TypeOK, BeginFrame PROVE SteadyInv'
  OBVIOUS
<1>1. /\ blk' = 0 /\ pc' \in {"extension", "coupling"}
      /\ pc' = FirstPart(frame')
      /\ cplinu' = FALSE /\ cplinuPrev' = FALSE /\ chinspx' = {}
      /\ inherited' = {}
  BY DEF BeginFrame, FirstPart
<1>2. pc' = "extension" => firstSpxCoords' = Channels
  BY <1>1 DEF BeginFrame, FirstPart
<1>3. "snr" \in stated' => "cplSnr" \in stated'
  <2>1. CASE frame'.syntax = "eac3"
    <3>1. PICK p \in SUBSET {"model", "snr"} :
            stated' = ResetParameters \union p
                        \union (IF "snr" \in p THEN {"cplSnr"} ELSE {})
      BY <2>1 DEF BeginFrame
    <3>2. "snr" \in stated' => "snr" \in p
      BY <3>1 DEF ResetParameters
    <3>3. QED
      BY <3>1, <3>2
  <2>2. CASE frame'.syntax # "eac3"
    BY <2>2 DEF BeginFrame, ResetParameters
  <2>3. QED
    BY <2>1, <2>2
<1>4. Settled'
  BY <1>1, <1>2, <1>3 DEF Settled
<1>5. QED
  BY <1>1, <1>4 DEF SteadyInv

LEMMA ReadExtensionSteady ==
  TypeOK /\ SpellInv /\ SteadyInv /\ ReadExtension => SteadyInv'
<1> SUFFICES ASSUME TypeOK, SpellInv, SteadyInv, ReadExtension, Steady'
             PROVE  inherited' = {} /\ Settled'
  BY DEF SteadyInv
<1>1. /\ pc = "extension" /\ pc' = "coupling"
      /\ UNCHANGED <<frame, blk, cplinu, chincpl, cplBegin, cplEnd, cplinuPrev,
                     usesAHT, reach, exp, preMantissa>>
      /\ chans' = chans /\ enhanced' = enhanced
  BY DEF ReadExtension, cplVars, chans, enhanced
<1>2. steady /\ Steady
  <2>1. steady' => steady
    BY DEF ReadExtension, ReadSpxStrategy
  <2>2. QED
    BY <1>1, <2>1 DEF Steady
<1>3. inherited = {} /\ Settled
  BY <1>1, <1>2 DEF SteadyInv, Decoding
<1>4. PICK now \in SUBSET chinspx' :
        /\ chinspx' \intersect firstSpxCoords \subseteq now
        /\ spxco' = [c \in Channels |->
                       IF c \in now /\ spxco[c] < nspxbnd' THEN nspxbnd'
                       ELSE spxco[c]]
  BY DEF ReadExtension
<1>5. /\ chinspx' \subseteq Channels /\ nspxbnd' \in Nat
      /\ \A c \in Channels : spxco[c] \in Nat
  <2>1. TypeOK'
    BY ReadExtensionType
  <2>2. chans \subseteq Channels
    BY ModeChannelsAreChannels DEF TypeOK, chans
  <2>3. QED
    BY <1>1, <2>1, <2>2 DEF TypeOK
<1>6. CASE blk = 0
  <2>1. "snr" \in stated' => "cplSnr" \in stated'
    BY <1>1, <1>3, <1>6 DEF ReadExtension, ReadSpxStrategy, Settled
  <2>2. inherited' = inherited
    BY <1>6 DEF ReadExtension, ReadSpxStrategy
  <2>3. \A c \in chinspx' : nspxbnd' <= spxco'[c]
    <3>1. chinspx' \subseteq now
      BY <1>1, <1>3, <1>4, <1>5, <1>6 DEF Settled
    <3>2. QED
      BY <1>4, <1>5, <3>1
  <2>4. QED
    BY <1>1, <1>3, <1>6, <2>1, <2>2, <2>3 DEF Settled
<1>7. CASE blk # 0
  <2>1. UNCHANGED <<spxVars, stated, inherited>>
    BY <1>7 DEF ReadExtension, ReadSpxStrategy, Steady
  <2>2. \A c \in chinspx' : nspxbnd' <= spxco'[c]
    <3>1. \A c \in chinspx : nspxbnd <= spxco[c]
      BY <1>3, <1>7 DEF Settled
    <3>2. QED
      BY <1>4, <1>5, <2>1, <3>1 DEF spxVars
  <2>3. /\ Allocated' = Allocated /\ Read' = Read
        /\ \A c : Coded(c, reach)' = Coded(c, reach)
    BY <1>1, <2>1 DEF Allocated, Read, Coded, spxVars
  <2>4. QED
    BY <1>1, <1>3, <1>7, <2>1, <2>2, <2>3 DEF Settled
<1>8. QED
  BY <1>6, <1>7

LEMMA ReadCouplingStrategySteady ==
  TypeOK /\ SteadyInv /\ ReadCouplingStrategy => SteadyInv'
<1> SUFFICES ASSUME TypeOK, SteadyInv, ReadCouplingStrategy, Steady'
             PROVE  inherited' = {} /\ Settled'
  BY DEF SteadyInv
<1>1. /\ pc = "coupling" /\ pc' = "coords"
      /\ UNCHANGED <<frame, blk, cplinuPrev, spxinu, chinspx, spxBegin, nspxbnd,
                     usesAHT, spxco, reach, exp, preMantissa>>
      /\ chans' = chans /\ enhanced' = enhanced
  BY DEF ReadCouplingStrategy, spxVars, dataVars, chans, enhanced
<1>2. Steady
  <2>1. steady' => steady
    BY DEF ReadCouplingStrategy, KeepStrategy, StopCoupling, StateCoupling
  <2>2. QED
    BY <1>1, <2>1 DEF Steady
<1>3. inherited = {} /\ Settled
  BY <1>1, <1>2 DEF SteadyInv, Decoding
<1>4. \A c \in chinspx' : nspxbnd' <= spxco'[c]
  BY <1>1, <1>3 DEF Settled
<1>5. CASE KeepStrategy
  <2>1. UNCHANGED <<cplinu, chincpl, cplBegin, cplEnd, stated, inherited>>
    BY <1>5 DEF KeepStrategy, cplVars
  <2>2. /\ Allocated' = Allocated /\ Read' = Read
        /\ \A c : Coded(c, reach)' = Coded(c, reach)
    BY <1>1, <2>1 DEF Allocated, Read, Coded
  <2>3. QED
    BY <1>1, <1>3, <1>4, <2>1, <2>2 DEF Settled
<1>6. CASE StopCoupling \/ StateCoupling
  <2>1. blk = 0
    BY <1>6 DEF StopCoupling, StateCoupling, Steady
  <2>2. /\ cplinu' => chincpl' # {}
        /\ inherited' = inherited
        /\ stated' \subseteq stated \union {"cplBands"} /\ stated \subseteq stated'
    BY <1>6, <2>1 DEF StopCoupling, StateCoupling, Steady
  <2>3. QED
    BY <1>1, <1>3, <1>4, <2>1, <2>2 DEF Settled
<1>7. QED
  BY <1>5, <1>6 DEF ReadCouplingStrategy

LEMMA ReadCouplingCoordsSteady ==
  TypeOK /\ SteadyInv /\ ReadCouplingCoords => SteadyInv'
<1> SUFFICES ASSUME TypeOK, SteadyInv, ReadCouplingCoords, Steady'
             PROVE  inherited' = {} /\ Settled'
  BY DEF SteadyInv
<1>1. /\ pc = "coords" /\ pc' = "exponents"
      /\ UNCHANGED <<frame, blk, cplinu, chincpl, cplBegin, cplEnd, cplinuPrev,
                     spxinu, chinspx, spxBegin, nspxbnd, usesAHT, stated, spxco,
                     reach, exp, preMantissa, inherited, steady>>
      /\ chans' = chans /\ enhanced' = enhanced
  BY DEF ReadCouplingCoords, cplVars, spxVars, chans, enhanced
<1>2. inherited = {} /\ Settled
  BY <1>1 DEF SteadyInv, Steady, Decoding
<1>3. /\ Allocated' = Allocated /\ Read' = Read
      /\ \A c : Coded(c, reach)' = Coded(c, reach)
  BY <1>1 DEF Allocated, Read, Coded
<1>4. QED
  BY <1>1, <1>2, <1>3 DEF Settled

LEMMA ReadExponentsSteady ==
  TypeOK /\ SteadyInv /\ ReadExponents => SteadyInv'
<1> SUFFICES ASSUME TypeOK, SteadyInv, ReadExponents, Steady'
             PROVE  inherited' = {} /\ Settled'
  BY DEF SteadyInv
<1>1. /\ pc = "exponents" /\ pc' = "alloc"
      /\ UNCHANGED <<frame, blk, cplinu, chincpl, cplBegin, cplEnd, spxinu,
                     chinspx, spxBegin, nspxbnd, usesAHT, stated, spxco,
                     preMantissa, inherited>>
      /\ chans' = chans /\ enhanced' = enhanced
  BY DEF ReadExponents, cplVars, spxVars, firstVars, chans, enhanced
<1>2. PICK new \in SUBSET (chans \union (IF cplinu THEN {Cpl} ELSE {})) :
        /\ Cpl \in new \/ MayReuseCpl
        /\ enhanced /\ blk # 0 => new \intersect usesAHT = {}
        /\ \E w \in [(new \intersect Channels) \ (chincpl \union chinspx) -> Widths] :
             reach' = [c \in Channels |-> IF c \in DOMAIN w THEN w[c] ELSE reach[c]]
        /\ exp' = [c \in All |-> IF c \in new THEN exp[c] \union Coded(c, reach')
                                 ELSE exp[c]]
        /\ steady' = (steady /\ (blk = 0 => chans \subseteq new))
  BY DEF ReadExponents
<1>3. Steady /\ (blk = 0 => chans \subseteq new)
  BY <1>1, <1>2 DEF Steady
<1>4. inherited = {} /\ Settled
  BY <1>1, <1>3 DEF SteadyInv, Decoding
<1>5. chans \subseteq Channels /\ Allocated \subseteq All /\ Read \subseteq All
  BY ModeChannelsAreChannels DEF TypeOK, chans, Allocated, Read, All
<1>6. /\ Allocated' = Allocated /\ Read' = Read
      /\ \A c : Coded(c, reach)' = Coded(c, reach')
  BY <1>1 DEF Allocated, Read, Coded
<1>7. ASSUME NEW c \in All, c \notin new
      PROVE  Coded(c, reach') = Coded(c, reach)
  <2>1. CASE c = Cpl
    BY <2>1 DEF Coded
  <2>2. CASE c # Cpl
    <3>1. c \in Channels
      BY <2>2 DEF All
    <3>2. reach'[c] = reach[c]
      BY <1>2, <1>7, <3>1
    <3>3. QED
      BY <2>2, <3>2 DEF Coded
  <2>3. QED
    BY <2>1, <2>2
<1>8. ASSUME NEW c \in Allocated
      PROVE  Coded(c, reach') \subseteq exp'[c]
  <2>1. c \in All /\ exp'[c] = IF c \in new THEN exp[c] \union Coded(c, reach')
                               ELSE exp[c]
    BY <1>2, <1>5, <1>8
  <2>2. CASE c \in new
    BY <2>1, <2>2
  <2>3. CASE c \notin new
    <3>1. blk # 0
      BY <1>1, <1>2, <1>3, <1>4, <1>8, <2>3 DEF Allocated, Settled, MayReuseCpl
    <3>2. Coded(c, reach) \subseteq exp[c]
      BY <1>4, <1>8, <3>1 DEF Settled
    <3>3. QED
      BY <1>7, <2>1, <2>3, <3>2
  <2>4. QED
    BY <2>2, <2>3
<1>9. ASSUME blk # 0, NEW c \in Read \intersect usesAHT
      PROVE  Coded(c, reach') \subseteq preMantissa[c]
  <2>1. c \notin new
    BY <1>2, <1>3, <1>9 DEF Steady
  <2>2. Coded(c, reach) \subseteq preMantissa[c]
    BY <1>4, <1>9 DEF Settled
  <2>3. QED
    BY <1>5, <1>7, <1>9, <2>1, <2>2
<1>10. QED
  BY <1>1, <1>4, <1>6, <1>8, <1>9 DEF Settled

(* What a block states of offsets it states of the coupling channel too,   *)
(* and in block 0 the coupling channel's gain in any case.                 *)
LEMMA OffsetsAreOfCpl ==
  ASSUME NEW o \in Offsets, cplinu
  PROVE  /\ "snr" \in o => "cplSnr" \in o
         /\ blk = 0 /\ (MustStateOffsets => o # {}) => "cplGain" \in o
<1>1. CASE ~enhanced
  BY <1>1 DEF Offsets, MustStateOffsets, WithCpl
<1>2. CASE enhanced
  <2>1. PICK p \in {{}, {"snr", "cplSnr"}},
             g \in {{"gain", "cplGain"}, DefaultGain} : o = p \union g
    BY <1>2 DEF Offsets, WithCpl
  <2>2. "snr" \notin g /\ (blk = 0 => "cplGain" \in g)
    BY <2>1 DEF DefaultGain
  <2>3. QED
    BY <2>1, <2>2
<1>3. QED
  BY <1>1, <1>2

LEMMA ReadBitAllocInfoSteady ==
  TypeOK /\ SteadyInv /\ ReadBitAllocInfo => SteadyInv'
<1> SUFFICES ASSUME TypeOK, SteadyInv, ReadBitAllocInfo, Steady'
             PROVE  inherited' = {} /\ Settled'
  BY DEF SteadyInv
<1>1. /\ pc = "alloc" /\ pc' = "mantissas"
      /\ UNCHANGED <<frame, blk, cplinu, chincpl, cplBegin, cplEnd, spxinu,
                     chinspx, spxBegin, nspxbnd, usesAHT, spxco, reach, exp,
                     preMantissa, inherited>>
      /\ chans' = chans /\ enhanced' = enhanced
  BY DEF ReadBitAllocInfo, cplVars, spxVars, dataVars, chans, enhanced
<1>2. PICK model \in {{}, {"model"}}, offsets \in Offsets, leak \in {{}, {"cplLeak"}} :
        /\ MustStateOffsets => offsets # {}
        /\ stated' = stated \union model \union offsets \union leak
        /\ steady' = (steady /\ (blk = 0 => /\ "snr" \in stated'
                                           /\ (cplinu => leak # {})))
  BY DEF ReadBitAllocInfo
<1>3. Steady /\ (blk = 0 => "snr" \in stated' /\ (cplinu => leak # {}))
  BY <1>1, <1>2 DEF Steady
<1>4. inherited = {} /\ Settled
  BY <1>1, <1>3 DEF SteadyInv, Decoding
<1>5. /\ Allocated' = Allocated /\ Read' = Read
      /\ \A c : Coded(c, reach)' = Coded(c, reach)
  BY <1>1 DEF Allocated, Read, Coded
<1>6. /\ "snr" \in stated'
      /\ cplinu => {"cplSnr", "cplGain", "cplLeak"} \subseteq stated'
  <2>1. CASE blk # 0
    BY <1>2, <1>4, <2>1 DEF Settled
  <2>2. CASE blk = 0
    <3>1. cplinu => "cplLeak" \in stated' /\ "cplGain" \in stated'
      BY <1>2, <1>3, <2>2, OffsetsAreOfCpl
    <3>2. "snr" \in stated \/ "snr" \in offsets
      BY <1>2, <1>3, <2>2
    <3>3. cplinu => "cplSnr" \in stated'
      BY <1>1, <1>2, <1>4, <2>2, <3>2, OffsetsAreOfCpl DEF Settled
    <3>4. QED
      BY <1>3, <2>2, <3>1, <3>3
  <2>3. QED
    BY <2>1, <2>2
<1>7. QED
  BY <1>1, <1>4, <1>5, <1>6 DEF Settled

(* A steady frame's block borrows nothing.                                 *)
LEMMA SteadyBlocksBorrowNothing ==
  ASSUME TypeOK, SpellInv, OwnInv, Steady, Settled, ReadMantissas
  PROVE  /\ Borrowed = {}
         /\ \A c \in Read \intersect usesAHT : Coded(c, reach) \subseteq preMantissa'[c]
<1>1. /\ pc = "mantissas" /\ chincpl \subseteq Channels
      /\ chans \subseteq Channels /\ chinspx \subseteq Channels
  BY ModeChannelsAreChannels DEF ReadMantissas, TypeOK, chans
<1>2. /\ ResetParameters \union {"model", "gain", "snr"} \subseteq stated
      /\ cplinu => {"cplSnr", "cplGain", "cplLeak"} \subseteq stated
      /\ cplco = Channels
  BY <1>1 DEF OwnInv, Decoding, Settled
<1>3. UsedParameters \ stated = {}
  BY <1>2 DEF UsedParameters, ResetParameters
<1>4. \A c \in Allocated : Coded(c, reach) \subseteq exp[c]
  BY <1>1 DEF Settled
<1>5. /\ Lacking("exponents", chans, exp) = {}
      /\ Lacking("cplExponents", Allocated \ chans, exp) = {}
  BY <1>4 DEF Lacking, Allocated
<1>6. ASSUME NEW c \in Read \intersect usesAHT
      PROVE  Coded(c, reach) \subseteq preMantissa'[c]
  <2>1. c \in All
    BY <1>1 DEF Read, All
  <2>2. preMantissa'[c] = IF blk = 0 THEN Coded(c, reach) ELSE preMantissa[c]
    BY <1>6, <2>1 DEF ReadMantissas
  <2>3. QED
    BY <1>6, <2>2 DEF Settled
<1>7. /\ Lacking("preMantissa", chans \intersect usesAHT, preMantissa') = {}
      /\ Lacking("cplPreMantissa", (Read \ chans) \intersect usesAHT, preMantissa') = {}
  BY <1>6 DEF Lacking, Read
<1>8. When(~enhanced /\ Allocated \intersect usesAHT # {}, "usesAHT") = {}
  BY DEF When, Steady
<1>9. When(~(chincpl \subseteq cplco), "cplGains") = {}
  BY <1>1, <1>2 DEF When
<1>10. When(\E c \in chinspx : spxco[c] < nspxbnd, "spxGains") = {}
  <2>1. ASSUME NEW c \in chinspx PROVE ~(spxco[c] < nspxbnd)
    <3>1. nspxbnd <= spxco[c] /\ nspxbnd \in Nat /\ spxco[c] \in Nat
      BY <1>1 DEF Settled, TypeOK
    <3>2. QED
      BY <3>1
  <2>2. QED
    BY <2>1 DEF When
<1>11. When(Allocated # Read, "Cpl") = {}
  BY DEF When, Allocated, Read, Settled
<1>12. Borrowed = {}
  BY <1>3, <1>5, <1>7, <1>8, <1>9, <1>10, <1>11 DEF Borrowed
<1>13. QED
  BY <1>6, <1>12

LEMMA ReadMantissasSteady ==
  TypeOK /\ SpellInv /\ OwnInv /\ SteadyInv /\ ReadMantissas => SteadyInv'
<1> SUFFICES ASSUME TypeOK, SpellInv, OwnInv, SteadyInv, ReadMantissas, Steady'
             PROVE  inherited' = {} /\ (Decoding' => Settled')
  BY DEF SteadyInv
<1>1. /\ pc = "mantissas" /\ pc' \in {"idle", "extension", "coupling"}
      /\ UNCHANGED <<frame, cplinu, chincpl, cplBegin, cplEnd, spxinu, chinspx,
                     spxBegin, nspxbnd, usesAHT, stated, spxco, reach, exp,
                     steady>>
      /\ chans' = chans /\ enhanced' = enhanced
      /\ inherited' = inherited \union Borrowed
  BY DEF ReadMantissas, cplVars, spxVars, chans, enhanced, FirstPart
<1>2. Steady /\ inherited = {} /\ Settled
  BY <1>1 DEF SteadyInv, Steady, Decoding
<1>3. /\ Borrowed = {}
      /\ \A c \in Read \intersect usesAHT : Coded(c, reach) \subseteq preMantissa'[c]
  BY <1>2, SteadyBlocksBorrowNothing
<1>4. ASSUME Decoding' PROVE Settled'
  <2>1. blk' # 0
    <3>1. blk \in Nat /\ blk' = blk + 1
      BY <1>4, FramesAssumption DEF ReadMantissas, Decoding, TypeOK
    <3>2. QED
      BY <3>1
  <2>2. /\ Allocated' = Allocated /\ Read' = Read
        /\ \A c : Coded(c, reach)' = Coded(c, reach)
    BY <1>1 DEF Allocated, Read, Coded
  <2>3. QED
    BY <1>1, <1>2, <1>3, <2>1, <2>2 DEF Settled
<1>5. QED
  BY <1>1, <1>2, <1>3, <1>4

LEMMA StepSteady ==
  TypeOK /\ SpellInv /\ OwnInv /\ SteadyInv /\ [Next]_vars => SteadyInv'
<1> SUFFICES ASSUME TypeOK, SpellInv, OwnInv, SteadyInv, [Next]_vars
             PROVE  SteadyInv'
  OBVIOUS
<1>1. CASE Abandon
  BY <1>1 DEF Abandon, SteadyInv, Decoding
<1>2. CASE UNCHANGED vars
  BY <1>2 DEF vars, cplVars, spxVars, firstVars, dataVars, SteadyInv, Steady,
              Decoding, Settled, enhanced, chans, Allocated, Read, Coded
<1>3. CASE Next /\ ~Abandon
  BY <1>3, BeginFrameSteady, ReadExtensionSteady, ReadCouplingStrategySteady,
     ReadCouplingCoordsSteady, ReadExponentsSteady, ReadBitAllocInfoSteady,
     ReadMantissasSteady DEF Next
<1>4. QED
  BY <1>1, <1>2, <1>3

(* For any channels, any number of blocks and any grid, a frame whose      *)
(* block 0 states all it uses and whose later blocks leave the arrangement *)
(* of channels alone decodes on its own, under the hybrid transform too    *)
(* (decodeBlock, audblk.go:462, and decodeEAC3Block, audblk_eac3.go:21).   *)
THEOREM SteadyFramesDecodeAlone == Spec => []SteadyFramesStandAlone
<1>1. Init => SteadyInv
  BY DEF Init, SteadyInv, Decoding
<1>2. SteadyInv => SteadyFramesStandAlone
  BY DEF SteadyInv, Steady, SteadyFramesStandAlone
<1>3. QED
  BY <1>1, <1>2, InitType, StepType, InitSpell, StepSpell, InitOwn, StepOwn,
     StepSteady, PTL DEF Spec
=============================================================================
