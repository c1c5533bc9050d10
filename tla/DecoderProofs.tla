---------------------------- MODULE DecoderProofs ----------------------------
(***************************************************************************)
(* Whatever buffers a decoder is handed, with whatever options and resets  *)
(* between them: where a unit ends, what is overlapped with what, whose    *)
(* the samples are and whose the gains.                                    *)
(***************************************************************************)
EXTENDS Player, Recursion

(***************************************************************************)
(* How far a unit reaches.                                                 *)
(***************************************************************************)

(* Span chooses something: the last frame stepped over is the first that   *)
(* has none to step over behind it.                                        *)
LEMMA SpanIs ==
  ASSUME NEW b \in Seq(Frame), NEW from \in Nat, from <= Len(b)
  PROVE  /\ Span(b, from) \in from .. Len(b)
         /\ \A i \in from + 1 .. Span(b, from) : Attached(b[i])
         /\ Span(b, from) = Len(b) \/ ~Attached(b[Span(b, from) + 1])
<1> DEFINE Ends == {n \in from .. Len(b) : n = Len(b) \/ ~Attached(b[n + 1])}
<1>1. Len(b) \in Nat /\ Len(b) \in Ends /\ Ends \in SUBSET Nat
  OBVIOUS
<1>2. PICK n \in Ends : \A m \in Ends : n <= m
  BY <1>1, Least
<1>3. ASSUME NEW i \in from + 1 .. n PROVE Attached(b[i])
  <2>1. i - 1 \in from .. Len(b) /\ i - 1 < n /\ n \in Nat
    BY <1>1, <1>2, <1>3
  <2>2. i - 1 \notin Ends
    BY <2>1, <1>2
  <2> QED
    BY <2>1, <2>2
<1>4. \E m \in from .. Len(b) :
        /\ \A i \in from + 1 .. m : Attached(b[i])
        /\ m = Len(b) \/ ~Attached(b[m + 1])
  BY <1>2, <1>3
<1> QED
  BY <1>4 DEF Span

LEMMA BufferTyped ==
  ASSUME NEW b \in Buffers
  PROVE  /\ b \in Seq(Frame) /\ Len(b) \in Nat \ {0} /\ b[1] \in Frame
         /\ b[1].good <= b[1].blocks
         /\ Len(b) > 1 => b[2] \in Frame /\ b[2].good <= b[2].blocks
<1>1. b \in Seq(Frame) /\ b # <<>>
  BY BuffersAssumption
<1>2. Len(b) \in Nat \ {0}
  BY <1>1
<1> QED
  BY <1>1, <1>2, BuffersAssumption

(***************************************************************************)
(* Types.                                                                  *)
(***************************************************************************)

LEMMA SynthesizedTyped ==
  ASSUME NEW bank \in Bank, NEW n \in [Channels -> 0 .. MaxBlocks]
  PROVE  Synthesized(bank, n) \in Bank
BY DEF Synthesized, Bank, Tails, Aged

LEMMA BanksTyped ==
  ASSUME NEW bank \in Bank, NEW f \in Frame
  PROVE  Idle(bank) \in Bank /\ Synthesize(bank, f) \in Bank
<1>1. [c \in Channels |-> 0] \in [Channels -> 0 .. MaxBlocks]
  BY BuffersAssumption
<1>2. [c \in Channels |-> IF c \in Coded(f) THEN f.good ELSE 0]
        \in [Channels -> 0 .. MaxBlocks]
  BY BuffersAssumption DEF Frame
<1> QED
  BY <1>1, <1>2, SynthesizedTyped DEF Idle, Synthesize

LEMMA NoHeaderTyped == NoHeader \in Frame
<1>1. (CHOOSE l \in Levels : TRUE) \in Levels
  BY BuffersAssumption
<1> QED
  BY <1>1, BuffersAssumption DEF NoHeader, Frame, Strmtyps

LEMMA TypeInit == Init => TypeOK
<1> SUFFICES ASSUME Init PROVE TypeOK
  OBVIOUS
<1>1. Silent \in Bank
  BY BuffersAssumption DEF Silent, Silence, Bank, Tails
<1>2. Unmixed \in [{0, 1} -> 0 .. MaxBlocks]
  BY BuffersAssumption DEF Unmixed
<1>3. MaxBlocks \in 1 .. MaxBlocks /\ Off \in Widths
  BY BuffersAssumption
<1> QED
  BY <1>1, <1>2, <1>3, NoHeaderTyped DEF Init, TypeOK

LEMMA EnteredTyped ==
  ASSUME TypeOK, NEW b \in Buffers, Entered(b)
  PROVE  /\ h' \in Frame /\ h' = b[1] /\ b[1].whole
         /\ nsamp' \in 1 .. MaxBlocks /\ nsamp' = b[1].blocks
         /\ dmixChannels' = dmixChannels /\ targetLevel' = targetLevel
BY BufferTyped DEF Entered, Handed, asked, Length, Frame


(* The planes a downmix writes.                                            *)
LEMMA DecodesCoreTyped ==
  ASSUME TypeOK, NEW b \in Buffers, DecodesCore(b)
  PROVE  core' \in Bank /\ dmix' \in [{0, 1} -> 0 .. MaxBlocks]
<1>1. core' \in Bank
  BY BufferTyped, BanksTyped DEF DecodesCore, TypeOK
<1>2. b[1].blocks \in 0 .. MaxBlocks /\ 0 \in 0 .. MaxBlocks
  BY BufferTyped, BuffersAssumption DEF Frame
<1> QED
  BY <1>1, <1>2 DEF DecodesCore

(* A unit a call decoded ends inside its buffer, with its last whole frame.*)
LEMMA SpansTyped ==
  ASSUME NEW b \in Buffers, b[1].whole, NEW from \in {1, 2}, from <= Len(b),
         from = 2 => b[2].whole /\ b[1].strmtyp # "dependent",
         NEW skipped \in BOOLEAN, Spans(b, from, skipped)
  PROVE  /\ auSize' \in Nat /\ auSize' \in 1 .. Len(buffer') /\ auSize' >= from
         /\ \A i \in 1 .. auSize' : buffer'[i].whole
         /\ depSkipped' \in BOOLEAN
<1>1. b \in Seq(Frame) /\ Len(b) \in Nat \ {0}
  BY BufferTyped
<1>2. /\ auSize' = IF b[1].strmtyp = "dependent" THEN from ELSE Span(b, from)
      /\ buffer' = b /\ depSkipped' \in BOOLEAN
  BY DEF Spans
<1>3. /\ Span(b, from) \in from .. Len(b)
      /\ \A i \in from + 1 .. Span(b, from) : b[i].whole
  BY <1>1, SpanIs DEF Attached
<1>4. auSize' \in from .. Len(b)
  BY <1>1, <1>2, <1>3
<1>5. ASSUME NEW i \in 1 .. auSize' PROVE b[i].whole
  BY <1>1, <1>2, <1>3, <1>4, <1>5
<1> QED
  BY <1>1, <1>2, <1>4, <1>5

(* What is left to show of a call that decoded.                            *)
LEMMA TypeDecoded ==
  ASSUME TypeOK, NEW b \in Buffers, DecodesCore(b),
         NEW from \in {1, 2}, from <= Len(b),
         from = 2 => b[2].whole /\ b[1].strmtyp # "dependent",
         NEW skipped \in BOOLEAN, Spans(b, from, skipped),
         dep' \in Bank, output71' \in BOOLEAN, coded71' \in BOOLEAN
  PROVE  TypeOK'
<1>1. Entered(b)
  BY DEF DecodesCore
<1>2. b[1].whole /\ h' \in Frame /\ nsamp' \in 1 .. MaxBlocks
      /\ dmixChannels' \in Widths /\ targetLevel' \in Targets \union {Off}
  BY <1>1, EnteredTyped DEF TypeOK
<1>3. core' \in Bank /\ dmix' \in [{0, 1} -> 0 .. MaxBlocks]
  BY DecodesCoreTyped
<1>4. /\ auSize' \in Nat /\ auSize' \in 1 .. Len(buffer')
      /\ \A i \in 1 .. auSize' : buffer'[i].whole
      /\ depSkipped' \in BOOLEAN
  BY <1>2, SpansTyped
<1>5. outcome' = "ok"
  BY DEF Spans
<1> QED
  BY <1>2, <1>3, <1>4, <1>5 DEF TypeOK

LEMMA TypeCall ==
  ASSUME TypeOK, NEW b \in Buffers, DecodeFrame(b)
  PROVE  TypeOK'
<1> USE BufferTyped
<1>1. Idle(core) \in Bank /\ Idle(dep) \in Bank
  BY BanksTyped DEF TypeOK
<1>2. Unmixed \in [{0, 1} -> 0 .. MaxBlocks]
  BY BuffersAssumption DEF Unmixed
<1>3. Synthesize(core, b[1]) \in Bank
  BY BanksTyped DEF TypeOK
<1>4. CASE RefuseHeader(b)
  BY <1>1, <1>2, <1>4 DEF RefuseHeader, Handed, asked, Fails, IdleBanks, TypeOK
<1>5. CASE RefuseUnsupported(b)
  BY <1>1, <1>2, <1>5, EnteredTyped DEF RefuseUnsupported, Fails, IdleBanks, TypeOK
<1>6. CASE FailBlock(b)
  BY <1>1, <1>2, <1>3, <1>6, EnteredTyped DEF FailBlock, Fails, TypeOK
<1>7. CASE DecodeAlone(b)
  <2>1. DecodesCore(b) /\ Entered(b) /\ Spans(b, 1, FALSE)
    BY <1>7 DEF DecodeAlone, DecodesCore
  <2>2. dep' \in Bank /\ output71' \in BOOLEAN /\ coded71' \in BOOLEAN
    BY <1>1, <1>7 DEF DecodeAlone
  <2>3. 1 <= Len(b) /\ 1 \in {1, 2} /\ 1 # 2 /\ FALSE \in BOOLEAN
    OBVIOUS
  <2> HIDE BufferTyped
  <2> QED
    BY <2>1, <2>2, <2>3, TypeDecoded, Zenon
<1>8. CASE StepOver(b)
  <2>1. DecodesCore(b) /\ Entered(b) /\ Spans(b, 2, TRUE)
    BY <1>8 DEF StepOver, DecodesCore
  <2>2. Len(b) > 1 /\ b[2].whole /\ b[1].strmtyp # "dependent"
    BY <1>8 DEF StepOver, Extended
  <2>3. dep' \in Bank /\ output71' \in BOOLEAN
    BY <1>1, <1>8 DEF StepOver
  <2>4. coded71' \in BOOLEAN
    <3>1. b[2].chanmap71 \in BOOLEAN
      BY <2>2 DEF Frame
    <3>2. coded71' = (b[1].mode = "5.1" /\ b[2].chanmap71)
      BY <1>8 DEF StepOver, is71Extension
    <3> QED
      BY <3>1, <3>2, Zenon
  <2>5. 2 <= Len(b)
    BY <2>2
  <2> QED
    BY <2>1, <2>2, <2>3, <2>4, <2>5, TypeDecoded
<1>9. CASE DecodeDependent71(b)
  <2>1. DecodesCore(b) /\ Entered(b) /\ Spans(b, 2, Dropped(b))
    BY <1>9 DEF DecodeDependent71, Merges, DecodesCore
  <2>2. Len(b) > 1 /\ b[2].whole /\ b[1].strmtyp # "dependent"
    BY <1>9 DEF DecodeDependent71, Merges, Extended
  <2>3. dep' \in Bank
    BY <1>9, <2>2, BanksTyped DEF DecodeDependent71, TypeOK
  <2>4. Dropped(b) \in BOOLEAN
    BY DEF Dropped
  <2>5. output71' \in BOOLEAN /\ coded71' \in BOOLEAN
    BY <1>9, Zenon DEF DecodeDependent71
  <2>6. 2 <= Len(b)
    BY <2>2
  <2> QED
    BY <2>1, <2>2, <2>3, <2>4, <2>5, <2>6, TypeDecoded
<1>10. CASE FailDependent(b)
  <2>1. DecodesCore(b) /\ Entered(b)
    BY <1>10 DEF FailDependent, Merges, DecodesCore
  <2>2. Len(b) > 1
    BY <1>10 DEF FailDependent, Merges, Extended
  <2>3. dep' \in Bank
    BY <1>1, <1>10, <2>2, BanksTyped DEF FailDependent, TypeOK
  <2> QED
    BY <1>10, <2>1, <2>3, EnteredTyped, DecodesCoreTyped DEF FailDependent, Fails, TypeOK
<1> QED
  BY <1>4, <1>5, <1>6, <1>7, <1>8, <1>9, <1>10 DEF DecodeFrame

LEMMA TypeNext == TypeOK /\ [Next]_vars => TypeOK'
<1> SUFFICES ASSUME TypeOK, [Next]_vars PROVE TypeOK'
  OBVIOUS
<1>1. ASSUME NEW b \in Buffers, DecodeFrame(b) PROVE TypeOK'
  BY <1>1, TypeCall
<1>2. ASSUME NEW width \in Widths, SetDownmix(width) PROVE TypeOK'
  BY <1>2 DEF SetDownmix, told, history, TypeOK
<1>3. ASSUME NEW target \in Targets \union {Off}, SetTargetLevel(target) PROVE TypeOK'
  BY <1>3 DEF SetTargetLevel, told, history, TypeOK
<1>4. CASE Reset
  <2>1. core' \in Bank
    BY <1>4 DEF Reset, TypeOK, Bank, Silence, Tails
  <2> QED
    BY <1>4, <2>1 DEF Reset, told, asked, history, TypeOK
<1>5. CASE UNCHANGED vars
  BY <1>5 DEF vars, told, asked, history, TypeOK
<1> QED
  BY <1>1, <1>2, <1>3, <1>4, <1>5 DEF Next

(* Whatever a decoder is handed, an access unit it decoded ends inside the *)
(* buffer, so that the caller's slice behind it is one.                    *)
THEOREM TypeCorrect == Spec => []TypeOK
<1>1. Init => TypeOK
  BY TypeInit
<1>2. TypeOK /\ [Next]_vars => TypeOK'
  BY TypeNext
<1> QED
  BY <1>1, <1>2, PTL DEF Spec

(***************************************************************************)
(* What a step is: a call that failed, one that decoded, or no call.       *)
(***************************************************************************)

(* A call that decodes the first `from' frames of b.                       *)
Decoded(b, from, skipped) ==
  /\ DecodesCore(b) /\ Spans(b, from, skipped)
  /\ from \in {1, 2} /\ from <= Len(b)
  /\ from = 2 => Extended(b)
  /\ skipped <=> (from = 2 /\ ~output71')
  /\ output71' => /\ from = 2 /\ is71Extension(b)
                  /\ Sound(b[2]) /\ NumChannels[b[2].mode] = 4
                  /\ ~Mixing(b[1], dmixChannels)
                  /\ dep' = Synthesize(dep, b[2])

Failed == outcome' # "ok" /\ last'.how = "failed"

(* Options and Reset leave what the last call wrote.                       *)
Calm ==
  /\ UNCHANGED <<h, dep, dmix, told, outcome, history>>
  /\ \/ core' = core /\ last' = last
     \/ core' = [core EXCEPT !.delay = Silence] /\ last' = Left("reset")

LEMMA CallSplits ==
  ASSUME NEW b \in Buffers, DecodeFrame(b)
  PROVE  Failed \/ \E from \in {1, 2}, skipped \in BOOLEAN : Decoded(b, from, skipped)
<1> USE BufferTyped
<1>1. CASE RefuseHeader(b) \/ RefuseUnsupported(b) \/ FailBlock(b) \/ FailDependent(b)
  BY <1>1 DEF RefuseHeader, RefuseUnsupported, FailBlock, FailDependent, Fails,
              Left, Failed
<1>2. CASE DecodeAlone(b)
  <2>3. output71' = FALSE /\ ~output71'
    BY <1>2, Zenon DEF DecodeAlone
  <2>1. 1 \in {1, 2} /\ 1 # 2 /\ 1 <= Len(b) /\ FALSE \in BOOLEAN
    OBVIOUS
  <2>2. Decoded(b, 1, FALSE)
    BY <1>2, <2>1, <2>3, Zenon DEF DecodeAlone, Decoded
  <2> QED
    BY <2>1, <2>2, Zenon
<1>3. CASE StepOver(b)
  <2>1. Len(b) > 1
    BY <1>3 DEF StepOver, Extended
  <2>4. output71' = FALSE /\ ~output71'
    BY <1>3, Zenon DEF StepOver
  <2>3. 2 \in {1, 2} /\ 2 <= Len(b) /\ TRUE \in BOOLEAN
    BY <2>1
  <2>2. Decoded(b, 2, TRUE)
    BY <1>3, <2>3, <2>4, Zenon DEF StepOver, Decoded
  <2> QED
    BY <2>2, <2>3, Zenon
<1>4. CASE DecodeDependent71(b)
  <2>1. Len(b) > 1
    BY <1>4 DEF DecodeDependent71, Merges, Extended
  <2>2. /\ DecodesCore(b) /\ Extended(b) /\ Spans(b, 2, Dropped(b))
        /\ is71Extension(b) /\ Sound(b[2]) /\ ~Mixing(b[1], dmixChannels)
        /\ dep' = Synthesize(dep, b[2])
    BY <1>4 DEF DecodeDependent71, Merges
  <2>3. output71' = (NumChannels[b[2].mode] = 4)
    BY <1>4 DEF DecodeDependent71
  <2>4. (Dropped(b) <=> ~output71') /\ Dropped(b) \in BOOLEAN
    BY <2>3, Zenon DEF Dropped
  <2>5. Decoded(b, 2, Dropped(b))
    BY <2>1, <2>2, <2>3, <2>4 DEF Decoded
  <2>6. 2 \in {1, 2}
    OBVIOUS
  <2> QED
    BY <2>4, <2>5, <2>6, Zenon
<1> QED
  BY <1>1, <1>2, <1>3, <1>4 DEF DecodeFrame

LEMMA StepSplits ==
  ASSUME [Next]_vars
  PROVE  \/ Failed \/ Calm
         \/ \E b \in Buffers, from \in {1, 2}, skipped \in BOOLEAN :
              Decoded(b, from, skipped)
<1>1. ASSUME NEW b \in Buffers, DecodeFrame(b)
      PROVE  Failed \/ \E from \in {1, 2}, skipped \in BOOLEAN : Decoded(b, from, skipped)
  BY <1>1, CallSplits
<1>2. ASSUME NEW width \in Widths, SetDownmix(width) PROVE Calm
  BY <1>2 DEF SetDownmix, Calm
<1>3. ASSUME NEW target \in Targets \union {Off}, SetTargetLevel(target) PROVE Calm
  BY <1>3 DEF SetTargetLevel, Calm
<1>4. Reset => Calm
  BY DEF Reset, Calm
<1>5. UNCHANGED vars => Calm
  BY DEF vars, Calm
<1> QED
  BY <1>1, <1>2, <1>3, <1>4, <1>5 DEF Next

(***************************************************************************)
(* Where the unit ends.                                                    *)
(***************************************************************************)

LEMMA DecodedSpan ==
  ASSUME NEW b \in Buffers, NEW from \in {1, 2}, NEW skipped \in BOOLEAN,
         Decoded(b, from, skipped), AdvancesTime(b[1])
  PROVE  /\ h' = b[1] /\ buffer' = b /\ outcome' = "ok"
         /\ b \in Seq(Frame) /\ auSize' \in from .. Len(b)
         /\ \A i \in from + 1 .. auSize' : Attached(b[i])
         /\ auSize' = Len(b) \/ ~Attached(b[auSize' + 1])
         /\ from = 2 => b[2].strmtyp = "dependent"
         /\ depSkipped' <=> (skipped \/ \E i \in from + 1 .. auSize' :
                                           b[i].strmtyp = "dependent")
<1>1. b \in Seq(Frame) /\ from <= Len(b)
  BY BufferTyped DEF Decoded
<1>2. auSize' = Span(b, from)
  BY DEF Decoded, Spans, AdvancesTime
<1>3. h' = b[1]
  BY DEF Decoded, DecodesCore, Entered
<1>4. /\ Span(b, from) \in from .. Len(b)
      /\ \A i \in from + 1 .. Span(b, from) : Attached(b[i])
      /\ Span(b, from) = Len(b) \/ ~Attached(b[Span(b, from) + 1])
  BY <1>1, SpanIs
<1>5. buffer' = b /\ outcome' = "ok" /\ (from = 2 => b[2].strmtyp = "dependent")
  BY DEF Decoded, Spans, Extended
<1>6. depSkipped' <=> (skipped \/ \E i \in from + 1 .. auSize' :
                                    b[i].strmtyp = "dependent")
  BY Zenon DEF Decoded, Spans
<1> QED
  BY <1>1, <1>2, <1>3, <1>4, <1>5, <1>6

LEMMA SpanNext == SpanIsTheUnit /\ [Next]_vars => SpanIsTheUnit'
<1> SUFFICES ASSUME SpanIsTheUnit, [Next]_vars PROVE SpanIsTheUnit'
  OBVIOUS
<1>1. CASE Failed
  BY <1>1 DEF Failed, SpanIsTheUnit
<1>2. CASE Calm
  BY <1>2 DEF Calm, told, history, SpanIsTheUnit
<1>3. ASSUME NEW b \in Buffers, NEW from \in {1, 2}, NEW skipped \in BOOLEAN,
             Decoded(b, from, skipped)
      PROVE  SpanIsTheUnit'
  <2> SUFFICES ASSUME AdvancesTime(b[1]), \A i \in 1 .. Len(b) : b[i].whole /\ b[i].head = "whole"
               PROVE  IsUnit(b, auSize')
    <3>1. h' = b[1] /\ buffer' = b
      BY <1>3 DEF Decoded, DecodesCore, Entered, Spans
    <3> QED
      BY <3>1 DEF SpanIsTheUnit
  <2>1. /\ b \in Seq(Frame) /\ auSize' \in from .. Len(b)
        /\ \A i \in from + 1 .. auSize' : Attached(b[i])
        /\ auSize' = Len(b) \/ ~Attached(b[auSize' + 1])
        /\ from = 2 => b[2].strmtyp = "dependent"
    BY <1>3, DecodedSpan
  <2>2. ASSUME NEW i \in 2 .. auSize' PROVE ~AdvancesTime(b[i])
    <3>1. CASE i \in from + 1 .. auSize'
      BY <2>1, <3>1 DEF Attached
    <3>2. CASE i = 2 /\ from = 2
      BY <2>1, <3>2 DEF AdvancesTime
    <3>3. i \in from + 1 .. auSize' \/ (i = 2 /\ from = 2)
      <4>1. CASE from = 1
        BY <2>1, <2>2, <4>1
      <4>2. CASE from = 2
        BY <2>1, <2>2, <4>2
      <4> QED
        BY <4>1, <4>2
    <3> QED
      BY <3>1, <3>2, <3>3
  <2>3. auSize' = Len(b) \/ AdvancesTime(b[auSize' + 1])
    <3>1. \A n, m \in Nat : n <= m => n = m \/ n + 1 \in 1 .. m
      OBVIOUS
    <3>2. from \in Nat /\ Len(b) \in Nat /\ auSize' \in from .. Len(b)
      BY <2>1
    <3>3. auSize' \in Nat /\ auSize' <= Len(b)
      BY <3>2
    <3>4. auSize' = Len(b) \/ auSize' + 1 \in 1 .. Len(b)
      BY <3>1, <3>2, <3>3
    <3> QED
      BY <2>1, <3>4 DEF Attached
  <2> QED
    BY <2>2, <2>3 DEF IsUnit
<1> QED
  BY <1>1, <1>2, <1>3, StepSplits

(* Handed whole frames, a decoder steps over exactly the access unit the   *)
(* reader would have cut there, however many frames follow.                *)
THEOREM SpansUnits == Spec => []SpanIsTheUnit
<1>1. Init => SpanIsTheUnit
  BY DEF Init, SpanIsTheUnit
<1> QED
  BY <1>1, SpanNext, PTL DEF Spec

LEMMA NoticeNext == NoDependentGoesUnnoticed /\ [Next]_vars => NoDependentGoesUnnoticed'
<1> SUFFICES ASSUME NoDependentGoesUnnoticed, [Next]_vars PROVE NoDependentGoesUnnoticed'
  OBVIOUS
<1>1. CASE Failed
  BY <1>1 DEF Failed, NoDependentGoesUnnoticed
<1>2. CASE Calm
  BY <1>2 DEF Calm, told, history, NoDependentGoesUnnoticed
<1>3. ASSUME NEW b \in Buffers, NEW from \in {1, 2}, NEW skipped \in BOOLEAN,
             Decoded(b, from, skipped)
      PROVE  NoDependentGoesUnnoticed'
  <2>1. h' = b[1] /\ buffer' = b
    BY <1>3 DEF Decoded, DecodesCore, Entered, Spans
  <2> SUFFICES ASSUME AdvancesTime(b[1])
               PROVE  depSkipped' <=> \E i \in 2 .. auSize' :
                        b[i].strmtyp = "dependent" /\ ~(i = 2 /\ output71')
    BY <2>1 DEF NoDependentGoesUnnoticed
  <2>2. /\ b \in Seq(Frame) /\ auSize' \in from .. Len(b)
        /\ from = 2 => b[2].strmtyp = "dependent"
        /\ depSkipped' <=> (skipped \/ \E i \in from + 1 .. auSize' :
                                          b[i].strmtyp = "dependent")
    BY <1>3, DecodedSpan
  <2>3. (skipped <=> (from = 2 /\ ~output71')) /\ (output71' => from = 2)
    BY <1>3 DEF Decoded
  <2>4. CASE from = 1
    BY <2>2, <2>3, <2>4
  <2>5. CASE from = 2 /\ output71'
    BY <2>2, <2>3, <2>5
  <2>6. CASE from = 2 /\ ~output71'
    BY <2>2, <2>3, <2>6
  <2> QED
    BY <2>4, <2>5, <2>6
<1> QED
  BY <1>1, <1>2, <1>3, StepSplits

(* DependentSkipped counts every dependent substream that was not merged,  *)
(* and no other.                                                           *)
THEOREM DependentsAreNoticed == Spec => []NoDependentGoesUnnoticed
<1>1. Init => NoDependentGoesUnnoticed
  BY DEF Init, NoDependentGoesUnnoticed
<1> QED
  BY <1>1, NoticeNext, PTL DEF Spec

(***************************************************************************)
(* The carry over.                                                         *)
(***************************************************************************)

(* What the next frame will find, by what the last call was.               *)
CarryInv ==
  /\ last.how \in {"fresh", "reset"} => core.delay = Silence
  /\ last.how = "ok" =>
       /\ last.mode \in Modes
       /\ \A c \in 0 .. NumChannels[last.mode] - 1 : core.delay[c] = "fresh"
       /\ last.merged => \A c \in Sides : dep.delay[c] = "fresh"

(* What the unit was overlapped with, plane by plane.                      *)
OverlapInv ==
  outcome = "ok" =>
    /\ h \in Frame
    /\ output71 => h.mode = "5.1"
    /\ before.how \in {"fresh", "reset"} =>
         \A c \in Coded(h) : core.overlap[c] = "none"
    /\ before.how = "ok" /\ before.mode = h.mode =>
         /\ \A c \in Coded(h) : core.overlap[c] = "fresh"
         /\ before.merged /\ output71 => \A c \in Sides : dep.overlap[c] = "fresh"

LEMMA CodedChannels ==
  ASSUME NEW f \in Frame
  PROVE  /\ Coded(f) \subseteq Channels /\ 0 \in Coded(f)
         /\ f.mode \in Modes /\ Coded(f) = 0 .. NumChannels[f.mode] - 1
         /\ f.mode = "5.1" => Core71 \subseteq Coded(f)
         /\ NumChannels[f.mode] = 4 => Coded(f) = Sides
BY BuffersAssumption DEF Frame, Coded, Channels, Core71, Sides

LEMMA CarryIsOverlap == OverlapInv => OverlapsTheFrameBefore
<1> SUFFICES ASSUME OverlapInv, outcome = "ok"
             PROVE  /\ before.how \in {"fresh", "reset"} => Overlaps(core, CorePlanes) = {"none"}
                    /\ before.how = "ok" /\ before.mode = h.mode =>
                         /\ Overlaps(core, CorePlanes) = {"fresh"}
                         /\ before.merged /\ output71 => Overlaps(dep, Sides) = {"fresh"}
  BY DEF OverlapsTheFrameBefore
<1>1. CorePlanes \subseteq Coded(h) /\ 0 \in CorePlanes
  BY CodedChannels DEF OverlapInv, CorePlanes, Core71
<1>2. ASSUME NEW bank, NEW planes, 0 \in planes, NEW tail,
             \A c \in planes : bank.overlap[c] = tail
      PROVE  Overlaps(bank, planes) = {tail}
  BY <1>2 DEF Overlaps
<1>3. 0 \in Sides
  BY DEF Sides
<1>4. before.how \in {"fresh", "reset"} => Overlaps(core, CorePlanes) = {"none"}
  BY <1>1, <1>2 DEF OverlapInv
<1>5. ASSUME before.how = "ok", before.mode = h.mode
      PROVE  /\ Overlaps(core, CorePlanes) = {"fresh"}
             /\ before.merged /\ output71 => Overlaps(dep, Sides) = {"fresh"}
  <2>1. /\ \A c \in CorePlanes : core.overlap[c] = "fresh"
        /\ before.merged /\ output71 => \A c \in Sides : dep.overlap[c] = "fresh"
    BY <1>1, <1>5 DEF OverlapInv
  <2>2. Overlaps(core, CorePlanes) = {"fresh"}
    BY <1>1, <1>2, <2>1
  <2>3. before.merged /\ output71 => Overlaps(dep, Sides) = {"fresh"}
    BY <1>2, <1>3, <2>1
  <2> QED
    BY <2>2, <2>3
<1> QED
  BY <1>4, <1>5

(* What decoding a sound frame makes of the coded channels of a bank.      *)
LEMMA SynthesizeIs ==
  ASSUME NEW bank \in Bank, NEW f \in Frame, Sound(f), NEW c \in Coded(f)
  PROVE  /\ Synthesize(bank, f).delay[c] = "fresh"
         /\ Synthesize(bank, f).wrote[c] = f.blocks
         /\ Synthesize(bank, f).overlap[c] = bank.delay[c]
<1>1. c \in Channels
  BY CodedChannels
<1>2. f.good = f.blocks /\ f.blocks \in Nat /\ f.blocks > 0
  BY BuffersAssumption DEF Sound, Frame
<1> DEFINE n == [d \in Channels |-> IF d \in Coded(f) THEN f.good ELSE 0]
<1>3. n[c] = f.blocks
  BY <1>1, <1>2
<1>4. Synthesize(bank, f) = Synthesized(bank, n)
  BY DEF Synthesize
<1> HIDE DEF n
<1> QED
  BY <1>1, <1>2, <1>3, <1>4 DEF Synthesized

(* The frames a call that decoded is about, and what it did to the banks.  *)
LEMMA DecodedBanks ==
  ASSUME TypeOK, NEW b \in Buffers, NEW from \in {1, 2}, NEW skipped \in BOOLEAN,
         Decoded(b, from, skipped)
  PROVE  /\ h' = b[1] /\ b[1] \in Frame /\ Sound(b[1]) /\ buffer' = b
         /\ nsamp' = b[1].blocks /\ before' = last
         /\ last' = [how |-> "ok", mode |-> b[1].mode, merged |-> output71']
         /\ used' = [target |-> targetLevel, width |-> dmixChannels]
         /\ \A c \in Coded(b[1]) : /\ core'.delay[c] = "fresh"
                                   /\ core'.wrote[c] = b[1].blocks
                                   /\ core'.overlap[c] = core.delay[c]
         /\ output71' =>
              /\ b[1].mode = "5.1"
              /\ \A c \in Sides : /\ dep'.delay[c] = "fresh"
                                  /\ dep'.wrote[c] = b[2].blocks
                                  /\ dep'.overlap[c] = dep.delay[c]
<1>1. /\ h' = b[1] /\ b[1] \in Frame /\ Sound(b[1]) /\ buffer' = b
      /\ nsamp' = b[1].blocks /\ core' = Synthesize(core, b[1])
  BY BufferTyped DEF Decoded, DecodesCore, Entered, Spans, Length
<1>2. /\ before' = last
      /\ last' = [how |-> "ok", mode |-> b[1].mode, merged |-> output71']
      /\ used' = [target |-> targetLevel, width |-> dmixChannels]
  BY DEF Decoded, Spans
<1>3. core \in Bank /\ dep \in Bank
  BY DEF TypeOK
<1>4. \A c \in Coded(b[1]) : /\ core'.delay[c] = "fresh"
                            /\ core'.wrote[c] = b[1].blocks
                            /\ core'.overlap[c] = core.delay[c]
  BY <1>1, <1>3, SynthesizeIs
<1>5. ASSUME output71'
      PROVE  /\ b[1].mode = "5.1"
             /\ \A c \in Sides : /\ dep'.delay[c] = "fresh"
                                 /\ dep'.wrote[c] = b[2].blocks
                                 /\ dep'.overlap[c] = dep.delay[c]
  <2>1. /\ from = 2 /\ is71Extension(b) /\ Sound(b[2])
        /\ NumChannels[b[2].mode] = 4 /\ dep' = Synthesize(dep, b[2])
    BY <1>5 DEF Decoded
  <2>2. b[2] \in Frame
    <3>1. Len(b) > 1
      BY <2>1 DEF Decoded, Extended
    <3> QED
      BY <3>1, BufferTyped
  <2>3. Coded(b[2]) = Sides
    BY <2>1, <2>2, CodedChannels
  <2>4. b[1].mode = "5.1"
    BY <2>1 DEF is71Extension
  <2> QED
    BY <1>3, <2>1, <2>2, <2>3, <2>4, SynthesizeIs
<1> QED
  BY <1>1, <1>2, <1>4, <1>5

LEMMA CarryNext == TypeOK /\ CarryInv /\ [Next]_vars => CarryInv'
<1> SUFFICES ASSUME TypeOK, CarryInv, [Next]_vars PROVE CarryInv'
  OBVIOUS
<1>1. CASE Failed
  BY <1>1 DEF Failed, CarryInv
<1>2. CASE Calm
  <2>1. CASE core' = core /\ last' = last
    BY <1>2, <2>1 DEF Calm, CarryInv
  <2>2. CASE core' = [core EXCEPT !.delay = Silence] /\ last' = Left("reset")
    BY <2>2 DEF TypeOK, Bank, Left, CarryInv
  <2> QED
    BY <1>2, <2>1, <2>2 DEF Calm
<1>3. ASSUME NEW b \in Buffers, NEW from \in {1, 2}, NEW skipped \in BOOLEAN,
             Decoded(b, from, skipped)
      PROVE  CarryInv'
  <2>1. /\ b[1] \in Frame
        /\ last' = [how |-> "ok", mode |-> b[1].mode, merged |-> output71']
        /\ \A c \in Coded(b[1]) : core'.delay[c] = "fresh"
        /\ output71' => \A c \in Sides : dep'.delay[c] = "fresh"
    BY <1>3, DecodedBanks
  <2>2. b[1].mode \in Modes /\ Coded(b[1]) = 0 .. NumChannels[b[1].mode] - 1
    BY <2>1, CodedChannels
  <2> QED
    BY <2>1, <2>2 DEF CarryInv
<1> QED
  BY <1>1, <1>2, <1>3, StepSplits

LEMMA OverlapNext == TypeOK /\ CarryInv /\ OverlapInv /\ [Next]_vars => OverlapInv'
<1> SUFFICES ASSUME TypeOK, CarryInv, OverlapInv, [Next]_vars PROVE OverlapInv'
  OBVIOUS
<1>1. CASE Failed
  BY <1>1 DEF Failed, OverlapInv
<1>2. CASE Calm
  <2>1. core'.overlap = core.overlap
    BY <1>2 DEF Calm, TypeOK, Bank
  <2>2. /\ h' = h /\ dep' = dep /\ output71' = output71
        /\ outcome' = outcome /\ before' = before
    BY <1>2 DEF Calm, told, history
  <2>3. Coded(h') = Coded(h)
    BY <2>2
  <2> QED
    BY <2>1, <2>2, <2>3 DEF OverlapInv
<1>3. ASSUME NEW b \in Buffers, NEW from \in {1, 2}, NEW skipped \in BOOLEAN,
             Decoded(b, from, skipped)
      PROVE  OverlapInv'
  <2>1. /\ h' = b[1] /\ b[1] \in Frame /\ before' = last
        /\ \A c \in Coded(b[1]) : core'.overlap[c] = core.delay[c]
        /\ output71' => /\ b[1].mode = "5.1"
                        /\ \A c \in Sides : dep'.overlap[c] = dep.delay[c]
    BY <1>3, DecodedBanks
  <2>2. Coded(b[1]) \subseteq Channels /\ Coded(b[1]) = 0 .. NumChannels[b[1].mode] - 1
    BY <2>1, CodedChannels
  <2>3. Coded(h') = Coded(b[1])
    BY <2>1
  <2>4. last.how \in {"fresh", "reset"} =>
          \A c \in Coded(b[1]) : core'.overlap[c] = "none"
    BY <2>1, <2>2 DEF CarryInv, Silence
  <2>5. last.how = "ok" /\ last.mode = b[1].mode =>
          /\ \A c \in Coded(b[1]) : core'.overlap[c] = "fresh"
          /\ last.merged /\ output71' => \A c \in Sides : dep'.overlap[c] = "fresh"
    BY <2>1, <2>2 DEF CarryInv
  <2> QED
    BY <2>1, <2>3, <2>4, <2>5 DEF OverlapInv
<1> QED
  BY <1>1, <1>2, <1>3, StepSplits

(* Every plane handed back was overlapped with the frame before it, or     *)
(* with silence at the start of a stream and for the frame's own channels  *)
(* after Reset, however the calls in between went.                         *)
THEOREM OverlapsRight == Spec => []OverlapsTheFrameBefore
<1>1. Init => TypeOK /\ CarryInv /\ OverlapInv
  BY TypeInit DEF Init, Silent, Left, CarryInv, OverlapInv
<1>2. TypeOK /\ CarryInv /\ OverlapInv /\ [Next]_vars => TypeOK' /\ CarryInv' /\ OverlapInv'
  BY TypeNext, CarryNext, OverlapNext
<1> QED
  BY <1>1, <1>2, CarryIsOverlap, PTL DEF Spec

(***************************************************************************)
(* Whose the samples are.                                                  *)
(***************************************************************************)

SampleInv ==
  outcome = "ok" =>
    /\ h \in Frame /\ nsamp = h.blocks
    /\ \A c \in Coded(h) : core.wrote[c] = nsamp
    /\ output71 => /\ h.mode = "5.1"
                   /\ \A c \in Sides : dep.wrote[c] = buffer[2].blocks
    /\ Mixing(h, used.width) =>
         \A p \in {0, 1} : p < used.width => dmix[p] = nsamp

LEMMA SampleNext == TypeOK /\ SampleInv /\ [Next]_vars => SampleInv'
<1> SUFFICES ASSUME TypeOK, SampleInv, [Next]_vars PROVE SampleInv'
  OBVIOUS
<1>1. CASE Failed
  BY <1>1 DEF Failed, SampleInv
<1>2. CASE Calm
  <2>1. core'.wrote = core.wrote
    BY <1>2 DEF Calm, TypeOK, Bank
  <2>2. UNCHANGED <<h, dep, dmix, output71, nsamp, outcome, buffer, used>>
    BY <1>2 DEF Calm, told, history
  <2>3. Coded(h') = Coded(h) /\ Mixing(h', used'.width) = Mixing(h, used.width)
    BY <2>2
  <2> QED
    BY <2>1, <2>2, <2>3 DEF SampleInv
<1>3. ASSUME NEW b \in Buffers, NEW from \in {1, 2}, NEW skipped \in BOOLEAN,
             Decoded(b, from, skipped)
      PROVE  SampleInv'
  <2>1. /\ h' = b[1] /\ b[1] \in Frame /\ nsamp' = b[1].blocks /\ buffer' = b
        /\ used'.width = dmixChannels
        /\ \A c \in Coded(b[1]) : core'.wrote[c] = b[1].blocks
        /\ output71' => /\ b[1].mode = "5.1"
                        /\ \A c \in Sides : dep'.wrote[c] = b[2].blocks
    BY <1>3, DecodedBanks
  <2>2. Mixing(b[1], dmixChannels) =>
          \A p \in {0, 1} : p < dmixChannels => dmix'[p] = b[1].blocks
    BY <1>3 DEF Decoded, DecodesCore
  <2>3. Coded(h') = Coded(b[1]) /\ (Mixing(h', used'.width) <=> Mixing(b[1], dmixChannels))
    BY <2>1 DEF Mixing
  <2> QED
    BY <2>1, <2>2, <2>3 DEF SampleInv
<1> QED
  BY <1>1, <1>2, <1>3, StepSplits

LEMMA SampleInvSuffices == TypeOK /\ SampleInv => SamplesAreOfTheUnit
<1> SUFFICES ASSUME TypeOK, SampleInv, outcome = "ok", used.width = dmixChannels,
                    output71 => buffer[2].blocks >= nsamp, NEW n \in Samples
             PROVE  n >= nsamp
  BY DEF SamplesAreOfTheUnit
<1>1. /\ h \in Frame /\ nsamp \in Nat
      /\ \A c \in Coded(h) : core.wrote[c] = nsamp
      /\ output71 => /\ h.mode = "5.1"
                     /\ \A c \in Sides : dep.wrote[c] = buffer[2].blocks
      /\ Mixing(h, dmixChannels) =>
           \A p \in {0, 1} : p < dmixChannels => dmix[p] = nsamp
  BY BuffersAssumption DEF SampleInv, TypeOK
<1>2. CASE output71
  <2>1. Core71 \subseteq Coded(h)
    BY <1>1, <1>2, CodedChannels
  <2> QED
    BY <1>1, <1>2, <2>1 DEF Samples
<1>3. CASE ~output71 /\ downmixing
  <2>1. dmixChannels \in {1, 2} /\ Mixing(h, dmixChannels)
    BY <1>3, BuffersAssumption DEF downmixing, Mixing, TypeOK
  <2>2. \A p \in 0 .. dmixChannels - 1 : p \in {0, 1} /\ p < dmixChannels
    BY <2>1
  <2>3. \A p \in 0 .. dmixChannels - 1 : dmix[p] = nsamp
    BY <1>1, <2>1, <2>2
  <2> QED
    BY <1>1, <1>3, <2>3 DEF Samples
<1>4. CASE ~output71 /\ ~downmixing
  BY <1>1, <1>4 DEF Samples
<1> QED
  BY <1>2, <1>3, <1>4

(* Every sample handed back was written by the call that decoded the unit, *)
(* on every plane and however the planes are put together.                 *)
THEOREM SamplesFresh == Spec => []SamplesAreOfTheUnit
<1>1. Init => TypeOK /\ SampleInv
  BY TypeInit DEF Init, SampleInv
<1>2. TypeOK /\ SampleInv /\ [Next]_vars => TypeOK' /\ SampleInv'
  BY TypeNext, SampleNext
<1> QED
  BY <1>1, <1>2, SampleInvSuffices, PTL DEF Spec

(***************************************************************************)
(* Whose the gains are.                                                    *)
(***************************************************************************)

(* The keys stand for what was computed under them, as long as the options *)
(* are those it was computed for.                                          *)
KeyInv ==
  /\ targetLevel = Off => levelGainsFor = NoKey
  /\ levelGainsFor # NoKey =>
       levelGains = [target |-> targetLevel, dialnorm |-> levelGainsFor[1]]
  /\ dmixFor # NoKey =>
       /\ dmixFor = <<dmixCoeffs.mode, dmixCoeffs.mixlev, dmixCoeffs.width>>
       /\ dmixCoeffs.width = dmixChannels

LEMMA KeysAreSome ==
  \A f, w : LevelKey(f) # NoKey /\ MixKey(f, w) # NoKey
<1>1. \A x, y, z : Len(<<x>>) = 1 /\ Len(<<x, y, z>>) = 3
  OBVIOUS
<1>2. Len(NoKey) = 0
  BY DEF NoKey
<1> QED
  BY <1>1, <1>2 DEF LevelKey, MixKey

(* The gains once a header is parsed.                                      *)
LEMMA EnteredGains ==
  ASSUME KeyInv, NEW b \in Buffers, Entered(b)
  PROVE  /\ KeyInv'
         /\ targetLevel # Off => levelGains' = LevelFor(h', targetLevel)
         /\ Mixing(h', dmixChannels) =>
              /\ dmixCoeffs'.mode = h'.mode /\ dmixCoeffs'.mixlev = h'.mixlev
              /\ dmixCoeffs'.width = dmixChannels
<1>1. /\ targetLevel' = targetLevel /\ dmixChannels' = dmixChannels
      /\ UpdateLevelGains /\ UpdateDownmix
  BY DEF Entered, Handed, asked
<1>2. /\ targetLevel = Off => levelGainsFor' = NoKey
      /\ levelGainsFor' # NoKey =>
           levelGains' = [target |-> targetLevel, dialnorm |-> levelGainsFor'[1]]
      /\ targetLevel # Off => levelGains' = LevelFor(h', targetLevel)
  <2>1. CASE targetLevel = Off
    BY <1>1, <2>1 DEF UpdateLevelGains, KeyInv
  <2>2. CASE targetLevel # Off /\ levelGainsFor = LevelKey(h')
    <3>1. levelGainsFor # NoKey /\ levelGainsFor[1] = h'.dialnorm
      BY <2>2, KeysAreSome DEF LevelKey
    <3>2. levelGains' = levelGains /\ levelGainsFor' = levelGainsFor
      BY <1>1, <2>2 DEF UpdateLevelGains
    <3> QED
      BY <2>2, <3>1, <3>2 DEF KeyInv, LevelFor
  <2>3. CASE targetLevel # Off /\ levelGainsFor # LevelKey(h')
    BY <1>1, <2>3 DEF UpdateLevelGains, LevelFor, LevelKey
  <2> QED
    BY <2>1, <2>2, <2>3
<1>3. /\ dmixFor' # NoKey =>
           /\ dmixFor' = <<dmixCoeffs'.mode, dmixCoeffs'.mixlev, dmixCoeffs'.width>>
           /\ dmixCoeffs'.width = dmixChannels
      /\ Mixing(h', dmixChannels) =>
           /\ dmixCoeffs'.mode = h'.mode /\ dmixCoeffs'.mixlev = h'.mixlev
           /\ dmixCoeffs'.width = dmixChannels
  <2>1. CASE ~Mixing(h', dmixChannels)
    BY <1>1, <2>1 DEF UpdateDownmix, KeyInv
  <2>2. CASE dmixFor = MixKey(h', dmixChannels)
    <3>1. dmixFor # NoKey
      BY <2>2, KeysAreSome
    <3>2. dmixCoeffs' = dmixCoeffs /\ dmixFor' = dmixFor
      BY <1>1, <2>2 DEF UpdateDownmix
    <3>3. <<h'.mode, h'.mixlev, dmixChannels>>
            = <<dmixCoeffs.mode, dmixCoeffs.mixlev, dmixCoeffs.width>>
      BY <2>2, <3>1 DEF KeyInv, MixKey
    <3> QED
      BY <3>1, <3>2, <3>3 DEF KeyInv
  <2>3. CASE Mixing(h', dmixChannels) /\ dmixFor # MixKey(h', dmixChannels)
    BY <1>1, <2>3 DEF UpdateDownmix, MixFor, MixKey
  <2> QED
    BY <2>1, <2>2, <2>3
<1> QED
  BY <1>1, <1>2, <1>3 DEF KeyInv

LEMMA KeyNext == KeyInv /\ [Next]_vars => KeyInv'
<1> SUFFICES ASSUME KeyInv, [Next]_vars PROVE KeyInv'
  OBVIOUS
<1>1. ASSUME NEW b \in Buffers, DecodeFrame(b) PROVE KeyInv'
  <2>1. CASE RefuseHeader(b)
    BY <2>1 DEF RefuseHeader, Handed, asked, cached, KeyInv
  <2>2. CASE ~RefuseHeader(b)
    <3>1. Entered(b)
      BY <1>1, <2>2 DEF DecodeFrame, RefuseUnsupported, FailBlock, DecodeAlone,
         StepOver, DecodeDependent71, FailDependent, Merges, DecodesCore
    <3> QED
      BY <3>1, EnteredGains
  <2> QED
    BY <2>1, <2>2
<1>2. ASSUME NEW width \in Widths, SetDownmix(width) PROVE KeyInv'
  BY <1>2 DEF SetDownmix, KeyInv
<1>3. ASSUME NEW target \in Targets \union {Off}, SetTargetLevel(target) PROVE KeyInv'
  BY <1>3 DEF SetTargetLevel, NewLevelKey, KeyInv
<1>4. CASE Reset
  BY <1>4 DEF Reset, asked, cached, KeyInv
<1>5. CASE UNCHANGED vars
  BY <1>5 DEF vars, asked, cached, KeyInv
<1> QED
  BY <1>1, <1>2, <1>3, <1>4, <1>5 DEF Next

LEMMA GainsNext == KeyInv /\ GainsAreOfTheHeader /\ [Next]_vars => GainsAreOfTheHeader'
<1> SUFFICES ASSUME KeyInv, GainsAreOfTheHeader, [Next]_vars
             PROVE  GainsAreOfTheHeader'
  OBVIOUS
<1> DEFINE Stays == UNCHANGED <<h, outcome, used, levelGains, dmixCoeffs>>
<1>1. CASE Failed
  BY <1>1 DEF Failed, GainsAreOfTheHeader
<1>2. CASE Stays
  BY <1>2 DEF GainsAreOfTheHeader, LevelsAreOfTheHeader, MixIsOfTheHeader
<1>3. ASSUME NEW b \in Buffers, NEW from \in {1, 2}, NEW skipped \in BOOLEAN,
             Decoded(b, from, skipped)
      PROVE  GainsAreOfTheHeader'
  <2>1. Entered(b)
    BY <1>3 DEF Decoded, DecodesCore
  <2>2. used'.target = targetLevel /\ used'.width = dmixChannels
    BY <1>3 DEF Decoded, Spans
  <2> QED
    BY <2>1, <2>2, EnteredGains
       DEF GainsAreOfTheHeader, LevelsAreOfTheHeader, MixIsOfTheHeader
<1>4. ASSUME NEW b \in Buffers, DecodeFrame(b) PROVE GainsAreOfTheHeader'
  BY <1>1, <1>3, <1>4, CallSplits
<1>5. ASSUME NEW width \in Widths, SetDownmix(width) PROVE Stays
  BY <1>5 DEF SetDownmix, history
<1>6. ASSUME NEW target \in Targets \union {Off}, SetTargetLevel(target) PROVE Stays
  BY <1>6 DEF SetTargetLevel, history
<1>7. Reset => Stays
  BY DEF Reset, cached, history
<1>8. UNCHANGED vars => Stays
  BY DEF vars, cached, history
<1> QED
  BY <1>2, <1>4, <1>5, <1>6, <1>7, <1>8 DEF Next

(* The gains a unit was decoded with are those of its header and of the    *)
(* options in force, though they are computed again only when a key says   *)
(* so and the options may change between any two calls.                    *)
THEOREM GainsRight == Spec => []GainsAreOfTheHeader
<1>1. Init => KeyInv /\ GainsAreOfTheHeader
  BY DEF Init, KeyInv, GainsAreOfTheHeader
<1>2. KeyInv /\ GainsAreOfTheHeader /\ [Next]_vars => KeyInv' /\ GainsAreOfTheHeader'
  BY KeyNext, GainsNext
<1> QED
  BY <1>1, <1>2, PTL DEF Spec

-----------------------------------------------------------------------------
(***************************************************************************)
(* The loop of the WebAssembly call.                                       *)
(***************************************************************************)

playerVars == <<vars, pc, playing>>

LEMMA StreamTyped ==
  ASSUME NEW s \in Streams
  PROVE  s \in Seq(Frame) /\ Len(s) \in Nat \ {0}
<1>1. s \in Seq(Frame) /\ s # <<>>
  BY StreamsAssumption
<1> QED
  BY <1>1

LEMMA RestIs ==
  ASSUME data \in Streams, pos \in Nat, pos <= Len(data)
  PROVE  /\ Rest \in Seq(Frame) /\ Len(Rest) = Len(data) - pos
         /\ \A i \in 1 .. Len(data) - pos : Rest[i] = data[pos + i]
<1>1. data \in Seq(Frame) /\ Len(data) \in Nat
  BY StreamTyped
<1> QED
  BY <1>1 DEF Rest

LEMMA PlayerSteps == PlayerNext => [Next]_vars
<1> SUFFICES ASSUME PlayerNext PROVE [Next]_vars
  OBVIOUS
<1>1. ASSUME AskDownmix PROVE [Next]_vars
  BY <1>1 DEF AskDownmix, Next
<1>2. ASSUME AskTarget PROVE [Next]_vars
  BY <1>2 DEF AskTarget, Next
<1>3. ASSUME Decode PROVE [Next]_vars
  <2>1. DecodeFrame(Rest) /\ Rest \in Buffers
    BY <1>3 DEF Decode, DecodeFrame, RefuseHeader, RefuseUnsupported, FailBlock,
       DecodeAlone, StepOver, DecodeDependent71, FailDependent, Merges,
       DecodesCore, Entered, Handed
  <2> QED
    BY <2>1 DEF Next
<1>4. ASSUME Copy \/ Panic \/ EndOfData PROVE [Next]_vars
  BY <1>4 DEF Copy, Panic, EndOfData
<1> QED
  BY <1>1, <1>2, <1>3, <1>4 DEF PlayerNext

(* The decoder's invariants are the player's.                              *)
DecoderInv == TypeOK /\ SampleInv

LEMMA DecoderInvNext == DecoderInv /\ [PlayerNext]_playerVars => DecoderInv'
<1> SUFFICES ASSUME DecoderInv, [PlayerNext]_playerVars PROVE DecoderInv'
  OBVIOUS
<1>1. [Next]_vars
  BY PlayerSteps DEF playerVars
<1> QED
  BY <1>1, TypeNext, SampleNext DEF DecoderInv

(* The loop's own state, and where the unit to be copied lies in the       *)
(* stream: everything it covers but its first frame is attached to it.     *)
AtUnit ==
  /\ outcome = "ok" /\ pos < Len(data) /\ h = data[pos + 1]
  /\ used.width = dmixChannels
  /\ auSize \in 1 .. Len(data) - pos
  /\ output71 => /\ ~Mixing(h, dmixChannels) /\ pos + 2 <= Len(data)
                 /\ buffer[2] = data[pos + 2]
  /\ h.head = "whole" /\ h.whole
  /\ AdvancesTime(h) =>
       /\ \A i \in 2 .. auSize : ~AdvancesTime(data[pos + i])
       /\ pos + auSize = Len(data) \/ ~Attached(data[pos + auSize + 1])

LoopInv ==
  /\ data \in Streams /\ pos \in Nat /\ pos <= Len(data)
  /\ pc \in {"downmix", "target", "loop", "copy", "done", "panic"}
  /\ pc = "copy" => AtUnit

(* What a call that decodes leaves for the copy.                           *)
LEMMA DecodeReaches ==
  ASSUME DecoderInv, LoopInv, Decode, outcome' = "ok"
  PROVE  AtUnit'
<1>1. data' = data /\ pos' = pos /\ pos < Len(data) /\ DecodeFrame(Rest)
  BY DEF Decode, playing
<1>2. /\ data \in Seq(Frame) /\ Len(data) \in Nat /\ pos \in Nat
      /\ Rest \in Seq(Frame) /\ Len(Rest) = Len(data) - pos
      /\ \A i \in 1 .. Len(data) - pos : Rest[i] = data[pos + i]
  BY <1>1, StreamTyped, RestIs DEF LoopInv
<1>3. Rest \in Buffers
  BY <1>1 DEF DecodeFrame, RefuseHeader, RefuseUnsupported, FailBlock,
     DecodeAlone, StepOver, DecodeDependent71, FailDependent, Merges,
     DecodesCore, Entered, Handed
<1>4. PICK from \in {1, 2}, skipped \in BOOLEAN : Decoded(Rest, from, skipped)
  BY <1>1, <1>3, CallSplits DEF Failed
<1> DEFINE b == Rest
<1>5. Rest[1] = data[pos + 1]
  BY <1>1, <1>2
<1>6. /\ h' = Rest[1] /\ Rest[1].head = "whole" /\ Rest[1].whole
      /\ dmixChannels' = dmixChannels /\ used'.width = dmixChannels
  <2>1. Entered(Rest)
    BY <1>4 DEF Decoded, DecodesCore
  <2>2. used' = [target |-> targetLevel, width |-> dmixChannels]
    BY <1>4 DEF Decoded, Spans
  <2> QED
    BY <2>1, <2>2 DEF Entered, Handed, asked
<1>7. auSize' \in 1 .. Len(data) - pos
  <2>1. Rest[1].strmtyp = "dependent" => auSize' = from
    BY <1>4 DEF Decoded, Spans
  <2>2. Rest[1].strmtyp # "dependent" => auSize' = Span(Rest, from)
    BY <1>4 DEF Decoded, Spans
  <2>3. from \in Nat /\ from >= 1 /\ from <= Len(Rest)
    BY <1>4 DEF Decoded
  <2>4. Span(Rest, from) \in from .. Len(Rest)
    BY <1>2, <2>3, SpanIs
  <2> QED
    BY <1>2, <2>1, <2>2, <2>3, <2>4
<1>8. ASSUME output71'
      PROVE  /\ ~Mixing(Rest[1], dmixChannels) /\ pos + 2 <= Len(data)
             /\ buffer'[2] = data[pos + 2]
  <2>1. from = 2 /\ from <= Len(Rest) /\ ~Mixing(Rest[1], dmixChannels)
    BY <1>4, <1>8 DEF Decoded
  <2>2. buffer' = Rest
    BY <1>4 DEF Decoded, Spans
  <2>3. pos + 2 <= Len(data)
    BY <1>2, <2>1
  <2>4. Rest[2] = data[pos + 2]
    BY <1>2, <2>1
  <2> QED
    BY <2>1, <2>2, <2>3, <2>4
<1>9. ASSUME AdvancesTime(Rest[1])
      PROVE  /\ \A i \in 2 .. auSize' : ~AdvancesTime(data[pos + i])
             /\ pos + auSize' = Len(data) \/ ~Attached(data[pos + auSize' + 1])
  <2>1. /\ auSize' \in from .. Len(Rest)
        /\ \A i \in from + 1 .. auSize' : Attached(Rest[i])
        /\ auSize' = Len(Rest) \/ ~Attached(Rest[auSize' + 1])
        /\ from = 2 => Rest[2].strmtyp = "dependent"
    BY <1>3, <1>4, <1>9, DecodedSpan
  <2>2. ASSUME NEW i \in 2 .. auSize' PROVE ~AdvancesTime(data[pos + i])
    <3>1. i \in from + 1 .. auSize' \/ (i = 2 /\ from = 2)
      <4>1. CASE from = 1
        BY <2>1, <2>2, <4>1
      <4>2. CASE from = 2
        BY <2>1, <2>2, <4>2
      <4> QED
        BY <4>1, <4>2
    <3>2. i \in 1 .. Len(data) - pos
      BY <1>2, <1>7, <2>2
    <3>3. Rest[i] = data[pos + i]
      BY <1>2, <3>2
    <3>4. ~AdvancesTime(Rest[i])
      <4>1. CASE i \in from + 1 .. auSize'
        BY <2>1, <4>1 DEF Attached
      <4>2. CASE i = 2 /\ from = 2
        BY <2>1, <4>2 DEF AdvancesTime
      <4> QED
        BY <3>1, <4>1, <4>2
    <3> QED
      BY <3>3, <3>4
  <2>3. pos + auSize' = Len(data) \/ ~Attached(data[pos + auSize' + 1])
    <3> SUFFICES ASSUME pos + auSize' # Len(data)
                 PROVE  ~Attached(data[pos + auSize' + 1])
      OBVIOUS
    <3>1. \A n, m, k \in Nat : k + n # m => n # m - k
      OBVIOUS
    <3>2. auSize' \in Nat
      BY <1>1, <1>2, <1>7
    <3>3. auSize' # Len(data) - pos
      BY <1>2, <3>1, <3>2
    <3>4. ~Attached(Rest[auSize' + 1])
      BY <1>2, <2>1, <3>3
    <3>5. \A n, m \in Nat : n <= m /\ n # m => n + 1 \in 1 .. m
      OBVIOUS
    <3>6. auSize' \in Nat /\ auSize' <= Len(data) - pos /\ Len(data) - pos \in Nat
      BY <1>1, <1>2, <1>7
    <3>7. auSize' + 1 \in 1 .. Len(data) - pos
      BY <1>2, <3>5, <3>6, <3>3
    <3>8. Rest[auSize' + 1] = data[pos + auSize' + 1]
      <4>1. Rest[auSize' + 1] = data[pos + (auSize' + 1)]
        BY <1>2, <3>7
      <4>2. pos + (auSize' + 1) = pos + auSize' + 1
        BY <1>2, <3>6
      <4> QED
        BY <4>1, <4>2
    <3> QED
      BY <3>4, <3>8
  <2> QED
    BY <2>2, <2>3
<1>10. outcome' = "ok" /\ h' = data[pos + 1]
  BY <1>5, <1>6
<1> QED
  BY <1>1, <1>5, <1>6, <1>7, <1>8, <1>9, <1>10 DEF AtUnit

LEMMA LoopNext == DecoderInv /\ LoopInv /\ [PlayerNext]_playerVars => LoopInv'
<1> SUFFICES ASSUME DecoderInv, LoopInv, [PlayerNext]_playerVars PROVE LoopInv'
  OBVIOUS
<1>1. CASE AskDownmix \/ AskTarget
  BY <1>1 DEF AskDownmix, AskTarget, playing, LoopInv
<1>2. CASE Decode
  <2>1. pc' \in {"copy", "done"} /\ (pc' = "copy" => outcome' = "ok")
    BY <1>2 DEF Decode, AfterDecode
  <2>2. pc' = "copy" => AtUnit'
    BY <1>2, <2>1, DecodeReaches
  <2> QED
    BY <1>2, <2>1, <2>2 DEF Decode, playing, LoopInv
<1>3. CASE Copy
  <2>1. AtUnit /\ pc' = "loop" /\ data' = data /\ pos' = pos + auSize
    BY <1>3 DEF Copy, NextPos, LoopInv
  <2>2. Len(data) \in Nat
    BY StreamTyped DEF LoopInv
  <2>3. auSize \in 1 .. Len(data) - pos
    BY <2>1 DEF AtUnit
  <2> QED
    BY <2>1, <2>2, <2>3 DEF LoopInv
<1>4. CASE Panic \/ EndOfData
  BY <1>4 DEF Panic, EndOfData, playing, LoopInv
<1>5. CASE UNCHANGED playerVars
  <2>1. UNCHANGED <<vars, pc, data, pos>>
    BY <1>5 DEF playerVars, playing
  <2>2. AtUnit' <=> AtUnit
    BY <2>1 DEF vars, told, asked, history, AtUnit
  <2> QED
    BY <2>1, <2>2 DEF LoopInv
<1> QED
  BY <1>1, <1>2, <1>3, <1>4, <1>5 DEF PlayerNext

(***************************************************************************)
(* Every unit once.                                                        *)
(***************************************************************************)

Chunk == [at : Nat, layout : Modes \union {"7.1", "downmix"}, filled : BOOLEAN]

(* What was played, and that the loop stands where a unit begins or at     *)
(* something that does not decode.                                         *)
UnitsInv ==
  /\ chunks \in Seq(Chunk)
  /\ AdvancesTime(data[1]) =>
       /\ \A i \in 1 .. Len(chunks) : AdvancesTime(data[chunks[i].at])
       /\ \A k \in 1 .. pos : AdvancesTime(data[k]) =>
            \E i \in 1 .. Len(chunks) : chunks[i].at = k
       /\ pos < Len(data) => ~Attached(data[pos + 1])

(* What Copy appends.                                                      *)
NewChunk == [at |-> pos + 1, layout |-> OutputLayout,
             filled |-> 0 .. Count - 1 \subseteq Filled]

LEMMA NewChunkTyped ==
  ASSUME DecoderInv, LoopInv
  PROVE  NewChunk \in Chunk /\ NewChunk.at = pos + 1
<1>1. OutputLayout \in Modes \union {"7.1", "downmix"}
  BY DEF OutputLayout, DecoderInv, TypeOK, Frame
<1>2. pos + 1 \in Nat
  BY DEF LoopInv
<1> DEFINE full == 0 .. Count - 1 \subseteq Filled
<1>3. full \in BOOLEAN
  OBVIOUS
<1> HIDE DEF full
<1>4. NewChunk = [at |-> pos + 1, layout |-> OutputLayout, filled |-> full]
  BY DEF NewChunk, full
<1> QED
  BY <1>1, <1>2, <1>3, <1>4 DEF Chunk

LEMMA CopyAppends ==
  ASSUME DecoderInv, LoopInv, chunks \in Seq(Chunk), Copy
  PROVE  /\ chunks' \in Seq(Chunk) /\ Len(chunks') = Len(chunks) + 1
         /\ \A i \in 1 .. Len(chunks) : chunks'[i] = chunks[i]
         /\ chunks'[Len(chunks) + 1] = NewChunk
<1>1. chunks' = Append(chunks, NewChunk)
  BY DEF Copy, NewChunk
<1> QED
  BY <1>1, NewChunkTyped

LEMMA UnitsNext ==
  DecoderInv /\ LoopInv /\ UnitsInv /\ [PlayerNext]_playerVars => UnitsInv'
<1> SUFFICES ASSUME DecoderInv, LoopInv, UnitsInv, [PlayerNext]_playerVars
             PROVE  UnitsInv'
  OBVIOUS
<1>1. CASE UNCHANGED playing
  BY <1>1 DEF playing, UnitsInv
<1>2. CASE Copy
  <2>1. /\ data' = data /\ pos' = pos + auSize /\ AtUnit
        /\ Len(data) \in Nat /\ pos \in Nat
    BY <1>2, StreamTyped DEF Copy, NextPos, LoopInv
  <2>2. /\ chunks' \in Seq(Chunk) /\ Len(chunks') = Len(chunks) + 1
        /\ \A i \in 1 .. Len(chunks) : chunks'[i] = chunks[i]
        /\ chunks'[Len(chunks) + 1].at = pos + 1
    BY <1>2, CopyAppends, NewChunkTyped DEF UnitsInv
  <2>3. Len(chunks) \in Nat /\ auSize \in 1 .. Len(data) - pos
    BY <2>1 DEF UnitsInv, AtUnit
  <2> SUFFICES ASSUME AdvancesTime(data[1])
               PROVE  /\ \A i \in 1 .. Len(chunks') : AdvancesTime(data[chunks'[i].at])
                      /\ \A k \in 1 .. pos' : AdvancesTime(data[k]) =>
                           \E i \in 1 .. Len(chunks') : chunks'[i].at = k
                      /\ pos' < Len(data) => ~Attached(data[pos' + 1])
    BY <2>1, <2>2 DEF UnitsInv
  <2>4. AdvancesTime(data[pos + 1])
    <3>1. pos < Len(data) /\ ~Attached(data[pos + 1])
      BY <2>1 DEF AtUnit, UnitsInv
    <3> QED
      BY <2>1, <3>1 DEF AtUnit, Attached
  <2>5. ASSUME NEW i \in 1 .. Len(chunks') PROVE AdvancesTime(data[chunks'[i].at])
    <3>1. CASE i \in 1 .. Len(chunks)
      BY <2>2, <3>1 DEF UnitsInv
    <3>2. CASE i = Len(chunks) + 1
      BY <2>2, <2>4, <3>2
    <3> QED
      BY <2>2, <2>3, <2>5, <3>1, <3>2
  <2>6. ASSUME NEW k \in 1 .. pos', AdvancesTime(data[k])
        PROVE  \E i \in 1 .. Len(chunks') : chunks'[i].at = k
    <3>1. CASE k \in 1 .. pos
      <4>1. PICK i \in 1 .. Len(chunks) : chunks[i].at = k
        BY <2>6, <3>1 DEF UnitsInv
      <4>2. i \in 1 .. Len(chunks') /\ chunks'[i].at = k
        BY <2>2, <2>3, <4>1
      <4> QED
        BY <4>2
    <3>2. CASE k = pos + 1
      <4>1. Len(chunks) + 1 \in 1 .. Len(chunks')
        BY <2>2, <2>3
      <4> QED
        BY <2>2, <3>2, <4>1
    <3>3. CASE k \notin 1 .. pos /\ k # pos + 1
      <4>1. k - pos \in 2 .. auSize /\ pos + (k - pos) = k
        BY <2>1, <2>3, <2>6, <3>3
      <4> QED
        BY <2>1, <2>4, <2>6, <4>1 DEF AtUnit
    <3> QED
      BY <3>1, <3>2, <3>3
  <2>7. ASSUME pos' < Len(data) PROVE ~Attached(data[pos' + 1])
    BY <2>1, <2>3, <2>4, <2>7 DEF AtUnit
  <2> QED
    BY <2>5, <2>6, <2>7
<1> QED
  BY <1>1, <1>2 DEF PlayerNext, playerVars, AskDownmix, AskTarget, Decode, Panic, EndOfData

LEMMA PlayerInvInit ==
  PlayerInit => DecoderInv /\ LoopInv /\ UnitsInv
<1> SUFFICES ASSUME PlayerInit PROVE DecoderInv /\ LoopInv /\ UnitsInv
  OBVIOUS
<1>1. DecoderInv
  BY TypeInit DEF PlayerInit, Init, SampleInv, DecoderInv
<1>2. data \in Streams /\ pos = 0 /\ pc = "downmix" /\ chunks = <<>>
  BY DEF PlayerInit
<1>3. data \in Seq(Frame) /\ Len(data) \in Nat
  BY <1>2, StreamTyped
<1>4. LoopInv
  BY <1>2, <1>3 DEF LoopInv
<1>5. chunks \in Seq(Chunk) /\ Len(chunks) = 0
  BY <1>2
<1>6. AdvancesTime(data[1]) => ~Attached(data[pos + 1])
  BY <1>2 DEF Attached
<1> QED
  BY <1>1, <1>2, <1>4, <1>5, <1>6 DEF UnitsInv

(* Whatever a stream holds after a frame of its programme, the loop plays  *)
(* each unit of it once, in order, until the first that does not decode.   *)
THEOREM EveryUnitOnce == PlayerSpec => []PlaysEveryUnitOnce
<1>1. DecoderInv /\ LoopInv /\ UnitsInv /\ [PlayerNext]_playerVars
        => DecoderInv' /\ LoopInv' /\ UnitsInv'
  BY DecoderInvNext, LoopNext, UnitsNext
<1>2. UnitsInv => PlaysEveryUnitOnce
  BY DEF UnitsInv, PlaysEveryUnitOnce
<1> QED
  BY <1>1, <1>2, PlayerInvInit, PTL DEF PlayerSpec, playerVars

(***************************************************************************)
(* Its own samples.                                                        *)
(***************************************************************************)

ChannelsOf(layout) ==
  IF layout = "7.1" THEN 8
  ELSE IF layout = "downmix" THEN dmixChannels ELSE NumChannels[layout]

(* The channel count is what the first unit's layout has, and under a      *)
(* downmix what was asked for.                                             *)
CountInv ==
  /\ channels = 0 <=> Len(chunks) = 0
  /\ pc \in {"downmix", "target"} => Len(chunks) = 0
  /\ Len(chunks) > 0 =>
       /\ channels = ChannelsOf(chunks[1].layout)
       /\ dmixChannels # Off => channels = dmixChannels

PlayerInv == DecoderInv /\ LoopInv /\ UnitsInv /\ CountInv

LEMMA OutputCount ==
  ASSUME DecoderInv, AtUnit
  PROVE  /\ OutputChannels = ChannelsOf(OutputLayout)
         /\ OutputChannels # 0
         /\ dmixChannels # Off => OutputChannels = dmixChannels
<1>1. /\ h.mode \in Modes /\ h.mode \notin {"7.1", "downmix"}
      /\ NumChannels[h.mode] \in 1 .. 6
  BY BuffersAssumption, StreamsAssumption DEF DecoderInv, TypeOK, Frame
<1>2. output71 => h.mode = "5.1" /\ ~Mixing(h, dmixChannels)
  BY DEF DecoderInv, SampleInv, AtUnit
<1>3. dmixChannels \in {Off, 1, 2}
  BY BuffersAssumption DEF DecoderInv, TypeOK
<1>4. OutputChannels = ChannelsOf(OutputLayout)
  BY <1>1 DEF OutputChannels, OutputLayout, ChannelsOf
<1>5. OutputChannels # 0
  BY <1>1, <1>3 DEF OutputChannels, downmixing, Mixing, Off
<1>6. ASSUME dmixChannels # Off PROVE OutputChannels = dmixChannels
  <2>1. ~output71
    BY <1>2, <1>6 DEF Mixing
  <2>2. CASE downmixing
    BY <2>1, <2>2 DEF OutputChannels
  <2>3. CASE ~downmixing
    <3>1. dmixChannels = 2 /\ h.mode = "stereo"
      BY <1>6, <2>3 DEF downmixing, Mixing
    <3> QED
      BY <2>1, <2>3, <3>1, BuffersAssumption DEF OutputChannels
  <2> QED
    BY <2>2, <2>3
<1> QED
  BY <1>4, <1>5, <1>6

(* The count Copy uses is the unit's own, when the layout is the first     *)
(* one's or mixed.                                                         *)
LEMMA CountIsOwn ==
  ASSUME DecoderInv, AtUnit, CountInv, Len(chunks) \in Nat,
         \/ dmixChannels # Off \/ Len(chunks) = 0
         \/ OutputLayout = chunks[1].layout
  PROVE  Count = OutputChannels
<1>1. CASE Len(chunks) = 0
  BY <1>1 DEF Count, CountInv
<1>2. CASE Len(chunks) > 0
  <2>1. channels # 0 /\ Count = channels
    BY <1>2 DEF Count, CountInv
  <2> QED
    BY <1>2, <2>1, OutputCount DEF CountInv
<1> QED
  BY <1>1, <1>2

(* Every plane a unit is handed back in was filled by its own decoding.    *)
LEMMA OwnPlanesFilled ==
  ASSUME DecoderInv, LoopInv, AtUnit, Count = OutputChannels, ~Short71(NewChunk)
  PROVE  0 .. Count - 1 \subseteq Filled
<1>1. /\ nsamp \in Nat /\ nsamp = h.blocks /\ h \in Frame
      /\ \A c \in Coded(h) : core.wrote[c] = nsamp
      /\ Mixing(h, dmixChannels) =>
           \A p \in {0, 1} : p < dmixChannels => dmix[p] = nsamp
  BY BuffersAssumption DEF DecoderInv, SampleInv, TypeOK, AtUnit
<1>2. CASE output71
  <2>1. OutputLayout = "7.1" /\ Count = 8
    BY <1>2 DEF OutputLayout, OutputChannels
  <2>2. /\ data \in Seq(Frame) /\ pos \in Nat /\ pos + 2 <= Len(data)
        /\ h = data[pos + 1] /\ buffer[2] = data[pos + 2]
    BY <1>2, StreamTyped DEF LoopInv, AtUnit
  <2>3. data[pos + 2] \in Frame
    BY <2>2
  <2>4. data[pos + 2].blocks \in Int
    BY <2>3, BuffersAssumption DEF Frame
  <2>5. NewChunk.at = pos + 1 /\ NewChunk.layout = "7.1" /\ NewChunk.at + 1 = pos + 2
    BY <2>1, <2>2 DEF NewChunk
  <2>6. ~(data[pos + 2].blocks < nsamp)
    BY <1>1, <2>2, <2>5 DEF Short71
  <2>7. buffer[2].blocks >= nsamp
    BY <1>1, <2>2, <2>4, <2>6
  <2>8. \A n \in Samples : n >= nsamp
    BY <2>7, SampleInvSuffices DEF DecoderInv, SamplesAreOfTheUnit, AtUnit
  <2> QED
    BY <1>2, <2>1, <2>8 DEF Filled, Planes
<1>3. CASE ~output71 /\ downmixing
  <2>1. Count = dmixChannels /\ dmixChannels \in {1, 2} /\ Mixing(h, dmixChannels)
    BY <1>3, BuffersAssumption DEF OutputChannels, downmixing, Mixing, DecoderInv, TypeOK
  <2>2. \A p \in 0 .. dmixChannels - 1 : p \in {0, 1} /\ p < dmixChannels
    BY <2>1
  <2>3. \A p \in 0 .. Count - 1 : p \in {0, 1} /\ dmix[p] = nsamp
    BY <1>1, <2>1, <2>2
  <2> QED
    BY <1>1, <1>3, <2>3 DEF Filled, Planes
<1>4. CASE ~output71 /\ ~downmixing
  <2>1. 0 .. Count - 1 = Coded(h) /\ Coded(h) \subseteq Channels
    BY <1>1, <1>4, CodedChannels DEF OutputChannels, Coded
  <2>2. \A c \in Coded(h) : core.wrote[c] >= nsamp
    BY <1>1
  <2>3. Filled = {ch \in Channels : core.wrote[ch] >= nsamp}
    BY <1>4 DEF Filled, Planes
  <2> QED
    BY <2>1, <2>2, <2>3
<1> QED
  BY <1>2, <1>3, <1>4

LEMMA CountNext ==
  PlayerInv /\ [PlayerNext]_playerVars => CountInv'
<1> SUFFICES ASSUME PlayerInv, [PlayerNext]_playerVars PROVE CountInv'
  OBVIOUS
<1>1. CASE AskDownmix \/ AskTarget
  <2>1. /\ Len(chunks) = 0 /\ chunks' = chunks /\ channels' = channels
    BY <1>1 DEF PlayerInv, CountInv, AskDownmix, AskTarget, playing
  <2> QED
    BY <2>1 DEF PlayerInv, CountInv
<1>2. CASE Decode
  <2>1. dmixChannels' = dmixChannels
    BY <1>2 DEF Decode, DecodeFrame, RefuseHeader, RefuseUnsupported, FailBlock,
       DecodeAlone, StepOver, DecodeDependent71, FailDependent, Merges,
       DecodesCore, Entered, Handed, asked
  <2>2. chunks' = chunks /\ channels' = channels /\ pc' \in {"copy", "done"}
    BY <1>2 DEF Decode, AfterDecode, playing
  <2> QED
    BY <2>1, <2>2 DEF PlayerInv, CountInv, ChannelsOf
<1>3. CASE Copy
  <2>1. AtUnit /\ dmixChannels' = dmixChannels /\ pc' = "loop" /\ channels' = Count
    BY <1>3 DEF PlayerInv, Copy, LoopInv, vars, asked
  <2>2. /\ Len(chunks) \in Nat /\ Len(chunks') = Len(chunks) + 1
        /\ \A i \in 1 .. Len(chunks) : chunks'[i] = chunks[i]
        /\ chunks'[Len(chunks) + 1].layout = OutputLayout
    BY <1>3, CopyAppends DEF PlayerInv, UnitsInv, NewChunk
  <2>3. CASE Len(chunks) = 0
    <3>1. Count = OutputChannels /\ chunks'[1].layout = OutputLayout
      BY <2>1, <2>2, <2>3, CountIsOwn DEF PlayerInv
    <3> QED
      BY <2>1, <2>2, <2>3, <3>1, OutputCount DEF PlayerInv, CountInv, ChannelsOf
  <2>4. CASE Len(chunks) > 0
    <3>1. channels # 0 /\ Count = channels /\ chunks'[1] = chunks[1]
      BY <2>2, <2>4 DEF PlayerInv, CountInv, Count
    <3> QED
      BY <2>1, <2>2, <2>4, <3>1 DEF PlayerInv, CountInv, ChannelsOf
  <2> QED
    BY <2>2, <2>3, <2>4
<1>4. CASE Panic \/ EndOfData
  BY <1>4 DEF Panic, EndOfData, vars, asked, playing, PlayerInv, CountInv, ChannelsOf
<1>5. CASE UNCHANGED playerVars
  BY <1>5 DEF playerVars, vars, asked, playing, PlayerInv, CountInv, ChannelsOf
<1> QED
  BY <1>1, <1>2, <1>3, <1>4, <1>5 DEF PlayerNext

LEMMA SamplesNext ==
  PlayerInv /\ OwnSamplesInSteadyLayout /\ [PlayerNext]_playerVars
    => OwnSamplesInSteadyLayout'
<1> SUFFICES ASSUME PlayerInv, OwnSamplesInSteadyLayout, [PlayerNext]_playerVars
             PROVE  OwnSamplesInSteadyLayout'
  OBVIOUS
<1>1. CASE Copy
  <2>1. AtUnit /\ dmixChannels' = dmixChannels /\ data' = data
    BY <1>1 DEF PlayerInv, Copy, LoopInv, vars, asked
  <2>2. /\ Len(chunks) \in Nat /\ Len(chunks') = Len(chunks) + 1
        /\ \A i \in 1 .. Len(chunks) : chunks'[i] = chunks[i]
        /\ chunks'[Len(chunks) + 1] = NewChunk
    BY <1>1, CopyAppends DEF PlayerInv, UnitsInv
  <2> SUFFICES ASSUME NEW i \in 1 .. Len(chunks'),
                      \/ dmixChannels # Off
                      \/ \A j \in 1 .. i : chunks'[j].layout = chunks'[1].layout,
                      ~Short71(chunks'[i])
               PROVE  chunks'[i].filled
    BY <2>1 DEF OwnSamplesInSteadyLayout, Short71
  <2>3. CASE i \in 1 .. Len(chunks)
    <3>1. /\ chunks'[i] = chunks[i] /\ 1 \in 1 .. Len(chunks)
          /\ \A j \in 1 .. i : chunks'[j] = chunks[j] /\ chunks'[1] = chunks[1]
      BY <2>2, <2>3
    <3> QED
      BY <2>3, <3>1 DEF OwnSamplesInSteadyLayout
  <2>4. CASE i = Len(chunks) + 1
    <3>1. \/ dmixChannels # Off \/ Len(chunks) = 0
          \/ OutputLayout = chunks[1].layout
      <4>1. CASE Len(chunks) > 0 /\ dmixChannels = Off
        <5>1. chunks'[i].layout = chunks'[1].layout /\ chunks'[1] = chunks[1]
          BY <2>2, <2>4, <4>1
        <5> QED
          BY <2>2, <2>4, <5>1 DEF NewChunk
      <4> QED
        BY <2>2, <4>1
    <3>2. Count = OutputChannels
      BY <2>1, <2>2, <3>1, CountIsOwn DEF PlayerInv
    <3>3. chunks'[i] = NewChunk
      BY <2>2, <2>4
    <3>4. 0 .. Count - 1 \subseteq Filled
      BY <2>1, <3>2, <3>3, OwnPlanesFilled DEF PlayerInv
    <3>5. NewChunk.filled = (0 .. Count - 1 \subseteq Filled)
      BY DEF NewChunk
    <3> QED
      BY <3>3, <3>4, <3>5, Zenon
  <2> QED
    BY <2>2, <2>3, <2>4
<1>2. CASE AskDownmix \/ AskTarget
  <2>1. Len(chunks) = 0 /\ chunks' = chunks
    BY <1>2 DEF PlayerInv, CountInv, AskDownmix, AskTarget, playing
  <2> QED
    BY <2>1 DEF OwnSamplesInSteadyLayout
<1>3. CASE Decode
  <2>1. dmixChannels' = dmixChannels /\ chunks' = chunks /\ data' = data
    BY <1>3 DEF Decode, playing, DecodeFrame, RefuseHeader, RefuseUnsupported,
       FailBlock, DecodeAlone, StepOver, DecodeDependent71, FailDependent, Merges,
       DecodesCore, Entered, Handed, asked
  <2> QED
    BY <2>1 DEF OwnSamplesInSteadyLayout, Short71
<1>4. CASE Panic \/ EndOfData \/ UNCHANGED playerVars
  BY <1>4 DEF Panic, EndOfData, playerVars, vars, asked, playing,
     OwnSamplesInSteadyLayout, Short71
<1> QED
  BY <1>1, <1>2, <1>3, <1>4 DEF PlayerNext

(* While the layout does not change, and under a downmix whether it does   *)
(* or not, every sample copied out is the unit's own, but for the end of   *)
(* the side and back planes a short merged substream leaves.               *)
THEOREM OwnSamples == PlayerSpec => []OwnSamplesInSteadyLayout
<1>1. PlayerInit => PlayerInv /\ OwnSamplesInSteadyLayout
  <2> SUFFICES ASSUME PlayerInit PROVE CountInv /\ OwnSamplesInSteadyLayout
    BY PlayerInvInit DEF PlayerInv
  <2>1. channels = 0 /\ Len(chunks) = 0
    BY DEF PlayerInit
  <2> QED
    BY <2>1 DEF CountInv, OwnSamplesInSteadyLayout
<1>2. PlayerInv /\ OwnSamplesInSteadyLayout /\ [PlayerNext]_playerVars
        => PlayerInv' /\ OwnSamplesInSteadyLayout'
  BY DecoderInvNext, LoopNext, UnitsNext, CountNext, SamplesNext DEF PlayerInv
<1> QED
  BY <1>1, <1>2, PTL DEF PlayerSpec, playerVars


(* Every step of the call takes it nearer to its end: a unit that was      *)
(* decoded is at least a frame long, and one that was not ends the loop    *)
(* (src/cmd/ac3go-wasm/main.go:185-213).                                     *)
THEOREM LoopComesToAnEnd == PlayerSpec => LoopRunsOut
<1>1. DecoderInv /\ LoopInv /\ [PlayerNext]_playerVars
        => [StepsLeft' \in 0 .. StepsLeft - 1]_playerVars
  <2> SUFFICES ASSUME DecoderInv, LoopInv, PlayerNext
               PROVE  StepsLeft' \in 0 .. StepsLeft - 1
    OBVIOUS
  <2>0. Len(data) \in Nat /\ pos \in Nat /\ pos <= Len(data)
    BY StreamTyped DEF LoopInv
  <2>1. CASE AskDownmix
    BY <2>0, <2>1 DEF AskDownmix, playing, StepsLeft
  <2>2. CASE AskTarget
    BY <2>0, <2>2 DEF AskTarget, playing, StepsLeft
  <2>3. CASE Decode
    <3>1. /\ pc = "loop" /\ pos < Len(data) /\ pc' \in {"copy", "done"}
          /\ data' = data /\ pos' = pos
      BY <2>3 DEF Decode, AfterDecode, playing
    <3> QED
      BY <2>0, <3>1 DEF StepsLeft
  <2>4. CASE Copy
    <3>1. /\ pc = "copy" /\ pc' = "loop" /\ data' = data /\ pos' = pos + auSize
          /\ auSize \in 1 .. Len(data) - pos
      BY <2>4 DEF Copy, NextPos, LoopInv, AtUnit
    <3>2. pos' \in pos + 1 .. Len(data)
      BY <2>0, <3>1
    <3>3. /\ StepsLeft = 2 * (Len(data) - pos)
          /\ StepsLeft' = 2 * (Len(data) - pos') + 1
      BY <2>0, <3>1, <3>2 DEF StepsLeft
    <3> QED
      BY <2>0, <3>2, <3>3
  <2>5. CASE Panic
    <3>1. pos < Len(data) /\ pc = "copy" /\ pc' = "panic"
      BY <2>5 DEF Panic, LoopInv, AtUnit
    <3> QED
      BY <2>0, <3>1 DEF StepsLeft
  <2>6. CASE EndOfData
    BY <2>0, <2>6 DEF EndOfData, StepsLeft
  <2> QED
    BY <2>1, <2>2, <2>3, <2>4, <2>5, <2>6 DEF PlayerNext
<1>2. DecoderInv /\ LoopInv /\ [PlayerNext]_playerVars
        => DecoderInv' /\ LoopInv'
  BY DecoderInvNext, LoopNext
<1> QED
  BY <1>1, <1>2, PlayerInvInit, PTL
  DEF PlayerSpec, LoopRunsOut, playerVars
=============================================================================
