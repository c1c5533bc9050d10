-------------------------------- MODULE Player -------------------------------
(***************************************************************************)
(* The decode call of the WebAssembly module (src/cmd/ac3go-wasm/main.go): *)
(* a new decoder is set up and handed the rest of the stream again and     *)
(* again, each time from where its last access unit ended, and the planes  *)
(* of each unit are copied out before the next is decoded.                 *)
(*                                                                         *)
(* The decoder is the one of Decoder; its buffers are the rests of streams.*)
(***************************************************************************)
EXTENDS Decoder

CONSTANT Streams

Rests(s) == {SubSeq(s, i, Len(s)) : i \in 1 .. Len(s)}

ASSUME StreamsAssumption ==
  /\ Streams \subseteq Seq(Frame) /\ <<>> \notin Streams
  /\ Buffers = UNION {Rests(s) : s \in Streams}
  /\ {"7.1", "downmix"} \cap Modes = {}

VARIABLES
  pc,         \* where the call is
  data, pos,  \* the stream, and how much of it is behind
  channels,   \* the channel count of the result, zero before the first unit
  chunks      \* what was copied out, by unit

playing == <<data, pos, channels, chunks>>

PlayerInit ==
  /\ Init
  /\ pc = "downmix" /\ data \in Streams /\ pos = 0
  /\ channels = 0 /\ chunks = <<>>

(* decodeOptions: a downmix, then a target level, either or neither.       *)
AskDownmix ==
  /\ pc = "downmix" /\ pc' = "target"
  /\ \/ \E width \in Widths \ {Off} : SetDownmix(width)
     \/ UNCHANGED vars
  /\ UNCHANGED playing

AskTarget ==
  /\ pc = "target" /\ pc' = "loop"
  /\ \/ \E target \in Targets \union {Off} : SetTargetLevel(target)
     \/ UNCHANGED vars
  /\ UNCHANGED playing

Rest == SubSeq(data, pos + 1, Len(data))

(* A fault: a frame that fails is left for the next turn of the loop.      *)
TryAgain == IF outcome' = "ok" THEN "copy" ELSE "loop"

(* The first failure ends the loop.                                        *)
AfterDecode == IF outcome' = "ok" THEN "copy" ELSE "done"

Decode ==
  /\ pc = "loop" /\ pos < Len(data)
  /\ DecodeFrame(Rest)
  /\ pc' = AfterDecode
  /\ UNCHANGED playing

(* What OutputChannels and OutputLayout answer.                            *)
OutputChannels ==
  IF output71 THEN 8 ELSE IF downmixing THEN dmixChannels ELSE NumChannels[h.mode]
OutputLayout ==
  IF output71 THEN "7.1" ELSE IF downmixing THEN "downmix" ELSE h.mode

(* The planes Samples can be asked for, and those of them that the last    *)
(* call filled.                                                            *)
Planes == IF output71 THEN 0 .. 7 ELSE IF downmixing THEN {0, 1} ELSE Channels
Filled ==
  IF output71 THEN {ch \in Planes : \A n \in Samples : n >= nsamp}
  ELSE IF downmixing THEN {ch \in Planes : dmix[ch] >= nsamp}
  ELSE {ch \in Planes : core.wrote[ch] >= nsamp}

(* The channel count is that of the first unit.                            *)
Count == IF channels = 0 THEN OutputChannels ELSE channels

(* A fault: the loop advances by the frame and not by the unit.            *)
NextFrame == pos + 1

NextPos == pos + auSize

Copy ==
  /\ pc = "copy" /\ 0 .. Count - 1 \subseteq Planes
  /\ channels' = Count
  /\ chunks' = Append(chunks, [at |-> pos + 1, layout |-> OutputLayout,
                               filled |-> 0 .. Count - 1 \subseteq Filled])
  /\ pos' = NextPos /\ pc' = "loop"
  /\ UNCHANGED <<vars, data>>

(* A plane past the last: the index is out of range, and Go panics.        *)
Panic ==
  /\ pc = "copy" /\ ~(0 .. Count - 1 \subseteq Planes)
  /\ pc' = "panic"
  /\ UNCHANGED <<vars, playing>>

EndOfData ==
  /\ pc = "loop" /\ pos >= Len(data)
  /\ pc' = "done"
  /\ UNCHANGED <<vars, playing>>

PlayerNext == AskDownmix \/ AskTarget \/ Decode \/ Copy \/ Panic \/ EndOfData

(* One goroutine runs the call to its end.                                 *)
PlayerSpec ==
  PlayerInit /\ [][PlayerNext]_<<vars, pc, playing>>
             /\ WF_<<vars, pc, playing>>(PlayerNext)

-----------------------------------------------------------------------------
(* Properties.                                                             *)

(* Of a stream that opens with a frame of its programme, every unit played *)
(* begins at such a frame, and no such frame is stepped over: the loop     *)
(* meets the units NextAccessUnit would have cut, one after the other, and *)
(* no dependent substream is played in place of a programme.               *)
PlaysEveryUnitOnce ==
  AdvancesTime(data[1]) =>
    /\ \A i \in 1 .. Len(chunks) : AdvancesTime(data[chunks[i].at])
    /\ \A k \in 1 .. pos : AdvancesTime(data[k]) =>
         \E i \in 1 .. Len(chunks) : chunks[i].at = k

(* A merged substream that holds fewer blocks than its core.               *)
Short71(c) == c.layout = "7.1" /\ data[c.at + 1].blocks < data[c.at].blocks

(* While the layout is that of the first unit - and under a downmix it     *)
(* always is - every sample copied out is the unit's own, but for the end  *)
(* of the side and back planes a short merged substream leaves.            *)
OwnSamplesInSteadyLayout ==
  \A i \in 1 .. Len(chunks) :
    /\ dmixChannels # Off \/ \A j \in 1 .. i : chunks[j].layout = chunks[1].layout
    /\ ~Short71(chunks[i])
    => chunks[i].filled

(* The call, once made, comes to its end, whatever the stream.             *)
LoopEnds == pc = "downmix" ~> pc \in {"done", "panic"}

(* What is left of the call: a decode and a copy for each unit, the empty  *)
(* rest, and the two settings made before the first.                       *)
StepsLeft ==
  IF pc \in {"done", "panic"} THEN 0
  ELSE 2 * (Len(data) - pos) + (CASE pc = "downmix" -> 3 [] pc = "target" -> 2
                                  [] pc = "loop" -> 1 [] OTHER -> 0)

(* Why it does: no turn of the loop is taken twice from the same place, so *)
(* that a call takes a number of steps its stream bounds.                  *)
LoopRunsOut == [][StepsLeft' \in 0 .. StepsLeft - 1]_<<vars, pc, playing>>


=============================================================================
