------------------------------ MODULE MCPlayer ------------------------------
(***************************************************************************)
(* Programs with a decoder: the WebAssembly call, on every stream of a few *)
(* frames of the kinds that make a difference to where a unit ends and     *)
(* which planes it fills; and any other, that calls a decoder in whatever  *)
(* order it likes with the access units of MCDecoder.                      *)
(***************************************************************************)
EXTENDS Player, MCDecoder

CONSTANT MaxFrames

Brief == [Stereo EXCEPT !.blocks = 1, !.good = 1]
Kinds == {Core, Stereo, Brief, Side, ShortSide, Program, Bad}
Whole == UNION {[1 .. n -> Kinds] : n \in 1 .. MaxFrames}

(* A stream may be cut in its last frame.                                  *)
MCStreams == Whole \union {[s EXCEPT ![Len(s)] = Cut(s[Len(s)])] : s \in Whole}

(* The streams whose dependent substreams hold what their core holds: what *)
(* goes wrong on these is the layout's doing.                              *)
LongStreams ==
  {s \in MCStreams :
     \A i \in 2 .. Len(s) : s[i].strmtyp = "dependent" => s[i].blocks >= s[i - 1].blocks}
LongBuffers == UNION {Rests(s) : s \in LongStreams}

-----------------------------------------------------------------------------
(* A caller other than the loop: it plays no stream.                       *)
CallerInit ==
  /\ Init
  /\ pc = "caller" /\ data = <<Core>> /\ pos = 0 /\ channels = 0 /\ chunks = <<>>

CallerNext ==
  /\ pc = "caller"
  /\ \/ \E b \in MCBuffers : DecodeFrame(b)
     \/ \E width \in Widths : SetDownmix(width)
     \/ \E target \in Targets \union {Off} : SetTargetLevel(target)
     \/ Reset
  /\ UNCHANGED <<pc, playing>>

(* What is played and what is left of it, and what any other caller hands  *)
(* the decoder.                                                            *)
AllStreams == MCStreams \union UNION {Rests(s) : s \in MCBuffers}

ProgramsSpec ==
  /\ PlayerInit \/ CallerInit
  /\ [][PlayerNext \/ CallerNext]_<<vars, pc, playing>>
  /\ WF_<<vars, pc, playing>>(PlayerNext)

=============================================================================
