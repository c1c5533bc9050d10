----------------------------- MODULE MCDecoder ------------------------------
(***************************************************************************)
(* Decoder on the access units that make a difference to it: alone, with   *)
(* the frames that may follow them, cut short, and handed over as the rest *)
(* of a stream.                                                            *)
(***************************************************************************)
EXTENDS Decoder

(* Mix level "a" is a pair of codes either syntax can state: the surround  *)
(* code is 3, reserved in AC-3 and one and a half decibels down in E-AC-3. *)

ModeSet == {"1+1", "stereo", "2/2", "5.1"}
ChannelCounts == [m \in ModeSet |-> CASE m = "5.1" -> 6 [] m = "2/2" -> 4
                                      [] OTHER -> 2]

Plain == [strmtyp |-> "independent", substreamid |-> 0, halfRate |-> FALSE,
          head |-> "whole", whole |-> TRUE, mode |-> "5.1", chanmap71 |-> FALSE,
          mixlev |-> "a", dialnorm |-> "a", blocks |-> MaxBlocks,
          good |-> MaxBlocks, fits |-> TRUE]

Core    == Plain
Quiet   == [Plain EXCEPT !.dialnorm = "b", !.mixlev = "b"]
Stereo  == [Plain EXCEPT !.mode = "stereo"]
Short   == [Plain EXCEPT !.blocks = 1, !.good = 1]
AC3     == [Plain EXCEPT !.strmtyp = "ac3"]
Convert == [Plain EXCEPT !.strmtyp = "convert"]
Side    == [Plain EXCEPT !.strmtyp = "dependent", !.mode = "2/2", !.chanmap71 = TRUE]
ShortSide == [Side EXCEPT !.blocks = 1, !.good = 1]
BadSide == [Side EXCEPT !.good = 1]
Pair    == [Side EXCEPT !.mode = "stereo"]     \* the map says four channels
Other   == [Side EXCEPT !.chanmap71 = FALSE]
Program == [Plain EXCEPT !.substreamid = 1, !.mode = "stereo"]
Bad     == [Plain EXCEPT !.good = 1]
Over    == [Plain EXCEPT !.fits = FALSE]
Garbage == [Plain EXCEPT !.head = "none"]
NoBSI   == [Side EXCEPT !.head = "syncinfo"]

Cut(f) == [f EXCEPT !.whole = FALSE]

MCBuffers ==
  {<<f>> : f \in {Core, Quiet, Stereo, Short, Program, Bad, Over, Garbage, NoBSI}}
    \union {<<f, Side>> : f \in {Core, AC3, Stereo, Convert, Short}}
    \union {<<Core, g>> : g \in {BadSide, ShortSide, Pair, Other, Cut(Side)}}
    \union {<<Core, Side, Other, Program, Core>>, <<Core, Program, Side, AC3>>,
            <<Side, Core>>}

=============================================================================
