--------------------------- MODULE MCAudioBlocks ---------------------------
(***************************************************************************)
(* AudioBlocks on two channels and a few blocks.  Section numbers are the  *)
(* code's: a bandwidth code of 0 reaches three coupling sub-bands up, one  *)
(* of 8 five; a coupling begin of 0 is below that and one of 4 above.      *)
(***************************************************************************)
EXTENDS AudioBlocks, TLC

CONSTANTS left, right

ChannelSet == {left, right}
ModeChannels == [m \in Acmods |-> IF m = "mono" THEN {left} ELSE ChannelSet]

ChannelSymmetry == Permutations(ChannelSet)
=============================================================================
