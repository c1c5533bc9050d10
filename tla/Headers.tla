------------------------------- MODULE Headers -------------------------------
(***************************************************************************)
(* A Header filled in place, frame after frame (ParseHeader of             *)
(* src/ac3/header.go and parseEAC3BSI of header_eac3.go): which frame the  *)
(* optional fields it shows were stated by.                                *)
(*                                                                         *)
(* Every field is read, cleared or passed by without regard to the others, *)
(* so the model watches one of them, any of them, with its flag.  What     *)
(* else a frame states matters by what it makes present: its syntax, its   *)
(* mode, the part it plays, and the two metadata blocks of the enhanced    *)
(* syntax.  Fields no flag or mode announces are always read, or are not   *)
(* modelled.                                                               *)
(***************************************************************************)
EXTENDS Naturals

Shared == {"cmixlev", "surmixlev", "dsurmod", "compr", "langcod", "audprodi",
           "dialnorm2", "compr2", "langcod2", "audprodi2", "timecod1", "timecod2",
           "xbsi1", "xbsi2", "addbsi"}
EnhancedOnly == {"chanmap", "blkid"}
Fields == Shared \union EnhancedOnly

(* Present by the mode alone, with no flag to say so.                      *)
Flagless == {"dialnorm2"}

Acmods == {"1+1", "1/0", "2/0", "3/0", "2/2", "3/2"}
ThreeFront == {"3/0", "3/2"}
Surround == {"2/2", "3/2"}

(* bsid says which syntax; AC-3 has no type and no metadata blocks.        *)
Frame == {f \in [syntax : {"normal", "alternate", "enhanced"}, acmod : Acmods,
                 strmtyp : {"independent", "dependent", "convert"},
                 mixmdat : BOOLEAN, infomdat : BOOLEAN] :
            f.syntax # "enhanced" =>
              f.strmtyp = "independent" /\ ~f.mixmdat /\ ~f.infomdat}

VARIABLES
  field,      \* the field watched
  flag,       \* whether the header says the field is there
  origin,     \* how the last parse left it: stated, cleared or kept
  frame,      \* the frame last parsed
  parsed      \* whether its parse ended well

headerVars == <<field, flag, origin, frame, parsed>>

HeaderInit ==
  /\ field \in Fields
  /\ flag = FALSE /\ origin = "cleared" /\ parsed = FALSE
  /\ frame \in {f \in Frame : f.syntax = "normal" /\ f.acmod = "1+1"}

-----------------------------------------------------------------------------
(* What a frame must state, and what it may.                               *)

Only(set, condition) == IF condition THEN set ELSE {}

ByMode(f) ==
  Only({"cmixlev"}, f.acmod \in ThreeFront) \union Only({"surmixlev"}, f.acmod \in Surround)
    \union Only({"dsurmod"}, f.acmod = "2/0")

AC3States(f) == ByMode(f) \union Only({"dialnorm2"}, f.acmod = "1+1")

AC3MayState(f) ==
  {"compr", "langcod", "audprodi", "addbsi"}
    \union Only({"compr2", "langcod2", "audprodi2"}, f.acmod = "1+1")
    \union (IF f.syntax = "alternate" THEN {"xbsi1", "xbsi2"} ELSE {"timecod1", "timecod2"})

(* The mix levels are in the one metadata block, the surround mode in the  *)
(* other.  A converted frame has its frame size code or not.               *)
EAC3States(f) ==
  Only(ByMode(f) \ {"dsurmod"}, f.mixmdat) \union Only(ByMode(f) \intersect {"dsurmod"}, f.infomdat)
    \union Only({"dialnorm2"}, f.acmod = "1+1")

EAC3MayState(f) ==
  {"compr", "addbsi"} \union Only({"compr2"}, f.acmod = "1+1")
    \union Only({"chanmap"}, f.strmtyp = "dependent")
    \union Only({"blkid"}, f.strmtyp = "convert")
    \union Only({"audprodi"}, f.infomdat)
    \union Only({"audprodi2"}, f.infomdat /\ f.acmod = "1+1")

(* A fault: the alternate syntax's fields are cleared only where they are  *)
(* read.                                                                   *)
AC3ClearsItsOwn(f) ==
  Shared \ Only({"xbsi1", "xbsi2"}, f.syntax = "normal")

(* What a parser clears where the frame does not state it.  The AC-3 one   *)
(* clears all that its two syntaxes can state.                             *)
AC3Clears(f) == Shared

(* The enhanced one clears what it comes by: where it does not look for a  *)
(* field, the last frame's stands.  The mix levels have defaults.          *)
EAC3Clears(f) ==
  {"cmixlev", "surmixlev", "compr", "addbsi"} \union (EAC3MayState(f) \ {"blkid"})

States(f)   == IF f.syntax = "enhanced" THEN EAC3States(f) ELSE AC3States(f)
MayState(f) == IF f.syntax = "enhanced" THEN EAC3MayState(f) ELSE AC3MayState(f)
Clears(f)   == IF f.syntax = "enhanced" THEN EAC3Clears(f) ELSE AC3Clears(f)

-----------------------------------------------------------------------------
(* ParseHeader.                                                            *)

Left(outcome) ==
  /\ origin' = outcome
  /\ flag' = CASE outcome = "stated"  -> field \notin Flagless
               [] outcome = "cleared" -> FALSE
               [] OTHER               -> flag

Outcomes(f) ==
  IF field \in States(f) THEN {"stated"}
  ELSE Only({"stated"}, field \in MayState(f))
         \union (IF field \in Clears(f) THEN {"cleared"} ELSE {"kept"})

ParseHeader ==
  \E f \in Frame : \E outcome \in Outcomes(f) :
    /\ Left(outcome)
    /\ frame' = f /\ parsed' = TRUE /\ UNCHANGED field

(* The header runs out, or is refused, before the field or behind it.      *)
FailHeader ==
  \E f \in Frame : \E outcome \in Outcomes(f) \union {"kept"} :
    /\ Left(outcome)
    /\ frame' = f /\ parsed' = FALSE /\ UNCHANGED field

HeaderNext == ParseHeader \/ FailHeader

HeaderSpec == HeaderInit /\ [][HeaderNext]_headerVars

-----------------------------------------------------------------------------
(* What the decoder asks a header for.                                     *)

(* CenterMixLevel, SurroundMixLevel: the alternate syntax's levels go      *)
(* before the ordinary ones, where the frame has something to mix.         *)
CenterMixLevel(f) ==
  {"cmixlev"} \union Only({"xbsi1"}, f.syntax # "enhanced" /\ f.acmod \in ThreeFront)

SurroundMixLevel(f) ==
  {"surmixlev"} \union Only({"xbsi1"}, f.syntax # "enhanced" /\ f.acmod \in Surround)

(* With Dialnorm2DB in the dual mono mode, and is71Extension's question to *)
(* the header of a dependent substream.                                    *)
Asked(f) ==
  CenterMixLevel(f) \union SurroundMixLevel(f)
    \union Only({"dialnorm2"}, f.acmod = "1+1")
    \union Only({"chanmap"}, f.strmtyp = "dependent")

-----------------------------------------------------------------------------
(* Properties.                                                             *)

(* Whatever was parsed into a header before, and wherever that ended, no   *)
(* gain, level or channel map the decoder takes from it is an earlier      *)
(* frame's.                                                                *)
AskedFieldsAreOfTheFrame == parsed /\ field \in Asked(frame) => origin # "kept"

(* What the Header's comment says (header.go:108-110): optional fields     *)
(* come with the flag that gated them, so that one that is up was stated   *)
(* by the frame.                                                           *)
FlagsAreOfTheFrame == parsed /\ flag => origin = "stated"

=============================================================================
