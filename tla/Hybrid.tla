-------------------------------- MODULE Hybrid -------------------------------
(***************************************************************************)
(* The gains of a channel under the hybrid transform (src/ac3/aht.go):     *)
(* they are read for the whole channel first, bin by bin or three to a     *)
(* codeword, and taken up in a second walk over the bins, with the         *)
(* mantissas they narrow.                                                  *)
(*                                                                         *)
(* The writer is history: it gives a gain to each bin that can have one,   *)
(* in the order of the bins.                                               *)
(***************************************************************************)
EXTENDS Integers, Sequences, FiniteSets

CONSTANTS
  Hebaps,      \* the pointers its bins may have
  MaxBins      \* how many bins a channel has

ASSUME HybridAssumption == Hebaps \subseteq 0 .. 19 /\ MaxBins \in Nat

VARIABLES
  hstate,            \* which walk the channel is in
  hebap, gaqMode,    \* the pointers of its bins, and its mode
  hbin, gs, gc,      \* how many bins are behind, how many gains, and
                     \* how many bins the open codeword has served
  gaqGain,           \* the gains read
  words,             \* how many codewords of gains were read
  given, taken       \* history: the gain written for each bin, and the
                     \* one its mantissas were read with

hybridVars == <<hstate, hebap, gaqMode, hbin, gs, gc, gaqGain, words, given, taken>>
channelVars == <<hebap, gaqMode, given>>

Modes == {"no", "12", "14", "124"}
Stale == -1                   \* whatever an earlier channel left

Places == 0 .. MaxBins + 1    \* the array is two longer than there are bins
Unread == [p \in Places |-> Stale]

(* The logarithms of the gains a mode chooses between, and the pointers of *)
(* the bins it gives one to.                                               *)
Gains == [m \in Modes |-> CASE m = "no" -> {0} [] m = "12" -> {0, 1}
                            [] m = "14" -> {0, 2} [] m = "124" -> {0, 1, 2}]
Reach == [m \in Modes |-> CASE m = "no" -> {} [] m = "12" -> 8 .. 11
                            [] OTHER -> 8 .. 16]

Gained == {i \in DOMAIN hebap : hebap[i] \in Reach[gaqMode]}
Rank(i) == Cardinality({j \in Gained : j <= i})

(* The r-th gain the writer gave; a codeword of three is filled up.        *)
Given(r) == IF \E i \in Gained : Rank(i) = r
            THEN given[CHOOSE i \in Gained : Rank(i) = r] ELSE 0

WordsWritten ==
  IF gaqMode = "124" THEN (Cardinality(Gained) + 2) \div 3 ELSE Cardinality(Gained)

(* gaqEndBap: the first pointer a mode's gains do not reach.               *)
gaqEndBap == [m \in Modes |-> IF m \in {"no", "12"} THEN 12 ELSE 17]

(* A fault: it is the same for every mode.                                 *)
HasGainAnyMode(i) == hebap[i] > 7 /\ hebap[i] < 17

(* A bin the first walk reads a gain for.                                  *)
HasGain(i) == hebap[i] > 7 /\ hebap[i] < gaqEndBap[gaqMode]

Here == hbin + 1
ReadsGain == hstate = "gains" /\ hbin < Len(hebap) /\ HasGain(Here)

HybridInit ==
  /\ hstate = "idle"
  /\ hebap = <<>> /\ gaqMode = "no" /\ given = <<>> /\ taken = <<>>
  /\ hbin = 0 /\ gs = 0 /\ gc = 2 /\ words = 0
  /\ gaqGain = Unread

StartChannel ==
  /\ hstate = "idle"
  /\ \E len \in 1 .. MaxBins : hebap' \in [1 .. len -> Hebaps]
  /\ gaqMode' \in Modes
  /\ given' \in [1 .. Len(hebap') -> {0, 1, 2}]
  /\ \A i \in 1 .. Len(hebap') :
       given'[i] \in IF hebap'[i] \in Reach[gaqMode'] THEN Gains[gaqMode'] ELSE {0}
  /\ taken' = <<>> /\ hbin' = 0 /\ gs' = 0 /\ gc' = 2 /\ words' = 0
  /\ gaqGain' = Unread
  /\ hstate' = IF gaqMode' = "no" THEN "mantissas" ELSE "gains"

(* readAHTGains: a bin without a gain.                                     *)
PassBin ==
  /\ hstate = "gains" /\ hbin < Len(hebap) /\ ~HasGain(Here)
  /\ hbin' = Here
  /\ UNCHANGED <<hstate, channelVars, gs, gc, gaqGain, words, taken>>

(* One bit for the bin's own gain.                                         *)
ReadGain ==
  /\ ReadsGain /\ gaqMode \in {"12", "14"}
  /\ gaqGain' = [gaqGain EXCEPT ![gs] = Given(words + 1)]
  /\ words' = words + 1 /\ gs' = gs + 1 /\ hbin' = Here
  /\ UNCHANGED <<hstate, channelVars, gc, taken>>

(* The counter starts full, so that the first bin opens a codeword.        *)
Opens == gc = 2

(* Three gains, read by the first of the bins they are for.  Past the end  *)
(* of the array Go panics.                                                 *)
OpenGains ==
  /\ ReadsGain /\ gaqMode = "124" /\ Opens
  /\ gaqGain' = [p \in Places |->
       IF p \in gs .. gs + 2 THEN Given(3 * words + 1 + p - gs) ELSE gaqGain[p]]
  /\ hstate' = IF gs + 2 \in Places THEN "gains" ELSE "panic"
  /\ words' = words + 1 /\ gs' = gs + 3 /\ gc' = 0 /\ hbin' = Here
  /\ UNCHANGED <<channelVars, taken>>

CountGain ==
  /\ ReadsGain /\ gaqMode = "124" /\ ~Opens
  /\ gc' = gc + 1 /\ hbin' = Here
  /\ UNCHANGED <<hstate, channelVars, gs, gaqGain, words, taken>>

EndOfGains ==
  /\ hstate = "gains" /\ hbin = Len(hebap)
  /\ hstate' = "mantissas" /\ hbin' = 0 /\ gs' = 0
  /\ UNCHANGED <<channelVars, gc, gaqGain, words, taken>>

(* readAHTMantissas: a bin's six mantissas, narrowed by its gain if it has *)
(* one; the others are noise, an index into a codebook, or at full width.  *)
ReadBin ==
  /\ hstate = "mantissas" /\ hbin < Len(hebap)
  /\ hbin' = Here
  /\ IF hebap[Here] >= 8 /\ gaqMode # "no" /\ hebap[Here] < gaqEndBap[gaqMode]
     THEN taken' = Append(taken, gaqGain[gs]) /\ gs' = gs + 1
     ELSE taken' = Append(taken, 0) /\ UNCHANGED gs
  /\ UNCHANGED <<hstate, channelVars, gc, gaqGain, words>>

EndOfBins ==
  /\ hstate = "mantissas" /\ hbin = Len(hebap)
  /\ hstate' = "idle"
  /\ hebap' = <<>> /\ gaqMode' = "no" /\ given' = <<>> /\ taken' = <<>>
  /\ hbin' = 0 /\ gs' = 0 /\ gc' = 2 /\ words' = 0 /\ gaqGain' = Unread

HybridNext ==
  \/ StartChannel \/ PassBin \/ ReadGain \/ OpenGains \/ CountGain
  \/ EndOfGains \/ ReadBin \/ EndOfBins

HybridSpec == HybridInit /\ [][HybridNext]_hybridVars

-----------------------------------------------------------------------------
(* Properties.                                                             *)

(* The two walks agree with each other and with the writer: the first      *)
(* reads every codeword of gains there is and not one more, inside its     *)
(* array, and the second reads each bin's mantissas with the gain that was *)
(* written for that bin.                                                   *)
GainsAreTheBins ==
  /\ hstate # "panic"
  /\ hstate = "mantissas" => /\ words = WordsWritten
                             /\ \A i \in 1 .. hbin : taken[i] = given[i]

=============================================================================
