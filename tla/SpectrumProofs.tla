--------------------------- MODULE SpectrumProofs ----------------------------
(***************************************************************************)
(* Theorems about the stages between a block's fields and its spectrum.    *)
(* Allocation: for every banding that tiles the bins, every range a        *)
(* channel may code and every delta segment, the walk stays inside its     *)
(* arrays, gives every bin its pointer, and uses nothing an earlier channel *)
(* left in the scratch.  Mantissas: for any quantizers that pack two or    *)
(* three values in a codeword, and any order in which a block's channels   *)
(* mix them, every mantissa gets the value its writer gave it.  Hybrid: for *)
(* any pointers and any signalled gains, each bin is scaled by the gain read *)
(* for it.                                                                 *)
(***************************************************************************)
EXTENDS Allocation, Mantissas, Hybrid, Recursion

(* The states in which the power of every band of the channel is known.    *)
Walked == {"low", "middle", "spread", "mask", "delta", "allocate", "allocated"}

(* The band cursor of a walk over bins stands for the bin cursor.          *)
CursorsMeet ==
  astate \in {"integrate", "allocate"} =>
    /\ band \in AllBands /\ band >= bndstrt
    /\ bin < channel.end
    /\ bndtab[band] <= bin /\ bin < bndtab[band] + bndsz[band]

PowerIsKnown ==
  /\ astate = "integrate" => bndstrt .. band - 1 \subseteq powered
  /\ astate \in Walked => bndstrt .. bndend - 1 \subseteq powered

LowBandsInOrder ==
  /\ astate \in {"low", "middle"} =>
       channel.kind # "coupling" /\ 0 .. band - 1 \subseteq excited
  /\ astate = "low" => band < 7
  /\ astate = "middle" => band <= Smaller(bndend, lowBands)

ExcitationIsKnown ==
  /\ astate = "spread" =>
       /\ band >= bndstrt
       /\ \A b \in bndstrt .. bndend - 1 : b < band => b \in excited
  /\ astate \in {"mask", "delta", "allocate"} =>
       bndstrt .. bndend - 1 \subseteq excited

MaskIsKnown ==
  /\ astate = "mask" => band >= bndstrt /\ bndstrt .. band - 1 \subseteq masked
  /\ astate \in {"delta", "allocate"} => bndstrt .. bndend - 1 \subseteq masked

ExponentsReachTheEnd ==
  astate = "compute" /\ ~widened => from <= channel.start /\ channel.end <= coded

AInv ==
  /\ AllocTypeOK
  /\ CursorsMeet /\ PowerIsKnown /\ LowBandsInOrder
  /\ ExcitationIsKnown /\ MaskIsKnown /\ ExponentsReachTheEnd
  /\ own = TRUE
  /\ astate = "allocated" => allocated = channel.end

(* What every channel has.                                                 *)
LEMMA ChannelFacts ==
  ASSUME NEW c \in Channels
  PROVE  /\ c.kind \in {"full", "lfe", "coupling"}
         /\ c.start \in Nat /\ c.end \in Nat /\ c.start < c.end /\ c.end <= Top
         /\ c.kind # "coupling" => c.start = 0
         /\ c.kind = "full" => c.end % 3 = 1 /\ masktab[c.end - 1] >= lowBands
         /\ c.kind = "lfe" => c.end = lfeMants
         /\ c.kind = "coupling" => (c.end - c.start) % 12 = 0
  BY TablesAssumption, RangesAssumption DEF Channels, NoChannel, lfeMants, Top

LEMMA TableFacts ==
  /\ nBands \in Nat /\ nBands > 22 /\ MaxCoefs \in Nat /\ Top \in Nat
  /\ Top <= MaxCoefs
  /\ \A k \in AllBands : bndtab[k] \in Nat /\ bndsz[k] \in Nat /\ bndsz[k] > 0
  /\ \A k \in AllBands : \A i \in bndtab[k] .. bndtab[k] + bndsz[k] - 1 :
       masktab[i] = k
  /\ \A i \in 0 .. Top - 1 :
       /\ masktab[i] \in AllBands /\ masktab[i] \in Nat /\ masktab[i] < nBands
       /\ bndtab[masktab[i]] <= i /\ i < bndtab[masktab[i]] + bndsz[masktab[i]]
  /\ masktab[0] = 0 /\ masktab[lfeMants - 1] = lfeBands - 1
<1>1. /\ nBands \in Nat /\ nBands > 22 /\ MaxCoefs \in Nat /\ Top \in Nat
      /\ Top <= MaxCoefs
  BY TablesAssumption DEF lowBands
<1>2. \A k \in AllBands : bndtab[k] \in Nat /\ bndsz[k] \in Nat /\ bndsz[k] > 0
  BY TablesAssumption
<1>3. \A k \in AllBands : \A i \in bndtab[k] .. bndtab[k] + bndsz[k] - 1 :
        masktab[i] = k
  BY TablesAssumption
<1>4. ASSUME NEW i \in 0 .. Top - 1
      PROVE  /\ masktab[i] \in AllBands /\ masktab[i] \in Nat /\ masktab[i] < nBands
             /\ bndtab[masktab[i]] <= i /\ i < bndtab[masktab[i]] + bndsz[masktab[i]]
  <2>1. i \in Bins
    BY <1>1 DEF Bins
  <2>2. masktab[i] \in AllBands
    BY <2>1, TablesAssumption
  <2>3. masktab[i] \in Nat /\ masktab[i] < nBands
    BY <1>1, <2>2 DEF AllBands
  <2>4. \A j \in 0 .. Top - 1 :
          bndtab[masktab[j]] <= j /\ j < bndtab[masktab[j]] + bndsz[masktab[j]]
    BY TablesAssumption
  <2>. QED
    BY <2>2, <2>3, <2>4
<1>5. masktab[0] = 0 /\ masktab[lfeMants - 1] = lfeBands - 1
  BY TablesAssumption
<1>. QED
  BY <1>1, <1>2, <1>3, <1>4, <1>5

(* Where a channel's bands begin and end.                                  *)
LEMMA BandFacts ==
  ASSUME channel \in Channels
  PROVE  /\ bndstrt \in AllBands /\ bndstrt \in Nat
         /\ bndend \in Nat /\ bndend - 1 \in AllBands /\ bndend <= nBands
         /\ bndtab[bndstrt] <= channel.start
         /\ channel.start < bndtab[bndstrt] + bndsz[bndstrt]
         /\ channel.kind # "coupling" => bndstrt = 0 /\ (isLFE \/ bndend > 22)
<1>1. /\ channel.start \in Nat /\ channel.end \in Nat
      /\ channel.start < channel.end /\ channel.end <= Top
      /\ channel.kind # "coupling" => channel.start = 0
      /\ channel.kind = "full" => masktab[channel.end - 1] >= lowBands
      /\ channel.kind = "lfe" => channel.end = lfeMants
      /\ channel.kind \in {"full", "lfe", "coupling"}
  BY ChannelFacts
<1>2. Top \in Nat /\ nBands \in Nat
  BY TableFacts
<1>3. channel.start \in 0 .. Top - 1 /\ channel.end - 1 \in 0 .. Top - 1
  BY <1>1, <1>2
<1>4. /\ masktab[channel.start] \in AllBands /\ masktab[channel.start] \in Nat
      /\ bndtab[masktab[channel.start]] <= channel.start
      /\ channel.start < bndtab[masktab[channel.start]] + bndsz[masktab[channel.start]]
  BY <1>3, TableFacts
<1>5. /\ masktab[channel.end - 1] \in AllBands /\ masktab[channel.end - 1] \in Nat
      /\ masktab[channel.end - 1] < nBands
  BY <1>3, TableFacts
<1>6. channel.kind # "coupling" => bndstrt = 0 /\ (isLFE \/ bndend > 22)
  <2>1. CASE channel.kind = "full"
    BY <1>1, <1>5, <2>1, TableFacts DEF bndstrt, bndend, lowBands
  <2>2. CASE channel.kind = "lfe"
    BY <1>1, <2>2, TableFacts DEF bndstrt, bndend, isLFE, lfeBands
  <2>. QED
    BY <1>1, <2>1, <2>2
<1>. QED
  BY <1>2, <1>4, <1>5, <1>6 DEF bndstrt, bndend

(* A set of exponents never ends before its channel does: the groups round *)
(* up where a channel's end is not a whole number of them.                 *)
LEMMA FullGroupsReach ==
  ASSUME NEW e \in Nat, e > 0, e % 3 = 1
  PROVE  /\ 1 + ((e - 1) \div 3) * 3 * 1 >= e
         /\ 1 + ((e - 1 + 3) \div 6) * 3 * 2 >= e
         /\ 1 + ((e - 1 + 9) \div 12) * 3 * 4 >= e
<1>1. PICK k \in Nat : e = 3 * k + 1
  <2>1. e = 3 * (e \div 3) + 1 /\ e \div 3 \in Nat
    OBVIOUS
  <2>. QED
    BY <2>1
<1>2. 1 + ((e - 1) \div 3) * 3 * 1 >= e
  BY <1>1
<1>3. 1 + ((e - 1 + 3) \div 6) * 3 * 2 >= e
  <2>1. e - 1 + 3 = 3 * k + 3
    BY <1>1
  <2>2. ((3 * k + 3) \div 6) \in Nat /\ 6 * ((3 * k + 3) \div 6) + 5 >= 3 * k + 3
    OBVIOUS
  <2>3. 6 * ((3 * k + 3) \div 6) >= 3 * k
    BY <2>2
  <2>. QED
    BY <1>1, <2>1, <2>2, <2>3
<1>4. 1 + ((e - 1 + 9) \div 12) * 3 * 4 >= e
  <2>1. e - 1 + 9 = 3 * k + 9
    BY <1>1
  <2>2. ((3 * k + 9) \div 12) \in Nat /\ 12 * ((3 * k + 9) \div 12) + 11 >= 3 * k + 9
    OBVIOUS
  <2>3. 12 * ((3 * k + 9) \div 12) >= 3 * k
    BY <2>2
  <2>. QED
    BY <1>1, <2>1, <2>2, <2>3
<1>. QED
  BY <1>2, <1>3, <1>4

LEMMA CouplingGroupsReach ==
  ASSUME NEW w \in Nat, w % 12 = 0
  PROVE  /\ (w \div (3 * 1)) * 3 * 1 = w
         /\ (w \div (3 * 2)) * 3 * 2 = w
         /\ (w \div (3 * 4)) * 3 * 4 = w
<1>1. PICK k \in Nat : w = 12 * k
  <2>1. w = 12 * (w \div 12) /\ w \div 12 \in Nat
    OBVIOUS
  <2>. QED
    BY <2>1
<1>2. w \div 3 = 4 * k /\ w \div 6 = 2 * k /\ w \div 12 = k
  BY <1>1
<1>. QED
  BY <1>1, <1>2

(* One turn of a walk over bands and bins: either the channel ends in this *)
(* band, or the next one begins where it stops.                            *)
LEMMA WalkTurn ==
  ASSUME channel \in Channels, band \in AllBands, bin \in Nat, bin < channel.end,
         bndtab[band] <= bin, bin < bndtab[band] + bndsz[band]
  PROVE  /\ lastbin \in Nat /\ lastbin <= channel.end
         /\ channel.end <= lastbin \/ band + 1 >= nBands
              => bndend = band + 1 /\ lastbin = channel.end
         /\ ~(channel.end <= lastbin \/ band + 1 >= nBands)
              => /\ band + 1 \in AllBands /\ lastbin < channel.end
                 /\ bndtab[band + 1] = lastbin
                 /\ lastbin < bndtab[band + 1] + bndsz[band + 1]
<1>. DEFINE stop == bndtab[band] + bndsz[band]
<1>1. channel.end \in Nat /\ channel.end <= Top /\ Top \in Nat /\ nBands \in Nat
  BY ChannelFacts, TableFacts
<1>2. stop \in Nat /\ bndtab[band] \in Nat /\ band \in Nat /\ band < nBands
  BY TableFacts DEF AllBands
<1>3. lastbin = IF stop < channel.end THEN stop ELSE channel.end
  BY DEF lastbin, Smaller
<1>4. ASSUME channel.end <= lastbin \/ band + 1 >= nBands
      PROVE  bndend = band + 1 /\ lastbin = channel.end
  <2>1. channel.end <= stop
    <3>1. CASE channel.end <= lastbin
      BY <1>1, <1>2, <1>3, <3>1
    <3>2. CASE band + 1 >= nBands
      <4>1. band = nBands - 1
        BY <1>1, <1>2, <3>2
      <4>2. stop = Top
        BY <4>1 DEF Top
      <4>. QED
        BY <1>1, <4>2
    <3>. QED
      BY <1>4, <3>1, <3>2
  <2>2. channel.end - 1 \in bndtab[band] .. stop - 1
    BY <1>1, <1>2, <2>1
  <2>3. masktab[channel.end - 1] = band
    BY <2>2, TableFacts
  <2>. QED
    BY <1>1, <1>2, <1>3, <2>1, <2>3 DEF bndend
<1>5. ASSUME ~(channel.end <= lastbin \/ band + 1 >= nBands)
      PROVE  /\ band + 1 \in AllBands /\ lastbin < channel.end
             /\ bndtab[band + 1] = lastbin
             /\ lastbin < bndtab[band + 1] + bndsz[band + 1]
  <2>1. lastbin = stop /\ stop < channel.end
    BY <1>1, <1>2, <1>3, <1>5
  <2>2. band + 1 \in AllBands \ {0}
    BY <1>1, <1>2, <1>5 DEF AllBands
  <2>3. bndtab[band + 1] = bndtab[(band + 1) - 1] + bndsz[(band + 1) - 1]
    BY <2>2, TablesAssumption
  <2>4. (band + 1) - 1 = band
    BY <1>2
  <2>5. bndtab[band + 1] = stop
    BY <2>3, <2>4
  <2>6. bndsz[band + 1] \in Nat /\ bndsz[band + 1] > 0
    BY <2>2, TableFacts
  <2>. QED
    BY <1>2, <2>1, <2>2, <2>5, <2>6
<1>6. lastbin \in Nat /\ lastbin <= channel.end
  BY <1>1, <1>2, <1>3
<1>. QED
  BY <1>4, <1>5, <1>6

LEMMA InitIsAInv == AllocInit => AInv
<1>. SUFFICES ASSUME AllocInit PROVE AInv
  OBVIOUS
<1>1. AllocTypeOK
  <2>1. channel \in Channels /\ nBands \in Nat /\ Top \in Nat
    BY TableFacts DEF AllocInit, Channels
  <2>2. from = 0 /\ coded = 0 /\ widened = FALSE /\ MaxCoefs \in Nat
    BY TableFacts DEF AllocInit
  <2>3. widened \in BOOLEAN /\ own \in BOOLEAN
    BY DEF AllocInit
  <2>. QED
    BY <2>1, <2>2, <2>3 DEF AllocInit, AllocTypeOK, dbaMaxSegs
<1>. QED
  BY <1>1 DEF AllocInit, AInv, CursorsMeet, PowerIsKnown, Walked, LowBandsInOrder,
     ExcitationIsKnown, MaskIsKnown, ExponentsReachTheEnd

LEMMA StartWalkKeepsAInv == AInv /\ StartWalk => AInv'
<1>. SUFFICES ASSUME AInv, StartWalk PROVE AInv'
  OBVIOUS
<1>0. /\ channel \in Channels /\ band \in 0 .. nBands /\ nBands \in Nat
      /\ Top \in Nat /\ band \in Nat /\ own = TRUE
      /\ channel.start \in Nat /\ channel.end \in Nat /\ channel.start < channel.end
      /\ channel.end <= Top
  BY ChannelFacts, TableFacts DEF AInv, AllocTypeOK
<1>c. channel' = channel /\ bndstrt' = bndstrt /\ bndend' = bndend
  BY DEF StartWalk, bndstrt, bndend
<1>b. /\ bndstrt \in AllBands /\ bndstrt \in Nat
      /\ bndend \in Nat /\ bndend - 1 \in AllBands /\ bndend <= nBands
      /\ bndtab[bndstrt] <= channel.start
      /\ channel.start < bndtab[bndstrt] + bndsz[bndstrt]
      /\ channel.kind # "coupling" => bndstrt = 0 /\ (isLFE \/ bndend > 22)
  BY <1>0, BandFacts
<1>w. widened' \in BOOLEAN /\ from' = 0 /\ coded' = 0 /\ MaxCoefs \in Nat
  BY TableFacts DEF StartWalk
<1>1. AllocTypeOK'
  BY <1>0, <1>b, <1>w DEF AInv, StartWalk, AllocTypeOK, scratch, AllBands
<1>2. CursorsMeet'
  BY <1>c, <1>b DEF AInv, StartWalk, CursorsMeet
<1>3. PowerIsKnown'
  BY <1>c, <1>b DEF AInv, StartWalk, PowerIsKnown, Walked
<1>4. LowBandsInOrder'
  BY <1>0 DEF AInv, StartWalk, LowBandsInOrder
<1>5. ExcitationIsKnown'
  BY <1>0 DEF AInv, StartWalk, ExcitationIsKnown
<1>6. MaskIsKnown'
  BY <1>0 DEF AInv, StartWalk, MaskIsKnown
<1>7. ExponentsReachTheEnd'
  BY <1>0 DEF AInv, StartWalk, ExponentsReachTheEnd
<1>8. own' = TRUE
  BY <1>0 DEF AInv, StartWalk, PowerIsKnown, ExponentsReachTheEnd
<1>9. astate' = "allocated" => allocated' = channel'.end
  BY <1>0 DEF AInv, StartWalk
<1>. QED
  BY <1>1, <1>2, <1>3, <1>4, <1>5, <1>6, <1>7, <1>8, <1>9 DEF AInv

LEMMA IntegrateKeepsAInv == AInv /\ Integrate => AInv'
<1>. SUFFICES ASSUME AInv, Integrate PROVE AInv'
  OBVIOUS
<1>0. /\ channel \in Channels /\ band \in 0 .. nBands /\ nBands \in Nat
      /\ Top \in Nat /\ band \in Nat /\ own = TRUE
      /\ channel.start \in Nat /\ channel.end \in Nat /\ channel.start < channel.end
      /\ channel.end <= Top
  BY ChannelFacts, TableFacts DEF AInv, AllocTypeOK
<1>c. channel' = channel /\ bndstrt' = bndstrt /\ bndend' = bndend
  BY DEF Integrate, bndstrt, bndend
<1>b. /\ bndstrt \in AllBands /\ bndstrt \in Nat
      /\ bndend \in Nat /\ bndend - 1 \in AllBands /\ bndend <= nBands
      /\ bndtab[bndstrt] <= channel.start
      /\ channel.start < bndtab[bndstrt] + bndsz[bndstrt]
      /\ channel.kind # "coupling" => bndstrt = 0 /\ (isLFE \/ bndend > 22)
  BY <1>0, BandFacts
<1>t. /\ lastbin \in Nat /\ lastbin <= channel.end
      /\ channel.end <= lastbin \/ band + 1 >= nBands
           => bndend = band + 1 /\ lastbin = channel.end
      /\ ~(channel.end <= lastbin \/ band + 1 >= nBands)
           => /\ band + 1 \in AllBands /\ lastbin < channel.end
              /\ bndtab[band + 1] = lastbin
              /\ lastbin < bndtab[band + 1] + bndsz[band + 1]
  <2>1. /\ band \in AllBands /\ bin < channel.end /\ bin \in Nat
        /\ bndtab[band] <= bin /\ bin < bndtab[band] + bndsz[band]
    BY <1>0 DEF AInv, AllocTypeOK, CursorsMeet, Integrate
  <2>. QED
    BY <1>0, <2>1, WalkTurn
<1>1. AllocTypeOK'
  BY <1>0, <1>b, <1>t DEF AInv, Integrate, AllocTypeOK, expset, AllBands
<1>2. CursorsMeet'
  BY <1>0, <1>c, <1>b, <1>t DEF AInv, Integrate, CursorsMeet
<1>3. PowerIsKnown'
  BY <1>0, <1>c, <1>t DEF AInv, Integrate, PowerIsKnown
<1>4. LowBandsInOrder'
  BY <1>0 DEF AInv, Integrate, LowBandsInOrder
<1>5. ExcitationIsKnown'
  BY <1>c, <1>b DEF AInv, Integrate, ExcitationIsKnown
<1>6. MaskIsKnown'
  BY <1>0 DEF AInv, Integrate, MaskIsKnown
<1>7. ExponentsReachTheEnd'
  BY <1>0 DEF AInv, Integrate, ExponentsReachTheEnd
<1>8. own' = TRUE
  BY <1>0 DEF AInv, Integrate, PowerIsKnown
<1>9. astate' = "allocated" => allocated' = channel'.end
  BY <1>0 DEF AInv, Integrate
<1>. QED
  BY <1>1, <1>2, <1>3, <1>4, <1>5, <1>6, <1>7, <1>8, <1>9 DEF AInv

LEMMA ExciteLowKeepsAInv == AInv /\ ExciteLow => AInv'
<1>. SUFFICES ASSUME AInv, ExciteLow PROVE AInv'
  OBVIOUS
<1>0. /\ channel \in Channels /\ band \in 0 .. nBands /\ nBands \in Nat
      /\ Top \in Nat /\ band \in Nat /\ own = TRUE
      /\ channel.start \in Nat /\ channel.end \in Nat /\ channel.start < channel.end
      /\ channel.end <= Top
  BY ChannelFacts, TableFacts DEF AInv, AllocTypeOK
<1>c. channel' = channel /\ bndstrt' = bndstrt /\ bndend' = bndend
  BY DEF ExciteLow, bndstrt, bndend
<1>b. /\ bndstrt \in AllBands /\ bndstrt \in Nat
      /\ bndend \in Nat /\ bndend - 1 \in AllBands /\ bndend <= nBands
      /\ bndtab[bndstrt] <= channel.start
      /\ channel.start < bndtab[bndstrt] + bndsz[bndstrt]
      /\ channel.kind # "coupling" => bndstrt = 0 /\ (isLFE \/ bndend > 22)
  BY <1>0, BandFacts
<1>h. /\ bndstrt = 0 /\ (isLFE \/ bndend > 22) /\ 0 .. band - 1 \subseteq excited
      /\ band < 7 /\ nBands > 22
  BY <1>b, TableFacts DEF AInv, ExciteLow, LowBandsInOrder
<1>1. AllocTypeOK'
  BY <1>0, <1>h DEF AInv, ExciteLow, AllocTypeOK, expset, AllBands, Compares, isLFE
<1>2. CursorsMeet'
  BY <1>h DEF AInv, ExciteLow, CursorsMeet, Compares, isLFE
<1>3. PowerIsKnown'
  BY <1>c, <1>h DEF AInv, ExciteLow, PowerIsKnown, Walked, Compares, isLFE
<1>4. LowBandsInOrder'
  BY <1>0, <1>c, <1>b, <1>h
    DEF AInv, ExciteLow, LowBandsInOrder, lowBands, Smaller, lfeBands, Compares, isLFE
<1>5. ExcitationIsKnown'
  BY <1>h DEF AInv, ExciteLow, ExcitationIsKnown, Compares, isLFE
<1>6. MaskIsKnown'
  BY <1>h DEF AInv, ExciteLow, MaskIsKnown, Compares, isLFE
<1>7. ExponentsReachTheEnd'
  BY <1>h DEF AInv, ExciteLow, ExponentsReachTheEnd, Compares, isLFE
<1>8. own' = TRUE
  <2>1. Compares(band) \subseteq powered
    BY <1>0, <1>b, <1>h
      DEF ExciteLow, AInv, PowerIsKnown, Walked, Compares, isLFE, lfeBands
  <2>. QED
    BY <1>0, <2>1 DEF ExciteLow
<1>9. astate' = "allocated" => allocated' = channel'.end
  BY <1>h DEF AInv, ExciteLow
<1>. QED
  BY <1>1, <1>2, <1>3, <1>4, <1>5, <1>6, <1>7, <1>8, <1>9 DEF AInv

LEMMA ExciteMiddleKeepsAInv == AInv /\ ExciteMiddle => AInv'
<1>. SUFFICES ASSUME AInv, ExciteMiddle PROVE AInv'
  OBVIOUS
<1>0. /\ channel \in Channels /\ band \in 0 .. nBands /\ nBands \in Nat
      /\ Top \in Nat /\ band \in Nat /\ own = TRUE
      /\ channel.start \in Nat /\ channel.end \in Nat /\ channel.start < channel.end
      /\ channel.end <= Top
  BY ChannelFacts, TableFacts DEF AInv, AllocTypeOK
<1>c. channel' = channel /\ bndstrt' = bndstrt /\ bndend' = bndend
  BY DEF ExciteMiddle, bndstrt, bndend
<1>b. /\ bndstrt \in AllBands /\ bndstrt \in Nat
      /\ bndend \in Nat /\ bndend - 1 \in AllBands /\ bndend <= nBands
      /\ bndtab[bndstrt] <= channel.start
      /\ channel.start < bndtab[bndstrt] + bndsz[bndstrt]
      /\ channel.kind # "coupling" => bndstrt = 0 /\ (isLFE \/ bndend > 22)
  BY <1>0, BandFacts
<1>h. /\ bndstrt = 0 /\ (isLFE \/ bndend > 22) /\ 0 .. band - 1 \subseteq excited
      /\ band <= 22 /\ band <= bndend /\ nBands > 22
      /\ astate = "middle"
  BY <1>0, <1>b, TableFacts DEF AInv, ExciteMiddle, LowBandsInOrder, Smaller, lowBands
<1>1. AllocTypeOK'
  BY <1>0, <1>h DEF AInv, ExciteMiddle, AllocTypeOK, expset, AllBands, Compares, isLFE
<1>2. CursorsMeet'
  BY <1>h DEF AInv, ExciteMiddle, CursorsMeet, Compares, isLFE
<1>3. PowerIsKnown'
  BY <1>c, <1>h DEF AInv, ExciteMiddle, PowerIsKnown, Compares, isLFE
<1>4. LowBandsInOrder'
  BY <1>0, <1>c, <1>b, <1>h
    DEF AInv, ExciteMiddle, LowBandsInOrder, lowBands, Smaller, Compares, isLFE
<1>5. ExcitationIsKnown'
  BY <1>h DEF AInv, ExciteMiddle, ExcitationIsKnown, Compares, isLFE
<1>6. MaskIsKnown'
  BY <1>h DEF AInv, ExciteMiddle, MaskIsKnown, Compares, isLFE
<1>7. ExponentsReachTheEnd'
  BY <1>h DEF AInv, ExciteMiddle, ExponentsReachTheEnd, Compares, isLFE
<1>8. own' = TRUE
  <2>1. Compares(band) \subseteq powered
    BY <1>0, <1>b, <1>h
      DEF ExciteMiddle, Smaller, lowBands, AInv, PowerIsKnown, Walked, Compares, isLFE
  <2>. QED
    BY <1>0, <2>1 DEF ExciteMiddle
<1>9. astate' = "allocated" => allocated' = channel'.end
  BY <1>h DEF AInv, ExciteMiddle
<1>. QED
  BY <1>1, <1>2, <1>3, <1>4, <1>5, <1>6, <1>7, <1>8, <1>9 DEF AInv

LEMMA EndMiddleKeepsAInv == AInv /\ EndMiddle => AInv'
<1>. SUFFICES ASSUME AInv, EndMiddle PROVE AInv'
  OBVIOUS
<1>0. /\ channel \in Channels /\ band \in 0 .. nBands /\ nBands \in Nat
      /\ Top \in Nat /\ band \in Nat /\ own = TRUE
      /\ channel.start \in Nat /\ channel.end \in Nat /\ channel.start < channel.end
      /\ channel.end <= Top
  BY ChannelFacts, TableFacts DEF AInv, AllocTypeOK
<1>c. channel' = channel /\ bndstrt' = bndstrt /\ bndend' = bndend
  BY DEF EndMiddle, bndstrt, bndend
<1>b. /\ bndstrt \in AllBands /\ bndstrt \in Nat
      /\ bndend \in Nat /\ bndend - 1 \in AllBands /\ bndend <= nBands
      /\ bndtab[bndstrt] <= channel.start
      /\ channel.start < bndtab[bndstrt] + bndsz[bndstrt]
      /\ channel.kind # "coupling" => bndstrt = 0 /\ (isLFE \/ bndend > 22)
  BY <1>0, BandFacts
<1>h. /\ bndstrt = 0 /\ (isLFE \/ bndend > 22) /\ 0 .. band - 1 \subseteq excited
      /\ band <= 22 /\ band <= bndend /\ nBands > 22
      /\ astate = "middle"
  BY <1>0, <1>b, TableFacts DEF AInv, EndMiddle, LowBandsInOrder, Smaller, lowBands
<1>1. AllocTypeOK'
  BY <1>0, <1>h DEF AInv, EndMiddle, AllocTypeOK, expset, scratch, lowBands
<1>2. CursorsMeet'
  BY <1>h DEF AInv, EndMiddle, CursorsMeet
<1>3. PowerIsKnown'
  BY <1>c, <1>h DEF AInv, EndMiddle, PowerIsKnown, scratch, Walked
<1>4. LowBandsInOrder'
  BY <1>h DEF AInv, EndMiddle, LowBandsInOrder
<1>5. ExcitationIsKnown'
  BY <1>0, <1>c, <1>b, <1>h
    DEF AInv, EndMiddle, ExcitationIsKnown, scratch, lowBands, Smaller
<1>6. MaskIsKnown'
  BY <1>h DEF AInv, EndMiddle, MaskIsKnown
<1>7. ExponentsReachTheEnd'
  BY <1>h DEF AInv, EndMiddle, ExponentsReachTheEnd
<1>8. own' = TRUE
  BY <1>h DEF AInv, EndMiddle, PowerIsKnown
<1>9. astate' = "allocated" => allocated' = channel'.end
  BY <1>h DEF AInv, EndMiddle
<1>. QED
  BY <1>1, <1>2, <1>3, <1>4, <1>5, <1>6, <1>7, <1>8, <1>9 DEF AInv

LEMMA EndSpreadKeepsAInv == AInv /\ EndSpread => AInv'
<1>. SUFFICES ASSUME AInv, EndSpread PROVE AInv'
  OBVIOUS
<1>0. /\ channel \in Channels /\ band \in 0 .. nBands /\ nBands \in Nat
      /\ Top \in Nat /\ band \in Nat /\ own = TRUE
      /\ channel.start \in Nat /\ channel.end \in Nat /\ channel.start < channel.end
      /\ channel.end <= Top
  BY ChannelFacts, TableFacts DEF AInv, AllocTypeOK
<1>c. channel' = channel /\ bndstrt' = bndstrt /\ bndend' = bndend
  BY DEF EndSpread, bndstrt, bndend
<1>b. /\ bndstrt \in AllBands /\ bndstrt \in Nat
      /\ bndend \in Nat /\ bndend - 1 \in AllBands /\ bndend <= nBands
      /\ bndtab[bndstrt] <= channel.start
      /\ channel.start < bndtab[bndstrt] + bndsz[bndstrt]
      /\ channel.kind # "coupling" => bndstrt = 0 /\ (isLFE \/ bndend > 22)
  BY <1>0, BandFacts
<1>1. AllocTypeOK'
  BY <1>0, <1>b DEF AInv, EndSpread, AllocTypeOK, expset, scratch, AllBands
<1>2. CursorsMeet'
  BY <1>0 DEF AInv, EndSpread, CursorsMeet
<1>3. PowerIsKnown'
  BY <1>c DEF AInv, EndSpread, PowerIsKnown, scratch, Walked
<1>4. LowBandsInOrder'
  BY <1>0 DEF AInv, EndSpread, LowBandsInOrder
<1>5. ExcitationIsKnown'
  BY <1>0, <1>c, <1>b DEF AInv, EndSpread, ExcitationIsKnown, scratch
<1>6. MaskIsKnown'
  BY <1>c, <1>b DEF AInv, EndSpread, MaskIsKnown
<1>7. ExponentsReachTheEnd'
  BY <1>0 DEF AInv, EndSpread, ExponentsReachTheEnd
<1>8. own' = TRUE
  BY <1>0 DEF AInv, EndSpread, PowerIsKnown
<1>9. astate' = "allocated" => allocated' = channel'.end
  BY <1>0 DEF AInv, EndSpread
<1>. QED
  BY <1>1, <1>2, <1>3, <1>4, <1>5, <1>6, <1>7, <1>8, <1>9 DEF AInv

LEMMA EndMaskKeepsAInv == AInv /\ EndMask => AInv'
<1>. SUFFICES ASSUME AInv, EndMask PROVE AInv'
  OBVIOUS
<1>0. /\ channel \in Channels /\ band \in 0 .. nBands /\ nBands \in Nat
      /\ Top \in Nat /\ band \in Nat /\ own = TRUE
      /\ channel.start \in Nat /\ channel.end \in Nat /\ channel.start < channel.end
      /\ channel.end <= Top
  BY ChannelFacts, TableFacts DEF AInv, AllocTypeOK
<1>c. channel' = channel /\ bndstrt' = bndstrt /\ bndend' = bndend
  BY DEF EndMask, bndstrt, bndend
<1>b. /\ bndstrt \in AllBands /\ bndstrt \in Nat
      /\ bndend \in Nat /\ bndend - 1 \in AllBands /\ bndend <= nBands
      /\ bndtab[bndstrt] <= channel.start
      /\ channel.start < bndtab[bndstrt] + bndsz[bndstrt]
      /\ channel.kind # "coupling" => bndstrt = 0 /\ (isLFE \/ bndend > 22)
  BY <1>0, BandFacts
<1>1. AllocTypeOK'
  BY <1>0, <1>b DEF AInv, EndMask, AllocTypeOK, expset, scratch, AllBands
<1>2. CursorsMeet'
  BY <1>0 DEF AInv, EndMask, CursorsMeet
<1>3. PowerIsKnown'
  BY <1>c DEF AInv, EndMask, PowerIsKnown, scratch, Walked
<1>4. LowBandsInOrder'
  BY <1>0 DEF AInv, EndMask, LowBandsInOrder
<1>5. ExcitationIsKnown'
  BY <1>c DEF AInv, EndMask, ExcitationIsKnown, scratch
<1>6. MaskIsKnown'
  BY <1>0, <1>c, <1>b DEF AInv, EndMask, MaskIsKnown, scratch
<1>7. ExponentsReachTheEnd'
  BY <1>0 DEF AInv, EndMask, ExponentsReachTheEnd
<1>8. own' = TRUE
  BY <1>0 DEF AInv, EndMask, PowerIsKnown
<1>9. astate' = "allocated" => allocated' = channel'.end
  BY <1>0 DEF AInv, EndMask
<1>. QED
  BY <1>1, <1>2, <1>3, <1>4, <1>5, <1>6, <1>7, <1>8, <1>9 DEF AInv

LEMMA EndDeltaKeepsAInv == AInv /\ EndDelta => AInv'
<1>. SUFFICES ASSUME AInv, EndDelta PROVE AInv'
  OBVIOUS
<1>0. /\ channel \in Channels /\ band \in 0 .. nBands /\ nBands \in Nat
      /\ Top \in Nat /\ band \in Nat /\ own = TRUE
      /\ channel.start \in Nat /\ channel.end \in Nat /\ channel.start < channel.end
      /\ channel.end <= Top
  BY ChannelFacts, TableFacts DEF AInv, AllocTypeOK
<1>c. channel' = channel /\ bndstrt' = bndstrt /\ bndend' = bndend
  BY DEF EndDelta, bndstrt, bndend
<1>b. /\ bndstrt \in AllBands /\ bndstrt \in Nat
      /\ bndend \in Nat /\ bndend - 1 \in AllBands /\ bndend <= nBands
      /\ bndtab[bndstrt] <= channel.start
      /\ channel.start < bndtab[bndstrt] + bndsz[bndstrt]
      /\ channel.kind # "coupling" => bndstrt = 0 /\ (isLFE \/ bndend > 22)
  BY <1>0, BandFacts
<1>1. AllocTypeOK'
  BY <1>0, <1>b DEF AInv, EndDelta, AllocTypeOK, expset, scratch, AllBands
<1>2. CursorsMeet'
  BY <1>0, <1>c, <1>b DEF AInv, EndDelta, CursorsMeet
<1>3. PowerIsKnown'
  BY <1>c DEF AInv, EndDelta, PowerIsKnown, scratch, Walked
<1>4. LowBandsInOrder'
  BY <1>0 DEF AInv, EndDelta, LowBandsInOrder
<1>5. ExcitationIsKnown'
  BY <1>c DEF AInv, EndDelta, ExcitationIsKnown, scratch
<1>6. MaskIsKnown'
  BY <1>c DEF AInv, EndDelta, MaskIsKnown, scratch
<1>7. ExponentsReachTheEnd'
  BY <1>0 DEF AInv, EndDelta, ExponentsReachTheEnd
<1>8. own' = TRUE
  BY <1>0 DEF AInv, EndDelta, PowerIsKnown
<1>9. astate' = "allocated" => allocated' = channel'.end
  BY <1>0 DEF AInv, EndDelta
<1>. QED
  BY <1>1, <1>2, <1>3, <1>4, <1>5, <1>6, <1>7, <1>8, <1>9 DEF AInv

LEMMA DeltaKeepsAInv == AInv /\ Delta => AInv'
<1>. SUFFICES ASSUME AInv, Delta PROVE AInv'
  OBVIOUS
<1>0. /\ channel \in Channels /\ band \in 0 .. nBands /\ nBands \in Nat
      /\ Top \in Nat /\ band \in Nat /\ own = TRUE
      /\ channel.start \in Nat /\ channel.end \in Nat /\ channel.start < channel.end
      /\ channel.end <= Top
  BY ChannelFacts, TableFacts DEF AInv, AllocTypeOK
<1>c. channel' = channel /\ bndstrt' = bndstrt /\ bndend' = bndend
  BY DEF Delta, bndstrt, bndend
<1>s. \A seg \in Segments : seg[1] \in Nat /\ seg[2] \in Nat
  BY RangesAssumption
<1>1. AllocTypeOK'
  BY <1>0, <1>s DEF AInv, Delta, AllocTypeOK, expset, scratch, dbaMaxSegs, Leaves
<1>2. CursorsMeet'
  BY <1>s DEF AInv, Delta, CursorsMeet, Leaves
<1>3. PowerIsKnown'
  BY <1>c, <1>s DEF AInv, Delta, PowerIsKnown, scratch, Walked, Leaves
<1>4. LowBandsInOrder'
  BY <1>s DEF AInv, Delta, LowBandsInOrder, Leaves
<1>5. ExcitationIsKnown'
  BY <1>c, <1>s DEF AInv, Delta, ExcitationIsKnown, scratch, Leaves
<1>6. MaskIsKnown'
  BY <1>c, <1>s DEF AInv, Delta, MaskIsKnown, scratch, Leaves
<1>7. ExponentsReachTheEnd'
  BY <1>s DEF AInv, Delta, ExponentsReachTheEnd, Leaves
<1>8. own' = TRUE
  BY <1>s DEF AInv, Delta, PowerIsKnown
<1>9. astate' = "allocated" => allocated' = channel'.end
  BY <1>s DEF AInv, Delta
<1>. QED
  BY <1>1, <1>2, <1>3, <1>4, <1>5, <1>6, <1>7, <1>8, <1>9 DEF AInv

LEMMA SpreadKeepsAInv == AInv /\ Spread => AInv'
<1>. SUFFICES ASSUME AInv, Spread PROVE AInv'
  OBVIOUS
<1>0. /\ channel \in Channels /\ band \in 0 .. nBands /\ nBands \in Nat
      /\ Top \in Nat /\ band \in Nat /\ own = TRUE
      /\ channel.start \in Nat /\ channel.end \in Nat /\ channel.start < channel.end
      /\ channel.end <= Top
  BY ChannelFacts, TableFacts DEF AInv, AllocTypeOK
<1>c. channel' = channel /\ bndstrt' = bndstrt /\ bndend' = bndend
  BY DEF Spread, bndstrt, bndend
<1>b. /\ bndstrt \in AllBands /\ bndstrt \in Nat
      /\ bndend \in Nat /\ bndend - 1 \in AllBands /\ bndend <= nBands
      /\ bndtab[bndstrt] <= channel.start
      /\ channel.start < bndtab[bndstrt] + bndsz[bndstrt]
      /\ channel.kind # "coupling" => bndstrt = 0 /\ (isLFE \/ bndend > 22)
  BY <1>0, BandFacts
<1>1. AllocTypeOK'
  BY <1>0, <1>b DEF AInv, Spread, AllocTypeOK, expset, AllBands
<1>2. CursorsMeet'
  BY <1>0 DEF AInv, Spread, CursorsMeet
<1>3. PowerIsKnown'
  BY <1>c DEF AInv, Spread, PowerIsKnown
<1>4. LowBandsInOrder'
  BY <1>0 DEF AInv, Spread, LowBandsInOrder
<1>5. ExcitationIsKnown'
  BY <1>0, <1>c, <1>b DEF AInv, Spread, ExcitationIsKnown
<1>6. MaskIsKnown'
  BY <1>0 DEF AInv, Spread, MaskIsKnown
<1>7. ExponentsReachTheEnd'
  BY <1>0 DEF AInv, Spread, ExponentsReachTheEnd
<1>8. own' = TRUE
  <2>1. band \in powered
    BY <1>0, <1>b DEF Spread, AInv, PowerIsKnown, ExcitationIsKnown, Walked
  <2>. QED
    BY <1>0, <2>1 DEF Spread
<1>9. astate' = "allocated" => allocated' = channel'.end
  BY <1>0 DEF AInv, Spread
<1>. QED
  BY <1>1, <1>2, <1>3, <1>4, <1>5, <1>6, <1>7, <1>8, <1>9 DEF AInv

LEMMA MaskKeepsAInv == AInv /\ Mask => AInv'
<1>. SUFFICES ASSUME AInv, Mask PROVE AInv'
  OBVIOUS
<1>0. /\ channel \in Channels /\ band \in 0 .. nBands /\ nBands \in Nat
      /\ Top \in Nat /\ band \in Nat /\ own = TRUE
      /\ channel.start \in Nat /\ channel.end \in Nat /\ channel.start < channel.end
      /\ channel.end <= Top
  BY ChannelFacts, TableFacts DEF AInv, AllocTypeOK
<1>c. channel' = channel /\ bndstrt' = bndstrt /\ bndend' = bndend
  BY DEF Mask, bndstrt, bndend
<1>b. /\ bndstrt \in AllBands /\ bndstrt \in Nat
      /\ bndend \in Nat /\ bndend - 1 \in AllBands /\ bndend <= nBands
      /\ bndtab[bndstrt] <= channel.start
      /\ channel.start < bndtab[bndstrt] + bndsz[bndstrt]
      /\ channel.kind # "coupling" => bndstrt = 0 /\ (isLFE \/ bndend > 22)
  BY <1>0, BandFacts
<1>1. AllocTypeOK'
  BY <1>0, <1>b DEF AInv, Mask, AllocTypeOK, expset, AllBands
<1>2. CursorsMeet'
  BY <1>0 DEF AInv, Mask, CursorsMeet
<1>3. PowerIsKnown'
  BY <1>c DEF AInv, Mask, PowerIsKnown
<1>4. LowBandsInOrder'
  BY <1>0 DEF AInv, Mask, LowBandsInOrder
<1>5. ExcitationIsKnown'
  BY <1>c DEF AInv, Mask, ExcitationIsKnown
<1>6. MaskIsKnown'
  BY <1>0, <1>c, <1>b DEF AInv, Mask, MaskIsKnown
<1>7. ExponentsReachTheEnd'
  BY <1>0 DEF AInv, Mask, ExponentsReachTheEnd
<1>8. own' = TRUE
  <2>1. band \in powered /\ band \in excited
    BY <1>0, <1>b DEF Mask, AInv, PowerIsKnown, ExcitationIsKnown, MaskIsKnown, Walked
  <2>. QED
    BY <1>0, <2>1 DEF Mask
<1>9. astate' = "allocated" => allocated' = channel'.end
  BY <1>0 DEF AInv, Mask
<1>. QED
  BY <1>1, <1>2, <1>3, <1>4, <1>5, <1>6, <1>7, <1>8, <1>9 DEF AInv

LEMMA AllocateKeepsAInv == AInv /\ Allocate => AInv'
<1>. SUFFICES ASSUME AInv, Allocate PROVE AInv'
  OBVIOUS
<1>0. /\ channel \in Channels /\ band \in 0 .. nBands /\ nBands \in Nat
      /\ Top \in Nat /\ band \in Nat /\ own = TRUE
      /\ channel.start \in Nat /\ channel.end \in Nat /\ channel.start < channel.end
      /\ channel.end <= Top
  BY ChannelFacts, TableFacts DEF AInv, AllocTypeOK
<1>c. channel' = channel /\ bndstrt' = bndstrt /\ bndend' = bndend
  BY DEF Allocate, bndstrt, bndend
<1>b. /\ bndstrt \in AllBands /\ bndstrt \in Nat
      /\ bndend \in Nat /\ bndend - 1 \in AllBands /\ bndend <= nBands
      /\ bndtab[bndstrt] <= channel.start
      /\ channel.start < bndtab[bndstrt] + bndsz[bndstrt]
      /\ channel.kind # "coupling" => bndstrt = 0 /\ (isLFE \/ bndend > 22)
  BY <1>0, BandFacts
<1>t. /\ lastbin \in Nat /\ lastbin <= channel.end
      /\ channel.end <= lastbin \/ band + 1 >= nBands
           => bndend = band + 1 /\ lastbin = channel.end
      /\ ~(channel.end <= lastbin \/ band + 1 >= nBands)
           => /\ band + 1 \in AllBands /\ lastbin < channel.end
              /\ bndtab[band + 1] = lastbin
              /\ lastbin < bndtab[band + 1] + bndsz[band + 1]
  <2>1. /\ band \in AllBands /\ bin < channel.end /\ bin \in Nat
        /\ bndtab[band] <= bin /\ bin < bndtab[band] + bndsz[band]
    BY <1>0 DEF AInv, AllocTypeOK, CursorsMeet, Allocate
  <2>. QED
    BY <1>0, <2>1, WalkTurn
<1>1. AllocTypeOK'
  BY <1>0, <1>t DEF AInv, Allocate, AllocTypeOK, expset, scratch
<1>2. CursorsMeet'
  BY <1>0, <1>c, <1>b, <1>t DEF AInv, Allocate, CursorsMeet
<1>3. PowerIsKnown'
  BY <1>c DEF AInv, Allocate, PowerIsKnown, scratch, Walked
<1>4. LowBandsInOrder'
  BY <1>0 DEF AInv, Allocate, LowBandsInOrder
<1>5. ExcitationIsKnown'
  BY <1>c DEF AInv, Allocate, ExcitationIsKnown, scratch
<1>6. MaskIsKnown'
  BY <1>c DEF AInv, Allocate, MaskIsKnown, scratch
<1>7. ExponentsReachTheEnd'
  BY <1>0 DEF AInv, Allocate, ExponentsReachTheEnd
<1>8. own' = TRUE
  <2>1. band \in masked
    <3>1. /\ band >= bndstrt /\ bin < channel.end /\ bin \in Nat /\ band \in AllBands
          /\ bndtab[band] <= bin /\ bin < bndtab[band] + bndsz[band]
      BY DEF Allocate, AInv, CursorsMeet, AllocTypeOK
    <3>2. bin \in bndtab[band] .. bndtab[band] + bndsz[band] - 1
      BY <3>1, TableFacts
    <3>3. masktab[bin] = band
      BY <3>1, <3>2, TableFacts
    <3>4. bin \in 0 .. Top - 1 /\ channel.end - 1 \in 0 .. Top - 1 /\ bin <= channel.end - 1
      BY <1>0, <3>1
    <3>5. masktab[bin] <= masktab[channel.end - 1]
      BY <3>4, TablesAssumption
    <3>6. band < bndend
      <4>1. masktab[channel.end - 1] \in Nat
        BY <3>4, TableFacts
      <4>. QED
        BY <1>0, <3>3, <3>5, <4>1 DEF bndend
    <3>. QED
      BY <1>b, <3>1, <3>6 DEF Allocate, AInv, MaskIsKnown
  <2>. QED
    BY <1>0, <2>1 DEF Allocate
<1>9. astate' = "allocated" => allocated' = channel'.end
  BY <1>t DEF AInv, Allocate
<1>. QED
  BY <1>1, <1>2, <1>3, <1>4, <1>5, <1>6, <1>7, <1>8, <1>9 DEF AInv

(* Whatever the strategy, a channel's exponents reach its end.             *)
LEMMA ExponentsCover ==
  ASSUME NEW c \in Channels, NEW s \in MaySend(c)
  PROVE  ExponentsReach(c, s) \in Nat /\ c.end <= ExponentsReach(c, s)
<1>1. /\ c.kind \in {"full", "lfe", "coupling"}
      /\ c.start \in Nat /\ c.end \in Nat /\ c.start < c.end
      /\ c.kind = "full" => c.end % 3 = 1
      /\ c.kind = "lfe" => c.end = lfeMants
      /\ c.kind = "coupling" => (c.end - c.start) % 12 = 0
  BY ChannelFacts
<1>2. /\ expGroupSize["D15"] = 1 /\ expGroupSize["D25"] = 2
      /\ expGroupSize["D45"] = 4 /\ s \in {"D15", "D25", "D45"}
      /\ c.kind = "lfe" => s = "D15"
  BY DEF expGroupSize, Strategies, MaySend
<1>3. CASE c.kind = "full"
  <2>1. /\ 1 + ((c.end - 1) \div 3) * 3 * 1 >= c.end
        /\ 1 + ((c.end - 1 + 3) \div 6) * 3 * 2 >= c.end
        /\ 1 + ((c.end - 1 + 9) \div 12) * 3 * 4 >= c.end
    BY <1>1, <1>3, FullGroupsReach
  <2>2. ExponentsReach(c, s) = 1 + fbwExpGroups(s, c.end) * 3 * expGroupSize[s]
    BY <1>3 DEF ExponentsReach
  <2>3. CASE s = "D15"
    BY <1>1, <1>2, <2>1, <2>2, <2>3 DEF fbwExpGroups
  <2>4. CASE s = "D25"
    BY <1>1, <1>2, <2>1, <2>2, <2>4 DEF fbwExpGroups
  <2>5. CASE s = "D45"
    BY <1>1, <1>2, <2>1, <2>2, <2>5 DEF fbwExpGroups
  <2>. QED
    BY <1>2, <2>3, <2>4, <2>5
<1>4. CASE c.kind = "lfe"
  BY <1>1, <1>4 DEF ExponentsReach, lfeExpGroups, lfeMants
<1>5. CASE c.kind = "coupling"
  <2>. DEFINE w == c.end - c.start
  <2>1. w \in Nat /\ w % 12 = 0
    BY <1>1, <1>5
  <2>2. /\ (w \div (3 * 1)) * 3 * 1 = w
        /\ (w \div (3 * 2)) * 3 * 2 = w
        /\ (w \div (3 * 4)) * 3 * 4 = w
    BY <2>1, CouplingGroupsReach
  <2>3. ExponentsReach(c, s)
          = c.start + (w \div (3 * expGroupSize[s])) * 3 * expGroupSize[s]
    BY <1>5 DEF ExponentsReach, cplExpGroups
  <2>4. (w \div (3 * expGroupSize[s])) * 3 * expGroupSize[s] = w
    BY <1>2, <2>2
  <2>5. ExponentsReach(c, s) = c.start + w
    BY <2>3, <2>4
  <2>. QED
    BY <1>1, <2>5
<1>. QED
  BY <1>1, <1>3, <1>4, <1>5

(* A step to "compute" or "refused" that leaves the cursors and the scratch*)
(* alone has only the set in force to answer for.                          *)
LEMMA SetInForceKeepsAInv ==
  ASSUME AInv, UNCHANGED <<cursors, scratch, own>>, channel' \in Channels,
         astate' \in {"compute", "refused"},
         from' \in Nat, coded' \in Nat, widened' \in BOOLEAN,
         astate' # "refused" => coded' <= MaxCoefs,
         ~widened' => from' <= channel'.start /\ channel'.end <= coded'
  PROVE  AInv'
<1>1. AllocTypeOK'
  BY DEF AInv, AllocTypeOK, cursors, scratch
<1>2. /\ CursorsMeet' /\ PowerIsKnown' /\ LowBandsInOrder'
      /\ ExcitationIsKnown' /\ MaskIsKnown'
  BY DEF CursorsMeet, PowerIsKnown, Walked, LowBandsInOrder,
     ExcitationIsKnown, MaskIsKnown
<1>3. ExponentsReachTheEnd'
  BY DEF ExponentsReachTheEnd
<1>4. own' = TRUE /\ (astate' = "allocated" => allocated' = channel'.end)
  BY DEF AInv
<1>. QED
  BY <1>1, <1>2, <1>3, <1>4 DEF AInv

LEMMA DecodeExponentsKeepsAInv == AInv /\ DecodeExponents => AInv'
<1>. SUFFICES ASSUME AInv, DecodeExponents PROVE AInv'
  OBVIOUS
<1>1. PICK strategy \in MaySend(channel') :
        /\ coded' = ExponentsReach(channel', strategy)
        /\ \/ ExponentsReach(channel', strategy) > MaxCoefs /\ astate' = "refused"
           \/ /\ ExponentsReach(channel', strategy) <= MaxCoefs
              /\ astate' \in {"compute", "refused"}
  BY DEF DecodeExponents
<1>2. /\ channel' \in Channels /\ from' = channel'.start /\ widened' = FALSE
      /\ UNCHANGED <<cursors, scratch, own>>
  BY DEF DecodeExponents
<1>3. channel'.start \in Nat /\ coded' \in Nat /\ channel'.end <= coded'
  BY <1>1, <1>2, ExponentsCover, ChannelFacts
<1>4. astate' \in {"compute", "refused"} /\ (astate' # "refused" => coded' <= MaxCoefs)
  BY <1>1
<1>5. from' \in Nat /\ from' <= channel'.start
  BY <1>2, <1>3
<1>6. widened' \in BOOLEAN
  BY <1>2
<1>. QED
  BY <1>2, <1>3, <1>4, <1>5, <1>6, SetInForceKeepsAInv

LEMMA ReuseExponentsKeepsAInv == AInv /\ ReuseExponents => AInv'
<1>. SUFFICES ASSUME AInv, ReuseExponents PROVE AInv'
  OBVIOUS
<1>1. /\ channel' \in Channels /\ astate' = "compute"
      /\ UNCHANGED <<cursors, scratch, own>>
  BY DEF ReuseExponents
<1>2. CASE from' = 0 /\ coded' = 0 /\ widened' = TRUE
  <2>1. MaxCoefs \in Nat
    BY TableFacts
  <2>. QED
    BY <1>1, <1>2, <2>1, SetInForceKeepsAInv
<1>3. ASSUME NEW before \in Channels, NEW strategy \in MaySend(before),
             ExponentsReach(before, strategy) <= MaxCoefs,
             from' = before.start, coded' = ExponentsReach(before, strategy),
             widened' = (channel'.start < before.start \/ channel'.end > before.end)
      PROVE  AInv'
  <2>1. /\ before.start \in Nat /\ before.end \in Nat
        /\ channel'.start \in Nat /\ channel'.end \in Nat
    BY <1>1, ChannelFacts
  <2>2. coded' \in Nat /\ before.end <= coded'
    BY <1>3, ExponentsCover
  <2>3. ASSUME ~widened' PROVE from' <= channel'.start /\ channel'.end <= coded'
    <3>1. ~(channel'.start < before.start) /\ ~(channel'.end > before.end)
      BY <1>3, <2>3, Zenon
    <3>. QED
      BY <1>3, <2>1, <2>2, <3>1
  <2>4. from' \in Nat /\ widened' \in BOOLEAN /\ coded' <= MaxCoefs
    BY <1>3, <2>1
  <2>. QED
    BY <1>1, <2>2, <2>3, <2>4, SetInForceKeepsAInv
<1>. QED
  BY <1>2, <1>3 DEF ReuseExponents

LEMMA StepKeepsAInv == AInv /\ [AllocNext]_allocVars => AInv'
<1>. SUFFICES ASSUME AInv, [AllocNext]_allocVars PROVE AInv'
  OBVIOUS
<1>1. CASE DecodeExponents
  BY <1>1, DecodeExponentsKeepsAInv
<1>2. CASE StartWalk
  BY <1>2, StartWalkKeepsAInv
<1>3. CASE Integrate
  BY <1>3, IntegrateKeepsAInv
<1>4. CASE ExciteLow
  BY <1>4, ExciteLowKeepsAInv
<1>5. CASE ExciteMiddle
  BY <1>5, ExciteMiddleKeepsAInv
<1>6. CASE EndMiddle
  BY <1>6, EndMiddleKeepsAInv
<1>7. CASE Spread
  BY <1>7, SpreadKeepsAInv
<1>8. CASE EndSpread
  BY <1>8, EndSpreadKeepsAInv
<1>9. CASE Mask
  BY <1>9, MaskKeepsAInv
<1>10. CASE EndMask
  BY <1>10, EndMaskKeepsAInv
<1>11. CASE Delta
  BY <1>11, DeltaKeepsAInv
<1>12. CASE EndDelta
  BY <1>12, EndDeltaKeepsAInv
<1>13. CASE Allocate
  BY <1>13, AllocateKeepsAInv
<1>14. CASE EndOfChannel
  <2>1. AllocInit'
    BY <1>14 DEF EndOfChannel, AllocInit
  <2>2. AllocInit' => AInv'
    BY InitIsAInv, PTL
  <2>. QED
    BY <2>1, <2>2
<1>15. CASE ReuseExponents
  BY <1>15, ReuseExponentsKeepsAInv
<1>16. CASE UNCHANGED allocVars
  BY <1>16 DEF allocVars, expset, cursors, scratch, AInv, AllocTypeOK, CursorsMeet,
     PowerIsKnown, LowBandsInOrder, ExcitationIsKnown, MaskIsKnown,
     ExponentsReachTheEnd, bndstrt, bndend
<1>. QED
  BY <1>1, <1>2, <1>3, <1>4, <1>5, <1>6, <1>7, <1>8, <1>9, <1>10, <1>11, <1>12,
     <1>13, <1>14, <1>15, <1>16 DEF AllocNext

LEMMA AllocationInvariant == AllocSpec => []AInv
<1>. QED
  BY InitIsAInv, StepKeepsAInv, PTL DEF AllocSpec

(* Whatever the tables and the ranges, the walk stays in its arrays: no    *)
(* delta segment moves the cursor past the last band, and no band or bin   *)
(* beyond the channel's is touched.                                        *)
THEOREM TheWalkStaysInside == AllocSpec => []AllocTypeOK
<1>1. AInv => AllocTypeOK
  BY DEF AInv
<1>. QED
  BY <1>1, AllocationInvariant, PTL

(* A channel's allocation is computed from its own set of exponents, sent  *)
(* or reused, in every bin of a range that lies in the one the set was sent*)
(* for; and whatever its set, from nothing that an earlier channel left in *)
(* the decoder's scratch.                                                  *)
THEOREM AllocationIsTheChannels == AllocSpec => []OnlyOwnLevels
<1>1. AInv => OnlyOwnLevels
  BY DEF AInv, ExponentsReachTheEnd, OnlyOwnLevels
<1>. QED
  BY <1>1, AllocationInvariant, PTL

(* Every bin a channel codes gets its pointer, from its own band.          *)
THEOREM NoBinIsLeftOut == AllocSpec => []EveryBinIsAllocated
<1>1. AInv => EveryBinIsAllocated
  <2>. SUFFICES ASSUME AInv PROVE EveryBinIsAllocated
    OBVIOUS
  <2>1. ASSUME astate = "allocate" PROVE masktab[bin] = band
    <3>1. /\ band \in AllBands /\ bin \in Nat
          /\ bndtab[band] <= bin /\ bin < bndtab[band] + bndsz[band]
      BY <2>1, TableFacts DEF AInv, AllocTypeOK, CursorsMeet
    <3>2. bin \in bndtab[band] .. bndtab[band] + bndsz[band] - 1
      BY <3>1, TableFacts
    <3>. QED
      BY <3>1, <3>2, TableFacts
  <2>. QED
    BY <2>1 DEF AInv, EveryBinIsAllocated
<1>. QED
  BY <1>1, AllocationInvariant, PTL

-----------------------------------------------------------------------------
(* What the reader keeps is what the writer still owes, backwards, in a    *)
(* block that was refused too.                                             *)
InStep(b) ==
  /\ Len(owed[b]) = open[b]
  /\ \A i \in 1 .. open[b] : owed[b][i] = pending[b][open[b] - i]

MInv ==
  /\ MantTypeOK
  /\ \A b \in Grouped : InStep(b)
  /\ faithful = TRUE

LEMMA GroupFacts ==
  ASSUME NEW b \in Grouped
  PROVE  /\ Steps[b] \in Nat /\ Steps[b] > 0
         /\ GroupSize[b] \in {2, 3}
         /\ \A p \in 0 .. 3 : Power(Steps[b], p) \in Nat /\ Power(Steps[b], p) > 0
         /\ Power(Steps[b], GroupSize[b])
              = Steps[b] * Power(Steps[b], GroupSize[b] - 1)
<1>. DEFINE s == Steps[b]  g == GroupSize[b]
<1>1. s \in Nat /\ s > 0 /\ g \in {2, 3}
  BY QuantizersAssumption
<1>. HIDE DEF s
<1>2. s * s \in Nat /\ s * s > 0
  BY <1>1
<1>3. s * s * s \in Nat /\ s * s * s > 0
  BY <1>1, <1>2
<1>4. Power(s, 0) = 1 /\ Power(s, 1) = s
  BY DEF Power
<1>5. Power(s, 2) = s * s
  BY DEF Power
<1>6. Power(s, 3) = s * s * s
  BY DEF Power
<1>7. \A p \in 0 .. 3 : Power(s, p) \in Nat /\ Power(s, p) > 0
  <2>. SUFFICES ASSUME NEW p \in 0 .. 3
                PROVE  Power(s, p) \in Nat /\ Power(s, p) > 0
    OBVIOUS
  <2>1. p = 0 \/ p = 1 \/ p = 2 \/ p = 3
    OBVIOUS
  <2>. QED
    BY <1>1, <1>2, <1>3, <1>4, <1>5, <1>6, <2>1
<1>8. Power(s, g) = s * Power(s, g - 1)
  <2>1. CASE g = 2
    BY <1>1, <1>4, <1>5, <2>1
  <2>2. CASE g = 3
    <3>1. s * (s * s) = s * s * s
      BY <1>1
    <3>. QED
      BY <1>5, <1>6, <2>2, <3>1
  <2>. QED
    BY <1>1, <2>1, <2>2
<1>. QED
  BY <1>1, <1>7, <1>8 DEF s

LEMMA QuotientIsADigit ==
  ASSUME NEW c \in Nat, NEW p \in Nat, p > 0, NEW s \in Nat, s > 0, c < s * p
  PROVE  (c \div p) \in Nat /\ (c \div p) % s = c \div p
<1>. DEFINE q == c \div p
<1>1. q \in Nat /\ p * q <= c
  OBVIOUS
<1>. HIDE DEF q
<1>2. q < s
  <2>. SUFFICES ASSUME q >= s PROVE FALSE
    BY <1>1
  <2>1. PICK d \in Nat : q = s + d
    <3>1. q - s \in Nat /\ q = s + (q - s)
      BY <1>1
    <3>. QED
      BY <3>1
  <2>2. p * q = s * p + p * d /\ p * d \in Nat /\ s * p \in Nat
    BY <2>1
  <2>. QED
    BY <1>1, <2>2
<1>3. q % s = q
  BY <1>1, <1>2
<1>. QED
  BY <1>1, <1>3 DEF q

LEMMA DigitsAreNat ==
  ASSUME NEW b \in Grouped, NEW code \in Nat, NEW p \in 0 .. 3
  PROVE  Digit(b, code, p) \in Nat
<1>. DEFINE q == code \div Power(Steps[b], p)
<1>1. Power(Steps[b], p) \in Nat /\ Power(Steps[b], p) > 0
  BY GroupFacts
<1>2. q \in Nat
  BY <1>1
<1>. HIDE DEF q
<1>3. Steps[b] \in Nat /\ Steps[b] > 0
  BY GroupFacts
<1>4. q % Steps[b] \in Nat
  BY <1>2, <1>3
<1>. QED
  BY <1>4 DEF Digit, q

(* The values of a codeword, and the first of them.                        *)
LEMMA ValuesFacts ==
  ASSUME NEW b \in Grouped,
         NEW code \in 0 .. Power(Steps[b], GroupSize[b]) - 1
  PROVE  LET v == ValuesOf(b, code) IN
         /\ v \in Seq(Nat) /\ Len(v) = GroupSize[b] /\ v # <<>>
         /\ \A i \in 1 .. GroupSize[b] : v[i] = Digit(b, code, GroupSize[b] - i)
         /\ First(b, code) = Head(v)
<1>. DEFINE v == ValuesOf(b, code)  g == GroupSize[b]
<1>1. g \in {2, 3} /\ Steps[b] \in Nat /\ Steps[b] > 0
  BY GroupFacts
<1>2. Power(Steps[b], g) \in Nat /\ code \in Nat /\ code < Power(Steps[b], g)
  <2>1. g \in 0 .. 3
    BY <1>1
  <2>2. Power(Steps[b], g) \in Nat
    BY <2>1, GroupFacts
  <2>. QED
    BY <2>2
<1>3. \A i \in 1 .. g : Digit(b, code, g - i) \in Nat
  <2>. SUFFICES ASSUME NEW i \in 1 .. g PROVE Digit(b, code, g - i) \in Nat
    OBVIOUS
  <2>1. g - i \in 0 .. 3
    BY <1>1
  <2>. QED
    BY <1>2, <2>1, DigitsAreNat
<1>4. v = [i \in 1 .. g |-> Digit(b, code, g - i)]
  BY DEF ValuesOf
<1>5. v \in Seq(Nat) /\ Len(v) = g
  BY <1>1, <1>3, <1>4
<1>6. \A i \in 1 .. g : v[i] = Digit(b, code, g - i)
  BY <1>4
<1>7. First(b, code) = Head(v)
  <2>1. Head(v) = v[1] /\ 1 \in 1 .. g
    BY <1>1, <1>5
  <2>2. v[1] = Digit(b, code, g - 1)
    BY <1>6, <2>1
  <2>3. g - 1 \in 0 .. 3
    BY <1>1
  <2>4. Power(Steps[b], g - 1) \in Nat /\ Power(Steps[b], g - 1) > 0
    BY <2>3, GroupFacts
  <2>5. code < Steps[b] * Power(Steps[b], g - 1)
    BY <1>2, GroupFacts
  <2>6. (code \div Power(Steps[b], g - 1)) % Steps[b]
           = code \div Power(Steps[b], g - 1)
    BY <1>1, <1>2, <2>4, <2>5, QuotientIsADigit
  <2>. QED
    BY <2>1, <2>2, <2>6 DEF First, Digit
<1>8. v # <<>>
  BY <1>1, <1>5
<1>. QED
  BY <1>5, <1>6, <1>7, <1>8

-----------------------------------------------------------------------------
(* The steps.  Each lemma shows the group it touches in step again; the    *)
(* other groups are untouched.                                             *)

LEMMA OthersStay ==
  ASSUME MInv, NEW b \in Grouped, NEW c \in Grouped, c # b,
         pending'[c] = pending[c], open'[c] = open[c], owed'[c] = owed[c]
  PROVE  InStep(c)'
<1>1. InStep(c)
  BY DEF MInv
<1> QED
  BY <1>1 DEF InStep

LEMMA OpenGroupKeeps ==
  ASSUME MInv, NEW b \in Grouped, OpenGroup(b)
  PROVE  MInv'
<1> DEFINE g == GroupSize[b]
<1>1. MantTypeOK /\ open[b] = 0 /\ InStep(b) /\ g \in {2, 3}
  BY GroupFacts DEF MInv, OpenGroup
<1>2. PICK code \in 0 .. Power(Steps[b], g) - 1 :
        /\ pending' = [pending EXCEPT ![b] =
             [k \in {0, 1} |-> IF k < g - 1 THEN Kept(b, code, k) ELSE @[k]]]
        /\ open' = [open EXCEPT ![b] = g - 1]
        /\ IF owed[b] = <<>>
           THEN /\ owed' = [owed EXCEPT ![b] = Tail(ValuesOf(b, code))]
                /\ faithful' = (First(b, code) = Head(ValuesOf(b, code)))
           ELSE /\ owed' = [owed EXCEPT ![b] = Tail(@)]
                /\ faithful' = FALSE
  BY DEF OpenGroup
<1> DEFINE v == ValuesOf(b, code)
<1>3. owed[b] \in Seq(Nat) /\ Len(owed[b]) = 0
  BY <1>1 DEF MantTypeOK, InStep
<1>4. owed[b] = <<>>
  BY <1>3
<1>5. /\ owed' = [owed EXCEPT ![b] = Tail(v)]
      /\ faithful' = (First(b, code) = Head(v))
  BY <1>2, <1>4
<1>6. /\ v \in Seq(Nat) /\ Len(v) = g /\ v # <<>>
      /\ \A i \in 1 .. g : v[i] = Digit(b, code, g - i)
      /\ First(b, code) = Head(v)
  BY ValuesFacts
<1>7. Power(Steps[b], g) \in Nat /\ code \in Nat
  <2>1. g \in 0 .. 3
    BY <1>1
  <2>2. Power(Steps[b], g) \in Nat
    BY <2>1, GroupFacts
  <2> QED
    BY <2>2
<1> HIDE DEF v, g
<1>8. Tail(v) \in Seq(Nat) /\ Len(Tail(v)) = g - 1
      /\ \A i \in 1 .. g - 1 : Tail(v)[i] = v[i + 1]
  BY <1>1, <1>6
<1>9. \A k \in {0, 1} : Digit(b, code, k) \in Nat
  BY <1>7, DigitsAreNat
<1>10. /\ owed'[b] = Tail(v) /\ open'[b] = g - 1
       /\ pending'[b] = [k \in {0, 1} |->
            IF k < g - 1 THEN Digit(b, code, k) ELSE pending[b][k]]
  BY <1>1, <1>2, <1>5 DEF MantTypeOK, Kept
<1>11. InStep(b)'
  <2>1. ASSUME NEW i \in 1 .. g - 1
        PROVE  Tail(v)[i] = pending'[b][g - 1 - i]
    <3>1. i + 1 \in 1 .. g /\ g - (i + 1) = g - 1 - i
          /\ g - 1 - i \in {0, 1} /\ g - 1 - i < g - 1
      BY <1>1
    <3>2. Tail(v)[i] = Digit(b, code, g - 1 - i)
      BY <1>6, <1>8, <3>1
    <3> QED
      BY <1>10, <3>1, <3>2
  <2> QED
    BY <1>8, <1>10, <2>1 DEF InStep
<1>12. \A c \in Grouped : c # b => InStep(c)'
  <2> SUFFICES ASSUME NEW c \in Grouped, c # b PROVE InStep(c)'
    OBVIOUS
  <2>1. pending'[c] = pending[c] /\ open'[c] = open[c] /\ owed'[c] = owed[c]
    BY <1>1, <1>2, <1>5 DEF MantTypeOK
  <2> QED
    BY <2>1, OthersStay
<1>13. MantTypeOK'
  <2>1. pending' \in [Grouped -> [{0, 1} -> Nat]]
    <3>1. \A k \in {0, 1} :
            (IF k < g - 1 THEN Digit(b, code, k) ELSE pending[b][k]) \in Nat
      BY <1>1, <1>9 DEF MantTypeOK
    <3>2. [k \in {0, 1} |-> IF k < g - 1 THEN Digit(b, code, k) ELSE pending[b][k]]
            \in [{0, 1} -> Nat]
      BY <3>1
    <3> QED
      BY <1>1, <1>2, <3>2 DEF MantTypeOK, Kept, g
  <2>2. open' \in [Grouped -> 0 .. 2]
    <3>1. g - 1 \in 0 .. 2
      BY <1>1
    <3>2. open' = [open EXCEPT ![b] = g - 1]
      BY <1>2 DEF g
    <3> QED
      BY <1>1, <3>1, <3>2 DEF MantTypeOK
  <2>3. owed' \in [Grouped -> Seq(Nat)]
    BY <1>1, <1>5, <1>8 DEF MantTypeOK
  <2>4. faithful' \in BOOLEAN
    BY <1>5
  <2> QED
    BY <1>1, <2>1, <2>2, <2>3, <2>4 DEF MantTypeOK, OpenGroup
<1>14. faithful' = TRUE
  BY <1>5, <1>6
<1> QED
  BY <1>11, <1>12, <1>13, <1>14 DEF MInv

LEMMA TakeFromGroupKeeps ==
  ASSUME MInv, NEW b \in Grouped, TakeFromGroup(b)
  PROVE  MInv'
<1> DEFINE n == open[b]  w == owed[b]
<1>1. /\ MantTypeOK /\ n \in 1 .. 2 /\ w \in Seq(Nat) /\ Len(w) = n
      /\ \A i \in 1 .. n : w[i] = pending[b][n - i]
  BY DEF MInv, MantTypeOK, InStep, TakeFromGroup
<1>2. w # <<>>
  BY <1>1
<1>3. /\ open' = [open EXCEPT ![b] = n - 1]
      /\ owed' = [owed EXCEPT ![b] = Tail(w)]
      /\ faithful' = (pending[b][n - 1] = Head(w))
      /\ mstate' = mstate /\ pending' = pending
  BY <1>2 DEF TakeFromGroup
<1> HIDE DEF n, w
<1>4. /\ Tail(w) \in Seq(Nat) /\ Len(Tail(w)) = n - 1
      /\ \A i \in 1 .. n - 1 : Tail(w)[i] = w[i + 1]
      /\ Head(w) = w[1]
  BY <1>1, <1>2
<1>5. faithful' = TRUE
  <2>1. 1 \in 1 .. n
    BY <1>1
  <2> QED
    BY <1>1, <1>3, <1>4, <2>1
<1>6. open'[b] = n - 1 /\ owed'[b] = Tail(w)
  BY <1>1, <1>3 DEF MantTypeOK
<1>7. InStep(b)'
  <2>1. ASSUME NEW i \in 1 .. n - 1
        PROVE  Tail(w)[i] = pending'[b][n - 1 - i]
    <3>1. i + 1 \in 1 .. n /\ n - (i + 1) = n - 1 - i
      BY <1>1
    <3> QED
      BY <1>1, <1>3, <1>4, <3>1
  <2> QED
    BY <1>4, <1>6, <2>1 DEF InStep
<1>8. \A c \in Grouped : c # b => InStep(c)'
  <2> SUFFICES ASSUME NEW c \in Grouped, c # b PROVE InStep(c)'
    OBVIOUS
  <2>1. pending'[c] = pending[c] /\ open'[c] = open[c] /\ owed'[c] = owed[c]
    BY <1>1, <1>3 DEF MantTypeOK
  <2> QED
    BY <2>1, OthersStay
<1>9. MantTypeOK'
  <2>1. n - 1 \in 0 .. 2
    BY <1>1
  <2> QED
    BY <1>1, <1>3, <1>4, <1>5, <2>1 DEF MantTypeOK
<1> QED
  BY <1>5, <1>7, <1>8, <1>9 DEF MInv

LEMMA NextBlockKeeps == ASSUME MInv, NextBlock PROVE MInv'
<1>1. MantTypeOK'
  <2>1. open' = [b \in Grouped |-> 0] /\ owed' = [b \in Grouped |-> <<>>]
        /\ mstate' = "block" /\ pending' = pending /\ faithful' = faithful
    BY DEF NextBlock, GroupsDropped
  <2>2. owed' \in [Grouped -> Seq(Nat)]
    BY <2>1
  <2> QED
    BY <2>1, <2>2 DEF MInv, MantTypeOK
<1>2. \A b \in Grouped : InStep(b)'
  BY DEF NextBlock, GroupsDropped, InStep
<1>3. faithful' = TRUE
  BY DEF NextBlock, MInv
<1> QED
  BY <1>1, <1>2, <1>3 DEF MInv

LEMMA RestKeeps ==
  ASSUME MInv, mstate' \in {"block", "refused"}, UNCHANGED groups
  PROVE  MInv'
<1>1. pending' = pending /\ open' = open /\ owed' = owed /\ faithful' = faithful
  BY DEF groups
<1>2. MantTypeOK'
  BY <1>1 DEF MInv, MantTypeOK
<1>3. \A b \in Grouped : InStep(b)'
  BY <1>1 DEF MInv, InStep
<1> QED
  BY <1>1, <1>2, <1>3 DEF MInv

LEMMA MantInitHolds == ASSUME MantInit PROVE MInv
<1>1. MantTypeOK
  BY DEF MantInit, MantTypeOK
<1>2. \A b \in Grouped : InStep(b)
  <2> SUFFICES ASSUME NEW b \in Grouped PROVE InStep(b)
    OBVIOUS
  <2>1. open[b] = 0 /\ owed[b] = <<>>
    BY DEF MantInit
  <2>2. Len(owed[b]) = 0
    BY <2>1
  <2> QED
    BY <2>1, <2>2 DEF InStep
<1> QED
  BY <1>1, <1>2 DEF MantInit, MInv

LEMMA MantNextKeeps == ASSUME MInv, [MantNext]_mantVars PROVE MInv'
<1>1. CASE UNCHANGED mantVars
  <2>1. UNCHANGED groups /\ mstate' = mstate
    BY <1>1 DEF mantVars
  <2> QED
    BY <2>1, RestKeeps DEF MInv, MantTypeOK
<1>2. ASSUME NEW b \in Grouped, RefuseGroup(b) PROVE MInv'
  BY <1>2, RestKeeps DEF RefuseGroup
<1>3. ASSUME ReadAlone PROVE MInv'
  BY <1>3, RestKeeps DEF ReadAlone
<1> QED
  BY <1>1, <1>2, <1>3, OpenGroupKeeps, TakeFromGroupKeeps, NextBlockKeeps
     DEF MantNext

(* Every grouped mantissa of every block gets the value its writer gave    *)
(* it, however the channels mix the quantizers (mantissa.go:171-229): the  *)
(* reader's open group is the writer's, because both end with the block.   *)
THEOREM MantissasGetTheirValues == MantSpec => []MantissasAreTheWriters
<1>1. MantInit => MInv
  BY MantInitHolds
<1>2. MInv /\ [MantNext]_mantVars => MInv'
  BY MantNextKeeps
<1>3. MInv => MantissasAreTheWriters
  BY DEF MInv, MantissasAreTheWriters
<1> QED
  BY <1>1, <1>2, <1>3, PTL DEF MantSpec

-----------------------------------------------------------------------------
(* Where the walks of a channel are.                                       *)

HybridTyped ==
  /\ hstate \in {"idle", "gains", "mantissas"}
  /\ hebap \in Seq(0 .. 19) /\ Len(hebap) <= MaxBins
  /\ gaqMode \in Modes
  /\ hbin \in 0 .. Len(hebap) /\ gs \in Nat /\ gc \in 0 .. 2 /\ words \in Nat
  /\ gaqGain \in [Places -> Int]
  /\ given \in Seq({0, 1, 2}) /\ Len(given) = Len(hebap)
  /\ taken \in Seq(Int)

GainsOnlyWhereHad == \A i \in 1 .. Len(hebap) : i \notin Gained => given[i] = 0

(* The first walk: one gain for each bin behind it that has one, or so     *)
(* many codewords that the open one still serves.                          *)
GainsSoFar ==
  hstate = "gains" =>
    /\ gaqMode # "no" /\ taken = <<>>
    /\ IF gaqMode = "124" THEN gs = 3 * words /\ Rank(hbin) = 3 * words - 2 + gc
                          ELSE gs = words /\ Rank(hbin) = words
    /\ \A p \in Places : p < gs => gaqGain[p] = Given(p + 1)

(* The second: as many gains taken as bins behind it have one.             *)
MantissasSoFar ==
  hstate = "mantissas" =>
    /\ words = WordsWritten
    /\ gs = Rank(hbin)
    /\ \A p \in Places : p < Cardinality(Gained) => gaqGain[p] = Given(p + 1)
    /\ Len(taken) = hbin
    /\ \A i \in 1 .. hbin : taken[i] = given[i]

GInv ==
  /\ HybridTyped
  /\ GainsOnlyWhereHad
  /\ GainsSoFar
  /\ MantissasSoFar

LEMMA GainedFacts ==
  ASSUME HybridTyped
  PROVE  /\ Gained \in SUBSET (1 .. Len(hebap))
         /\ Cardinality(Gained) \in Nat
         /\ \A i \in 1 .. Len(hebap) : i \in Gained <=> HasGain(i) /\ gaqMode # "no"
         /\ Rank(0) = 0 /\ Rank(Len(hebap)) = Cardinality(Gained)
         /\ \A n \in Nat : /\ Rank(n) \in Nat /\ Rank(n) <= n
                           /\ Rank(n) <= Cardinality(Gained)
                           /\ Rank(n + 1) = IF n + 1 \in Gained THEN Rank(n) + 1
                                                                  ELSE Rank(n)
         /\ \A i \in Gained : Given(Rank(i)) = given[i]
         /\ \A r : Given(r) \in {0, 1, 2}
<1>1. Len(hebap) \in Nat /\ DOMAIN hebap = 1 .. Len(hebap)
  BY DEF HybridTyped
<1>2. Gained \in SUBSET (1 .. Len(hebap))
  BY <1>1 DEF Gained
<1>3. \A n : Rank(n) = CountTo(Gained, n)
  BY DEF Rank, CountTo
<1>4. \A i, j \in Gained : Rank(i) = Rank(j) => i = j
  BY <1>1, <1>2, <1>3, CountToFacts
<1>5. \A i \in Gained : Given(Rank(i)) = given[i]
  <2>. TAKE i \in Gained
  <2>1. (CHOOSE k \in Gained : Rank(k) = Rank(i)) = i
    BY <1>4
  <2>. QED
    BY <2>1 DEF Given
<1>6. \A r : Given(r) \in {0, 1, 2}
  <2>. TAKE r
  <2>1. CASE \E i \in Gained : Rank(i) = r
    <3>1. (CHOOSE i \in Gained : Rank(i) = r) \in Gained
      BY <2>1
    <3>2. \A i \in Gained : given[i] \in {0, 1, 2}
      BY <1>1, <1>2 DEF HybridTyped
    <3>. QED
      BY <2>1, <3>1, <3>2 DEF Given
  <2>2. CASE ~ \E i \in Gained : Rank(i) = r
    BY <2>2 DEF Given
  <2>. QED
    BY <2>1, <2>2
<1>7. \A i \in 1 .. Len(hebap) : i \in Gained <=> HasGain(i) /\ gaqMode # "no"
  <2>. SUFFICES ASSUME NEW i \in 1 .. Len(hebap)
                PROVE  i \in Gained <=> HasGain(i) /\ gaqMode # "no"
    OBVIOUS
  <2>1. hebap[i] \in 0 .. 19 /\ gaqMode \in Modes
    BY <1>1 DEF HybridTyped
  <2>2. i \in Gained <=> hebap[i] \in Reach[gaqMode]
    BY <1>1 DEF Gained
  <2>3. gaqMode = "no" \/ gaqMode = "12" \/ gaqMode = "14" \/ gaqMode = "124"
    BY <2>1 DEF Modes
  <2>4. CASE gaqMode = "no"
    BY <2>1, <2>2, <2>4 DEF Reach
  <2>5. CASE gaqMode = "12"
    BY <2>1, <2>2, <2>5 DEF Reach, HasGain, gaqEndBap
  <2>6. CASE gaqMode = "14"
    BY <2>1, <2>2, <2>6 DEF Reach, HasGain, gaqEndBap
  <2>7. CASE gaqMode = "124"
    BY <2>1, <2>2, <2>7 DEF Reach, HasGain, gaqEndBap
  <2>. QED
    BY <2>3, <2>4, <2>5, <2>6, <2>7
<1>. QED
  BY <1>1, <1>2, <1>3, <1>5, <1>6, <1>7, CountToFacts

(* A walk leaves the channel as it is, and so what its gains are.          *)
LEMMA ChannelStays ==
  ASSUME UNCHANGED channelVars
  PROVE  /\ Gained' = Gained
         /\ WordsWritten' = WordsWritten
         /\ \A r : Given(r)' = Given(r)
         /\ Rank(hbin)' = Rank(hbin')
         /\ Len(hebap)' = Len(hebap)
         /\ GainsOnlyWhereHad => GainsOnlyWhereHad'
<1>1. Gained' = Gained
  BY DEF channelVars, Gained
<1>2. \A i : Rank(i)' = Rank(i)
  BY <1>1 DEF Rank
<1>. QED
  BY <1>1, <1>2 DEF channelVars, WordsWritten, Given, Rank, GainsOnlyWhereHad

LEMMA HybridInitHolds == ASSUME HybridInit PROVE GInv
<1>1. hebap \in Seq(0 .. 19) /\ given \in Seq({0, 1, 2}) /\ taken \in Seq(Int)
  BY DEF HybridInit
<1>2. gaqGain \in [Places -> Int]
  BY DEF HybridInit, Unread, Stale
<1>3. Len(hebap) = 0 /\ Len(given) = 0 /\ 0 <= MaxBins
  BY HybridAssumption DEF HybridInit
<1>4. HybridTyped
  BY <1>1, <1>2, <1>3 DEF HybridInit, HybridTyped, Modes
<1>. QED
  BY <1>4 DEF HybridInit, GInv, GainsOnlyWhereHad, GainsSoFar, MantissasSoFar

LEMMA PassBinKeeps == ASSUME GInv, PassBin PROVE GInv'
<1>. USE DEF GInv, HybridTyped, PassBin, Here
<1>1. UNCHANGED channelVars
  OBVIOUS
<1>2. hbin \in Nat /\ hbin + 1 \in 1 .. Len(hebap) /\ hbin' = hbin + 1
  OBVIOUS
<1>3. HybridTyped'
  BY <1>1, <1>2 DEF channelVars
<1>4. Rank(hbin + 1) = Rank(hbin)
  BY <1>2, GainedFacts
<1>5. GainsSoFar'
  BY <1>1, <1>2, <1>4, ChannelStays DEF GainsSoFar, channelVars
<1>6. MantissasSoFar'
  BY DEF MantissasSoFar
<1>. QED
  BY <1>1, <1>3, <1>5, <1>6, ChannelStays

LEMMA ReadGainKeeps == ASSUME GInv, ReadGain PROVE GInv'
<1>. USE DEF GInv, HybridTyped, ReadGain, ReadsGain, Here
<1>1. UNCHANGED channelVars /\ gaqMode # "no" /\ gaqMode # "124"
  OBVIOUS
<1>2. hbin \in Nat /\ hbin + 1 \in 1 .. Len(hebap) /\ hbin' = hbin + 1
  OBVIOUS
<1>3. Rank(hbin + 1) = Rank(hbin) + 1 /\ Rank(hbin) <= hbin
  BY <1>1, <1>2, GainedFacts
<1>4. gs = words /\ Rank(hbin) = words /\ gs \in Places
  BY <1>1, <1>2, <1>3, HybridAssumption DEF GainsSoFar, Places
<1>5. HybridTyped'
  <2>1. Given(words + 1) \in Int
    BY GainedFacts
  <2>2. gaqGain' \in [Places -> Int]
    BY <2>1
  <2>. QED
    BY <1>1, <1>2, <2>2 DEF channelVars
<1>6. \A p \in Places : p < gs' => gaqGain'[p] = Given(p + 1)
  <2>. SUFFICES ASSUME NEW p \in Places, p < gs + 1
                PROVE  gaqGain'[p] = Given(p + 1)
    OBVIOUS
  <2>1. CASE p = gs
    BY <1>4, <2>1
  <2>2. CASE p # gs
    BY <1>4, <2>2 DEF GainsSoFar, Places
  <2>. QED
    BY <2>1, <2>2
<1>7. GainsSoFar'
  BY <1>1, <1>2, <1>3, <1>4, <1>6, ChannelStays DEF GainsSoFar, channelVars
<1>8. MantissasSoFar'
  BY DEF MantissasSoFar
<1>. QED
  BY <1>1, <1>5, <1>7, <1>8, ChannelStays

LEMMA OpenGainsKeeps == ASSUME GInv, OpenGains PROVE GInv'
<1>. USE DEF GInv, HybridTyped, OpenGains, ReadsGain, Here, Opens
<1>1. UNCHANGED channelVars /\ gaqMode = "124"
  OBVIOUS
<1>2. hbin \in Nat /\ hbin + 1 \in 1 .. Len(hebap) /\ hbin' = hbin + 1
  OBVIOUS
<1>3. Rank(hbin + 1) = Rank(hbin) + 1 /\ Rank(hbin) <= hbin
  BY <1>1, <1>2, GainedFacts
<1>4. gs = 3 * words /\ Rank(hbin) = 3 * words
  BY <1>1, <1>2 DEF GainsSoFar
<1>5. gs + 2 \in Places
  BY <1>2, <1>3, <1>4, HybridAssumption DEF Places
<1>6. HybridTyped'
  <2>1. \A r : Given(r) \in Int
    BY GainedFacts
  <2>. QED
    BY <1>1, <1>2, <1>5, <2>1 DEF channelVars
<1>7. \A p \in Places : p < gs' => gaqGain'[p] = Given(p + 1)
  <2>. SUFFICES ASSUME NEW p \in Places, p < gs + 3
                PROVE  gaqGain'[p] = Given(p + 1)
    OBVIOUS
  <2>0. p \in Nat
    BY DEF Places
  <2>1. CASE p >= gs
    <3>1. p \in gs .. gs + 2 /\ 3 * words + 1 + p - gs = p + 1
      BY <1>4, <2>0, <2>1
    <3>. QED
      BY <3>1
  <2>2. CASE p < gs
    <3>1. p \notin gs .. gs + 2
      BY <2>2
    <3>. QED
      BY <2>2, <3>1 DEF GainsSoFar
  <2>. QED
    BY <2>0, <2>1, <2>2
<1>8. GainsSoFar'
  BY <1>1, <1>2, <1>3, <1>4, <1>7, ChannelStays DEF GainsSoFar, channelVars
<1>9. MantissasSoFar'
  BY <1>5 DEF MantissasSoFar
<1>. QED
  BY <1>1, <1>6, <1>8, <1>9, ChannelStays

LEMMA CountGainKeeps == ASSUME GInv, CountGain PROVE GInv'
<1>. USE DEF GInv, HybridTyped, CountGain, ReadsGain, Here, Opens
<1>1. UNCHANGED channelVars /\ gaqMode = "124"
  OBVIOUS
<1>2. hbin \in Nat /\ hbin + 1 \in 1 .. Len(hebap) /\ hbin' = hbin + 1
  OBVIOUS
<1>3. Rank(hbin + 1) = Rank(hbin) + 1
  BY <1>1, <1>2, GainedFacts
<1>4. HybridTyped'
  BY <1>1, <1>2 DEF channelVars
<1>5. GainsSoFar'
  BY <1>1, <1>2, <1>3, ChannelStays DEF GainsSoFar, channelVars
<1>6. MantissasSoFar'
  BY DEF MantissasSoFar
<1>. QED
  BY <1>1, <1>4, <1>5, <1>6, ChannelStays

LEMMA EndOfGainsKeeps == ASSUME GInv, EndOfGains PROVE GInv'
<1>. USE DEF GInv, HybridTyped, EndOfGains
<1>1. UNCHANGED channelVars
  OBVIOUS
<1>2. Rank(hbin) = Cardinality(Gained) /\ Rank(0) = 0 /\ Cardinality(Gained) \in Nat
  BY GainedFacts
<1>3. HybridTyped'
  BY <1>1 DEF channelVars
<1>4. GainsSoFar'
  BY DEF GainsSoFar
<1>5. words = WordsWritten /\ Cardinality(Gained) <= gs
  <2>1. CASE gaqMode = "124"
    <3>1. gs = 3 * words /\ Cardinality(Gained) = 3 * words - 2 + gc
      BY <1>2, <2>1 DEF GainsSoFar
    <3>2. words = (3 * words - 2 + gc + 2) \div 3
      OBVIOUS
    <3>. QED
      BY <2>1, <3>1, <3>2 DEF WordsWritten
  <2>2. CASE gaqMode # "124"
    BY <1>2, <2>2 DEF GainsSoFar, WordsWritten
  <2>. QED
    BY <2>1, <2>2
<1>6. \A p \in Places : p < Cardinality(Gained) => gaqGain[p] = Given(p + 1)
  BY <1>2, <1>5 DEF GainsSoFar, Places
<1>7. taken = <<>>
  BY DEF GainsSoFar
<1>8. MantissasSoFar'
  BY <1>1, <1>2, <1>5, <1>6, <1>7, ChannelStays DEF MantissasSoFar
<1>. QED
  BY <1>1, <1>3, <1>4, <1>8, ChannelStays

LEMMA ReadBinKeeps == ASSUME GInv, ReadBin PROVE GInv'
<1>. USE DEF GInv, HybridTyped, ReadBin, Here
<1>1. UNCHANGED channelVars
  OBVIOUS
<1>2. hbin \in Nat /\ hbin + 1 \in 1 .. Len(hebap) /\ hbin' = hbin + 1
  OBVIOUS
<1>3. MantissasSoFar
  OBVIOUS
<1>4. hebap[hbin + 1] \in 0 .. 19
  BY <1>2
<1>5. hbin + 1 \in Gained
        <=> hebap[hbin + 1] >= 8 /\ gaqMode # "no" /\ hebap[hbin + 1] < gaqEndBap[gaqMode]
  <2>1. hbin + 1 \in Gained <=> HasGain(hbin + 1) /\ gaqMode # "no"
    BY <1>2, GainedFacts
  <2>2. \A h \in 0 .. 19 : h > 7 <=> h >= 8
    OBVIOUS
  <2>. QED
    BY <1>4, <2>1, <2>2 DEF HasGain
<1>6. /\ taken' = Append(taken, given[hbin + 1])
      /\ gs' = Rank(hbin + 1)
  <2>1. CASE hbin + 1 \in Gained
    <3>1. Rank(hbin + 1) = gs + 1 /\ Rank(hbin + 1) <= Cardinality(Gained)
      BY <1>2, <1>3, <2>1, GainedFacts DEF MantissasSoFar
    <3>2. gs \in Places /\ gs < Cardinality(Gained)
      <4>1. Rank(hbin) <= hbin /\ gs = Rank(hbin) /\ Cardinality(Gained) \in Nat
        BY <1>2, <1>3, GainedFacts DEF MantissasSoFar
      <4>2. gs < Cardinality(Gained)
        BY <3>1, <4>1
      <4>. QED
        BY <1>2, <4>1, <4>2, HybridAssumption DEF Places
    <3>3. gaqGain[gs] = given[hbin + 1]
      <4>1. gaqGain[gs] = Given(gs + 1)
        BY <1>3, <3>2 DEF MantissasSoFar
      <4>2. Given(Rank(hbin + 1)) = given[hbin + 1]
        BY <2>1, GainedFacts
      <4>. QED
        BY <3>1, <4>1, <4>2
    <3>. QED
      BY <1>5, <2>1, <3>1, <3>3
  <2>2. CASE hbin + 1 \notin Gained
    <3>1. given[hbin + 1] = 0
      BY <1>2, <2>2 DEF GainsOnlyWhereHad
    <3>2. Rank(hbin + 1) = gs
      BY <1>2, <1>3, <2>2, GainedFacts DEF MantissasSoFar
    <3>. QED
      BY <1>5, <2>2, <3>1, <3>2
  <2>. QED
    BY <2>1, <2>2
<1>7. given[hbin + 1] \in {0, 1, 2}
  BY <1>2
<1>8. HybridTyped'
  <2>1. gs' \in Nat
    <3>1. hbin + 1 \in Nat
      BY <1>2
    <3>2. Rank(hbin + 1) \in Nat
      BY <3>1, GainedFacts
    <3>. QED
      BY <1>6, <3>2
  <2>2. taken' \in Seq(Int)
    BY <1>6, <1>7
  <2>. QED
    BY <1>1, <1>2, <2>1, <2>2 DEF channelVars
<1>9. Len(taken') = hbin + 1 /\ \A i \in 1 .. hbin + 1 : taken'[i] = given[i]
  <2>1. Len(taken) = hbin /\ \A i \in 1 .. hbin : taken[i] = given[i]
    BY <1>3 DEF MantissasSoFar
  <2>. QED
    BY <1>2, <1>6, <1>7, <2>1
<1>10. MantissasSoFar'
  BY <1>1, <1>2, <1>3, <1>6, <1>9, ChannelStays DEF MantissasSoFar, channelVars
<1>11. GainsSoFar'
  BY DEF GainsSoFar
<1>. QED
  BY <1>1, <1>8, <1>10, <1>11, ChannelStays

(* No bin is behind yet.                                                   *)
LEMMA NothingRanked ==
  ASSUME NEW S, S \subseteq Nat \ {0}
  PROVE  CountTo(S, 0) = 0
<1>1. {j \in S : j <= 0} = {}
  <2>1. \A j \in S : ~(j <= 0)
    OBVIOUS
  <2>. QED
    BY <2>1
<1>. QED
  BY <1>1, FS_EmptySet DEF CountTo

LEMMA StartChannelKeeps == ASSUME GInv, StartChannel PROVE GInv'
<1>. USE DEF StartChannel
<1>1. PICK len \in 1 .. MaxBins : hebap' \in [1 .. len -> Hebaps]
  OBVIOUS
<1>2. len \in Nat /\ len <= MaxBins
  BY HybridAssumption
<1>3. hebap' \in Seq(0 .. 19) /\ Len(hebap') = len /\ DOMAIN hebap' = 1 .. len
  <2>1. hebap' \in [1 .. len -> 0 .. 19]
    BY <1>1, HybridAssumption
  <2>. QED
    BY <1>2, <2>1
<1>4. given' \in Seq({0, 1, 2}) /\ Len(given') = len
  <2>1. given' \in [1 .. len -> {0, 1, 2}]
    BY <1>3
  <2>. QED
    BY <1>2, <2>1
<1>5. gaqGain' \in [Places -> Int] /\ taken' \in Seq(Int)
  BY DEF Unread, Stale
<1>6. HybridTyped'
  BY <1>2, <1>3, <1>4, <1>5 DEF HybridTyped, GInv
<1>7. Gained' \subseteq 1 .. len
  BY <1>3 DEF Gained
<1>8. Rank(hbin)' = 0
  <2>1. Rank(hbin)' = CountTo(Gained', 0)
    BY DEF Rank, CountTo
  <2>2. Gained' \subseteq Nat \ {0}
    BY <1>2, <1>7
  <2>. QED
    BY <2>1, <2>2, NothingRanked
<1>9. GainsOnlyWhereHad'
  <2>. SUFFICES ASSUME NEW i \in 1 .. len, i \notin Gained'
                PROVE  given'[i] = 0
    BY <1>3 DEF GainsOnlyWhereHad
  <2>1. hebap'[i] \notin Reach[gaqMode']
    BY <1>3 DEF Gained
  <2>. QED
    BY <1>3, <2>1
<1>10. GainsSoFar'
  BY <1>8 DEF GainsSoFar, Places
<1>11. MantissasSoFar'
  <2>. SUFFICES ASSUME gaqMode' = "no" PROVE MantissasSoFar'
    BY DEF MantissasSoFar
  <2>1. Gained' = {}
    BY DEF Gained, Reach, Modes
  <2>2. Cardinality(Gained') = 0
    BY <2>1, FS_EmptySet
  <2>. QED
    BY <1>8, <2>2 DEF MantissasSoFar, WordsWritten, Places
<1>. QED
  BY <1>6, <1>9, <1>10, <1>11 DEF GInv

LEMMA EndOfBinsKeeps == ASSUME GInv, EndOfBins PROVE GInv'
<1>1. hebap' \in Seq(0 .. 19) /\ given' \in Seq({0, 1, 2}) /\ taken' \in Seq(Int)
  BY DEF EndOfBins
<1>2. gaqGain' \in [Places -> Int]
  BY DEF EndOfBins, Unread, Stale
<1>3. HybridTyped'
  BY <1>1, <1>2, HybridAssumption DEF EndOfBins, HybridTyped, Modes
<1>. QED
  BY <1>3 DEF EndOfBins, GInv, GainsOnlyWhereHad, GainsSoFar, MantissasSoFar

LEMMA HybridNextKeeps == ASSUME GInv, [HybridNext]_hybridVars PROVE GInv'
<1>1. CASE UNCHANGED hybridVars
  <2>1. UNCHANGED channelVars /\ UNCHANGED hbin
    BY <1>1 DEF hybridVars, channelVars
  <2>. USE ChannelStays
  <2>2. HybridTyped'
    BY <1>1 DEF hybridVars, GInv, HybridTyped
  <2>3. GainsSoFar'
    BY <1>1, <2>1 DEF hybridVars, GInv, GainsSoFar
  <2>4. MantissasSoFar'
    BY <1>1, <2>1 DEF hybridVars, GInv, MantissasSoFar
  <2>. QED
    BY <2>1, <2>2, <2>3, <2>4 DEF GInv
<1>. QED
  BY <1>1, StartChannelKeeps, PassBinKeeps, ReadGainKeeps, OpenGainsKeeps,
     CountGainKeeps, EndOfGainsKeeps, ReadBinKeeps, EndOfBinsKeeps DEF HybridNext

(* The two walks over a channel's bins agree with each other and with the  *)
(* writer (readAHTGains and readAHTMantissas), for channels of any length  *)
(* and any pointers: no codeword of gains is left unread, none is read     *)
(* past the array, and every bin is read with its own gain.                *)
THEOREM BinsGetTheirGains == HybridSpec => []GainsAreTheBins
<1>1. HybridInit => GInv
  BY HybridInitHolds
<1>2. GInv /\ [HybridNext]_hybridVars => GInv'
  BY HybridNextKeeps
<1>3. GInv => GainsAreTheBins
  BY DEF GInv, HybridTyped, MantissasSoFar, GainsAreTheBins
<1>. QED
  BY <1>1, <1>2, <1>3, PTL DEF HybridSpec

=============================================================================
