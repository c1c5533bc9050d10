\* Everything the packager makes, in ints of ten bits; a bit reader's int of six; the code's own tables
\* and every range a channel can code; hybrid channels of up to four bins, extensions of up to eleven
\* sub-bands.
CONSTANTS
  Inputs <- MCInputs
  HeaderSize = 1
  IntLimit = 512
  FieldLimit = 32
  Allocatable = 8
  Audio = 1
  Second = 2
  Tracks = {1, 2}
  Buffers <- MCBuffers
  MaxInt = 31
  MaxWidth = 17
  nBands = 50
  bndtab <- BandStarts
  bndsz <- BandWidths
  masktab <- BandOfBin
  MaxCoefs = 256
  FullEnds <- ChannelEnds
  CouplingRanges <- Couplings
  Segments <- DeltaSegments
  Grouped = {1, 4}
  Steps <- StepsOf
  GroupSize <- SizeOf
  Hebaps = {5, 8, 12, 17}
  MaxBins = 4
  StartCodes = {0, 1, 2, 3}
  BeginCodes = {0, 1, 2, 5, 6}
  EndCodes = {0, 2, 3, 5}
  spxMaxBands = 17
  spxSubbandBins = 12
  spxBandBase = 25
SPECIFICATION CodingSpec
INVARIANTS
  DemuxTypeOK
  SamplesOfTheTrack
  SamplesBeforeTheDamage
  RefusesInsteadOfPanicking
  TypeOK
  PositionIsTheSum
  ValuesAreTheBits
  AskedFieldsAreOfTheFrame
  AllocTypeOK
  OnlyOwnLevels
  MantissasAreTheWriters
  GainsAreTheBins
  CopyFillsTheExtension
  BandsAreWhole
PROPERTIES
  CallsRunOut
