\* Every stream of up to three frames, with and without a downmix and a target; and every order of
\* calls by another program.
CONSTANTS
  Buffers <- AllStreams
  Streams <- AllStreams
  MaxFrames = 3
  Modes <- ModeSet
  NumChannels <- ChannelCounts
  Levels = {"a", "b"}
  Targets = {1}
  Widths = {0, 2}
  MaxBlocks = 2
SPECIFICATION ProgramsSpec
INVARIANTS
  TypeOK
  SpanIsTheUnit
  NoDependentGoesUnnoticed
  OverlapsTheFrameBefore
  SamplesAreOfTheUnit
  GainsAreOfTheHeader
  PlaysEveryUnitOnce
  OwnSamplesInSteadyLayout
PROPERTIES
  LoopEnds
CHECK_DEADLOCK FALSE
