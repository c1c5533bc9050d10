SPECIFICATION FairSpec
CONSTANTS
  Streams <- MCStreams
  SyncInfoSize = 2
  EAC3SyncInfoSize = 3
  MaxAnyFrameSize = 4
  MaxEmptyReads = 2
  MaxAccessUnitFrames = 3
  Growth = {1, 4}
  Modes = {"full", "first", "none"}
  Calls = {"Next", "NextAccessUnit"}
INVARIANTS
  TypeOK
  WindowIsStream
  EveryByteIsAccounted
  SliceIsUnit
  HeaderIsOfAFrame
  SwappedStreamIsReported
  EndComesLast
PROPERTIES
  UnitIsMaximal
  FramingSpec
  EveryCallReturns
