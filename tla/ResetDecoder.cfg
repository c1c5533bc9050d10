SPECIFICATION Spec
CONSTANTS
  Buffers <- MCBuffers
  Modes <- ModeSet
  NumChannels <- ChannelCounts
  Levels = {"a", "b"}
  Targets = {1}
  Widths = {0, 2}
  MaxBlocks = 2
INVARIANT ResetStartsAfresh
