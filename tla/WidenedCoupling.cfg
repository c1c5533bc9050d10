SPECIFICATION Spec
CONSTANTS
  left = left
  right = right
  Cpl = Cpl
  Channels <- ChannelSet
  ChannelsOf <- ModeChannels
  Syntaxes = {"ac3", "eac3"}
  Acmods = {"stereo"}
  BlocksPerFrame = 2
  BlockCounts = {2}
  CplBegins = {0, 4}
  CplEnds = {6}
  Widths = {5}
  Narrowest = 3
  SpxBegins = {2}
  SpxBands = {1, 2}
SYMMETRY ChannelSymmetry
INVARIANTS
  CouplingExponentsAreOfThisFrame
