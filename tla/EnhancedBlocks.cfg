SPECIFICATION Spec
CONSTANTS
  left = left
  right = right
  Cpl = Cpl
  Channels <- ChannelSet
  ChannelsOf <- ModeChannels
  Syntaxes = {"eac3"}
  Acmods = {"more"}
  BlocksPerFrame = 3
  BlockCounts = {3}
  CplBegins = {0}
  CplEnds = {6}
  Widths = {5}
  Narrowest = 3
  SpxBegins = {2}
  SpxBands = {1}
SYMMETRY ChannelSymmetry
INVARIANTS
  CouplingIsOfThisSpell
  ExtensionIsOfThisSpell
