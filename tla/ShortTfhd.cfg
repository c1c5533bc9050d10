\* A file whose tfhd ends before a field that its flags announce.
CONSTANTS
  Inputs <- Beheaded
  HeaderSize = 1
  IntLimit = 512
  FieldLimit = 32
  Allocatable = 8
  Audio = 1
  Second = 2
  Tracks = {1, 2}
SPECIFICATION DemuxSpec
INVARIANTS
  MalformedIsAnError
