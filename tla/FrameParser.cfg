CONSTANTS
  Configs <- MCConfigs
  Bytes = {0, 1, 2}
  MaxChunk = 3
  MaxInput = 7

SPECIFICATION FairSpec
INVARIANTS
  TypeOK
  FramesWellFormed
  NothingWithheld
  Decoded
PROPERTIES
  EachByteOnce
  FeedReturns
