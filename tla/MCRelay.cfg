SPECIFICATION FairSpec
CONSTANTS
  c1 = c1
  c2 = c2
  Cells = {c1, c2}
  Nil = Nil
  NO_UPDATE_LIMIT_SEC = 1
  FD_SETSIZE = 5
  Limits = {4, 5}
  Ends <- MCEnds
  Chunks <- MCChunks
INVARIANTS
  ListSound
  DescriptorsOwned
  InOrder
PROPERTIES
  BrokenIsSilent
  IdleDropped
