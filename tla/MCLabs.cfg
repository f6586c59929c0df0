SPECIFICATION FairSpec
CONSTANTS
  Strings = 10
  Nobody = Nobody
  THREADS_NUM = 3
  ITERATIONS_NUM = 2
  MaxBlocks = 3
  Entries = {"root", "dir", "file", "inner"}
  Root = "root"
  Parent <- MCParent
  Limits = {2, 4}
  Lines = {1, 2}
  MaxPushes = 3
CHECK_DEADLOCK FALSE
INVARIANTS
  InTurn
  SharesEqual
  OutputWhole
  ListIntact
  NothingLost
PROPERTIES
  BothFinish
  SumPrinted
  CopyEnds
  WidgetsMade
