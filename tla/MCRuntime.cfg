SPECIFICATION FairSpec
CONSTANTS
  Windows = {w1}
  Downgrades = FALSE
  MaxVersion = 3
  MaxInstalls = 2
  MaxFaults = 3
INVARIANTS
  TypeOK
  ReadyMeansRunnable
  StampIsBehindTree
PROPERTIES
  DormantIsNotForEver
