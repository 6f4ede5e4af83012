SPECIFICATION Spec
CONSTANTS
  Windows = {w1, w2}
  Downgrades = FALSE
  MaxVersion = 3
  MaxInstalls = 2
  MaxFaults = 3
INVARIANTS
  StampIsBehindTree
