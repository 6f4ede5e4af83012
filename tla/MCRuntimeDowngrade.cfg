SPECIFICATION Spec
CONSTANTS
  Windows = {w1}
  Downgrades = TRUE
  MaxVersion = 3
  MaxInstalls = 2
  MaxFaults = 3
INVARIANTS
  ReadyMeansRunnable
