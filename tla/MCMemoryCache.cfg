SPECIFICATION Spec
CONSTANTS
  Threads = {t1, t2}
  Keys = {k1, k2, k3}
  Values = {v1, v2}
  Absent = Absent
  Never = Never
  DefaultTtl = 2
  Ttls = {1}
  NoBound = NoBound
  MaxSize = 2
  MaxTime = 3
  MaxCalls = 4
SYMMETRY MCSymmetry
INVARIANTS
  TypeOK
  BoundKept
  EveryEntryAccountedFor
PROPERTIES
  WorkingSetSurvives
  ImplementsPort
CHECK_DEADLOCK FALSE
