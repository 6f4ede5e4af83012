SPECIFICATION Spec
CONSTANTS
  Requests = {r1, r2}
  Cached = {r1, r2}
  Identities = {alice, bob}
  Reads = {c1, c2}
  Relations = {c1, c2}
  Absent = Absent
  Foreign = Foreign
  MaxVersion = 1
  MaxLosses = 2
SYMMETRY MCSymmetry
INVARIANTS
  TypeOK
  AnswersAreOwn
  RepeatableReads
  AskedOnce
  DroppedStaysDropped
CHECK_DEADLOCK FALSE
