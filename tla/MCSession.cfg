SPECIFICATION FairSpec
CONSTANTS
  Carets = {c1, c2, c3}
  NoOne = NoOne
  Profiles = {"none", "undriven", "driven"}
INVARIANTS
  TypeOK
  OneCaretInside
  OneConnectionAttempt
  DegradationIsAnnounced
  NoReadAfterDegrade
PROPERTIES
  EveryCaretAnswered
CHECK_DEADLOCK FALSE
