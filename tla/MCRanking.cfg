\* A call ends with its answer, so it stops.
SPECIFICATION Spec
CONSTANTS
  NoLimit = NoLimit
  Requests <- MCRequests
INVARIANTS
  ExactlyTheFullRanking
  ReadableFirst
CHECK_DEADLOCK FALSE
