\* The deadline is no multiple of the timeout and the pause, so requests are cut short by it.
\* The reader stops when its statement has ended.
SPECIFICATION FairSpec
CONSTANTS
  Pages = 3
  Deadline = 8
  Timeout = 3
  Dribble = 2
  Pause = 2
INVARIANTS
  TypeOK
  WholeOrNothing
  InTime
PROPERTIES
  Ends
CHECK_DEADLOCK FALSE
