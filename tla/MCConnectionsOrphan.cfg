SPECIFICATION Spec
CONSTANTS
  Flows = {f1}
  Names = {n1, n2}
  Hosts = {h1}
  Passwords = {w1}
  None = None
  Malformed = Malformed
  MaxEntries = 2
  MaxCommands = 2
  MaxHandEdits = 1
INVARIANTS
  NoOrphanedSecret
CHECK_DEADLOCK FALSE
