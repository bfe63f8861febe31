SPECIFICATION Spec
CONSTANTS
  Accounts = {a, b}
  None = None
  Levels = {"content"}
  Kinds = {"content"}
  BatchMax = 2
  Attempts = 2
  MaxEvents = 2
  MaxSessions = 3
  MaxFaults = 1
  MaxAged = 0
CHECK_DEADLOCK FALSE
INVARIANT CursorsNeverDiverge
