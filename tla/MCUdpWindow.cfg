SPECIFICATION Spec
CONSTANTS
  InboxMax = 2
  CacheSize = 1
  ReusePorts = TRUE
  MaxSessions = 2
  MaxCmds = 2
  MaxExecs = 4
INVARIANTS
  TypeOK
  RepeatWindow
  ResultsOfExecutions
  PendingIsNewest
CHECK_DEADLOCK FALSE
