SPECIFICATION Spec
CONSTANTS
  InboxMax = 2
  CacheSize = 2
  ReusePorts = FALSE
  MaxSessions = 1
  MaxCmds = 2
  MaxExecs = 3
PROPERTY ClearedByItsOwnAck
CHECK_DEADLOCK FALSE
