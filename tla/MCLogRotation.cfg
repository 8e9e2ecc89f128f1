SPECIFICATION Spec
CONSTANTS
  MaxSize = 3
  LineSizes = {1, 2, 3}
  MaxLine = 3
  MaxFiles = 2
  MaxAge = 2
  MaxText = 9
  MaxTime = 4
  MaxFaults = 2
  MaxCrashes = 2
INVARIANTS
  TypeOK
  SizeBound
  LossBounded
  ArchivesBounded
  PrunesOldest
CHECK_DEADLOCK FALSE
