SPECIFICATION Spec
CONSTANTS
  MaxPaths = 2
  MaxCache = 2
  MaxShrink = 2
INVARIANTS
  TypeOK
  ErrorMeansNotWritten
  OneWritePerCommand
  FreedHasLeft
