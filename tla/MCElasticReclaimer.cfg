SPECIFICATION Spec
CONSTANTS
  Config <- MCConfig
  Samples <- MCSamples
  HistoryMax = 2
  MaxTime = 3
INVARIANTS
  TypeOK
  TierSpacing
  CooldownsMatchCommands
  DropJustified
  CorroboratedPressure
  ReclaimWithinGap
CHECK_DEADLOCK FALSE
