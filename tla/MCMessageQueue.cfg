SPECIFICATION Spec
CONSTANTS
  Event <- MCEvent
  Backlog <- MCBacklog
  SessionId = {1, 2}
  Debounce = 1
  MaxBatch = 2
  MaxTime = 2
  ClockMax = 2
  MaxRollbacks = 1
INVARIANTS
  FileStaysValid
  WaitIsExact
  OnlyItsSessionDelays
PROPERTIES
  FullBatchIsFinal
  StepsAreUntimedSteps
  EveryMessageIsClaimed
CHECK_DEADLOCK FALSE
