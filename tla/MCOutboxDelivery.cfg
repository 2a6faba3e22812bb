SPECIFICATION Spec
CONSTANTS
  Worker = {w1, w2}
  N = 2
  MaxAttempts = 2
  InitialDelay = 1
  MaxDelay = 1
  MaxTime = 9
  ClockMax = 1
  MaxRollbacks = 1
  MaxFaults = 1
  MaxCrashes = 1
SYMMETRY WorkerSymmetry
INVARIANT AcceptedAtMostOnce
INVARIANT StatusIsTruthful
INVARIANT CallsAreCounted
INVARIANT OutcomeIsRecordable
INVARIANT ReportedIsDurable
PROPERTY UpdatesMoveForward
CHECK_DEADLOCK FALSE
