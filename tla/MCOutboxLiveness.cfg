SPECIFICATION FairSpec
CONSTANTS
  Worker = {w1, w2}
  N = 2
  MaxAttempts = 3
  InitialDelay = 1
  MaxDelay = 2
  MaxTime = 2
  ClockMax = 2
  MaxRollbacks = 0
  MaxFaults = 0
  MaxCrashes = 0
INVARIANT TypeOK
PROPERTY EveryDeliverySettles
CHECK_DEADLOCK FALSE
