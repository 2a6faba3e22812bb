CONSTANTS
  Process = {p1, p2}
  None = None
  StaleTTL = 1
  LockTimeout = 2
  MaxCrashes = 1
  MaxWriteErrors = 1
  Prompt = FALSE
SPECIFICATION FairSpec
CHECK_DEADLOCK FALSE
PROPERTY EveryWaitEnds
