CONSTANTS
  Process = {p1, p2, p3}
  None = None
  StaleTTL = 1
  LockTimeout = 2
  MaxCrashes = 2
  MaxWriteErrors = 1
  Prompt = TRUE
SPECIFICATION Spec
CHECK_DEADLOCK FALSE
SYMMETRY ProcessSymmetry
INVARIANTS TypeOK ExclusiveWhileNoneDied NoLiveLockCondemned
PROPERTY DeadLocksAreRecovered
