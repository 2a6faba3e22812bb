CONSTANTS
  Process = {p1, p2, p3}
  None = None
  StaleTTL = 1
  LockTimeout = 2
  MaxCrashes = 1
  MaxWriteErrors = 0
  Prompt = TRUE
SPECIFICATION Spec
CHECK_DEADLOCK FALSE
SYMMETRY ProcessSymmetry
INVARIANT MutualExclusion
