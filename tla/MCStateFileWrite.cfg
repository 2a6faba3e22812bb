SPECIFICATION Spec
CONSTANTS
  Writer = {w1, w2, w3}
  MaxFaults = 2
  MaxCrashes = 2
INVARIANT OkUpdatesSurvive
PROPERTY ImplementsDurableFile
CHECK_DEADLOCK FALSE
