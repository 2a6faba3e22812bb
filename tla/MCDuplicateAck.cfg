SPECIFICATION Spec
CONSTANTS
  e1 = e1
  e2 = e2
  e3 = e3
  n1 = n1
  s1 = s1
  s2 = s2
  Event = {n1}
  Session = {s1}
  NoSession = NoSession
  SessionOf <- MCSessionOf
  RunId = {r1, r2}
  MaxBatch = 1
  MaxFaults = 1
  MaxCrashes = 1
  CarefulEmbedder = TRUE
SYMMETRY RunSymmetry
INVARIANT AckedDurable
CHECK_DEADLOCK FALSE
