CONSTANTS
  Starter = {s1, s2, s3}
  Foreground = {s2}
  Stopper = {t1}
  None = None
  Invalid = Invalid
  Timeouts = FALSE
  MaxFaults = 0
  MaxReuses = 0
  InstantReuse = FALSE
SPECIFICATION FairSpec
CHECK_DEADLOCK FALSE
PROPERTY EveryCommandEnds
