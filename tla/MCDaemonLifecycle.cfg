CONSTANTS
  Starter = {s1, s2}
  Foreground = {s2}
  Stopper = {t1}
  None = None
  Invalid = Invalid
  Timeouts = TRUE
  MaxFaults = 2
  MaxReuses = 1
  InstantReuse = FALSE
SPECIFICATION Spec
CHECK_DEADLOCK FALSE
INVARIANTS AtMostOneDaemon RunningDaemonIsFindable StoppedStaysStopped FailedStartLeavesNothing OnlyDaemonsAreSignalled
