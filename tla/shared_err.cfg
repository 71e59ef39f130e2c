SPECIFICATION Spec
CONSTANTS
  Signals = {"SIGTERM", "SIGUSR1"}
  MaxSignals = 2
  MaxActive = 2
  Reloads = {FALSE, TRUE}
  None = None
INVARIANT
  DrainedMeansSuccess
CHECK_DEADLOCK FALSE
