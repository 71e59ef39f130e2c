SPECIFICATION Spec
CONSTANTS
  Signals = {"SIGTERM", "SIGUSR1"}
  MaxSignals = 1
  MaxActive = 2
  Reloads = {FALSE}
  None = None
PROPERTY
  SignalStops
CHECK_DEADLOCK FALSE
