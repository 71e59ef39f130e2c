SPECIFICATION Spec
CONSTANTS
  Signals = {"SIGTERM", "SIGUSR1"}
  MaxSignals = 2
  MaxActive = 2
  Reloads = {FALSE}
  None = None
INVARIANTS
  TypeOK
  DrainedStaysUnhealthy
  HealthyMeansServing
  SuccessMeansDrained
PROPERTIES
  TakenSignalStops
CHECK_DEADLOCK FALSE
