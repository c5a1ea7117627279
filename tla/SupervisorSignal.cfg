SPECIFICATION Spec
CONSTANTS
  Signals = {sigint, sigterm}
CHECK_DEADLOCK FALSE
INVARIANTS
  SignalStopsAll
