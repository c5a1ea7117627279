SPECIFICATION Spec
CONSTANTS
  Threshold = 5
  MaxOutages = 2
CHECK_DEADLOCK FALSE
INVARIANTS
  AbortMeansOutage
