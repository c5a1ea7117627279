SPECIFICATION Spec
CONSTANTS
  MaxRequests = 2
  MaxBatches = 2
  BatchCap = 2
  Deposits = {d1}
  Quorums = {q1}
  NoQuorum = noq
  MaxInputs = 2
  NoopShim = FALSE
  MaxFaults = 1
CHECK_DEADLOCK FALSE
INVARIANTS
  FailedBeforeCursor
