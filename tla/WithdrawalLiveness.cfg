SPECIFICATION FairSpec
CONSTANTS
  MaxRequests = 2
  MaxBatches = 3
  BatchCap = 2
  Deposits = {d1}
  Quorums = {q1}
  NoQuorum = noq
  MaxInputs = 1
  NoopShim = FALSE
  MaxFaults = 1
PROPERTIES
  EventuallyPaid
