SPECIFICATION FairSpec
CONSTANTS
  MaxRequests = 1
  MaxBatches = 2
  BatchCap = 2
  Deposits = {d1, d2, d3}
  Quorums = {q1}
  NoQuorum = noq
  MaxInputs = 2
  NoopShim = FALSE
  MaxFaults = 0
PROPERTIES
  EventuallyPaid
