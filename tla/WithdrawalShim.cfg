SPECIFICATION Spec
CONSTANTS
  MaxRequests = 2
  MaxBatches = 2
  BatchCap = 1
  Deposits = {d1, d2}
  Quorums = {q1, q2}
  NoQuorum = noq
  MaxInputs = 2
  NoopShim = TRUE
  MaxFaults = 1
SYMMETRY Symmetry
CHECK_DEADLOCK FALSE
INVARIANTS
  ManagerAgrees
  NoLeakedCustody
  CustodyBacked
  BroadcastIsRecorded
PROPERTIES
  RequestsAdvance
  SignedOnce
