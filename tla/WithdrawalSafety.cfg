SPECIFICATION Spec
CONSTANTS
  MaxRequests = 2
  MaxBatches = 3
  BatchCap = 2
  Deposits = {d1}
  Quorums = {q1}
  NoQuorum = noq
  MaxInputs = 2
  NoopShim = FALSE
  MaxFaults = 2
CHECK_DEADLOCK FALSE
INVARIANTS
  OneUnfinished
  NoDoublePayment
  TransitionRecoverable
  Inductive
PROPERTIES
  ImplementsLedger
  ImplementsCoins
