SPECIFICATION Spec
CONSTANTS
  Decimals = 2
  MaxU64 = 2000
  MaxPersistedInputs = 2
  MaxPersistedOutputs = 3
  CountByte = 6
  CountU16 = 9
  CountU32 = 12
  ByteRange = 4
  U16Range = 128
  Threshold = 2
  SetSize = 3
  Reversed <- OtherOrder
  Deposits <- ThreeDeposits
  Payments <- OneOrTwo
  Invocations <- OneIsOther
  MaxPayments = 2
  MaxFaults = 1
INVARIANTS
  BooksMatchChain
  SignedIsThePayment
  Inductive
PROPERTIES
  HonestAnswersCount
  SameArgsRecover
  RegistrationAccepted
  ConfirmedIsBookable
CHECK_DEADLOCK FALSE
