SPECIFICATION FairSpec
CONSTANTS
  Signals = {sigint, sigterm}
CHECK_DEADLOCK FALSE
INVARIANTS
  IInv
  ReverseOrder
  DoneLeavesNothing
PROPERTIES
  OneForAll
