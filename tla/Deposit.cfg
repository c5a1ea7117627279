SPECIFICATION Spec
CONSTANTS
  Runs = {r1, r2}
  Funding = {f1}
  FundingSats = 9
  Recipients = {alice, bob}
  Amounts = {1, 7, 8}
  Fee = 1
  Dust = 2
  MaxHeight = 2
  MaxFaults = 1
  MaxReorgs = 1
INVARIANTS
  IInv
  OfferedIsFree
  BackedByDogecoin
PROPERTIES
  KeepsCoins
  MinedIsRegistered
CHECK_DEADLOCK FALSE
