SPECIFICATION Spec
CONSTANTS
  Decimals = 2
  MaxU64 = 2000
  LeafBits = 2
  Alphabet = {"0", "1", "9", ".", "e", "-"}
  MaxText = 5
  Units = {0, 1, 2, 4, 6, 7, 8, 12, 20, 118, 136, 169, 172}
  Height = 3
  MaxBatch = 2
  MaxSpent = 3
  MaxTxids = 9
INVARIANTS
  AmountExact
  DecodedIsThePlan
  RestoredIsStored
  SpentProofsChain
  MembershipProofsVerify
CHECK_DEADLOCK FALSE
