SPECIFICATION DecodingSpec
CONSTANTS
  ByteMod = 2
  Reg <- U5
  Samples <- MCWords
INVARIANTS
  UnreachableHolds
CHECK_DEADLOCK FALSE
