SPECIFICATION AluSpec
CONSTANTS
  ByteMod = 2
  XLen = 4
INVARIANTS
  DivisionsSolve
  ShiftsMoveBits
  ComparisonsAgree
  ProductSplits
  BitsAddUp
CHECK_DEADLOCK FALSE
