SPECIFICATION AluSpec
CONSTANTS
  ByteMod = 2
  XLen = 4
INVARIANTS
  MulhIsSigned
CHECK_DEADLOCK FALSE
