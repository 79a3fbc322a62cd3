SPECIFICATION DecodingSpec
CONSTANTS
  ByteMod = 2
  Reg <- U5
  Samples <- MCWords
INVARIANTS
  FieldsInPlace
  ImmediatesAreSigned
  OneInstruction
  OffsetsEven
CHECK_DEADLOCK FALSE
