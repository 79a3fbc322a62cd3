SPECIFICATION Spec
CONSTANTS
  ByteMod = 2
  XLen = 4
  Regions <- MCRegions
  NRegions = 3
  Heap = 2
  Reg <- MCReg
  Decode <- FloatDecode
  Compute <- Execute
  FloatResults <- MCFloatResults
  SysNo <- MCSysNo
  UpperUnit = 4
  StatSize = 2
  Entry = 0
  StackTop = 14
  Images <- FloatImages
INVARIANTS
  TypeOK
PROPERTIES
  IsaKept
  StoreIsFlat
  LoadIsFlat
CHECK_DEADLOCK FALSE
