SPECIFICATION Spec
CONSTANTS
  ByteMod = 2
  XLen = 4
  Regions <- TopRegions
  NRegions = 4
  Heap = 3
  Reg <- MCReg
  Decode <- MemoryDecode
  Compute <- Execute
  FloatResults <- MCFloatResults
  SysNo <- MCSysNo
  UpperUnit = 4
  StatSize = 2
  Entry = 1
  StackTop = 0
  Images <- MemoryImages
INVARIANTS
  BreakInReserve
PROPERTIES
  BrkReportsTheBreak
  IsaKept
  StoreIsFlat
  LoadIsFlat
CHECK_DEADLOCK FALSE
