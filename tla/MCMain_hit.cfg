SPECIFICATION MainSpec
CONSTANTS
  ByteMod = 2
  XLen = 4
  Regions <- MCRegions
  NRegions = 3
  Heap = 2
  Reg <- MCReg
  Decode <- ControlDecode
  Compute <- Execute
  FloatResults <- MCFloatResults
  SysNo <- MCSysNo
  UpperUnit = 4
  StatSize = 2
  Entry = 0
  StackTop = 14
  Images <- MainImages
  NSlots = 2
  Instructions <- Insns
  EntryBreak = 4
PROPERTIES
  HitAtItsPc
CHECK_DEADLOCK FALSE
