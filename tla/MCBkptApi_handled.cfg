SPECIFICATION Spec
CONSTANTS
  ByteMod = 2
  NSlots = 2
  nop = nop
  store = store
  Instructions <- MCInstructions
  Requests <- MCRequests
PROPERTIES
  HandledIsCompared
