SPECIFICATION Spec
CONSTANTS
  ByteMod = 2
  Files <- MCFiles
  EhdrSize = 2
  HeapSize = 2
  StackSize = 2
INVARIANTS
  TypeOK
  HartHasReserves
  TableIsDisjoint
  ImageIsTheFile
  StackPointerInStack
PROPERTIES
  OnlyOpeningFails
  WellFormedLoads
CHECK_DEADLOCK FALSE
