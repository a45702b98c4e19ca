SPECIFICATION LoopSpec
CONSTANTS
  BufSize = 7
  ContentMinLen = 5
  UIntMax = 9
  ContentLengths = {0, 3, 8, 9}
INVARIANTS LoopTypeOK MemorySafe PhasesInOrder LoopInv
PROPERTIES InnerLoopShrinks InnerLoopEnds
CHECK_DEADLOCK FALSE
