\* Two full blocks: the second is decoded in the slot the first one used.
SPECIFICATION Spec
CONSTANTS
  K = 2
  M = 1
  SymbolSize = 2
  MaxActive = 1
  Stab = 1
  MaxAge = 2
  Sent <- MCFullBlocks
  BufSize = 6
  MaxCopies = 1
  MaxNoise = 1
  MaxNow = 2
INVARIANT
  OnlySentPackets
CHECK_DEADLOCK FALSE
