\* Two blocks for a single slot, one foreign or corrupted frame; the clock reaches the age limit.
SPECIFICATION FairSpec
CONSTANTS
  K = 2
  M = 1
  SymbolSize = 2
  MaxActive = 1
  Stab = 1
  MaxAge = 1
  Sent <- MCFullBlocks
  BufSize = 6
  MaxCopies = 1
  MaxNoise = 1
  MaxNow = 1
PROPERTY
  BlocksEnd
CHECK_DEADLOCK FALSE
