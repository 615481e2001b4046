\* Windows of three rows of two symbols, four block keys (one of them 0), junk in fresh memory.
SPECIFICATION FairSpec
CONSTANTS
  zero = zero
  b1 = b1
  b2 = b2
  b3 = b3
  data = data
  pad = pad
  junk = junk
  Depth = 3
  N = 2
  FlushTimeout = 1
  Keys = {zero, b1, b2, b3}
  ZeroKey = zero
  Bodies = {data, pad, junk}
  Padding = pad
  Garbage <- MCGarbage
  Symbols <- MCSymbols
  MaxNow = 2
  PerCellLimit = 12
INVARIANTS
  WindowIsSound
  BurstsAreRecoverable
PROPERTY
  CompleteGoesOut
CHECK_DEADLOCK FALSE
