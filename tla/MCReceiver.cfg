\* Two blocks of three source symbols and one repair symbol for a single slot; the last block is padded.
SPECIFICATION MCSpec
CONSTANTS
  K = 3
  M = 1
  SymbolSize = 2
  MaxActive = 1
  Stab = 1
  MaxAge = 1
  Sent <- MCPaddedBlock
  BufSize = 6
  MaxCopies = 1
  MaxNoise = 0
  MaxNow = 1
  FragSize = 2
  MaxLen = 7
  MaxFrags = 3
  OutMax = 6
INVARIANTS
  RoundTrip
  WholeBlockExact
  DeliveredOnce
  DecoderInput
CHECK_DEADLOCK FALSE
