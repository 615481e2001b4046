\* Two slots, three ids (one of them 0), blocks of two source symbols and one repair symbol.
SPECIFICATION Spec
CONSTANTS
  zero = zero
  b1 = b1
  b2 = b2
  MaxActive = 2
  N = 3
  K = 2
  SymbolSize = 1
  Stab = 1
  MaxAge = 2
  Ids = {zero, b1, b2}
  ZeroId = zero
  Meta <- MCMeta
  ZeroMeta <- MCZeroMeta
  Symbols <- MCSymbols
  Overrides <- MCOverrides
  MaxNow = 2
  MaxOpened = 3
  MaxDrops = 1
SYMMETRY Symmetry
INVARIANTS
  UniqueBlocks
  ReadyDecodable
  BlockAccounting
PROPERTIES
  FreezeRule
  ImplementsLifecycle
CHECK_DEADLOCK FALSE
