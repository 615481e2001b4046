\* Packets of one to three fragments, blocks of two source symbols, windows of two blocks.
SPECIFICATION FairSpec
CONSTANTS
  K = 2
  M = 1
  Depth = 2
  SymbolSize = 1
  MaxPacket = 3
  BlockTimeout = 1
  FlushTimeout = 1
  IdSpace = 100
  Packets <- MCPackets
  MaxPackets = 3
  MaxNow = 3
INVARIANTS
  NothingLostInBlocks
  PacketNotSplit
  GoesOutWhole
PROPERTIES
  NothingStuck
CHECK_DEADLOCK FALSE
