SPECIFICATION SyncSpec
CONSTANTS
  n1 = n1
  n2 = n2
  Node <- MCNode
  Dials <- MCDials
  Block <- MCBlock
  Genesis <- MCGenesis
  Chain <- MCChain
  Work <- MCWork
  Size <- MCSize
  DENSE = 2
  MAX_HEADERS_PER_BATCH = 1
  MAX_BLOCKS_PER_BATCH = 2
  MAX_BATCH_BYTES = 10
  MAX_HEADER_BUFFER = 10
  MAX_SYNC_BUFFER = 3
  BAD_BLOCK = 1
  MALFORMED = 1
  FLOOD = 1
  BAN_THRESHOLD = 2
  MAX_NET = 1
INVARIANTS
  SyncTypeOK
  UndisturbedNotBlamed
  NobodyWaitsInVain
PROPERTIES
  TipsGainWork
  CatchesUp
CHECK_DEADLOCK FALSE
