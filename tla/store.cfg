SPECIFICATION StoreSpec
CONSTANTS
  alice = alice
  bob = bob
  NoUndo <- MCNoUndo
  NoSnapshot <- MCNoSnapshot
  Address <- MCAddress
  NoTx <- MCNoTx
  Tx <- MCTx
  TxIns <- MCTxIns
  TxOuts <- MCTxOuts
  LockTime <- MCLockTime
  TxSize <- MCTxSize
  INITIAL_SUBSIDY = 4
  HALVING_INTERVAL = 100
  COINBASE_MATURITY <- MCMaturity
  LOCKTIME_THRESHOLD <- MCThreshold
  MAX_TXS_PER_BLOCK = 3
  MAX_BLOCK_BYTES = 3
  Block <- MCBlock
  Genesis <- MCGenesis
  Candidates <- MCCandidates
  Clock <- MCClock
  Checkpoints = {}
  MAX_REORG_DEPTH = 0
  KEEP_UNDO = 2
  MEDIAN_TIME_SPAN = 3
  MAX_FUTURE_BLOCK_TIME = 1
  LineCells <- MCLineCells
  BODY_CACHE_SIZE = 2
  SNAPSHOT_INTERVAL = 2
INVARIANTS
  ReloadedChainValid
  ReloadedStateExact
  DiskHoldsChain
  BodiesOfChain
