SPECIFICATION NodeSpec
CONSTANTS
  alice = alice
  bob = bob
  NoUndo <- MCNoUndo
  Address <- MCAddress
  NoTx <- MCNoTx
  Tx <- MCTx
  TxIns <- MCTxIns
  TxOuts <- MCTxOuts
  LockTime <- MCLockTime
  TxSize <- MCTxSize
  INITIAL_SUBSIDY = 12
  HALVING_INTERVAL = 100
  COINBASE_MATURITY <- MCMaturity
  LOCKTIME_THRESHOLD <- MCThreshold
  MAX_TXS_PER_BLOCK = 3
  MAX_BLOCK_BYTES = 4
  Block <- OneBranch
  Genesis <- MCGenesis
  Candidates <- OneCandidate
  Clock <- MCClock
  Checkpoints = {}
  MAX_REORG_DEPTH = 0
  KEEP_UNDO = 2
  MEDIAN_TIME_SPAN = 3
  MAX_FUTURE_BLOCK_TIME = 1
  MAX_MEMPOOL_SIZE = 3
  MAX_MEMPOOL_BYTES = 4
  MIN_RELAY_FEE_RATE = 1
  MAX_REPLACED = 3
  COINBASE_RESERVE = 1
INVARIANTS
  PoolWithinLimits
