SPECIFICATION IndexedSpec
CONSTANTS
  alice = alice
  bob = bob
  NoUndo <- MCNoUndo
  Unknown = Unknown
  Address <- MCAddress
  NoTx <- MCNoTx
  Tx <- MCTx
  TxIns <- MCTxIns
  TxOuts <- MCTxOuts
  LockTime <- MCLockTime
  TxSize <- MCTxSize
  INITIAL_SUBSIDY = 8
  HALVING_INTERVAL = 2
  COINBASE_MATURITY <- MCMaturity
  LOCKTIME_THRESHOLD <- MCThreshold
  MAX_TXS_PER_BLOCK = 3
  MAX_BLOCK_BYTES = 3
  Block <- MCBlock
  Genesis <- MCGenesis
  Candidates <- MCCandidates
  Clock <- MCClock
  Checkpoints <- OneCheckpoint
  MAX_REORG_DEPTH = 2
  KEEP_UNDO = 1
  MEDIAN_TIME_SPAN = 3
  MAX_FUTURE_BLOCK_TIME = 1
INVARIANTS
  TypeOK
  UTxOutsAreUnspent
  UndoRestores
  ForkStateExact
  SupplyConserved
  ChainRevalidates
  IndexesFollowChain
PROPERTIES
  ImplementsBestChain
