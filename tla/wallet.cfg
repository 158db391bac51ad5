SPECIFICATION WalletSpec
CONSTANTS
  Mnemonics = {w1, w2}
  Passphrases = {p, q}
  Wrong = Wrong
  Nobody = Nobody
  ENV = Nobody
  LEGACY = TRUE
  GAP_LIMIT = 2
  MAX_SCAN = 6
  DUST = 2
  BNB_MAX_TRIES = 100
  FEE_ROUNDS = 2
  IN_SIZE = 1
  OUT_SIZE = 1
  Amounts = {8}
  SampleCoins = {1, 2, 3, 4}
  SampleAmounts = {1, 2, 3, 5, 8}
  Payments = {3}
  Rates = {0, 1}
  Bounds <- WalletBounds
SYMMETRY Interchangeable
INVARIANTS
  KeysKept
  PaymentsExact
  LockHolds
PROPERTIES
  RestoreFindsPaid
CHECK_DEADLOCK FALSE
