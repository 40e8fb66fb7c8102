SPECIFICATION Spec
CONSTANTS
  Holders = {relayer, alice}
  NoAddress = nobody
  FirstOperator = relayer
  EthTxs = {t1, t2}
  MAX_UINT = 6
  Values = {1, 3}
  MIN_USDT = 1
  MAX_USDT = 2
  RATE_LIMIT = 2
  HOUR = 2
  DEPOSIT_WINDOW = 1
  WITHDRAW_WINDOW = 9
  PEBBLE_SKIP = 1
  NoState = NoState
  TornWrites = TRUE
  MaxEthBlock = 3
  MaxUstBlock = 1
  MaxCrashes = 1
  MaxFaults = 1
INVARIANTS
  NoDepositPassedOver
  CacheIsBacked
PROPERTY
  KeepsLedger
