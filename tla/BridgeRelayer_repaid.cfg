SPECIFICATION Spec
CONSTANTS
  Holders = {relayer, alice}
  NoAddress = nobody
  FirstOperator = relayer
  EthTxs = {t1, t2}
  MAX_UINT = 6
  Values = {1}
  MIN_USDT = 1
  MAX_USDT = 2
  RATE_LIMIT = 2
  HOUR = 2
  DEPOSIT_WINDOW = 0
  WITHDRAW_WINDOW = 9
  PEBBLE_SKIP = 1
  NoState = NoState
  TornWrites = FALSE
  MaxEthBlock = 2
  MaxUstBlock = 1
  MaxCrashes = 1
  MaxFaults = 0
INVARIANT
  PaidOnce
