SPECIFICATION Spec
CONSTANTS
  BASE_REWARD = 8
  HALVING_INTERVAL = 1
  MIN_REWARD = 3
  BURN_BPS = 2500
  TIMELOCK_DELAY = 1
  WITHDRAW_TIMELOCK = 2
  MIN_DIFFICULTY = 2
  INITIAL_DIFFICULTY = 3
  WORK_AGE = 1
  Accounts = {owner, miner}
  Contracts = {owner}
  Deployer = owner
  NoAddress = nobody
  InitialTotalMined = 1
  InitialFund = 4
  Nonces = {1, 2}
  MAX_HASH = 12
  PowHash <- MCPowHash
  Heirs = {miner}
  Difficulties = {1, 2}
  Amounts = {4}
  TimeSteps = {1, 2}
  MaxBlock = 1
  MaxTime = 2
  MaxMined = 3
  MaxFunded = 8
INVARIANTS
  TypeOK
  Conservation
  OneRewardPerProof
  EventsInOrder
  LockHeldByOneMine
  NoNestedWithdrawal
PROPERTIES
  ChangesAnnounced
  WithdrawalsAnnounced
CHECK_DEADLOCK FALSE
