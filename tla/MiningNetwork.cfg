SPECIFICATION NetFairSpec
CONSTANTS
  BASE_REWARD = 4
  HALVING_INTERVAL = 2
  MIN_REWARD = 2
  BURN_BPS = 2500
  TIMELOCK_DELAY = 1
  WITHDRAW_TIMELOCK = 1
  MIN_DIFFICULTY = 1
  INITIAL_DIFFICULTY = 1
  WORK_AGE = 2
  Accounts = {deployer, m1}
  Contracts = {}
  Deployer = deployer
  NoAddress = nobody
  InitialTotalMined = 0
  InitialFund = 3
  Nonces = {1}
  MAX_HASH = 10
  PowHash <- MCPowHash
  Heirs = {}
  Difficulties = {}
  Amounts = {}
  TimeSteps = {1}
  MaxBlock = 3
  MaxTime = 3
  MaxMined = 4
  MaxFunded = 99
  Miners = {m1}
  WORK_BLOCK_MAX_AGE = 1
  MAX_RETRIES = 2
  MIN_UST = 4
  REFILL_UST = 3
  GAS_RESERVE = 1
  DeployerFunds = 6
  MaxSent = 3
  MaxRefills = 3
  MaxFaults = 2
INVARIANTS
  FoundIsMined
  MarginIsEnough
  PoolBounded
  ReserveKept
PROPERTY
  PoolRefilled
CHECK_DEADLOCK FALSE
