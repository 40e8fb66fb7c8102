SPECIFICATION Spec
CONSTANTS
  Keys = {deployer, op, n1, n2}
  Holders <- MCHolders
  NoAddress = nobody
  FirstOperator = op
  EthTxs = {f1, f2, f3}
  MAX_UINT = 99
  Values = {}
  Deployer = deployer
  BridgeOp = op
  LIQUIDITY = 10
  Owner = deployer
  InitialPool = 3
  InitialCoins = 2
  RESERVE = 1
  POOL_MIN = 2
  POOL_REFILL = 2
  GAS_RESERVE = 1
  MaxBlocks = 2
  OldDeployer = deployer
  OldSigner = op
  OldMiner = n1
  NewDeployer = n2
  InitialOld = 3
  DUST = 1
  FAUCET_FUNDING = 2
  MaxIncome = 2
  OldOperator = op
  NewOperators = {n1, n2}
  MaxRuns = 3
  MaxCuts = 2
INVARIANTS
  PartsFit
  OneBatchIdle
  SavedIsFunded
  PoolArrives
  KeysRecoverable
  RescueComplete
  HandoverIsFinal
CHECK_DEADLOCK FALSE
