SPECIFICATION Spec
CONSTANTS
  Holders = {relayer, alice}
  NoAddress = nobody
  FirstOperator = relayer
  EthTxs = {t1, t2}
  MAX_UINT = 3
  Values = {1, 3}
  People = {admin, s1, s2}
  ZeroAddress = nobody
  Deployer = admin
  FirstSigner = s1
  UstTxs = {b1, b2}
  Amounts = {1, 2}
  MIN_DEPOSIT = 1
  MAX_DEPOSIT = 2
  TIMELOCK_DELAY = 1
  Heirs = {s1, s2}
  MaxTime = 2
  MaxSigners = 3
  MaxDeposits = 2
INVARIANTS
  SupplyIsHeld
  SupplyIsBacked
  SpendingApproved
  SignersListed
  OneReleasePerBurn
PROPERTY
  OwnerAnnounced
