SPECIFICATION SearcherSpec
CONSTANTS
  Hashes <- MCHashes
  Targets = {2, 5}
  BASE = 2
  batch_size = 3
  Workers = 2
  Starts = {0, 2}
  INT64_MAX = 99
  WORK_BLOCK_MAX_AGE = 1
  MaxHeight = 2
  MaxTried = 9
INVARIANTS
  ReturnsProofs
  NothingPassedOver
CHECK_DEADLOCK FALSE
