SPECIFICATION FaucetSpec
CONSTANTS
  IPs = {home}
  Addresses = {a, b}
  FAUCET_COOLDOWN = 2
  FAUCET_IP_LIMIT = 2
  IP_WINDOW = 3
  FAUCET_AMOUNT = 1
  FAUCET_MAX_BALANCE = 1
  Uptime = 1
  MaxTime = 5
  MaxFaults = 1
  MaxRestarts = 1
INVARIANTS CooldownKept IpLimitKept MaxBalanceKept
SYMMETRY Symmetry
CHECK_DEADLOCK FALSE
