SPECIFICATION Spec
CONSTANTS
  a1 = a1
  a2 = a2
  Accounts = {a1, a2}
  SCALE = 2
  UINT128_MAX = 1000
  MIN_LOCK_PERIOD = 1
  MAX_LOCK_PERIOD = 2
  WITHDRAW_DELAY = 1
  LockAmounts = {0, 2}
  IncomeAmounts = {2}
  GiftAmounts = {2}
  Periods = {2}
  TimeSteps = {1}
  GenesisHeight = 1
  GenesisTime = 1
  InitialWild = 4
  MaxHeight = 4
  MaxTime = 4
SYMMETRY AccountsSymmetry
INVARIANT
  AccruesToDecimals
