SPECIFICATION Spec
CHECK_DEADLOCK FALSE
CONSTANTS
  a1 = a1
  Accounts = {a1}
  SCALE = 3
  UINT128_MAX = 11
  MIN_LOCK_PERIOD = 1
  MAX_LOCK_PERIOD = 3
  WITHDRAW_DELAY = 1
  LockAmounts = {1, 3}
  IncomeAmounts = {6}
  GiftAmounts = {3}
  Periods = {1, 3}
  TimeSteps = {0, 1}
  GenesisHeight = 5
  GenesisTime = 1
  InitialWild = 11
  MaxHeight = 9
  MaxTime = 6
INVARIANTS
  ClaimsGoThrough
  ExitOpen
  VeBetweenDecayAndLock
  Solvency
  WaitingEarnsNothing
PROPERTIES
  QuotesHonoured
