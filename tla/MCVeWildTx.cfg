SPECIFICATION TxSpec
CONSTANTS
  a1 = a1
  a2 = a2
  Accounts = {a1, a2}
  SCALE = 2
  UINT128_MAX = 1000
  MIN_LOCK_PERIOD = 1
  MAX_LOCK_PERIOD = 2
  WITHDRAW_DELAY = 1
  LockAmounts = {1}
  IncomeAmounts = {2}
  GiftAmounts = {1}
  Allowances = {2}
  Periods = {2}
  TimeSteps = {1}
  GenesisHeight = 1
  GenesisTime = 1
  InitialWild = 2
  MaxHeight = 3
  MaxTime = 3
SYMMETRY AccountsSymmetry
INVARIANTS
  OnlySenderCanFail
  BooksAgree
PROPERTIES
  AtomicTransactions
