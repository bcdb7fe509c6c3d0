---------------------------- MODULE VeWildPromises ----------------------------
(***************************************************************************)
(* Theorems about what the contract promises to a depositor, for every     *)
(* value of the constants: within a block the quotes are binding, and the  *)
(* contract implements the abstract escrow.  And one about a promise it    *)
(* does not keep: which withdrawals that are due it refuses.               *)
(***************************************************************************)
EXTENDS VeWildExit

-----------------------------------------------------------------------------
(* Quotes.                                                                 *)

(* A second accrual in one block does nothing.                             *)
LEMMA AccruedAlready ==
  ASSUME NEW ts \in TokenState, NEW block \in Nat, ts.last_accrue_block = block
  PROVE  PendingRewardPerToken(ts, block) = 0
<1>1. RewardRate(ts, block) * BlocksSinceAccrue(ts, block) = 0
  <2>1. RewardRate(ts, block) \in Nat
    BY RewardRateType, UintNat
  <2>2. BlocksSinceAccrue(ts, block) = 0
    BY DEF BlocksSinceAccrue
  <2> QED
    BY <2>1, <2>2
<1>2. CASE ts.total_supply = 0
  BY <1>2 DEF PendingRewardPerToken
<1>3. CASE ts.total_supply # 0
  <2>1. ts.total_supply \in Nat \ {0}
    BY <1>3, UintNat DEF TokenState
  <2>2. 0 \div ts.total_supply = 0
    BY <2>1, MultipleDiv
  <2> QED
    BY <1>1, <1>3, <2>2, ScaleAssumption DEF PendingRewardPerToken
<1> QED
  BY <1>2, <1>3

(* After a step that accrues, the quotes are what is stored.               *)
LEMMA QuotesStored ==
  ASSUME TypeOK', height' = height, token_state'.last_accrue_block = height,
         NEW b \in Accounts
  PROVE  PendingAccountReward(b)' = Accruals'[b]
<1>1. /\ token_state' \in TokenState /\ height' \in Nat
      /\ token_state'.reward_per_token \in Nat
  BY UintNat DEF TypeOK, TokenState
<1>2. PendingRewardPerToken(token_state', height') = 0
  BY <1>1, AccruedAlready
<1>3. QuotedRewardPerToken' = token_state'.reward_per_token
  BY <1>1, <1>2 DEF QuotedRewardPerToken
<1> QED
  BY <1>3 DEF PendingAccountReward, Accruals

(* What a handler moves for its account is what was quoted and what the    *)
(* lock has grown or shrunk by.                                            *)
LEMMA WildStep ==
  ASSUME TypeOK, NEW a \in Accounts, NEW v, NEW d, AccountStep(a, v, d)
  PROVE  /\ wild'[a] = wild[a] + AccruedNow[a] - d
         /\ wild[a] \in Int /\ AccruedNow[a] \in Int /\ d \in Int
<1>1. PICK paid \in Nat, taken \in Nat :
        /\ Transfers(a, paid, taken)
        /\ taken - paid = d - ClaimReward(View(a), height)
  BY DEF AccountStep
<1>2. ClaimReward(View(a), height) = AccruedNow[a]
  BY DEF ClaimReward, View, AccruedNow
<1>3. ClaimReward(View(a), height) \in Nat /\ d \in Int
  <2>1. View(a).token = token_state /\ View(a).user = user_state[a]
    BY DEF View
  <2> QED
    BY <2>1, ViewType, ClaimRewardType DEF TypeOK, AccountStep
<1>4. wild[a] \in Nat /\ wild'[a] = wild[a] + paid - taken
  BY <1>1 DEF Transfers, TypeOK
<1> HIDE DEF Transfers
<1> QED
  BY <1>1, <1>2, <1>3, <1>4

(* A handler's own account: paid out to the last unit.                     *)
LEMMA OwnQuote ==
  ASSUME IInv, NEW a \in Accounts, NEW v, NEW d, AccountStep(a, v, d)
  PROVE  Wealth(a)' = Wealth(a)
<1>1. TypeOK /\ TypeOK'
  BY AccountStepType DEF IInv
<1>2. height' = height /\ token_state'.last_accrue_block = height
  BY <1>1, TokenAfterStep
<1>3. PendingAccountReward(a)' = 0
  BY <1>1, <1>2, QuotesStored, AccrualsStep
<1>4. PendingAccountReward(a) = AccruedNow[a]
  BY <1>1, QuoteIsAccrual
<1>5. /\ wild'[a] = wild[a] + AccruedNow[a] - d
      /\ wild[a] \in Int /\ AccruedNow[a] \in Int /\ d \in Int
  BY <1>1, WildStep
<1>6. /\ user_state'[a].locked_balance = user_state[a].locked_balance + d
      /\ user_state[a].locked_balance \in Int
  BY <1>1, UintNat DEF AccountStep, StepView, Commit, TypeOK, UserState
<1> HIDE DEF AccruedNow, PendingAccountReward
<1> QED
  BY <1>3, <1>4, <1>5, <1>6 DEF Wealth

(* The others' accounts, whose state the handler does not touch.           *)
LEMMA OtherQuotes ==
  ASSUME IInv, NEW a \in Accounts, NEW v, NEW d, AccountStep(a, v, d),
         NEW b \in Accounts, user_state'[b] = user_state[b]
  PROVE  PendingAccountReward(b)' = PendingAccountReward(b)
<1>1. TypeOK /\ TypeOK'
  BY AccountStepType DEF IInv
<1>2. /\ height' = height /\ token_state'.last_accrue_block = height
      /\ token_state'.reward_per_token
           = Accrue(token_state, height).reward_per_token
  BY <1>1, TokenAfterStep
<1>3. PendingAccountReward(b)' = Accruals'[b]
  BY <1>1, <1>2, QuotesStored
<1>4. Accruals'[b] = AccruedNow[b]
  BY <1>2 DEF Accruals, AccruedNow
<1> QED
  BY <1>1, <1>3, <1>4, QuoteIsAccrual

(* Income and a new period accrue first, so that re-basing the rate leaves *)
(* the quotes of this block alone.                                         *)
LEMMA RebasedQuotes ==
  ASSUME IInv, TypeOK', NEW income, NEW period, RebaseStep(income, period),
         NEW b \in Accounts
  PROVE  /\ PendingAccountReward(b)' = PendingAccountReward(b)
         /\ user_state'[b] = user_state[b]
<1> DEFINE ts == Accrue(token_state, height)
<1>1. /\ TypeOK /\ token_state \in TokenState /\ height \in Nat
      /\ token_state' = UpdateRewardRate(ts, income, period, height)
      /\ height' = height /\ user_state' = user_state
  BY DEF RebaseStep, CommitToken, chain, IInv, TypeOK
<1>2. ts \in TokenState /\ ts.last_accrue_block = height
  BY <1>1, AccrueType DEF RebaseStep, Accrue, TokenState
<1> HIDE DEF ts
<1>3. /\ token_state'.reward_per_token = ts.reward_per_token
      /\ token_state'.last_accrue_block = height
  BY <1>1, <1>2 DEF UpdateRewardRate, TokenState
<1>4. PendingAccountReward(b)' = Accruals'[b]
  BY <1>1, <1>3, QuotesStored
<1>5. Accruals'[b] = AccruedNow[b]
  BY <1>1, <1>3 DEF Accruals, AccruedNow, ts
<1> QED
  BY <1>1, <1>4, <1>5, QuoteIsAccrual

LEMMA QuotesStep ==
  ASSUME IInv, [Next]_vars, height' = height, NEW b \in Accounts
  PROVE  IF user_state'[b] = user_state[b]
         THEN PendingAccountReward(b)' = PendingAccountReward(b)
         ELSE Wealth(b)' = Wealth(b)
<1>1. TypeOK /\ TypeOK'
  BY NextType DEF IInv
<1>2. ASSUME NEW a \in Accounts, NEW v \in Views, NEW d \in Int,
             AccountStep(a, v, d)
      PROVE  IF user_state'[b] = user_state[b]
             THEN PendingAccountReward(b)' = PendingAccountReward(b)
             ELSE Wealth(b)' = Wealth(b)
  <2>1. CASE user_state'[b] = user_state[b]
    BY <1>2, <2>1, OtherQuotes
  <2>2. CASE user_state'[b] # user_state[b]
    <3>1. b = a
      BY <1>1, <1>2, <2>2, TokenAfterStep
    <3> QED
      BY <1>2, <2>2, <3>1, OwnQuote
  <2> QED
    BY <2>1, <2>2
<1>3. ASSUME NEW income, NEW period, RebaseStep(income, period)
      PROVE  /\ PendingAccountReward(b)' = PendingAccountReward(b)
             /\ user_state'[b] = user_state[b]
  BY <1>1, <1>3, RebasedQuotes
<1>4. ASSUME NEW a \in Accounts, NEW amount \in IncomeAmounts, AddIncome(a, amount)
      PROVE  /\ PendingAccountReward(b)' = PendingAccountReward(b)
             /\ user_state'[b] = user_state[b]
  BY <1>1, <1>3, <1>4, AddIncomeRebases DEF IInv
<1>5. ASSUME NEW blocks \in Periods, ExecuteSetDistributionPeriod(blocks)
      PROVE  /\ PendingAccountReward(b)' = PendingAccountReward(b)
             /\ user_state'[b] = user_state[b]
  BY <1>1, <1>3, <1>5, SetPeriodRebases
<1>6. CASE UNCHANGED contract
  BY <1>6 DEF contract, PendingAccountReward, QuotedRewardPerToken
<1>7. ASSUME NEW seconds \in TimeSteps, NextBlock(seconds)
      PROVE  FALSE
  BY <1>1, <1>7 DEF NextBlock, TypeOK
<1>8. ASSUME NEW a \in Accounts, NEW amount \in GiftAmounts, TopUp(a, amount)
      PROVE  UNCHANGED contract
  BY <1>8 DEF TopUp
<1>9. CASE UNCHANGED vars
  BY <1>6, <1>9 DEF vars
<1> QED
  BY <1>1, <1>2, <1>4, <1>5, <1>6, <1>7, <1>8, <1>9, NextCases

(* Within one block every quote is kept or paid out, whatever transactions *)
(* come in which order.                                                    *)
THEOREM QuotesAreBinding == Spec => QuotesHonoured
<1>1. IInv /\ [Next]_vars =>
        (height' = height =>
           \A a \in Accounts :
             IF user_state'[a] = user_state[a]
             THEN PendingAccountReward(a)' = PendingAccountReward(a)
             ELSE Wealth(a)' = Wealth(a))
  BY QuotesStep
<1> QED
  BY <1>1, Invariant, PTL DEF Spec, QuotesHonoured

-----------------------------------------------------------------------------
(* Withdrawals that are refused.                                           *)

(* An accepted withdrawal finds its snapshot and its balance fresh.        *)
LEMMA WithdrawFresh ==
  ASSUME LInv, NEW a \in Accounts, WithdrawAccepted(a)
  PROVE  LET u == user_state[a]
         IN  /\ u.reward_snapshot
                  = Accrue(token_state, height).reward_per_token
             /\ u.balance = VeBalance(u.locked_balance, u.locked_until, time)
<1> DEFINE c == Claim(View(a), height, time)
           ts == Accrue(token_state, height)
           r == Released(a)
           u == user_state[a]
<1>1. /\ ClaimOk(View(a), height, time)
      /\ r.user.reward_snapshot = r.token.reward_per_token
  BY DEF WithdrawAccepted, SetBalanceOk
<1>2. TypeOK /\ height \in Nat /\ time \in Nat
  BY DEF LInv, IInv, TypeOK
<1>3. /\ View(a) \in Views /\ View(a).token = token_state
      /\ u \in UserState
  BY <1>2, ViewType DEF View, TypeOK
<1>4. c \in Views /\ ts \in TokenState /\ c.token = WithSupply(ts, c.supply)
  BY <1>1, <1>2, <1>3, ClaimEffect
<1>5. r = [c EXCEPT !.user = [u EXCEPT !.withdraw_at    = 0,
                                       !.locked_balance = 0],
                    !.token.total_locked = @ - u.locked_balance]
  BY DEF Released
<1>6. u.balance = VeBalance(u.locked_balance, u.locked_until, time)
  BY WithdrawRefreshes
<1> HIDE DEF c, ts, r, u
<1>7. c.token.reward_per_token = ts.reward_per_token
  BY <1>4 DEF WithSupply, TokenState
<1>8. /\ r.user = [u EXCEPT !.withdraw_at = 0, !.locked_balance = 0]
      /\ r.token = [c.token EXCEPT !.total_locked = @ - u.locked_balance]
  BY <1>4, <1>5 DEF Views
<1>9. /\ r.user.reward_snapshot = u.reward_snapshot
      /\ r.token.reward_per_token = c.token.reward_per_token
  BY <1>3, <1>4, <1>8 DEF Views, UserState, TokenState
<1>10. u.reward_snapshot = ts.reward_per_token
  BY <1>1, <1>7, <1>9
<1> QED
  BY <1>6, <1>10 DEF u, ts

(***************************************************************************)
(* How far the defect goes that DueWithdrawalAccepted shows on one         *)
(* instance: a withdrawal, due or not, is refused whenever the accumulator *)
(* has moved since the account's snapshot, by anybody's accrual, and       *)
(* whenever the account's recorded veWILD is not what the lock is worth at *)
(* this second.  The claim in the handler settles both, and its record is  *)
(* overwritten (execute_withdraw, set_balance).  This is no promise:       *)
(* source.sol:138-146 settles and pays such a withdrawal.                  *)
(***************************************************************************)
THEOREM StaleWithdrawalsRefused ==
  Spec => [](\A a \in Accounts :
               LET u == user_state[a]
               IN  \/ u.reward_snapshot
                        # Accrue(token_state, height).reward_per_token
                   \/ u.balance
                        # VeBalance(u.locked_balance, u.locked_until, time)
                   => ~ WithdrawAccepted(a))
<1>1. ASSUME LInv, NEW a \in Accounts, WithdrawAccepted(a)
      PROVE  LET u == user_state[a]
             IN  /\ u.reward_snapshot
                      = Accrue(token_state, height).reward_per_token
                 /\ u.balance
                      = VeBalance(u.locked_balance, u.locked_until, time)
  BY <1>1, WithdrawFresh
<1>2. LInv => \A a \in Accounts :
                LET u == user_state[a]
                IN  \/ u.reward_snapshot
                         # Accrue(token_state, height).reward_per_token
                    \/ u.balance
                         # VeBalance(u.locked_balance, u.locked_until, time)
                    => ~ WithdrawAccepted(a)
  BY <1>1
<1> QED
  BY <1>2, LockInvariant, PTL

-----------------------------------------------------------------------------
(* The escrow.                                                             *)

LEMMA InitEscrow == Init => E!Init
<1> SUFFICES ASSUME Init
             PROVE  E!Init
  OBVIOUS
<1>1. user_state = [a \in Accounts |-> DefaultUserState] /\ reserve = 0
  BY DEF Init
<1>2. Locked = [a \in Accounts |-> 0]
  BY <1>1 DEF Locked, DefaultUserState
<1>3. token_state \in TokenState
  BY InitType DEF TypeOK
<1>4. ASSUME NEW a \in Accounts
      PROVE  Accruals[a] = 0
  <2>1. user_state[a].balance = 0 /\ user_state[a].reward_snapshot = 0
    BY <1>1 DEF DefaultUserState
  <2>2. token_state.reward_per_token \in Nat
    BY <1>3, UintNat DEF TokenState
  <2>3. 0 \div SCALE = 0
    BY ScaleAssumption, MultipleDiv
  <2> QED
    BY <2>1, <2>2, <2>3 DEF Accruals, PendingReward
<1>5. Accruals = [a \in Accounts |-> 0]
  BY <1>4 DEF Accruals
<1>6. Requested = {}
  BY <1>1 DEF Requested, DefaultUserState
<1> QED
  BY <1>1, <1>2, <1>5, <1>6 DEF E!Init

(* The escrow sums with operators of its own instance.                     *)
LEMMA EscrowSum ==
  ASSUME NEW f, NEW S
  PROVE  E!SumFunctionOnSet(f, S) = SumFunctionOnSet(f, S)
BY Zenon DEF E!SumFunctionOnSet, E!FoldFunctionOnSet, E!MapThenFoldSet,
             SumFunctionOnSet, FoldFunctionOnSet, MapThenFoldSet

(* The locks and the accruals are covered, whatever has not vested.        *)
LEMMA EscrowCovered == IInv => E!Covered
<1> SUFFICES ASSUME IInv
             PROVE  E!Covered
  OBVIOUS
<1>1. token_state \in TokenState /\ reserve \in Nat
  BY DEF IInv, TypeOK
<1>2. Unvested \in Nat /\ token_state.total_locked \in Nat
  BY <1>1, UintNat, UnvestedIncomeType DEF Unvested, TokenState
<1>3. Total(Accruals) \in Nat
  BY AccrueCovered DEF IInv
<1> HIDE DEF Unvested
<1>4. reserve >= token_state.total_locked + Total(Accruals)
  BY <1>1, <1>2, <1>3 DEF IInv, Solvency
<1> QED
  BY <1>4, EscrowSum DEF E!Covered, IInv, LocksAddUp, Total

(* Accrual adds to what each account has earned.                           *)
LEMMA AccrualsGrow ==
  ASSUME TypeOK, AccrualInOrder
  PROVE  \A a \in Accounts : AccruedNow[a] >= Accruals[a]
<1>1. PICK k \in Nat :
        \A a \in Accounts :
          /\ Accruals[a] \in Nat
          /\ AccruedNow[a] = Accruals[a] + k * Balances[a]
  BY AccrueUnits
<1>2. ASSUME NEW a \in Accounts
      PROVE  k * Balances[a] \in Nat
  <2>1. Balances[a] \in Nat
    BY UintNat DEF Balances, TypeOK, UserState
  <2> QED
    BY <2>1, MulNat
<1> QED
  BY <1>1, <1>2

(* What a handler does to its account, as the escrow sees it: the account  *)
(* is paid what has accrued up to this block, which is at least what had   *)
(* accrued by the stored accumulator.                                      *)
LEMMA EscrowSettles ==
  ASSUME LInv, NEW a \in Accounts, NEW v, NEW d, AccountStep(a, v, d)
  PROVE  /\ AccruedNow[a] \in 0 .. reserve
         /\ E!Settle(a, AccruedNow[a])
         /\ Locked' = [Locked EXCEPT ![a] = @ + d]
         /\ reserve' = reserve - AccruedNow[a] + d
         /\ d \in Int
<1>1. IInv /\ TypeOK /\ AccrualInOrder
  BY DEF LInv, IInv
<1>2. \A b \in Accounts : AccruedNow[b] >= Accruals[b]
  BY <1>1, AccrualsGrow
<1>3. E!Settle(a, AccruedNow[a])
  BY <1>1, <1>2, AccrualsStep DEF E!Settle
<1>4. AccruedNow[a] \in 0 .. reserve
  <2>1. ClaimReward(View(a), height) = AccruedNow[a]
    BY DEF ClaimReward, View, AccruedNow
  <2>2. reserve \in Nat
    BY <1>1 DEF TypeOK
  <2> QED
    BY <2>1, <2>2, PayoutCovered
<1>5. Locked' = [Locked EXCEPT ![a] = @ + d]
  BY <1>1 DEF Locked, AccountStep, StepView, Commit, TypeOK
<1>6. reserve' = reserve + d - AccruedNow[a]
  BY <1>1, ReserveStep
<1>7. d \in Int /\ reserve \in Nat
  BY <1>1 DEF AccountStep, TypeOK
<1> QED
  BY <1>3, <1>4, <1>5, <1>6, <1>7

LEMMA RequestedAfter ==
  ASSUME TypeOK, NEW a \in Accounts, NEW v, Commit(a, v)
  PROVE  Requested' = IF v.user.withdraw_at # 0
                      THEN Requested \union {a} ELSE Requested \ {a}
BY DEF Requested, Commit, TypeOK

LEMMA LockedUnchanged ==
  ASSUME TypeOK, NEW a \in Accounts, Locked' = [Locked EXCEPT ![a] = @ + 0]
  PROVE  UNCHANGED Locked
<1>1. Locked \in [Accounts -> Nat]
  BY UintNat DEF Locked, TypeOK, UserState
<1>2. [Locked EXCEPT ![a] = @ + 0] = Locked
  BY <1>1
<1> QED
  BY <1>2

LEMMA LockDeposits ==
  ASSUME LInv, NEW a \in Accounts,
         NEW amount \in LockAmounts, NEW until \in Untils,
         Lock(a, amount, until)
  PROVE  E!Deposit(a, amount, AccruedNow[a])
<1>1. TypeOK
  BY DEF LInv, IInv
<1>2. AccountStep(a, LockView(a, amount, until), amount)
  BY <1>1, LockStep
<1>3. LockView(a, amount, until).user.withdraw_at = user_state[a].withdraw_at
  BY LockRefreshes
<1>4. UNCHANGED Requested
  BY <1>1, <1>3, RequestedAfter DEF Lock, Requested
<1> QED
  BY <1>2, <1>4, EscrowSettles DEF E!Deposit

LEMMA ClaimHarvests ==
  ASSUME LInv, NEW a \in Accounts, ExecuteClaim(a)
  PROVE  E!Harvest(a, AccruedNow[a])
<1> DEFINE v == Claim(View(a), height, time)
<1>1. TypeOK
  BY DEF LInv, IInv
<1>2. AccountStep(a, v, 0)
  BY <1>1, ExecuteClaimStep
<1>3. v.user.withdraw_at = user_state[a].withdraw_at
  BY ClaimRefreshes DEF ExecuteClaim, ExecuteClaimAccepted
<1>4. Commit(a, v)
  BY DEF ExecuteClaim
<1> HIDE DEF v
<1>5. UNCHANGED Requested
  BY <1>1, <1>3, <1>4, RequestedAfter DEF Requested
<1>6. Locked' = [Locked EXCEPT ![a] = @ + 0]
  BY <1>2, EscrowSettles
<1>7. UNCHANGED Locked
  BY <1>1, <1>6, LockedUnchanged
<1>8. reserve' = reserve - AccruedNow[a] + 0 /\ AccruedNow[a] \in 0 .. reserve
  BY <1>2, EscrowSettles
<1>9. reserve \in Nat
  BY <1>1 DEF TypeOK
<1>10. reserve' = reserve - AccruedNow[a]
  BY <1>8, <1>9
<1> QED
  BY <1>2, <1>5, <1>7, <1>10, EscrowSettles DEF E!Harvest

LEMMA RequestRequests ==
  ASSUME LInv, NEW a \in Accounts, RequestWithdraw(a)
  PROVE  E!Request(a, AccruedNow[a])
<1> DEFINE v == RequestView(a)
<1>1. TypeOK
  BY DEF LInv, IInv
<1>2. AccountStep(a, v, 0)
  BY <1>1, RequestWithdrawStep
<1>3. v.user.withdraw_at # 0
  <2>1. v.user.withdraw_at = time + WITHDRAW_DELAY
    <3>1. Claim(View(a), height, time) \in Views
      BY ClaimRefreshes DEF RequestWithdraw, RequestWithdrawAccepted
    <3> QED
      BY <3>1 DEF RequestView, Views, UserState
  <2> QED
    BY <1>1, <2>1, PeriodAssumption DEF TypeOK
<1>4. Commit(a, v)
  BY DEF RequestWithdraw, RequestView
<1> HIDE DEF v
<1>5. Requested' = Requested \union {a}
  BY <1>1, <1>3, <1>4, RequestedAfter
<1>6. Locked' = [Locked EXCEPT ![a] = @ + 0]
  BY <1>2, EscrowSettles
<1>7. UNCHANGED Locked
  BY <1>1, <1>6, LockedUnchanged
<1>8. reserve' = reserve - AccruedNow[a] + 0 /\ AccruedNow[a] \in 0 .. reserve
  BY <1>2, EscrowSettles
<1>9. reserve \in Nat
  BY <1>1 DEF TypeOK
<1>10. reserve' = reserve - AccruedNow[a]
  BY <1>8, <1>9
<1>11. Locked[a] > 0
  BY <1>1, UintNat
     DEF RequestWithdraw, RequestWithdrawAccepted, Locked, TypeOK, UserState
<1> QED
  BY <1>2, <1>5, <1>7, <1>10, <1>11, EscrowSettles DEF E!Request

LEMMA WithdrawReleases ==
  ASSUME LInv, NEW a \in Accounts, Withdraw(a)
  PROVE  E!Release(a, AccruedNow[a])
<1> DEFINE v == WithdrawView(a)
           locked == user_state[a].locked_balance
<1>1. TypeOK
  BY DEF LInv, IInv
<1>2. AccountStep(a, v, -locked)
  BY <1>1, WithdrawStep
<1>3. locked \in Nat
  BY <1>1, UintNat DEF TypeOK, UserState
<1>4. v.user.withdraw_at = 0
  BY WithdrawRefreshes DEF Withdraw
<1>5. Commit(a, v)
  BY DEF Withdraw
<1>6. a \in Requested
  BY DEF Withdraw, WithdrawAccepted, Requested
<1>7. Locked[a] = locked
  BY DEF Locked
<1> HIDE DEF v, locked
<1>8. Requested' = Requested \ {a}
  BY <1>1, <1>4, <1>5, RequestedAfter
<1>9. /\ AccruedNow[a] \in 0 .. reserve
      /\ E!Settle(a, AccruedNow[a])
      /\ Locked' = [Locked EXCEPT ![a] = @ + (-locked)]
      /\ reserve' = reserve - AccruedNow[a] + (-locked)
  BY <1>2, EscrowSettles
<1>10. Locked' = [Locked EXCEPT ![a] = 0]
  <2>1. Locked[a] + (-locked) = 0
    BY <1>3, <1>7
  <2> QED
    BY <1>9, <2>1
<1>11. reserve' = reserve - AccruedNow[a] - Locked[a]
  <2>1. reserve \in Nat
    BY <1>1 DEF TypeOK
  <2> QED
    BY <1>3, <1>7, <1>9, <2>1
<1> QED
  BY <1>6, <1>8, <1>9, <1>10, <1>11 DEF E!Release

LEMMA RebaseFunds ==
  ASSUME IInv, TypeOK', NEW income, NEW period, RebaseStep(income, period)
  PROVE  E!Fund
<1>1. TypeOK /\ AccrualInOrder
  BY DEF IInv
<1>2. /\ user_state' = user_state
      /\ token_state'.reward_per_token
           = Accrue(token_state, height).reward_per_token
  BY DEF RebaseStep, CommitToken, UpdateRewardRate, Accrue, IInv, TypeOK, TokenState
<1>3. \A a \in Accounts : Accruals'[a] = AccruedNow[a]
  BY <1>2 DEF Accruals, AccruedNow
<1>4. \A a \in Accounts : Accruals'[a] >= Accruals[a]
  BY <1>1, <1>3, AccrualsGrow
<1>5. reserve' >= reserve
  BY <1>1, UintNat DEF RebaseStep, TypeOK
<1>6. UNCHANGED <<Locked, Requested>>
  BY <1>2 DEF Locked, Requested
<1> QED
  BY <1>4, <1>5, <1>6 DEF E!Fund

LEMMA TopUpFunds ==
  ASSUME IInv, NEW a \in Accounts, NEW amount \in GiftAmounts, TopUp(a, amount)
  PROVE  E!Fund
<1>1. TypeOK /\ AccrualInOrder /\ amount \in Nat
  BY InputsAssumption, UintNat DEF IInv
<1>2. UNCHANGED <<Locked, Requested, Accruals>>
  BY DEF TopUp, contract, Locked, Requested, Accruals
<1>3. reserve' >= reserve
  BY <1>1 DEF TopUp, Transfers, TypeOK
<1>4. \A b \in Accounts : Accruals[b] >= Accruals[b]
  <2>1. \A b \in Accounts : Accruals[b] \in Nat
    BY <1>1, AccrueUnits
  <2> QED
    BY <2>1
<1> QED
  BY <1>2, <1>3, <1>4 DEF E!Fund

LEMMA IdleStutters ==
  ASSUME UNCHANGED <<contract, funds>>
  PROVE  UNCHANGED E!vars
BY DEF contract, funds, E!vars, Locked, Accruals, Requested

LEMMA NextEscrow ==
  ASSUME LInv, IInv', E!Covered', [Next]_vars
  PROVE  [E!Next]_(E!vars)
<1>1. IInv /\ TypeOK /\ TypeOK' /\ AccrualInOrder
  BY DEF LInv, IInv
<1>2. ASSUME NEW a \in Accounts, NEW v, NEW d, AccountStep(a, v, d)
      PROVE  AccruedNow[a] \in 0 .. reserve
  BY <1>2, EscrowSettles
<1>3. ASSUME NEW a \in Accounts, NEW amount \in LockAmounts,
             NEW until \in Untils, Lock(a, amount, until)
      PROVE  E!Next
  <2>1. AccruedNow[a] \in 0 .. reserve
    BY <1>1, <1>2, <1>3, LockStep
  <2>2. E!Deposit(a, amount, AccruedNow[a])
    BY <1>3, LockDeposits
  <2> QED
    BY <2>1, <2>2 DEF E!Next
<1>4. ASSUME NEW a \in Accounts, RequestWithdraw(a)
      PROVE  E!Next
  <2>1. AccruedNow[a] \in 0 .. reserve
    BY <1>1, <1>2, <1>4, RequestWithdrawStep
  <2>2. E!Request(a, AccruedNow[a])
    BY <1>4, RequestRequests
  <2> QED
    BY <2>1, <2>2 DEF E!Next
<1>5. ASSUME NEW a \in Accounts, Withdraw(a)
      PROVE  E!Next
  <2>1. AccruedNow[a] \in 0 .. reserve
    BY <1>1, <1>2, <1>5, WithdrawStep
  <2>2. E!Release(a, AccruedNow[a])
    BY <1>5, WithdrawReleases
  <2> QED
    BY <2>1, <2>2 DEF E!Next
<1>6. ASSUME NEW a \in Accounts, ExecuteClaim(a)
      PROVE  E!Next
  <2>1. AccruedNow[a] \in 0 .. reserve
    BY <1>1, <1>2, <1>6, ExecuteClaimStep
  <2>2. E!Harvest(a, AccruedNow[a])
    BY <1>6, ClaimHarvests
  <2> QED
    BY <2>1, <2>2 DEF E!Next
<1>7. ASSUME NEW a \in Accounts, NEW amount \in IncomeAmounts,
             AddIncome(a, amount)
      PROVE  E!Next
  BY <1>1, <1>7, AddIncomeRebases, RebaseFunds DEF E!Next
<1>8. ASSUME NEW blocks \in Periods, ExecuteSetDistributionPeriod(blocks)
      PROVE  E!Next
  BY <1>1, <1>8, SetPeriodRebases, RebaseFunds DEF E!Next
<1>9. ASSUME NEW a \in Accounts, NEW amount \in GiftAmounts, TopUp(a, amount)
      PROVE  E!Next
  BY <1>1, <1>9, TopUpFunds DEF E!Next
<1>10. ASSUME NEW seconds \in TimeSteps, NextBlock(seconds)
       PROVE  UNCHANGED E!vars
  BY <1>10, IdleStutters DEF NextBlock
<1>11. CASE UNCHANGED vars
  BY <1>11, IdleStutters DEF vars
<1> QED
  BY <1>3, <1>4, <1>5, <1>6, <1>7, <1>8, <1>9, <1>10, <1>11 DEF Next

(* The contract implements the escrow: deposits leave whole, to their      *)
(* owner and after a request, what is owed never shrinks but by being      *)
(* paid, and the WILD in the contract covers both.                         *)
THEOREM ImplementsTheEscrow == Spec => ImplementsEscrow
<1>1. LInv => IInv
  BY DEF LInv
<1>2. LInv /\ IInv' /\ E!Covered' /\ [Next]_vars => [E!Next]_(E!vars)
  BY NextEscrow
<1> QED
  BY <1>1, <1>2, InitEscrow, EscrowCovered, LockInvariant, PTL
     DEF Spec, ImplementsEscrow, E!Spec
=============================================================================
