------------------------------ MODULE VeWildExit ------------------------------
(***************************************************************************)
(* Theorems about what never fails, for every value of the constants: the  *)
(* arithmetic of a claim while the rewards fit, and the way out after the  *)
(* end of a distribution period.                                           *)
(***************************************************************************)
EXTENDS VeWildLocks

-----------------------------------------------------------------------------
(* The product that update_lock computes was computed when the lock was    *)
(* made, and has only become smaller.                                      *)

LocksFit ==
  \A a \in Accounts :
    Fits(user_state[a].locked_balance
           * LockSeconds(user_state[a].locked_until, time))

XInv == LInv /\ LocksFit

LEMMA ProductShrinks ==
  ASSUME NEW locked \in Nat, NEW until \in Nat, NEW now \in Nat,
         NEW later \in Nat, now <= later,
         Fits(locked * LockSeconds(until, now))
  PROVE  Fits(locked * LockSeconds(until, later))
<1> DEFINE s == LockSeconds(until, now)
           t == LockSeconds(until, later)
<1>1. s \in Nat /\ t \in Nat /\ t <= s
  BY DEF LockSeconds
<1>2. locked * s \in Uint128
  BY DEF Fits
<1> HIDE DEF s, t
<1>3. t * locked <= s * locked
  BY <1>1, MulMono
<1>4. /\ locked * s = s * locked /\ locked * t = t * locked
      /\ locked * s \in Nat /\ locked * t \in Nat
  BY <1>1, MulNat
<1>5. locked * t \in Uint128
  BY <1>2, <1>3, <1>4, UintDown
<1> QED
  BY <1>5 DEF Fits, t

(* A step of account a leaves its product in the width.                    *)
LEMMA LockFitsAfter ==
  ASSUME XInv, NEW a \in Accounts,
         NEW amount \in LockAmounts, NEW until \in Untils,
         Lock(a, amount, until)
  PROVE  LET w == LockView(a, amount, until).user
         IN  Fits(w.locked_balance * LockSeconds(w.locked_until, time))
<1>1. LET w == LockView(a, amount, until).user
      IN  /\ Fits(w.locked_balance * LockSeconds(until, time))
          /\ w.locked_until = until
  BY LockRefreshes DEF XInv
<1> QED
  BY <1>1

LEMMA ClaimFitsAfter ==
  ASSUME XInv, NEW a \in Accounts, ClaimOk(View(a), height, time)
  PROVE  LET w == Claim(View(a), height, time).user
         IN  Fits(w.locked_balance * LockSeconds(w.locked_until, time))
<1>1. LET w == Claim(View(a), height, time).user
          u == user_state[a]
      IN  w.locked_balance = u.locked_balance /\ w.locked_until = u.locked_until
  BY ClaimRefreshes DEF XInv
<1> QED
  BY <1>1 DEF XInv, LocksFit

LEMMA RequestFitsAfter ==
  ASSUME XInv, NEW a \in Accounts, RequestWithdraw(a)
  PROVE  LET w == RequestView(a).user
         IN  Fits(w.locked_balance * LockSeconds(w.locked_until, time))
<1> DEFINE c == Claim(View(a), height, time)
<1>1. ClaimOk(View(a), height, time)
  BY DEF RequestWithdraw, RequestWithdrawAccepted
<1>2. c \in Views
  BY <1>1, ClaimRefreshes DEF XInv
<1>3. Fits(c.user.locked_balance * LockSeconds(c.user.locked_until, time))
  BY <1>1, ClaimFitsAfter
<1>4. RequestView(a) = [c EXCEPT !.user.withdraw_at = time + WITHDRAW_DELAY]
  BY DEF RequestView
<1> HIDE DEF c
<1>5. /\ RequestView(a).user.locked_balance = c.user.locked_balance
      /\ RequestView(a).user.locked_until = c.user.locked_until
  BY <1>2, <1>4 DEF Views, UserState
<1> QED
  BY <1>3, <1>5

LEMMA WithdrawFitsAfter ==
  ASSUME XInv, NEW a \in Accounts, Withdraw(a)
  PROVE  LET w == WithdrawView(a).user
         IN  Fits(w.locked_balance * LockSeconds(w.locked_until, time))
<1> DEFINE v == WithdrawView(a)
           n == user_state[a].locked_balance
<1>1. TypeOK /\ n \in Nat /\ time \in Nat
  BY UintNat DEF XInv, LInv, IInv, TypeOK, UserState
<1>2. v \in Views /\ v.user.locked_balance = n + (-n)
  BY <1>1, WithdrawStep DEF AccountStep, StepView
<1> HIDE DEF v, n
<1>3. v.user.locked_balance = 0 /\ v.user.locked_until \in Nat
  BY <1>1, <1>2 DEF Views, UserState
<1>4. LockSeconds(v.user.locked_until, time) \in Nat
  BY <1>1, <1>3, LockSecondsType
<1>5. 0 * LockSeconds(v.user.locked_until, time) = 0
  BY <1>4
<1>6. Fits(v.user.locked_balance * LockSeconds(v.user.locked_until, time))
  BY <1>3, <1>5, UintNat DEF Fits
<1> QED
  BY <1>6 DEF v

(* XInv is inductive.                                                      *)
LEMMA NextFits ==
  ASSUME XInv, [Next]_vars
  PROVE  LocksFit'
<1>1. /\ time \in Nat /\ user_state \in [Accounts -> UserState]
      /\ \A a \in Accounts : /\ user_state[a].locked_balance \in Nat
                             /\ user_state[a].locked_until \in Nat
  BY UintNat DEF XInv, LInv, IInv, TypeOK, UserState
<1>2. ASSUME NEW a \in Accounts, NEW v, Commit(a, v),
             Fits(v.user.locked_balance * LockSeconds(v.user.locked_until, time))
      PROVE  LocksFit'
  <2>1. /\ user_state' = [user_state EXCEPT ![a] = v.user] /\ time' = time
    BY <1>2 DEF Commit, chain
  <2>2. ASSUME NEW b \in Accounts
        PROVE  Fits(user_state'[b].locked_balance
                      * LockSeconds(user_state'[b].locked_until, time))
    BY <1>1, <1>2, <2>1 DEF XInv, LocksFit
  <2> QED
    BY <2>1, <2>2 DEF LocksFit, LockSeconds
<1>3. CASE UNCHANGED user_state /\ time' \in Nat /\ time' >= time
  <2>1. ASSUME NEW b \in Accounts
        PROVE  Fits(user_state[b].locked_balance
                      * LockSeconds(user_state[b].locked_until, time'))
    BY <1>1, <1>3, ProductShrinks DEF XInv, LocksFit
  <2> QED
    BY <1>3, <2>1 DEF LocksFit, LockSeconds
<1>4. ASSUME NEW a \in Accounts, NEW amount \in LockAmounts,
             NEW until \in Untils, Lock(a, amount, until)
      PROVE  LocksFit'
  BY <1>2, <1>4, LockFitsAfter DEF Lock
<1>5. ASSUME NEW a \in Accounts, RequestWithdraw(a)
      PROVE  LocksFit'
  BY <1>2, <1>5, RequestFitsAfter DEF RequestWithdraw, RequestView
<1>6. ASSUME NEW a \in Accounts, Withdraw(a)
      PROVE  LocksFit'
  BY <1>2, <1>6, WithdrawFitsAfter DEF Withdraw
<1>7. ASSUME NEW a \in Accounts, ExecuteClaim(a)
      PROVE  LocksFit'
  BY <1>2, <1>7, ClaimFitsAfter DEF ExecuteClaim, ExecuteClaimAccepted
<1>8. ASSUME NEW a \in Accounts, NEW amount \in IncomeAmounts, AddIncome(a, amount)
      PROVE  LocksFit'
  BY <1>1, <1>3, <1>8 DEF AddIncome, CommitToken, chain
<1>9. ASSUME NEW blocks \in Periods, ExecuteSetDistributionPeriod(blocks)
      PROVE  LocksFit'
  BY <1>1, <1>3, <1>9 DEF ExecuteSetDistributionPeriod, CommitToken, chain
<1>10. ASSUME NEW a \in Accounts, NEW amount \in GiftAmounts, TopUp(a, amount)
       PROVE  LocksFit'
  BY <1>1, <1>3, <1>10 DEF TopUp, chain, contract
<1>11. ASSUME NEW seconds \in TimeSteps, NextBlock(seconds)
       PROVE  LocksFit'
  BY <1>1, <1>3, <1>11, InputsAssumption DEF NextBlock, contract
<1>12. CASE UNCHANGED vars
  BY <1>1, <1>3, <1>12 DEF vars, chain, contract
<1> QED
  BY <1>4, <1>5, <1>6, <1>7, <1>8, <1>9, <1>10, <1>11, <1>12 DEF Next

LEMMA InitFits == Init => LocksFit
<1> SUFFICES ASSUME Init PROVE LocksFit
  OBVIOUS
<1>1. time \in Nat /\ \A a \in Accounts : user_state[a] = DefaultUserState
  BY GenesisAssumption DEF Init
<1>2. LockSeconds(0, time) \in Nat
  BY <1>1, LockSecondsType
<1>3. 0 * LockSeconds(0, time) = 0
  BY <1>2
<1> QED
  BY <1>1, <1>3, UintNat DEF LocksFit, Fits, DefaultUserState

(* XInv holds in every reachable state.                                    *)
THEOREM ExitInvariant == Spec => []XInv
<1>1. Init => XInv
  BY InitLocks, InitFits DEF XInv
<1>2. XInv /\ [Next]_vars => XInv'
  BY NextLocks, NextFits DEF XInv
<1> QED
  BY <1>1, <1>2, PTL DEF Spec

-----------------------------------------------------------------------------
(* A claim never fails.                                                    *)

(* The product that pending_reward computes is the reward in fixed point,  *)
(* without a remainder.                                                    *)
LEMMA RewardProduct ==
  ASSUME LInv, NEW a \in Accounts, RewardsFit
  PROVE  PendingRewardFits(user_state[a], Accrue(token_state, height).reward_per_token)
<1> DEFINE u == user_state[a]
           r == Accrue(token_state, height).reward_per_token
           n == (r - u.reward_snapshot) * u.balance
<1>1. /\ TypeOK /\ AccrualInOrder
      /\ u \in UserState /\ u.balance \in Nat /\ u.reward_snapshot \in Nat
      /\ token_state.reward_per_token \in Nat
      /\ token_state.total_locked \in Nat /\ reserve \in Nat
  BY UintNat DEF LInv, IInv, TypeOK, UserState, TokenState
<1>2. PICK k \in Nat :
        /\ r = token_state.reward_per_token + k * SCALE
        /\ r % SCALE = 0
  BY <1>1, AccrueUnits
<1>3. k * SCALE \in Nat
  BY <1>2, MulNat, ScaleAssumption
<1>4. /\ u.reward_snapshot <= token_state.reward_per_token
      /\ u.reward_snapshot % SCALE = 0
  BY <1>1 DEF AccrualInOrder
<1>5. AccruedNow[a] = PendingReward(u, r)
  BY DEF AccruedNow
<1>6. /\ AccruedNow[a] \in Nat
      /\ AccruedNow[a] <= reserve - token_state.total_locked
  <2>1. /\ AccruedNow \in [Accounts -> Nat] /\ Total(AccruedNow) \in Nat
        /\ reserve >= token_state.total_locked + Total(AccruedNow)
    BY AccruedNowCovered DEF LInv
  <2>2. AccruedNow[a] <= Total(AccruedNow)
    BY <2>1, SumTerm, AccountsAssumption DEF Total
  <2> HIDE DEF AccruedNow, Total
  <2> QED
    BY <1>1, <2>1, <2>2
<1> HIDE DEF u, r
<1>7. r \in Nat /\ u.reward_snapshot <= r
  BY <1>1, <1>2, <1>3, <1>4
<1> DEFINE q == r \div SCALE
           s == u.reward_snapshot \div SCALE
<1>8. /\ q \in Nat /\ s \in Nat
      /\ r = q * SCALE /\ u.reward_snapshot = s * SCALE
  BY <1>1, <1>2, <1>4, <1>7, MultipleOf, ScaleAssumption
<1> HIDE DEF q, s
<1>9. s <= q
  BY <1>7, <1>8, UnitsOrdered
<1>10. PendingReward(u, r) = (q - s) * u.balance
  BY <1>1, <1>8, <1>9, PendingRewardUnits
<1>11. n = ((q - s) * u.balance) * SCALE
  <2>1. q * SCALE - s * SCALE = (q - s) * SCALE
    BY <1>8, ScaleAssumption
  <2>2. ((q - s) * SCALE) * u.balance = ((q - s) * u.balance) * SCALE
    BY <1>1, <1>8, ScaleAssumption
  <2> QED
    BY <1>8, <2>1, <2>2
<1>12. n <= (reserve - token_state.total_locked) * SCALE /\ n \in Nat
  <2>1. n = AccruedNow[a] * SCALE
    BY <1>5, <1>10, <1>11
  <2>2. AccruedNow[a] * SCALE <= (reserve - token_state.total_locked) * SCALE
    BY <1>1, <1>6, MulMono, ScaleAssumption
  <2> QED
    BY <1>6, <2>1, <2>2, MulNat, ScaleAssumption
<1>13. (reserve - token_state.total_locked) * SCALE \in Uint128
  BY DEF RewardsFit, Fits
<1> HIDE DEF n
<1>14. n \in Uint128
  BY <1>12, <1>13, UintDown
<1> QED
  BY <1>7, <1>14 DEF PendingRewardFits, Fits, n, u, r

(* What update_lock burns in a claim is there to be burnt.                 *)
LEMMA RefreshOk ==
  ASSUME XInv, NEW a \in Accounts, AccrueFits(token_state, height)
  PROVE  LET v == Snapshotted(View(a), height)
         IN  UpdateLockOk(v, user_state[a].locked_until, time)
<1> DEFINE u == user_state[a]
           v == Snapshotted(View(a), height)
           n == VeBalance(u.locked_balance, u.locked_until, time)
           x == WithLockedUntil(v, u.locked_until)
<1>1. /\ TypeOK /\ LedgersInSync /\ time \in Nat
      /\ u \in UserState /\ token_state \in TokenState
      /\ ve_balances \in [Accounts -> Uint128] /\ ve_supply \in Uint128
      /\ u.balance \in Uint128 /\ u.locked_until \in Nat
      /\ u.locked_balance \in Nat
  BY UintNat DEF XInv, LInv, IInv, TypeOK, UserState
<1>2. /\ n \in Nat /\ n <= u.balance
  <2>1. n \in Nat
    BY <1>1, VeBalanceType
  <2>2. n <= u.balance
    BY DEF XInv, LInv, VeBetweenDecayAndLock
  <2> QED
    BY <2>1, <2>2
<1>3. Fits(u.locked_balance * LockSeconds(u.locked_until, time))
  BY DEF XInv, LocksFit
<1>4. ve_balances[a] = u.balance /\ u.balance <= ve_supply
  <2>1. Balances[a] = u.balance /\ Balances = ve_balances
    BY <1>1 DEF Balances, LedgersInSync
  <2>2. ve_balances \in [Accounts -> Nat]
    BY <1>1, UintNat
  <2>3. ve_balances[a] <= Total(ve_balances)
    BY <2>2, SumTerm, AccountsAssumption DEF Total
  <2> QED
    BY <1>1, <2>1, <2>3 DEF LedgersInSync
<1> HIDE DEF n, u
<1>5. /\ v.user = [u EXCEPT !.reward_snapshot
                              = Accrue(token_state, height).reward_per_token]
      /\ v.token = Accrue(token_state, height)
      /\ v.supply = ve_supply /\ v.ve = ve_balances[a]
      /\ DOMAIN v = {"token", "user", "supply", "ve"}
  BY DEF Snapshotted, Accrued, View, u
<1> HIDE DEF v
<1>6. /\ x.user = [v.user EXCEPT !.locked_until = u.locked_until]
      /\ x.token = v.token /\ x.supply = v.supply /\ x.ve = v.ve
  BY <1>5 DEF WithLockedUntil
<1>7. /\ x.user.reward_snapshot = x.token.reward_per_token
      /\ x.user.balance = u.balance
      /\ v.user.locked_balance = u.locked_balance
  BY <1>1, <1>5, <1>6 DEF UserState
<1> HIDE DEF x
<1>8. n < u.balance => BurnOk(x, u.balance - n)
  <2>1. /\ ve_supply \in Nat /\ u.balance \in Nat
    BY <1>1, UintNat
  <2>2. /\ ve_supply - (u.balance - n) \in Nat
        /\ ve_supply - (u.balance - n) <= ve_supply
        /\ u.balance - (u.balance - n) \in Nat
        /\ u.balance - (u.balance - n) <= u.balance
    BY <1>2, <1>4, <2>1
  <2>3. /\ ve_supply - (u.balance - n) \in Uint128
        /\ u.balance - (u.balance - n) \in Uint128
    BY <1>1, <2>2, UintDown
  <2> QED
    BY <1>4, <1>5, <1>6, <2>3 DEF BurnOk, Fits
<1>9. ~ (n > u.balance)
  <2>1. u.balance \in Nat
    BY <1>1, UintNat
  <2> QED
    BY <1>2, <2>1
<1>10. SetBalanceOk(x, n)
  BY <1>7, <1>8, <1>9 DEF SetBalanceOk
<1>11. UpdateLockOk(v, u.locked_until, time)
  BY <1>3, <1>7, <1>10 DEF UpdateLockOk, x, n
<1> QED
  BY <1>11 DEF v, u

LEMMA ClaimAlwaysOk ==
  ASSUME XInv, NEW a \in Accounts, AccrueFits(token_state, height), RewardsFit
  PROVE  ClaimOk(View(a), height, time)
<1>1. View(a).token = token_state /\ View(a).user = user_state[a]
  BY DEF View
<1>2. PendingRewardFits(user_state[a], Accrue(token_state, height).reward_per_token)
  BY RewardProduct DEF XInv
<1>3. UpdateLockOk(Snapshotted(View(a), height), user_state[a].locked_until, time)
  BY RefreshOk
<1> QED
  BY <1>1, <1>2, <1>3 DEF ClaimOk

(* While the rewards fit, no claim of any account ever fails.              *)
THEOREM ClaimsNeverFail == Spec => []ClaimsGoThrough
<1>1. XInv => ClaimsGoThrough
  BY ClaimAlwaysOk DEF ClaimsGoThrough
<1> QED
  BY <1>1, ExitInvariant, PTL

-----------------------------------------------------------------------------
(* The way out.                                                            *)

(* After the end of the period an accrual changes nothing but its clock.   *)
LEMMA PeriodOver ==
  ASSUME LInv, RemainingBlocks(token_state, height) = 0
  PROVE  LET ts == Accrue(token_state, height)
         IN  /\ AccrueFits(token_state, height)
             /\ ts.reward_per_token = token_state.reward_per_token
             /\ ts.total_locked = token_state.total_locked
             /\ ts.last_income_block = token_state.last_income_block
             /\ ts.distribution_period = token_state.distribution_period
<1>1. /\ token_state \in TokenState /\ height \in Nat
      /\ token_state.last_income_block \in Nat
      /\ token_state.distribution_period \in Nat
      /\ token_state.last_accrue_block \in Nat
      /\ token_state.last_accrue_block <= height
      /\ token_state.reward_per_token \in Uint128
      /\ token_state.reward_per_token \in Nat
      /\ token_state.total_supply \in Nat
  BY UintNat DEF LInv, IInv, TypeOK, TokenState, AccrualInOrder
<1>2. RewardRate(token_state, height) = 0
  BY <1>1 DEF RemainingBlocks, RewardRate
<1>3. RewardRate(token_state, height) * BlocksSinceAccrue(token_state, height) = 0
  BY <1>1, <1>2 DEF BlocksSinceAccrue
<1>4. PendingRewardPerToken(token_state, height) = 0
  <2>1. CASE token_state.total_supply = 0
    BY <2>1 DEF PendingRewardPerToken
  <2>2. CASE token_state.total_supply # 0
    <3>1. 0 \div token_state.total_supply = 0
      BY <1>1, <2>2, MultipleDiv
    <3> QED
      BY <1>3, <2>2, <3>1, ScaleAssumption DEF PendingRewardPerToken
  <2> QED
    BY <2>1, <2>2
<1>5. AccrueFits(token_state, height)
  BY <1>1, <1>3, <1>4, UintNat DEF AccrueFits, Fits
<1> QED
  BY <1>1, <1>4, <1>5 DEF Accrue, TokenState

(* check_reserves then asks for the locks alone.                           *)
LEMMA LocksCovered ==
  ASSUME LInv, NEW ts \in TokenState,
         ts.last_income_block = token_state.last_income_block,
         ts.distribution_period = token_state.distribution_period,
         RemainingBlocks(token_state, height) = 0,
         ts.total_locked <= reserve
  PROVE  CheckReserves(ts, height, reserve)
<1>1. /\ ts.reward_per_token \in Nat /\ ts.total_locked \in Nat
      /\ ts.total_locked \in Uint128 /\ reserve \in Nat
  BY UintNat DEF LInv, IInv, TypeOK, TokenState
<1>2. RemainingBlocks(ts, height) = 0
  BY DEF RemainingBlocks
<1>3. RequiredReserve(ts, height) = ts.total_locked
  BY <1>1, <1>2 DEF RequiredReserve
<1> QED
  BY <1>1, <1>3 DEF CheckReserves, Fits

(* What an account is to be paid is in the reserve.                        *)
LEMMA PayoutCovered ==
  ASSUME LInv, NEW a \in Accounts
  PROVE  LET reward == ClaimReward(View(a), height)
             locked == user_state[a].locked_balance
         IN  /\ reward \in Nat /\ locked \in Nat
             /\ locked <= token_state.total_locked
             /\ reward + locked <= reserve
             /\ token_state.total_locked \in Nat
             /\ token_state.total_locked <= reserve
<1> DEFINE reward == ClaimReward(View(a), height)
           locked == user_state[a].locked_balance
<1>1. reward = AccruedNow[a]
  BY DEF ClaimReward, View, AccruedNow
<1>2. /\ AccruedNow \in [Accounts -> Nat] /\ Total(AccruedNow) \in Nat
      /\ reserve >= token_state.total_locked + Total(AccruedNow)
  BY AccruedNowCovered DEF LInv
<1>3. AccruedNow[a] <= Total(AccruedNow) /\ AccruedNow[a] \in Nat
  <2> HIDE DEF AccruedNow
  <2> QED
    BY <1>2, SumTerm, AccountsAssumption DEF Total
<1>4. /\ token_state.total_locked \in Nat /\ reserve \in Nat
      /\ Locked \in [Accounts -> Nat] /\ Locked[a] = locked
  BY UintNat DEF LInv, IInv, TypeOK, TokenState, UserState, Locked
<1>5. locked <= token_state.total_locked /\ locked \in Nat
  <2>1. Locked[a] <= Total(Locked)
    <3> HIDE DEF Locked
    <3> QED
      BY <1>4, SumTerm, AccountsAssumption DEF Total
  <2> QED
    BY <1>4, <2>1 DEF LInv, IInv, LocksAddUp
<1> HIDE DEF reward, locked, AccruedNow, Total
<1>6. /\ reward \in Nat /\ reward + locked <= reserve
      /\ token_state.total_locked <= reserve
  BY <1>1, <1>2, <1>3, <1>4, <1>5
<1> QED
  BY <1>4, <1>5, <1>6 DEF reward, locked

LEMMA ClaimAccepted ==
  ASSUME XInv, NEW a \in user_keys,
         RemainingBlocks(token_state, height) = 0, RewardsFit
  PROVE  /\ ExecuteClaimAccepted(a)
         /\ ClaimReward(View(a), height) <= reserve
<1> DEFINE c == Claim(View(a), height, time)
           ts == Accrue(token_state, height)
<1>1. a \in Accounts /\ LInv /\ TypeOK /\ height \in Nat /\ time \in Nat
  BY DEF XInv, LInv, IInv, TypeOK
<1>2. ClaimOk(View(a), height, time)
  BY <1>1, PeriodOver, ClaimAlwaysOk
<1>3. /\ c \in Views /\ c.token = WithSupply(ts, c.supply)
      /\ ts \in TokenState
  <2>1. View(a) \in Views /\ View(a).token = token_state
    BY <1>1, ViewType DEF View
  <2> QED
    BY <1>1, <1>2, <2>1, ClaimEffect
<1>4. /\ ts.total_locked = token_state.total_locked
      /\ ts.last_income_block = token_state.last_income_block
      /\ ts.distribution_period = token_state.distribution_period
  BY <1>1, PeriodOver
<1>5. token_state.total_locked <= reserve
      /\ ClaimReward(View(a), height) <= reserve
  <2>1. reserve \in Nat
    BY <1>1 DEF TypeOK
  <2> QED
    BY <1>1, <2>1, PayoutCovered
<1> HIDE DEF c, ts
<1>6. /\ c.token \in TokenState
      /\ c.token.total_locked = token_state.total_locked
      /\ c.token.last_income_block = token_state.last_income_block
      /\ c.token.distribution_period = token_state.distribution_period
  BY <1>3, <1>4 DEF Views, WithSupply, TokenState
<1>7. CheckReserves(c.token, height, reserve)
  BY <1>1, <1>5, <1>6, LocksCovered
<1> QED
  BY <1>2, <1>5, <1>7 DEF ExecuteClaimAccepted, c

LEMMA SettledWithdrawAccepted ==
  ASSUME XInv, NEW a \in user_keys,
         RemainingBlocks(token_state, height) = 0, RewardsFit,
         user_state[a].withdraw_at \in 1 .. time, Settled(a)
  PROVE  WithdrawAccepted(a)
<1> DEFINE c == Claim(View(a), height, time)
           ts == Accrue(token_state, height)
           r == Released(a)
           w == SetBalance(r, 0)
           u == user_state[a]
           n == u.locked_balance
<1>1. /\ a \in Accounts /\ LInv /\ TypeOK /\ height \in Nat /\ time \in Nat
      /\ u \in UserState /\ u.withdraw_at \in Nat /\ reserve \in Nat
  BY DEF XInv, LInv, IInv, TypeOK, UserState
<1>2. ClaimOk(View(a), height, time)
  BY <1>1, PeriodOver, ClaimAlwaysOk
<1>3. /\ c \in Views /\ c.token = WithSupply(ts, c.supply)
      /\ ts \in TokenState
  <2>1. View(a) \in Views /\ View(a).token = token_state
    BY <1>1, ViewType DEF View
  <2> QED
    BY <1>1, <1>2, <2>1, ClaimEffect
<1>4. /\ ts.reward_per_token = token_state.reward_per_token
      /\ ts.total_locked = token_state.total_locked
      /\ ts.last_income_block = token_state.last_income_block
      /\ ts.distribution_period = token_state.distribution_period
  BY <1>1, PeriodOver
<1>5. /\ n \in Nat /\ n <= token_state.total_locked
      /\ token_state.total_locked \in Nat
      /\ token_state.total_locked <= reserve
  BY <1>1, PayoutCovered
<1>6. u.balance = 0 /\ u.reward_snapshot = token_state.reward_per_token
  BY DEF Settled
<1>7. r = [c EXCEPT !.user = [u EXCEPT !.withdraw_at    = 0,
                                       !.locked_balance = 0],
                    !.token.total_locked = @ - n]
  BY DEF Released
<1> HIDE DEF c, ts, r, n, u
<1>8. /\ c.token.reward_per_token = token_state.reward_per_token
      /\ c.token.total_locked = token_state.total_locked
      /\ c.token.last_income_block = token_state.last_income_block
      /\ c.token.distribution_period = token_state.distribution_period
      /\ c.token \in TokenState
  BY <1>3, <1>4 DEF Views, WithSupply, TokenState
<1>9. /\ r.ve = c.ve /\ r.supply = c.supply
      /\ r.token = [c.token EXCEPT !.total_locked = @ - n]
      /\ r.user = [u EXCEPT !.withdraw_at = 0, !.locked_balance = 0]
      /\ r = [token |-> r.token, user |-> r.user,
              supply |-> r.supply, ve |-> r.ve]
  BY <1>3, <1>7 DEF Views
<1>10. /\ r.token.total_locked = token_state.total_locked - n
       /\ r.token.reward_per_token = token_state.reward_per_token
       /\ r.token.last_income_block = token_state.last_income_block
       /\ r.token.distribution_period = token_state.distribution_period
  BY <1>8, <1>9 DEF TokenState
<1>11. r.token.total_locked \in Uint128 /\ r.token \in TokenState
  <2>1. token_state.total_locked \in Uint128
    BY <1>1 DEF TypeOK, TokenState
  <2>2. token_state.total_locked - n \in Uint128
    BY <1>5, <2>1, UintDown
  <2> QED
    BY <1>8, <1>9, <1>10, <2>2 DEF TokenState
<1>12. /\ r.user \in UserState /\ r.user.balance = 0
       /\ r.user.reward_snapshot = r.token.reward_per_token
  BY <1>1, <1>6, <1>9, <1>10, UintNat DEF UserState
<1>13. r \in Views
  BY <1>3, <1>9, <1>11, <1>12 DEF Views
<1>14. SetBalanceOk(r, 0)
  BY <1>12 DEF SetBalanceOk
<1>15. w \in Views /\ w.token = WithSupply(r.token, w.supply)
  BY <1>13, <1>14, UintNat, SetBalanceEffect
<1> HIDE DEF w
<1>16. /\ w.token \in TokenState
       /\ w.token.total_locked <= reserve
       /\ w.token.last_income_block = token_state.last_income_block
       /\ w.token.distribution_period = token_state.distribution_period
  <2>1. w.token.total_locked = r.token.total_locked
        /\ w.token.last_income_block = r.token.last_income_block
        /\ w.token.distribution_period = r.token.distribution_period
        /\ w.token \in TokenState
    BY <1>11, <1>15 DEF Views, WithSupply, TokenState
  <2> QED
    BY <1>1, <1>5, <1>10, <2>1
<1>17. CheckReserves(w.token, height, reserve)
  BY <1>1, <1>16, LocksCovered
<1>18. Fits(r.token.total_locked)
  BY <1>11 DEF Fits
<1>19. time >= u.withdraw_at /\ u.withdraw_at # 0
  BY <1>1 DEF u
<1>20. WithdrawView(a) = w
  BY DEF WithdrawView, w, r
<1> QED
  BY <1>2, <1>14, <1>17, <1>18, <1>19, <1>20 DEF WithdrawAccepted, r, u

(* After the end of a distribution period nothing is in the way of a claim *)
(* or, after it, of a withdrawal that is due.                              *)
THEOREM WayOut == Spec => []ExitOpen
<1>1. XInv => ExitOpen
  <2> SUFFICES ASSUME XInv, RemainingBlocks(token_state, height) = 0,
                      RewardsFit, NEW a \in user_keys
               PROVE  /\ ExecuteClaimAccepted(a)
                      /\ ClaimReward(View(a), height) <= reserve
                      /\ user_state[a].withdraw_at \in 1 .. time /\ Settled(a) =>
                           /\ WithdrawAccepted(a)
                           /\ ClaimReward(View(a), height)
                                + user_state[a].locked_balance <= reserve
    BY DEF ExitOpen
  <2>1. a \in Accounts /\ LInv
    BY DEF XInv, LInv, IInv, TypeOK
  <2> QED
    BY <2>1, ClaimAccepted, SettledWithdrawAccepted, PayoutCovered
<1> QED
  BY <1>1, ExitInvariant, PTL
=============================================================================
