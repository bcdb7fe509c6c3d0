------------------------------ MODULE VeWildLocks ------------------------------
(***************************************************************************)
(* Theorems about locks and withdrawals, for every value of the constants: *)
(* veWILD lies between the decayed and the full lock, waiting for a        *)
(* withdrawal earns nothing, and a lock leaves whole, at a request that is *)
(* due and was made when the lock of that time had ended.                  *)
(***************************************************************************)
EXTENDS VeWildInvariants

-----------------------------------------------------------------------------
(* The veWILD of a lock.                                                   *)

LEMMA DivMono ==
  ASSUME NEW m \in Nat, NEW n \in Nat, m <= n, NEW d \in Nat \ {0}
  PROVE  m \div d <= n \div d
<1> DEFINE p == m \div d
           q == n \div d
           r == m % d
           s == n % d
<1>1. /\ p \in Nat /\ r \in 0 .. d - 1 /\ m = p * d + r
      /\ q \in Nat /\ s \in 0 .. d - 1 /\ n = q * d + s
  BY DivMod
<1> HIDE DEF p, q, r, s
<1>2. SUFFICES ASSUME p >= q + 1 PROVE FALSE
  <2>1. p <= q
    BY <1>1, <1>2
  <2> QED
    BY <2>1 DEF p, q
<1>3. (q + 1) * d <= p * d
  BY <1>1, <1>2, MulMono
<1>4. (q + 1) * d = q * d + d /\ q * d \in Nat /\ p * d \in Nat
  BY <1>1
<1> QED
  BY <1>1, <1>3, <1>4

(* A lock whose end has come is worth nothing.                             *)
LEMMA VeBalanceEnded ==
  ASSUME NEW locked \in Nat, NEW until \in Nat, NEW now \in Nat, until <= now
  PROVE  VeBalance(locked, until, now) = 0
<1>1. locked * LockSeconds(until, now) = 0
  BY DEF LockSeconds
<1>2. 0 \div MAX_LOCK_PERIOD = 0
  BY MaxLockAssumption, MultipleDiv
<1> QED
  BY <1>1, <1>2 DEF VeBalance

(* A lock is worth no more than what is locked.                            *)
LEMMA VeBalanceCapped ==
  ASSUME NEW locked \in Nat, NEW until \in Nat, NEW now \in Nat,
         until <= now + MAX_LOCK_PERIOD
  PROVE  VeBalance(locked, until, now) <= locked
<1> DEFINE s == LockSeconds(until, now)
<1>1. s \in Nat /\ s <= MAX_LOCK_PERIOD
  BY MaxLockAssumption DEF LockSeconds
<1> HIDE DEF s
<1>2. s * locked <= MAX_LOCK_PERIOD * locked
  BY <1>1, MulMono, MaxLockAssumption
<1>3. /\ locked * s = s * locked
      /\ MAX_LOCK_PERIOD * locked = locked * MAX_LOCK_PERIOD
  BY <1>1, MaxLockAssumption
<1>4. locked * s \in Nat /\ locked * MAX_LOCK_PERIOD \in Nat
  BY <1>1, MulNat, MaxLockAssumption
<1>5. locked * s <= locked * MAX_LOCK_PERIOD
  BY <1>2, <1>3, <1>4
<1>6. (locked * s) \div MAX_LOCK_PERIOD
        <= (locked * MAX_LOCK_PERIOD) \div MAX_LOCK_PERIOD
  BY <1>4, <1>5, DivMono, MaxLockAssumption
<1>7. (locked * MAX_LOCK_PERIOD) \div MAX_LOCK_PERIOD = locked
  BY MultipleDiv, MaxLockAssumption
<1> QED
  BY <1>6, <1>7 DEF VeBalance, s

(* A lock is worth less and less as time goes on.                          *)
LEMMA VeBalanceDecays ==
  ASSUME NEW locked \in Nat, NEW until \in Nat, NEW now \in Nat,
         NEW later \in Nat, now <= later
  PROVE  VeBalance(locked, until, later) <= VeBalance(locked, until, now)
<1> DEFINE s == LockSeconds(until, now)
           t == LockSeconds(until, later)
<1>1. s \in Nat /\ t \in Nat /\ t <= s
  BY DEF LockSeconds
<1> HIDE DEF s, t
<1>2. t * locked <= s * locked
  BY <1>1, MulMono
<1>3. /\ locked * s = s * locked /\ locked * t = t * locked
      /\ locked * s \in Nat /\ locked * t \in Nat
  BY <1>1, MulNat
<1>4. (locked * t) \div MAX_LOCK_PERIOD <= (locked * s) \div MAX_LOCK_PERIOD
  BY <1>2, <1>3, DivMono, MaxLockAssumption
<1> QED
  BY <1>4 DEF VeBalance, s, t

-----------------------------------------------------------------------------
(* The invariant.  That a lock never ends more than MAX_LOCK_PERIOD from   *)
(* now is needed for the upper bound of VeBetweenDecayAndLock, which       *)
(* WaitingEarnsNothing and the stale record of Withdraw both need.         *)

LocksInReach ==
  \A a \in Accounts : user_state[a].locked_until <= time + MAX_LOCK_PERIOD

LInv == IInv /\ LocksInReach /\ VeBetweenDecayAndLock /\ WaitingEarnsNothing

(* What a handler does to the record of its account, as far as the lock    *)
(* goes: refresh the balance to what the lock is worth now, and lock more  *)
(* (or nothing), request, or release.                                      *)
LockOrClaim(u, w) ==
  w.withdraw_at = u.withdraw_at /\ w.locked_balance >= u.locked_balance

Requests(u, w) ==
  /\ u.locked_balance # 0 /\ time >= u.locked_until
  /\ w.locked_until = u.locked_until /\ w.locked_balance = u.locked_balance
  /\ w.withdraw_at = time + WITHDRAW_DELAY

Releases(u, w) ==
  /\ u.withdraw_at \in 1 .. time
  /\ w.withdraw_at = 0 /\ w.locked_balance = 0

HolderStep(a, v) ==
  LET u == user_state[a]
      w == v.user
  IN  /\ v \in Views
      /\ w.locked_until >= u.locked_until
      /\ w.locked_until <= time + MAX_LOCK_PERIOD
      /\ w.balance = VeBalance(w.locked_balance, w.locked_until, time)
      /\ LockOrClaim(u, w) \/ Requests(u, w) \/ Releases(u, w)

(* claim leaves the account with what its lock is worth now.               *)
LEMMA ClaimRefreshes ==
  ASSUME LInv, NEW a \in Accounts, ClaimOk(View(a), height, time)
  PROVE  LET v == Claim(View(a), height, time)
             u == user_state[a]
         IN  /\ v \in Views
             /\ v.ve = VeBalance(u.locked_balance, u.locked_until, time)
             /\ v.user.balance = v.ve
             /\ v.user.locked_balance = u.locked_balance
             /\ v.user.locked_until = u.locked_until
             /\ v.user.withdraw_at = u.withdraw_at
<1> DEFINE v == Claim(View(a), height, time)
           u == user_state[a]
<1>1. /\ TypeOK /\ LedgersInSync
      /\ height \in Nat /\ time \in Nat /\ u \in UserState
      /\ View(a).user = u /\ View(a).ve = ve_balances[a]
  BY DEF LInv, IInv, TypeOK, View
<1>2. /\ v \in Views
      /\ v.ve = ve_balances[a] - u.balance
                  + VeBalance(u.locked_balance, u.locked_until, time)
  <2>1. View(a) \in Views
    BY <1>1, ViewType
  <2> HIDE DEF v
  <2>2. v = Claim(View(a), height, time)
    BY DEF v
  <2> QED
    BY <1>1, <2>1, <2>2, ClaimEffect
<1>3. /\ v.user.balance = v.ve
      /\ v.user.locked_balance = u.locked_balance + 0
      /\ v.user.withdraw_at = u.withdraw_at
      /\ v.user.locked_until = u.locked_until
  BY <1>1, ClaimStep DEF StepView
<1>4. ve_balances[a] = u.balance
  <2>1. Balances[a] = u.balance
    BY DEF Balances
  <2> QED
    BY <1>1, <2>1 DEF LedgersInSync
<1>5. /\ u.balance \in Nat /\ u.locked_balance \in Nat
      /\ VeBalance(u.locked_balance, u.locked_until, time) \in Nat
  <2>1. u.balance \in Nat /\ u.locked_balance \in Nat /\ u.locked_until \in Nat
    BY <1>1, UintNat DEF UserState
  <2> QED
    BY <1>1, <2>1, VeBalanceType
<1> HIDE DEF v, u
<1>6. v.ve = VeBalance(u.locked_balance, u.locked_until, time)
  BY <1>2, <1>4, <1>5
<1>7. v.user.locked_balance = u.locked_balance
  BY <1>3, <1>5
<1> QED
  BY <1>2, <1>3, <1>6, <1>7 DEF v, u
-----------------------------------------------------------------------------
(* Each handler of an account is a HolderStep.                             *)

LEMMA ExecuteClaimHolds ==
  ASSUME LInv, NEW a \in Accounts, ExecuteClaim(a)
  PROVE  HolderStep(a, Claim(View(a), height, time))
<1> DEFINE v == Claim(View(a), height, time)
           u == user_state[a]
<1>1. /\ v \in Views
      /\ v.ve = VeBalance(u.locked_balance, u.locked_until, time)
      /\ v.user.balance = v.ve
      /\ v.user.locked_balance = u.locked_balance
      /\ v.user.locked_until = u.locked_until
      /\ v.user.withdraw_at = u.withdraw_at
  BY ClaimRefreshes DEF ExecuteClaim, ExecuteClaimAccepted
<1>2. u.locked_until \in Nat /\ u.locked_balance \in Nat
  BY UintNat DEF LInv, IInv, TypeOK, UserState
<1>3. u.locked_until <= time + MAX_LOCK_PERIOD
  BY DEF LInv, LocksInReach
<1> HIDE DEF v
<1> QED
  BY <1>1, <1>2, <1>3 DEF HolderStep, LockOrClaim, v

LEMMA RequestWithdrawHolds ==
  ASSUME LInv, NEW a \in Accounts, RequestWithdraw(a)
  PROVE  HolderStep(a, RequestView(a))
<1> DEFINE c == Claim(View(a), height, time)
           v == RequestView(a)
           u == user_state[a]
<1>1. /\ c \in Views
      /\ c.ve = VeBalance(u.locked_balance, u.locked_until, time)
      /\ c.user.balance = c.ve
      /\ c.user.locked_balance = u.locked_balance
      /\ c.user.locked_until = u.locked_until
      /\ c.user.withdraw_at = u.withdraw_at
  BY ClaimRefreshes DEF RequestWithdraw, RequestWithdrawAccepted
<1>2. u.locked_until \in Nat /\ u.locked_balance \in Nat
  BY UintNat DEF LInv, IInv, TypeOK, UserState
<1>3. u.locked_until <= time + MAX_LOCK_PERIOD
  BY DEF LInv, LocksInReach
<1>4. u.locked_balance # 0 /\ time >= u.locked_until
  BY DEF RequestWithdraw, RequestWithdrawAccepted
<1>5. time + WITHDRAW_DELAY \in Nat
  BY PeriodAssumption DEF LInv, IInv, TypeOK
<1>6. v = [c EXCEPT !.user.withdraw_at = time + WITHDRAW_DELAY]
  BY DEF RequestView
<1> HIDE DEF c, v, u
<1>7. /\ v \in Views
      /\ v.user.withdraw_at = time + WITHDRAW_DELAY
      /\ v.user.balance = c.user.balance
      /\ v.user.locked_balance = c.user.locked_balance
      /\ v.user.locked_until = c.user.locked_until
  BY <1>1, <1>5, <1>6 DEF Views, UserState
<1>8. HolderStep(a, v)
  BY <1>1, <1>2, <1>3, <1>4, <1>7 DEF HolderStep, Requests, u
<1> QED
  BY <1>8 DEF v

(* A lock leaves the account with more locked, until the given time.       *)
LEMMA LockRefreshes ==
  ASSUME LInv, NEW a \in Accounts,
         NEW amount \in LockAmounts, NEW until \in Untils,
         Lock(a, amount, until)
  PROVE  LET w == LockView(a, amount, until)
             u == user_state[a]
         IN  /\ w \in Views
             /\ w.user.balance = VeBalance(w.user.locked_balance, until, time)
             /\ Fits(w.user.locked_balance * LockSeconds(until, time))
             /\ w.user.locked_balance = u.locked_balance + amount
             /\ w.user.locked_until = until
             /\ w.user.withdraw_at = u.withdraw_at
<1> DEFINE c == Claim(View(a), height, time)
           dep == Deposited(c, amount)
           w == UpdateLock(dep, until, time)
           u == user_state[a]
<1>1. /\ ClaimOk(View(a), height, time)
      /\ DepositedFits(c, amount)
      /\ UpdateLockOk(dep, until, time)
      /\ LockView(a, amount, until) = w
      /\ until >= u.locked_until
      /\ LockSeconds(until, time) <= MAX_LOCK_PERIOD
  BY DEF Lock, LockAccepted, LockView
<1>2. /\ amount \in Nat /\ until \in Nat /\ time \in Nat
  BY InputsAssumption, GenesisAssumption, MaxLockAssumption, UintNat
  DEF Untils, LInv, IInv, TypeOK
<1>3. /\ c \in Views
      /\ c.ve = VeBalance(u.locked_balance, u.locked_until, time)
      /\ c.user.balance = c.ve
      /\ c.user.locked_balance = u.locked_balance
      /\ c.user.withdraw_at = u.withdraw_at
  BY <1>1, ClaimRefreshes
<1>4. u.locked_until \in Nat /\ u.locked_balance \in Nat
  BY UintNat DEF LInv, IInv, TypeOK, UserState
<1> HIDE DEF c, u
<1>5. c.user \in UserState /\ c.token \in TokenState
  BY <1>3 DEF Views
<1>6. /\ dep \in Views /\ dep.ve = c.ve
      /\ dep.user = [c.user EXCEPT !.locked_balance = @ + amount]
  BY <1>1, <1>3, <1>5 DEF Deposited, DepositedFits, Fits, Views, UserState, TokenState
<1>7. /\ dep.user \in UserState
      /\ dep.user.locked_balance = u.locked_balance + amount
      /\ dep.user.balance = c.ve
      /\ dep.user.withdraw_at = u.withdraw_at
  BY <1>3, <1>5, <1>6 DEF Views, UserState
<1> HIDE DEF dep
<1>8. /\ w \in Views
      /\ w.ve = dep.ve + VeBalance(dep.user.locked_balance, until, time)
                  - dep.user.balance
      /\ w.user = WithBalance(WithUntil(dep.user, until), w.ve)
  BY <1>1, <1>2, <1>6, UpdateLockEffect
<1> HIDE DEF w
<1>9. /\ w.user.balance = w.ve
      /\ w.user.locked_balance = u.locked_balance + amount
      /\ w.user.locked_until = until
      /\ w.user.withdraw_at = u.withdraw_at
  BY <1>7, <1>8 DEF WithBalance, WithUntil, UserState
<1>10. w.ve = VeBalance(u.locked_balance + amount, until, time)
  <2>1. c.ve \in Nat
    BY <1>3, UintNat DEF Views
  <2>2. u.locked_balance + amount \in Nat
    BY <1>2, <1>4
  <2>3. VeBalance(u.locked_balance + amount, until, time) \in Nat
    BY <1>2, <2>2, VeBalanceType
  <2> QED
    BY <1>6, <1>7, <1>8, <2>1, <2>3
<1>11. Fits(dep.user.locked_balance * LockSeconds(until, time))
  BY <1>1 DEF UpdateLockOk
<1>12. Fits(w.user.locked_balance * LockSeconds(until, time))
  BY <1>7, <1>9, <1>11
<1>13. LockView(a, amount, until) = w
  BY <1>1
<1> QED
  BY <1>8, <1>9, <1>10, <1>12, <1>13 DEF u

LEMMA LockHolds ==
  ASSUME LInv, NEW a \in Accounts,
         NEW amount \in LockAmounts, NEW until \in Untils,
         Lock(a, amount, until)
  PROVE  HolderStep(a, LockView(a, amount, until))
<1> DEFINE w == LockView(a, amount, until)
           u == user_state[a]
<1>1. /\ w \in Views
      /\ w.user.balance = VeBalance(w.user.locked_balance, until, time)
      /\ w.user.locked_balance = u.locked_balance + amount
      /\ w.user.locked_until = until
      /\ w.user.withdraw_at = u.withdraw_at
  BY LockRefreshes
<1>2. /\ until >= u.locked_until
      /\ LockSeconds(until, time) <= MAX_LOCK_PERIOD
  BY DEF Lock, LockAccepted
<1>3. amount \in Nat /\ until \in Nat /\ time \in Nat
  BY InputsAssumption, GenesisAssumption, MaxLockAssumption, UintNat
  DEF Untils, LInv, IInv, TypeOK
<1>4. u.locked_balance \in Nat
  BY UintNat DEF LInv, IInv, TypeOK, UserState
<1>5. until <= time + MAX_LOCK_PERIOD
  BY <1>2, <1>3, MaxLockAssumption DEF LockSeconds
<1> HIDE DEF w
<1>6. HolderStep(a, w)
  BY <1>1, <1>2, <1>3, <1>4, <1>5 DEF HolderStep, LockOrClaim, u
<1> QED
  BY <1>6 DEF w

(* The stale balance that Withdraw burns is never below what claim has     *)
(* just refreshed it to, and a burn of more than there is fails: what is   *)
(* left is nothing.                                                        *)
LEMMA WithdrawRefreshes ==
  ASSUME LInv, NEW a \in Accounts, WithdrawAccepted(a)
  PROVE  LET w == WithdrawView(a)
         IN  /\ w \in Views
             /\ w.ve = 0 /\ w.user.balance = 0
             /\ w.user.locked_balance = 0
             /\ w.user.locked_until = user_state[a].locked_until
             /\ w.user.withdraw_at = 0
             /\ user_state[a].balance
                  = VeBalance(user_state[a].locked_balance,
                              user_state[a].locked_until, time)
<1> DEFINE c == Claim(View(a), height, time)
           r == Released(a)
           w == SetBalance(r, 0)
           u == user_state[a]
           n == u.locked_balance
<1>1. /\ ClaimOk(View(a), height, time)
      /\ SetBalanceOk(r, 0) /\ Fits(r.token.total_locked)
      /\ WithdrawView(a) = w
      /\ time >= u.withdraw_at /\ u.withdraw_at # 0
  BY DEF WithdrawAccepted, WithdrawView
<1>2. /\ u \in UserState /\ time \in Nat /\ n \in Nat
      /\ u.balance \in Nat /\ u.withdraw_at \in Nat /\ u.locked_until \in Nat
  BY UintNat DEF LInv, IInv, TypeOK, UserState
<1>3. c \in Views /\ c.ve = VeBalance(n, u.locked_until, time)
  BY <1>1, ClaimRefreshes
<1>4. u.locked_until <= time + MAX_LOCK_PERIOD
  BY DEF LInv, LocksInReach
<1>5. VeBalance(n, u.locked_until, time) <= u.balance
  BY DEF LInv, VeBetweenDecayAndLock
<1>6. r = [c EXCEPT !.user = [u EXCEPT !.withdraw_at    = 0,
                                       !.locked_balance = 0],
                    !.token.total_locked = @ - n]
  BY DEF Released
<1> HIDE DEF c, r, n, u
<1>7. /\ r \in Views /\ r.ve = c.ve
      /\ r.user = [u EXCEPT !.withdraw_at = 0, !.locked_balance = 0]
  <2>1. /\ r.ve = c.ve /\ r.supply = c.supply
        /\ r.token = [c.token EXCEPT !.total_locked = @ - n]
        /\ r.user = [u EXCEPT !.withdraw_at = 0, !.locked_balance = 0]
        /\ r = [token |-> r.token, user |-> r.user,
                supply |-> r.supply, ve |-> r.ve]
    BY <1>3, <1>6 DEF Views
  <2>2. r.token \in TokenState
    BY <1>1, <1>3, <2>1 DEF Views, TokenState, Fits
  <2>3. r.user \in UserState
    BY <1>2, <2>1, UintNat DEF UserState
  <2> QED
    BY <1>3, <2>1, <2>2, <2>3 DEF Views
<1>8. /\ r.user.balance = u.balance /\ r.user.withdraw_at = 0
      /\ r.user.locked_balance = 0 /\ r.user.locked_until = u.locked_until
      /\ r.user \in UserState
  BY <1>2, <1>7 DEF UserState, Views
<1>9. /\ w \in Views
      /\ w.ve = r.ve + 0 - r.user.balance
      /\ w.user = WithBalance(r.user, w.ve)
  BY <1>1, <1>7, UintNat, SetBalanceEffect
<1> HIDE DEF w
<1>10. /\ w.user.balance = w.ve /\ w.user.withdraw_at = 0
       /\ w.user.locked_balance = 0 /\ w.user.locked_until = u.locked_until
  BY <1>8, <1>9 DEF WithBalance, UserState
<1>11. w.ve = 0 /\ u.balance = c.ve
  <2>1. w.ve \in Nat /\ c.ve \in Nat
    BY <1>3, <1>9, UintNat DEF Views
  <2>2. c.ve <= u.balance
    BY <1>3, <1>5
  <2> QED
    BY <1>2, <1>7, <1>8, <1>9, <2>1, <2>2
<1> QED
  BY <1>1, <1>3, <1>9, <1>10, <1>11 DEF u, n

LEMMA WithdrawHolds ==
  ASSUME LInv, NEW a \in Accounts, Withdraw(a)
  PROVE  HolderStep(a, WithdrawView(a))
<1> DEFINE w == WithdrawView(a)
           u == user_state[a]
<1>1. /\ w \in Views
      /\ w.ve = 0 /\ w.user.balance = 0
      /\ w.user.locked_balance = 0
      /\ w.user.locked_until = u.locked_until
      /\ w.user.withdraw_at = 0
  BY WithdrawRefreshes DEF Withdraw
<1>2. /\ time \in Nat /\ u.locked_until \in Nat /\ u.withdraw_at \in Nat
      /\ u.locked_until <= time + MAX_LOCK_PERIOD
  BY DEF LInv, IInv, TypeOK, UserState, LocksInReach
<1>3. VeBalance(0, u.locked_until, time) = 0
  <2>1. LockSeconds(u.locked_until, time) \in Nat
    BY <1>2, LockSecondsType
  <2>2. 0 * LockSeconds(u.locked_until, time) = 0
    BY <2>1
  <2>3. 0 \div MAX_LOCK_PERIOD = 0
    BY MultipleDiv, MaxLockAssumption
  <2> QED
    BY <2>2, <2>3 DEF VeBalance
<1>4. u.withdraw_at \in 1 .. time
  BY <1>2 DEF Withdraw, WithdrawAccepted
<1> HIDE DEF w, u
<1>5. HolderStep(a, w)
  BY <1>1, <1>2, <1>3, <1>4 DEF HolderStep, Releases, u
<1> QED
  BY <1>5 DEF w

(* The steps, as far as records and time go.                               *)
LEMMA HolderCases ==
  ASSUME LInv, [Next]_vars
  PROVE  \/ \E a \in Accounts, v \in Views : HolderStep(a, v) /\ Commit(a, v)
         \/ UNCHANGED user_state /\ time' >= time
<1> DEFINE Goal == \E a \in Accounts, v \in Views :
                     HolderStep(a, v) /\ Commit(a, v)
           Idle == UNCHANGED user_state /\ time' >= time
<1>0. ASSUME NEW a \in Accounts, NEW v, HolderStep(a, v), Commit(a, v)
      PROVE  Goal
  BY <1>0 DEF HolderStep
<1>t. time \in Nat
  BY DEF LInv, IInv, TypeOK
<1> HIDE DEF Goal
<1>1. ASSUME NEW a \in Accounts, NEW amount \in LockAmounts,
             NEW until \in Untils, Lock(a, amount, until)
      PROVE  Goal
  BY <1>0, <1>1, LockHolds DEF Lock
<1>2. ASSUME NEW a \in Accounts, RequestWithdraw(a)
      PROVE  Goal
  BY <1>0, <1>2, RequestWithdrawHolds DEF RequestWithdraw, RequestView
<1>3. ASSUME NEW a \in Accounts, Withdraw(a)
      PROVE  Goal
  BY <1>0, <1>3, WithdrawHolds DEF Withdraw
<1>4. ASSUME NEW a \in Accounts, ExecuteClaim(a)
      PROVE  Goal
  BY <1>0, <1>4, ExecuteClaimHolds DEF ExecuteClaim
<1>5. ASSUME NEW a \in Accounts, NEW amount \in IncomeAmounts, AddIncome(a, amount)
      PROVE  Idle
  BY <1>t, <1>5 DEF AddIncome, CommitToken, chain
<1>6. ASSUME NEW blocks \in Periods, ExecuteSetDistributionPeriod(blocks)
      PROVE  Idle
  BY <1>t, <1>6 DEF ExecuteSetDistributionPeriod, CommitToken, chain
<1>7. ASSUME NEW a \in Accounts, NEW amount \in GiftAmounts, TopUp(a, amount)
      PROVE  Idle
  BY <1>t, <1>7 DEF TopUp, chain, contract
<1>8. ASSUME NEW seconds \in TimeSteps, NextBlock(seconds)
      PROVE  Idle
  BY <1>t, <1>8, InputsAssumption DEF NextBlock, contract
<1>9. CASE UNCHANGED vars
  BY <1>t, <1>9 DEF vars, chain, contract
<1> HIDE DEF Idle
<1> QED
  BY <1>1, <1>2, <1>3, <1>4, <1>5, <1>6, <1>7, <1>8, <1>9 DEF Next, Goal, Idle

-----------------------------------------------------------------------------
(* LInv is inductive.                                                      *)

LEMMA HolderKeepsLocks ==
  ASSUME LInv, IInv', NEW a \in Accounts, NEW v \in Views,
         HolderStep(a, v), Commit(a, v)
  PROVE  LInv'
<1> DEFINE u == user_state[a]
           w == v.user
<1>1. /\ user_state' = [user_state EXCEPT ![a] = w] /\ time' = time
      /\ time \in Nat /\ time + MAX_LOCK_PERIOD \in Nat
      /\ WITHDRAW_DELAY \in Nat
      /\ user_state \in [Accounts -> UserState]
  BY MaxLockAssumption, PeriodAssumption
  DEF Commit, chain, LInv, IInv, TypeOK
<1>2. /\ user_state'[a] = w
      /\ \A b \in Accounts \ {a} : user_state'[b] = user_state[b]
  BY <1>1
<1>3. /\ u.locked_balance \in Nat /\ u.withdraw_at \in Nat
      /\ w.locked_balance \in Nat /\ w.locked_until \in Nat
      /\ w.balance \in Nat /\ w.withdraw_at \in Nat
  BY <1>1, UintNat DEF Views, UserState
<1>4. /\ w.locked_until <= time + MAX_LOCK_PERIOD
      /\ w.balance = VeBalance(w.locked_balance, w.locked_until, time)
      /\ LockOrClaim(u, w) \/ Requests(u, w) \/ Releases(u, w)
  BY DEF HolderStep
<1>5. u.withdraw_at # 0 =>
        u.locked_balance > 0 /\ u.withdraw_at <= time + WITHDRAW_DELAY
  BY DEF LInv, WaitingEarnsNothing
<1> HIDE DEF u, w
<1>6. LocksInReach'
  BY <1>1, <1>2, <1>4 DEF LInv, LocksInReach
<1>7. VeBetweenDecayAndLock'
  <2>1. /\ VeBalance(w.locked_balance, w.locked_until, time) <= w.balance
        /\ w.balance <= w.locked_balance
    BY <1>1, <1>3, <1>4, VeBalanceCapped
  <2> QED
    BY <1>1, <1>2, <2>1 DEF LInv, VeBetweenDecayAndLock, VeBalance, LockSeconds
<1>8. WaitingEarnsNothing'
  <2>1. ASSUME w.withdraw_at # 0
        PROVE  w.locked_balance > 0 /\ w.withdraw_at <= time + WITHDRAW_DELAY
    BY <1>1, <1>3, <1>4, <1>5, <2>1 DEF LockOrClaim, Requests, Releases
  <2>2. ASSUME w.withdraw_at # 0,
               w.locked_until + WITHDRAW_DELAY <= w.withdraw_at
        PROVE  w.balance = 0
    <3>1. w.locked_until <= time
      BY <1>1, <1>3, <2>1, <2>2
    <3> QED
      BY <1>1, <1>3, <1>4, <3>1, VeBalanceEnded
  <2> QED
    BY <1>1, <1>2, <2>1, <2>2 DEF LInv, WaitingEarnsNothing
<1> QED
  BY <1>6, <1>7, <1>8 DEF LInv

LEMMA LockIdle ==
  ASSUME LInv, IInv', UNCHANGED user_state, time' >= time
  PROVE  LInv'
<1>1. /\ time \in Nat /\ time' \in Nat /\ MAX_LOCK_PERIOD \in Nat
      /\ WITHDRAW_DELAY \in Nat
      /\ user_state \in [Accounts -> UserState]
  BY MaxLockAssumption, PeriodAssumption DEF LInv, IInv, TypeOK
<1>2. ASSUME NEW a \in Accounts
      PROVE  /\ user_state[a].locked_until \in Nat
             /\ user_state[a].locked_balance \in Nat
             /\ user_state[a].balance \in Nat
             /\ user_state[a].withdraw_at \in Nat
  BY <1>1, UintNat DEF UserState
<1>3. LocksInReach'
  BY <1>1, <1>2 DEF LInv, LocksInReach
<1>4. VeBetweenDecayAndLock'
  <2> SUFFICES ASSUME NEW a \in Accounts
               PROVE  LET u == user_state[a]
                      IN  /\ VeBalance(u.locked_balance, u.locked_until, time')
                               <= u.balance
                          /\ u.balance <= u.locked_balance
    BY DEF VeBetweenDecayAndLock, VeBalance, LockSeconds
  <2> DEFINE u == user_state[a]
  <2>1. /\ VeBalance(u.locked_balance, u.locked_until, time) <= u.balance
        /\ u.balance <= u.locked_balance
    BY DEF LInv, VeBetweenDecayAndLock
  <2>2. /\ u.locked_balance \in Nat /\ u.locked_until \in Nat /\ u.balance \in Nat
    BY <1>2
  <2> HIDE DEF u
  <2>3. VeBalance(u.locked_balance, u.locked_until, time')
          <= VeBalance(u.locked_balance, u.locked_until, time)
    BY <1>1, <2>2, VeBalanceDecays
  <2>4. /\ VeBalance(u.locked_balance, u.locked_until, time) \in Nat
        /\ VeBalance(u.locked_balance, u.locked_until, time') \in Nat
    BY <1>1, <2>2, VeBalanceType
  <2>5. VeBalance(u.locked_balance, u.locked_until, time') <= u.balance
    BY <2>1, <2>2, <2>3, <2>4
  <2> QED
    BY <2>1, <2>5 DEF u
<1>5. WaitingEarnsNothing'
  BY <1>1, <1>2 DEF LInv, WaitingEarnsNothing
<1> QED
  BY <1>3, <1>4, <1>5 DEF LInv

LEMMA InitLocks == Init => LInv
<1> SUFFICES ASSUME Init PROVE LInv
  OBVIOUS
<1>1. IInv
  BY InitInvariant
<1>2. /\ \A a \in Accounts : user_state[a] = DefaultUserState
      /\ time \in Nat /\ MAX_LOCK_PERIOD \in Nat
  BY <1>1, MaxLockAssumption DEF Init, IInv, TypeOK
<1>3. VeBalance(0, 0, time) = 0
  BY <1>2, VeBalanceEnded
<1> QED
  BY <1>1, <1>2, <1>3
  DEF LInv, LocksInReach, VeBetweenDecayAndLock, WaitingEarnsNothing,
      DefaultUserState

LEMMA NextLocks == LInv /\ [Next]_vars => LInv'
<1> SUFFICES ASSUME LInv, [Next]_vars PROVE LInv'
  OBVIOUS
<1>1. IInv'
  BY NextInvariant DEF LInv
<1>2. ASSUME NEW a \in Accounts, NEW v \in Views,
             HolderStep(a, v), Commit(a, v)
      PROVE  LInv'
  BY <1>1, <1>2, HolderKeepsLocks
<1>3. CASE UNCHANGED user_state /\ time' >= time
  BY <1>1, <1>3, LockIdle
<1> QED
  BY <1>2, <1>3, HolderCases

(* Every step keeps to LocksHeld.                                          *)
LEMMA NextHolds ==
  ASSUME LInv, [Next]_vars, NEW b \in Accounts
  PROVE  HoldsLock(user_state[b], user_state'[b])
<1>1. /\ user_state[b].locked_until \in Nat
      /\ user_state[b].locked_balance \in Nat
      /\ user_state \in [Accounts -> UserState]
  BY UintNat DEF LInv, IInv, TypeOK, UserState
<1>2. CASE user_state'[b] = user_state[b]
  BY <1>1, <1>2 DEF HoldsLock
<1>3. ASSUME NEW a \in Accounts, NEW v \in Views,
             HolderStep(a, v), Commit(a, v)
      PROVE  \/ user_state'[b] = user_state[b]
             \/ a = b /\ user_state'[b] = v.user
  BY <1>1, <1>3 DEF Commit
<1>4. ASSUME NEW v \in Views, HolderStep(b, v), user_state'[b] = v.user
      PROVE  HoldsLock(user_state[b], user_state'[b])
  <2> DEFINE u == user_state[b]
             w == v.user
  <2>1. w.locked_balance \in Nat /\ w.locked_until \in Nat
    BY UintNat DEF Views, UserState
  <2>2. /\ u.locked_until <= w.locked_until
        /\ LockOrClaim(u, w) \/ Requests(u, w) \/ Releases(u, w)
    BY <1>4 DEF HolderStep
  <2> HIDE DEF u, w
  <2>3. u.locked_balance \in Nat
    BY <1>1 DEF u
  <2>4. HoldsLock(u, w)
    BY <2>1, <2>2, <2>3 DEF HoldsLock, LockOrClaim, Requests, Releases
  <2> QED
    BY <1>4, <2>4 DEF u, w
<1> QED
  BY <1>2, <1>3, <1>4, HolderCases

-----------------------------------------------------------------------------
(* The theorems.                                                           *)

(* LInv holds in every reachable state.                                    *)
THEOREM LockInvariant == Spec => []LInv
<1>1. Init => LInv
  BY InitLocks
<1>2. LInv /\ [Next]_vars => LInv'
  BY NextLocks
<1> QED
  BY <1>1, <1>2, PTL DEF Spec

(* veWILD is always between what the lock is worth now and the lock.       *)
THEOREM VeDecays == Spec => []VeBetweenDecayAndLock
<1>1. LInv => VeBetweenDecayAndLock
  BY DEF LInv
<1> QED
  BY <1>1, LockInvariant, PTL

(* An account that waits for its withdrawal has a lock behind its request  *)
(* and, unless it locked again, holds no veWILD.                           *)
THEOREM WaitersEarnNothing == Spec => []WaitingEarnsNothing
<1>1. LInv => WaitingEarnsNothing
  BY DEF LInv
<1> QED
  BY <1>1, LockInvariant, PTL

(* No step moves the recorded end of a lock back, makes a request before   *)
(* that end or due before the delay is over, or takes anything out of a    *)
(* lock but all of it at a request that is due.                            *)
THEOREM DelayHolds == Spec => LocksHeld
<1>1. LInv /\ [Next]_vars =>
        \A a \in Accounts : HoldsLock(user_state[a], user_state'[a])
  BY NextHolds
<1> QED
  BY <1>1, LockInvariant, PTL DEF Spec, LocksHeld
=============================================================================
