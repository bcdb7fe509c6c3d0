---------------------------- MODULE VeWildProofs ----------------------------
(***************************************************************************)
(* Theorems about the veWILD contract, for every value of the constants.   *)
(*                                                                         *)
(* The four handlers of an account (Lock, RequestWithdraw, Withdraw,       *)
(* ExecuteClaim) have one shape in common, AccountStep: they accrue, leave *)
(* the account with a fresh snapshot, keep the veWILD ledger and its       *)
(* copies together, and change the lock by some d.  Each handler is shown  *)
(* to be such a step once; each invariant is then shown to survive any     *)
(* such step.                                                              *)
(***************************************************************************)
EXTENDS VeWildProps, VeInternalProofs, SumLemmas

-----------------------------------------------------------------------------
(* The common shape.                                                       *)

NextToken(supply, d) ==
  [Accrue(token_state, height) EXCEPT !.total_supply = supply,
                                      !.total_locked = @ + d]

StepView(a, v, d) ==
  /\ v \in Views
  /\ v.supply - ve_supply = v.ve - ve_balances[a]
  /\ v.token = NextToken(v.supply, d)
  /\ v.user.balance = v.ve
  /\ v.user.reward_snapshot = v.token.reward_per_token
  /\ v.user.locked_balance = user_state[a].locked_balance + d

AccountStep(a, v, d) ==
  /\ AccrueFits(token_state, height)
  /\ PendingRewardFits(user_state[a], Accrue(token_state, height).reward_per_token)
  /\ d \in Int
  /\ StepView(a, v, d)
  /\ Commit(a, v)
  /\ \E paid \in Nat, taken \in Nat :
       /\ Transfers(a, paid, taken)
       /\ taken - paid = d - ClaimReward(View(a), height)

LEMMA ViewType ==
  ASSUME TypeOK, NEW a \in Accounts
  PROVE  View(a) \in Views
BY DEF TypeOK, View, Views

LEMMA ClaimRewardType ==
  ASSUME NEW v \in Views, NEW block \in Nat, AccrueFits(v.token, block),
         PendingRewardFits(v.user, Accrue(v.token, block).reward_per_token)
  PROVE  ClaimReward(v, block) \in Nat
<1> DEFINE rpt == Accrue(v.token, block).reward_per_token
           n == (rpt - v.user.reward_snapshot) * v.user.balance
<1>1. n \in Nat
  BY UintNat DEF PendingRewardFits, Fits
<1> HIDE DEF n
<1>2. n \div SCALE \in Nat
  BY <1>1, DivBound, ScaleAssumption
<1> QED
  BY <1>2 DEF ClaimReward, PendingReward, n

(* What claim alone does to the view of an account.                        *)
LEMMA ClaimStep ==
  ASSUME TypeOK, NEW a \in Accounts, ClaimOk(View(a), height, time)
  PROVE  LET v == Claim(View(a), height, time)
         IN  /\ StepView(a, v, 0)
             /\ v.user.withdraw_at = user_state[a].withdraw_at
             /\ v.user.locked_until = user_state[a].locked_until
             /\ AccrueFits(token_state, height)
             /\ PendingRewardFits(user_state[a],
                                  Accrue(token_state, height).reward_per_token)
             /\ ClaimReward(View(a), height) \in Nat
<1> DEFINE v == Claim(View(a), height, time)
           ts == Accrue(token_state, height)
<1>1. /\ View(a) \in Views
      /\ View(a).token = token_state /\ View(a).user = user_state[a]
      /\ View(a).supply = ve_supply /\ View(a).ve = ve_balances[a]
      /\ height \in Nat /\ time \in Nat
      /\ user_state[a] \in UserState
  BY ViewType DEF View, TypeOK
<1>2. /\ v \in Views
      /\ ts \in TokenState
      /\ v.supply - ve_supply = v.ve - ve_balances[a]
      /\ v.token = WithSupply(ts, v.supply)
      /\ v.user = WithBalance(WithSnapshot(user_state[a], ts.reward_per_token),
                              v.ve)
  <2> HIDE DEF v
  <2>1. v = Claim(View(a), height, time)
    BY DEF v
  <2> QED
    BY <1>1, <2>1, ClaimEffect
<1>3. /\ AccrueFits(token_state, height)
      /\ PendingRewardFits(user_state[a], ts.reward_per_token)
  BY <1>1 DEF ClaimOk
<1>4. ClaimReward(View(a), height) \in Nat
  BY <1>1, <1>3, ClaimRewardType
<1> HIDE DEF v, ts
<1>5. v.token = NextToken(v.supply, 0)
  <2>1. ts.total_locked \in Nat
    BY <1>2, UintNat DEF TokenState
  <2>2. ts = Accrue(token_state, height)
    BY DEF ts
  <2>3. ts.total_locked + 0 = ts.total_locked
    BY <2>1
  <2>4. NextToken(v.supply, 0)
          = [ts EXCEPT !.total_supply = v.supply, !.total_locked = @ + 0]
    BY <2>2 DEF NextToken
  <2>5. [ts EXCEPT !.total_supply = v.supply, !.total_locked = @ + 0]
          = [ts EXCEPT !.total_supply = v.supply]
    BY <1>2, <2>3 DEF TokenState
  <2> QED
    BY <1>2, <2>4, <2>5 DEF WithSupply
<1>6. /\ v.user.balance = v.ve
      /\ v.user.reward_snapshot = v.token.reward_per_token
      /\ v.user.locked_balance = user_state[a].locked_balance + 0
      /\ v.user.withdraw_at = user_state[a].withdraw_at
      /\ v.user.locked_until = user_state[a].locked_until
  <2>1. user_state[a].locked_balance \in Nat
    BY <1>1, UintNat DEF UserState
  <2> QED
    BY <1>1, <1>2, <2>1 DEF WithSupply, WithBalance, WithSnapshot,
                            UserState, TokenState
<1>7. StepView(a, v, 0)
  BY <1>2, <1>5, <1>6 DEF StepView
<1> QED
  BY <1>3, <1>4, <1>6, <1>7 DEF v, ts

-----------------------------------------------------------------------------
(* Each handler of an account is an AccountStep.                           *)

LEMMA ExecuteClaimStep ==
  ASSUME TypeOK, NEW a \in Accounts, ExecuteClaim(a)
  PROVE  AccountStep(a, Claim(View(a), height, time), 0)
<1>1. ClaimOk(View(a), height, time)
  BY DEF ExecuteClaim, ExecuteClaimAccepted
<1>2. ClaimReward(View(a), height) \in Nat
  BY <1>1, ClaimStep
<1>3. Transfers(a, ClaimReward(View(a), height), 0)
      /\ 0 - ClaimReward(View(a), height) = 0 - ClaimReward(View(a), height)
  BY DEF ExecuteClaim
<1>4. Commit(a, Claim(View(a), height, time))
  BY DEF ExecuteClaim
<1> QED
  BY <1>1, <1>2, <1>3, <1>4, ClaimStep DEF AccountStep

RequestView(a) ==
  [Claim(View(a), height, time) EXCEPT !.user.withdraw_at = time + WITHDRAW_DELAY]

LEMMA RequestWithdrawStep ==
  ASSUME TypeOK, NEW a \in Accounts, RequestWithdraw(a)
  PROVE  AccountStep(a, RequestView(a), 0)
<1> DEFINE c == Claim(View(a), height, time)
           w == RequestView(a)
<1>1. ClaimOk(View(a), height, time)
  BY DEF RequestWithdraw, RequestWithdrawAccepted
<1>2. StepView(a, c, 0)
  BY <1>1, ClaimStep
<1>3. StepView(a, w, 0)
  <2>1. time + WITHDRAW_DELAY \in Nat
    BY PeriodAssumption DEF TypeOK
  <2>2. w = [c EXCEPT !.user.withdraw_at = time + WITHDRAW_DELAY]
    BY DEF RequestView
  <2> HIDE DEF c, w
  <2> QED
    BY <1>2, <2>1, <2>2 DEF StepView, Views, UserState
<1>4. ClaimReward(View(a), height) \in Nat
  BY <1>1, ClaimStep
<1>5. Transfers(a, ClaimReward(View(a), height), 0)
      /\ 0 - ClaimReward(View(a), height) = 0 - ClaimReward(View(a), height)
  BY DEF RequestWithdraw
<1>6. Commit(a, w)
  BY DEF RequestWithdraw, RequestView
<1> QED
  BY <1>1, <1>3, <1>4, <1>5, <1>6, ClaimStep DEF AccountStep

LEMMA LockStep ==
  ASSUME TypeOK, NEW a \in Accounts,
         NEW amount \in LockAmounts, NEW until \in Untils,
         Lock(a, amount, until)
  PROVE  AccountStep(a, LockView(a, amount, until), amount)
<1> DEFINE c == Claim(View(a), height, time)
           dep == Deposited(c, amount)
           w == UpdateLock(dep, until, time)
           ts == Accrue(token_state, height)
<1>1. /\ ClaimOk(View(a), height, time)
      /\ DepositedFits(c, amount)
      /\ UpdateLockOk(dep, until, time)
      /\ LockView(a, amount, until) = w
  BY DEF Lock, LockAccepted, LockView
<1>2. /\ amount \in Nat /\ amount \in Int
      /\ until \in Nat /\ time \in Nat /\ height \in Nat
  BY InputsAssumption, GenesisAssumption, MaxLockAssumption, UintNat
  DEF Untils, TypeOK
<1>3. /\ StepView(a, c, 0)
      /\ AccrueFits(token_state, height)
      /\ PendingRewardFits(user_state[a], ts.reward_per_token)
      /\ ClaimReward(View(a), height) \in Nat
  BY <1>1, ClaimStep
<1> HIDE DEF c
<1>4. c \in Views /\ c.user \in UserState /\ c.token \in TokenState
  BY <1>3 DEF StepView, Views
<1>5. /\ dep \in Views
      /\ dep.supply = c.supply /\ dep.ve = c.ve
      /\ dep.token = [c.token EXCEPT !.total_locked = @ + amount]
      /\ dep.user = [c.user EXCEPT !.locked_balance = @ + amount]
  BY <1>1, <1>4 DEF Deposited, DepositedFits, Fits, Views, UserState, TokenState
<1> HIDE DEF dep
<1>6. dep.user \in UserState /\ dep.token \in TokenState
  BY <1>5 DEF Views
<1>7. /\ w \in Views
      /\ w.supply - dep.supply = w.ve - dep.ve
      /\ w.token = WithSupply(dep.token, w.supply)
      /\ w.user = WithBalance(WithUntil(dep.user, until), w.ve)
  BY <1>1, <1>2, <1>5, UpdateLockEffect
<1> HIDE DEF w
<1>8. w.supply - ve_supply = w.ve - ve_balances[a]
  <2>1. c.supply - ve_supply = c.ve - ve_balances[a]
    BY <1>3 DEF StepView
  <2>2. /\ w.supply \in Int /\ w.ve \in Int /\ c.supply \in Int
        /\ c.ve \in Int /\ ve_supply \in Int /\ ve_balances[a] \in Int
    <3>1. /\ w.supply \in Uint128 /\ w.ve \in Uint128 /\ c.supply \in Uint128
          /\ c.ve \in Uint128 /\ ve_supply \in Uint128
          /\ ve_balances[a] \in Uint128
      BY <1>4, <1>7 DEF TypeOK, Views
    <3> QED
      BY <3>1 DEF Uint128
  <2> QED
    BY <1>5, <1>7, <2>1, <2>2
<1>9. w.token = NextToken(w.supply, amount)
  <2>1. c.token = NextToken(c.supply, 0) /\ ts \in TokenState
    BY <1>3, AccrueType, <1>2 DEF StepView, TypeOK
  <2>2. ts.total_locked \in Nat
    BY <2>1, UintNat DEF TokenState
  <2>3. ts.total_locked + 0 = ts.total_locked
    BY <2>2
  <2> HIDE DEF ts
  <2>4. c.token = [ts EXCEPT !.total_supply = c.supply]
    <3>1. [ts EXCEPT !.total_supply = c.supply, !.total_locked = @ + 0]
            = [ts EXCEPT !.total_supply = c.supply]
      BY <2>1, <2>3 DEF TokenState
    <3> QED
      BY <2>1, <3>1 DEF NextToken, ts
  <2>5. w.token = [ts EXCEPT !.total_supply = w.supply,
                             !.total_locked = @ + amount]
    <3> DEFINE s0 == c.supply
               s1 == w.supply
    <3>1. w.token = [[[ts EXCEPT !.total_supply = s0]
                          EXCEPT !.total_locked = @ + amount]
                          EXCEPT !.total_supply = s1]
      BY <1>5, <1>7, <2>4 DEF WithSupply
    <3> HIDE DEF s0, s1
    <3>2. [[[ts EXCEPT !.total_supply = s0]
                EXCEPT !.total_locked = @ + amount]
                EXCEPT !.total_supply = s1]
            = [ts EXCEPT !.total_supply = s1, !.total_locked = @ + amount]
      BY <2>1 DEF TokenState
    <3> QED
      BY <3>1, <3>2 DEF s1
  <2> QED
    BY <2>5 DEF NextToken, ts
<1>10. /\ w.user.balance = w.ve
       /\ w.user.reward_snapshot = w.token.reward_per_token
       /\ w.user.locked_balance = user_state[a].locked_balance + amount
  <2>1. /\ c.user.reward_snapshot = c.token.reward_per_token
        /\ c.user.locked_balance = user_state[a].locked_balance + 0
    BY <1>3 DEF StepView
  <2>2. user_state[a].locked_balance \in Nat
    BY UintNat DEF TypeOK, UserState
  <2>3. /\ w.user.balance = w.ve
        /\ w.user.reward_snapshot = dep.user.reward_snapshot
        /\ w.user.locked_balance = dep.user.locked_balance
        /\ w.token.reward_per_token = dep.token.reward_per_token
    BY <1>6, <1>7 DEF WithSupply, WithBalance, WithUntil, UserState, TokenState
  <2>4. /\ dep.user.reward_snapshot = c.user.reward_snapshot
        /\ dep.token.reward_per_token = c.token.reward_per_token
        /\ dep.user.locked_balance = c.user.locked_balance + amount
    BY <1>4, <1>5 DEF UserState, TokenState
  <2> QED
    BY <2>1, <2>2, <2>3, <2>4
<1>11. StepView(a, w, amount)
  BY <1>7, <1>8, <1>9, <1>10 DEF StepView
<1>12. Transfers(a, ClaimReward(View(a), height), amount) /\ Commit(a, w)
  BY <1>1 DEF Lock
<1> QED
  BY <1>1, <1>2, <1>3, <1>11, <1>12 DEF AccountStep

LEMMA WithdrawStep ==
  ASSUME TypeOK, NEW a \in Accounts, Withdraw(a)
  PROVE  AccountStep(a, WithdrawView(a), -user_state[a].locked_balance)
<1> DEFINE c == Claim(View(a), height, time)
           r == Released(a)
           w == SetBalance(r, 0)
           ts == Accrue(token_state, height)
           u0 == user_state[a]
           n == u0.locked_balance
<1>1. /\ ClaimOk(View(a), height, time)
      /\ Fits(r.token.total_locked)
      /\ SetBalanceOk(r, 0)
      /\ WithdrawView(a) = w
  BY DEF Withdraw, WithdrawAccepted, WithdrawView
<1>2. /\ u0 \in UserState /\ n \in Nat
      /\ height \in Nat /\ token_state \in TokenState
  BY UintNat DEF TypeOK, UserState
<1>3. /\ StepView(a, c, 0)
      /\ AccrueFits(token_state, height)
      /\ PendingRewardFits(u0, ts.reward_per_token)
      /\ ClaimReward(View(a), height) \in Nat
  BY <1>1, ClaimStep
<1>4. ts \in TokenState
  BY <1>2, <1>3, AccrueType
<1>5. r = [c EXCEPT !.user = [u0 EXCEPT !.withdraw_at    = 0,
                                        !.locked_balance = 0],
                    !.token.total_locked = @ - n]
  BY DEF Released
<1>6. SetBalanceOk(r, 0) /\ Fits(r.token.total_locked)
  BY <1>1
<1> HIDE DEF c, r, ts, n, u0
<1>7. c \in Views /\ c.token \in TokenState /\ c.token = NextToken(c.supply, 0)
      /\ c.supply \in Uint128
      /\ c.supply - ve_supply = c.ve - ve_balances[a]
  BY <1>3 DEF StepView, Views
<1>8. /\ r \in Views /\ r.supply = c.supply /\ r.ve = c.ve
      /\ r.token = [c.token EXCEPT !.total_locked = @ - n]
      /\ r.user = [u0 EXCEPT !.withdraw_at = 0, !.locked_balance = 0]
  <2>1. /\ r.supply = c.supply /\ r.ve = c.ve
        /\ r.token = [c.token EXCEPT !.total_locked = @ - n]
        /\ r.user = [u0 EXCEPT !.withdraw_at = 0, !.locked_balance = 0]
        /\ r = [token |-> r.token, user |-> r.user,
                supply |-> r.supply, ve |-> r.ve]
    BY <1>5, <1>7 DEF Views
  <2>2. r.token \in TokenState
    BY <1>6, <1>7, <2>1 DEF TokenState, Fits
  <2>3. r.user \in UserState
    BY <1>2, <2>1, UintNat DEF UserState
  <2> QED
    BY <1>7, <2>1, <2>2, <2>3 DEF Views
<1>9. /\ w \in Views
      /\ w.supply - r.supply = w.ve - r.ve
      /\ w.token = WithSupply(r.token, w.supply)
      /\ w.user = WithBalance(r.user, w.ve)
  BY <1>6, <1>8, UintNat, SetBalanceEffect
<1> HIDE DEF w
<1>10. w.supply - ve_supply = w.ve - ve_balances[a]
  <2>1. /\ w.supply \in Uint128 /\ w.ve \in Uint128 /\ c.supply \in Uint128
        /\ c.ve \in Uint128 /\ ve_supply \in Uint128
        /\ ve_balances[a] \in Uint128
    BY <1>7, <1>9 DEF TypeOK, Views
  <2> QED
    BY <1>7, <1>8, <1>9, <2>1 DEF Uint128
<1>11. w.token = NextToken(w.supply, -n)
  <2>1. ts.total_locked \in Nat
    BY <1>4, UintNat DEF TokenState
  <2>2. (ts.total_locked + 0) - n = ts.total_locked + (-n)
    BY <1>2, <2>1
  <2>3. c.token = [ts EXCEPT !.total_supply = c.supply, !.total_locked = @ + 0]
    BY <1>7 DEF NextToken, ts
  <2> DEFINE s0 == c.supply
             s1 == w.supply
             m == -n
  <2>4. w.token = [[[ts EXCEPT !.total_supply = s0, !.total_locked = @ + 0]
                        EXCEPT !.total_locked = @ - n]
                        EXCEPT !.total_supply = s1]
    BY <1>8, <1>9, <2>3 DEF WithSupply
  <2>5. NextToken(s1, m) = [ts EXCEPT !.total_supply = s1, !.total_locked = @ + m]
    BY DEF NextToken, ts
  <2>6. (ts.total_locked + 0) - n = ts.total_locked + m
    BY <2>2
  <2> HIDE DEF s0, s1, m
  <2>7. [[[ts EXCEPT !.total_supply = s0, !.total_locked = @ + 0]
              EXCEPT !.total_locked = @ - n]
              EXCEPT !.total_supply = s1]
          = [ts EXCEPT !.total_supply = s1, !.total_locked = @ + m]
    BY <1>4, <2>6 DEF TokenState
  <2> QED
    BY <2>4, <2>5, <2>7 DEF s1, m
<1>12. /\ w.user.balance = w.ve
       /\ w.user.reward_snapshot = w.token.reward_per_token
       /\ w.user.locked_balance = n + (-n)
  <2>1. r.user.reward_snapshot = r.token.reward_per_token
    BY <1>6 DEF SetBalanceOk
  <2>2. r.user \in UserState /\ r.token \in TokenState
    BY <1>8 DEF Views
  <2>3. /\ w.user.balance = w.ve
        /\ w.user.reward_snapshot = r.user.reward_snapshot
        /\ w.user.locked_balance = r.user.locked_balance
        /\ w.token.reward_per_token = r.token.reward_per_token
    BY <1>9, <2>2 DEF WithSupply, WithBalance, UserState, TokenState
  <2>4. r.user.locked_balance = 0
    BY <1>2, <1>8 DEF UserState
  <2> QED
    BY <1>2, <2>1, <2>3, <2>4
<1>13. StepView(a, w, -n)
  BY <1>9, <1>10, <1>11, <1>12 DEF StepView, n, u0
<1>14. /\ Commit(a, w)
       /\ Transfers(a, ClaimReward(View(a), height) + n, 0)
       /\ ClaimReward(View(a), height) + n \in Nat
       /\ 0 - (ClaimReward(View(a), height) + n)
             = (-n) - ClaimReward(View(a), height)
  BY <1>1, <1>2, <1>3 DEF Withdraw, n, u0
<1>15. AccountStep(a, w, -n)
  BY <1>2, <1>3, <1>13, <1>14 DEF AccountStep, ts, u0
<1> QED
  BY <1>1, <1>15 DEF n, u0

(* The steps of the contract: an account's step, or one of the others.     *)
LEMMA NextCases ==
  ASSUME TypeOK, Next
  PROVE  \/ \E a \in Accounts, v \in Views, d \in Int : AccountStep(a, v, d)
         \/ \E a \in Accounts, amount \in IncomeAmounts : AddIncome(a, amount)
         \/ \E blocks \in Periods : ExecuteSetDistributionPeriod(blocks)
         \/ \E a \in Accounts, amount \in GiftAmounts : TopUp(a, amount)
         \/ \E seconds \in TimeSteps : NextBlock(seconds)
<1> DEFINE Goal == \E a \in Accounts, v \in Views, d \in Int : AccountStep(a, v, d)
<1>0. ASSUME NEW a \in Accounts, NEW v, NEW d, AccountStep(a, v, d)
      PROVE  Goal
  BY <1>0 DEF AccountStep, StepView
<1> HIDE DEF Goal
<1>1. ASSUME NEW a \in Accounts, NEW amount \in LockAmounts,
             NEW until \in Untils, Lock(a, amount, until)
      PROVE  Goal
  BY <1>0, <1>1, LockStep
<1>2. ASSUME NEW a \in Accounts, RequestWithdraw(a)
      PROVE  Goal
  BY <1>0, <1>2, RequestWithdrawStep
<1>3. ASSUME NEW a \in Accounts, Withdraw(a)
      PROVE  Goal
  BY <1>0, <1>3, WithdrawStep
<1>4. ASSUME NEW a \in Accounts, ExecuteClaim(a)
      PROVE  Goal
  BY <1>0, <1>4, ExecuteClaimStep
<1> QED
  BY <1>1, <1>2, <1>3, <1>4 DEF Next, Goal

-----------------------------------------------------------------------------
(* Type correctness.                                                       *)

LEMMA InitType == Init => TypeOK
<1> SUFFICES ASSUME Init PROVE TypeOK
  OBVIOUS
<1>1. token_state \in TokenState
  <2>1. PICK blocks \in Periods :
          /\ SetDistributionPeriodFits(DefaultTokenState, height, blocks)
          /\ token_state = SetDistributionPeriod(DefaultTokenState, height, blocks)
    BY DEF Init
  <2>2. blocks \in Nat /\ height \in Nat
    BY InputsAssumption, GenesisAssumption DEF Init
  <2> QED
    BY <2>1, <2>2, DefaultTokenStateType, SetDistributionPeriodType
<1>2. user_state \in [Accounts -> UserState]
  BY DefaultUserStateType DEF Init
<1> QED
  BY <1>1, <1>2, GenesisAssumption, UintNat DEF Init, TypeOK

LEMMA TransfersType ==
  ASSUME TypeOK, NEW a \in Accounts, NEW paid \in Nat, NEW taken \in Nat,
         Transfers(a, paid, taken)
  PROVE  wild' \in [Accounts -> Nat] /\ reserve' \in Nat
<1>1. wild[a] \in Nat /\ reserve \in Nat
  BY DEF TypeOK
<1>2. wild[a] + paid - taken \in Nat /\ reserve - paid + taken \in Nat
  BY <1>1 DEF Transfers
<1> QED
  BY <1>2 DEF Transfers, TypeOK

LEMMA AccountStepType ==
  ASSUME TypeOK, NEW a \in Accounts, NEW v, NEW d, AccountStep(a, v, d)
  PROVE  TypeOK'
<1>1. v \in Views /\ Commit(a, v)
  BY DEF AccountStep, StepView
<1>2. wild' \in [Accounts -> Nat] /\ reserve' \in Nat
  BY TransfersType DEF AccountStep
<1> QED
  BY <1>1, <1>2 DEF Commit, Views, TypeOK, chain

LEMMA IncomeAddedType ==
  ASSUME TypeOK, NEW amount \in IncomeAmounts, AddIncomeAccepted(amount)
  PROVE  IncomeAdded(amount) \in TokenState
<1>1. /\ token_state \in TokenState /\ height \in Nat /\ amount \in Uint128
      /\ token_state.distribution_period \in Nat
  BY InputsAssumption DEF TypeOK, TokenState
<1>2. Accrue(token_state, height) \in TokenState
  BY <1>1, AccrueType DEF AddIncomeAccepted
<1> QED
  BY <1>1, <1>2, UpdateRewardRateType DEF AddIncomeAccepted, IncomeAdded

LEMMA NextType == TypeOK /\ [Next]_vars => TypeOK'
<1> SUFFICES ASSUME TypeOK, [Next]_vars PROVE TypeOK'
  OBVIOUS
<1>1. ASSUME NEW a \in Accounts, NEW v \in Views, NEW d \in Int,
             AccountStep(a, v, d)
      PROVE  TypeOK'
  BY <1>1, AccountStepType
<1>2. ASSUME NEW a \in Accounts, NEW amount \in IncomeAmounts, AddIncome(a, amount)
      PROVE  TypeOK'
  <2>1. IncomeAdded(amount) \in TokenState
    BY <1>2, IncomeAddedType DEF AddIncome
  <2>2. amount \in Nat /\ 0 \in Nat
    BY InputsAssumption, UintNat
  <2>3. wild' \in [Accounts -> Nat] /\ reserve' \in Nat
    BY <1>2, <2>2, TransfersType DEF AddIncome
  <2> QED
    BY <1>2, <2>1, <2>3 DEF AddIncome, CommitToken, TypeOK, chain
<1>3. ASSUME NEW blocks \in Periods, ExecuteSetDistributionPeriod(blocks)
      PROVE  TypeOK'
  <2>1. blocks \in Nat /\ token_state \in TokenState /\ height \in Nat
    BY InputsAssumption DEF TypeOK
  <2>2. SetDistributionPeriod(token_state, height, blocks) \in TokenState
    BY <1>3, <2>1, SetDistributionPeriodType DEF ExecuteSetDistributionPeriod
  <2> QED
    BY <1>3, <2>2
    DEF ExecuteSetDistributionPeriod, CommitToken, TypeOK, chain, funds
<1>4. ASSUME NEW a \in Accounts, NEW amount \in GiftAmounts, TopUp(a, amount)
      PROVE  TypeOK'
  <2>1. amount \in Nat /\ 0 \in Nat
    BY InputsAssumption, UintNat
  <2>2. wild' \in [Accounts -> Nat] /\ reserve' \in Nat
    BY <1>4, <2>1, TransfersType DEF TopUp
  <2> QED
    BY <1>4, <2>2 DEF TopUp, TypeOK, chain, contract
<1>5. ASSUME NEW seconds \in TimeSteps, NextBlock(seconds)
      PROVE  TypeOK'
  BY <1>5, InputsAssumption DEF NextBlock, TypeOK, contract, funds
<1>6. CASE UNCHANGED vars
  BY <1>6 DEF vars, chain, contract, funds, TypeOK
<1> QED
  BY <1>1, <1>2, <1>3, <1>4, <1>5, <1>6, NextCases

(* Every variable of the contract and of its environment stays in its      *)
(* type: in particular no stored value leaves its width, and no account    *)
(* and not the contract itself ever holds less than no WILD.               *)
THEOREM TypeCorrect == Spec => []TypeOK
<1>1. Init => TypeOK
  BY InitType
<1>2. TypeOK /\ [Next]_vars => TypeOK'
  BY NextType
<1> QED
  BY <1>1, <1>2, PTL DEF Spec

=============================================================================
