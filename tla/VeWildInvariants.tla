--------------------------- MODULE VeWildInvariants ---------------------------
(***************************************************************************)
(* The invariants of the veWILD contract beyond its types, for every value *)
(* of the constants: the ledgers agree, the locks add up, the accumulator  *)
(* is in order, and the contract is solvent.                               *)
(***************************************************************************)
EXTENDS VeWildProofs

-----------------------------------------------------------------------------
(* The inductive invariant.  Solvency needs the accumulator in whole units *)
(* (AccrualInOrder) and the supply the rate is divided by to be the sum of *)
(* the balances it is multiplied with (LedgersInSync).                     *)

IInv == TypeOK /\ LedgersInSync /\ LocksAddUp /\ AccrualInOrder /\ Solvency

(* What each account is owed once the accrual of this block is done.       *)
AccruedNow ==
  [a \in Accounts |->
     PendingReward(user_state[a], Accrue(token_state, height).reward_per_token)]

LEMMA UnitsOrdered ==
  ASSUME NEW s \in Nat, NEW q \in Nat, s * SCALE <= q * SCALE
  PROVE  s <= q
<1> SUFFICES ASSUME s >= q + 1 PROVE FALSE
  OBVIOUS
<1>1. (q + 1) * SCALE <= s * SCALE
  BY MulMono, ScaleAssumption
<1>2. (q + 1) * SCALE = q * SCALE + SCALE
  BY ScaleAssumption
<1>3. q * SCALE \in Nat /\ s * SCALE \in Nat
  BY ScaleAssumption
<1> QED
  BY <1>1, <1>2, <1>3, ScaleAssumption

(* An accrual credits k units to every veWILD there is, for the k that     *)
(* pending_reward_per_token computes.                                      *)
LEMMA AccrueUnits ==
  ASSUME TypeOK, AccrualInOrder
  PROVE  \E k \in Nat :
           /\ Accrue(token_state, height).reward_per_token
                = token_state.reward_per_token + k * SCALE
           /\ Accrue(token_state, height).reward_per_token % SCALE = 0
           /\ k * token_state.total_supply
                <= RewardRate(token_state, height)
                     * BlocksSinceAccrue(token_state, height)
           /\ \A a \in Accounts :
                /\ Accruals[a] \in Nat
                /\ AccruedNow[a] = Accruals[a] + k * Balances[a]
                /\ user_state[a].reward_snapshot
                     <= Accrue(token_state, height).reward_per_token
<1> DEFINE rpt == token_state.reward_per_token
           rpt1 == Accrue(token_state, height).reward_per_token
<1>1. token_state \in TokenState /\ height \in Nat /\ rpt \in Nat
  BY UintNat DEF TypeOK, TokenState
<1>2. PICK k \in Nat :
        /\ PendingRewardPerToken(token_state, height) = k * SCALE
        /\ k * token_state.total_supply
             <= RewardRate(token_state, height)
                  * BlocksSinceAccrue(token_state, height)
  BY <1>1, PendingUnits DEF AccrualInOrder
<1>3. rpt1 = rpt + k * SCALE
  BY <1>1, <1>2 DEF Accrue, TokenState
<1> DEFINE q == rpt \div SCALE
<1>4. q \in Nat /\ rpt = q * SCALE
  BY <1>1, ScaleAssumption, MultipleOf DEF AccrualInOrder
<1> HIDE DEF rpt, rpt1, q
<1>5. rpt1 = (q + k) * SCALE
  BY <1>3, <1>4, ScaleAssumption
<1>6. rpt1 % SCALE = 0
  <2>1. q + k \in Nat
    BY <1>4
  <2> QED
    BY <1>5, <2>1, ScaleAssumption, MultipleDiv
<1>7. ASSUME NEW a \in Accounts
      PROVE  /\ Accruals[a] \in Nat
             /\ AccruedNow[a] = Accruals[a] + k * Balances[a]
             /\ user_state[a].reward_snapshot <= rpt1
  <2> DEFINE us == user_state[a]
             snap == us.reward_snapshot
             t == snap \div SCALE
             b == us.balance
  <2>1. us \in UserState /\ snap \in Nat /\ b \in Nat
    BY UintNat DEF TypeOK, UserState
  <2>2. snap <= rpt /\ snap % SCALE = 0
    BY DEF AccrualInOrder, rpt
  <2> HIDE DEF us
  <2>3. t \in Nat /\ snap = t * SCALE
    BY <2>1, <2>2, ScaleAssumption, MultipleOf
  <2>4. us.reward_snapshot = t * SCALE
    BY <2>3
  <2> HIDE DEF snap, t, b
  <2>5. t <= q
    BY <1>4, <2>2, <2>3, UnitsOrdered
  <2>6. PendingReward(us, rpt) = (q - t) * b
    BY <1>4, <2>1, <2>3, <2>4, <2>5, PendingRewardUnits DEF b
  <2>7. PendingReward(us, rpt1) = ((q + k) - t) * b
    <3>1. q + k \in Nat /\ t <= q + k
      BY <1>4, <2>3, <2>5
    <3> QED
      BY <1>5, <2>1, <2>3, <2>4, <3>1, PendingRewardUnits DEF b
  <2>8. q - t \in Nat /\ (q - t) * b \in Nat
    <3>1. q - t \in Nat
      BY <1>4, <2>3, <2>5
    <3> QED
      BY <2>1, <3>1, MulNat
  <2>9. ((q + k) - t) * b = (q - t) * b + k * b
    BY <1>4, <2>1, <2>3
  <2>10. /\ Accruals[a] = PendingReward(us, rpt)
         /\ AccruedNow[a] = PendingReward(us, rpt1)
         /\ Balances[a] = b
    BY DEF Accruals, AccruedNow, Balances, us, b, rpt, rpt1
  <2>11. snap <= rpt1
    <3>1. k * SCALE \in Nat
      BY ScaleAssumption, MulNat
    <3> QED
      BY <1>1, <1>3, <2>1, <2>2, <3>1 DEF rpt
  <2> QED
    BY <2>6, <2>7, <2>8, <2>9, <2>10, <2>11 DEF snap, us
<1> QED
  BY <1>2, <1>3, <1>6, <1>7 DEF rpt, rpt1
(* Ledgers: a step of an account moves its balance and the supply by the   *)
(* same amount.                                                            *)
LEMMA LedgersStep ==
  ASSUME TypeOK, LedgersInSync, NEW a \in Accounts, NEW v, NEW d,
         AccountStep(a, v, d)
  PROVE  LedgersInSync'
<1>1. StepView(a, v, d) /\ Commit(a, v) /\ v \in Views
  BY DEF AccountStep, StepView
<1>2. token_state'.total_supply = ve_supply'
  <2>1. Accrue(token_state, height).total_supply = token_state.total_supply
        /\ v.token = NextToken(v.supply, d)
    BY <1>1 DEF StepView, Accrue, TypeOK, TokenState
  <2>2. NextToken(v.supply, d).total_supply = v.supply
    BY DEF NextToken, Accrue, TypeOK, TokenState
  <2> QED
    BY <1>1, <2>1, <2>2 DEF Commit
<1>3. Balances' = ve_balances'
  <2>1. \A b \in Accounts : user_state'[b].balance = ve_balances'[b]
    <3> SUFFICES ASSUME NEW b \in Accounts
                 PROVE  user_state'[b].balance = ve_balances'[b]
      OBVIOUS
    <3>1. CASE b = a
      BY <1>1, <3>1 DEF Commit, StepView, TypeOK
    <3>2. CASE b # a
      <4>1. user_state'[b] = user_state[b] /\ ve_balances'[b] = ve_balances[b]
        BY <1>1, <3>2 DEF Commit, TypeOK
      <4>2. user_state[b].balance = Balances[b] /\ Balances[b] = ve_balances[b]
        BY DEF LedgersInSync, Balances
      <4> QED
        BY <4>1, <4>2
    <3> QED
      BY <3>1, <3>2
  <2>2. ve_balances' \in [Accounts -> Uint128]
    BY AccountStepType DEF TypeOK
  <2> QED
    BY <2>1, <2>2 DEF Balances
<1>4. ve_supply' = Total(ve_balances')
  <2>1. /\ ve_balances \in [Accounts -> Int] /\ ve_balances' \in [Accounts -> Int]
        /\ ve_supply \in Int /\ v.supply \in Int /\ v.ve \in Int
        /\ ve_balances[a] \in Int
    BY <1>1, AccountStepType DEF TypeOK, Uint128, Views
  <2>2. \A b \in Accounts \ {a} : ve_balances'[b] = ve_balances[b]
    BY <1>1 DEF Commit, TypeOK
  <2>3. ve_balances'[a] = v.ve /\ ve_supply' = v.supply
    BY <1>1 DEF Commit, TypeOK
  <2>4. Total(ve_balances') = Total(ve_balances) - ve_balances[a] + ve_balances'[a]
    BY <2>1, <2>2, SumUpdate, AccountsAssumption DEF Total
  <2>5. v.supply - ve_supply = v.ve - ve_balances[a]
    BY <1>1 DEF StepView
  <2>6. ve_supply = Total(ve_balances)
    BY DEF LedgersInSync
  <2> QED
    BY <2>1, <2>3, <2>4, <2>5, <2>6
<1> QED
  BY <1>2, <1>3, <1>4 DEF LedgersInSync

(* Locks: a step of an account moves its lock and total_locked by d.       *)
LEMMA LocksStep ==
  ASSUME TypeOK, LocksAddUp, NEW a \in Accounts, NEW v, NEW d,
         AccountStep(a, v, d)
  PROVE  LocksAddUp' /\ token_state'.total_locked = token_state.total_locked + d
<1>1. StepView(a, v, d) /\ Commit(a, v) /\ v \in Views /\ d \in Int
  BY DEF AccountStep, StepView
<1>2. token_state'.total_locked = token_state.total_locked + d
  <2>1. NextToken(v.supply, d).total_locked = token_state.total_locked + d
    BY DEF NextToken, Accrue, TypeOK, TokenState
  <2> QED
    BY <1>1, <2>1 DEF Commit, StepView
<1>3. Locked \in [Accounts -> Int] /\ Locked' \in [Accounts -> Int]
  <2>1. TypeOK'
    BY AccountStepType
  <2>2. Locked \in [Accounts -> Uint128] /\ Locked' \in [Accounts -> Uint128]
    BY <2>1 DEF TypeOK, UserState, Locked
  <2> QED
    BY <2>2 DEF Uint128
<1>4. \A b \in Accounts \ {a} : Locked'[b] = Locked[b]
  BY <1>1 DEF Commit, TypeOK, Locked
<1>5. Locked'[a] = Locked[a] + d
  BY <1>1 DEF Commit, TypeOK, Locked, StepView
<1>6. Total(Locked') = Total(Locked) - Locked[a] + Locked'[a]
  BY <1>3, <1>4, SumUpdate, AccountsAssumption DEF Total
<1>7. Total(Locked) \in Int /\ Locked[a] \in Int
  BY <1>3, SumInt, AccountsAssumption DEF Total
<1> QED
  BY <1>1, <1>2, <1>5, <1>6, <1>7 DEF LocksAddUp
(* The accumulator and the fresh snapshot after an account's step, and the *)
(* clocks, which only Accrue has moved.                                    *)
LEMMA TokenAfterStep ==
  ASSUME TypeOK, NEW a \in Accounts, NEW v, NEW d, AccountStep(a, v, d)
  PROVE  LET ts == Accrue(token_state, height)
         IN  /\ token_state'.reward_per_token    = ts.reward_per_token
             /\ token_state'.last_accrue_block   = height
             /\ token_state'.last_income_block   = token_state.last_income_block
             /\ token_state'.distribution_period = token_state.distribution_period
             /\ token_state'.reward_rate_stored  = token_state.reward_rate_stored
             /\ height' = height
             /\ user_state'[a].reward_snapshot = ts.reward_per_token
             /\ \A b \in Accounts \ {a} : user_state'[b] = user_state[b]
<1> DEFINE ts == Accrue(token_state, height)
<1>1. StepView(a, v, d) /\ Commit(a, v) /\ v.token = NextToken(v.supply, d)
  BY DEF AccountStep, StepView
<1>2. /\ v.token.reward_per_token    = ts.reward_per_token
      /\ v.token.last_accrue_block   = height
      /\ v.token.last_income_block   = token_state.last_income_block
      /\ v.token.distribution_period = token_state.distribution_period
      /\ v.token.reward_rate_stored  = token_state.reward_rate_stored
  <2>1. NextToken(v.supply, d).last_accrue_block = height
    BY DEF NextToken, Accrue, TypeOK, TokenState
  <2>2. /\ NextToken(v.supply, d).reward_per_token = ts.reward_per_token
        /\ NextToken(v.supply, d).last_income_block = token_state.last_income_block
        /\ NextToken(v.supply, d).distribution_period = token_state.distribution_period
        /\ NextToken(v.supply, d).reward_rate_stored = token_state.reward_rate_stored
    BY DEF NextToken, Accrue, TypeOK, TokenState
  <2> QED
    BY <1>1, <2>1, <2>2
<1>3. v.user.reward_snapshot = ts.reward_per_token
  BY <1>1, <1>2 DEF StepView
<1> QED
  BY <1>1, <1>2, <1>3 DEF Commit, TypeOK, chain

(* Order: the accumulator grows by whole units, and the snapshot that      *)
(* moves meets it.                                                         *)
LEMMA OrderStep ==
  ASSUME TypeOK, AccrualInOrder, NEW a \in Accounts, NEW v, NEW d,
         AccountStep(a, v, d)
  PROVE  AccrualInOrder'
<1> DEFINE rpt1 == Accrue(token_state, height).reward_per_token
<1>1. /\ rpt1 % SCALE = 0
      /\ \A b \in Accounts : user_state[b].reward_snapshot <= rpt1
  BY AccrueUnits
<1>2. rpt1 \in Nat
  BY AccountStepType, TokenAfterStep, UintNat DEF TypeOK, TokenState
<1>3. /\ token_state'.reward_per_token    = rpt1
      /\ token_state'.last_accrue_block   = height
      /\ token_state'.last_income_block   = token_state.last_income_block
      /\ token_state'.distribution_period = token_state.distribution_period
      /\ height' = height
      /\ user_state'[a].reward_snapshot = rpt1
      /\ \A b \in Accounts \ {a} : user_state'[b] = user_state[b]
  BY TokenAfterStep
<1> HIDE DEF rpt1
<1>4. /\ token_state.last_income_block <= height
      /\ height <= height
      /\ token_state.distribution_period # 0
  BY DEF AccrualInOrder, TypeOK, TokenState
<1>5. ASSUME NEW b \in Accounts
      PROVE  /\ user_state'[b].reward_snapshot <= rpt1
             /\ user_state'[b].reward_snapshot % SCALE = 0
  BY <1>1, <1>2, <1>3 DEF AccrualInOrder
<1> QED
  BY <1>1, <1>3, <1>4, <1>5 DEF AccrualInOrder

(* Solvency, half way: the accrual of this block turns unvested income     *)
(* into accrued rewards and keeps the rest, never adding to the two.       *)
LEMMA AccrueCovered ==
  ASSUME TypeOK, LedgersInSync, AccrualInOrder
  PROVE  /\ Total(Accruals) \in Nat /\ Total(AccruedNow) \in Nat
         /\ AccruedNow \in [Accounts -> Nat]
         /\ Total(AccruedNow) + UnvestedIncome(token_state, height)
              <= Total(Accruals) + Unvested
<1> DEFINE credited == RewardRate(token_state, height)
                         * BlocksSinceAccrue(token_state, height)
<1>1. PICK k \in Nat :
        /\ k * token_state.total_supply <= credited
        /\ \A a \in Accounts :
             /\ Accruals[a] \in Nat
             /\ AccruedNow[a] = Accruals[a] + k * Balances[a]
  BY AccrueUnits
<1>2. /\ token_state \in TokenState /\ height \in Nat
      /\ token_state.last_income_block <= token_state.last_accrue_block
      /\ token_state.last_accrue_block <= height
      /\ token_state.last_accrue_block \in Nat
  BY DEF TypeOK, AccrualInOrder, TokenState
<1>3. credited + UnvestedIncome(token_state, height) <= Unvested
  BY <1>2, VestedBound DEF Unvested
<1>4. Balances \in [Accounts -> Nat]
  BY UintNat DEF Balances, TypeOK, UserState
<1>5. Accruals \in [Accounts -> Nat]
  <2>1. \A a \in Accounts : Accruals[a] \in Nat
    BY <1>1
  <2> QED
    BY <2>1 DEF Accruals
<1>6. Accruals \in [Accounts -> Int] /\ Balances \in [Accounts -> Int] /\ k \in Int
  BY <1>4, <1>5
<1>7. Total(AccruedNow) = Total(Accruals) + k * Total(Balances)
  <2>1. \A a \in Accounts : AccruedNow[a] = Accruals[a] + k * Balances[a]
    BY <1>1
  <2> QED
    BY <1>6, <2>1, SumLinear, AccountsAssumption DEF Total
<1>8. Total(Balances) = token_state.total_supply
  BY DEF LedgersInSync
<1>9. Total(Accruals) \in Nat /\ Total(Balances) \in Nat
  BY <1>4, <1>5, SumNat, AccountsAssumption DEF Total
<1>10. k * Total(Balances) \in Nat
  BY <1>9, MulNat
<1>11. UnvestedIncome(token_state, height) \in Nat /\ Unvested \in Nat
  BY <1>2, UnvestedIncomeType DEF Unvested
<1>12. credited \in Int
  <2>1. RewardRate(token_state, height) \in Nat
    BY <1>2, RewardRateType, UintNat
  <2>2. BlocksSinceAccrue(token_state, height) \in Nat
    BY <1>2 DEF BlocksSinceAccrue
  <2> QED
    BY <2>1, <2>2, MulNat
<1>13. AccruedNow \in [Accounts -> Nat]
  <2>1. \A a \in Accounts : AccruedNow[a] \in Nat
    <3> SUFFICES ASSUME NEW a \in Accounts PROVE AccruedNow[a] \in Nat
      OBVIOUS
    <3>1. k * Balances[a] \in Nat
      BY <1>4, MulNat
    <3> QED
      BY <1>1, <3>1
  <2> QED
    BY <2>1 DEF AccruedNow
<1> HIDE DEF credited
<1>14. k * Total(Balances) <= credited
  BY <1>1, <1>8
<1> QED
  BY <1>3, <1>7, <1>9, <1>10, <1>11, <1>12, <1>13, <1>14
(* What a's handler moves: a is paid what has accrued to it.               *)
LEMMA ReserveStep ==
  ASSUME TypeOK, NEW a \in Accounts, NEW v, NEW d, AccountStep(a, v, d)
  PROVE  reserve' = reserve + d - AccruedNow[a]
<1>1. PICK paid \in Nat, taken \in Nat :
        /\ Transfers(a, paid, taken)
        /\ taken - paid = d - ClaimReward(View(a), height)
  BY DEF AccountStep
<1>2. ClaimReward(View(a), height) = AccruedNow[a]
  BY DEF ClaimReward, View, AccruedNow
<1>3. /\ PendingRewardFits(user_state[a], Accrue(token_state, height).reward_per_token)
      /\ AccrueFits(token_state, height)
      /\ d \in Int
  BY DEF AccountStep
<1>4. ClaimReward(View(a), height) \in Nat
  <2>1. View(a).token = token_state /\ View(a).user = user_state[a]
    BY DEF View
  <2> QED
    BY <1>3, <2>1, ViewType, ClaimRewardType DEF TypeOK
<1>5. reserve \in Nat /\ reserve' = reserve - paid + taken
  BY <1>1 DEF Transfers, TypeOK
<1> HIDE DEF AccountStep, Transfers
<1> QED
  BY <1>1, <1>2, <1>3, <1>4, <1>5

(* An account's step settles the account: it is owed nothing afterwards,   *)
(* and the others are owed what has accrued by now.                        *)
LEMMA AccrualsStep ==
  ASSUME TypeOK, NEW a \in Accounts, NEW v, NEW d, AccountStep(a, v, d)
  PROVE  /\ Accruals'[a] = 0
         /\ \A b \in Accounts \ {a} : Accruals'[b] = AccruedNow[b]
<1> DEFINE rpt1 == Accrue(token_state, height).reward_per_token
<1>1. TypeOK'
  BY AccountStepType
<1>2. /\ token_state'.reward_per_token = rpt1
      /\ user_state'[a].reward_snapshot = rpt1
      /\ \A b \in Accounts \ {a} : user_state'[b] = user_state[b]
  BY TokenAfterStep
<1>3. Accruals'[a] = 0
  <2>1. Accruals'[a]
          = ((rpt1 - rpt1) * user_state'[a].balance) \div SCALE
    BY <1>2 DEF Accruals, PendingReward
  <2>2. rpt1 \in Int /\ user_state'[a].balance \in Int
    <3>1. /\ token_state'.reward_per_token \in Uint128
          /\ user_state'[a].balance \in Uint128
      BY <1>1 DEF TypeOK, TokenState, UserState
    <3>2. token_state'.reward_per_token = rpt1
      BY <1>2
    <3> HIDE DEF rpt1
    <3>3. rpt1 \in Nat /\ user_state'[a].balance \in Nat
      BY <3>1, <3>2, UintNat
    <3> QED
      BY <3>3
  <2> HIDE DEF rpt1
  <2>3. (rpt1 - rpt1) * user_state'[a].balance = 0
    BY <2>2
  <2>4. 0 \div SCALE = 0
    BY ScaleAssumption, MultipleDiv
  <2> QED
    BY <2>1, <2>3, <2>4
<1>4. \A b \in Accounts \ {a} : Accruals'[b] = AccruedNow[b]
  BY <1>2 DEF Accruals, AccruedNow
<1> QED
  BY <1>3, <1>4

(* Solvency: a is settled, the others are owed what has accrued by now,    *)
(* and the contract pays a no more than this.                              *)
LEMMA SolvencyStep ==
  ASSUME TypeOK, LedgersInSync, LocksAddUp, AccrualInOrder, Solvency,
         NEW a \in Accounts, NEW v, NEW d, AccountStep(a, v, d)
  PROVE  Solvency'
<1>1. /\ Total(Accruals) \in Nat /\ Total(AccruedNow) \in Nat
      /\ AccruedNow \in [Accounts -> Nat]
      /\ Total(AccruedNow) + UnvestedIncome(token_state, height)
           <= Total(Accruals) + Unvested
  BY AccrueCovered
<1>2. /\ token_state'.last_accrue_block = height
      /\ token_state'.last_income_block = token_state.last_income_block
      /\ token_state'.distribution_period = token_state.distribution_period
      /\ token_state'.reward_rate_stored  = token_state.reward_rate_stored
  BY TokenAfterStep
<1>3. /\ Accruals'[a] = 0
      /\ \A b \in Accounts \ {a} : Accruals'[b] = AccruedNow[b]
  BY AccrualsStep
<1>4. Accruals' \in [Accounts -> Int] /\ AccruedNow \in [Accounts -> Int]
  <2>1. \A b \in Accounts : Accruals'[b] \in Int
    BY <1>1, <1>3
  <2> QED
    BY <1>1, <2>1 DEF Accruals
<1>5. Total(Accruals') = Total(AccruedNow) - AccruedNow[a] + 0
  BY <1>3, <1>4, SumUpdate, AccountsAssumption DEF Total
<1>6. Unvested' = UnvestedIncome(token_state, height)
  BY <1>2 DEF Unvested, UnvestedIncome, RemainingBlocks
<1>7. reserve' = reserve + d - AccruedNow[a]
  BY ReserveStep
<1>8. token_state'.total_locked = token_state.total_locked + d
  BY LocksStep
<1>9. /\ UnvestedIncome(token_state, height) \in Nat /\ Unvested \in Nat
      /\ token_state.total_locked \in Nat /\ reserve \in Nat
      /\ AccruedNow[a] \in Nat /\ d \in Int
  BY <1>1, UnvestedIncomeType, UintNat DEF AccountStep, TypeOK, TokenState, Unvested
<1>10. reserve >= token_state.total_locked + Total(Accruals) + Unvested
  BY DEF Solvency
<1> HIDE DEF Total, AccruedNow, Accruals, Unvested
<1>11. reserve' >= token_state'.total_locked + Total(Accruals') + Unvested'
  BY <1>1, <1>5, <1>6, <1>7, <1>8, <1>9, <1>10
<1> QED
  BY <1>11 DEF Solvency

(* The whole invariant over an account's step.                             *)
LEMMA InvariantAccountStep ==
  ASSUME IInv, NEW a \in Accounts, NEW v, NEW d, AccountStep(a, v, d)
  PROVE  IInv'
BY AccountStepType, LedgersStep, LocksStep, OrderStep, SolvencyStep DEF IInv

-----------------------------------------------------------------------------
(* The other steps.                                                        *)

(* AddIncome and SetDistributionPeriod accrue and re-base the rate over    *)
(* some period; the contract takes in the income they add.                 *)
RebaseStep(income, period) ==
  /\ income \in Uint128 /\ period \in Nat \ {0}
  /\ AccrueFits(token_state, height)
  /\ CommitToken(UpdateRewardRate(Accrue(token_state, height),
                                  income, period, height))
  /\ reserve' = reserve + income

LEMMA AddIncomeRebases ==
  ASSUME TypeOK, AccrualInOrder, NEW a \in Accounts,
         NEW amount \in IncomeAmounts, AddIncome(a, amount)
  PROVE  RebaseStep(amount, token_state.distribution_period)
<1>1. amount \in Uint128 /\ amount \in Nat /\ reserve \in Nat
  BY InputsAssumption, UintNat DEF TypeOK
<1>2. reserve' = reserve - 0 + amount
  BY DEF AddIncome, Transfers
<1>3. token_state.distribution_period \in Nat \ {0}
  BY DEF TypeOK, TokenState, AccrualInOrder
<1> QED
  BY <1>1, <1>2, <1>3 DEF AddIncome, AddIncomeAccepted, IncomeAdded, RebaseStep

LEMMA SetPeriodRebases ==
  ASSUME TypeOK, NEW blocks \in Periods, ExecuteSetDistributionPeriod(blocks)
  PROVE  RebaseStep(0, blocks)
<1>1. reserve \in Nat /\ reserve' = reserve
  BY DEF TypeOK, ExecuteSetDistributionPeriod, funds
<1>2. blocks \in Nat \ {0}
  BY InputsAssumption DEF ExecuteSetDistributionPeriod, SetDistributionPeriodFits
<1>3. /\ AccrueFits(token_state, height)
      /\ CommitToken(UpdateRewardRate(Accrue(token_state, height),
                                      0, blocks, height))
  BY DEF ExecuteSetDistributionPeriod, SetDistributionPeriodFits,
         SetDistributionPeriod
<1> QED
  BY <1>1, <1>2, <1>3, UintNat DEF RebaseStep

LEMMA InvariantRebaseStep ==
  ASSUME IInv, TypeOK', NEW income, NEW period, RebaseStep(income, period)
  PROVE  IInv'
<1> DEFINE ts == Accrue(token_state, height)
           w == UpdateRewardRate(ts, income, period, height)
<1>1. /\ token_state' = w /\ height' = height
      /\ UNCHANGED <<user_state, user_keys, ve_supply, ve_balances>>
      /\ reserve' = reserve + income
      /\ income \in Nat /\ period \in Nat \ {0} /\ height \in Nat
      /\ token_state \in TokenState
  BY UintNat DEF RebaseStep, CommitToken, chain, IInv, TypeOK
<1>2. ts \in TokenState
  BY <1>1, AccrueType DEF RebaseStep
<1>3. /\ w.total_supply = ts.total_supply /\ w.total_locked = ts.total_locked
      /\ w.reward_per_token = ts.reward_per_token
      /\ w.last_accrue_block = ts.last_accrue_block
      /\ w.last_income_block = height /\ w.distribution_period = period
  <2> HIDE DEF ts
  <2> QED
    BY <1>2 DEF UpdateRewardRate, TokenState
<1>4. /\ ts.total_supply = token_state.total_supply
      /\ ts.total_locked = token_state.total_locked
      /\ ts.last_accrue_block = height
  BY <1>1 DEF Accrue, TokenState
<1>5. /\ ts.reward_rate_stored = token_state.reward_rate_stored
      /\ ts.last_income_block = token_state.last_income_block
      /\ ts.distribution_period = token_state.distribution_period
  BY <1>1 DEF Accrue, TokenState
<1>6. UnvestedIncome(ts, height) = UnvestedIncome(token_state, height)
  <2> HIDE DEF ts
  <2> QED
    BY <1>5 DEF UnvestedIncome, RemainingBlocks
<1> HIDE DEF w
<1>7. LedgersInSync'
  BY <1>1, <1>3, <1>4 DEF IInv, LedgersInSync, Balances, Total
<1>8. LocksAddUp'
  BY <1>1, <1>3, <1>4 DEF IInv, LocksAddUp, Locked, Total
<1>9. AccrualInOrder'
  <2>1. /\ ts.reward_per_token % SCALE = 0
        /\ \A a \in Accounts :
             user_state[a].reward_snapshot <= ts.reward_per_token
    BY AccrueUnits DEF IInv
  <2> HIDE DEF ts
  <2> QED
    BY <1>1, <1>3, <1>4, <2>1 DEF IInv, AccrualInOrder
<1>10. Solvency'
  <2>1. /\ Total(Accruals) \in Nat /\ Total(AccruedNow) \in Nat
        /\ Total(AccruedNow) + UnvestedIncome(token_state, height)
             <= Total(Accruals) + Unvested
    BY AccrueCovered DEF IInv
  <2>2. Accruals' = AccruedNow
    BY <1>1, <1>3 DEF Accruals, AccruedNow
  <2>3. Unvested' <= UnvestedIncome(token_state, height) + income
    <3>1. UnvestedIncome(UpdateRewardRate(ts, income, period, height), height)
            <= UnvestedIncome(ts, height) + income
      <4> HIDE DEF ts
      <4> QED
        BY <1>1, <1>2, RebasedIncome
    <3>2. Unvested' = UnvestedIncome(w, height)
      BY <1>1, <1>3, <1>4 DEF Unvested
    <3> QED
      BY <1>6, <3>1, <3>2 DEF w
  <2>4. /\ UnvestedIncome(token_state, height) \in Nat /\ Unvested \in Nat
        /\ Unvested' \in Nat
        /\ token_state.total_locked \in Nat /\ reserve \in Nat
    <3>1. token_state' \in TokenState /\ token_state'.last_accrue_block \in Nat
      BY DEF TypeOK, TokenState
    <3>2. token_state.last_accrue_block \in Nat /\ token_state.total_locked \in Nat
      BY <1>1, UintNat DEF TokenState
    <3> QED
      BY <1>1, <3>1, <3>2, UnvestedIncomeType DEF Unvested, IInv, TypeOK
  <2>5. token_state'.total_locked = token_state.total_locked
    BY <1>1, <1>3, <1>4
  <2>6. reserve >= token_state.total_locked + Total(Accruals) + Unvested
    BY DEF IInv, Solvency
  <2> HIDE DEF Total, AccruedNow, Accruals, Unvested
  <2>7. reserve' >= token_state'.total_locked + Total(AccruedNow) + Unvested'
    BY <1>1, <2>1, <2>3, <2>4, <2>5, <2>6
  <2>8. Total(Accruals') = Total(AccruedNow)
    BY <2>2
  <2> QED
    BY <2>7, <2>8 DEF Solvency
<1> QED
  BY <1>7, <1>8, <1>9, <1>10 DEF IInv
(* Wild in, and time on: neither touches what the invariant is about,      *)
(* except that they add to the reserve and to the height.                  *)
LEMMA InvariantEnvStep ==
  ASSUME IInv, TypeOK', UNCHANGED contract, reserve' >= reserve, height' >= height
  PROVE  IInv'
<1>1. UNCHANGED <<token_state, user_state, ve_supply, ve_balances>>
  BY DEF contract
<1>2. LedgersInSync'
  BY <1>1 DEF IInv, LedgersInSync, Balances, Total
<1>3. LocksAddUp'
  BY <1>1 DEF IInv, LocksAddUp, Locked, Total
<1>4. AccrualInOrder'
  BY <1>1 DEF IInv, AccrualInOrder, TypeOK, TokenState
<1>5. Solvency'
  <2>1. Total(Accruals') = Total(Accruals) /\ Unvested' = Unvested
    BY <1>1 DEF Accruals, Unvested
  <2>2. /\ Total(Accruals) \in Nat /\ Unvested \in Nat
        /\ token_state.total_locked \in Nat
        /\ reserve \in Nat /\ reserve' \in Nat
    <3>1. token_state \in TokenState /\ token_state.last_accrue_block \in Nat
          /\ token_state.total_locked \in Nat
      BY UintNat DEF IInv, TypeOK, TokenState
    <3> QED
      BY <3>1, AccrueCovered, UnvestedIncomeType DEF IInv, TypeOK, Unvested
  <2> HIDE DEF Total, Accruals, Unvested
  <2> QED
    BY <1>1, <2>1, <2>2 DEF IInv, Solvency
<1> QED
  BY <1>2, <1>3, <1>4, <1>5 DEF IInv

LEMMA InitInvariant == Init => IInv
<1> SUFFICES ASSUME Init PROVE IInv
  OBVIOUS
<1>1. TypeOK
  BY InitType
<1>2. PICK blocks \in Periods :
        /\ SetDistributionPeriodFits(DefaultTokenState, height, blocks)
        /\ token_state = SetDistributionPeriod(DefaultTokenState, height, blocks)
  BY DEF Init
<1>3. blocks \in Nat \ {0} /\ height \in Nat
  BY <1>1, <1>2, InputsAssumption DEF TypeOK, SetDistributionPeriodFits
<1> DEFINE ts == Accrue(DefaultTokenState, height)
<1>4. ts = [DefaultTokenState EXCEPT !.last_accrue_block = height]
  <2>1. PendingRewardPerToken(DefaultTokenState, height) = 0
    BY DEF PendingRewardPerToken, DefaultTokenState
  <2>2. DefaultTokenState.reward_per_token + PendingRewardPerToken(DefaultTokenState, height)
          = DefaultTokenState.reward_per_token
    BY <2>1 DEF DefaultTokenState
  <2>3. DefaultTokenState \in TokenState
    BY DefaultTokenStateType
  <2> QED
    BY <2>2, <2>3 DEF Accrue, TokenState
<1>5. /\ token_state.total_supply = 0 /\ token_state.total_locked = 0
      /\ token_state.reward_per_token = 0
      /\ token_state.last_accrue_block = height
      /\ token_state.last_income_block = height
      /\ token_state.distribution_period = blocks
      /\ token_state.reward_rate_stored = 0
  <2>1. token_state = UpdateRewardRate(ts, 0, blocks, height)
    BY <1>2 DEF SetDistributionPeriod
  <2>2. ts.reward_rate_stored = 0
    BY <1>4 DEF DefaultTokenState
  <2>3. UnvestedIncome(ts, height) = 0
    <3>1. RemainingBlocks(ts, height) \in Nat
      BY <1>3, <1>4 DEF RemainingBlocks, DefaultTokenState
    <3> QED
      BY <2>2, <3>1 DEF UnvestedIncome
  <2>4. (0 + 0) \div blocks = 0
    BY <1>3, MultipleDiv
  <2> QED
    BY <1>4, <2>1, <2>3, <2>4 DEF UpdateRewardRate, DefaultTokenState
<1>6. /\ \A a \in Accounts : user_state[a] = DefaultUserState
      /\ ve_supply = 0 /\ ve_balances = [a \in Accounts |-> 0]
      /\ reserve = 0
  BY DEF Init
<1>7. 0 \div SCALE = 0 /\ 0 % SCALE = 0
  BY ScaleAssumption, MultipleDiv
<1>8. LedgersInSync
  <2>1. Total(ve_balances) = 0
    BY <1>6, SumZero, AccountsAssumption DEF Total
  <2>2. Balances = ve_balances
    BY <1>6 DEF Balances, DefaultUserState
  <2> QED
    BY <1>5, <1>6, <2>1, <2>2 DEF LedgersInSync
<1>9. LocksAddUp
  <2>1. \A a \in Accounts : Locked[a] = 0
    BY <1>6 DEF Locked, DefaultUserState
  <2>2. Total(Locked) = 0
    BY <2>1, SumZero, AccountsAssumption DEF Total
  <2> QED
    BY <1>5, <2>2 DEF LocksAddUp
<1>10. AccrualInOrder
  BY <1>3, <1>5, <1>6, <1>7 DEF AccrualInOrder, DefaultUserState
<1>11. Solvency
  <2>1. \A a \in Accounts : Accruals[a] = 0
    BY <1>5, <1>6, <1>7 DEF Accruals, PendingReward, DefaultUserState
  <2>2. Total(Accruals) = 0
    BY <2>1, SumZero, AccountsAssumption DEF Total
  <2>3. Unvested = 0
    <3>1. RemainingBlocks(token_state, height) \in Nat
      BY <1>1, RemainingBlocksType DEF TypeOK
    <3> QED
      BY <1>5, <3>1 DEF Unvested, UnvestedIncome
  <2> QED
    BY <1>5, <1>6, <2>2, <2>3 DEF Solvency
<1> QED
  BY <1>1, <1>8, <1>9, <1>10, <1>11 DEF IInv

LEMMA NextInvariant == IInv /\ [Next]_vars => IInv'
<1> SUFFICES ASSUME IInv, [Next]_vars PROVE IInv'
  OBVIOUS
<1>1. TypeOK /\ TypeOK'
  BY NextType DEF IInv
<1>2. reserve \in Nat /\ height \in Nat
  BY <1>1 DEF TypeOK
<1>3. ASSUME NEW a \in Accounts, NEW v \in Views, NEW d \in Int,
             AccountStep(a, v, d)
      PROVE  IInv'
  BY <1>3, InvariantAccountStep
<1>4. ASSUME NEW a \in Accounts, NEW amount \in IncomeAmounts, AddIncome(a, amount)
      PROVE  IInv'
  BY <1>1, <1>4, AddIncomeRebases, InvariantRebaseStep DEF IInv
<1>5. ASSUME NEW blocks \in Periods, ExecuteSetDistributionPeriod(blocks)
      PROVE  IInv'
  BY <1>1, <1>5, SetPeriodRebases, InvariantRebaseStep
<1>6. ASSUME NEW a \in Accounts, NEW amount \in GiftAmounts, TopUp(a, amount)
      PROVE  IInv'
  <2>1. amount \in Nat /\ reserve' = reserve - 0 + amount
    BY <1>6, InputsAssumption, UintNat DEF TopUp, Transfers
  <2>2. reserve' >= reserve /\ height' >= height /\ UNCHANGED contract
    BY <1>2, <1>6, <2>1 DEF TopUp, chain
  <2> QED
    BY <1>1, <2>2, InvariantEnvStep
<1>7. ASSUME NEW seconds \in TimeSteps, NextBlock(seconds)
      PROVE  IInv'
  <2>1. reserve' >= reserve /\ height' >= height /\ UNCHANGED contract
    BY <1>2, <1>7 DEF NextBlock, funds
  <2> QED
    BY <1>1, <2>1, InvariantEnvStep
<1>8. CASE UNCHANGED vars
  <2>1. reserve' >= reserve /\ height' >= height /\ UNCHANGED contract
    BY <1>2, <1>8 DEF vars, chain, funds
  <2> QED
    BY <1>1, <2>1, InvariantEnvStep
<1> QED
  BY <1>1, <1>3, <1>4, <1>5, <1>6, <1>7, <1>8, NextCases

-----------------------------------------------------------------------------
(* The theorems.                                                           *)

(* The five parts of the invariant hold together in every reachable state. *)
THEOREM Invariant == Spec => []IInv
<1>1. Init => IInv
  BY InitInvariant
<1>2. IInv /\ [Next]_vars => IInv'
  BY NextInvariant
<1> QED
  BY <1>1, <1>2, PTL DEF Spec

(* The contract's copies of veWILD balances and supply never part from     *)
(* cw20-base's ledger, and the ledger adds up.                             *)
THEOREM LedgersAgree == Spec => []LedgersInSync
<1>1. IInv => LedgersInSync
  BY DEF IInv
<1> QED
  BY <1>1, Invariant, PTL

(* total_locked is always the sum of the locks.                            *)
THEOREM LocksTotalled == Spec => []LocksAddUp
<1>1. IInv => LocksAddUp
  BY DEF IInv
<1> QED
  BY <1>1, Invariant, PTL

(* The clocks, the accumulator and the snapshots are always in order, so   *)
(* that neither accrue nor pending_reward ever subtracts below zero or     *)
(* rounds.                                                                 *)
THEOREM AccumulatorInOrder == Spec => []AccrualInOrder
<1>1. IInv => AccrualInOrder
  BY DEF IInv
<1> QED
  BY <1>1, Invariant, PTL

(* The contract always holds enough WILD for all locks, all rewards that   *)
(* have accrued, and all income that has not vested yet.                   *)
THEOREM Solvent == Spec => []Solvency
<1>1. IInv => Solvency
  BY DEF IInv
<1> QED
  BY <1>1, Invariant, PTL

(* Rewards that have vested up to this very block, and all locks, are in   *)
(* the reserve.                                                            *)
LEMMA AccruedNowCovered ==
  ASSUME IInv
  PROVE  /\ Total(AccruedNow) \in Nat
         /\ AccruedNow \in [Accounts -> Nat]
         /\ reserve >= token_state.total_locked + Total(AccruedNow)
<1>1. TypeOK /\ LedgersInSync /\ AccrualInOrder /\ Solvency
  BY DEF IInv
<1>2. /\ Total(Accruals) \in Nat /\ Total(AccruedNow) \in Nat
      /\ AccruedNow \in [Accounts -> Nat]
      /\ Total(AccruedNow) + UnvestedIncome(token_state, height)
           <= Total(Accruals) + Unvested
  BY <1>1, AccrueCovered
<1>3. /\ UnvestedIncome(token_state, height) \in Nat
      /\ token_state.total_locked \in Nat /\ reserve \in Nat
      /\ Unvested \in Nat
  <2>1. /\ token_state \in TokenState /\ height \in Nat
        /\ token_state.last_accrue_block \in Nat
        /\ token_state.total_locked \in Nat /\ reserve \in Nat
    BY <1>1, UintNat DEF TypeOK, TokenState
  <2> QED
    BY <2>1, UnvestedIncomeType DEF Unvested
<1> HIDE DEF Total, AccruedNow, Accruals, Unvested
<1> QED
  BY <1>1, <1>2, <1>3 DEF Solvency

(* What the query quotes is what an accrual would leave the account owed.  *)
LEMMA QuoteIsAccrual ==
  ASSUME TypeOK, NEW a \in Accounts
  PROVE  PendingAccountReward(a) = AccruedNow[a]
<1>1. QuotedRewardPerToken = Accrue(token_state, height).reward_per_token
  BY DEF QuotedRewardPerToken, Accrue, TypeOK, TokenState
<1> QED
  BY <1>1 DEF PendingAccountReward, AccruedNow

(* What the query quotes to all accounts in this very block is what they   *)
(* would be owed after an accrual now: the contract can always pay all of  *)
(* it and return all locks.                                                *)
THEOREM QuotesAlwaysFunded == Spec => []QuotesFunded
<1>1. IInv => QuotesFunded
  <2> SUFFICES ASSUME IInv PROVE QuotesFunded
    OBVIOUS
  <2>1. Quotes = AccruedNow
    <3>1. \A a \in Accounts : PendingAccountReward(a) = AccruedNow[a]
      BY QuoteIsAccrual DEF IInv
    <3> QED
      BY <3>1 DEF Quotes, AccruedNow
  <2> QED
    BY <2>1, AccruedNowCovered DEF QuotesFunded
<1> QED
  BY <1>1, Invariant, PTL
=============================================================================
