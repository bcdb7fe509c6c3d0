-------------------------- MODULE VeInternalProofs --------------------------
(***************************************************************************)
(* Lemmas about the operators of VeState and VeInternal: what each one     *)
(* returns when its XFits or XOk condition holds.                          *)
(***************************************************************************)
EXTENDS VeInternal, TLAPS

-----------------------------------------------------------------------------
(* Arithmetic.                                                             *)

LEMMA DivBound ==
  ASSUME NEW n \in Nat, NEW d \in Nat \ {0}
  PROVE  n \div d \in Nat /\ n \div d <= n /\ (n \div d) * d <= n
OBVIOUS

LEMMA MulNat ==
  ASSUME NEW m \in Nat, NEW n \in Nat
  PROVE  m * n \in Nat
OBVIOUS

LEMMA MulMono ==
  ASSUME NEW m \in Int, NEW n \in Int, m <= n, NEW k \in Nat
  PROVE  m * k <= n * k
OBVIOUS

LEMMA MulDistributes ==
  ASSUME NEW k \in Int, NEW m \in Int, NEW n \in Int
  PROVE  k * (m + n) = k * m + k * n
OBVIOUS

LEMMA DivMod ==
  ASSUME NEW n \in Nat, NEW d \in Nat \ {0}
  PROVE  /\ n \div d \in Nat
         /\ n % d \in 0 .. d - 1
         /\ n = (n \div d) * d + (n % d)
OBVIOUS

LEMMA DivisionUnique ==
  ASSUME NEW q \in Int, NEW p \in Int, NEW d \in Nat \ {0},
         NEW r \in 0 .. d - 1, q * d = p * d + r
  PROVE  q = p /\ r = 0
<1>1. CASE q >= p + 1
  <2>1. (p + 1) * d <= q * d
    BY <1>1, MulMono
  <2>2. (p + 1) * d = p * d + d
    OBVIOUS
  <2>3. q * d \in Int /\ p * d \in Int
    OBVIOUS
  <2> QED
    BY <2>1, <2>2, <2>3
<1>2. CASE q <= p - 1
  <2>1. q * d <= (p - 1) * d
    BY <1>2, MulMono
  <2>2. (p - 1) * d = p * d - d
    OBVIOUS
  <2>3. q * d \in Int /\ p * d \in Int
    OBVIOUS
  <2> QED
    BY <2>1, <2>2, <2>3
<1>3. CASE q = p
  <2>1. q * d \in Int /\ p * d \in Int
    OBVIOUS
  <2> QED
    BY <1>3, <2>1
<1> QED
  BY <1>1, <1>2, <1>3

(* Multiples of d: quotient and remainder.                                 *)
LEMMA MultipleDiv ==
  ASSUME NEW q \in Nat, NEW d \in Nat \ {0}
  PROVE  (q * d) \div d = q /\ (q * d) % d = 0
<1> DEFINE n == q * d
<1>1. n \in Nat /\ n = q * d
  BY MulNat
<1> HIDE DEF n
<1> DEFINE p == n \div d
           r == n % d
<1>2. p \in Int /\ r \in 0 .. d - 1 /\ n = p * d + r
  <2>1. /\ n \div d \in Nat
        /\ n % d \in 0 .. d - 1
        /\ n = (n \div d) * d + (n % d)
    BY <1>1, DivMod
  <2> QED
    BY <2>1
<1> HIDE DEF p, r
<1>3. q = p /\ r = 0
  <2>1. q * d = p * d + r
    BY <1>1, <1>2
  <2> QED
    BY <1>2, <2>1, DivisionUnique
<1> QED
  BY <1>3 DEF n, p, r

LEMMA MultipleOf ==
  ASSUME NEW n \in Nat, NEW d \in Nat \ {0}, n % d = 0
  PROVE  n \div d \in Nat /\ n = (n \div d) * d
BY DivMod

LEMMA UintNat == Uint128 \subseteq Nat /\ 0 \in Uint128
BY WidthAssumption DEF Uint128

LEMMA UintDown ==
  ASSUME NEW m \in Nat, NEW n \in Uint128, m <= n
  PROVE  m \in Uint128
BY WidthAssumption DEF Uint128

-----------------------------------------------------------------------------
(* Accrual and the reward rate.                                            *)

LEMMA RewardRateType ==
  ASSUME NEW ts \in TokenState, NEW block \in Nat
  PROVE  RewardRate(ts, block) \in Uint128
BY UintNat DEF RewardRate, TokenState

LEMMA PendingRewardPerTokenType ==
  ASSUME NEW ts \in TokenState, NEW block \in Nat,
         ts.last_accrue_block <= block
  PROVE  PendingRewardPerToken(ts, block) \in Nat
<1> DEFINE earned == RewardRate(ts, block) * BlocksSinceAccrue(ts, block)
<1>1. earned \in Nat
  <2>1. RewardRate(ts, block) \in Nat
    BY RewardRateType, UintNat
  <2>2. BlocksSinceAccrue(ts, block) \in Nat
    BY DEF BlocksSinceAccrue, TokenState
  <2> QED
    BY <2>1, <2>2, MulNat
<1> HIDE DEF earned
<1>2. CASE ts.total_supply = 0
  BY <1>2 DEF PendingRewardPerToken
<1>3. CASE ts.total_supply # 0
  <2>1. ts.total_supply \in Nat \ {0}
    BY <1>3, UintNat DEF TokenState
  <2>2. earned \div ts.total_supply \in Nat
    BY <1>1, <2>1, DivBound
  <2>3. (earned \div ts.total_supply) * SCALE \in Nat
    BY <2>2, ScaleAssumption, MulNat
  <2> QED
    BY <1>3, <2>3 DEF PendingRewardPerToken, earned
<1> QED
  BY <1>2, <1>3

LEMMA AccrueType ==
  ASSUME NEW ts \in TokenState, NEW block \in Nat, AccrueFits(ts, block)
  PROVE  Accrue(ts, block) \in TokenState
BY DEF Accrue, AccrueFits, Fits, TokenState

LEMMA RemainingBlocksType ==
  ASSUME NEW ts \in TokenState, NEW block \in Nat
  PROVE  RemainingBlocks(ts, block) \in Nat
BY DEF RemainingBlocks, TokenState

LEMMA UnvestedIncomeType ==
  ASSUME NEW ts \in TokenState, NEW block \in Nat
  PROVE  UnvestedIncome(ts, block) \in Nat
<1>1. ts.reward_rate_stored \in Nat
  BY UintNat DEF TokenState
<1> QED
  BY <1>1, RemainingBlocksType, MulNat DEF UnvestedIncome

LEMMA UpdateRewardRateType ==
  ASSUME NEW ts \in TokenState, NEW amount \in Uint128,
         NEW period \in Nat, NEW block \in Nat,
         UpdateRewardRateFits(ts, amount, period, block)
  PROVE  UpdateRewardRate(ts, amount, period, block) \in TokenState
<1> DEFINE income == UnvestedIncome(ts, block) + amount
<1>1. income \in Uint128 /\ income \in Nat /\ period \in Nat \ {0}
  BY UintNat DEF UpdateRewardRateFits, Fits
<1> HIDE DEF income
<1>2. income \div period \in Uint128
  BY <1>1, DivBound, UintDown
<1> QED
  BY <1>2 DEF UpdateRewardRate, TokenState, income

LEMMA DefaultTokenStateType == DefaultTokenState \in TokenState
BY UintNat DEF DefaultTokenState, TokenState

LEMMA DefaultUserStateType == DefaultUserState \in UserState
BY UintNat DEF DefaultUserState, UserState

LEMMA SetDistributionPeriodType ==
  ASSUME NEW ts \in TokenState, NEW block \in Nat, NEW period \in Nat,
         SetDistributionPeriodFits(ts, block, period)
  PROVE  SetDistributionPeriod(ts, block, period) \in TokenState
<1>1. Accrue(ts, block) \in TokenState
  BY AccrueType DEF SetDistributionPeriodFits
<1> QED
  BY <1>1, UintNat, UpdateRewardRateType
  DEF SetDistributionPeriod, SetDistributionPeriodFits

-----------------------------------------------------------------------------
(* Vesting.  The accumulator moves by whole units k * SCALE, and the units *)
(* credited to the supply never exceed what has vested.                    *)

LEMMA PendingUnits ==
  ASSUME NEW ts \in TokenState, NEW block \in Nat,
         ts.last_accrue_block <= block
  PROVE  \E k \in Nat :
           /\ PendingRewardPerToken(ts, block) = k * SCALE
           /\ k * ts.total_supply
                <= RewardRate(ts, block) * BlocksSinceAccrue(ts, block)
<1> DEFINE earned == RewardRate(ts, block) * BlocksSinceAccrue(ts, block)
           supply == ts.total_supply
<1>1. earned \in Nat
  <2>1. RewardRate(ts, block) \in Nat
    BY RewardRateType, UintNat
  <2>2. BlocksSinceAccrue(ts, block) \in Nat
    BY DEF BlocksSinceAccrue, TokenState
  <2> QED
    BY <2>1, <2>2, MulNat
<1>2. supply \in Nat
  BY UintNat DEF TokenState
<1>3. CASE supply = 0
  <2>1. PendingRewardPerToken(ts, block) = 0
    BY <1>3 DEF PendingRewardPerToken
  <2>2. 0 * SCALE = 0 /\ 0 * supply = 0
    BY <1>2, ScaleAssumption
  <2> HIDE DEF earned
  <2>3. 0 * supply <= earned
    BY <1>1, <2>2
  <2> QED
    BY <2>1, <2>2, <2>3 DEF earned
<1>4. CASE supply # 0
  <2> DEFINE k == earned \div supply
  <2>1. PendingRewardPerToken(ts, block) = k * SCALE
    BY <1>4 DEF PendingRewardPerToken
  <2> HIDE DEF earned, supply
  <2>2. k \in Nat /\ k * supply <= earned
    BY <1>1, <1>2, <1>4, DivBound
  <2> QED
    BY <2>1, <2>2 DEF earned, supply
<1> QED
  BY <1>3, <1>4

LEMMA VestedBound ==
  ASSUME NEW ts \in TokenState, NEW block \in Nat,
         ts.last_income_block <= ts.last_accrue_block,
         ts.last_accrue_block <= block
  PROVE  RewardRate(ts, block) * BlocksSinceAccrue(ts, block)
           + UnvestedIncome(ts, block)
             <= UnvestedIncome(ts, ts.last_accrue_block)
<1> DEFINE r == ts.reward_rate_stored
           inc == ts.last_income_block
           acc == ts.last_accrue_block
           period == ts.distribution_period
<1>1. r \in Nat /\ inc \in Nat /\ acc \in Nat /\ period \in Nat
  BY UintNat DEF TokenState
<1>2. CASE block - inc < period
  <2>1. /\ RewardRate(ts, block) = r
        /\ BlocksSinceAccrue(ts, block) = block - acc
        /\ UnvestedIncome(ts, block) = r * (period - (block - inc))
        /\ UnvestedIncome(ts, acc) = r * (period - (acc - inc))
    BY <1>1, <1>2 DEF RewardRate, BlocksSinceAccrue, UnvestedIncome,
                      RemainingBlocks
  <2> DEFINE m == block - acc
             n == period - (block - inc)
  <2>2. m \in Int /\ n \in Int /\ period - (acc - inc) = m + n
    BY <1>1
  <2> HIDE DEF r, inc, acc, period, m, n
  <2>3. r * (m + n) = r * m + r * n
    BY <1>1, <2>2, MulDistributes
  <2>4. r * (m + n) \in Int
    BY <1>1, <2>2
  <2> QED
    BY <2>1, <2>2, <2>3, <2>4 DEF m, n, acc
<1>3. CASE ~ (block - inc < period)
  <2>1. RewardRate(ts, block) = 0 /\ RemainingBlocks(ts, block) = 0
    BY <1>3 DEF RewardRate, RemainingBlocks
  <2>2. BlocksSinceAccrue(ts, block) \in Nat
    BY <1>1 DEF BlocksSinceAccrue
  <2>3. RewardRate(ts, block) * BlocksSinceAccrue(ts, block) = 0
    BY <2>1, <2>2
  <2>4. UnvestedIncome(ts, block) = 0
    BY <1>1, <2>1 DEF UnvestedIncome
  <2>5. UnvestedIncome(ts, acc) \in Nat
    BY <1>1, UnvestedIncomeType
  <2> QED
    BY <2>3, <2>4, <2>5
<1> QED
  BY <1>2, <1>3

(* Re-basing the rate promises no more than there is to distribute.        *)
LEMMA RebasedIncome ==
  ASSUME NEW ts \in TokenState, NEW amount \in Nat,
         NEW period \in Nat \ {0}, NEW block \in Nat
  PROVE  UnvestedIncome(UpdateRewardRate(ts, amount, period, block), block)
           <= UnvestedIncome(ts, block) + amount
<1> DEFINE w == UpdateRewardRate(ts, amount, period, block)
           income == UnvestedIncome(ts, block) + amount
<1>1. /\ w.reward_rate_stored = income \div period
      /\ w.distribution_period = period
      /\ w.last_income_block = block
  BY DEF UpdateRewardRate, TokenState
<1>2. income \in Nat
  BY UnvestedIncomeType
<1> HIDE DEF w, income
<1>3. RemainingBlocks(w, block) = period
  BY <1>1 DEF RemainingBlocks
<1>4. UnvestedIncome(w, block) = (income \div period) * period
  BY <1>1, <1>3 DEF UnvestedIncome
<1>5. (income \div period) * period <= income
  BY <1>2, DivBound
<1> QED
  BY <1>4, <1>5 DEF w, income

(* With the accumulator and the snapshot at whole units, a pending reward  *)
(* is a product: no division rounds.                                       *)
LEMMA PendingRewardUnits ==
  ASSUME NEW us \in UserState, NEW q \in Nat, NEW s \in Nat, s <= q,
         us.reward_snapshot = s * SCALE
  PROVE  PendingReward(us, q * SCALE) = (q - s) * us.balance
<1> DEFINE b == us.balance
           n == (q - s) * b
<1>1. b \in Nat /\ q - s \in Nat
  <2>1. us.balance \in Uint128
    BY DEF UserState
  <2>2. q - s \in Nat
    OBVIOUS
  <2> QED
    BY <2>1, <2>2, UintNat
<1>2. n \in Nat
  BY <1>1, MulNat
<1>3. (q * SCALE - s * SCALE) * b = n * SCALE
  BY <1>1, ScaleAssumption
<1> HIDE DEF n
<1>4. (n * SCALE) \div SCALE = n
  BY <1>2, ScaleAssumption, MultipleDiv
<1> QED
  BY <1>3, <1>4 DEF PendingReward, n

-----------------------------------------------------------------------------
(* Balances and locks.                                                     *)

WithSupply(ts, n)   == [ts EXCEPT !.total_supply = n]
WithBalance(us, n)  == [us EXCEPT !.balance = n]
WithUntil(us, n)    == [us EXCEPT !.locked_until = n]
WithSnapshot(us, n) == [us EXCEPT !.reward_snapshot = n]

(* set_balance leaves the ledger and both of its copies in agreement, from *)
(* whatever balance the user state recorded before.                        *)
LEMMA SetBalanceEffect ==
  ASSUME NEW v \in Views, NEW amount \in Uint128, SetBalanceOk(v, amount)
  PROVE  LET w == SetBalance(v, amount)
         IN  /\ w \in Views
             /\ w.supply - v.supply = w.ve - v.ve
             /\ w.ve = v.ve + amount - v.user.balance
             /\ w.token = WithSupply(v.token, w.supply)
             /\ w.user = WithBalance(v.user, w.ve)
<1>1. /\ v.supply \in Uint128 /\ v.ve \in Uint128
      /\ v.user.balance \in Uint128
      /\ v.user \in UserState /\ v.token \in TokenState
      /\ UINT128_MAX \in Nat
  BY WidthAssumption DEF Views, UserState
<1> DEFINE d == amount - v.user.balance
           w == SetBalance(v, amount)
           moved == [v EXCEPT !.supply = @ + d, !.ve = @ + d]
<1>2. w = Synced(moved) /\ v.supply + d \in Uint128 /\ v.ve + d \in Uint128
  <2>1. CASE amount > v.user.balance
    BY <1>1, <2>1 DEF SetBalance, SetBalanceOk, Mint, MintOk, Fits, Uint128
  <2>2. CASE amount < v.user.balance
    <3>1. v.user.balance - amount = -d
      BY <1>1 DEF Uint128
    <3>2. v.supply - (v.user.balance - amount) = v.supply + d
          /\ v.ve - (v.user.balance - amount) = v.ve + d
      BY <1>1 DEF Uint128
    <3> HIDE DEF d
    <3>3. Burn(v, v.user.balance - amount) = moved
      BY <3>2 DEF Burn, Views
    <3>4. BurnOk(v, v.user.balance - amount)
      BY <2>2 DEF SetBalanceOk
    <3>5. w = Synced(Burn(v, v.user.balance - amount))
      BY <1>1, <2>2 DEF SetBalance, Uint128
    <3> QED
      BY <3>2, <3>3, <3>4, <3>5 DEF BurnOk, Fits
  <2>3. CASE amount = v.user.balance
    <3>1. v.supply + d = v.supply /\ v.ve + d = v.ve
          /\ v.supply - (v.user.balance - amount) = v.supply
          /\ v.ve - (v.user.balance - amount) = v.ve
      BY <1>1, <2>3 DEF Uint128
    <3> HIDE DEF d
    <3>2. Burn(v, v.user.balance - amount) = moved
      BY <3>1 DEF Burn, Views
    <3>3. w = Synced(Burn(v, v.user.balance - amount))
      BY <1>1, <2>3 DEF SetBalance, Uint128
    <3> QED
      BY <1>1, <3>1, <3>2, <3>3
  <2> QED
    BY <1>1, <2>1, <2>2, <2>3 DEF Uint128
<1> HIDE DEF d, w
<1>3. w = [token  |-> [v.token EXCEPT !.total_supply = v.supply + d],
           user   |-> [v.user EXCEPT !.balance = v.ve + d],
           supply |-> v.supply + d,
           ve     |-> v.ve + d]
  BY <1>2 DEF Synced, Views
<1>4. w \in Views
  BY <1>1, <1>2, <1>3 DEF Views, TokenState, UserState
<1>5. w.supply - v.supply = d /\ w.ve - v.ve = d
      /\ w.ve = v.ve + amount - v.user.balance
  BY <1>1, <1>3 DEF Uint128, d
<1> QED
  BY <1>3, <1>4, <1>5 DEF w, WithSupply, WithBalance

LEMMA LockSecondsType ==
  ASSUME NEW until \in Nat, NEW now \in Nat
  PROVE  LockSeconds(until, now) \in Nat
BY DEF LockSeconds

LEMMA VeBalanceType ==
  ASSUME NEW locked \in Nat, NEW until \in Nat, NEW now \in Nat
  PROVE  /\ VeBalance(locked, until, now) \in Nat
         /\ VeBalance(locked, until, now) <= locked * LockSeconds(until, now)
<1>1. locked * LockSeconds(until, now) \in Nat
  BY LockSecondsType, MulNat
<1> QED
  BY <1>1, DivBound, MaxLockAssumption DEF VeBalance

LEMMA UpdateLockEffect ==
  ASSUME NEW v \in Views, NEW until \in Nat, NEW now \in Nat,
         UpdateLockOk(v, until, now)
  PROVE  LET w == UpdateLock(v, until, now)
         IN  /\ w \in Views
             /\ w.supply - v.supply = w.ve - v.ve
             /\ w.ve = v.ve + VeBalance(v.user.locked_balance, until, now)
                         - v.user.balance
             /\ w.token = WithSupply(v.token, w.supply)
             /\ w.user = WithBalance(WithUntil(v.user, until), w.ve)
<1> DEFINE u == WithLockedUntil(v, until)
           nb == VeBalance(v.user.locked_balance, until, now)
           w == SetBalance(u, nb)
<1>1. nb \in Uint128
  <2>1. v.user.locked_balance \in Nat
    BY UintNat DEF Views, UserState
  <2>2. v.user.locked_balance * LockSeconds(until, now) \in Uint128
    BY DEF UpdateLockOk, Fits
  <2> QED
    BY <2>1, <2>2, VeBalanceType, UintDown, UintNat
<1>2. u \in Views /\ SetBalanceOk(u, nb)
  BY DEF UpdateLockOk, WithLockedUntil, Views, UserState
<1>3. /\ u.supply = v.supply /\ u.ve = v.ve /\ u.token = v.token
      /\ u.user = WithUntil(v.user, until)
      /\ u.user.balance = v.user.balance
  BY DEF WithLockedUntil, WithUntil, Views, UserState
<1> HIDE DEF u, nb
<1>4. /\ w \in Views
      /\ w.supply - u.supply = w.ve - u.ve
      /\ w.ve = u.ve + nb - u.user.balance
      /\ w.token = WithSupply(u.token, w.supply)
      /\ w.user = WithBalance(u.user, w.ve)
  BY <1>1, <1>2, SetBalanceEffect
<1>5. UpdateLock(v, until, now) = w
  BY DEF UpdateLock, u, nb
<1> HIDE DEF w
<1> QED
  BY <1>3, <1>4, <1>5 DEF nb

LEMMA ClaimEffect ==
  ASSUME NEW v \in Views, NEW block \in Nat, NEW now \in Nat,
         ClaimOk(v, block, now)
  PROVE  LET w  == Claim(v, block, now)
             ts == Accrue(v.token, block)
         IN  /\ w \in Views
             /\ ts \in TokenState
             /\ w.supply - v.supply = w.ve - v.ve
             /\ w.ve = v.ve - v.user.balance
                         + VeBalance(v.user.locked_balance,
                                     v.user.locked_until, now)
             /\ w.token = WithSupply(ts, w.supply)
             /\ w.user = WithBalance(WithSnapshot(v.user, ts.reward_per_token),
                                     w.ve)
<1> DEFINE ts == Accrue(v.token, block)
           u == Snapshotted(v, block)
           until == v.user.locked_until
           nb == VeBalance(v.user.locked_balance, until, now)
           w == UpdateLock(u, until, now)
<1>1. v.user \in UserState /\ v.token \in TokenState /\ until \in Nat
      /\ v.ve \in Nat /\ v.user.balance \in Nat /\ nb \in Nat
  BY UintNat, VeBalanceType DEF Views, UserState
<1>2. ts \in TokenState
  BY <1>1, AccrueType DEF ClaimOk
<1>3. UpdateLockOk(u, until, now)
  BY DEF ClaimOk
<1> HIDE DEF ts, nb, w
<1>4. u = [v EXCEPT !.token = ts,
                    !.user = WithSnapshot(@, ts.reward_per_token)]
  BY DEF Snapshotted, Accrued, Views, WithSnapshot, ts
<1>5. ts.reward_per_token \in Uint128
  BY <1>2 DEF TokenState
<1> HIDE DEF u
<1>6. /\ u \in Views
      /\ u.supply = v.supply /\ u.ve = v.ve /\ u.token = ts
      /\ u.user = WithSnapshot(v.user, ts.reward_per_token)
      /\ u.user.balance = v.user.balance
      /\ u.user.locked_balance = v.user.locked_balance
  BY <1>1, <1>2, <1>4, <1>5 DEF Views, UserState, WithSnapshot
<1>7. /\ w \in Views
      /\ w.supply - u.supply = w.ve - u.ve
      /\ w.ve = u.ve + nb - u.user.balance
      /\ w.token = WithSupply(u.token, w.supply)
      /\ w.user = WithBalance(WithUntil(u.user, until), w.ve)
  <2> HIDE DEF until
  <2>1. nb = VeBalance(u.user.locked_balance, until, now)
    BY <1>6 DEF nb
  <2>2. UpdateLock(u, until, now) = w
    BY DEF w
  <2> QED
    BY <1>1, <1>3, <1>6, <2>1, <2>2, UpdateLockEffect
<1>8. WithUntil(u.user, until) = u.user
  BY <1>1, <1>6 DEF UserState, WithUntil, WithSnapshot
<1>9. w.ve = v.ve - v.user.balance + nb
  BY <1>1, <1>6, <1>7
<1>10. Claim(v, block, now) = w
  BY DEF Claim, w, u
<1> HIDE DEF until
<1> QED
  BY <1>2, <1>6, <1>7, <1>8, <1>9, <1>10 DEF ts, nb, until
=============================================================================
