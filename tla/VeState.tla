------------------------------ MODULE VeState ------------------------------
(***************************************************************************)
(* The reward accounting of the veWILD contract: the two stored structures *)
(* TokenState and UserState and their methods (state.rs), as operators     *)
(* from a structure to a structure.                                        *)
(*                                                                         *)
(* Every Uint128 operation of cosmwasm_std panics on overflow, and a panic *)
(* reverts the transaction.  Each operator X that computes therefore has a *)
(* companion XFits that holds when none of its operations panics.          *)
(***************************************************************************)
EXTENDS Integers

CONSTANTS SCALE,        \* 10^TOKEN_DECIMALS, the fixed-point unit
          UINT128_MAX   \* 2^128 - 1

ASSUME ScaleAssumption == SCALE \in Nat \ {0}
ASSUME WidthAssumption == UINT128_MAX \in Nat

Uint128 == 0 .. UINT128_MAX
Fits(n) == n \in Uint128

(***************************************************************************)
(* Operators named Wrong... are faulty variants of the operator that       *)
(* follows them.  No definition uses them: the properties of the contract  *)
(* are tried against them, to see that each one can fail.                  *)
(***************************************************************************)

(***************************************************************************)
(* The stored structures.  TokenState.locked_token is set once, by         *)
(* instantiate, and names the one external token: it is left out.          *)
(***************************************************************************)
TokenState ==
  [total_supply        : Uint128,
   total_locked        : Uint128,
   distribution_period : Nat,
   last_accrue_block   : Nat,
   last_income_block   : Nat,
   reward_per_token    : Uint128,
   reward_rate_stored  : Uint128]

UserState ==
  [balance         : Uint128,
   locked_balance  : Uint128,
   locked_until    : Nat,
   reward_snapshot : Uint128,
   withdraw_at     : Nat]

DefaultTokenState ==
  [total_supply        |-> 0,
   total_locked        |-> 0,
   distribution_period |-> 0,
   last_accrue_block   |-> 0,
   last_income_block   |-> 0,
   reward_per_token    |-> 0,
   reward_rate_stored  |-> 0]

DefaultUserState ==
  [balance         |-> 0,
   locked_balance  |-> 0,
   locked_until    |-> 0,
   reward_snapshot |-> 0,
   withdraw_at     |-> 0]

-----------------------------------------------------------------------------
(***************************************************************************)
(* Accrual: what one veWILD has earned since the last accrual.  The rate   *)
(* counts only while the distribution period runs, and the division comes  *)
(* before the scaling, so that reward_per_token grows by whole units.      *)
(***************************************************************************)
\* pays on after the end of the period
WrongRewardRate(ts, block) == ts.reward_rate_stored

RewardRate(ts, block) ==
  IF block - ts.last_income_block < ts.distribution_period
  THEN ts.reward_rate_stored
  ELSE 0

BlocksSinceAccrue(ts, block) == block - ts.last_accrue_block

PendingRewardPerToken(ts, block) ==
  IF ts.total_supply = 0
  THEN 0
  ELSE ((RewardRate(ts, block) * BlocksSinceAccrue(ts, block))
           \div ts.total_supply) * SCALE

Accrue(ts, block) ==
  [ts EXCEPT !.reward_per_token  = @ + PendingRewardPerToken(ts, block),
             !.last_accrue_block = block]

AccrueFits(ts, block) ==
  /\ ts.total_supply # 0 =>
       Fits(RewardRate(ts, block) * BlocksSinceAccrue(ts, block))
  /\ Fits(ts.reward_per_token + PendingRewardPerToken(ts, block))

-----------------------------------------------------------------------------
(***************************************************************************)
(* Re-basing the reward rate: what has not vested yet is spread, together  *)
(* with the new income, over the new period.                               *)
(***************************************************************************)
RemainingBlocks(ts, block) ==
  LET sinceIncome == block - ts.last_income_block
  IN  IF sinceIncome < ts.distribution_period
      THEN ts.distribution_period - sinceIncome
      ELSE 0

\* counts what has vested again
WrongUnvestedIncome(ts, block) ==
  ts.reward_rate_stored * ts.distribution_period

UnvestedIncome(ts, block) ==
  ts.reward_rate_stored * RemainingBlocks(ts, block)

UpdateRewardRate(ts, add_amount, new_period, block) ==
  [ts EXCEPT !.reward_rate_stored  =
                 (UnvestedIncome(ts, block) + add_amount) \div new_period,
             !.distribution_period = new_period,
             !.last_income_block   = block]

UpdateRewardRateFits(ts, add_amount, new_period, block) ==
  /\ block = ts.last_accrue_block            \* otherwise AccrueFirst
  /\ new_period # 0                          \* otherwise division by zero
  /\ Fits(UnvestedIncome(ts, block) + add_amount)

\* moves the clocks without accruing
WrongSetDistributionPeriod(ts, block, new_period) ==
  UpdateRewardRate([ts EXCEPT !.last_accrue_block = block], 0, new_period, block)

SetDistributionPeriod(ts, block, new_period) ==
  UpdateRewardRate(Accrue(ts, block), 0, new_period, block)

SetDistributionPeriodFits(ts, block, new_period) ==
  /\ new_period # 0                          \* otherwise ZeroDistributionPeriod
  /\ AccrueFits(ts, block)
  /\ UpdateRewardRateFits(Accrue(ts, block), 0, new_period, block)

-----------------------------------------------------------------------------
(***************************************************************************)
(* What an account has earned since its snapshot.                          *)
(***************************************************************************)
PendingReward(us, reward_per_token) ==
  ((reward_per_token - us.reward_snapshot) * us.balance) \div SCALE

PendingRewardFits(us, reward_per_token) ==
  /\ us.reward_snapshot <= reward_per_token
  /\ Fits((reward_per_token - us.reward_snapshot) * us.balance)
=============================================================================
