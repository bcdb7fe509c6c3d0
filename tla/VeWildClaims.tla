---------------------------- MODULE VeWildClaims ----------------------------
(***************************************************************************)
(* What the comments, the error texts and the tests of the repository, and *)
(* the Solidity contract it translates (source.sol), say of the contract,  *)
(* where the code does otherwise.  TLC refutes each of these properties.   *)
(***************************************************************************)
EXTENDS VeWildProps

(***************************************************************************)
(* A lock of valid length that the account can pay for is accepted         *)
(* (source.sol:93-101 takes the tokens before it checks the reserves).     *)
(* execute_lock checks the reserves when total_locked already counts the   *)
(* deposit and the transferFrom message has not run yet.                   *)
(***************************************************************************)
ValidLockAccepted ==
  \A a \in Accounts, amount \in LockAmounts :
    amount <= wild[a] =>
      LockAccepted(a, amount, time + MAX_LOCK_PERIOD)

(***************************************************************************)
(* A withdrawal that is due is accepted (source.sol:130-150), of an        *)
(* account that has no veWILD left to burn and whose claim is accepted at  *)
(* the same moment, reserve check included.  execute_withdraw saves the    *)
(* user state it loaded before claim, with the old snapshot: once another  *)
(* account's accrual has moved the accumulator, set_balance answers        *)
(* ClaimFirst, although a claim has just run.                              *)
(***************************************************************************)
DueWithdrawalAccepted ==
  \A a \in user_keys :
    /\ user_state[a].withdraw_at \in 1 .. time
    /\ user_state[a].balance = 0
    /\ ExecuteClaimAccepted(a)
    => WithdrawAccepted(a)

(***************************************************************************)
(* "reserve_balance MUST BE >= total_locked + unvested_income"             *)
(* (internal.rs:17): after a claim or a withdrawal, which both check it,   *)
(* the rule holds.  They check it before the payout leaves.                *)
(***************************************************************************)
ReserveRuleAfterPayout ==
  [][\A a \in Accounts :
       ExecuteClaim(a) \/ Withdraw(a) =>
         CheckReserves(token_state, height, reserve)']_vars

(***************************************************************************)
(* "cannot withdraw before unlock" (error.rs:18): what an account has      *)
(* locked does not leave before the lock ends.  A request stays pending    *)
(* through a new lock, and execute_withdraw looks at withdraw_at alone.    *)
(***************************************************************************)
NoWithdrawBeforeUnlock ==
  [][\A a \in Accounts :
       user_state'[a].locked_balance < user_state[a].locked_balance =>
         time >= user_state[a].locked_until]_vars

(***************************************************************************)
(* "all rewards are accounted for" (state.rs:123): what vests between two  *)
(* accruals is credited to the veWILD there is, up to the remainder of one *)
(* division by the supply.  When the first accrual after the end of the    *)
(* period comes, reward_rate is 0 and all of it is dropped.                *)
(***************************************************************************)
Vested(ts, block) ==
  UnvestedIncome(ts, ts.last_accrue_block) - UnvestedIncome(ts, block)

AllRewardsAccounted ==
  [][/\ token_state'.last_accrue_block # token_state.last_accrue_block
     /\ token_state.total_supply > 0
     => Vested(token_state, height) <
          token_state.total_supply
            * (1 + (token_state'.reward_per_token
                      - token_state.reward_per_token) \div SCALE)]_vars

(***************************************************************************)
(* The reserve check asks for "the total locked tokens plus the unvested   *)
(* income" (source.sol:294-295), that is rewardRateStored times the blocks *)
(* left (source.sol:305): a contract that holds this much passes it.       *)
(* check_reserves multiplies reward_per_token instead.                     *)
(***************************************************************************)
ReserveCheckAsksForUnvested ==
  LET ts == Accrue(token_state, height)
  IN  reserve >= ts.total_locked + UnvestedIncome(ts, height) =>
        CheckReserves(ts, height, reserve)

(***************************************************************************)
(* "This allows the user to see if they have any pending rewards"          *)
(* (state.rs:185): the query of an account's reward answers.               *)
(* pending_reward multiplies the accumulator's growth, which carries the   *)
(* 10^18, with the balance before it divides: the product leaves 128 bits  *)
(* at 2^128 / 10^18 base units of reward, that is at 340 WILD, where       *)
(* source.sol:190 has 256 bits.  Claim panics at the same product, and     *)
(* with it every other handler of the account.                             *)
(***************************************************************************)
PendingRewardShown ==
  \A a \in Accounts :
    AccrueFits(token_state, height) =>
      PendingRewardFits(user_state[a], QuotedRewardPerToken)

(***************************************************************************)
(* The accumulator has the decimals of the token: what vests per veWILD is *)
(* cut off below its last decimal, (blocks * rate * 1e18) / totalSupply    *)
(* (source.sol:290).  pending_reward_per_token multiplies with 10^18 after *)
(* the division: whatever is less than one whole unit per veWILD is gone.  *)
(***************************************************************************)
AccruesToDecimals ==
  token_state.total_supply > 0 =>
    RewardRate(token_state, height) * BlocksSinceAccrue(token_state, height)
      * SCALE
      < token_state.total_supply
          * (1 + PendingRewardPerToken(token_state, height))
=============================================================================
