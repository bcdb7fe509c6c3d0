---------------------------- MODULE VeWildResponse ----------------------------
(***************************************************************************)
(* What the handlers of VeWild return: the messages to the WILD token      *)
(* (cw20_client.rs) in the order they are added to the response, and the   *)
(* events (events.rs).  Both are operators of the state the handler        *)
(* starts in.                                                              *)
(*                                                                         *)
(* The mint and burn attributes of cw20-base, and the fields of an event   *)
(* that repeat what UpdateRewardRate computes, are left out.               *)
(***************************************************************************)
EXTENDS VeWild, Sequences

Transfer(a, amount)     == [kind |-> "transfer",      account |-> a, amount |-> amount]
TransferFrom(a, amount) == [kind |-> "transfer_from", account |-> a, amount |-> amount]

\* tells the end the lock had before
WrongLockEvent(a, v) ==
  [type |-> "lock", account |-> a, locked_balance |-> v.user.locked_balance,
   ve_balance |-> v.ve, locked_until |-> user_state[a].locked_until]

LockEvent(a, v) ==
  [type |-> "lock", account |-> a, locked_balance |-> v.user.locked_balance,
   ve_balance |-> v.ve, locked_until |-> v.user.locked_until]

WithdrawRequestEvent(a, amount, at) ==
  [type |-> "withdraw_request", account |-> a, amount |-> amount,
   withdraw_at |-> at]

WithdrawEvent(a, amount) ==
  [type |-> "withdraw", account |-> a, amount |-> amount]

ClaimEvent(a, amount, ve) ==
  [type |-> "claim", account |-> a, claim_amount |-> amount, ve_balance |-> ve]

NewIncomeEvent(amount) == [type |-> "new_income", add_amount |-> amount]

NewDistributionPeriodEvent(blocks) ==
  [type |-> "new_distribution_period", value |-> blocks]

-----------------------------------------------------------------------------
Response(messages, events) == [messages |-> messages, events |-> events]

(***************************************************************************)
(* claim, for its own handler and as the first part of three others.  With *)
(* nothing to pay it sends no message and emits no event, whatever it did  *)
(* to the veWILD of the account.                                           *)
(***************************************************************************)
ClaimResponse(a) ==
  LET reward == ClaimReward(View(a), height)
  IN  IF reward = 0
      THEN Response(<< >>, << >>)
      ELSE Response(<<Transfer(a, reward)>>,
                    <<ClaimEvent(a, reward, Claim(View(a), height, time).ve)>>)

After(r, messages, events) ==
  Response(r.messages \o messages, r.events \o events)

DepositMessages(a, amount) ==
  IF amount = 0 THEN << >> ELSE <<TransferFrom(a, amount)>>

\* takes the deposit before it pays the reward
WrongLockResponse(a, amount, until) ==
  Response(DepositMessages(a, amount) \o ClaimResponse(a).messages,
           ClaimResponse(a).events \o <<LockEvent(a, LockView(a, amount, until))>>)

\* does not take the deposit
WrongFreeLockResponse(a, amount, until) ==
  After(ClaimResponse(a), << >>, <<LockEvent(a, LockView(a, amount, until))>>)

LockResponse(a, amount, until) ==
  After(ClaimResponse(a), DepositMessages(a, amount),
        <<LockEvent(a, LockView(a, amount, until))>>)

RequestWithdrawResponse(a) ==
  After(ClaimResponse(a), << >>,
        <<WithdrawRequestEvent(a, user_state[a].locked_balance,
                               time + WITHDRAW_DELAY)>>)

WithdrawResponse(a) ==
  LET amount == user_state[a].locked_balance
  IN  After(ClaimResponse(a), <<Transfer(a, amount)>>,
            <<WithdrawEvent(a, amount)>>)

AddIncomeResponse(a, amount) ==
  Response(<<TransferFrom(a, amount)>>, <<NewIncomeEvent(amount)>>)

SetDistributionPeriodResponse(blocks) ==
  Response(<< >>, <<NewDistributionPeriodEvent(blocks)>>)

-----------------------------------------------------------------------------
(***************************************************************************)
(* The queries that return what is stored.                                 *)
(***************************************************************************)
QueryBalance(a)  == ve_balances[a]
QueryTotalSupply == ve_supply

QueryUserInfo(a) ==
  [locked_balance  |-> user_state[a].locked_balance,
   locked_until    |-> user_state[a].locked_until,
   reward_snapshot |-> user_state[a].reward_snapshot,
   withdraw_at     |-> user_state[a].withdraw_at]

QueryVeTokenInfo ==
  [total_locked        |-> token_state.total_locked,
   distribution_period |-> token_state.distribution_period,
   last_accrue_block   |-> token_state.last_accrue_block,
   last_income_block   |-> token_state.last_income_block,
   reward_per_token    |-> token_state.reward_per_token]
=============================================================================
