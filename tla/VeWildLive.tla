------------------------------ MODULE VeWildLive ------------------------------
(***************************************************************************)
(* Whether a depositor gets out.  Withdraw can refuse a request that is    *)
(* due: with ClaimFirst when the accumulator has moved since the account's *)
(* snapshot or when the account holds veWILD that has expired, and with an *)
(* error of check_reserves, which asks for more than the contract owes     *)
(* while a distribution period runs.  A depositor then claims and tries    *)
(* again.  This module says that this comes to an end.                     *)
(***************************************************************************)
EXTENDS VeWild

(***************************************************************************)
(* The chain outlives every distribution period and every lock: MaxHeight  *)
(* and MaxTime are the model's bounds, and what is still to come when they *)
(* are reached never would.  In particular income and changes of the       *)
(* period cease, which is a premise, not a fact: set_distribution_period   *)
(* checks no reserves, and whoever calls it again and again can keep       *)
(* check_reserves refusing for ever.                                       *)
(***************************************************************************)
Outlived ==
  /\ token_state.last_income_block + token_state.distribution_period <= MaxHeight
  /\ \A a \in Accounts : user_state[a].locked_until <= MaxTime

Due(a) == user_state[a].withdraw_at \in 1 .. time

(***************************************************************************)
(* Withdraw(a) computes the next state from this one, so that it is        *)
(* enabled exactly when the handler accepts and the payout is covered.     *)
(***************************************************************************)
CanWithdraw(a) ==
  /\ WithdrawAccepted(a)
  /\ ClaimReward(View(a), height) + user_state[a].locked_balance <= reserve

(***************************************************************************)
(* The chain makes blocks, and an account whose request is due goes on     *)
(* trying to claim and to withdraw.  Nothing else is fair: nobody has to   *)
(* lock, to pay income or to ask for a withdrawal.  The last conjunct is   *)
(* weak fairness of Withdraw(a) with its ENABLED written out, because TLC  *)
(* is very slow at finding out whether this action is enabled.             *)
(***************************************************************************)
Blocks == \E seconds \in TimeSteps : NextBlock(seconds)

LiveInit == Init /\ Outlived

LiveNext == Next /\ Outlived'

FairSpec ==
  /\ LiveInit
  /\ [][LiveNext]_vars
  /\ WF_vars(Blocks)
  /\ \A a \in Accounts : WF_vars(Due(a) /\ ExecuteClaim(a))
  /\ \A a \in Accounts : []<> ~ CanWithdraw(a) \/ []<><<Withdraw(a)>>_vars

(***************************************************************************)
(* No request stays due for ever: it is served, unless the account asks    *)
(* anew and so starts its delay again (execute_withdraw, claim,            *)
(* check_reserves).                                                        *)
(***************************************************************************)
DueIsServed == \A a \in Accounts : Due(a) ~> ~ Due(a)
=============================================================================
