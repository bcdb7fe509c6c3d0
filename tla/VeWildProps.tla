---------------------------- MODULE VeWildProps ----------------------------
(***************************************************************************)
(* What the veWILD contract keeps true, as properties of module VeWild.    *)
(***************************************************************************)
EXTENDS VeWild

Total(f) == SumFunctionOnSet(f, Accounts)

Locked   == [a \in Accounts |-> user_state[a].locked_balance]
Balances == [a \in Accounts |-> user_state[a].balance]

(***************************************************************************)
(* Every variable stays in its type: what is stored fits its width, and no *)
(* account holds a negative amount of WILD.                                *)
(***************************************************************************)
TypeOK ==
  /\ height \in Nat /\ time \in Nat \ {0}
  /\ token_state \in TokenState
  /\ user_state \in [Accounts -> UserState]
  /\ user_keys \in SUBSET Accounts
  /\ ve_supply \in Uint128
  /\ ve_balances \in [Accounts -> Uint128]
  /\ wild \in [Accounts -> Nat]
  /\ reserve \in Nat

-----------------------------------------------------------------------------
(* Three ledgers of veWILD.                                                *)

(***************************************************************************)
(* The copies of veWILD balances and supply that the contract keeps in its *)
(* own structures agree with cw20-base's ledger, and that ledger adds up,  *)
(* although withdraw writes a stale user state in between                  *)
(* (set_balance, execute_withdraw).                                        *)
(***************************************************************************)
LedgersInSync ==
  /\ token_state.total_supply = ve_supply
  /\ Balances = ve_balances
  /\ ve_supply = Total(ve_balances)

(***************************************************************************)
(* total_locked is the sum of the locks (execute_lock, execute_withdraw).  *)
(***************************************************************************)
LocksAddUp == token_state.total_locked = Total(Locked)

(***************************************************************************)
(* An account's veWILD is never more than its lock, and never less than    *)
(* the lock's remaining time is worth now: between two refreshes it only   *)
(* decays (update_lock, claim, execute_withdraw).                          *)
(***************************************************************************)
VeBetweenDecayAndLock ==
  \A a \in Accounts :
    LET u == user_state[a]
    IN  /\ VeBalance(u.locked_balance, u.locked_until, time) <= u.balance
        /\ u.balance <= u.locked_balance

-----------------------------------------------------------------------------
(* The reward accumulator and its clocks.                                  *)

(***************************************************************************)
(* The accumulator counts whole units: income never comes after the last   *)
(* accrual, no clock is ahead of the chain, no snapshot is ahead of the    *)
(* accumulator (so that pending_reward never underflows), and all of them  *)
(* are multiples of the unit (so that it never rounds).                    *)
(***************************************************************************)
AccrualInOrder ==
  /\ token_state.last_income_block <= token_state.last_accrue_block
  /\ token_state.last_accrue_block <= height
  /\ token_state.distribution_period # 0
  /\ token_state.reward_per_token % SCALE = 0
  /\ \A a \in Accounts :
       /\ user_state[a].reward_snapshot <= token_state.reward_per_token
       /\ user_state[a].reward_snapshot % SCALE = 0

-----------------------------------------------------------------------------
(* Solvency.                                                               *)

Accruals ==
  [a \in Accounts |->
     PendingReward(user_state[a], token_state.reward_per_token)]

Unvested == UnvestedIncome(token_state, token_state.last_accrue_block)

(***************************************************************************)
(* The contract's WILD covers every lock, every reward accrued and not yet *)
(* claimed, and the income that has not vested since the last accrual.     *)
(* check_reserves does not see to it (it compares other amounts): it is    *)
(* the arithmetic of accrue, update_reward_rate and claim that does.       *)
(***************************************************************************)
Solvency == reserve >= token_state.total_locked + Total(Accruals) + Unvested

(***************************************************************************)
(* At any block the contract can return every lock and pay every account   *)
(* what PendingAccountReward quotes it, accrued up to this block: no       *)
(* transaction is lost because its payout message fails, and no reward is  *)
(* paid out of a lock.                                                     *)
(***************************************************************************)
Quotes == [a \in Accounts |-> PendingAccountReward(a)]

QuotesFunded == reserve >= token_state.total_locked + Total(Quotes)

-----------------------------------------------------------------------------
(* Arithmetic that panics.                                                 *)

(***************************************************************************)
(* The rewards the contract can owe, times the fixed-point unit, fit the   *)
(* width of Uint128.                                                       *)
(***************************************************************************)
RewardsFit == Fits((reserve - token_state.total_locked) * SCALE)

(***************************************************************************)
(* claim, which every handler of an account runs first, fails only by its  *)
(* arithmetic, and only where that is foreseen: while the rewards in the   *)
(* contract fit and the accumulator does not overflow, no account is shut  *)
(* out by a panic.  Its burn never underflows, its mint never happens, its *)
(* snapshot is never ahead, and a lock that was computed once is computed  *)
(* again (claim, update_lock, set_balance).                                *)
(***************************************************************************)
ClaimsGoThrough ==
  AccrueFits(token_state, height) /\ RewardsFit =>
    \A a \in Accounts : ClaimOk(View(a), height, time)

-----------------------------------------------------------------------------
(* The withdrawal protocol.                                                *)

(***************************************************************************)
(* A pending request always has a lock behind it, and was made at a time   *)
(* that is past; unless the account locked again after it, it holds no     *)
(* veWILD and so earns nothing while it waits (execute_request_withdraw,   *)
(* update_lock).                                                           *)
(***************************************************************************)
WaitingEarnsNothing ==
  \A a \in Accounts :
    LET u == user_state[a]
    IN  u.withdraw_at # 0 =>
          /\ u.locked_balance > 0
          /\ u.withdraw_at <= time + WITHDRAW_DELAY
          /\ u.locked_until + WITHDRAW_DELAY <= u.withdraw_at => u.balance = 0

(***************************************************************************)
(* What an account has locked leaves it only whole, in a step that finds   *)
(* the account's request due and ends it.  A request is made when the lock *)
(* it finds has ended, touches no deposit, and is due the whole delay      *)
(* after it was made, or made again; the recorded end of a lock never      *)
(* moves back (execute_lock, execute_request_withdraw, execute_withdraw).  *)
(*                                                                         *)
(* It is the request that waits, and not each deposit: a request outlives  *)
(* a later lock, and what is locked after it may leave in the same second. *)
(* VeWildClaims!NoWithdrawBeforeUnlock, which TLC refutes, shows it.       *)
(***************************************************************************)
HoldsLock(u, w) ==
  /\ u.locked_until <= w.locked_until
  /\ w.withdraw_at \notin {0, u.withdraw_at} =>
       /\ time >= u.locked_until
       /\ w.withdraw_at = time + WITHDRAW_DELAY
       /\ w.locked_balance = u.locked_balance
  /\ w.locked_balance < u.locked_balance =>
       /\ w.locked_balance = 0
       /\ u.withdraw_at \in 1 .. time
       /\ w.withdraw_at = 0

LocksHeld ==
  [][\A a \in Accounts : HoldsLock(user_state[a], user_state'[a])]_vars

(***************************************************************************)
(* After the end of a distribution period the way out is open: a claim is  *)
(* accepted and can be paid, and so is a request that is due, once a claim *)
(* has burnt what veWILD the account had left and moved its snapshot.      *)
(* Neither ClaimFirst nor check_reserves is then in the way                *)
(* (execute_claim, execute_withdraw).                                      *)
(***************************************************************************)
Settled(a) ==
  /\ user_state[a].balance = 0
  /\ user_state[a].reward_snapshot = token_state.reward_per_token

ExitOpen ==
  RemainingBlocks(token_state, height) = 0 /\ RewardsFit =>
    \A a \in user_keys :
      /\ ExecuteClaimAccepted(a)
      /\ ClaimReward(View(a), height) <= reserve
      /\ user_state[a].withdraw_at \in 1 .. time /\ Settled(a) =>
           /\ WithdrawAccepted(a)
           /\ ClaimReward(View(a), height) + user_state[a].locked_balance <= reserve

-----------------------------------------------------------------------------
(* Quotes.                                                                 *)

Wealth(a) == wild[a] + user_state[a].locked_balance + PendingAccountReward(a)

(***************************************************************************)
(* Within one block the quotes of PendingAccountReward are binding, in     *)
(* whatever order the transactions of the block come: one that does not    *)
(* touch an account's state leaves its quote alone, and one that does pays *)
(* it out to the last unit, moving wealth between the account's purse, its *)
(* lock and its quote without creating or losing any.                      *)
(***************************************************************************)
QuotesHonoured ==
  [][height' = height =>
       \A a \in Accounts :
         IF user_state'[a] = user_state[a]
         THEN PendingAccountReward(a)' = PendingAccountReward(a)
         ELSE Wealth(a)' = Wealth(a)]_vars

-----------------------------------------------------------------------------
(* Refinement.                                                             *)

Requested == {a \in Accounts : user_state[a].withdraw_at # 0}

E == INSTANCE Escrow WITH Amounts   <- LockAmounts,
                          custody   <- reserve,
                          deposits  <- Locked,
                          owed      <- Accruals,
                          requested <- Requested

(***************************************************************************)
(* The contract implements the escrow: its WILD balance is the custody,    *)
(* the locks are the deposits, and an account is owed what has accrued to  *)
(* it by the stored accumulator.                                           *)
(***************************************************************************)
ImplementsEscrow == E!Spec
=============================================================================
