----------------------------- MODULE VeInternal -----------------------------
(***************************************************************************)
(* The internal functions every handler of the contract is built from      *)
(* (internal.rs): set_balance, update_lock, claim and check_reserves.      *)
(*                                                                         *)
(* A handler of account a touches the token state, a's own user state and, *)
(* through cw20-base, the veWILD supply and a's veWILD balance.  These     *)
(* four are a view of the storage,                                         *)
(*     [token, user, supply, ve],                                          *)
(* and each function maps the view it loads to the view it leaves.  XOk is *)
(* the condition under which the function returns Ok.                      *)
(***************************************************************************)
EXTENDS VeState

CONSTANTS MAX_LOCK_PERIOD   \* seconds

ASSUME MaxLockAssumption == MAX_LOCK_PERIOD \in Nat \ {0}

Views == [token : TokenState, user : UserState,
          supply : Uint128, ve : Uint128]

(***************************************************************************)
(* cw20-base: the veWILD ledger of the contract itself.                    *)
(***************************************************************************)
Mint(v, amount) == [v EXCEPT !.supply = @ + amount, !.ve = @ + amount]
Burn(v, amount) == [v EXCEPT !.supply = @ - amount, !.ve = @ - amount]

MintOk(v, amount) == Fits(v.supply + amount) /\ Fits(v.ve + amount)
BurnOk(v, amount) == Fits(v.supply - amount) /\ Fits(v.ve - amount)

(***************************************************************************)
(* set_balance: mint or burn the difference between the wanted amount and  *)
(* the balance the user state records, then copy the supply and the        *)
(* balance of the ledger back into the stored structures.                  *)
(***************************************************************************)
SetBalanceOk(v, amount) ==
  /\ v.user.reward_snapshot = v.token.reward_per_token   \* else ClaimFirst
  /\ amount > v.user.balance => MintOk(v, amount - v.user.balance)
  /\ amount < v.user.balance => BurnOk(v, v.user.balance - amount)

\* does not copy the supply back
WrongSynced(v) == [v EXCEPT !.user.balance = v.ve]

Synced(v) == [v EXCEPT !.token.total_supply = v.supply,
                       !.user.balance       = v.ve]

\* compares the wrong way round
WrongSetBalance(v, amount) ==
  IF amount < v.user.balance
  THEN Synced(Mint(v, v.user.balance - amount))
  ELSE Synced(Burn(v, amount - v.user.balance))

SetBalance(v, amount) ==
  IF amount > v.user.balance
  THEN Synced(Mint(v, amount - v.user.balance))
  ELSE Synced(Burn(v, v.user.balance - amount))

(***************************************************************************)
(* update_lock: veWILD is the locked amount times the remaining fraction   *)
(* of the longest lock.                                                    *)
(***************************************************************************)
LockSeconds(until, now) == IF until > now THEN until - now ELSE 0

\* forgets the division
WrongVeBalance(locked, until, now) == locked * LockSeconds(until, now)

VeBalance(locked, until, now) ==
  (locked * LockSeconds(until, now)) \div MAX_LOCK_PERIOD

WithLockedUntil(v, until) == [v EXCEPT !.user.locked_until = until]

UpdateLock(v, until, now) ==
  SetBalance(WithLockedUntil(v, until),
             VeBalance(v.user.locked_balance, until, now))

UpdateLockOk(v, until, now) ==
  /\ Fits(v.user.locked_balance * LockSeconds(until, now))
  /\ SetBalanceOk(WithLockedUntil(v, until),
                  VeBalance(v.user.locked_balance, until, now))

(***************************************************************************)
(* claim: accrue, take the snapshot, refresh the veWILD balance.  The      *)
(* reward itself leaves the contract as a message, see ClaimReward.        *)
(***************************************************************************)
Accrued(v, block) == [v EXCEPT !.token = Accrue(v.token, block)]

ClaimReward(v, block) ==
  PendingReward(v.user, Accrue(v.token, block).reward_per_token)

Snapshotted(v, block) ==
  LET w == Accrued(v, block)
  IN  [w EXCEPT !.user.reward_snapshot = w.token.reward_per_token]

\* burns all veWILD instead of refreshing it
WrongClaim(v, block, now) == SetBalance(Snapshotted(v, block), 0)

Claim(v, block, now) ==
  UpdateLock(Snapshotted(v, block), v.user.locked_until, now)

ClaimOk(v, block, now) ==
  /\ AccrueFits(v.token, block)
  /\ PendingRewardFits(v.user, Accrue(v.token, block).reward_per_token)
  /\ UpdateLockOk(Snapshotted(v, block), v.user.locked_until, now)

(***************************************************************************)
(* check_reserves compares the WILD balance of the contract, as the        *)
(* querier reports it, with total_locked plus an amount it calls unvested  *)
(* income, computed from reward_per_token.                                 *)
(***************************************************************************)
\* counts the whole period, also after its end
WrongRequiredReserve(ts, block) ==
  ts.total_locked + ts.reward_per_token * ts.distribution_period

RequiredReserve(ts, block) ==
  ts.total_locked + ts.reward_per_token * RemainingBlocks(ts, block)

CheckReserves(ts, block, reserve_balance) ==
  /\ Fits(RequiredReserve(ts, block))
  /\ reserve_balance >= RequiredReserve(ts, block)
=============================================================================
