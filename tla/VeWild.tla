------------------------------- MODULE VeWild -------------------------------
(***************************************************************************)
(* The veWILD contract (contract.rs) on its chain.                         *)
(*                                                                         *)
(* One action is one transaction.  CosmWasm runs the handler and then the  *)
(* messages it returns, in order, and reverts everything when any of them  *)
(* fails: a transaction that fails leaves no trace and is no step here.    *)
(* For each handler H, HAccepted is the condition under which the handler  *)
(* itself returns Ok; the transaction also needs its WILD transfers to go  *)
(* through, which is Transfers.                                            *)
(*                                                                         *)
(* The WILD token is external: a cw20 ledger, of which the contract sees   *)
(* its own balance (reserve) and moves tokens by messages.  An allowance   *)
(* that is too small only makes a transaction fail, so that allowances are *)
(* left out.                                                               *)
(***************************************************************************)
EXTENDS VeInternal, FiniteSets, Functions

CONSTANTS Accounts,          \* the senders
          MIN_LOCK_PERIOD,   \* seconds
          WITHDRAW_DELAY,    \* seconds
          LockAmounts,       \* the amounts a Lock message may carry,
          IncomeAmounts,     \*   an AddIncome message,
          GiftAmounts,       \*   a WILD transfer to the contract
          Periods,           \* the distribution periods a message may carry
          TimeSteps,         \* seconds between two blocks
          GenesisHeight, GenesisTime,
          InitialWild,       \* WILD of each account at instantiation
          MaxHeight, MaxTime \* bounds of the chain

ASSUME AccountsAssumption == IsFiniteSet(Accounts)
ASSUME PeriodAssumption ==
  MIN_LOCK_PERIOD \in Nat /\ WITHDRAW_DELAY \in Nat
ASSUME InputsAssumption ==
  /\ LockAmounts \subseteq Uint128
  /\ IncomeAmounts \subseteq Uint128
  /\ GiftAmounts \subseteq Uint128
  /\ Periods \subseteq Nat
  /\ TimeSteps \subseteq Nat
ASSUME GenesisAssumption ==
  /\ GenesisHeight \in Nat
  /\ GenesisTime \in Nat \ {0}   \* 0 marks "no request" in withdraw_at
  /\ InitialWild \in Nat
  /\ MaxHeight \in Nat /\ MaxTime \in Nat

VARIABLES
  height, time,              \* env.block
  token_state,               \* TOKEN_STATE
  user_state,                \* USER_STATE; the default record for no key
  user_keys,                 \* the keys USER_STATE holds
  ve_supply, ve_balances,    \* cw20-base's ledger of veWILD
  wild, reserve              \* WILD of the accounts and of the contract

chain    == <<height, time>>
contract == <<token_state, user_state, user_keys, ve_supply, ve_balances>>
funds    == <<wild, reserve>>
vars     == <<chain, contract, funds>>

-----------------------------------------------------------------------------
View(a) == [token  |-> token_state, user |-> user_state[a],
            supply |-> ve_supply,   ve   |-> ve_balances[a]]

Commit(a, v) ==
  /\ token_state' = v.token
  /\ user_state'  = [user_state EXCEPT ![a] = v.user]
  /\ user_keys'   = user_keys \union {a}
  /\ ve_supply'   = v.supply
  /\ ve_balances' = [ve_balances EXCEPT ![a] = v.ve]
  /\ UNCHANGED chain

CommitToken(ts) ==
  /\ token_state' = ts
  /\ UNCHANGED <<chain, user_state, user_keys, ve_supply, ve_balances>>

(***************************************************************************)
(* The messages of a transaction: first the contract pays a, then it takes *)
(* from a by transferFrom.  Either may fail for lack of funds.             *)
(***************************************************************************)
Transfers(a, paid, taken) ==
  /\ paid <= reserve
  /\ taken <= wild[a] + paid
  /\ wild'    = [wild EXCEPT ![a] = @ + paid - taken]
  /\ reserve' = reserve - paid + taken

-----------------------------------------------------------------------------
(***************************************************************************)
(* Lock: claim, add the amount to the lock, set its end.                   *)
(***************************************************************************)
Deposited(v, amount) ==
  [v EXCEPT !.user.locked_balance = @ + amount,
            !.token.total_locked  = @ + amount]

DepositedFits(v, amount) ==
  Fits(v.user.locked_balance + amount) /\ Fits(v.token.total_locked + amount)

LockView(a, amount, until) ==
  UpdateLock(Deposited(Claim(View(a), height, time), amount), until, time)

LockAccepted(a, amount, until) ==
  /\ LockSeconds(until, time) >= MIN_LOCK_PERIOD    \* LockPeriodTooShort
  /\ LockSeconds(until, time) <= MAX_LOCK_PERIOD    \* LockPeriodTooLong
  /\ until >= user_state[a].locked_until            \* CannotReduceLockedTime
  /\ ClaimOk(View(a), height, time)
  /\ LET v == Claim(View(a), height, time)
     IN  /\ DepositedFits(v, amount)
         /\ UpdateLockOk(Deposited(v, amount), until, time)
  /\ CheckReserves(LockView(a, amount, until).token, height, reserve)

Lock(a, amount, until) ==
  /\ LockAccepted(a, amount, until)
  /\ Transfers(a, ClaimReward(View(a), height), amount)
  /\ Commit(a, LockView(a, amount, until))

(***************************************************************************)
(* RequestWithdraw: once the lock has ended, claim and start the delay.    *)
(* This handler does not call check_reserves.                              *)
(***************************************************************************)
RequestWithdrawAccepted(a) ==
  /\ a \in user_keys                                \* NotFound
  /\ user_state[a].locked_balance # 0               \* NothingToWithdraw
  /\ time >= user_state[a].locked_until             \* WithdrawBeforeUnlock
  /\ ClaimOk(View(a), height, time)

\* starts the delay without a claim
WrongRequestWithdraw(a) ==
  /\ RequestWithdrawAccepted(a)
  /\ UNCHANGED funds
  /\ Commit(a, [View(a) EXCEPT !.user.withdraw_at = time + WITHDRAW_DELAY])

RequestWithdraw(a) ==
  /\ RequestWithdrawAccepted(a)
  /\ Transfers(a, ClaimReward(View(a), height), 0)
  /\ Commit(a, [Claim(View(a), height, time)
                  EXCEPT !.user.withdraw_at = time + WITHDRAW_DELAY])

(***************************************************************************)
(* Withdraw: claim, give the lock back, burn the veWILD.  The user state   *)
(* is the one loaded BEFORE claim ran: saving it puts back the balance and *)
(* the snapshot that claim had replaced, and set_balance meets those.      *)
(***************************************************************************)
\* leaves the total as it was
WrongReleasedTotal(a) ==
  [Claim(View(a), height, time) EXCEPT
     !.user = [user_state[a] EXCEPT !.withdraw_at    = 0,
                                    !.locked_balance = 0]]

\* leaves the request pending
WrongReleasedRequest(a) ==
  [Claim(View(a), height, time) EXCEPT
     !.user = [user_state[a] EXCEPT !.locked_balance = 0],
     !.token.total_locked = @ - user_state[a].locked_balance]

Released(a) ==
  [Claim(View(a), height, time) EXCEPT
     !.user = [user_state[a] EXCEPT !.withdraw_at    = 0,
                                    !.locked_balance = 0],
     !.token.total_locked = @ - user_state[a].locked_balance]

WithdrawView(a) == SetBalance(Released(a), 0)

\* takes "no request" for a request that is due
WrongWithdrawAccepted(a) ==
  /\ a \in user_keys
  /\ time >= user_state[a].withdraw_at
  /\ ClaimOk(View(a), height, time)
  /\ Fits(Released(a).token.total_locked)
  /\ SetBalanceOk(Released(a), 0)
  /\ CheckReserves(WithdrawView(a).token, height, reserve)

WithdrawAccepted(a) ==
  /\ a \in user_keys                                \* NotFound
  /\ time >= user_state[a].withdraw_at              \* WithdrawDelayNotOver
  /\ user_state[a].withdraw_at # 0                  \* WithdrawDelayNotOver
  /\ ClaimOk(View(a), height, time)
  /\ Fits(Released(a).token.total_locked)
  /\ SetBalanceOk(Released(a), 0)
  /\ CheckReserves(WithdrawView(a).token, height, reserve)

Withdraw(a) ==
  /\ WithdrawAccepted(a)
  /\ Transfers(a, ClaimReward(View(a), height) + user_state[a].locked_balance, 0)
  /\ Commit(a, WithdrawView(a))

(***************************************************************************)
(* Claim, AddIncome, SetDistributionPeriod.  None of them looks at who the *)
(* sender is; the last does not use it at all and checks no reserves.      *)
(***************************************************************************)
ExecuteClaimAccepted(a) ==
  /\ a \in user_keys                                \* NotFound
  /\ ClaimOk(View(a), height, time)
  /\ CheckReserves(Claim(View(a), height, time).token, height, reserve)

ExecuteClaim(a) ==
  /\ ExecuteClaimAccepted(a)
  /\ Transfers(a, ClaimReward(View(a), height), 0)
  /\ Commit(a, Claim(View(a), height, time))

\* forgets to accrue first
WrongIncomeAdded(amount) ==
  UpdateRewardRate(token_state, amount, token_state.distribution_period, height)

IncomeAdded(amount) ==
  UpdateRewardRate(Accrue(token_state, height), amount,
                   token_state.distribution_period, height)

AddIncomeAccepted(amount) ==
  /\ AccrueFits(token_state, height)
  /\ UpdateRewardRateFits(Accrue(token_state, height), amount,
                          token_state.distribution_period, height)
  /\ CheckReserves(IncomeAdded(amount), height, reserve)

AddIncome(a, amount) ==
  /\ AddIncomeAccepted(amount)
  /\ Transfers(a, 0, amount)
  /\ CommitToken(IncomeAdded(amount))

ExecuteSetDistributionPeriod(blocks) ==
  /\ SetDistributionPeriodFits(token_state, height, blocks)
  /\ CommitToken(SetDistributionPeriod(token_state, height, blocks))
  /\ UNCHANGED funds

(***************************************************************************)
(* The environment: a WILD transfer to the contract that is no message of  *)
(* the contract, and the next block.                                       *)
(***************************************************************************)
TopUp(a, amount) ==
  /\ Transfers(a, 0, amount)
  /\ UNCHANGED <<chain, contract>>

NextBlock(seconds) ==
  /\ height < MaxHeight
  /\ time + seconds <= MaxTime
  /\ height' = height + 1
  /\ time'   = time + seconds
  /\ UNCHANGED <<contract, funds>>

-----------------------------------------------------------------------------
(***************************************************************************)
(* instantiate: the default token state with its first distribution        *)
(* period, which must not be zero.                                         *)
(***************************************************************************)
Init ==
  /\ height = GenesisHeight
  /\ time = GenesisTime
  /\ \E blocks \in Periods :
       /\ SetDistributionPeriodFits(DefaultTokenState, height, blocks)
       /\ token_state = SetDistributionPeriod(DefaultTokenState, height, blocks)
  /\ user_state = [a \in Accounts |-> DefaultUserState]
  /\ user_keys = {}
  /\ ve_supply = 0
  /\ ve_balances = [a \in Accounts |-> 0]
  /\ wild = [a \in Accounts |-> InitialWild]
  /\ reserve = 0

Untils == GenesisTime .. MaxTime + MAX_LOCK_PERIOD

Next ==
  \/ \E a \in Accounts, amount \in LockAmounts, until \in Untils :
       Lock(a, amount, until)
  \/ \E a \in Accounts : RequestWithdraw(a)
  \/ \E a \in Accounts : Withdraw(a)
  \/ \E a \in Accounts : ExecuteClaim(a)
  \/ \E a \in Accounts, amount \in IncomeAmounts : AddIncome(a, amount)
  \/ \E blocks \in Periods : ExecuteSetDistributionPeriod(blocks)
  \/ \E a \in Accounts, amount \in GiftAmounts : TopUp(a, amount)
  \/ \E seconds \in TimeSteps : NextBlock(seconds)

Spec == Init /\ [][Next]_vars

-----------------------------------------------------------------------------
(***************************************************************************)
(* The queries of the contract (an account without a key reads as the      *)
(* default record).                                                        *)
(***************************************************************************)
QueryRewardRate == RewardRate(token_state, height)

QuotedRewardPerToken ==
  token_state.reward_per_token + PendingRewardPerToken(token_state, height)

PendingAccountReward(a) ==
  PendingReward(user_state[a], QuotedRewardPerToken)
=============================================================================
