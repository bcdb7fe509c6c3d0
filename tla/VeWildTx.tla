------------------------------- MODULE VeWildTx -------------------------------
(***************************************************************************)
(* The transactions of VeWild taken apart.  The chain runs the handler     *)
(* against a cache of the stores, delivers the messages of its response to *)
(* the WILD token one after the other, each against the same cache, and    *)
(* writes the cache back when all have succeeded; if one fails the cache   *)
(* is dropped.  No other transaction runs in between.                      *)
(*                                                                         *)
(* The variables of VeWild are the stores as written; flight holds the     *)
(* cache while a transaction is under way.  The WILD token has allowances  *)
(* here.  books is what a reader of the contract's events, and of WILD     *)
(* transfers to it by others, knows.                                       *)
(***************************************************************************)
EXTENDS VeWildResponse, SequencesExt

CONSTANTS Allowances     \* the allowances an account may give the contract

ASSUME AllowancesAssumption == Allowances \subseteq Nat

VARIABLES allowance,     \* of each account, to the contract
          flight,        \* << >>, or <<cache>> of the transaction under way
          books

txVars == <<vars, allowance, flight, books>>

-----------------------------------------------------------------------------
(***************************************************************************)
(* Off-chain: what the events tell.                                        *)
(***************************************************************************)
EmptyBooks ==
  [locked_balance |-> [a \in Accounts |-> 0],
   locked_until   |-> [a \in Accounts |-> 0],
   withdraw_at    |-> [a \in Accounts |-> 0],
   ve_balance     |-> [a \in Accounts |-> 0],
   custody        |-> 0,
   period         |-> 0]

Record(b, e) ==
  CASE e.type = "lock" ->
         [b EXCEPT !.custody = @ + e.locked_balance - b.locked_balance[e.account],
                   !.locked_balance[e.account] = e.locked_balance,
                   !.locked_until[e.account]   = e.locked_until,
                   !.ve_balance[e.account]     = e.ve_balance]
    [] e.type = "withdraw_request" ->
         [b EXCEPT !.withdraw_at[e.account] = e.withdraw_at]
    [] e.type = "withdraw" ->
         [b EXCEPT !.custody = @ - e.amount,
                   !.locked_balance[e.account] = @ - e.amount,
                   !.withdraw_at[e.account]    = 0,
                   !.ve_balance[e.account]     = 0]
    [] e.type = "claim" ->
         [b EXCEPT !.custody = @ - e.claim_amount,
                   !.ve_balance[e.account] = e.ve_balance]
    [] e.type = "new_income" ->
         [b EXCEPT !.custody = @ + e.add_amount]
    [] e.type = "new_distribution_period" ->
         [b EXCEPT !.period = e.value]

-----------------------------------------------------------------------------
(***************************************************************************)
(* The cache: the stores after the handler, the WILD ledger, and the       *)
(* response that is still to be worked off.                                *)
(***************************************************************************)
Written(a, v) ==
  [token  |-> v.token,
   users  |-> [user_state EXCEPT ![a] = v.user],
   keys   |-> user_keys \union {a},
   supply |-> v.supply,
   ves    |-> [ve_balances EXCEPT ![a] = v.ve]]

WrittenToken(ts) ==
  [token |-> ts, users |-> user_state, keys |-> user_keys,
   supply |-> ve_supply, ves |-> ve_balances]

Begin(call, a, stores, response) ==
  /\ flight = << >>
  /\ flight' = <<[call      |-> call,
                  sender    |-> a,
                  stores    |-> stores,
                  wild      |-> wild,
                  reserve   |-> reserve,
                  allowance |-> allowance,
                  messages  |-> response.messages,
                  events    |-> response.events]>>
  /\ UNCHANGED <<vars, allowance, books>>

SubmitLock(a, amount, until) ==
  /\ LockAccepted(a, amount, until)
  /\ Begin("lock", a, Written(a, LockView(a, amount, until)),
           LockResponse(a, amount, until))

SubmitRequestWithdraw(a) ==
  /\ RequestWithdrawAccepted(a)
  /\ Begin("request_withdraw", a,
           Written(a, [Claim(View(a), height, time)
                         EXCEPT !.user.withdraw_at = time + WITHDRAW_DELAY]),
           RequestWithdrawResponse(a))

SubmitWithdraw(a) ==
  /\ WithdrawAccepted(a)
  /\ Begin("withdraw", a, Written(a, WithdrawView(a)), WithdrawResponse(a))

SubmitClaim(a) ==
  /\ ExecuteClaimAccepted(a)
  /\ Begin("claim", a, Written(a, Claim(View(a), height, time)),
           ClaimResponse(a))

SubmitAddIncome(a, amount) ==
  /\ AddIncomeAccepted(amount)
  /\ Begin("add_income", a, WrittenToken(IncomeAdded(amount)),
           AddIncomeResponse(a, amount))

SubmitSetDistributionPeriod(a, blocks) ==
  /\ SetDistributionPeriodFits(token_state, height, blocks)
  /\ Begin("set_distribution_period", a,
           WrittenToken(SetDistributionPeriod(token_state, height, blocks)),
           SetDistributionPeriodResponse(blocks))

-----------------------------------------------------------------------------
(***************************************************************************)
(* The WILD token works off a message.  cw20-base 1.0 refuses a transfer   *)
(* of nothing.  An allowance is its amount here; that a transferFrom of    *)
(* nothing wants an entry for it, even an empty one, is left out: only     *)
(* AddIncome of nothing would send such a message.                         *)
(***************************************************************************)
Deliverable(f, m) ==
  \/ /\ m.kind = "transfer"
     /\ m.amount \in 1 .. f.reserve
  \/ /\ m.kind = "transfer_from"
     /\ m.amount <= f.allowance[m.account]
     /\ m.amount <= f.wild[m.account]

Delivered(f, m) ==
  LET g == [f EXCEPT !.messages = Tail(@)]
  IN  IF m.kind = "transfer"
      THEN [g EXCEPT !.reserve = @ - m.amount,
                     !.wild[m.account] = @ + m.amount]
      ELSE [g EXCEPT !.reserve = @ + m.amount,
                     !.wild[m.account] = @ - m.amount,
                     !.allowance[m.account] = @ - m.amount]

Deliver ==
  /\ flight # << >>
  /\ LET f == flight[1]
     IN  /\ f.messages # << >>
         /\ Deliverable(f, Head(f.messages))
         /\ flight' = <<Delivered(f, Head(f.messages))>>
  /\ UNCHANGED <<vars, allowance, books>>

Abort ==
  /\ flight # << >>
  /\ LET f == flight[1]
     IN  f.messages # << >> /\ ~ Deliverable(f, Head(f.messages))
  /\ flight' = << >>
  /\ UNCHANGED <<vars, allowance, books>>

Finish ==
  /\ flight # << >>
  /\ LET f == flight[1]
     IN  /\ f.messages = << >>
         /\ token_state' = f.stores.token
         /\ user_state'  = f.stores.users
         /\ user_keys'   = f.stores.keys
         /\ ve_supply'   = f.stores.supply
         /\ ve_balances' = f.stores.ves
         /\ wild'        = f.wild
         /\ reserve'     = f.reserve
         /\ allowance'   = f.allowance
         /\ books'       = FoldLeft(Record, books, f.events)
  /\ flight' = << >>
  /\ UNCHANGED chain

-----------------------------------------------------------------------------
(***************************************************************************)
(* The environment, between two transactions.                              *)
(***************************************************************************)
Approve(a, amount) ==
  /\ flight = << >>
  /\ allowance' = [allowance EXCEPT ![a] = amount]
  /\ UNCHANGED <<vars, flight, books>>

TxTopUp(a, amount) ==
  /\ flight = << >>
  /\ TopUp(a, amount)
  /\ books' = [books EXCEPT !.custody = @ + amount]
  /\ UNCHANGED <<allowance, flight>>

TxNextBlock(seconds) ==
  /\ flight = << >>
  /\ NextBlock(seconds)
  /\ UNCHANGED <<allowance, flight, books>>

TxInit ==
  /\ Init
  /\ allowance = [a \in Accounts |-> 0]
  /\ flight = << >>
  /\ books = Record(EmptyBooks,
                    NewDistributionPeriodEvent(token_state.distribution_period))

TxNext ==
  \/ \E a \in Accounts, amount \in LockAmounts, until \in Untils :
       SubmitLock(a, amount, until)
  \/ \E a \in Accounts : SubmitRequestWithdraw(a)
  \/ \E a \in Accounts : SubmitWithdraw(a)
  \/ \E a \in Accounts : SubmitClaim(a)
  \/ \E a \in Accounts, amount \in IncomeAmounts : SubmitAddIncome(a, amount)
  \/ \E a \in Accounts, blocks \in Periods : SubmitSetDistributionPeriod(a, blocks)
  \/ Deliver
  \/ Abort
  \/ Finish
  \/ \E a \in Accounts, amount \in Allowances : Approve(a, amount)
  \/ \E a \in Accounts, amount \in GiftAmounts : TxTopUp(a, amount)
  \/ \E seconds \in TimeSteps : TxNextBlock(seconds)

TxSpec == TxInit /\ [][TxNext]_txVars

-----------------------------------------------------------------------------
(***************************************************************************)
(* Taken apart, transactions are atomic: with flight hidden, every step is *)
(* a step of VeWild or none.  What a handler has written, and what its     *)
(* first message has moved, is never seen when a later message fails.      *)
(* This is Spec of VeWild, its stuttering steps named first, so that the   *)
(* steps of a transaction under way are seen to be such at once.           *)
(***************************************************************************)
AtomicTransactions == Init /\ [][UNCHANGED vars \/ Next]_vars

(***************************************************************************)
(* Once its handler has returned, a transaction fails only because its     *)
(* sender has not the WILD it is to pay, or has not allowed it, when the   *)
(* reward that a lock pays first is counted as the sender's.  A payment of *)
(* the contract never fails, in whatever order the responses put it        *)
(* (execute_lock, execute_withdraw, claim).                                *)
(***************************************************************************)
OnlySenderCanFail ==
  flight # << >> =>
    LET f == flight[1]
        m == Head(f.messages)
        a == f.sender
        reward == IF f.call = "lock" THEN PendingAccountReward(a) ELSE 0
    IN  f.messages # << >> /\ ~ Deliverable(f, m) =>
          /\ m.kind = "transfer_from" /\ m.account = a
          /\ m.amount > allowance[a] \/ m.amount > wild[a] + reward

(***************************************************************************)
(* The events tell every lock, every request, the distribution period, and *)
(* every WILD that came or went.  Of an account's veWILD they tell an      *)
(* upper bound, and no more: a claim that pays nothing is silent, although *)
(* it burns (claim, execute_claim).                                        *)
(***************************************************************************)
BooksAgree ==
  /\ \A a \in Accounts :
       /\ books.locked_balance[a] = QueryUserInfo(a).locked_balance
       /\ books.locked_until[a]   = QueryUserInfo(a).locked_until
       /\ books.withdraw_at[a]    = QueryUserInfo(a).withdraw_at
       /\ QueryBalance(a) <= books.ve_balance[a]
       /\ books.ve_balance[a] <= books.locked_balance[a]
  /\ books.period = QueryVeTokenInfo.distribution_period
  /\ books.custody = reserve
=============================================================================
