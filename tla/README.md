# The veWILD contract in TLA+

The repository holds one CosmWasm contract, `contracts/veWILD`, a translation to
Rust of the Solidity contract `source.sol` beside it. Accounts lock WILD for up
to four years and hold veWILD in return, in proportion to the amount and to the
time left; income paid into the contract vests block by block over a
distribution period and is owed to the holders of veWILD. This directory holds a
model of the whole contract, what TLC checks of it, and what TLAPS proves of it.

## 1. The system

### Components

| part | source | state | operations |
|---|---|---|---|
| `TokenState` | `state.rs` | supply, total lock, period, two clocks (last accrual, last income), accumulator `reward_per_token`, stored rate | `accrue`, `pending_reward_per_token`, `update_reward_rate`, `set_distribution_period`, `reward_rate` |
| `UserState` | `state.rs` | veWILD balance (a copy), lock, end of the lock, snapshot of the accumulator, `withdraw_at` | `pending_reward` |
| internal functions | `internal.rs` | none of their own | `claim`, `update_lock`, `set_balance`, `check_reserves` |
| handlers | `contract.rs` | none of their own | `instantiate`, `Lock`, `RequestWithdraw`, `Withdraw`, `Claim`, `AddIncome`, `SetDistributionPeriod` |
| queries | `contract.rs` | none | `RewardRate`, `PendingAccountReward` compute; four others return stored fields |
| responses | `cw20_client.rs`, `events.rs` | none | the messages to the WILD token and the events a handler returns, in their order |
| veWILD ledger | cw20-base (library) | balances, supply | mint and burn, called by `set_balance` alone |
| WILD token | external contract | balances, allowances | `Transfer`, `TransferFrom` messages, balance query |
| the chain | CosmWasm | height, time | runs a handler, then its messages; reverts all of it when one fails |

Not modelled: error values (the guards name them in comments), message types, the
schema generator and the tests, which keep no state; the version record and the
name, symbol and decimals of the token, which are written once and read by no
handler; the `Mint` and `Burn` events of `events.rs`, which nothing emits.

### How the parts interact

Every handler of an account begins with `claim`: accrue, compute the reward,
store the fresh snapshot, refresh the veWILD balance (`update_lock`, then
`set_balance`, which mints or burns in cw20-base's ledger and copies supply and
balance back). Rewards, deposits and withdrawals are WILD messages that run
after the handler has returned; the reserve check of the handler therefore sees
the balance from before them. `AddIncome` and `SetDistributionPeriod` accrue and
then re-base the rate from the income that has not vested.

### What is hard

Nothing runs concurrently inside a transaction, but the order of transactions
is anybody's, and five numbers must agree after any of them: the veWILD ledger,
the contract's two copies of it, the accumulator with its snapshots, and the
WILD balance. The places where this is delicate are listed in `PROJECT.json`
under "hazards": stale records (`execute_withdraw` saves a record it loaded
before `claim`), checks that run before the messages they are about, clocks,
rounding and 128-bit products, and the withdrawal protocol (request, delay,
withdrawal) interleaved with new locks.

What makes each component correct:

- accumulator: no clock or snapshot is ever ahead; accruals never promise more
  than has vested (`AccrualInOrder`, `Solvency`);
- `set_balance`: three ledgers agree (`LedgersInSync`);
- `update_lock`: veWILD lies between the decayed and the full lock
  (`VeBetweenDecayAndLock`);
- handlers: `total_locked` is the sum of the locks (`LocksAddUp`), a request comes
  after the end of the lock it finds and is due a whole delay later, and a lock
  leaves whole, at a request that is due (`LocksHeld`), waiting earns nothing
  (`WaitingEarnsNothing`), all payouts are funded (`QuotesFunded`);
- queries: the quote is what is paid (`QuotesHonoured`);
- responses: the messages of a transaction, delivered one by one, amount to one
  atomic step (`AtomicTransactions`); none of the contract's own payments can
  fail it (`OnlySenderCanFail`); the events tell what the stores hold
  (`BooksAgree`);
- the way out: a claim does not fail for good (`ClaimsGoThrough`, `ExitOpen`), and a
  withdrawal that is due is served (`DueIsServed`).

## 2. The modules

| module | what it is |
|---|---|
| `VeState` | `state.rs`: the structures, each method a function from a structure to a structure |
| `VeInternal` | `internal.rs`: each function maps a *view* of the storage (token state, the sender's state, veWILD supply, the sender's veWILD) to the view it leaves |
| `VeWild` | `contract.rs` on its chain: the state, one action per message, the environment, the queries |
| `VeWildProps` | the properties, and the refinement mapping to `Escrow` |
| `Escrow` | abstract specification: deposits, what is owed, custody, requests |
| `VeWildResponse` | `cw20_client.rs` and `events.rs`: the messages and events of each handler, and the queries that return stored fields |
| `VeWildTx` | the transactions of `VeWild` taken apart: handler, messages one by one, commit or rollback, with allowances and an off-chain reader of the events |
| `VeWildLive` | fairness, and the liveness of a withdrawal |
| `VeWildClaims` | what comments, error texts, tests and the Solidity original say and the code does not do |
| `MCVeWild`, `MCVeWildTx`, `MCVeWildLive` | the instances for TLC, with their symmetry |
| `SumLemmas` | proofs about sums over finite sets |
| `VeInternalProofs` | lemmas about the operators of `VeState` and `VeInternal` |
| `VeWildProofs` | every handler is one common kind of step; type correctness |
| `VeWildInvariants` | the inductive invariant of the ledgers and the accumulator, and its theorems |
| `VeWildLocks` | the inductive invariant of locks and withdrawals, and its theorems |
| `VeWildExit` | what never fails: claims, and the way out after a period |
| `VeWildPromises` | what a depositor is promised: binding quotes, the refinement of `Escrow`; and which withdrawals the contract refuses |
| `VeWildTxProofs` | the inductive invariant of `VeWildTx`; that it implements `VeWild`; what can fail, and what the events tell |

### State and actions

| variable | code |
|---|---|
| `height`, `time` | `env.block.height`, `env.block.time.seconds()` |
| `token_state` | `TOKEN_STATE` without `locked_token` |
| `user_state`, `user_keys` | `USER_STATE`; accounts without a key read as the default record, and `user_keys` tells them apart where the code does (`load(..)?` against `unwrap_or_default`) |
| `ve_supply`, `ve_balances` | cw20-base's `TOKEN_INFO.total_supply` and `BALANCES` |
| `wild`, `reserve` | the WILD of the accounts and of the contract |

| action | code |
|---|---|
| `Lock`, `RequestWithdraw`, `Withdraw`, `ExecuteClaim`, `AddIncome`, `ExecuteSetDistributionPeriod` | the `execute_*` handler of that name, with its messages |
| `TopUp` | a WILD transfer to the contract made by anybody, outside the contract |
| `NextBlock` | the chain |

For each handler `H`, `HAccepted` is the conjunction of its guards and early
returns, of the conditions under which no `Uint128` operation panics, and of the
reserve check, evaluated in the order and on the values the code uses. A failing
transaction is reverted by the chain, so it is no step. `execute_withdraw` is
modelled with its stale record: `Released(a)` is what `claim` left with the
account's record replaced by the old one.

What is abstracted: `Uint64` fields are natural numbers (heights, seconds and
periods are only compared, subtracted and added to small constants);
`Uint128` keeps its width, `UINT128_MAX`, in every operation. In `VeWild` allowances
are left out, since a missing one makes a transaction fail as a missing balance
does, and so are the events; `VeWildTx` has both.

### Transactions taken apart

`VeWildTx` keeps the variables of `VeWild` as the stores *as written* and adds

| variable | code |
|---|---|
| `flight` | empty, or the chain's cache of the transaction under way: the stores the handler left, the WILD ledger, the messages still to be delivered, the events |
| `allowance` | cw20-base's allowances of WILD to the contract |
| `books` | what a reader of the contract's events, and of WILD transfers to it by others, has noted down |

`SubmitH` runs the handler `H` on a cache and leaves its response (`HResponse` of
`VeWildResponse`) there; `Deliver` works off one message against the cache;
`Finish` writes the cache back when none is left; `Abort` drops it when a message
is refused. Between two transactions the environment approves, tops up, or makes a
block. An allowance is modelled by its amount: cw20-base also wants an entry for a
`TransferFrom` of 0, which only an `AddIncome` of 0 would send, and no instance has one. The order of the messages is the code's: the reward of `claim` first, then
the deposit or the withdrawn lock. `execute_claim` builds a new response from the
events and messages of `claim` and drops its attributes, and `claim` emits its
event only when there is a reward (`source.sol:204` always emits it), so that a
claim that pays nothing burns veWILD in silence: `BooksAgree` can state only an
upper bound for the veWILD of an account, and equality for everything else.

Operators named `Wrong...` are faulty variants of the operator after them. No
definition uses them. Substituting one for its original must break the property
that `PROJECT.json` lists for it; this shows the property can fail.

## 3. What TLC checks

| run | instance | shows |
|---|---|---|
| `safety` | two accounts, locks of 0 or 2, income and gifts of 2, unit 2, longest lock 2 s, blocks 1 to 4, 4 WILD each | type, ledgers, locks, decay, accumulator, solvency, quotes funded, waiting, `LocksHeld`, `QuotesHonoured`, and that the contract implements `Escrow` |
| `long_lock` | one account, locks of 1 or 3, income 6, gifts 3, unit 3, longest lock 3 s, periods 1 and 3, blocks 5 to 9, blocks of 0 or 1 second, width 11 | decay, vesting and rounding where nothing divides evenly, over a longer life; `ClaimsGoThrough` and `ExitOpen` where integers overflow |
| `tx` | two accounts, locks and gifts of 1, income and allowances of 2, blocks 1 to 3 | transactions taken apart are atomic, what can make one fail, what the events tell |
| `live` | two accounts, locks and gifts of 1, income of 2, blocks 1 to 4 | a withdrawal that is due is served |
| `claim_*` | the instance of `safety` (`claim_shown` with 1000 of income and width 1360) | eight statements of the repository that the code does not meet |

Bounds, and why they are enough. Two accounts are needed for one account's
transaction to disturb another's reward, and no property relates three. Four
blocks cover top-up, lock, vesting, end of lock, request, delay and withdrawal of
both accounts, with a new lock while a request is pending. Unit and amounts are chosen so that
an accrual can credit one unit (supply 2) and be cut off (supply 4). The width
of 1000 is never the reason anything is refused in `safety`: overflow is the
subject of `long_lock` and of `claim_shown`, where width and unit have the ratio of the code,
2^128 / 10^36 = 340. `SYMMETRY` permutes the accounts, which no constant
distinguishes, except in `live`, where symmetry is not sound. In `safety` and `tx`
deadlock is checked: the chain stops at `MaxHeight`, but a `SetDistributionPeriod`
is always accepted.

In `long_lock` the width, 11, is a little more than three units, so that rewards,
the accumulator and the product of `check_reserves` all overflow on some path.
There the contract can really stop: once the accumulator no longer fits, `accrue`
panics and every handler with it (`state.rs:81`). Therefore `CHECK_DEADLOCK FALSE`.
`ClaimsGoThrough` says which overflows can stop a claim, namely those two, the
accumulator's and that of the rewards (`RewardsFit`), and none of the others: the
burn and the product of `update_lock` cannot.

In `tx` a lock adds 1, so that a first lock, an addition to it, and a deposit that
is paid out of the reward claimed by the same message all fit into three blocks
and 2 WILD; the lock of 0, which sends no message for the deposit, is in `safety`.

### Fairness

Most of the project assumes none: the contract schedules nothing and each step is
somebody's choice. `VeWildLive` adds what a withdrawal needs:

- `WF(Blocks)`: the chain makes blocks;
- `WF(Due(a) /\ ExecuteClaim(a))` and weak fairness of `Withdraw(a)`: an account
  whose request is due goes on trying both. They are its own messages, and a chain
  that makes blocks includes them. Weak fairness is enough: nobody has to be lucky.
  In the second, `ENABLED Withdraw(a)` is written out as `CanWithdraw(a)`, the
  guards of the action, because TLC is very slow at evaluating it.

Nobody has to lock, pay income or request. The premise `Outlived` says that the
chain goes on after the last distribution period and the last lock have ended:
`MaxHeight` and `MaxTime` stand for the end of time, so a period that ends
behind them would never end. It is a real premise and not only a matter of bounds:
`set_distribution_period` checks no reserves, and somebody who calls it again and
again can keep `check_reserves` refusing for ever. `DueIsServed` then says that no
request stays due for ever; it may end by the withdrawal or by the account asking
anew, which starts its delay again. It fails if `check_reserves` asks for more
than the locks after the end of a period (the mutant of `RequiredReserve`), since
nothing would then ever bring the missing WILD in. Deadlock is not checked in
`live`, where the chain ends with its bounds.

### Where the code differs from what is said of it

Each line is a run that ends in a counterexample.

1. `ValidLockAccepted`: right after instantiation every lock fails with
   `InsufficientReserves`; the deposit is counted and not yet received when the
   reserves are checked (`contract.rs:188`, against `source.sol:93-101`).
   Somebody must send WILD to the contract first, or lock 0.
2. `DueWithdrawalAccepted`: a due withdrawal fails with `ClaimFirst` when the
   accumulator has moved since the account's snapshot, although the handler has
   just claimed (`contract.rs:268`; `source.sol:138-146` claims, pays the reward and
   the lock, and is done). In the run the account that waits has no veWILD and no
   reward: it is the veWILD of the other one that has earned. A `Claim` in the same
   block gets the withdrawal through. The same stale record has a second effect,
   which the run excludes (its premise is a balance of 0): when veWILD has decayed
   since the last refresh, `set_balance` burns the old balance after `claim` has
   burnt a part of it, and the burn underflows (`contract.rs:271`). The theorem
   `StaleWithdrawalsRefused` states both for every value of the constants.
3. `ReserveRuleAfterPayout`: the rule of `internal.rs:17` is checked before the
   payout and can be broken by it (`contract.rs:293`, `319`).
4. `NoWithdrawBeforeUnlock`: a request survives a new lock, which can then be
   withdrawn before it ends, and without a delay of its own (`contract.rs:255`,
   against `error.rs:18`; the Solidity original has the same order of guards).
   `LocksHeld` holds on that behaviour: it speaks of the request, which did come
   after the end of the lock it found and did wait, and not of each deposit.
5. `AllRewardsAccounted`: what vested before the end of the period is dropped
   if the first accrual comes after it (`state.rs:154`, against `state.rs:123`).
6. `ReserveCheckAsksForUnvested`: `check_reserves` multiplies `reward_per_token`
   where `source.sol:305` multiplies the rate.
7. `PendingRewardShown`: a reward of 340 WILD or more overflows `pending_reward`,
   in the query and in every handler of the account (`state.rs:189`).
8. `AccruesToDecimals`: the accumulator is cut off at whole units, because the
   division comes before the scaling (`state.rs:101`, against `source.sol:290`).

Two differences from `source.sol` have no run: anybody may call
`SetDistributionPeriod` (`source.sol:170` says `onlyOwner`; the code has a TODO at
`contract.rs:68`), and a request is accepted in the very second the lock ends
(`source.sol:116` wants a later one), which `WaitingEarnsNothing` covers.

## 4. What is proved

For every value of the constants that satisfies the assumptions (`Accounts` is
finite, the unit and the longest lock are not 0, message amounts fit their
width, the genesis time is not 0):

| theorem | property |
|---|---|
| `TypeCorrect` | `TypeOK` |
| `LedgersAgree` | `LedgersInSync` |
| `LocksTotalled` | `LocksAddUp` |
| `AccumulatorInOrder` | `AccrualInOrder` |
| `Solvent` | `Solvency` |
| `QuotesAlwaysFunded` | `QuotesFunded` |
| `VeDecays` | `VeBetweenDecayAndLock` |
| `WaitersEarnNothing` | `WaitingEarnsNothing` |
| `DelayHolds` | `LocksHeld` (an action property of requests, not of each deposit) |
| `ClaimsNeverFail` | `ClaimsGoThrough` |
| `WayOut` | `ExitOpen` |
| `QuotesAreBinding` | `QuotesHonoured` (an action property) |
| `ImplementsTheEscrow` | `ImplementsEscrow` (a refinement) |
| `Atomic` | `AtomicTransactions` (a refinement) |
| `OnlySendersFail` | `OnlySenderCanFail` |
| `BooksAreRight` | `BooksAgree` |

`TypeCorrect`, `Invariant`, `LockInvariant`, `ExitInvariant` and `TxInvariant` state the
inductive invariants. `StaleWithdrawalsRefused` is no promise but the extent of
difference 2 of section 3. `TxImplementsVeWild` says that `VeWildTx` implements `VeWild`, and
`TxEscrow` carries solvency, quotes, locks and the escrow over to it. The properties
of the last three rows are about `TxSpec`, the others about `Spec`.

The argument has eight layers.

1. `SumLemmas`: `SumFunctionOnSet` is a fold that picks elements by `CHOOSE`. The
   module shows that the fold exists and is unique over a finite set, then what is
   needed of sums: one changed term, congruence, linearity. Induction over the
   set is a minimal counterexample.
2. `VeInternalProofs`: what each operator returns. The important ones are
   `PendingUnits` (an accrual moves the accumulator by `k * SCALE` with
   `k * supply` at most what the rate paid), `VestedBound` (what the rate paid plus
   what is left is at most what was left before), `RebasedIncome` (a new rate
   never promises more than the old rest plus the income), `SetBalanceEffect`
   and `ClaimEffect`.
3. `VeWildProofs`: the four handlers of an account are instances of `AccountStep`,
   which accrues, leaves the account a fresh snapshot, moves ledger and copies by
   the same amount, and changes the lock by `d`. The stale record of `Withdraw` is
   dealt with here: `set_balance` refuses it unless its snapshot is current.
4. `VeWildInvariants`: `IInv`, the conjunction of the five invariants, is
   inductive. `Solvency` is not inductive alone: an accrual credits every account
   `k` per veWILD it holds, so the sum of the credits is `k` times the sum of the
   *copied* balances, while `k` was computed from the *copied* supply; the two are
   related by `LedgersInSync`. And that no reward is rounded up needs every
   snapshot to be a multiple of the unit, which is `AccrualInOrder`. `QuotesFunded`
   follows from `IInv` without being part of it.
5. `VeWildLocks`: `LInv` adds to `IInv` the two invariants of locks and
   `LocksInReach`, that no lock ends later than the longest lock from now, without
   which veWILD could exceed the lock. What each handler does to the record of its
   account is `HolderStep`: the balance is refreshed to what the lock is worth now,
   and the lock grows, or a request is made, or a due one is released. For
   `Withdraw` this needs `VeBetweenDecayAndLock` itself: the balance it burns is the
   stale one, which is never below the refreshed one, and a burn of more than
   there is fails, so that nothing is left.
6. `VeWildExit`: `XInv` adds to `LInv` that the product `update_lock` computes for
   a stored lock fits (`LocksFit`): it was computed when the lock was made, and has
   only become smaller since. A claim then cannot fail in `update_lock`, because
   what it burns is the difference of the recorded and the decayed balance, and the
   recorded one is in the ledger (`LedgersInSync`); nor in `pending_reward`, because
   the product there is at most the unit times all that is owed, which the reserve
   covers (the lemma `AccruedNowCovered`) and `RewardsFit` bounds. After the end of
   a period the rate is 0, so an accrual moves nothing but a clock, `check_reserves`
   asks for the locks alone, and `Solvency` covers them; `WayOut` follows, for the
   guards of both handlers and for the payment.
7. `VeWildPromises`. *Quotes*: an accrual in a block that has accrued already adds
   nothing (`AccruedAlready`), so that after any handler a quote is what the stored
   accumulator says; a handler's own account has moved its quote to its purse
   (`WildStep`), the others keep theirs, and re-basing the rate comes after the
   accrual. *Refusals*: `SetBalanceOk`, met with the record of before `claim`, is only
   true if `claim` has moved neither snapshot nor balance (`WithdrawFresh`). The second
   half needs `VeBetweenDecayAndLock` again: the burn of the stale balance fits only if
   that is at most the fresh one, and it is at least that. *Escrow*: every step maps to
   an action of `Escrow` or to a stutter. What an account is `owed` is what has
   accrued by the *stored* accumulator, so that an accrual adds to everybody's; that
   it never takes any away is the order of the snapshots, and `Covered` is `Solvency`
   without the income that has not vested.
8. `VeWildTxProofs`. Nothing of `VeWild` speaks of `flight`, so the steps of `VeWildTx` can be
   mapped only with an invariant of the cache. `UnderWay(f)` says that the stores in
   the cache are what one of the six handlers, accepted in the state *as written*,
   answers with, together with the sums `paid` and `taken` of its messages (`Answers`);
   that the messages left are a transfer to the sender, a withdrawal of two transfers,
   a `TransferFrom`, or a transfer and then a `TransferFrom`, with `p` still to pay and `t`
   still to take (`Plan`); and that the purses in the cache are those written, with
   `paid - p` and `taken - t` moved (`Moved`). It is inductive because no other
   transaction runs meanwhile, so that what the handler read still holds when the cache
   is written back (`UnderWayIdle`); `Finish` is then the handler's action of `VeWild`.
   (TLC finds `UnderWay` invariant on the instance of `tx`; it speaks of the cache alone
   and so is a step of the proof and no property of a run.)
   *What fails*: what the contract still has to pay is in the cache, which holds the
   reserve written less `paid - p`, while `Solvency` covers `paid`; it is never nothing, because a handler
   pays a reward only when there is one, and a lock that is withdrawn is not empty
   (`WaitingEarnsNothing`). *Events*: `BInv` adds to this invariant that the books are well
   typed and agree. `Read` of one or two events is computed from the definition of the
   fold; each handler's events are then compared with what its `HolderStep` and
   `AccountStep` leave. That the veWILD told is at most the lock is part of the
   invariant: a lock's event tells the fresh balance, and a silent claim leaves the
   old one, which is not below it.

No proof uses that the reserve check succeeded: solvency holds by the
arithmetic of the accumulator alone.

Every property that the passing runs check is proved, except `DueIsServed`.
Out of the prover's reach, and left to TLC for good, is liveness under fairness:
the proof of `DueIsServed` needs `WF`, hence `ENABLED`. `WayOut` is the part of its argument
that is an invariant: the state in which both messages of the way out are accepted.
The refutations of section 3 are single behaviours, which TLC exhibits. The
models declare no `RECURSIVE` operator; sums and the reading of events are folds of the
community modules, of which no induction is needed but the one over a finite set in
`SumLemmas`.

## 5. The plan

Done: the order was `VeState`, `VeInternal`, `VeWild` (the whole contract, since
its six messages share one invariant), the properties, the abstract `Escrow`, the
claims, the proofs from the sums upwards; then the responses and `VeWildTx`,
overflow (`ClaimsGoThrough`), and the way out (`ExitOpen`, `DueIsServed`).

Then the proofs of what `VeWild` promises (`VeWildPromises`) and of the transactions taken
apart (`VeWildTxProofs`).

Next: the invariant steps of the argument for `DueIsServed` (that a pending request stays
so until it is served, that after the last period a claim settles its account for good
unless somebody pays income or changes the period), and statements for every value of the
constants of the other differences in section 3 that do not depend on the instance (`StaleWithdrawalsRefused`
is the first such theorem).
