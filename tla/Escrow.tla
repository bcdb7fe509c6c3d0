------------------------------- MODULE Escrow -------------------------------
(***************************************************************************)
(* What the veWILD contract promises about WILD, with no notion of blocks, *)
(* rates, snapshots or veWILD: an escrow that keeps deposits and pays      *)
(* rewards.                                                                *)
(*                                                                         *)
(*   - A deposit leaves only whole, to its owner, and only after a request.*)
(*   - What an account is owed never shrinks, except to 0 when it is paid; *)
(*     a step of one account may add to what the others are owed, never    *)
(*     take from it.                                                       *)
(*   - Rewards come out of what is not deposited: the custody covers all   *)
(*     deposits and all that is owed.                                      *)
(***************************************************************************)
EXTENDS Integers, FiniteSets, Functions

CONSTANTS Accounts, Amounts

VARIABLES custody,     \* the tokens the escrow holds
          deposits,    \* of each account
          owed,        \* the rewards of each account
          requested    \* the accounts that asked for their deposit

vars == <<custody, deposits, owed, requested>>

Covered ==
  custody >= SumFunctionOnSet(deposits, Accounts)
               + SumFunctionOnSet(owed, Accounts)

Init ==
  /\ custody = 0
  /\ deposits = [a \in Accounts |-> 0]
  /\ owed = [a \in Accounts |-> 0]
  /\ requested = {}

\* Account a is paid a reward, at least what it was owed.
Settle(a, reward) ==
  /\ reward >= owed[a]
  /\ owed'[a] = 0
  /\ \A b \in Accounts \ {a} : owed'[b] >= owed[b]

Deposit(a, amount, reward) ==
  /\ Settle(a, reward)
  /\ deposits' = [deposits EXCEPT ![a] = @ + amount]
  /\ custody' = custody - reward + amount
  /\ UNCHANGED requested

Harvest(a, reward) ==
  /\ Settle(a, reward)
  /\ custody' = custody - reward
  /\ UNCHANGED <<deposits, requested>>

Request(a, reward) ==
  /\ deposits[a] > 0
  /\ Settle(a, reward)
  /\ custody' = custody - reward
  /\ requested' = requested \union {a}
  /\ UNCHANGED deposits

Release(a, reward) ==
  /\ a \in requested
  /\ Settle(a, reward)
  /\ custody' = custody - reward - deposits[a]
  /\ deposits' = [deposits EXCEPT ![a] = 0]
  /\ requested' = requested \ {a}

\* Tokens come in, or rewards are credited.
Fund ==
  /\ custody' >= custody
  /\ \A a \in Accounts : owed'[a] >= owed[a]
  /\ UNCHANGED <<deposits, requested>>

Next ==
  /\ \/ \E a \in Accounts, reward \in 0 .. custody :
          \/ \E amount \in Amounts : Deposit(a, amount, reward)
          \/ Harvest(a, reward)
          \/ Request(a, reward)
          \/ Release(a, reward)
     \/ Fund
  /\ Covered'

Spec == Init /\ [][Next]_vars
=============================================================================
