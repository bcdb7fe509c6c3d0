---------------------------- MODULE VeWildTxProofs ----------------------------
(***************************************************************************)
(* Theorems about transactions taken apart (VeWildTx), for every value of  *)
(* the constants: they are atomic, so that whatever is proved of VeWild    *)
(* holds of the stores here too; they fail only by their sender's purse;   *)
(* and the events tell what the stores hold.                               *)
(***************************************************************************)
EXTENDS VeWildTx, VeWildPromises, SequenceTheorems

-----------------------------------------------------------------------------
(* Short sequences.                                                        *)

LEMMA ShortConcat ==
  ASSUME NEW x, NEW y
  PROVE  /\ << >> \o << >> = << >>
         /\ << >> \o <<y>> = <<y>>
         /\ <<x>> \o << >> = <<x>>
         /\ <<x>> \o <<y>> = <<x, y>>
<1> DEFINE S == {x, y}
<1>1. << >> \in Seq(S) /\ <<x>> \in Seq(S) /\ <<y>> \in Seq(S)
  OBVIOUS
<1>2. << >> \o << >> = << >> /\ << >> \o <<y>> = <<y>>
      /\ <<x>> \o << >> = <<x>>
  BY <1>1, ConcatEmptySeq
<1>3. <<x>> \o <<y>> = <<x, y>>
  <2>1. Append(<<x>>, y) = <<x>> \o <<y>>
    <3>1. y \in S
      OBVIOUS
    <3> QED
      BY <1>1, <3>1, AppendIsConcat
  <2>2. Append(<<x>>, y) = <<x, y>>
    <3>1. /\ Append(<<x>>, y) \in Seq(S) /\ Len(Append(<<x>>, y)) = 2
          /\ Append(<<x>>, y)[1] = x /\ Append(<<x>>, y)[2] = y
      BY <1>1, AppendProperties
    <3>2. /\ <<x, y>> \in Seq(S) /\ Len(<<x, y>>) = 2
          /\ <<x, y>>[1] = x /\ <<x, y>>[2] = y
      OBVIOUS
    <3>3. \A i \in 1 .. 2 : i = 1 \/ i = 2
      OBVIOUS
    <3> HIDE DEF S
    <3> QED
      BY <3>1, <3>2, <3>3, SeqEqual
  <2> QED
    BY <2>1, <2>2
<1> QED
  BY <1>2, <1>3

LEMMA ShortTail ==
  ASSUME NEW x, NEW y
  PROVE  /\ <<x>> # << >> /\ Head(<<x>>) = x /\ Tail(<<x>>) = << >>
         /\ <<x, y>> # << >> /\ Head(<<x, y>>) = x /\ Tail(<<x, y>>) = <<y>>
OBVIOUS

-----------------------------------------------------------------------------
(* Reading one or two events.                                              *)

Read(b, es) == FoldLeft(Record, b, es)

RecordsUp(b, es, h) ==
  h = [s \in SUBSET DOMAIN es |->
         IF s = {} THEN b ELSE Record(h[s \ {Max(s)}], es[Max(s)])]

LEMMA FoldDef ==
  ASSUME NEW b, NEW es
  PROVE  Read(b, es) = (CHOOSE h : RecordsUp(b, es, h))[DOMAIN es]
BY Zenon DEF Read, FoldLeft, MapThenFoldSet, RecordsUp

LEMMA MaxOf ==
  /\ Max({1}) = 1 /\ Max({2}) = 2 /\ Max({1, 2}) = 2
BY DEF Max

(* What a reader knows after no, one and two events.                       *)
LEMMA ReadNone ==
  ASSUME NEW b
  PROVE  Read(b, << >>) = b
<1> DEFINE es == << >>
           g == [s \in SUBSET DOMAIN es |-> b]
<1>1. DOMAIN es = {}
  OBVIOUS
<1>2. RecordsUp(b, es, g)
  BY <1>1 DEF RecordsUp
<1> DEFINE h == CHOOSE h : RecordsUp(b, es, h)
<1>3. RecordsUp(b, es, h)
  BY <1>2
<1> HIDE DEF h, es
<1>4. h[DOMAIN es] = b
  BY <1>1, <1>3 DEF RecordsUp
<1> QED
  BY <1>4, FoldDef DEF h, es

LEMMA ReadOne ==
  ASSUME NEW b, NEW x
  PROVE  Read(b, <<x>>) = Record(b, x)
<1> DEFINE es == <<x>>
           g == [s \in SUBSET DOMAIN es |-> IF s = {} THEN b ELSE Record(b, x)]
<1>1. DOMAIN es = {1} /\ es[1] = x
  OBVIOUS
<1> HIDE DEF es
<1>2. SUBSET {1} = {{}, {1}} /\ {1} \ {1} = {} /\ {1} # {}
  OBVIOUS
<1>3. RecordsUp(b, es, g)
  <2>1. g[{}] = b /\ g[{1}] = Record(b, x)
    BY <1>1, <1>2
  <2>2. ASSUME NEW s \in SUBSET {1}
        PROVE  g[s] = IF s = {} THEN b ELSE Record(g[s \ {Max(s)}], es[Max(s)])
    <3>1. s = {} \/ s = {1}
      OBVIOUS
    <3> HIDE DEF g
    <3> QED
      BY <1>1, <1>2, <2>1, <3>1, MaxOf
  <2> QED
    BY <1>1, <2>2 DEF RecordsUp
<1> DEFINE h == CHOOSE h : RecordsUp(b, es, h)
<1>4. RecordsUp(b, es, h)
  BY <1>3
<1> HIDE DEF h
<1>5. h[{}] = b
  BY <1>1, <1>2, <1>4 DEF RecordsUp
<1>6. h[{1}] = Record(h[{}], x)
  BY <1>1, <1>2, <1>4, MaxOf DEF RecordsUp
<1> QED
  BY <1>1, <1>5, <1>6, FoldDef DEF h, es

LEMMA ReadTwo ==
  ASSUME NEW b, NEW x, NEW y
  PROVE  Read(b, <<x, y>>) = Record(Record(b, x), y)
<1> DEFINE es == <<x, y>>
           g == [s \in SUBSET DOMAIN es |->
                   IF s = {} THEN b
                   ELSE IF s = {1} THEN Record(b, x)
                   ELSE IF s = {2} THEN Record(b, y)
                   ELSE Record(Record(b, x), y)]
<1>1. DOMAIN es = {1, 2} /\ es[1] = x /\ es[2] = y
  OBVIOUS
<1> HIDE DEF es
<1>2. /\ {1} \ {1} = {} /\ {2} \ {2} = {} /\ {1, 2} \ {2} = {1}
      /\ {1} # {} /\ {2} # {} /\ {1} # {2} /\ {1, 2} # {}
      /\ {1, 2} # {1} /\ {1, 2} # {2}
  <2>1. {1, 2} \ {2} = {1} /\ {1} \ {1} = {} /\ {2} \ {2} = {}
    OBVIOUS
  <2>2. {1} # {} /\ {2} # {} /\ {1, 2} # {}
    OBVIOUS
  <2>3. {1} # {2} /\ {1, 2} # {1} /\ {1, 2} # {2}
    OBVIOUS
  <2> QED
    BY <2>1, <2>2, <2>3
<1> DEFINE Known == {{}, {1}, {2}, {1, 2}}
<1>8. SUBSET {1, 2} = Known
  <2>1. ASSUME NEW s \in SUBSET {1, 2}
        PROVE  s \in Known
    <3>1. CASE 1 \in s /\ 2 \in s
      <4>1. s = {1, 2}
        BY <3>1
      <4> QED
        BY <4>1
    <3>2. CASE 1 \in s /\ 2 \notin s
      <4>1. s = {1}
        BY <3>2
      <4> QED
        BY <4>1
    <3>3. CASE 1 \notin s /\ 2 \in s
      <4>1. s = {2}
        BY <3>3
      <4> QED
        BY <4>1
    <3>4. CASE 1 \notin s /\ 2 \notin s
      <4>1. s = {}
        BY <3>4
      <4> QED
        BY <4>1
    <3> QED
      BY <3>1, <3>2, <3>3, <3>4
  <2>2. Known \subseteq SUBSET {1, 2}
    OBVIOUS
  <2> QED
    BY <2>1, <2>2
<1>3. RecordsUp(b, es, g)
  <2>1. ASSUME NEW s \in SUBSET {1, 2}
        PROVE  g[s] = IF s = {} THEN b
                      ELSE Record(g[s \ {Max(s)}], es[Max(s)])
    <3>1. g[{}] = b
      BY <1>1, <1>8
    <3>2. g[{1}] = Record(b, x)
      BY <1>1, <1>2, <1>8
    <3>3. g[{2}] = Record(b, y)
      BY <1>1, <1>2, <1>8
    <3>4. g[{1, 2}] = Record(Record(b, x), y)
      BY <1>1, <1>2, <1>8
    <3> HIDE DEF g
    <3>5. s \in Known
      BY <1>8
    <3> QED
      BY <1>1, <1>2, <3>1, <3>2, <3>3, <3>4, <3>5, MaxOf
  <2> QED
    BY <1>1, <2>1 DEF RecordsUp
<1> DEFINE h == CHOOSE h : RecordsUp(b, es, h)
<1>4. RecordsUp(b, es, h)
  BY <1>3
<1> HIDE DEF h
<1>5. ASSUME NEW s \in Known
      PROVE  h[s] = IF s = {} THEN b ELSE Record(h[s \ {Max(s)}], es[Max(s)])
  BY <1>1, <1>4, <1>5, <1>8 DEF RecordsUp
<1>6. h[{}] = b
  BY <1>5
<1>7. h[{1}] = Record(h[{}], x)
  BY <1>1, <1>2, <1>5, MaxOf
<1>9. h[{1, 2}] = Record(h[{1}], y)
  BY <1>1, <1>2, <1>5, MaxOf
<1> QED
  BY <1>1, <1>6, <1>7, <1>9, FoldDef DEF h, es

-----------------------------------------------------------------------------
(* A transaction under way.                                                *)

Reward(a) == ClaimReward(View(a), height)

(* What the handler of the call has written and told, and what it is to    *)
(* pay and to take.                                                        *)
Wrote(f, stores, response) == f.stores = stores /\ f.events = response.events

LockAnswer(f, paid, taken) ==
  LET a == f.sender
  IN  /\ f.call = "lock"
      /\ paid = Reward(a) /\ taken \in LockAmounts
      /\ \E until \in Untils :
           /\ LockAccepted(a, taken, until)
           /\ Wrote(f, Written(a, LockView(a, taken, until)),
                    LockResponse(a, taken, until))

RequestAnswer(f, paid, taken) ==
  LET a == f.sender
  IN  /\ f.call = "request_withdraw"
      /\ paid = Reward(a) /\ taken = 0
      /\ RequestWithdrawAccepted(a)
      /\ Wrote(f, Written(a, RequestView(a)), RequestWithdrawResponse(a))

WithdrawAnswer(f, paid, taken) ==
  LET a == f.sender
  IN  /\ f.call = "withdraw"
      /\ paid = Reward(a) + user_state[a].locked_balance /\ taken = 0
      /\ WithdrawAccepted(a)
      /\ Wrote(f, Written(a, WithdrawView(a)), WithdrawResponse(a))

ClaimAnswer(f, paid, taken) ==
  LET a == f.sender
  IN  /\ f.call = "claim"
      /\ paid = Reward(a) /\ taken = 0
      /\ ExecuteClaimAccepted(a)
      /\ Wrote(f, Written(a, Claim(View(a), height, time)), ClaimResponse(a))

IncomeAnswer(f, paid, taken) ==
  /\ f.call = "add_income"
  /\ paid = 0 /\ taken \in IncomeAmounts
  /\ AddIncomeAccepted(taken)
  /\ Wrote(f, WrittenToken(IncomeAdded(taken)),
           AddIncomeResponse(f.sender, taken))

PeriodAnswer(f, paid, taken) ==
  /\ f.call = "set_distribution_period"
  /\ paid = 0 /\ taken = 0
  /\ \E blocks \in Periods :
       /\ SetDistributionPeriodFits(token_state, height, blocks)
       /\ Wrote(f, WrittenToken(SetDistributionPeriod(token_state, height, blocks)),
                SetDistributionPeriodResponse(blocks))

Answers(f, paid, taken) ==
  \/ LockAnswer(f, paid, taken)
  \/ RequestAnswer(f, paid, taken)
  \/ WithdrawAnswer(f, paid, taken)
  \/ ClaimAnswer(f, paid, taken)
  \/ IncomeAnswer(f, paid, taken)
  \/ PeriodAnswer(f, paid, taken)

(* The payments p and the takings t that the messages still stand for:     *)
(* whatever the handler, it pays before it takes.                          *)
Plan(a, p, t, messages) ==
  \/ messages = << >> /\ p = 0 /\ t = 0
  \/ messages = <<Transfer(a, p)>> /\ p > 0 /\ t = 0
  \/ messages = <<TransferFrom(a, t)>> /\ p = 0
  \/ messages = <<Transfer(a, p), TransferFrom(a, t)>> /\ p > 0
  \/ \E x \in 1 .. p - 1 :
       messages = <<Transfer(a, x), Transfer(a, p - x)>> /\ t = 0

(* What the messages delivered so far have moved, in the cache.            *)
Moved(f, p, t) ==
  LET a == f.sender
  IN  /\ p <= reserve
      /\ t <= allowance[a]
      /\ t <= wild[a] + p
      /\ f.wild      = [wild EXCEPT ![a] = @ + p - t]
      /\ f.reserve   = reserve - p + t
      /\ f.allowance = [allowance EXCEPT ![a] = @ - t]

(* The cache of a transaction that is to pay and take so much, of which p  *)
(* and t are left.                                                         *)
Stage(f, paid, taken, p, t) ==
  /\ Answers(f, paid, taken)
  /\ Plan(f.sender, p, t, f.messages)
  /\ p <= paid
  /\ t = taken \/ (p = 0 /\ t = 0)
  /\ Moved(f, paid - p, taken - t)

IsCache(f) ==
  f = [call |-> f.call, sender |-> f.sender, stores |-> f.stores,
       wild |-> f.wild, reserve |-> f.reserve, allowance |-> f.allowance,
       messages |-> f.messages, events |-> f.events]

UnderWay(f) ==
  /\ IsCache(f) /\ f.sender \in Accounts
  /\ \E paid \in Nat, taken \in Nat, p \in Nat, t \in Nat :
       Stage(f, paid, taken, p, t)

TxInv ==
  /\ LInv
  /\ allowance \in [Accounts -> Nat]
  /\ flight # << >> => UnderWay(flight[1])

(* The responses, as plans.                                                *)
LEMMA ClaimPlan ==
  ASSUME NEW a, Reward(a) \in Nat
  PROVE  /\ ClaimResponse(a).messages
              = IF Reward(a) = 0 THEN << >> ELSE <<Transfer(a, Reward(a))>>
         /\ ClaimResponse(a).events
              = IF Reward(a) = 0 THEN << >>
                ELSE <<ClaimEvent(a, Reward(a), Claim(View(a), height, time).ve)>>
         /\ Plan(a, Reward(a), 0, ClaimResponse(a).messages)
<1>1. /\ ClaimResponse(a).messages
              = IF Reward(a) = 0 THEN << >> ELSE <<Transfer(a, Reward(a))>>
      /\ ClaimResponse(a).events
           = IF Reward(a) = 0 THEN << >>
             ELSE <<ClaimEvent(a, Reward(a), Claim(View(a), height, time).ve)>>
  BY DEF ClaimResponse, Response, Reward
<1> HIDE DEF Reward
<1> QED
  BY <1>1 DEF Plan

LEMMA LockPlan ==
  ASSUME NEW a, NEW amount \in Nat, NEW until, Reward(a) \in Nat
  PROVE  /\ Plan(a, Reward(a), amount, LockResponse(a, amount, until).messages)
         /\ LockResponse(a, amount, until).events
              = ClaimResponse(a).events
                  \o <<LockEvent(a, LockView(a, amount, until))>>
<1> DEFINE pays  == ClaimResponse(a).messages
           takes == DepositMessages(a, amount)
<1>1. /\ LockResponse(a, amount, until).messages = pays \o takes
      /\ LockResponse(a, amount, until).events
           = ClaimResponse(a).events
               \o <<LockEvent(a, LockView(a, amount, until))>>
  BY DEF LockResponse, After, Response
<1>2. pays = IF Reward(a) = 0 THEN << >> ELSE <<Transfer(a, Reward(a))>>
  BY ClaimPlan
<1>3. takes = IF amount = 0 THEN << >> ELSE <<TransferFrom(a, amount)>>
  BY DEF DepositMessages
<1> HIDE DEF pays, takes
<1>4. pays \o takes
        = IF Reward(a) = 0
          THEN IF amount = 0 THEN << >> ELSE <<TransferFrom(a, amount)>>
          ELSE IF amount = 0 THEN <<Transfer(a, Reward(a))>>
               ELSE <<Transfer(a, Reward(a)), TransferFrom(a, amount)>>
  BY <1>2, <1>3, ShortConcat
<1>5. Plan(a, Reward(a), amount, pays \o takes)
  BY <1>4 DEF Plan
<1> QED
  BY <1>1, <1>5

LEMMA RequestPlan ==
  ASSUME NEW a, Reward(a) \in Nat
  PROVE  /\ Plan(a, Reward(a), 0, RequestWithdrawResponse(a).messages)
         /\ RequestWithdrawResponse(a).events
              = ClaimResponse(a).events
                  \o <<WithdrawRequestEvent(a, user_state[a].locked_balance,
                                            time + WITHDRAW_DELAY)>>
<1>1. /\ RequestWithdrawResponse(a).messages
           = ClaimResponse(a).messages \o << >>
      /\ RequestWithdrawResponse(a).events
           = ClaimResponse(a).events
               \o <<WithdrawRequestEvent(a, user_state[a].locked_balance,
                                         time + WITHDRAW_DELAY)>>
  BY DEF RequestWithdrawResponse, After, Response
<1>2. ClaimResponse(a).messages \o << >> = ClaimResponse(a).messages
  BY ClaimPlan, ShortConcat
<1> QED
  BY <1>1, <1>2, ClaimPlan

LEMMA WithdrawPlan ==
  ASSUME NEW a, Reward(a) \in Nat, user_state[a].locked_balance \in Nat \ {0}
  PROVE  /\ Plan(a, Reward(a) + user_state[a].locked_balance, 0,
                 WithdrawResponse(a).messages)
         /\ WithdrawResponse(a).events
              = ClaimResponse(a).events
                  \o <<WithdrawEvent(a, user_state[a].locked_balance)>>
<1> DEFINE n    == user_state[a].locked_balance
           pays == ClaimResponse(a).messages
           r    == Reward(a)
<1>1. /\ WithdrawResponse(a).messages = pays \o <<Transfer(a, n)>>
      /\ WithdrawResponse(a).events
           = ClaimResponse(a).events \o <<WithdrawEvent(a, n)>>
  BY DEF WithdrawResponse, After, Response
<1>2. pays = IF r = 0 THEN << >> ELSE <<Transfer(a, r)>>
  BY ClaimPlan
<1>3. r \in Nat /\ n \in Nat \ {0}
  OBVIOUS
<1> HIDE DEF n, pays, r
<1>4. pays \o <<Transfer(a, n)>>
        = IF r = 0 THEN <<Transfer(a, n)>> ELSE <<Transfer(a, r), Transfer(a, n)>>
  BY <1>2, ShortConcat
<1>5. Plan(a, r + n, 0, pays \o <<Transfer(a, n)>>)
  <2>1. CASE r = 0
    <3>1. r + n = n /\ n > 0
      BY <1>3, <2>1
    <3> QED
      BY <1>4, <2>1, <3>1 DEF Plan
  <2>2. CASE r # 0
    <3>1. r \in 1 .. (r + n) - 1 /\ (r + n) - r = n
      BY <1>3, <2>2
    <3> QED
      BY <1>4, <2>2, <3>1 DEF Plan
  <2> QED
    BY <2>1, <2>2
<1> QED
  BY <1>1, <1>5 DEF n, r

(* A handler returns: nothing is moved yet.                                *)
LEMMA Begun ==
  ASSUME TypeOK, allowance \in [Accounts -> Nat], NEW a \in Accounts,
         NEW call, NEW stores, NEW response, Begin(call, a, stores, response)
  PROVE  LET f == flight'[1]
         IN  /\ flight' # << >>
             /\ f.call = call /\ f.sender = a
             /\ f.messages = response.messages
             /\ Wrote(f, stores, response)
             /\ Moved(f, 0, 0)
             /\ IsCache(f)
<1> DEFINE f == flight'[1]
<1>1. f = [call      |-> call,
           sender    |-> a,
           stores    |-> stores,
           wild      |-> wild,
           reserve   |-> reserve,
           allowance |-> allowance,
           messages  |-> response.messages,
           events    |-> response.events]
      /\ flight' # << >>
  BY DEF Begin
<1> HIDE DEF f
<1>2. /\ f.call = call /\ f.sender = a /\ f.stores = stores
      /\ f.messages = response.messages /\ f.events = response.events
      /\ f.wild = wild /\ f.reserve = reserve /\ f.allowance = allowance
  BY <1>1
<1>3. /\ wild \in [Accounts -> Nat] /\ reserve \in Nat
      /\ wild[a] \in Nat /\ allowance[a] \in Nat
  BY DEF TypeOK
<1>4. wild = [wild EXCEPT ![a] = @ + 0 - 0]
  BY <1>3
<1>5. allowance = [allowance EXCEPT ![a] = @ - 0]
  BY <1>3
<1>6. reserve = reserve - 0 + 0 /\ 0 <= reserve
      /\ 0 <= allowance[a] /\ 0 <= wild[a] + 0
  BY <1>3
<1>7. Moved(f, 0, 0)
  BY <1>2, <1>4, <1>5, <1>6 DEF Moved
<1> QED
  BY <1>1, <1>2, <1>7 DEF Wrote, IsCache, f

LEMMA BegunUnderWay ==
  ASSUME NEW f, IsCache(f), f.sender \in Accounts, NEW p \in Nat, NEW t \in Nat,
         Plan(f.sender, p, t, f.messages), Answers(f, p, t), Moved(f, 0, 0)
  PROVE  UnderWay(f)
<1>1. Stage(f, p, t, p, t)
  <2>1. p - p = 0 /\ t - t = 0 /\ p <= p
    OBVIOUS
  <2> QED
    BY <2>1 DEF Stage
<1> QED
  BY <1>1 DEF UnderWay

LEMMA RewardNat ==
  ASSUME LInv, NEW a \in Accounts
  PROVE  Reward(a) \in Nat
BY PayoutCovered DEF Reward

LEMMA SubmitLockBegins ==
  ASSUME TxInv, NEW a \in Accounts, NEW amount \in LockAmounts,
         NEW until \in Untils, SubmitLock(a, amount, until)
  PROVE  UnderWay(flight'[1])
<1> DEFINE f == flight'[1]
           response == LockResponse(a, amount, until)
<1>1. TypeOK /\ LInv /\ allowance \in [Accounts -> Nat]
  BY DEF TxInv, LInv, IInv
<1>2. /\ f.call = "lock" /\ f.sender = a
      /\ f.messages = response.messages
      /\ Wrote(f, Written(a, LockView(a, amount, until)), response)
      /\ Moved(f, 0, 0) /\ IsCache(f)
  BY <1>1, Begun DEF SubmitLock
<1>3. LockAccepted(a, amount, until)
  BY DEF SubmitLock
<1> HIDE DEF f
<1>4. amount \in Nat /\ Reward(a) \in Nat
  BY <1>1, RewardNat, InputsAssumption, UintNat
<1>5. Plan(f.sender, Reward(a), amount, f.messages)
  BY <1>2, <1>4, LockPlan
<1>6. LockAnswer(f, Reward(a), amount)
  BY <1>2, <1>3 DEF LockAnswer
<1>7. UnderWay(f)
  BY <1>2, <1>4, <1>5, <1>6, BegunUnderWay DEF Answers
<1> QED
  BY <1>7 DEF f

LEMMA SubmitRequestBegins ==
  ASSUME TxInv, NEW a \in Accounts, SubmitRequestWithdraw(a)
  PROVE  UnderWay(flight'[1])
<1> DEFINE f == flight'[1]
           response == RequestWithdrawResponse(a)
<1>1. TypeOK /\ LInv /\ allowance \in [Accounts -> Nat]
  BY DEF TxInv, LInv, IInv
<1>2. /\ f.call = "request_withdraw" /\ f.sender = a
      /\ f.messages = response.messages
      /\ Wrote(f, Written(a, RequestView(a)), response)
      /\ Moved(f, 0, 0) /\ IsCache(f)
  BY <1>1, Begun DEF SubmitRequestWithdraw, RequestView
<1>3. RequestWithdrawAccepted(a)
  BY DEF SubmitRequestWithdraw
<1> HIDE DEF f
<1>4. Reward(a) \in Nat
  BY <1>1, RewardNat
<1>5. Plan(f.sender, Reward(a), 0, f.messages)
  BY <1>2, <1>4, RequestPlan
<1>6. RequestAnswer(f, Reward(a), 0)
  BY <1>2, <1>3 DEF RequestAnswer
<1>7. UnderWay(f)
  BY <1>2, <1>4, <1>5, <1>6, BegunUnderWay DEF Answers
<1> QED
  BY <1>7 DEF f

(* A withdrawal pays: a request that is due has a lock behind it.          *)
LEMMA SubmitWithdrawBegins ==
  ASSUME TxInv, NEW a \in Accounts, SubmitWithdraw(a)
  PROVE  UnderWay(flight'[1])
<1> DEFINE f == flight'[1]
           response == WithdrawResponse(a)
           n == user_state[a].locked_balance
<1>1. TypeOK /\ LInv /\ allowance \in [Accounts -> Nat]
  BY DEF TxInv, LInv, IInv
<1>2. /\ f.call = "withdraw" /\ f.sender = a
      /\ f.messages = response.messages
      /\ Wrote(f, Written(a, WithdrawView(a)), response)
      /\ Moved(f, 0, 0) /\ IsCache(f)
  BY <1>1, Begun DEF SubmitWithdraw
<1>3. WithdrawAccepted(a)
  BY DEF SubmitWithdraw
<1>4. n \in Nat \ {0} /\ Reward(a) \in Nat
  <2>1. n \in Nat
    BY <1>1, UintNat DEF TypeOK, UserState
  <2>2. n > 0
    BY <1>1, <1>3 DEF WithdrawAccepted, LInv, WaitingEarnsNothing
  <2> QED
    BY <1>1, <2>1, <2>2, RewardNat
<1> HIDE DEF f
<1>5. Plan(f.sender, Reward(a) + n, 0, f.messages)
  BY <1>2, <1>4, WithdrawPlan
<1>6. WithdrawAnswer(f, Reward(a) + n, 0)
  BY <1>2, <1>3 DEF WithdrawAnswer
<1>7. Reward(a) + n \in Nat
  BY <1>4
<1>8. UnderWay(f)
  BY <1>2, <1>5, <1>6, <1>7, BegunUnderWay DEF Answers
<1> QED
  BY <1>8 DEF f

LEMMA SubmitClaimBegins ==
  ASSUME TxInv, NEW a \in Accounts, SubmitClaim(a)
  PROVE  UnderWay(flight'[1])
<1> DEFINE f == flight'[1]
           response == ClaimResponse(a)
<1>1. TypeOK /\ LInv /\ allowance \in [Accounts -> Nat]
  BY DEF TxInv, LInv, IInv
<1>2. /\ f.call = "claim" /\ f.sender = a
      /\ f.messages = response.messages
      /\ Wrote(f, Written(a, Claim(View(a), height, time)), response)
      /\ Moved(f, 0, 0) /\ IsCache(f)
  BY <1>1, Begun DEF SubmitClaim
<1>3. ExecuteClaimAccepted(a)
  BY DEF SubmitClaim
<1> HIDE DEF f
<1>4. Reward(a) \in Nat
  BY <1>1, RewardNat
<1>5. Plan(f.sender, Reward(a), 0, f.messages)
  BY <1>2, <1>4, ClaimPlan
<1>6. ClaimAnswer(f, Reward(a), 0)
  BY <1>2, <1>3 DEF ClaimAnswer
<1>7. UnderWay(f)
  BY <1>2, <1>4, <1>5, <1>6, BegunUnderWay DEF Answers
<1> QED
  BY <1>7 DEF f

LEMMA SubmitIncomeBegins ==
  ASSUME TxInv, NEW a \in Accounts, NEW amount \in IncomeAmounts,
         SubmitAddIncome(a, amount)
  PROVE  UnderWay(flight'[1])
<1> DEFINE f == flight'[1]
           response == AddIncomeResponse(a, amount)
<1>1. TypeOK /\ allowance \in [Accounts -> Nat]
  BY DEF TxInv, LInv, IInv
<1>2. /\ f.call = "add_income" /\ f.sender = a
      /\ f.messages = response.messages
      /\ Wrote(f, WrittenToken(IncomeAdded(amount)), response)
      /\ Moved(f, 0, 0) /\ IsCache(f)
  BY <1>1, Begun DEF SubmitAddIncome
<1>3. AddIncomeAccepted(amount)
  BY DEF SubmitAddIncome
<1>4. amount \in Nat
  BY InputsAssumption, UintNat
<1>5. response.messages = <<TransferFrom(a, amount)>>
  BY DEF AddIncomeResponse, Response
<1> HIDE DEF f
<1>6. Plan(f.sender, 0, amount, f.messages)
  BY <1>2, <1>5 DEF Plan
<1>7. IncomeAnswer(f, 0, amount)
  BY <1>2, <1>3 DEF IncomeAnswer
<1>8. UnderWay(f)
  BY <1>2, <1>4, <1>6, <1>7, BegunUnderWay DEF Answers
<1> QED
  BY <1>8 DEF f

LEMMA SubmitPeriodBegins ==
  ASSUME TxInv, NEW a \in Accounts, NEW blocks \in Periods,
         SubmitSetDistributionPeriod(a, blocks)
  PROVE  UnderWay(flight'[1])
<1> DEFINE f == flight'[1]
           response == SetDistributionPeriodResponse(blocks)
           ts == SetDistributionPeriod(token_state, height, blocks)
<1>1. TypeOK /\ allowance \in [Accounts -> Nat]
  BY DEF TxInv, LInv, IInv
<1>2. /\ f.call = "set_distribution_period" /\ f.sender = a
      /\ f.messages = response.messages
      /\ Wrote(f, WrittenToken(ts), response)
      /\ Moved(f, 0, 0) /\ IsCache(f)
  BY <1>1, Begun DEF SubmitSetDistributionPeriod
<1>3. SetDistributionPeriodFits(token_state, height, blocks)
  BY DEF SubmitSetDistributionPeriod
<1>4. response.messages = << >>
  BY DEF SetDistributionPeriodResponse, Response
<1> HIDE DEF f
<1>5. Plan(f.sender, 0, 0, f.messages)
  BY <1>2, <1>4 DEF Plan
<1>6. PeriodAnswer(f, 0, 0)
  BY <1>2, <1>3 DEF PeriodAnswer
<1>7. UnderWay(f)
  BY <1>2, <1>5, <1>6, BegunUnderWay DEF Answers
<1> QED
  BY <1>7 DEF f

(* What the token does with a message.                                     *)
LEMMA DeliveredRecord ==
  ASSUME NEW f, NEW m, IsCache(f)
  PROVE  Delivered(f, m) =
           IF m.kind = "transfer"
           THEN [call |-> f.call, sender |-> f.sender, stores |-> f.stores,
                 wild |-> [f.wild EXCEPT ![m.account] = @ + m.amount],
                 reserve |-> f.reserve - m.amount,
                 allowance |-> f.allowance,
                 messages |-> Tail(f.messages), events |-> f.events]
           ELSE [call |-> f.call, sender |-> f.sender, stores |-> f.stores,
                 wild |-> [f.wild EXCEPT ![m.account] = @ - m.amount],
                 reserve |-> f.reserve + m.amount,
                 allowance |-> [f.allowance EXCEPT ![m.account] = @ - m.amount],
                 messages |-> Tail(f.messages), events |-> f.events]
<1> DEFINE g == Delivered(f, m)
           c == f.call  s == f.sender  st == f.stores  w == f.wild
           r == f.reserve  al == f.allowance  ms == f.messages  ev == f.events
<1>1. f = [call |-> c, sender |-> s, stores |-> st, wild |-> w, reserve |-> r,
           allowance |-> al, messages |-> ms, events |-> ev]
  BY DEF IsCache
<1> HIDE DEF c, s, st, w, r, al, ms, ev
<1> DEFINE rest == Tail(ms)
           e == [f EXCEPT !.messages = rest]
<1>2. g = IF m.kind = "transfer"
          THEN [call |-> c, sender |-> s, stores |-> st,
                wild |-> [w EXCEPT ![m.account] = @ + m.amount],
                reserve |-> r - m.amount, allowance |-> al,
                messages |-> rest, events |-> ev]
          ELSE [call |-> c, sender |-> s, stores |-> st,
                wild |-> [w EXCEPT ![m.account] = @ - m.amount],
                reserve |-> r + m.amount,
                allowance |-> [al EXCEPT ![m.account] = @ - m.amount],
                messages |-> rest, events |-> ev]
  <2>1. f.messages = ms
    BY <1>1
  <2>2. g = IF m.kind = "transfer"
            THEN [e EXCEPT !.reserve = @ - m.amount,
                           !.wild[m.account] = @ + m.amount]
            ELSE [e EXCEPT !.reserve = @ + m.amount,
                           !.wild[m.account] = @ - m.amount,
                           !.allowance[m.account] = @ - m.amount]
    BY <2>1 DEF Delivered
  <2> HIDE DEF rest, g
  <2>3. e = [call |-> c, sender |-> s, stores |-> st, wild |-> w, reserve |-> r,
             allowance |-> al, messages |-> rest, events |-> ev]
    BY <1>1
  <2> HIDE DEF e
  <2>4. e.wild = w /\ e.reserve = r /\ e.allowance = al
    BY <2>3
  <2>5. CASE m.kind = "transfer"
    <3> DEFINE w2 == [w EXCEPT ![m.account] = @ + m.amount]
               r2 == r - m.amount
    <3>1. g = [e EXCEPT !.reserve = r2, !.wild = w2]
      BY <2>2, <2>4, <2>5
    <3> HIDE DEF w2, r2
    <3>2. g = [call |-> c, sender |-> s, stores |-> st, wild |-> w2,
               reserve |-> r2, allowance |-> al, messages |-> rest, events |-> ev]
      BY <2>3, <3>1
    <3> QED
      BY <2>5, <3>2 DEF w2, r2
  <2>6. CASE m.kind # "transfer"
    <3> DEFINE w2 == [w EXCEPT ![m.account] = @ - m.amount]
               r2 == r + m.amount
               al2 == [al EXCEPT ![m.account] = @ - m.amount]
    <3>1. g = [e EXCEPT !.reserve = r2, !.wild = w2, !.allowance = al2]
      BY <2>2, <2>4, <2>6
    <3> HIDE DEF w2, r2, al2
    <3>2. g = [call |-> c, sender |-> s, stores |-> st, wild |-> w2,
               reserve |-> r2, allowance |-> al2, messages |-> rest, events |-> ev]
      BY <2>3, <3>1
    <3> QED
      BY <2>6, <3>2 DEF w2, r2, al2
  <2> QED
    BY <2>5, <2>6
<1> QED
  BY <1>2 DEF g, rest, c, s, st, w, r, al, ms, ev

LEMMA DeliveredTransfer ==
  ASSUME NEW f, IsCache(f), NEW a, NEW x
  PROVE  Delivered(f, Transfer(a, x)) =
           [call |-> f.call, sender |-> f.sender, stores |-> f.stores,
            wild |-> [f.wild EXCEPT ![a] = @ + x],
            reserve |-> f.reserve - x, allowance |-> f.allowance,
            messages |-> Tail(f.messages), events |-> f.events]
<1> DEFINE m == Transfer(a, x)
<1>1. m.kind = "transfer" /\ m.account = a /\ m.amount = x
  BY DEF Transfer
<1> HIDE DEF m
<1>2. Delivered(f, m) =
        [call |-> f.call, sender |-> f.sender, stores |-> f.stores,
         wild |-> [f.wild EXCEPT ![m.account] = @ + m.amount],
         reserve |-> f.reserve - m.amount, allowance |-> f.allowance,
         messages |-> Tail(f.messages), events |-> f.events]
  BY <1>1, DeliveredRecord, Zenon
<1> QED
  BY <1>1, <1>2, Zenon DEF m

LEMMA DeliveredTransferFrom ==
  ASSUME NEW f, IsCache(f), NEW a, NEW x
  PROVE  Delivered(f, TransferFrom(a, x)) =
           [call |-> f.call, sender |-> f.sender, stores |-> f.stores,
            wild |-> [f.wild EXCEPT ![a] = @ - x],
            reserve |-> f.reserve + x,
            allowance |-> [f.allowance EXCEPT ![a] = @ - x],
            messages |-> Tail(f.messages), events |-> f.events]
<1> DEFINE m == TransferFrom(a, x)
<1>1. m.kind # "transfer" /\ m.account = a /\ m.amount = x
  BY DEF TransferFrom
<1> HIDE DEF m
<1>2. Delivered(f, m) =
        [call |-> f.call, sender |-> f.sender, stores |-> f.stores,
         wild |-> [f.wild EXCEPT ![m.account] = @ - m.amount],
         reserve |-> f.reserve + m.amount,
         allowance |-> [f.allowance EXCEPT ![m.account] = @ - m.amount],
         messages |-> Tail(f.messages), events |-> f.events]
  BY <1>1, DeliveredRecord, Zenon
<1> QED
  BY <1>1, <1>2, Zenon DEF m

(* A message is delivered: so much less is left.                           *)
LEMMA PaysOn ==
  ASSUME TypeOK, allowance \in [Accounts -> Nat],
         NEW f, IsCache(f), f.sender \in Accounts, NEW paid \in Nat,
         NEW taken \in Nat, NEW p \in Nat, NEW t \in Nat, NEW x \in 1 .. p,
         Stage(f, paid, taken, p, t), f.messages # << >>,
         Head(f.messages) = Transfer(f.sender, x),
         Plan(f.sender, p - x, t, Tail(f.messages)),
         x <= f.reserve
  PROVE  /\ IsCache(Delivered(f, Head(f.messages)))
         /\ Delivered(f, Head(f.messages)).sender = f.sender
         /\ Stage(Delivered(f, Head(f.messages)), paid, taken, p - x, t)
<1> DEFINE a == f.sender
           g == Delivered(f, Head(f.messages))
<1>1. /\ g.call = f.call /\ g.sender = a /\ g.stores = f.stores
      /\ g.events = f.events /\ g.allowance = f.allowance
      /\ g.messages = Tail(f.messages)
      /\ g.reserve = f.reserve - x
      /\ g.wild = [f.wild EXCEPT ![a] = @ + x]
      /\ IsCache(g)
  <2>1. g = Delivered(f, Transfer(a, x)) /\ IsCache(f)
    OBVIOUS
  <2> HIDE DEF a
  <2>2. Delivered(f, Transfer(a, x)) = [call |-> f.call, sender |-> f.sender, stores |-> f.stores,
             wild |-> [f.wild EXCEPT ![a] = @ + x],
             reserve |-> f.reserve - x, allowance |-> f.allowance,
             messages |-> Tail(f.messages), events |-> f.events]
    BY <2>1, DeliveredTransfer
  <2> HIDE DEF g
  <2> QED
    BY <2>1, <2>2 DEF IsCache, a
<1>2. t = taken
  BY DEF Stage
<1>3. /\ wild \in [Accounts -> Nat] /\ reserve \in Nat
      /\ wild[a] \in Nat /\ allowance[a] \in Nat
  BY DEF TypeOK
<1>4. /\ f.wild      = [wild EXCEPT ![a] = @ + (paid - p) - (taken - t)]
      /\ f.reserve   = reserve - (paid - p) + (taken - t)
      /\ f.allowance = [allowance EXCEPT ![a] = @ - (taken - t)]
      /\ p <= paid /\ a \in Accounts /\ x \in 1 .. p
  BY DEF Stage, Moved
<1>5. x <= f.reserve
  OBVIOUS
<1>6. Answers(g, paid, taken)
  BY <1>1 DEF Stage, Answers, LockAnswer, RequestAnswer, WithdrawAnswer,
              ClaimAnswer, IncomeAnswer, PeriodAnswer, Wrote
<1> HIDE DEF g
<1>7. Moved(g, paid - (p - x), taken - t)
  <2>1. g.wild = [wild EXCEPT ![a] = @ + (paid - (p - x)) - (taken - t)]
    <3>1. f.wild[a] = wild[a] + (paid - p) - (taken - t)
      BY <1>3, <1>4
    <3>2. f.wild[a] + x = wild[a] + (paid - (p - x)) - (taken - t)
      BY <1>2, <1>3, <1>4, <3>1
    <3> QED
      BY <1>1, <1>3, <1>4, <3>2
  <2>2. g.reserve = reserve - (paid - (p - x)) + (taken - t)
    BY <1>1, <1>2, <1>3, <1>4
  <2>3. paid - (p - x) <= reserve
    BY <1>2, <1>3, <1>4, <1>5
  <2>4. taken - t <= allowance[a] /\ taken - t <= wild[a] + (paid - (p - x))
    BY <1>2, <1>3, <1>4
  <2> QED
    BY <1>1, <1>4, <2>1, <2>2, <2>3, <2>4 DEF Moved
<1>8. Stage(g, paid, taken, p - x, t)
  BY <1>1, <1>2, <1>4, <1>6, <1>7 DEF Stage
<1> QED
  BY <1>1, <1>8 DEF g

LEMMA TakesOn ==
  ASSUME TypeOK, allowance \in [Accounts -> Nat],
         NEW f, IsCache(f), f.sender \in Accounts, NEW paid \in Nat,
         NEW taken \in Nat, NEW t \in Nat,
         Stage(f, paid, taken, 0, t), f.messages # << >>,
         Head(f.messages) = TransferFrom(f.sender, t),
         Tail(f.messages) = << >>,
         t <= f.allowance[f.sender], t <= f.wild[f.sender]
  PROVE  /\ IsCache(Delivered(f, Head(f.messages)))
         /\ Delivered(f, Head(f.messages)).sender = f.sender
         /\ Stage(Delivered(f, Head(f.messages)), paid, taken, 0, 0)
<1> DEFINE a == f.sender
           g == Delivered(f, Head(f.messages))
<1>1. /\ g.call = f.call /\ g.sender = a /\ g.stores = f.stores
      /\ g.events = f.events
      /\ g.allowance = [f.allowance EXCEPT ![a] = @ - t]
      /\ g.messages = << >>
      /\ g.reserve = f.reserve + t
      /\ g.wild = [f.wild EXCEPT ![a] = @ - t]
      /\ IsCache(g)
  <2>1. g = Delivered(f, TransferFrom(a, t)) /\ IsCache(f)
    OBVIOUS
  <2> HIDE DEF a
  <2>2. Delivered(f, TransferFrom(a, t)) = [call |-> f.call, sender |-> f.sender, stores |-> f.stores,
             wild |-> [f.wild EXCEPT ![a] = @ - t],
             reserve |-> f.reserve + t, allowance |-> [f.allowance EXCEPT ![a] = @ - t],
             messages |-> Tail(f.messages), events |-> f.events]
    BY <2>1, DeliveredTransferFrom
  <2> HIDE DEF g
  <2> QED
    BY <2>1, <2>2 DEF IsCache, a
<1>2. /\ wild \in [Accounts -> Nat] /\ reserve \in Nat
      /\ wild[a] \in Nat /\ allowance[a] \in Nat
  BY DEF TypeOK
<1>3. /\ f.wild      = [wild EXCEPT ![a] = @ + (paid - 0) - (taken - t)]
      /\ f.reserve   = reserve - (paid - 0) + (taken - t)
      /\ f.allowance = [allowance EXCEPT ![a] = @ - (taken - t)]
      /\ a \in Accounts /\ paid - 0 <= reserve /\ 0 <= paid
  BY DEF Stage, Moved
<1>4. /\ f.wild[a] = wild[a] + (paid - 0) - (taken - t)
      /\ f.allowance[a] = allowance[a] - (taken - t)
  BY <1>2, <1>3
<1>5. t <= f.allowance[a] /\ t <= f.wild[a]
  OBVIOUS
<1>6. Answers(g, paid, taken)
  BY <1>1 DEF Stage, Answers, LockAnswer, RequestAnswer, WithdrawAnswer,
              ClaimAnswer, IncomeAnswer, PeriodAnswer, Wrote
<1> HIDE DEF g
<1>7. Moved(g, paid - 0, taken - 0)
  <2>1. g.wild = [wild EXCEPT ![a] = @ + (paid - 0) - (taken - 0)]
    <3>1. f.wild[a] - t = wild[a] + (paid - 0) - (taken - 0)
      BY <1>2, <1>4
    <3> QED
      BY <1>1, <1>2, <1>3, <3>1
  <2>2. g.allowance = [allowance EXCEPT ![a] = @ - (taken - 0)]
    <3>1. f.allowance[a] - t = allowance[a] - (taken - 0)
      BY <1>2, <1>4
    <3> QED
      BY <1>1, <1>3, <3>1
  <2>3. g.reserve = reserve - (paid - 0) + (taken - 0)
    BY <1>1, <1>2, <1>3
  <2>4. taken - 0 <= allowance[a] /\ taken - 0 <= wild[a] + (paid - 0)
    BY <1>2, <1>4, <1>5
  <2> QED
    BY <1>1, <1>3, <2>1, <2>2, <2>3, <2>4 DEF Moved
<1>8. Plan(a, 0, 0, g.messages)
  BY <1>1 DEF Plan
<1>9. Stage(g, paid, taken, 0, 0)
  BY <1>1, <1>3, <1>6, <1>7, <1>8 DEF Stage
<1> QED
  BY <1>1, <1>9 DEF g

(* The first message of a plan.                                            *)
LEMMA PlanHead ==
  ASSUME NEW a, NEW p \in Nat, NEW t \in Nat, NEW messages,
         Plan(a, p, t, messages), messages # << >>
  PROVE  \/ \E x \in 1 .. p : /\ Head(messages) = Transfer(a, x)
                              /\ Plan(a, p - x, t, Tail(messages))
         \/ /\ p = 0 /\ Head(messages) = TransferFrom(a, t)
            /\ Tail(messages) = << >>
<1>1. CASE messages = <<Transfer(a, p)>> /\ p > 0 /\ t = 0
  <2>1. p \in 1 .. p /\ p - p = 0
    BY <1>1
  <2>2. Head(messages) = Transfer(a, p) /\ Tail(messages) = << >>
    BY <1>1, ShortTail
  <2>3. Plan(a, p - p, t, Tail(messages))
    BY <1>1, <2>1, <2>2 DEF Plan
  <2> QED
    BY <2>1, <2>2, <2>3
<1>2. CASE messages = <<TransferFrom(a, t)>> /\ p = 0
  BY <1>2, ShortTail
<1>3. CASE messages = <<Transfer(a, p), TransferFrom(a, t)>> /\ p > 0
  <2>1. p \in 1 .. p /\ p - p = 0
    BY <1>3
  <2>2. Head(messages) = Transfer(a, p) /\ Tail(messages) = <<TransferFrom(a, t)>>
    BY <1>3, ShortTail
  <2>3. Plan(a, p - p, t, Tail(messages))
    BY <2>1, <2>2 DEF Plan
  <2> QED
    BY <2>1, <2>2, <2>3
<1>4. ASSUME NEW x \in 1 .. p - 1, t = 0,
             messages = <<Transfer(a, x), Transfer(a, p - x)>>
      PROVE  \E y \in 1 .. p : /\ Head(messages) = Transfer(a, y)
                               /\ Plan(a, p - y, t, Tail(messages))
  <2>1. x \in 1 .. p /\ p - x > 0
    OBVIOUS
  <2>2. Head(messages) = Transfer(a, x) /\ Tail(messages) = <<Transfer(a, p - x)>>
    BY <1>4, ShortTail
  <2>3. Plan(a, p - x, t, Tail(messages))
    BY <1>4, <2>1, <2>2 DEF Plan
  <2> QED
    BY <2>1, <2>2, <2>3
<1> QED
  BY <1>1, <1>2, <1>3, <1>4 DEF Plan

LEMMA DeliverContinues ==
  ASSUME TxInv, Deliver
  PROVE  UnderWay(flight'[1])
<1> DEFINE f == flight[1]
           m == Head(f.messages)
<1>1. /\ UnderWay(f) /\ TypeOK /\ allowance \in [Accounts -> Nat]
      /\ f.messages # << >> /\ Deliverable(f, m)
  BY DEF TxInv, Deliver, LInv, IInv
<1>2. flight'[1] = Delivered(f, m)
  BY DEF Deliver
<1> HIDE DEF f
<1>3. IsCache(f) /\ f.sender \in Accounts
  BY <1>1 DEF UnderWay
<1>4. PICK paid \in Nat, taken \in Nat, p \in Nat, t \in Nat :
        Stage(f, paid, taken, p, t)
  BY <1>1 DEF UnderWay
<1>5. Plan(f.sender, p, t, f.messages)
  BY <1>4 DEF Stage
<1>6. ASSUME NEW x \in 1 .. p, m = Transfer(f.sender, x),
             Plan(f.sender, p - x, t, Tail(f.messages))
      PROVE  UnderWay(Delivered(f, m))
  <2>1. x <= f.reserve
    BY <1>1, <1>6 DEF Deliverable, Transfer
  <2>2. p - x \in Nat
    OBVIOUS
  <2>3. /\ IsCache(Delivered(f, m)) /\ Delivered(f, m).sender = f.sender
        /\ Stage(Delivered(f, m), paid, taken, p - x, t)
    BY <1>1, <1>3, <1>4, <1>6, <2>1, PaysOn
  <2> QED
    BY <1>3, <2>2, <2>3 DEF UnderWay
<1>7. ASSUME p = 0, m = TransferFrom(f.sender, t), Tail(f.messages) = << >>
      PROVE  UnderWay(Delivered(f, m))
  <2>1. t <= f.allowance[f.sender] /\ t <= f.wild[f.sender]
    BY <1>1, <1>7 DEF Deliverable, TransferFrom
  <2>2. /\ IsCache(Delivered(f, m)) /\ Delivered(f, m).sender = f.sender
        /\ Stage(Delivered(f, m), paid, taken, 0, 0)
    BY <1>1, <1>3, <1>4, <1>7, <2>1, TakesOn
  <2> QED
    BY <1>3, <2>2 DEF UnderWay
<1> QED
  BY <1>1, <1>2, <1>5, <1>6, <1>7, PlanHead

(* While a transaction is under way, nothing it was computed from changes. *)
LEMMA AnswersIdle ==
  ASSUME UNCHANGED vars, NEW f, NEW paid, NEW taken, Answers(f, paid, taken)
  PROVE  Answers(f, paid, taken)'
<1>1. /\ height' = height /\ time' = time /\ token_state' = token_state
      /\ user_state' = user_state /\ user_keys' = user_keys
      /\ ve_supply' = ve_supply /\ ve_balances' = ve_balances
      /\ reserve' = reserve
  BY DEF vars, chain, contract, funds
<1>2. \A a : View(a)' = View(a) /\ Reward(a)' = Reward(a)
  BY <1>1 DEF View, Reward
<1>3. \A a, v : Written(a, v)' = Written(a, v)
  BY <1>1 DEF Written
<1>4. \A ts : WrittenToken(ts)' = WrittenToken(ts)
  BY <1>1 DEF WrittenToken
<1>5. \A a : ClaimResponse(a)' = ClaimResponse(a)
  BY <1>1 DEF ClaimResponse, View
<1>6. CASE LockAnswer(f, paid, taken)
  <2>1. \A a, amount, until :
          LockView(a, amount, until)' = LockView(a, amount, until)
    BY <1>1, <1>2 DEF LockView
  <2>2. \A a, amount, until :
          LockResponse(a, amount, until)' = LockResponse(a, amount, until)
    BY <1>5, <2>1 DEF LockResponse
  <2>3. \A a, amount, until :
          LockAccepted(a, amount, until) => LockAccepted(a, amount, until)'
    BY <1>1, <1>2, <2>1 DEF LockAccepted
  <2> QED
    BY <1>2, <1>3, <1>6, <2>1, <2>2, <2>3 DEF LockAnswer, Wrote, Answers
<1>7. CASE RequestAnswer(f, paid, taken)
  <2>1. \A a : RequestView(a)' = RequestView(a)
    BY <1>1, <1>2 DEF RequestView
  <2>2. \A a : RequestWithdrawResponse(a)' = RequestWithdrawResponse(a)
    BY <1>1, <1>5 DEF RequestWithdrawResponse
  <2>3. \A a : RequestWithdrawAccepted(a) => RequestWithdrawAccepted(a)'
    BY <1>1, <1>2 DEF RequestWithdrawAccepted
  <2> QED
    BY <1>2, <1>3, <1>7, <2>1, <2>2, <2>3 DEF RequestAnswer, Wrote, Answers
<1>8. CASE WithdrawAnswer(f, paid, taken)
  <2>1. \A a : Released(a)' = Released(a)
    BY <1>1, <1>2 DEF Released
  <2>2. \A a : WithdrawView(a)' = WithdrawView(a)
    BY <2>1 DEF WithdrawView
  <2>3. \A a : WithdrawResponse(a)' = WithdrawResponse(a)
    BY <1>1, <1>5 DEF WithdrawResponse
  <2>4. \A a : WithdrawAccepted(a) => WithdrawAccepted(a)'
    BY <1>1, <1>2, <2>1, <2>2 DEF WithdrawAccepted
  <2> QED
    BY <1>1, <1>2, <1>3, <1>8, <2>2, <2>3, <2>4 DEF WithdrawAnswer, Wrote, Answers
<1>9. CASE ClaimAnswer(f, paid, taken)
  <2>1. \A a : ExecuteClaimAccepted(a) => ExecuteClaimAccepted(a)'
    BY <1>1, <1>2 DEF ExecuteClaimAccepted
  <2> QED
    BY <1>1, <1>2, <1>3, <1>5, <1>9, <2>1 DEF ClaimAnswer, Wrote, Answers
<1>10. CASE IncomeAnswer(f, paid, taken)
  <2>1. \A amount : IncomeAdded(amount)' = IncomeAdded(amount)
    BY <1>1 DEF IncomeAdded
  <2>2. \A amount : AddIncomeAccepted(amount) => AddIncomeAccepted(amount)'
    BY <1>1, <2>1 DEF AddIncomeAccepted
  <2> QED
    BY <1>4, <1>10, <2>1, <2>2
       DEF IncomeAnswer, Wrote, Answers, AddIncomeResponse
<1>11. CASE PeriodAnswer(f, paid, taken)
  BY <1>1, <1>4, <1>11
     DEF PeriodAnswer, Wrote, Answers, SetDistributionPeriodResponse
<1> QED
  BY <1>6, <1>7, <1>8, <1>9, <1>10, <1>11 DEF Answers

LEMMA UnderWayIdle ==
  ASSUME UNCHANGED vars, UNCHANGED allowance, NEW f, UnderWay(f)
  PROVE  UnderWay(f)'
<1>1. PICK paid \in Nat, taken \in Nat, p \in Nat, t \in Nat :
        Stage(f, paid, taken, p, t)
  BY DEF UnderWay
<1>2. IsCache(f) /\ f.sender \in Accounts
  BY DEF UnderWay
<1>3. Answers(f, paid, taken)'
  BY <1>1, AnswersIdle DEF Stage
<1>4. Moved(f, paid - p, taken - t)'
  BY <1>1 DEF Stage, Moved, vars, funds
<1>5. Stage(f, paid, taken, p, t)'
  BY <1>1, <1>3, <1>4 DEF Stage
<1> QED
  BY <1>2, <1>5 DEF UnderWay

-----------------------------------------------------------------------------
(* A transaction that finishes is a step of VeWild.                        *)

(* All messages are delivered.                                             *)
LEMMA FinishMoves ==
  ASSUME TypeOK, allowance \in [Accounts -> Nat],
         NEW f, UnderWay(f), f.messages = << >>
  PROVE  \E paid \in Nat, taken \in Nat :
           Answers(f, paid, taken) /\ Moved(f, paid, taken)
<1>1. PICK paid \in Nat, taken \in Nat, p \in Nat, t \in Nat :
        Stage(f, paid, taken, p, t)
  BY DEF UnderWay
<1>2. p = 0 /\ t = 0
  BY <1>1, ShortTail DEF Stage, Plan
<1>3. paid - p = paid /\ taken - t = taken
  BY <1>2
<1> QED
  BY <1>1, <1>3 DEF Stage

LEMMA WrittenCommits ==
  ASSUME Finish, NEW a, NEW v, flight[1].stores = Written(a, v)
  PROVE  Commit(a, v)
BY DEF Finish, Written, Commit

LEMMA WrittenTokenCommits ==
  ASSUME Finish, NEW ts, flight[1].stores = WrittenToken(ts)
  PROVE  CommitToken(ts)
BY DEF Finish, WrittenToken, CommitToken

LEMMA MovedTransfers ==
  ASSUME Finish, NEW paid, NEW taken, Moved(flight[1], paid, taken)
  PROVE  Transfers(flight[1].sender, paid, taken)
BY DEF Finish, Moved, Transfers

(* The transaction of VeWild that a call is, with the events it tells.     *)
Completes(a, events) ==
  \/ \E amount \in LockAmounts, until \in Untils :
       Lock(a, amount, until) /\ events = LockResponse(a, amount, until).events
  \/ RequestWithdraw(a) /\ events = RequestWithdrawResponse(a).events
  \/ Withdraw(a) /\ events = WithdrawResponse(a).events
  \/ ExecuteClaim(a) /\ events = ClaimResponse(a).events
  \/ \E amount \in IncomeAmounts :
       AddIncome(a, amount) /\ events = AddIncomeResponse(a, amount).events
  \/ \E blocks \in Periods :
       /\ ExecuteSetDistributionPeriod(blocks)
       /\ events = SetDistributionPeriodResponse(blocks).events

LEMMA FinishCompletes ==
  ASSUME TxInv, Finish
  PROVE  /\ flight[1].sender \in Accounts
         /\ Completes(flight[1].sender, flight[1].events)
         /\ allowance' \in [Accounts -> Nat]
<1> DEFINE f == flight[1]
           a == f.sender
<1>1. /\ TypeOK /\ allowance \in [Accounts -> Nat]
      /\ UnderWay(f) /\ f.messages = << >> /\ a \in Accounts
      /\ allowance' = f.allowance
  BY DEF TxInv, LInv, IInv, Finish, UnderWay
<1>2. PICK paid \in Nat, taken \in Nat :
        Answers(f, paid, taken) /\ Moved(f, paid, taken)
  BY <1>1, FinishMoves
<1>3. Transfers(a, paid, taken)
  BY <1>2, MovedTransfers
<1>4. \A v : f.stores = Written(a, v) => Commit(a, v)
  BY WrittenCommits
<1>5. \A ts : f.stores = WrittenToken(ts) => CommitToken(ts)
  BY WrittenTokenCommits
<1>6. allowance' \in [Accounts -> Nat]
  <2>1. /\ f.allowance = [allowance EXCEPT ![a] = @ - taken]
        /\ taken <= allowance[a]
    BY <1>2 DEF Moved
  <2>2. allowance[a] - taken \in Nat
    BY <1>1, <1>2, <2>1
  <2> QED
    BY <1>1, <2>1, <2>2
<1> HIDE DEF f, a
<1>7. a = f.sender
  BY DEF a
<1>8. ASSUME LockAnswer(f, paid, taken)
      PROVE  Completes(a, f.events)
  <2>1. PICK until \in Untils :
          /\ LockAccepted(a, taken, until)
          /\ Wrote(f, Written(a, LockView(a, taken, until)),
                   LockResponse(a, taken, until))
    BY <1>7, <1>8 DEF LockAnswer
  <2>2. taken \in LockAmounts /\ paid = ClaimReward(View(a), height)
    BY <1>7, <1>8 DEF LockAnswer, Reward
  <2>3. Lock(a, taken, until)
    BY <1>3, <1>4, <2>1, <2>2 DEF Lock, Wrote
  <2>4. f.events = LockResponse(a, taken, until).events
    BY <2>1 DEF Wrote
  <2> QED
    BY <2>2, <2>3, <2>4 DEF Completes
<1>9. ASSUME RequestAnswer(f, paid, taken)
      PROVE  Completes(a, f.events)
  <2>1. /\ RequestWithdrawAccepted(a)
        /\ Wrote(f, Written(a, RequestView(a)), RequestWithdrawResponse(a))
        /\ paid = ClaimReward(View(a), height) /\ taken = 0
    BY <1>7, <1>9 DEF RequestAnswer, Reward
  <2>2. Commit(a, RequestView(a))
    BY <1>4, <2>1 DEF Wrote
  <2>3. RequestWithdraw(a)
    BY <1>3, <2>1, <2>2 DEF RequestWithdraw, RequestView
  <2> QED
    BY <2>1, <2>3 DEF Completes, Wrote
<1>10. ASSUME WithdrawAnswer(f, paid, taken)
       PROVE  Completes(a, f.events)
  <2>1. /\ WithdrawAccepted(a)
        /\ Wrote(f, Written(a, WithdrawView(a)), WithdrawResponse(a))
        /\ paid = ClaimReward(View(a), height) + user_state[a].locked_balance
        /\ taken = 0
    BY <1>7, <1>10 DEF WithdrawAnswer, Reward
  <2>2. Commit(a, WithdrawView(a))
    BY <1>4, <2>1 DEF Wrote
  <2>3. Withdraw(a)
    BY <1>3, <2>1, <2>2 DEF Withdraw
  <2> QED
    BY <2>1, <2>3 DEF Completes, Wrote
<1>11. ASSUME ClaimAnswer(f, paid, taken)
       PROVE  Completes(a, f.events)
  <2>1. /\ ExecuteClaimAccepted(a)
        /\ Wrote(f, Written(a, Claim(View(a), height, time)), ClaimResponse(a))
        /\ paid = ClaimReward(View(a), height) /\ taken = 0
    BY <1>7, <1>11 DEF ClaimAnswer, Reward
  <2>2. Commit(a, Claim(View(a), height, time))
    BY <1>4, <2>1 DEF Wrote
  <2>3. ExecuteClaim(a)
    BY <1>3, <2>1, <2>2 DEF ExecuteClaim
  <2> QED
    BY <2>1, <2>3 DEF Completes, Wrote
<1>12. ASSUME IncomeAnswer(f, paid, taken)
       PROVE  Completes(a, f.events)
  <2>1. /\ AddIncomeAccepted(taken) /\ taken \in IncomeAmounts /\ paid = 0
        /\ Wrote(f, WrittenToken(IncomeAdded(taken)), AddIncomeResponse(a, taken))
    BY <1>7, <1>12 DEF IncomeAnswer
  <2>2. CommitToken(IncomeAdded(taken))
    BY <1>5, <2>1 DEF Wrote
  <2>3. AddIncome(a, taken)
    BY <1>3, <2>1, <2>2 DEF AddIncome
  <2> QED
    BY <2>1, <2>3 DEF Completes, Wrote
<1>13. ASSUME PeriodAnswer(f, paid, taken)
       PROVE  Completes(a, f.events)
  <2>1. PICK blocks \in Periods :
          /\ SetDistributionPeriodFits(token_state, height, blocks)
          /\ Wrote(f, WrittenToken(SetDistributionPeriod(token_state, height, blocks)),
                   SetDistributionPeriodResponse(blocks))
    BY <1>13 DEF PeriodAnswer
  <2>2. CommitToken(SetDistributionPeriod(token_state, height, blocks))
    BY <1>5, <2>1 DEF Wrote
  <2>3. UNCHANGED funds
    <3>1. paid = 0 /\ taken = 0
      BY <1>13 DEF PeriodAnswer
    <3> QED
      BY <1>1, <1>3, <3>1 DEF Transfers, TypeOK, funds
  <2>4. ExecuteSetDistributionPeriod(blocks)
    BY <2>1, <2>2, <2>3 DEF ExecuteSetDistributionPeriod
  <2> QED
    BY <2>1, <2>4 DEF Completes, Wrote
<1>14. Completes(a, f.events)
  BY <1>2, <1>8, <1>9, <1>10, <1>11, <1>12, <1>13 DEF Answers
<1> QED
  BY <1>1, <1>6, <1>14 DEF f, a

LEMMA CompletesNext ==
  ASSUME NEW a \in Accounts, NEW events, Completes(a, events)
  PROVE  Next
BY DEF Completes, Next

(* The invariant and the step simulation together.                         *)
LEMMA TxStep ==
  ASSUME TxInv, [TxNext]_txVars
  PROVE  /\ UNCHANGED vars \/ Next
         /\ allowance' \in [Accounts -> Nat]
         /\ flight' # << >> => UNCHANGED vars /\ UNCHANGED allowance
                                 /\ UnderWay(flight'[1])
<1> DEFINE Idle  == /\ UNCHANGED vars /\ UNCHANGED allowance
                    /\ UnderWay(flight'[1])
           Quiet == /\ flight' = << >> /\ UNCHANGED vars
                    /\ allowance' \in [Accounts -> Nat]
           Step  == /\ flight' = << >> /\ Next
                    /\ allowance' \in [Accounts -> Nat]
<1>1. allowance \in [Accounts -> Nat]
  BY DEF TxInv
<1>2. ASSUME NEW a \in Accounts, NEW amount \in LockAmounts,
             NEW until \in Untils, SubmitLock(a, amount, until)
      PROVE  Idle
  BY <1>2, SubmitLockBegins DEF SubmitLock, Begin
<1>3. ASSUME NEW a \in Accounts, SubmitRequestWithdraw(a)
      PROVE  Idle
  BY <1>3, SubmitRequestBegins DEF SubmitRequestWithdraw, Begin
<1>4. ASSUME NEW a \in Accounts, SubmitWithdraw(a)
      PROVE  Idle
  BY <1>4, SubmitWithdrawBegins DEF SubmitWithdraw, Begin
<1>5. ASSUME NEW a \in Accounts, SubmitClaim(a)
      PROVE  Idle
  BY <1>5, SubmitClaimBegins DEF SubmitClaim, Begin
<1>6. ASSUME NEW a \in Accounts, NEW amount \in IncomeAmounts,
             SubmitAddIncome(a, amount)
      PROVE  Idle
  BY <1>6, SubmitIncomeBegins DEF SubmitAddIncome, Begin
<1>7. ASSUME NEW a \in Accounts, NEW blocks \in Periods,
             SubmitSetDistributionPeriod(a, blocks)
      PROVE  Idle
  BY <1>7, SubmitPeriodBegins DEF SubmitSetDistributionPeriod, Begin
<1>8. ASSUME Deliver
      PROVE  Idle
  BY <1>8, DeliverContinues DEF Deliver
<1>9. CASE Abort
  BY <1>1, <1>9 DEF Abort
<1>10. CASE Finish
  <2>1. flight' = << >>
    BY <1>10 DEF Finish
  <2> QED
    BY <1>10, <2>1, FinishCompletes, CompletesNext
<1>11. ASSUME NEW a \in Accounts, NEW amount \in Allowances, Approve(a, amount)
       PROVE  Quiet
  BY <1>1, <1>11, AllowancesAssumption DEF Approve
<1>12. ASSUME NEW a \in Accounts, NEW amount \in GiftAmounts, TxTopUp(a, amount)
       PROVE  Step
  BY <1>1, <1>12 DEF TxTopUp, Next
<1>13. ASSUME NEW seconds \in TimeSteps, TxNextBlock(seconds)
       PROVE  Step
  BY <1>1, <1>13 DEF TxNextBlock, Next
<1>14. CASE UNCHANGED txVars
  <2>1. UNCHANGED vars /\ UNCHANGED allowance /\ UNCHANGED flight
    BY <1>14 DEF txVars
  <2> QED
    BY <1>1, <2>1 DEF TxInv
<1>15. CASE \/ \E a \in Accounts, amount \in LockAmounts, until \in Untils :
                 SubmitLock(a, amount, until)
            \/ \E a \in Accounts : SubmitRequestWithdraw(a)
            \/ \E a \in Accounts : SubmitWithdraw(a)
            \/ \E a \in Accounts : SubmitClaim(a)
            \/ \E a \in Accounts, amount \in IncomeAmounts :
                 SubmitAddIncome(a, amount)
            \/ \E a \in Accounts, blocks \in Periods :
                 SubmitSetDistributionPeriod(a, blocks)
            \/ Deliver
  <2>1. Idle
    BY <1>2, <1>3, <1>4, <1>5, <1>6, <1>7, <1>8, <1>15
  <2> QED
    BY <1>1, <2>1
<1> QED
  BY <1>9, <1>10, <1>11, <1>12, <1>13, <1>14, <1>15 DEF TxNext

LEMMA TxInitInvariant == TxInit => TxInv
<1> SUFFICES ASSUME TxInit
             PROVE  TxInv
  OBVIOUS
<1>1. LInv
  BY InitLocks DEF TxInit
<1> QED
  BY <1>1 DEF TxInit, TxInv

LEMMA TxNextInvariant == TxInv /\ [TxNext]_txVars => TxInv'
<1> SUFFICES ASSUME TxInv, [TxNext]_txVars
             PROVE  TxInv'
  OBVIOUS
<1>1. /\ [Next]_vars
      /\ allowance' \in [Accounts -> Nat]
      /\ flight' # << >> => UNCHANGED vars /\ UNCHANGED allowance
                              /\ UnderWay(flight'[1])
  BY TxStep
<1>2. LInv'
  BY <1>1, NextLocks DEF TxInv
<1>3. ASSUME flight' # << >>
      PROVE  UnderWay(flight[1])'
  <2>1. UNCHANGED vars /\ UNCHANGED allowance /\ UnderWay(flight'[1])
    BY <1>1, <1>3
  <2>2. \A f : UnderWay(f) => UnderWay(f)'
    BY <2>1, UnderWayIdle
  <2> QED
    BY <2>1, <2>2
<1> QED
  BY <1>1, <1>2, <1>3 DEF TxInv

(* What holds between and within transactions: the invariants of VeWild    *)
(* of the stores as written, and that the cache of a transaction under way *)
(* is the stores with what its handler wrote and its messages moved.       *)
THEOREM TxInvariant == TxSpec => []TxInv
BY TxInitInvariant, TxNextInvariant, PTL DEF TxSpec

(* With the cache hidden, a transaction is one step of VeWild or none.     *)
THEOREM Atomic == TxSpec => AtomicTransactions
<1>1. TxInit => Init
  BY DEF TxInit
<1>2. TxInv /\ [TxNext]_txVars => [UNCHANGED vars \/ Next]_vars
  BY TxStep
<1> QED
  BY <1>1, <1>2, TxInvariant, PTL DEF TxSpec, AtomicTransactions

(* The stores as written behave as VeWild, so that every theorem about it  *)
(* holds of them: the contract stays solvent through transactions that     *)
(* fail half-way.                                                          *)
THEOREM TxImplementsVeWild == TxSpec => Spec
<1>1. [UNCHANGED vars \/ Next]_vars => [Next]_vars
  OBVIOUS
<1> QED
  BY <1>1, Atomic, PTL DEF AtomicTransactions, Spec

(* What was proved of whole transactions, for transactions taken apart.    *)
THEOREM TxEscrow ==
  TxSpec => /\ []Solvency /\ []QuotesFunded
            /\ QuotesHonoured /\ LocksHeld
            /\ ImplementsEscrow
BY TxImplementsVeWild, Solvent, QuotesAlwaysFunded, QuotesAreBinding,
   DelayHolds, ImplementsTheEscrow, PTL

-----------------------------------------------------------------------------
(* Why a transaction fails.                                                *)

(* The contract has what the handler is to pay.                            *)
LEMMA PaysInFull ==
  ASSUME LInv, NEW f, f.sender \in Accounts, NEW paid \in Nat, NEW taken,
         Answers(f, paid, taken)
  PROVE  paid <= reserve
<1>1. /\ Reward(f.sender) \in Nat
      /\ user_state[f.sender].locked_balance \in Nat
      /\ Reward(f.sender) + user_state[f.sender].locked_balance <= reserve
      /\ reserve \in Nat
  BY PayoutCovered DEF Reward, LInv, IInv, TypeOK
<1>2. \/ paid = Reward(f.sender)
      \/ paid = Reward(f.sender) + user_state[f.sender].locked_balance
      \/ paid = 0
  BY DEF Answers, LockAnswer, RequestAnswer, WithdrawAnswer, ClaimAnswer,
         IncomeAnswer, PeriodAnswer
<1> HIDE DEF Reward
<1> QED
  BY <1>1, <1>2

LEMMA QuoteIsReward ==
  ASSUME TypeOK, NEW a \in Accounts
  PROVE  PendingAccountReward(a) = Reward(a)
<1>1. Reward(a) = AccruedNow[a]
  BY DEF Reward, ClaimReward, View, AccruedNow
<1> QED
  BY <1>1, QuoteIsAccrual

LEMMA PaymentsDeliverable ==
  ASSUME LInv, NEW f, f.sender \in Accounts, NEW paid \in Nat,
         NEW taken \in Nat, NEW p \in Nat, NEW t \in Nat, NEW x \in 1 .. p,
         Stage(f, paid, taken, p, t)
  PROVE  Deliverable(f, Transfer(f.sender, x))
<1>1. Answers(f, paid, taken) /\ p <= paid /\ t = taken
  BY DEF Stage
<1>2. f.reserve = reserve - (paid - p) + (taken - t)
  BY DEF Stage, Moved
<1>3. paid <= reserve /\ reserve \in Nat
  BY <1>1, PaysInFull DEF LInv, IInv, TypeOK
<1>4. x \in 1 .. f.reserve
  BY <1>1, <1>2, <1>3
<1> QED
  BY <1>4 DEF Deliverable, Transfer

LEMMA SenderFails == TxInv => OnlySenderCanFail
<1> SUFFICES ASSUME TxInv, flight # << >>,
                    flight[1].messages # << >>,
                    ~ Deliverable(flight[1], Head(flight[1].messages))
             PROVE  LET f == flight[1]
                        m == Head(f.messages)
                        a == f.sender
                        reward == IF f.call = "lock"
                                  THEN PendingAccountReward(a) ELSE 0
                    IN  /\ m.kind = "transfer_from" /\ m.account = a
                        /\ m.amount > allowance[a] \/ m.amount > wild[a] + reward
  BY DEF OnlySenderCanFail
<1> DEFINE f == flight[1]
           m == Head(f.messages)
           a == f.sender
<1>1. /\ LInv /\ TypeOK /\ UnderWay(f) /\ f.messages # << >>
      /\ ~ Deliverable(f, m) /\ allowance \in [Accounts -> Nat]
  BY DEF TxInv, LInv, IInv
<1> HIDE DEF f
<1>2. a \in Accounts
  BY <1>1 DEF UnderWay
<1>3. PICK paid \in Nat, taken \in Nat, p \in Nat, t \in Nat :
        Stage(f, paid, taken, p, t)
  BY <1>1 DEF UnderWay
<1>4. Plan(a, p, t, f.messages)
  BY <1>3 DEF Stage
<1>5. ASSUME NEW x \in 1 .. p, m = Transfer(a, x)
      PROVE  FALSE
  BY <1>1, <1>2, <1>3, <1>5, PaymentsDeliverable
<1>6. p = 0 /\ m = TransferFrom(a, t)
  <2> HIDE DEF a
  <2>1. \/ \E x \in 1 .. p : m = Transfer(a, x)
        \/ p = 0 /\ m = TransferFrom(a, t)
    <3>1. \/ \E x \in 1 .. p : /\ Head(f.messages) = Transfer(a, x)
                                /\ Plan(a, p - x, t, Tail(f.messages))
          \/ /\ p = 0 /\ Head(f.messages) = TransferFrom(a, t)
             /\ Tail(f.messages) = << >>
      BY <1>1, <1>4, PlanHead
    <3> QED
      BY <3>1
  <2> HIDE DEF m
  <2> QED
    BY <1>5, <2>1
<1>7. m.kind = "transfer_from" /\ m.account = a /\ m.amount = t
  BY <1>6 DEF TransferFrom
<1>8. t > f.allowance[a] \/ t > f.wild[a]
  <2>1. ~ (t <= f.allowance[a] /\ t <= f.wild[a])
    BY <1>1, <1>7 DEF Deliverable
  <2>2. f.allowance[a] \in Int /\ f.wild[a] \in Int
    BY <1>1, <1>2, <1>3 DEF Stage, Moved, TypeOK
  <2> QED
    BY <2>1, <2>2
<1>9. /\ f.wild[a] = wild[a] + (paid - p) - (taken - t)
      /\ f.allowance[a] = allowance[a] - (taken - t)
      /\ taken - t <= allowance[a] /\ taken - t <= wild[a] + (paid - p)
      /\ wild[a] \in Nat /\ allowance[a] \in Nat
      /\ t = taken \/ t = 0
  BY <1>1, <1>2, <1>3 DEF Stage, Moved, TypeOK
<1>10. t = taken
  <2> HIDE DEF a
  <2>1. SUFFICES ASSUME t = 0
                 PROVE  FALSE
    BY <1>9
  <2>2. f.allowance[a] >= 0 /\ f.wild[a] >= 0
    BY <1>9, <2>1
  <2>3. f.allowance[a] \in Int /\ f.wild[a] \in Int
    BY <1>9, <2>1
  <2> QED
    BY <1>8, <2>1, <2>2, <2>3
<1>11. t > allowance[a] \/ t > wild[a] + paid
  BY <1>6, <1>8, <1>9, <1>10
<1>12. t > 0
  BY <1>9, <1>11
<1>13. paid = IF f.call = "lock" THEN PendingAccountReward(a) ELSE 0
  <2>1. PendingAccountReward(a) = Reward(a)
    BY <1>1, <1>2, QuoteIsReward
  <2>2. Answers(f, paid, taken) /\ taken # 0
    BY <1>3, <1>10, <1>12 DEF Stage
  <2> QED
    BY <2>1, <2>2
       DEF Answers, LockAnswer, RequestAnswer, WithdrawAnswer, ClaimAnswer,
           IncomeAnswer, PeriodAnswer
<1>14. \/ m.amount > allowance[a]
       \/ m.amount > wild[a] + IF f.call = "lock"
                               THEN PendingAccountReward(a) ELSE 0
  BY <1>7, <1>11, <1>13
<1> QED
  BY <1>7, <1>14 DEF f

(* Once its handler has returned, a transaction fails only by its sender's *)
(* purse or allowance: the contract has what its messages pay.             *)
THEOREM OnlySendersFail == TxSpec => []OnlySenderCanFail
BY SenderFails, TxInvariant, PTL

-----------------------------------------------------------------------------
(* What the events tell.                                                   *)

Books ==
  [locked_balance : [Accounts -> Nat],
   locked_until   : [Accounts -> Nat],
   withdraw_at    : [Accounts -> Nat],
   ve_balance     : [Accounts -> Nat],
   custody        : Int,
   period         : Nat]

(* The fields a reader sets on an event.                                   *)
LEMMA RecordLock ==
  ASSUME NEW b \in Books, NEW a \in Accounts, NEW v \in Views
  PROVE  LET r == Record(b, LockEvent(a, v))
         IN  /\ r \in Books
             /\ r.locked_balance = [b.locked_balance EXCEPT ![a] = v.user.locked_balance]
             /\ r.locked_until   = [b.locked_until EXCEPT ![a] = v.user.locked_until]
             /\ r.withdraw_at    = b.withdraw_at
             /\ r.ve_balance     = [b.ve_balance EXCEPT ![a] = v.ve]
             /\ r.custody = b.custody + v.user.locked_balance - b.locked_balance[a]
             /\ r.period = b.period
<1> DEFINE e == LockEvent(a, v)
<1>1. /\ e.type = "lock" /\ e.account = a
      /\ e.locked_balance = v.user.locked_balance
      /\ e.locked_until = v.user.locked_until /\ e.ve_balance = v.ve
  BY DEF LockEvent
<1>2. /\ e.locked_balance \in Nat /\ e.locked_until \in Nat /\ e.ve_balance \in Nat
  BY <1>1, UintNat DEF Views, UserState
<1> HIDE DEF e
<1>3. Record(b, e) =
         [b EXCEPT !.custody = @ + e.locked_balance - b.locked_balance[e.account],
                   !.locked_balance[e.account] = e.locked_balance,
                   !.locked_until[e.account]   = e.locked_until,
                   !.ve_balance[e.account]     = e.ve_balance]
  BY <1>1 DEF Record
<1>4. Record(b, e) =
        [locked_balance |-> [b.locked_balance EXCEPT ![a] = e.locked_balance],
         locked_until   |-> [b.locked_until EXCEPT ![a] = e.locked_until],
         withdraw_at    |-> b.withdraw_at,
         ve_balance     |-> [b.ve_balance EXCEPT ![a] = e.ve_balance],
         custody        |-> b.custody + e.locked_balance - b.locked_balance[a],
         period         |-> b.period]
  BY <1>1, <1>3 DEF Books
<1>5. b.custody + e.locked_balance - b.locked_balance[a] \in Int
  BY <1>2 DEF Books
<1>6. Record(b, e) \in Books
  BY <1>2, <1>4, <1>5 DEF Books
<1> QED
  BY <1>1, <1>4, <1>6 DEF e

LEMMA RecordRequest ==
  ASSUME NEW b \in Books, NEW a \in Accounts, NEW n, NEW at \in Nat
  PROVE  LET r == Record(b, WithdrawRequestEvent(a, n, at))
         IN  /\ r \in Books
             /\ r.locked_balance = b.locked_balance
             /\ r.locked_until   = b.locked_until
             /\ r.withdraw_at    = [b.withdraw_at EXCEPT ![a] = at]
             /\ r.ve_balance     = b.ve_balance
             /\ r.custody = b.custody /\ r.period = b.period
<1> DEFINE e == WithdrawRequestEvent(a, n, at)
<1>1. e.type = "withdraw_request" /\ e.account = a /\ e.withdraw_at = at
  BY DEF WithdrawRequestEvent
<1> HIDE DEF e
<1>2. Record(b, e) = [b EXCEPT !.withdraw_at[e.account] = e.withdraw_at]
  BY <1>1 DEF Record
<1>3. Record(b, e) = [b EXCEPT !.withdraw_at = [b.withdraw_at EXCEPT ![a] = at]]
  BY <1>1, <1>2
<1>4. [b.withdraw_at EXCEPT ![a] = at] \in [Accounts -> Nat]
  BY DEF Books
<1> QED
  BY <1>3, <1>4 DEF Books, e

LEMMA RecordWithdraw ==
  ASSUME NEW b \in Books, NEW a \in Accounts,
         NEW n \in Nat, b.locked_balance[a] = n
  PROVE  LET r == Record(b, WithdrawEvent(a, n))
         IN  /\ r \in Books
             /\ r.locked_balance = [b.locked_balance EXCEPT ![a] = 0]
             /\ r.locked_until   = b.locked_until
             /\ r.withdraw_at    = [b.withdraw_at EXCEPT ![a] = 0]
             /\ r.ve_balance     = [b.ve_balance EXCEPT ![a] = 0]
             /\ r.custody = b.custody - n /\ r.period = b.period
<1> DEFINE e == WithdrawEvent(a, n)
<1>1. e.type = "withdraw" /\ e.account = a /\ e.amount = n
  BY DEF WithdrawEvent
<1> HIDE DEF e
<1>2. Record(b, e) =
         [b EXCEPT !.custody = @ - e.amount,
                   !.locked_balance[e.account] = @ - e.amount,
                   !.withdraw_at[e.account]    = 0,
                   !.ve_balance[e.account]     = 0]
  BY <1>1 DEF Record
<1>3. b.locked_balance[a] - n = 0 /\ b.custody - n \in Int
  BY DEF Books
<1>4. Record(b, e) =
        [locked_balance |-> [b.locked_balance EXCEPT ![a] = 0],
         locked_until   |-> b.locked_until,
         withdraw_at    |-> [b.withdraw_at EXCEPT ![a] = 0],
         ve_balance     |-> [b.ve_balance EXCEPT ![a] = 0],
         custody        |-> b.custody - n,
         period         |-> b.period]
  <2>1. Record(b, e) =
          [locked_balance |-> [b.locked_balance EXCEPT ![a] = @ - e.amount],
           locked_until   |-> b.locked_until,
           withdraw_at    |-> [b.withdraw_at EXCEPT ![a] = 0],
           ve_balance     |-> [b.ve_balance EXCEPT ![a] = 0],
           custody        |-> b.custody - e.amount,
           period         |-> b.period]
    BY <1>1, <1>2 DEF Books
  <2>2. [b.locked_balance EXCEPT ![a] = @ - e.amount]
          = [b.locked_balance EXCEPT ![a] = 0]
    BY <1>1, <1>3
  <2> QED
    BY <1>1, <2>1, <2>2
<1>5. Record(b, e) \in Books
  BY <1>3, <1>4 DEF Books
<1> QED
  BY <1>4, <1>5 DEF e

LEMMA RecordClaim ==
  ASSUME NEW b \in Books, NEW a \in Accounts, NEW n \in Nat, NEW ve \in Nat
  PROVE  LET r == Record(b, ClaimEvent(a, n, ve))
         IN  /\ r \in Books
             /\ r.locked_balance = b.locked_balance
             /\ r.locked_until   = b.locked_until
             /\ r.withdraw_at    = b.withdraw_at
             /\ r.ve_balance     = [b.ve_balance EXCEPT ![a] = ve]
             /\ r.custody = b.custody - n /\ r.period = b.period
<1> DEFINE e == ClaimEvent(a, n, ve)
<1>1. /\ e.type = "claim" /\ e.account = a
      /\ e.claim_amount = n /\ e.ve_balance = ve
  BY DEF ClaimEvent
<1> HIDE DEF e
<1>2. Record(b, e) =
         [b EXCEPT !.custody = @ - e.claim_amount,
                   !.ve_balance[e.account] = e.ve_balance]
  BY <1>1 DEF Record
<1>3. b.custody - n \in Int
  BY DEF Books
<1>4. Record(b, e) =
        [locked_balance |-> b.locked_balance,
         locked_until   |-> b.locked_until,
         withdraw_at    |-> b.withdraw_at,
         ve_balance     |-> [b.ve_balance EXCEPT ![a] = ve],
         custody        |-> b.custody - n,
         period         |-> b.period]
  BY <1>1, <1>2, <1>3 DEF Books
<1>5. Record(b, e) \in Books
  BY <1>3, <1>4 DEF Books
<1> QED
  BY <1>4, <1>5 DEF e

LEMMA RecordIncome ==
  ASSUME NEW b \in Books, NEW n \in Nat
  PROVE  LET r == Record(b, NewIncomeEvent(n))
         IN  /\ r \in Books
             /\ r.locked_balance = b.locked_balance
             /\ r.locked_until   = b.locked_until
             /\ r.withdraw_at    = b.withdraw_at
             /\ r.ve_balance     = b.ve_balance
             /\ r.custody = b.custody + n /\ r.period = b.period
<1> DEFINE e == NewIncomeEvent(n)
<1>1. e.type = "new_income" /\ e.add_amount = n
  BY DEF NewIncomeEvent
<1> HIDE DEF e
<1>2. Record(b, e) = [b EXCEPT !.custody = @ + n]
  BY <1>1 DEF Record
<1>3. b.custody + n \in Int
  BY DEF Books
<1> QED
  BY <1>2, <1>3 DEF Books, e

LEMMA RecordPeriod ==
  ASSUME NEW b \in Books, NEW n \in Nat
  PROVE  LET r == Record(b, NewDistributionPeriodEvent(n))
         IN  /\ r \in Books
             /\ r.locked_balance = b.locked_balance
             /\ r.locked_until   = b.locked_until
             /\ r.withdraw_at    = b.withdraw_at
             /\ r.ve_balance     = b.ve_balance
             /\ r.custody = b.custody /\ r.period = n
<1> DEFINE e == NewDistributionPeriodEvent(n)
<1>1. e.type = "new_distribution_period" /\ e.value = n
  BY DEF NewDistributionPeriodEvent
<1> HIDE DEF e
<1>2. Record(b, e) = [b EXCEPT !.period = n]
  BY <1>1 DEF Record
<1> QED
  BY <1>2 DEF Books, e

(* The inductive invariant of the books.                                   *)
BInv == TxInv /\ books \in Books /\ BooksAgree

(* The books, without the queries they are compared with.                  *)
LEMMA BooksMean ==
  BooksAgree <=>
    /\ \A a \in Accounts :
         /\ books.locked_balance[a] = user_state[a].locked_balance
         /\ books.locked_until[a]   = user_state[a].locked_until
         /\ books.withdraw_at[a]    = user_state[a].withdraw_at
         /\ ve_balances[a] <= books.ve_balance[a]
         /\ books.ve_balance[a] <= books.locked_balance[a]
    /\ books.period = token_state.distribution_period
    /\ books.custody = reserve
BY DEF BooksAgree, QueryUserInfo, QueryBalance, QueryVeTokenInfo

(* A claim tells of the veWILD it leaves, or says nothing and leaves no    *)
(* more than there was.                                                    *)
Claimed(a) == Read(books, ClaimResponse(a).events)

LEMMA ClaimedBooks ==
  ASSUME BInv, NEW a \in Accounts, ClaimOk(View(a), height, time)
  PROVE  LET c == Claimed(a)
             u == user_state[a]
             v == Claim(View(a), height, time)
         IN  /\ c \in Books
             /\ c.locked_balance = books.locked_balance
             /\ c.locked_until   = books.locked_until
             /\ c.withdraw_at    = books.withdraw_at
             /\ \A b \in Accounts \ {a} : c.ve_balance[b] = books.ve_balance[b]
             /\ v.ve <= c.ve_balance[a]
             /\ c.ve_balance[a] <= u.locked_balance
             /\ c.custody = books.custody - Reward(a)
             /\ c.period  = books.period
<1> DEFINE c == Claimed(a)
           u == user_state[a]
           v == Claim(View(a), height, time)
<1>1. /\ LInv /\ TypeOK /\ books \in Books /\ BooksAgree
      /\ LedgersInSync /\ VeBetweenDecayAndLock
  BY DEF BInv, TxInv, LInv, IInv
<1>2. /\ v \in Views /\ v.ve = VeBalance(u.locked_balance, u.locked_until, time)
  BY <1>1, ClaimRefreshes
<1>3. v.ve \in Nat
  BY <1>2, UintNat DEF Views
<1>4. v.ve <= u.balance /\ u.balance <= u.locked_balance
  BY <1>1, <1>2 DEF VeBetweenDecayAndLock
<1>5. u.balance = ve_balances[a]
  BY <1>1 DEF LedgersInSync, Balances
<1>6. /\ books.locked_balance[a] = u.locked_balance
      /\ ve_balances[a] <= books.ve_balance[a]
      /\ books.ve_balance[a] <= books.locked_balance[a]
      /\ books.ve_balance[a] \in Nat
  BY <1>1, BooksMean DEF Books
<1>7. u.balance \in Nat /\ u.locked_balance \in Nat
  BY <1>1, UintNat DEF TypeOK, UserState
<1>8. Reward(a) \in Nat
  BY <1>1, RewardNat
<1>9. ClaimResponse(a).events
        = IF Reward(a) = 0 THEN << >> ELSE <<ClaimEvent(a, Reward(a), v.ve)>>
  BY <1>8, ClaimPlan
<1> HIDE DEF c, u, v
<1>10. CASE Reward(a) = 0
  <2>1. c = books
    BY <1>9, <1>10, ReadNone DEF c, Claimed
  <2>2. books.custody = books.custody - Reward(a)
    BY <1>1, <1>10 DEF Books
  <2>3. v.ve <= books.ve_balance[a] /\ books.ve_balance[a] <= u.locked_balance
    BY <1>3, <1>4, <1>5, <1>6, <1>7
  <2> QED
    BY <1>1, <2>1, <2>2, <2>3 DEF c, u, v
<1>11. CASE Reward(a) # 0
  <2>1. c = Record(books, ClaimEvent(a, Reward(a), v.ve))
    BY <1>9, <1>11, ReadOne DEF c, Claimed
  <2>2. /\ c \in Books
        /\ c.locked_balance = books.locked_balance
        /\ c.locked_until   = books.locked_until
        /\ c.withdraw_at    = books.withdraw_at
        /\ c.ve_balance     = [books.ve_balance EXCEPT ![a] = v.ve]
        /\ c.custody = books.custody - Reward(a) /\ c.period = books.period
    BY <1>1, <1>3, <1>8, <2>1, RecordClaim
  <2>3. /\ c.ve_balance[a] = v.ve
        /\ \A b \in Accounts \ {a} : c.ve_balance[b] = books.ve_balance[b]
    BY <1>1, <2>2 DEF Books
  <2>4. v.ve <= v.ve /\ v.ve <= u.locked_balance
    BY <1>3, <1>4, <1>7
  <2> QED
    BY <2>2, <2>3, <2>4 DEF c, u, v
<1> QED
  BY <1>10, <1>11

(* The event of a handler comes after that of its claim.                   *)
LEMMA ReadAfterClaim ==
  ASSUME NEW a, NEW e, Reward(a) \in Nat
  PROVE  Read(books, ClaimResponse(a).events \o <<e>>)
           = Record(Claimed(a), e)
<1> DEFINE c == ClaimEvent(a, Reward(a), Claim(View(a), height, time).ve)
<1>1. ClaimResponse(a).events = IF Reward(a) = 0 THEN << >> ELSE <<c>>
  BY ClaimPlan
<1> HIDE DEF c
<1>2. CASE Reward(a) = 0
  <2>1. ClaimResponse(a).events = << >>
    BY <1>1, <1>2
  <2>2. ClaimResponse(a).events \o <<e>> = <<e>>
    BY <2>1, ShortConcat
  <2> QED
    BY <2>1, <2>2, ReadNone, ReadOne DEF Claimed
<1>3. CASE Reward(a) # 0
  <2>1. ClaimResponse(a).events = <<c>>
    BY <1>1, <1>3
  <2>2. ClaimResponse(a).events \o <<e>> = <<c, e>>
    BY <2>1, ShortConcat
  <2>3. Read(books, <<c, e>>) = Record(Record(books, c), e)
    BY ReadTwo
  <2>4. Claimed(a) = Record(books, c)
    BY <2>1, ReadOne DEF Claimed
  <2> QED
    BY <2>2, <2>3, <2>4, Zenon
<1> QED
  BY <1>2, <1>3

(* Books that differ only in the account of a step, and agree there.       *)
LEMMA BooksOfAccount ==
  ASSUME BInv, NEW a \in Accounts, NEW v, NEW d, AccountStep(a, v, d),
         NEW r \in Books, books' = r,
         \A b \in Accounts \ {a} :
           /\ r.locked_balance[b] = books.locked_balance[b]
           /\ r.locked_until[b]   = books.locked_until[b]
           /\ r.withdraw_at[b]    = books.withdraw_at[b]
           /\ r.ve_balance[b]     = books.ve_balance[b],
         r.locked_balance[a] = v.user.locked_balance,
         r.locked_until[a]   = v.user.locked_until,
         r.withdraw_at[a]    = v.user.withdraw_at,
         v.ve <= r.ve_balance[a],
         r.ve_balance[a] <= v.user.locked_balance,
         r.custody = reserve', r.period = books.period
  PROVE  BooksAgree'
<1>1. TypeOK /\ BooksAgree
  BY DEF BInv, TxInv, LInv, IInv
<1>2. /\ user_state' = [user_state EXCEPT ![a] = v.user]
      /\ ve_balances' = [ve_balances EXCEPT ![a] = v.ve]
  BY DEF AccountStep, Commit
<1>3. /\ user_state'[a] = v.user /\ ve_balances'[a] = v.ve
      /\ \A b \in Accounts \ {a} : /\ user_state'[b] = user_state[b]
                                   /\ ve_balances'[b] = ve_balances[b]
  BY <1>1, <1>2 DEF TypeOK
<1>4. token_state'.distribution_period = token_state.distribution_period
  BY <1>1, TokenAfterStep
<1>5. /\ \A b \in Accounts :
           /\ books'.locked_balance[b] = user_state'[b].locked_balance
           /\ books'.locked_until[b]   = user_state'[b].locked_until
           /\ books'.withdraw_at[b]    = user_state'[b].withdraw_at
           /\ ve_balances'[b] <= books'.ve_balance[b]
           /\ books'.ve_balance[b] <= books'.locked_balance[b]
      /\ books'.period = token_state'.distribution_period
      /\ books'.custody = reserve'
  <2>1. ASSUME NEW b \in Accounts
        PROVE  /\ books'.locked_balance[b] = user_state'[b].locked_balance
               /\ books'.locked_until[b]   = user_state'[b].locked_until
               /\ books'.withdraw_at[b]    = user_state'[b].withdraw_at
               /\ ve_balances'[b] <= books'.ve_balance[b]
               /\ books'.ve_balance[b] <= books'.locked_balance[b]
    <3>1. CASE b = a
      BY <1>3, <3>1
    <3>2. CASE b # a
      BY <1>1, <1>3, <3>2, BooksMean
    <3> QED
      BY <3>1, <3>2
  <2> QED
    BY <1>1, <1>4, <2>1, BooksMean
<1> QED
  BY <1>5 DEF BooksAgree, QueryUserInfo, QueryBalance, QueryVeTokenInfo

(* What an account's step leaves in the contract's WILD, in terms of the   *)
(* reward its response tells.                                              *)
LEMMA PaidOut ==
  ASSUME BInv, NEW a \in Accounts, NEW v, NEW d, AccountStep(a, v, d)
  PROVE  reserve' = books.custody + d - Reward(a)
<1>1. TypeOK /\ BooksAgree
  BY DEF BInv, TxInv, LInv, IInv
<1>2. reserve' = reserve + d - AccruedNow[a]
  BY <1>1, ReserveStep
<1>3. AccruedNow[a] = Reward(a)
  BY <1>1, QuoteIsAccrual, QuoteIsReward
<1>4. books.custody = reserve
  BY <1>1, BooksMean
<1> QED
  BY <1>2, <1>3, <1>4

(* The books that read the events of a completed transaction agree again.  *)
LEMMA LockBooks ==
  ASSUME BInv, NEW a \in Accounts, NEW amount \in LockAmounts,
         NEW until \in Untils, Lock(a, amount, until),
         books' = Read(books, LockResponse(a, amount, until).events)
  PROVE  books' \in Books /\ BooksAgree'
<1> DEFINE v == LockView(a, amount, until)
           c == Claimed(a)
           r == Record(c, LockEvent(a, v))
           u == user_state[a]
<1>1. LInv /\ TypeOK /\ books \in Books /\ BooksAgree
  BY DEF BInv, TxInv, LInv, IInv
<1>2. Reward(a) \in Nat /\ amount \in Nat
  BY <1>1, RewardNat, InputsAssumption, UintNat
<1>3. books' = r
  BY <1>2, LockPlan, ReadAfterClaim
<1>4. AccountStep(a, v, amount)
  BY <1>1, LockStep
<1>5. HolderStep(a, v)
  BY <1>1, LockHolds
<1>6. /\ v \in Views /\ v.user.locked_balance = u.locked_balance + amount
      /\ v.user.withdraw_at = u.withdraw_at
  BY <1>1, LockRefreshes
<1>7. v.ve = v.user.balance
  BY <1>4 DEF AccountStep, StepView
<1>8. /\ c \in Books
      /\ c.locked_balance = books.locked_balance
      /\ c.locked_until   = books.locked_until
      /\ c.withdraw_at    = books.withdraw_at
      /\ \A b \in Accounts \ {a} : c.ve_balance[b] = books.ve_balance[b]
      /\ c.custody = books.custody - Reward(a)
      /\ c.period  = books.period
  BY ClaimedBooks DEF Lock, LockAccepted
<1>9. reserve' = books.custody + amount - Reward(a)
  BY <1>4, PaidOut
<1>10. /\ books.locked_balance[a] = u.locked_balance
       /\ books.withdraw_at[a] = u.withdraw_at
  BY <1>1, BooksMean
<1> HIDE DEF v, c
<1>11. v.ve <= v.ve /\ v.ve <= v.user.locked_balance
  <2>1. v.user.locked_balance \in Nat /\ v.user.locked_until \in Nat
    BY <1>6, UintNat DEF Views, UserState
  <2>2. time \in Nat
    BY <1>1 DEF TypeOK
  <2>3. v.ve \in Nat
    BY <1>6, UintNat DEF Views
  <2>4. VeBalance(v.user.locked_balance, v.user.locked_until, time)
          <= v.user.locked_balance
    BY <1>5, <2>1, <2>2, VeBalanceCapped DEF HolderStep
  <2> QED
    BY <1>5, <1>7, <2>3, <2>4 DEF HolderStep
<1>12. /\ r \in Books
       /\ r.locked_balance = [c.locked_balance EXCEPT ![a] = v.user.locked_balance]
       /\ r.locked_until   = [c.locked_until EXCEPT ![a] = v.user.locked_until]
       /\ r.withdraw_at    = c.withdraw_at
       /\ r.ve_balance     = [c.ve_balance EXCEPT ![a] = v.ve]
       /\ r.custody = c.custody + v.user.locked_balance - c.locked_balance[a]
       /\ r.period = c.period
  BY <1>6, <1>8, RecordLock
<1> HIDE DEF r
<1>13. r.custody = reserve'
  <2>1. books.custody \in Int /\ u.locked_balance \in Nat
    BY <1>1, UintNat DEF Books, TypeOK, UserState
  <2> QED
    BY <1>2, <1>6, <1>8, <1>9, <1>10, <1>12, <2>1
<1>14. /\ r.locked_balance[a] = v.user.locked_balance
       /\ r.locked_until[a]   = v.user.locked_until
       /\ r.withdraw_at[a]    = v.user.withdraw_at
       /\ r.ve_balance[a]     = v.ve
       /\ r.period = books.period
       /\ \A b \in Accounts \ {a} :
            /\ r.locked_balance[b] = books.locked_balance[b]
            /\ r.locked_until[b]   = books.locked_until[b]
            /\ r.withdraw_at[b]    = books.withdraw_at[b]
            /\ r.ve_balance[b]     = books.ve_balance[b]
  BY <1>6, <1>8, <1>10, <1>12 DEF Books
<1>15. BooksAgree'
  BY <1>3, <1>4, <1>11, <1>12, <1>13, <1>14, BooksOfAccount
<1> QED
  BY <1>3, <1>12, <1>15

LEMMA RequestBooks ==
  ASSUME BInv, NEW a \in Accounts, RequestWithdraw(a),
         books' = Read(books, RequestWithdrawResponse(a).events)
  PROVE  books' \in Books /\ BooksAgree'
<1> DEFINE m == Claim(View(a), height, time)
           v == RequestView(a)
           c == Claimed(a)
           u == user_state[a]
           n == u.locked_balance
           at == time + WITHDRAW_DELAY
           r == Record(c, WithdrawRequestEvent(a, n, at))
<1>1. LInv /\ TypeOK /\ books \in Books /\ BooksAgree
  BY DEF BInv, TxInv, LInv, IInv
<1>2. Reward(a) \in Nat /\ at \in Nat
  BY <1>1, RewardNat, PeriodAssumption DEF TypeOK
<1>3. books' = r
  BY <1>2, RequestPlan, ReadAfterClaim
<1>4. AccountStep(a, v, 0)
  BY <1>1, RequestWithdrawStep
<1>5. ClaimOk(View(a), height, time)
  BY DEF RequestWithdraw, RequestWithdrawAccepted
<1>6. /\ m \in Views /\ m.user.locked_balance = u.locked_balance
      /\ m.user.locked_until = u.locked_until
  BY <1>1, <1>5, ClaimRefreshes
<1>7. v = [m EXCEPT !.user.withdraw_at = at]
  BY DEF RequestView
<1>8. /\ c \in Books
      /\ c.locked_balance = books.locked_balance
      /\ c.locked_until   = books.locked_until
      /\ c.withdraw_at    = books.withdraw_at
      /\ \A b \in Accounts \ {a} : c.ve_balance[b] = books.ve_balance[b]
      /\ m.ve <= c.ve_balance[a]
      /\ c.ve_balance[a] <= u.locked_balance
      /\ c.custody = books.custody - Reward(a)
      /\ c.period  = books.period
  BY <1>5, ClaimedBooks
<1>9. reserve' = books.custody + 0 - Reward(a)
  BY <1>4, PaidOut
<1>10. /\ books.locked_balance[a] = u.locked_balance
       /\ books.locked_until[a] = u.locked_until
  BY <1>1, BooksMean
<1> HIDE DEF m, v, c, at, n
<1>11. /\ v.ve = m.ve
       /\ v.user.locked_balance = m.user.locked_balance
       /\ v.user.locked_until   = m.user.locked_until
       /\ v.user.withdraw_at    = at
  BY <1>6, <1>7 DEF Views, UserState
<1>12. /\ r \in Books
       /\ r.locked_balance = c.locked_balance
       /\ r.locked_until   = c.locked_until
       /\ r.withdraw_at    = [c.withdraw_at EXCEPT ![a] = at]
       /\ r.ve_balance     = c.ve_balance
       /\ r.custody = c.custody /\ r.period = c.period
  BY <1>2, <1>8, RecordRequest
<1> HIDE DEF r
<1>13. r.custody = reserve'
  <2>1. books.custody \in Int
    BY <1>1 DEF Books
  <2> QED
    BY <1>2, <1>8, <1>9, <1>12, <2>1
<1>14. /\ r.locked_balance[a] = v.user.locked_balance
       /\ r.locked_until[a]   = v.user.locked_until
       /\ r.withdraw_at[a]    = v.user.withdraw_at
       /\ v.ve <= r.ve_balance[a]
       /\ r.ve_balance[a] <= v.user.locked_balance
       /\ r.period = books.period
       /\ \A b \in Accounts \ {a} :
            /\ r.locked_balance[b] = books.locked_balance[b]
            /\ r.locked_until[b]   = books.locked_until[b]
            /\ r.withdraw_at[b]    = books.withdraw_at[b]
            /\ r.ve_balance[b]     = books.ve_balance[b]
  BY <1>6, <1>8, <1>10, <1>11, <1>12 DEF Books
<1>15. BooksAgree'
  BY <1>3, <1>4, <1>12, <1>13, <1>14, BooksOfAccount
<1> QED
  BY <1>3, <1>12, <1>15

LEMMA WithdrawBooks ==
  ASSUME BInv, NEW a \in Accounts, Withdraw(a),
         books' = Read(books, WithdrawResponse(a).events)
  PROVE  books' \in Books /\ BooksAgree'
<1> DEFINE v == WithdrawView(a)
           c == Claimed(a)
           u == user_state[a]
           n == u.locked_balance
           r == Record(c, WithdrawEvent(a, n))
<1>1. LInv /\ TypeOK /\ books \in Books /\ BooksAgree /\ WaitingEarnsNothing
  BY DEF BInv, TxInv, LInv, IInv
<1>2. Reward(a) \in Nat /\ n \in Nat
  BY <1>1, RewardNat, UintNat DEF TypeOK, UserState
<1>3. n # 0
  BY <1>1, <1>2 DEF Withdraw, WithdrawAccepted, WaitingEarnsNothing
<1>4. books' = r
  BY <1>2, <1>3, WithdrawPlan, ReadAfterClaim
<1>5. AccountStep(a, v, -n)
  BY <1>1, WithdrawStep
<1>6. ClaimOk(View(a), height, time)
  BY DEF Withdraw, WithdrawAccepted
<1>7. /\ v \in Views /\ v.ve = 0
      /\ v.user.locked_balance = 0
      /\ v.user.locked_until = u.locked_until
      /\ v.user.withdraw_at = 0
  BY <1>1, WithdrawRefreshes DEF Withdraw
<1>8. /\ c \in Books
      /\ c.locked_balance = books.locked_balance
      /\ c.locked_until   = books.locked_until
      /\ c.withdraw_at    = books.withdraw_at
      /\ \A b \in Accounts \ {a} : c.ve_balance[b] = books.ve_balance[b]
      /\ c.custody = books.custody - Reward(a)
      /\ c.period  = books.period
  BY <1>6, ClaimedBooks
<1>9. reserve' = books.custody + (-n) - Reward(a)
  BY <1>5, PaidOut
<1>10. /\ books.locked_balance[a] = n
       /\ books.locked_until[a] = u.locked_until
  BY <1>1, BooksMean
<1> HIDE DEF v, c, n
<1>11. c.locked_balance[a] = n
  BY <1>8, <1>10
<1>12. /\ r \in Books
       /\ r.locked_balance = [c.locked_balance EXCEPT ![a] = 0]
       /\ r.locked_until   = c.locked_until
       /\ r.withdraw_at    = [c.withdraw_at EXCEPT ![a] = 0]
       /\ r.ve_balance     = [c.ve_balance EXCEPT ![a] = 0]
       /\ r.custody = c.custody - n /\ r.period = c.period
  BY <1>2, <1>8, <1>11, RecordWithdraw
<1> HIDE DEF r
<1>13. r.custody = reserve'
  <2>1. books.custody \in Int
    BY <1>1 DEF Books
  <2> QED
    BY <1>2, <1>8, <1>9, <1>12, <2>1
<1>14. /\ r.locked_balance[a] = v.user.locked_balance
       /\ r.locked_until[a]   = v.user.locked_until
       /\ r.withdraw_at[a]    = v.user.withdraw_at
       /\ v.ve <= r.ve_balance[a]
       /\ r.ve_balance[a] <= v.user.locked_balance
       /\ r.period = books.period
       /\ \A b \in Accounts \ {a} :
            /\ r.locked_balance[b] = books.locked_balance[b]
            /\ r.locked_until[b]   = books.locked_until[b]
            /\ r.withdraw_at[b]    = books.withdraw_at[b]
            /\ r.ve_balance[b]     = books.ve_balance[b]
  BY <1>7, <1>8, <1>10, <1>12 DEF Books
<1>15. BooksAgree'
  BY <1>4, <1>5, <1>12, <1>13, <1>14, BooksOfAccount
<1> QED
  BY <1>4, <1>12, <1>15

LEMMA ClaimBooks ==
  ASSUME BInv, NEW a \in Accounts, ExecuteClaim(a),
         books' = Read(books, ClaimResponse(a).events)
  PROVE  books' \in Books /\ BooksAgree'
<1> DEFINE v == Claim(View(a), height, time)
           c == Claimed(a)
           u == user_state[a]
<1>1. LInv /\ TypeOK /\ books \in Books /\ BooksAgree
  BY DEF BInv, TxInv, LInv, IInv
<1>2. Reward(a) \in Nat
  BY <1>1, RewardNat
<1>3. books' = c
  BY DEF Claimed
<1>4. AccountStep(a, v, 0)
  BY <1>1, ExecuteClaimStep
<1>5. ClaimOk(View(a), height, time)
  BY DEF ExecuteClaim, ExecuteClaimAccepted
<1>6. /\ v \in Views /\ v.user.locked_balance = u.locked_balance
      /\ v.user.locked_until = u.locked_until
      /\ v.user.withdraw_at = u.withdraw_at
  BY <1>1, <1>5, ClaimRefreshes
<1>7. /\ c \in Books
      /\ c.locked_balance = books.locked_balance
      /\ c.locked_until   = books.locked_until
      /\ c.withdraw_at    = books.withdraw_at
      /\ \A b \in Accounts \ {a} : c.ve_balance[b] = books.ve_balance[b]
      /\ v.ve <= c.ve_balance[a]
      /\ c.ve_balance[a] <= u.locked_balance
      /\ c.custody = books.custody - Reward(a)
      /\ c.period  = books.period
  BY <1>5, ClaimedBooks
<1>8. reserve' = books.custody + 0 - Reward(a)
  BY <1>4, PaidOut
<1>9. /\ books.locked_balance[a] = u.locked_balance
      /\ books.locked_until[a] = u.locked_until
      /\ books.withdraw_at[a] = u.withdraw_at
  BY <1>1, BooksMean
<1> HIDE DEF v, c
<1>10. c.custody = reserve'
  <2>1. books.custody \in Int
    BY <1>1 DEF Books
  <2> QED
    BY <1>2, <1>7, <1>8, <2>1
<1>11. BooksAgree'
  BY <1>3, <1>4, <1>6, <1>7, <1>9, <1>10, BooksOfAccount
<1> QED
  BY <1>3, <1>7, <1>11

(* Calls and transfers that touch no account: the books of the accounts    *)
(* stand.                                                                  *)
LEMMA BooksOfToken ==
  ASSUME BInv, UNCHANGED <<user_state, ve_balances>>,
         books'.locked_balance = books.locked_balance,
         books'.locked_until   = books.locked_until,
         books'.withdraw_at    = books.withdraw_at,
         books'.ve_balance     = books.ve_balance,
         books'.period = token_state'.distribution_period,
         books'.custody = reserve'
  PROVE  BooksAgree'
<1>1. BooksAgree
  BY DEF BInv
<1>2. /\ \A a \in Accounts :
           /\ books'.locked_balance[a] = user_state'[a].locked_balance
           /\ books'.locked_until[a]   = user_state'[a].locked_until
           /\ books'.withdraw_at[a]    = user_state'[a].withdraw_at
           /\ ve_balances'[a] <= books'.ve_balance[a]
           /\ books'.ve_balance[a] <= books'.locked_balance[a]
      /\ books'.period = token_state'.distribution_period
      /\ books'.custody = reserve'
  BY <1>1, BooksMean
<1> QED
  BY <1>2 DEF BooksAgree, QueryUserInfo, QueryBalance, QueryVeTokenInfo

LEMMA RebasedPeriod ==
  ASSUME BInv, NEW income, NEW period, RebaseStep(income, period)
  PROVE  /\ token_state'.distribution_period = period
         /\ UNCHANGED <<user_state, ve_balances>>
         /\ reserve' = books.custody + income
<1>1. TypeOK /\ BooksAgree
  BY DEF BInv, TxInv, LInv, IInv
<1>2. Accrue(token_state, height) \in TokenState
  BY <1>1, AccrueType DEF RebaseStep, TypeOK
<1>3. token_state' = UpdateRewardRate(Accrue(token_state, height),
                                      income, period, height)
  BY DEF RebaseStep, CommitToken
<1>4. token_state'.distribution_period = period
  BY <1>2, <1>3 DEF UpdateRewardRate, TokenState
<1>5. UNCHANGED <<user_state, ve_balances>>
  BY DEF RebaseStep, CommitToken
<1>6. reserve' = books.custody + income
  BY <1>1, BooksMean DEF RebaseStep
<1> QED
  BY <1>4, <1>5, <1>6

LEMMA IncomeBooks ==
  ASSUME BInv, NEW a \in Accounts, NEW amount \in IncomeAmounts,
         AddIncome(a, amount),
         books' = Read(books, AddIncomeResponse(a, amount).events)
  PROVE  books' \in Books /\ BooksAgree'
<1>1. /\ TypeOK /\ AccrualInOrder /\ books \in Books /\ BooksAgree
      /\ amount \in Nat
  BY InputsAssumption, UintNat DEF BInv, TxInv, LInv, IInv
<1>2. books' = Record(books, NewIncomeEvent(amount))
  BY ReadOne DEF AddIncomeResponse, Response
<1>3. RebaseStep(amount, token_state.distribution_period)
  BY <1>1, AddIncomeRebases
<1>4. books.period = token_state.distribution_period
  BY <1>1, BooksMean
<1>5. /\ token_state'.distribution_period = books.period
      /\ UNCHANGED <<user_state, ve_balances>>
      /\ reserve' = books.custody + amount
  BY <1>3, <1>4, RebasedPeriod
<1>6. /\ books' \in Books
      /\ books'.locked_balance = books.locked_balance
      /\ books'.locked_until   = books.locked_until
      /\ books'.withdraw_at    = books.withdraw_at
      /\ books'.ve_balance     = books.ve_balance
      /\ books'.custody = books.custody + amount /\ books'.period = books.period
  BY <1>1, <1>2, RecordIncome
<1> QED
  BY <1>5, <1>6, BooksOfToken

LEMMA PeriodBooks ==
  ASSUME BInv, NEW blocks \in Periods, ExecuteSetDistributionPeriod(blocks),
         books' = Read(books, SetDistributionPeriodResponse(blocks).events)
  PROVE  books' \in Books /\ BooksAgree'
<1>1. TypeOK /\ books \in Books /\ blocks \in Nat
  BY InputsAssumption DEF BInv, TxInv, LInv, IInv
<1>2. books' = Record(books, NewDistributionPeriodEvent(blocks))
  BY ReadOne DEF SetDistributionPeriodResponse, Response
<1>3. RebaseStep(0, blocks)
  BY <1>1, SetPeriodRebases
<1>4. books.custody + 0 = books.custody
  BY <1>1 DEF Books
<1>5. /\ token_state'.distribution_period = blocks
      /\ UNCHANGED <<user_state, ve_balances>>
      /\ reserve' = books.custody
  BY <1>3, <1>4, RebasedPeriod
<1>6. /\ books' \in Books
      /\ books'.locked_balance = books.locked_balance
      /\ books'.locked_until   = books.locked_until
      /\ books'.withdraw_at    = books.withdraw_at
      /\ books'.ve_balance     = books.ve_balance
      /\ books'.custody = books.custody /\ books'.period = blocks
  BY <1>1, <1>2, RecordPeriod
<1> QED
  BY <1>5, <1>6, BooksOfToken

LEMMA TopUpBooks ==
  ASSUME BInv, NEW a \in Accounts, NEW amount \in GiftAmounts,
         TxTopUp(a, amount)
  PROVE  books' \in Books /\ BooksAgree'
<1>1. /\ TypeOK /\ books \in Books /\ BooksAgree /\ amount \in Nat
  BY InputsAssumption, UintNat DEF BInv, TxInv, LInv, IInv
<1>2. /\ UNCHANGED contract /\ reserve' = reserve - 0 + amount
      /\ books' = [books EXCEPT !.custody = @ + amount]
  BY DEF TxTopUp, TopUp, Transfers
<1>3. books.custody + amount \in Int
  BY <1>1 DEF Books
<1>4. /\ books' \in Books
      /\ books'.locked_balance = books.locked_balance
      /\ books'.locked_until   = books.locked_until
      /\ books'.withdraw_at    = books.withdraw_at
      /\ books'.ve_balance     = books.ve_balance
      /\ books'.custody = books.custody + amount /\ books'.period = books.period
  BY <1>1, <1>2, <1>3 DEF Books
<1>5. /\ books.custody = reserve
      /\ books.period = token_state.distribution_period
  BY <1>1, BooksMean
<1>6. books'.custody = reserve'
  BY <1>1, <1>2, <1>4, <1>5 DEF TypeOK
<1>7. /\ UNCHANGED <<user_state, ve_balances>>
      /\ books'.period = token_state'.distribution_period
  BY <1>2, <1>4, <1>5 DEF contract
<1> QED
  BY <1>4, <1>6, <1>7, BooksOfToken

LEMMA InitBooks == TxInit => books \in Books /\ BooksAgree
<1> SUFFICES ASSUME TxInit
             PROVE  books \in Books /\ BooksAgree
  OBVIOUS
<1>1. TypeOK /\ VeBetweenDecayAndLock
  BY InitLocks DEF TxInit, LInv, IInv
<1>2. EmptyBooks \in Books
  BY DEF EmptyBooks, Books
<1>3. token_state.distribution_period \in Nat
  BY <1>1 DEF TypeOK, TokenState
<1>4. books = Record(EmptyBooks,
                NewDistributionPeriodEvent(token_state.distribution_period))
  BY DEF TxInit
<1>5. /\ books \in Books
      /\ books.locked_balance = [a \in Accounts |-> 0]
      /\ books.locked_until   = [a \in Accounts |-> 0]
      /\ books.withdraw_at    = [a \in Accounts |-> 0]
      /\ books.ve_balance     = [a \in Accounts |-> 0]
      /\ books.custody = 0
      /\ books.period = token_state.distribution_period
  <2>1. /\ EmptyBooks.locked_balance = [a \in Accounts |-> 0]
        /\ EmptyBooks.locked_until   = [a \in Accounts |-> 0]
        /\ EmptyBooks.withdraw_at    = [a \in Accounts |-> 0]
        /\ EmptyBooks.ve_balance     = [a \in Accounts |-> 0]
        /\ EmptyBooks.custody = 0
    BY DEF EmptyBooks
  <2> QED
    BY <1>2, <1>3, <1>4, <2>1, RecordPeriod
<1>6. /\ reserve = 0
      /\ user_state = [a \in Accounts |-> DefaultUserState]
      /\ ve_balances = [a \in Accounts |-> 0]
  BY DEF TxInit, Init
<1>7. \A a \in Accounts :
        /\ user_state[a].locked_balance = 0 /\ user_state[a].locked_until = 0
        /\ user_state[a].withdraw_at = 0 /\ ve_balances[a] = 0
        /\ books.locked_balance[a] = 0 /\ books.locked_until[a] = 0
        /\ books.withdraw_at[a] = 0 /\ books.ve_balance[a] = 0
  BY <1>5, <1>6 DEF DefaultUserState
<1>8. BooksAgree
  BY <1>5, <1>6, <1>7, BooksMean
<1> QED
  BY <1>5, <1>8

LEMMA FinishBooks ==
  ASSUME BInv, Finish
  PROVE  books' \in Books /\ BooksAgree'
<1> DEFINE a  == flight[1].sender
           es == flight[1].events
<1>1. a \in Accounts /\ Completes(a, es)
  BY FinishCompletes DEF BInv
<1>2. books' = Read(books, es)
  BY DEF Finish, Read
<1> HIDE DEF a, es
<1>3. ASSUME NEW amount \in LockAmounts, NEW until \in Untils,
             Lock(a, amount, until), es = LockResponse(a, amount, until).events
      PROVE  books' \in Books /\ BooksAgree'
  BY <1>1, <1>2, <1>3, LockBooks
<1>4. ASSUME RequestWithdraw(a), es = RequestWithdrawResponse(a).events
      PROVE  books' \in Books /\ BooksAgree'
  BY <1>1, <1>2, <1>4, RequestBooks
<1>5. ASSUME Withdraw(a), es = WithdrawResponse(a).events
      PROVE  books' \in Books /\ BooksAgree'
  BY <1>1, <1>2, <1>5, WithdrawBooks
<1>6. ASSUME ExecuteClaim(a), es = ClaimResponse(a).events
      PROVE  books' \in Books /\ BooksAgree'
  BY <1>1, <1>2, <1>6, ClaimBooks
<1>7. ASSUME NEW amount \in IncomeAmounts,
             AddIncome(a, amount), es = AddIncomeResponse(a, amount).events
      PROVE  books' \in Books /\ BooksAgree'
  BY <1>1, <1>2, <1>7, IncomeBooks
<1>8. ASSUME NEW blocks \in Periods, ExecuteSetDistributionPeriod(blocks),
             es = SetDistributionPeriodResponse(blocks).events
      PROVE  books' \in Books /\ BooksAgree'
  BY <1>2, <1>8, PeriodBooks
<1> QED
  BY <1>1, <1>3, <1>4, <1>5, <1>6, <1>7, <1>8 DEF Completes

(* Steps that leave the stores as written alone leave the books alone.     *)
LEMMA BooksIdle ==
  ASSUME BInv, UNCHANGED <<contract, reserve, books>>
  PROVE  books' \in Books /\ BooksAgree'
<1>1. books \in Books /\ BooksAgree
  BY DEF BInv
<1>2. UNCHANGED <<user_state, ve_balances, token_state, reserve, books>>
  BY DEF contract
<1>3. /\ books.period = token_state.distribution_period
      /\ books.custody = reserve
  BY <1>1, BooksMean
<1> QED
  BY <1>1, <1>2, <1>3, BooksOfToken

LEMMA NextBooks ==
  ASSUME BInv, [TxNext]_txVars
  PROVE  books' \in Books /\ BooksAgree'
<1> DEFINE Idle == UNCHANGED <<contract, reserve, books>>
<1>1. ASSUME UNCHANGED vars, UNCHANGED books
      PROVE  Idle
  BY <1>1 DEF vars, funds
<1>2. ASSUME NEW a, NEW call, NEW stores, NEW response,
             Begin(call, a, stores, response)
      PROVE  Idle
  BY <1>1, <1>2 DEF Begin
<1> HIDE DEF Idle
<1>3. ASSUME \/ \E a \in Accounts, amount \in LockAmounts, until \in Untils :
                  SubmitLock(a, amount, until)
             \/ \E a \in Accounts : SubmitRequestWithdraw(a)
             \/ \E a \in Accounts : SubmitWithdraw(a)
             \/ \E a \in Accounts : SubmitClaim(a)
             \/ \E a \in Accounts, amount \in IncomeAmounts :
                  SubmitAddIncome(a, amount)
             \/ \E a \in Accounts, blocks \in Periods :
                  SubmitSetDistributionPeriod(a, blocks)
      PROVE  Idle
  BY <1>2, <1>3 DEF SubmitLock, SubmitRequestWithdraw, SubmitWithdraw,
                    SubmitClaim, SubmitAddIncome, SubmitSetDistributionPeriod
<1>4. ASSUME Deliver \/ Abort
      PROVE  Idle
  BY <1>1, <1>4 DEF Deliver, Abort
<1>5. ASSUME NEW a \in Accounts, NEW amount \in Allowances, Approve(a, amount)
      PROVE  Idle
  BY <1>1, <1>5 DEF Approve
<1>6. ASSUME NEW seconds \in TimeSteps, TxNextBlock(seconds)
      PROVE  Idle
  BY <1>6 DEF TxNextBlock, NextBlock, funds, Idle
<1>7. ASSUME UNCHANGED txVars
      PROVE  Idle
  BY <1>1, <1>7 DEF txVars
<1>8. ASSUME Idle
      PROVE  books' \in Books /\ BooksAgree'
  BY <1>8, BooksIdle DEF Idle
<1>9. CASE Finish
  BY <1>9, FinishBooks
<1>10. CASE \E a \in Accounts, amount \in GiftAmounts : TxTopUp(a, amount)
  BY <1>10, TopUpBooks
<1> QED
  BY <1>3, <1>4, <1>5, <1>6, <1>7, <1>8, <1>9, <1>10 DEF TxNext

(* Events and the stores never part: whoever reads every event, whatever   *)
(* fails in between, knows every lock, every request, the distribution     *)
(* period and the WILD in custody, and never too little veWILD.            *)
THEOREM BooksAreRight == TxSpec => []BooksAgree
<1>1. TxInit => BInv
  BY TxInitInvariant, InitBooks DEF BInv
<1>2. BInv /\ [TxNext]_txVars => BInv'
  <2> SUFFICES ASSUME BInv, [TxNext]_txVars
               PROVE  BInv'
    OBVIOUS
  <2>1. TxInv'
    BY TxNextInvariant DEF BInv
  <2> QED
    BY <2>1, NextBooks DEF BInv
<1>3. BInv => BooksAgree
  BY DEF BInv
<1> QED
  BY <1>1, <1>2, <1>3, PTL DEF TxSpec
=============================================================================
