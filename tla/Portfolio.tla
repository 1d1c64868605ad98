------------------------------ MODULE Portfolio ------------------------------
(***************************************************************************)
(* The simulated trading service: deposits, buys, sells and liquidations   *)
(* of ONE customer (domains/portfolio/service.py over portfolio_store.py). *)
(* Every query of the store filters by customer, so customers do not meet. *)
(*                                                                         *)
(* A call is one HTTP request, run by a thread of the server.  It looks    *)
(* its idempotency key up, prices the trade, and only then opens the       *)
(* transaction that locks the accounts row (SELECT ... FOR UPDATE), checks,*)
(* writes and commits; a unique index on (customer, key) backs the lookup. *)
(* Calls run concurrently, a client resends a request it has no answer to, *)
(* and a thread or its connection may die at any point.                    *)
(*                                                                         *)
(* The database serialises writers of the accounts row and a transaction   *)
(* is atomic; what a transaction read before the lock may be stale.  NAV   *)
(* and shelf are read from tables others write: any value, at any read.    *)
(***************************************************************************)
EXTENDS Fees, Sequences, SequencesExt

CONSTANTS
    Calls, Products, Keys,
    Op,                      \* what each call asks for
    Navs,                    \* values the latest-NAV query may return
    SubscriptionRate, RedemptionRate,
    PORTFOLIO_MAX_DEPOSIT_AMOUNT, PORTFOLIO_MIN_ORDER_AMOUNT,
    NoKey, NoNav, Nobody

\* A request: `by` says how `n` is meant ("all" ignores it).
Ops == [kind : {"deposit", "buy", "sell", "liquidate"},
        product : Products, by : {"amount", "shares", "all"},
        n : Nat, key : Keys \cup {NoKey}]

ASSUME CallsAssumption ==
    /\ Op \in [Calls -> Ops]
    /\ IsFiniteSet(Products)
    /\ Nobody \notin Calls
    /\ NoKey \notin Keys
    /\ Navs \subseteq Nat \ {0} /\ NoNav \notin Navs

ASSUME RatesAssumption ==
    /\ SubscriptionRate \in Nat
    /\ RedemptionRate \in 0 .. RateScale
    /\ PORTFOLIO_MAX_DEPOSIT_AMOUNT \in Nat
    /\ PORTFOLIO_MIN_ORDER_AMOUNT \in Nat

VARIABLES
    cash, totalDeposit,      \* accounts: cash_balance, total_deposit
    shares, cost,            \* positions: a product without a row has 0 and 0
    orders,                  \* orders, in commit order
    txns,                    \* cash_transactions, in commit order
    lock,                    \* the call that holds the accounts row lock
    at,                      \* where each call is
    item,                    \* product a liquidation is selling
    todo,                    \* products it listed and has not sold yet
    quote,                   \* NAV the call priced its trade with
    plan,                    \* breakdown of its subscription
    seen,                    \* cash it read under the lock
    answer                   \* what the customer is told

account == <<cash, totalDeposit>>
positions == <<shares, cost>>
rows == <<account, positions, orders, txns>>
local == <<item, todo, quote, plan, seen>>
vars == <<rows, lock, at, local, answer>>

NoPlan == [shares |-> 0, cashOut |-> 0]
NoAnswer == [status |-> "none", row |-> 0]

Init ==
    /\ cash = 0 /\ totalDeposit = 0
    /\ shares = [p \in Products |-> 0] /\ cost = [p \in Products |-> 0]
    /\ orders = <<>> /\ txns = <<>>
    /\ lock = Nobody
    /\ at = [c \in Calls |-> "idle"]
    /\ item = [c \in Calls |-> Op[c].product]
    /\ todo = [c \in Calls |-> {}]
    /\ quote = [c \in Calls |-> NoNav]
    /\ plan = [c \in Calls |-> NoPlan]
    /\ seen = [c \in Calls |-> 0]
    /\ answer = [c \in Calls |-> NoAnswer]

(***************************************************************************)
(* Helpers                                                                 *)
(***************************************************************************)

Liquidates(c) == Op[c].kind = "liquidate"

\* The key a trade is booked under: liquidate_all sells without one.
KeyOf(c) == IF Liquidates(c) THEN NoKey ELSE Op[c].key

Sells(c) == Op[c].kind = "sell" \/ Liquidates(c)

\* Shares a sale asks for, all_shares being whatever is held.
Wanted(c) == IF Liquidates(c) \/ Op[c].by = "all" THEN shares[item[c]] ELSE Op[c].n

Table(c) == IF Op[c].kind = "deposit" THEN txns ELSE orders

BookedByLookupOnly(c) ==                                     \* mutant
    {i \in DOMAIN Table(c) : /\ KeyOf(c) # NoKey /\ Table(c)[i].key = KeyOf(c)
                             /\ at[c] = "idle"}

BookedUnderAnyKey(c) ==                                      \* mutant
    {i \in DOMAIN Table(c) : KeyOf(c) # NoKey /\ Table(c)[i].key # NoKey}

\* Rows booked under the call's key; the empty key finds nothing.
Booked(c) == {i \in DOMAIN Table(c) : KeyOf(c) # NoKey /\ Table(c)[i].key = KeyOf(c)}

Goto(c, l) == at' = [at EXCEPT ![c] = l]

FailUnrecorded(c) ==                                         \* mutant
    /\ Goto(c, "done")
    /\ answer' = [answer EXCEPT ![c] = [status |-> "failed"]]

\* The call raises: a liquidation notes the product as failed and goes on.
Fail(c) ==
    IF Liquidates(c)
    THEN Goto(c, "next") /\ UNCHANGED answer
    ELSE /\ Goto(c, "done")
         /\ answer' = [answer EXCEPT ![c] = [status |-> "failed", row |-> 0]]

Respond(c, status, i) ==
    /\ Goto(c, "reply")
    /\ answer' = [answer EXCEPT ![c] = [status |-> status, row |-> i]]

(***************************************************************************)
(* Before the transaction                                                  *)
(***************************************************************************)

RejectDeposit(c) ==
    /\ at[c] = "idle" /\ Op[c].kind = "deposit"
    /\ Op[c].n \notin 1 .. PORTFOLIO_MAX_DEPOSIT_AMOUNT
    /\ Fail(c)
    /\ UNCHANGED <<rows, lock, local>>

\* ensure_account and the lookup of the key, each in a transaction of its own.
Lookup(c) ==
    /\ at[c] = "idle" /\ Op[c].kind \in {"deposit", "buy", "sell"}
    /\ Op[c].kind = "deposit" => Op[c].n \in 1 .. PORTFOLIO_MAX_DEPOSIT_AMOUNT
    /\ \/ \E i \in Booked(c) : Respond(c, "replayed", i)
       \/ /\ Booked(c) = {}
          /\ Goto(c, IF Op[c].kind = "deposit" THEN "begin" ELSE "quote")
          /\ UNCHANGED answer
    /\ UNCHANGED <<rows, lock, local>>

\* Breakdowns of a subscription at a NAV.
Plans(c, nav) ==
    {[shares |-> b.shares, cashOut |-> b.cashOut] :
       b \in IF Op[c].by = "amount"
             THEN SubscriptionByAmount(Op[c].n, nav, SubscriptionRate)
             ELSE SubscriptionByShares(Op[c].n, nav, SubscriptionRate)}

TooSmall(c) == /\ Op[c].by = "amount"
               /\ Op[c].n < PORTFOLIO_MIN_ORDER_AMOUNT

\* The product is off the shelf or unpriced, or the amount confirms no share.
QuoteFails(c) ==
    /\ at[c] = "quote"
    /\ \E nav \in Navs \cup {NoNav}, onShelf \in BOOLEAN :
          \/ nav = NoNav
          \/ Op[c].kind = "buy" /\ ~onShelf
          \/ Op[c].kind = "buy" /\ TooSmall(c)
          \/ /\ Op[c].kind = "buy" /\ nav # NoNav
             /\ \E b \in Plans(c, nav) : b.shares = 0
    /\ Fail(c)
    /\ UNCHANGED <<rows, lock, local>>

\* A sale needs a NAV; a buy also needs the product on the shelf and a plan.
Quote(c) ==
    /\ at[c] = "quote"
    /\ \E nav \in Navs :
          /\ quote' = [quote EXCEPT ![c] = nav]
          /\ IF Sells(c) THEN UNCHANGED plan
             ELSE /\ ~TooSmall(c)
                  /\ \E b \in Plans(c, nav) :
                        /\ b.shares > 0
                        /\ plan' = [plan EXCEPT ![c] = b]
    /\ Goto(c, "begin")
    /\ UNCHANGED <<rows, lock, item, todo, seen, answer>>

(***************************************************************************)
(* The transaction                                                         *)
(***************************************************************************)

LockAccountPlainSelect(c) ==                                 \* mutant
    /\ at[c] = "begin"
    /\ lock' = c
    /\ seen' = [seen EXCEPT ![c] = cash]
    /\ Goto(c, "locked")
    /\ UNCHANGED <<rows, item, todo, quote, plan, answer>>

\* lock_account: SELECT ... FOR UPDATE waits for the row, then reads it.
LockAccount(c) ==
    /\ at[c] = "begin"
    /\ lock = Nobody
    /\ lock' = c
    /\ seen' = [seen EXCEPT ![c] = cash]
    /\ Goto(c, "locked")
    /\ UNCHANGED <<rows, item, todo, quote, plan, answer>>

InTransaction(c) == at[c] = "locked"

\* Commit or rollback releases the row.
Release == lock' = Nobody

RecordUnsigned(kind, amount, balance, key) ==                \* mutant
    txns' = Append(txns, [kind |-> kind, amount |-> IF amount < 0 THEN -amount ELSE amount,
                          balanceAfter |-> balance, key |-> key])

\* insert_transaction: amount is signed, balance_after the cash written with it.
Record(kind, amount, balance, key) ==
    txns' = Append(txns, [kind |-> kind, amount |-> amount,
                          balanceAfter |-> balance, key |-> key])

PlaceRequested(c, side, n, net, realized) ==                 \* mutant
    orders' = Append(orders, [key |-> KeyOf(c), product |-> item[c], side |-> side,
                              shares |-> Op[c].n, net |-> net, realized |-> realized,
                              by |-> c])

\* insert_order; `by` tells which call placed it (history, not a column).
Place(c, side, n, net, realized) ==
    orders' = Append(orders, [key |-> KeyOf(c), product |-> item[c], side |-> side,
                              shares |-> n, net |-> net, realized |-> realized,
                              by |-> c])

\* Where a call goes on once its trade has committed.
Settled(c, i) == IF Liquidates(c) THEN Goto(c, "next") /\ UNCHANGED answer
                                  ELSE Respond(c, "filled", i)

Deposit(c) ==
    /\ InTransaction(c) /\ Op[c].kind = "deposit"
    /\ Booked(c) = {}
    /\ LET balance == seen[c] + Op[c].n IN
          /\ cash' = balance
          /\ Record("deposit", Op[c].n, balance, KeyOf(c))
    /\ totalDeposit' = totalDeposit + Op[c].n
    /\ Settled(c, Len(txns) + 1)
    /\ Release
    /\ UNCHANGED <<positions, orders, local>>

CanPayFromDeposits(c) == totalDeposit >= plan[c].cashOut     \* mutant

\* The cash check uses the balance read under the lock.
CanPay(c) == seen[c] >= plan[c].cashOut

Buy(c) ==
    /\ InTransaction(c) /\ Op[c].kind = "buy"
    /\ CanPay(c) /\ Booked(c) = {}
    /\ LET p == item[c]
           balance == seen[c] - plan[c].cashOut
       IN /\ shares' = [shares EXCEPT ![p] = @ + plan[c].shares]
          /\ cost' = [cost EXCEPT ![p] = @ + plan[c].cashOut]
          /\ cash' = balance
          /\ Place(c, "buy", plan[c].shares, plan[c].cashOut, 0)
          /\ Record("buy", -plan[c].cashOut, balance, NoKey)
    /\ Settled(c, Len(orders) + 1)
    /\ Release
    /\ UNCHANGED <<totalDeposit, local>>

CanDeliver(c) == Wanted(c) \in 1 .. shares[item[c]]

\* A position whose shares are gone is deleted with whatever cost it carried.
Sell(c) ==
    /\ InTransaction(c) /\ Sells(c)
    /\ CanDeliver(c) /\ Booked(c) = {}
    /\ LET p == item[c]
           n == Wanted(c)
       IN \E b \in Redemption(n, quote[c], RedemptionRate),
             costOut \in CostOut(cost[p], n, shares[p]) :
            /\ shares' = [shares EXCEPT ![p] = @ - n]
            /\ cost' = [cost EXCEPT ![p] = IF shares[p] = n THEN 0 ELSE @ - costOut]
            /\ cash' = seen[c] + b.cashIn
            /\ Place(c, "sell", n, b.cashIn, b.cashIn - costOut)
            /\ Record("sell", b.cashIn, seen[c] + b.cashIn, NoKey)
    /\ Settled(c, Len(orders) + 1)
    /\ Release
    /\ UNCHANGED <<totalDeposit, local>>

RefuseKeepsLock(c) ==                                        \* mutant
    /\ InTransaction(c)
    /\ \/ Op[c].kind = "buy" /\ ~CanPay(c)
       \/ Sells(c) /\ ~CanDeliver(c)
    /\ Fail(c)
    /\ UNCHANGED <<rows, lock, local>>

\* Not enough cash, no position or not enough shares: the transaction rolls back.
Refuse(c) ==
    /\ InTransaction(c)
    /\ \/ Op[c].kind = "buy" /\ ~CanPay(c)
       \/ Sells(c) /\ ~CanDeliver(c)
    /\ Fail(c)
    /\ Release
    /\ UNCHANGED <<rows, local>>

\* The checks pass but the unique index rejects the row: the transaction rolls back.
Collide(c) ==
    /\ InTransaction(c)
    /\ Op[c].kind = "buy" => CanPay(c)
    /\ Sells(c) => CanDeliver(c)
    /\ Booked(c) # {}
    /\ Goto(c, "conflict")
    /\ Release
    /\ UNCHANGED <<rows, local, answer>>

(***************************************************************************)
(* After the transaction                                                   *)
(***************************************************************************)

\* _replay_order_conflict, _replay_deposit_conflict: answer with the first row.
ReplayConflict(c) ==
    /\ at[c] = "conflict"
    /\ \E i \in Booked(c) : Respond(c, "replayed", i)
    /\ UNCHANGED <<rows, lock, local>>

\* _result only reads; then the answer reaches the customer.
Reply(c) ==
    /\ at[c] = "reply"
    /\ Goto(c, "done")
    /\ UNCHANGED <<rows, lock, local, answer>>

\* liquidate_all lists the positions once, before it sells any.
StartLiquidation(c) ==
    /\ at[c] = "idle" /\ Liquidates(c)
    /\ todo' = [todo EXCEPT ![c] = {p \in Products : shares[p] > 0}]
    /\ Goto(c, "next")
    /\ UNCHANGED <<rows, lock, item, quote, plan, seen, answer>>

NextItem(c) ==
    /\ at[c] = "next"
    /\ \/ \E p \in todo[c] :
             /\ item' = [item EXCEPT ![c] = p]
             /\ todo' = [todo EXCEPT ![c] = @ \ {p}]
             /\ Goto(c, "quote")
             /\ UNCHANGED answer
       \/ /\ todo[c] = {}
          /\ Respond(c, "filled", 0)
          /\ UNCHANGED <<item, todo>>
    /\ UNCHANGED <<rows, lock, quote, plan, seen>>

\* The thread or its database connection is lost: an open transaction rolls
\* back, what was committed stays, the customer gets no answer.
Die(c) ==
    /\ at[c] \notin {"idle", "done", "dead"}
    /\ Goto(c, "dead")
    /\ lock' = IF lock = c THEN Nobody ELSE lock
    /\ UNCHANGED <<rows, local, answer>>

Step(c) ==
    \/ RejectDeposit(c) \/ Lookup(c) \/ QuoteFails(c) \/ Quote(c)
    \/ LockAccount(c) \/ Deposit(c) \/ Buy(c) \/ Sell(c)
    \/ Refuse(c) \/ Collide(c) \/ ReplayConflict(c) \/ Reply(c)
    \/ StartLiquidation(c) \/ NextItem(c)

Next == \E c \in Calls : Step(c) \/ Die(c)

Spec == Init /\ [][Next]_vars
(***************************************************************************)
(* Properties                                                              *)
(***************************************************************************)

Places == {"idle", "quote", "begin", "locked", "conflict", "next", "reply",
           "done", "dead"}
OrderRows == [key : Keys \cup {NoKey}, product : Products, side : {"buy", "sell"},
              shares : Nat, net : Int, realized : Int, by : Calls]
TxnRows == [kind : {"deposit", "buy", "sell"}, amount : Int, balanceAfter : Int,
            key : Keys \cup {NoKey}]
Answers == [status : {"none", "filled", "replayed", "failed"}, row : Nat]

\* Shapes of the tables and of what a call remembers (migrations/011_portfolio.sql).
TypeOK ==
    /\ cash \in Int /\ totalDeposit \in Nat
    /\ shares \in [Products -> Int] /\ cost \in [Products -> Int]
    /\ orders \in Seq(OrderRows) /\ txns \in Seq(TxnRows)
    /\ lock \in Calls \cup {Nobody}
    /\ at \in [Calls -> Places]
    /\ item \in [Calls -> Products]
    /\ todo \in [Calls -> SUBSET Products]
    /\ quote \in [Calls -> Navs \cup {NoNav}]
    /\ plan \in [Calls -> [shares : Nat, cashOut : Nat]]
    /\ seen \in [Calls -> Int]
    /\ answer \in [Calls -> Answers]

\* The row lock: exactly the call inside its transaction holds the account, what
\* it read is still the balance, and it was validated and priced before it began.
\* The checks of a transaction rest on this; it is the inductive core of the proofs.
Priced(c) == /\ Op[c].kind = "deposit" => Op[c].n > 0
             /\ Op[c].kind = "buy" => plan[c].shares > 0
             /\ Sells(c) => quote[c] # NoNav
LockInv ==
    \A c \in Calls :
        /\ lock = c <=> at[c] = "locked"
        /\ at[c] = "locked" => seen[c] = cash
        /\ at[c] \in {"begin", "locked"} => Priced(c)
        /\ at[c] = "quote" => Op[c].kind # "deposit"
        /\ at[c] = "next" => Liquidates(c)

\* Concurrent orders never overspend: the balance the customer has, and every
\* balance the ledger ever showed, is not negative (portfolio_store.py:43,
\* README.md:625); nor are shares sold that are not there.
NoOverdraft == /\ cash >= 0
               /\ \A i \in DOMAIN txns : txns[i].balanceAfter >= 0
               /\ \A p \in Products : shares[p] >= 0 /\ cost[p] >= 0

\* The ledger is gapless: every entry's balance is the one before it plus its
\* signed amount, and the last one is the account's cash.  A lost update of the
\* balance by a concurrent call breaks the chain.
BalanceBefore(i) == IF i = 1 THEN 0 ELSE txns[i - 1].balanceAfter
LedgerExplainsCash ==
    /\ \A i \in DOMAIN txns : txns[i].balanceAfter = BalanceBefore(i) + txns[i].amount
    /\ cash = BalanceBefore(Len(txns) + 1)

\* Profit is accounted for once: cash and the cost of what is held are what was
\* paid in plus what the sell orders realized.  The account panel derives total,
\* realized and position profit separately and shows all three.
SumOver(f) == FoldFunction(LAMBDA x, y : x + y, 0, f)
Realized == SumOver([i \in DOMAIN orders |-> orders[i].realized])
BooksBalance == cash + SumOver(cost) = totalDeposit + Realized

\* Orders, ledger and positions tell one story: the n-th trade entry of the
\* ledger is the n-th order, with the same money, and a position is what its
\* orders bought and sold.
IsTrade(t) == t.kind # "deposit"
EntryOf(t, o) == /\ t.kind = o.side
                 /\ t.amount = IF o.side = "buy" THEN -o.net ELSE o.net
TradesUpTo(j) == Cardinality({i \in 1 .. j : IsTrade(txns[i])})
Change(o, p) == IF o.product # p THEN 0
                ELSE IF o.side = "buy" THEN o.shares ELSE -o.shares
Moved(p) == SumOver([i \in DOMAIN orders |-> Change(orders[i], p)])
TablesAgree ==
    /\ TradesUpTo(Len(txns)) = Len(orders)
    /\ \A j \in DOMAIN txns :
          IsTrade(txns[j]) => EntryOf(txns[j], orders[TradesUpTo(j)])
    /\ \A p \in Products : shares[p] = Moved(p)

\* A key books at most one order and at most one deposit, however often and
\* however concurrently its request is sent (README.md:623-624).
OncePerKey ==
    /\ \A i, j \in DOMAIN orders :
          orders[i].key = orders[j].key /\ orders[i].key # NoKey => i = j
    /\ \A i, j \in DOMAIN txns :
          txns[i].key = txns[j].key /\ txns[i].key # NoKey => i = j

\* A keyed request that is answered with a row is answered with the row its key
\* was booked under: the first result, never another one.
AnsweredFromItsRow ==
    \A c \in Calls : answer[c].row # 0 =>
        /\ answer[c].row \in DOMAIN Table(c)
        /\ Table(c)[answer[c].row].key = KeyOf(c)

\* The service implements the promise: every step books nothing, or one deposit
\* or order atomically, under a fresh key, within the customer's means.
KeysIn(table) == {table[i].key : i \in DOMAIN table} \ {NoKey}
Book == INSTANCE TradeBook WITH depositKeys <- KeysIn(txns), orderKeys <- KeysIn(orders)
BookedAtomically == Book!Spec

\* A call that nothing keeps waiting: the row lock is free or its own, a conflict
\* finds the row it collided with, and a sale that can be delivered has a price.
CanGoOn(c) ==
    \/ at[c] \in {"quote", "next", "reply"}
    \/ at[c] = "begin" /\ lock = Nobody
    \/ at[c] = "conflict" /\ Booked(c) # {}
    \/ /\ at[c] = "locked"
       /\ Sells(c) /\ CanDeliver(c) =>
             /\ Redemption(Wanted(c), quote[c], RedemptionRate) # {}
             /\ CostOut(cost[item[c]], Wanted(c), shares[item[c]]) # {}

UnderWay == {c \in Calls : at[c] \notin {"idle", "done", "dead"}}

\* No order of lock waits, refusals and conflicts leaves every request waiting:
\* while one is under way, some request can go on without a thread having to die.
SomeoneIsFree == UnderWay # {} => \E c \in UnderWay : CanGoOn(c)

\* What can go on has a step to take.
GuardsTell == \A c \in Calls : CanGoOn(c) => ENABLED Step(c)

SomeoneCanGoOn == SomeoneIsFree /\ GuardsTell

=============================================================================
