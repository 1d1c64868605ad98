------------------------------ MODULE TradeBook ------------------------------
(***************************************************************************)
(* What the trading interface promises a customer (README.md:622-625):     *)
(* every deposit and order is booked in one atomic step, at most once per  *)
(* idempotency key, never with money or shares the customer does not have. *)
(* Portfolio, with its requests that run concurrently, implements it.      *)
(***************************************************************************)
EXTENDS Integers

CONSTANTS Products, Keys, NoKey

VARIABLES cash,          \* spendable money
          shares,        \* shares held of each product
          depositKeys,   \* keys of the booked deposits
          orderKeys      \* keys of the booked orders

book == <<cash, shares, depositKeys, orderKeys>>

Init == /\ cash = 0
        /\ shares = [p \in Products |-> 0]
        /\ depositKeys = {}
        /\ orderKeys = {}

\* A key is used up by the booking it came with; no key at all never is.
Fresh(k, used) == k \notin used
Used(k, used) == IF k = NoKey THEN used ELSE used \cup {k}

\* How much is booked is left to the prices; which way it moves is not.
Deposit(k) == /\ Fresh(k, depositKeys)
              /\ cash' \in Int /\ cash' > cash
              /\ depositKeys' = Used(k, depositKeys)
              /\ UNCHANGED <<shares, orderKeys>>

\* Only the shares of p change.
Holding(p) == shares' = [shares EXCEPT ![p] = shares'[p]]

Buy(k, p) == /\ Fresh(k, orderKeys)
             /\ Holding(p) /\ shares'[p] > shares[p]
             /\ cash' \in 0 .. cash
             /\ orderKeys' = Used(k, orderKeys)
             /\ UNCHANGED depositKeys

Sell(k, p) == /\ Fresh(k, orderKeys)
              /\ Holding(p) /\ shares'[p] \in 0 .. shares[p] - 1
              /\ cash' \in Int /\ cash' >= cash
              /\ orderKeys' = Used(k, orderKeys)
              /\ UNCHANGED depositKeys

Next == \E k \in Keys \cup {NoKey} :
           \/ Deposit(k)
           \/ \E p \in Products : Buy(k, p) \/ Sell(k, p)

Spec == Init /\ [][Next]_book
=============================================================================
