---------------------------- MODULE FlatPosition ----------------------------
(***************************************************************************)
(* One position of one customer while the net asset value and the fee      *)
(* rates stand still: the money that buy and sell of                       *)
(* domains/portfolio/service.py move with the breakdowns of Fees, one      *)
(* order after another.  Portfolio has the concurrency; here the amounts   *)
(* are of realistic size, because rounding is what is checked.             *)
(***************************************************************************)
EXTENDS Fees

CONSTANTS Navs, SubscriptionRates, RedemptionRates, Amounts, Lots,
          MIN_ORDER_AMOUNT,
          MaxOrders       \* bound on the orders of a behaviour

VARIABLES nav, subscriptionRate, redemptionRate,
          shares, costAmount,         \* the positions row
          paid, received,             \* totals of cashOut and cashIn
          orders

quote == <<nav, subscriptionRate, redemptionRate>>
vars == <<quote, shares, costAmount, paid, received, orders>>

Init ==
    /\ nav \in Navs
    /\ subscriptionRate \in SubscriptionRates
    /\ redemptionRate \in RedemptionRates
    /\ shares = 0 /\ costAmount = 0
    /\ paid = 0 /\ received = 0
    /\ orders = 0

\* What a confirmed subscription does to the position.
Acquire(b) ==
    /\ b.shares > 0
    /\ orders < MaxOrders
    /\ orders' = orders + 1
    /\ shares' = shares + b.shares
    /\ costAmount' = costAmount + b.cashOut
    /\ paid' = paid + b.cashOut
    /\ UNCHANGED <<quote, received>>

BuyAmount(amount) ==
    /\ amount >= MIN_ORDER_AMOUNT
    /\ \E b \in SubscriptionByAmount(amount, nav, subscriptionRate) : Acquire(b)

BuyShares(n) ==
    /\ n > 0
    /\ \E b \in SubscriptionByShares(n, nav, subscriptionRate) : Acquire(b)

Sell(wanted) ==
    /\ wanted \in 1 .. shares
    /\ orders < MaxOrders
    /\ orders' = orders + 1
    /\ \E b \in Redemption(wanted, nav, redemptionRate),
          costOut \in CostOut(costAmount, wanted, shares) :
          /\ received' = received + b.cashIn
          /\ costAmount' = IF shares = wanted THEN 0 ELSE costAmount - costOut
    /\ shares' = shares - wanted
    /\ UNCHANGED <<quote, paid>>

\* A redemption of part of the position, in fractions that do and do not divide it.
Parts == {1, shares \div 3, shares \div 2, shares - 1, shares}

Next == \/ \E amount \in Amounts : BuyAmount(amount)
        \/ \E n \in Lots : BuyShares(n)
        \/ \E wanted \in Parts : Sell(wanted)

Spec == Init /\ [][Next]_vars

(***************************************************************************)
(* Properties                                                              *)
(***************************************************************************)

\* While the value stands still, buying and redeeming everything again, in
\* whatever lots, pays at most the half cent each order's rounding may give.
RoundTripNeverPays == shares = 0 => 2 * (received - paid) <= orders
=============================================================================
