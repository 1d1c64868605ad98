-------------------------------- MODULE Fees --------------------------------
(***************************************************************************)
(* Money arithmetic of a simulated trade: domains/portfolio/fees.py.       *)
(*                                                                         *)
(* Money is counted in cents and shares in hundredths (SHARE_PRECISION),   *)
(* a net asset value in 1/NavScale cents per hundredth of a share, and a   *)
(* fee rate in 1/RateScale; an undisclosed rate is charged as 0.  The code *)
(* computes in binary floating point and rounds the result to cents: an    *)
(* amount that lies exactly half way between two cents may be rounded to   *)
(* either (its representation error decides), any other amount goes to the *)
(* nearest cent.  So every breakdown is a set of outcomes.                 *)
(***************************************************************************)
EXTENDS Integers

CONSTANTS NavScale, RateScale

ASSUME ScalesPositive == /\ NavScale \in Nat \ {0}
                         /\ RateScale \in Nat \ {0}

\* The cents that round_money may return for the exact amount p / q.
RoundMoney(p, q) ==
    {m \in {p \div q, p \div q + 1} : 2 * (m * q - p) \in -q .. q}

\* round_shares rounds down; its epsilon only absorbs representation error.
RoundShares(p, q) == p \div q

\* Market value of n hundredths of a share.
Gross(n, nav) == RoundMoney(n * nav, NavScale)

\* Fee charged on an amount of g cents.
FeeOn(g, rate) == RoundMoney(g * rate, RateScale)

(***************************************************************************)
(* Subscription by amount: the fee is the amount minus amount / (1 + rate),*)
(* the shares are what the rest buys, rounded down, and the cash taken is  *)
(* the value of those shares plus the fee.                                 *)
(***************************************************************************)
SharesFor(amount, nav, rate) ==
    RoundShares(amount * RateScale * NavScale, (RateScale + rate) * nav)

SubscriptionByAmount(amount, nav, rate) ==
    LET n == SharesFor(amount, nav, rate) IN
    {[shares |-> n, fee |-> f, invested |-> g, cashOut |-> g + f] :
        f \in RoundMoney(amount * rate, RateScale + rate), g \in Gross(n, nav)}

SubscriptionByShares(n, nav, rate) ==
    UNION {{[shares |-> n, fee |-> f, invested |-> g, cashOut |-> g + f] :
              f \in FeeOn(g, rate)} : g \in Gross(n, nav)}

RedemptionAddsFee(n, nav, rate) ==                          \* mutant
    UNION {{[shares |-> n, fee |-> f, gross |-> g, cashIn |-> g + f] :
              f \in FeeOn(g, rate)} : g \in Gross(n, nav)}

Redemption(n, nav, rate) ==
    UNION {{[shares |-> n, fee |-> f, gross |-> g, cashIn |-> g - f] :
              f \in FeeOn(g, rate)} : g \in Gross(n, nav)}

\* Cost that leaves the position when `wanted` of `held` shares are redeemed.
CostOutAlwaysProportional(heldCost, wanted, held) ==         \* mutant
    RoundMoney(heldCost * wanted, held + 1)

CostOut(heldCost, wanted, held) ==
    IF wanted >= held THEN {heldCost} ELSE RoundMoney(heldCost * wanted, held)
=============================================================================
