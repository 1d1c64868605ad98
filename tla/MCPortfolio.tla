---------------------------- MODULE MCPortfolio ----------------------------
(***************************************************************************)
(* Instances of AccountPanel: which requests a customer sends.  Money is   *)
(* small, one unit of NAV buys one share unit, and the fee rates are in    *)
(* percent.  A behaviour shows one of two scenes: the requests of the      *)
(* other one are never sent.                                               *)
(***************************************************************************)
EXTENDS AccountPanel, TLC

CONSTANTS p1, p2, k1, k2, c1, c2, c3, c4, c5, c6, c7, c8, c9

VARIABLE scene

Request(kind, p, by, n, key) ==
    [kind |-> kind, product |-> p, by |-> by, n |-> n, key |-> key]

\* A liquidation runs while the customer buys one product, and buys another or
\* sells some under one key.  Whether the money pays both buys depends on how the
\* second one is rounded.
Trades == c1 :> Request("deposit", p1, "amount", 34, k1)
       @@ c2 :> Request("buy", p1, "amount", 20, k1)
       @@ c3 :> Request("buy", p2, "shares", 9, k2)
       @@ c4 :> Request("sell", p1, "shares", 3, k2)
       @@ c5 :> Request("liquidate", p1, "all", 0, k1)

\* A buy races its own retry while an account panel is read; a second deposit
\* is above the limit.
BuyRetried == c7 :> Request("deposit", p1, "amount", 30, k1)
           @@ c8 :> Request("buy", p1, "shares", 9, k2)
           @@ c9 :> Request("buy", p1, "shares", 9, k2)
           @@ c6 :> Request("deposit", p1, "amount", 90, k2)

MCOp == Trades @@ BuyRetried

Sent == IF scene = "trades" THEN DOMAIN Trades ELSE DOMAIN BuyRetried

MCInit == PanelInit /\ scene \in {"trades", "panel"}

OnlySent == \A c \in Calls \ Sent : at'[c] = "idle"

TradeStep == scene = "trades" /\ Next /\ OnlySent /\ UNCHANGED <<panel, scene>>
PanelStep == scene = "panel" /\ PanelNext /\ OnlySent /\ UNCHANGED scene

MCSpec == MCInit /\ [][TradeStep \/ PanelStep]_<<panelVars, scene>>
=============================================================================
