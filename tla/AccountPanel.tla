---------------------------- MODULE AccountPanel ----------------------------
(***************************************************************************)
(* The account panel: get_account of domains/portfolio/service.py while    *)
(* the trades of Portfolio run.  It takes no lock and reads the account,   *)
(* the positions and the realized profit in three transactions; every      *)
(* trade answers with such a panel too.                                    *)
(***************************************************************************)
EXTENDS Portfolio

VARIABLE panel

panelVars == <<vars, panel>>

EmptyPanel == [at |-> "account", cash |-> 0, totalDeposit |-> 0, marketValue |-> 0,
               positionCost |-> 0, positionPnl |-> 0, complete |-> TRUE,
               realized |-> 0, disturbed |-> FALSE]

PanelInit == Init /\ panel = EmptyPanel

\* ensure_account returns the row.
ReadAccount ==
    /\ panel.at = "account"
    /\ panel' = [panel EXCEPT !.at = "positions", !.cash = cash,
                              !.totalDeposit = totalDeposit]
    /\ UNCHANGED vars

\* Worth of a position: market value rounded to cents, 0 when it has no NAV.
Worth(p, nav) == IF nav[p] = NoNav THEN {0} ELSE Gross(shares[p], nav[p])

PnlWithCost(p, nav, value) == value[p]                       \* mutant

PositionPnl(p, nav, value) == IF nav[p] = NoNav THEN 0 ELSE value[p] - cost[p]

\* list_positions reads the rows, then a NAV for each of them.
ReadPositions ==
    /\ panel.at = "positions"
    /\ \E nav \in [Products -> Navs \cup {NoNav}] :
       \E value \in [Products -> UNION {Worth(p, nav) : p \in Products}] :
          /\ \A p \in Products : value[p] \in Worth(p, nav)
          /\ panel' = [panel EXCEPT
                !.at = "realized",
                !.marketValue = SumOver(value),
                !.positionCost = SumOver(cost),
                !.positionPnl = SumOver([p \in Products |-> PositionPnl(p, nav, value)]),
                !.complete = \A p \in Products : shares[p] > 0 => nav[p] # NoNav]
    /\ UNCHANGED vars

\* realized_pnl_total sums the sell orders; the panel is complete.
ReadRealized ==
    /\ panel.at = "realized"
    /\ panel' = [panel EXCEPT !.at = "shown", !.realized = Realized]
    /\ UNCHANGED vars

\* A trade goes on; if it commits between the reads the panel is disturbed.
Trade == /\ Next
         /\ panel' = [panel EXCEPT !.disturbed =
                         @ \/ (panel.at \in {"positions", "realized"} /\ rows' # rows)]

PanelNext == ReadAccount \/ ReadPositions \/ ReadRealized \/ Trade

PanelSpec == PanelInit /\ [][PanelNext]_panelVars

TotalPnl == panel.cash + panel.marketValue - panel.totalDeposit

\* Shown without a trade in between, the panel adds up: its total profit is the
\* realized profit plus the profit of the positions (service.py:371-372).
UndisturbedPanelAddsUp ==
    panel.at = "shown" /\ ~panel.disturbed /\ panel.complete
        => TotalPnl = panel.realized + panel.positionPnl
=============================================================================
