---------------------------- MODULE PortfolioLedger ----------------------------
(***************************************************************************)
(* The arithmetic of one fill: what a BUY or a SELL of q shares at price   *)
(* px does to the holding row of its product type, to available_capital    *)
(* and to total_pnl (services/trading_engine.py,                           *)
(* _update_portfolio_on_fill_unlocked), and the normalisation of           *)
(* available_capital that ends every fill (_recalculate_portfolio).        *)
(*                                                                         *)
(* Money is counted in the smallest unit of the Numeric(_, 2) columns; a   *)
(* quotient is rounded to it when it is stored.  A holding row is deleted  *)
(* when its quantity reaches zero, so NoHolding stands for "no row".       *)
(***************************************************************************)
EXTENDS Integers

ProductTypes == {"CNC", "MIS", "NRML"}
Sides == {"BUY", "SELL"}

\* A quotient as a Numeric(_, 2) column keeps it: rounded to the nearest unit.
RoundDiv(a, b) == (2 * a + b) \div (2 * b)

\* Intraday (MIS) positions are leveraged five times, the others are not.
Margin(p, v) == IF p = "MIS" THEN RoundDiv(v, 5) ELSE v

NoHolding == [qty |-> 0, avg |-> 0, inv |-> 0, cur |-> 0]

\* A holding of q shares (negative: short) entered at avg and marked at px.
Position(q, avg, px) == [qty |-> q, avg |-> avg, inv |-> avg * q, cur |-> px * q]

IsReducing(side, held) == \/ held > 0 /\ side = "SELL"
                          \/ held < 0 /\ side = "BUY"

\* BUY: buy back a short first, what is left over (or everything, without a
\* short) opens or averages a long.  The long side is always paid in full,
\* MIS included.
BuyFill(p, h, q, px) ==
    IF h.qty < 0
    THEN LET close == IF q < -h.qty THEN q ELSE -h.qty
             gain  == (h.avg - px) * close
             left  == q - close
         IN [hold  |-> IF close < -h.qty THEN Position(h.qty + close, h.avg, px)
                       ELSE IF left > 0 THEN Position(left, px, px)
                       ELSE NoHolding,
             avail |-> Margin(p, h.avg * close) + gain - px * left,
             pnl   |-> gain,
             gone  |-> close = -h.qty]
    ELSE LET cost  == h.avg * h.qty + px * q
             total == h.qty + q
         IN [hold  |-> [qty |-> total, avg |-> RoundDiv(cost, total),
                        inv |-> cost, cur |-> px * total],
             avail |-> -(px * q),
             pnl   |-> 0,
             gone  |-> FALSE]

\* SELL out of a long that is large enough; "gone" is the row deletion that
\* cancels the symbol's exit orders.
SellFromLong(h, q, px) ==
    [hold  |-> IF h.qty = q THEN NoHolding ELSE Position(h.qty - q, h.avg, px),
     avail |-> px * q,
     pnl   |-> (px - h.avg) * q,
     gone  |-> h.qty = q]

\* SELL on top of a short: the average is kept, the difference to it is booked.
SellIntoShort(p, h, q, px) ==
    [hold  |-> Position(h.qty - q, h.avg, px),
     avail |-> -Margin(p, px * q),
     pnl   |-> (h.avg - px) * q,
     gone  |-> FALSE]

\* Mutants of SellShort: the long is not netted, its profit is not booked, no
\* margin is blocked.
SellShortForgetsLong(p, h, q, px) ==
    [hold  |-> Position(-q, px, px),
     avail |-> px * h.qty - Margin(p, px * (q - h.qty)),
     pnl   |-> (px - h.avg) * h.qty,
     gone  |-> FALSE]
SellShortForgetsProfit(p, h, q, px) ==
    [hold  |-> Position(h.qty - q, px, px),
     avail |-> px * h.qty - Margin(p, px * (q - h.qty)),
     pnl   |-> 0,
     gone  |-> FALSE]
SellShortWithoutMargin(p, h, q, px) ==
    [hold  |-> Position(h.qty - q, px, px),
     avail |-> px * h.qty,
     pnl   |-> (px - h.avg) * h.qty,
     gone  |-> FALSE]

\* SELL of more than the long, or of a symbol not held: the long (if any) is
\* deleted without touching the exit orders, the rest becomes a short.
SellShort(p, h, q, px) ==
    [hold  |-> Position(h.qty - q, px, px),
     avail |-> px * h.qty - Margin(p, px * (q - h.qty)),
     pnl   |-> (px - h.avg) * h.qty,
     gone  |-> FALSE]

SellFill(p, h, q, px) ==
    IF h.qty >= q THEN SellFromLong(h, q, px)
    ELSE IF h.qty < 0 THEN SellIntoShort(p, h, q, px)
    ELSE SellShort(p, h, q, px)

ApplyFill(side, p, h, q, px) ==
    IF side = "BUY" THEN BuyFill(p, h, q, px) ELSE SellFill(p, h, q, px)

TotalInvested(hold) == hold["CNC"].inv + hold["MIS"].inv + hold["NRML"].inv
CurrentValue(hold)  == hold["CNC"].cur + hold["MIS"].cur + hold["NRML"].cur
Flat(hold) == \A p \in ProductTypes : hold[p].qty = 0

NetEquity(base, pnl, hold) ==
    base + pnl + (CurrentValue(hold) - TotalInvested(hold))

\* Without holdings cash is net equity; otherwise net equity is its ceiling.
NormalizeAvailable(avail, equity, flat) ==
    IF flat \/ avail > equity THEN equity ELSE avail
================================================================================
