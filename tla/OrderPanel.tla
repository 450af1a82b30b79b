------------------------------ MODULE OrderPanel ------------------------------
(* The order form of the trading terminal: the floating panel and the quick    *)
(* order dialog are two mounts of it, each with a form and a submission flag    *)
(* of its own, so that one mount is modelled, for the symbol it shows. A       *)
(* submitted order is kept with the quantity the page knew to be held then.    *)
EXTENDS Integers

CONSTANTS
    MaxQty,         \* largest quantity
    MaxOrders       \* orders of one mount under way at the same time

VARIABLE ui

Sides == {"BUY", "SELL"}
\* EXIT stands for STOP_LOSS and TAKE_PROFIT, LIMIT also for BRACKET.
Types == {"MARKET", "LIMIT", "EXIT"}
Modes == {"DELIVERY", "INTRADAY"}
Forms == [side : Sides, type : Types, mode : Modes, qty : 0..MaxQty]
Fresh == [side |-> "BUY", type |-> "MARKET", mode |-> "INTRADAY", qty |-> 1]
NoOrder == [side |-> "none", type |-> "MARKET", mode |-> "INTRADAY", qty |-> 0, held |-> 0]

TypeOK ==
    ui \in [mounted : BOOLEAN, held : -MaxQty..MaxQty, open : BOOLEAN, form : Forms,
            confirm : BOOLEAN, submitting : BOOLEAN, calls : 0..MaxOrders,
            last : {NoOrder} \cup [side : Sides, type : Types, mode : Modes,
                                   qty : 1..MaxQty, held : -MaxQty..MaxQty]]

--------------------------------------------------------------------------------
holdingQty(u) == IF u.held > 0 THEN u.held ELSE 0

\* The side that closes the position, if there is one.
exitOrderSide(u) ==
    CASE u.held > 0 -> "SELL" [] u.held < 0 -> "BUY" [] OTHER -> "none"

sellBlocked(u) ==
    u.form.side = "SELL" /\ u.form.mode = "DELIVERY" /\ holdingQty(u) = 0

qtyExceedsHoldings(u) ==
    /\ u.form.side = "SELL" /\ u.form.mode = "DELIVERY" /\ holdingQty(u) > 0
    /\ u.form.qty > holdingQty(u)

\* The effect that follows every render: an exit order has the side that closes
\* the position.
WithExitSide(u) ==
    IF u.form.type = "EXIT" /\ exitOrderSide(u) # "none"
    THEN [u EXCEPT !.form.side = exitOrderSide(u)] ELSE u

\* The quantity field accepts a number below one and is corrected on leaving it.
validateOrderForm(f) == f.qty >= 1

\* A delivery sale is checked once more against the store when it is submitted.
deliverySellAllowed(u) ==
    u.form.side = "SELL" /\ u.form.mode = "DELIVERY" => u.held > 0 /\ u.form.qty <= u.held

--------------------------------------------------------------------------------
Init ==
    \E h \in -MaxQty..MaxQty :
        ui = [mounted |-> FALSE, held |-> h, open |-> TRUE, form |-> Fresh, confirm |-> FALSE,
              submitting |-> FALSE, calls |-> 0, last |-> NoOrder]

\* Opened by the toolbar, a watchlist row, a position or the address bar, with
\* or without a side: a new form in intraday mode.
openOrderPanel(side) ==
    /\ ~ui.mounted
    /\ ui' = [ui EXCEPT !.mounted = TRUE, !.form = [Fresh EXCEPT !.side = side],
                        !.confirm = FALSE, !.submitting = FALSE, !.calls = 0, !.last = NoOrder]

\* Closed also while an order is under way, which goes on unseen.
closeOrderPanel == ui.mounted /\ ui' = [ui EXCEPT !.mounted = FALSE]

\* Buy and sell of a row or of the mobile bar, while the panel is open.
openWithSide(side) ==
    /\ ui.mounted
    /\ ui' = WithExitSide([ui EXCEPT !.form.side = side, !.form.mode = "INTRADAY"])

\* The buttons are disabled for an exit order; the keys b and s are not.
setSide(side) ==
    ui.mounted /\ ui' = WithExitSide([ui EXCEPT !.form.side = side])

setQuantity(q) ==
    ui.mounted /\ ~ui.confirm /\ ui' = [ui EXCEPT !.form.qty = q]

handleTradingTypeChange(mode) ==
    /\ ui.mounted /\ ~ui.confirm
    /\ LET f == [ui.form EXCEPT !.mode = mode]
           capped == /\ ui.form.side = "SELL" /\ mode = "DELIVERY" /\ holdingQty(ui) > 0
                     /\ f.qty > holdingQty(ui)
       IN  ui' = [ui EXCEPT !.form = IF capped THEN [f EXCEPT !.qty = holdingQty(ui)] ELSE f]

handleOrderTypeChange(type) ==
    /\ ui.mounted /\ ~ui.confirm
    /\ ui' = WithExitSide([ui EXCEPT !.form.type = type])

\* The place button opens the confirmation.
requestConfirm ==
    /\ ui.mounted /\ ~ui.confirm
    /\ ~ui.submitting /\ ui.open /\ ~sellBlocked(ui) /\ ~qtyExceedsHoldings(ui)
    /\ ui' = [ui EXCEPT !.confirm = TRUE]

cancelConfirm == ui.mounted /\ ui.confirm /\ ui' = [ui EXCEPT !.confirm = FALSE]

\* Early returns: one is under way, the form is not valid, a delivery sale of
\* more than is held.
submitOrder(u) ==
    IF u.submitting \/ ~validateOrderForm(u.form) \/ ~deliverySellAllowed(u) THEN u
    ELSE [u EXCEPT !.submitting = TRUE, !.calls = @ + 1,
                   !.last = [side |-> u.form.side, type |-> u.form.type, mode |-> u.form.mode,
                             qty |-> u.form.qty, held |-> u.held]]

\* Disabled while the holdings no longer allow the sale.
handleConfirm ==
    /\ ui.mounted /\ ui.confirm /\ ~sellBlocked(ui) /\ ~qtyExceedsHoldings(ui)
    /\ ui' = submitOrder([ui EXCEPT !.confirm = FALSE])

OrderAnswers ==
    /\ ui.calls > 0
    /\ ui' = [ui EXCEPT !.calls = @ - 1, !.submitting = FALSE]

\* The portfolio is fetched again, another symbol is selected, or an order fills.
holdingsChange(h) == ui.held # h /\ ui' = WithExitSide([ui EXCEPT !.held = h])

checkSession == ui' = [ui EXCEPT !.open = ~@]

Next ==
    \/ \E s \in Sides : openOrderPanel(s) \/ openWithSide(s) \/ setSide(s)
    \/ \E q \in 0..MaxQty : setQuantity(q)
    \/ \E m \in Modes : handleTradingTypeChange(m)
    \/ \E t \in Types : handleOrderTypeChange(t)
    \/ \E h \in -MaxQty..MaxQty : holdingsChange(h)
    \/ closeOrderPanel \/ requestConfirm \/ cancelConfirm \/ handleConfirm
    \/ OrderAnswers \/ checkSession

--------------------------------------------------------------------------------
\* The place button is not disabled for ever by an order that has ended.
NothingLocked == ui.submitting => ui.calls > 0

\* One mount has one order under way.
OneSubmission == ui.calls <= 1

\* What is sent agrees with what the page knew: a delivery sale is covered by the
\* holding, and an exit order of a held position closes it.
ShownIsTrue ==
    /\ ui.last.side = "SELL" /\ ui.last.mode = "DELIVERY" => ui.last.qty <= ui.last.held
    /\ ui.last.side # "none" /\ ui.last.type = "EXIT"
         => /\ ui.last.held > 0 => ui.last.side = "SELL"
            /\ ui.last.held < 0 => ui.last.side = "BUY"
================================================================================
