------------------------------ MODULE TradeLots ------------------------------
(* The open lots of a holding: which fills, first in first out, the quantity    *)
(* held consists of. The server works them out from all fills; while its answer *)
(* is missing the page does from the newest fills it has fetched, and from the  *)
(* quantity held. Holdings of different symbols or products share nothing but   *)
(* the length of the list: one holding, and a list of any length.               *)
EXTENDS Integers, Sequences, FiniteSetsExt, SequencesExt

CONSTANTS MaxFills, MaxQuantity

VARIABLE ui

Quantities == (-MaxQuantity..MaxQuantity) \ {0}     \* SELL is negative
Positions == -(MaxFills * MaxQuantity)..(MaxFills * MaxQuantity)
Lot == [id : 0..MaxFills, qty : Positions]          \* 0 is the synthetic lot
NoLots == "unavailable"
Parts == {"summary", "transactions", "openLots"}
Failed == -1

\* fillsOf: how many fills there were when a part of the store was read; since:
\* when the refresh under way was asked for.
TypeOK ==
    /\ \A s \in {ui.fills, ui.transactions} \cup (IF ui.openLots = NoLots THEN {} ELSE {ui.openLots}) :
           \A i \in DOMAIN s : s[i] \in Lot
    /\ ui.held \in Positions /\ ui.fillsOf \in [Parts -> 0..MaxFills] /\ ui.since \in 0..Len(ui.fills)
    /\ {ui.asked, ui.loaded, ui.isLoading} \subseteq BOOLEAN

-------------------------------------------------------------------------------
Abs(n) == IF n < 0 THEN -n ELSE n
Sign(n) == IF n < 0 THEN -1 ELSE 1
Least(m, n) == IF m < n THEN m ELSE n
Net(s) ==
    LET sum[i \in 0..Len(s)] == IF i = 0 THEN 0 ELSE sum[i - 1] + s[i].qty IN sum[Len(s)]

\* A fill closes lots of the other side, the oldest first; what is left of it
\* opens a lot.
Matched(lots, tx) ==
    LET opposite == {i \in DOMAIN lots : lots[i].qty * tx.qty < 0}
        closed[i \in 0..Len(lots)] ==       \* by the first i lots
            IF i = 0 THEN 0
            ELSE closed[i - 1] + IF i \in opposite THEN Least(Abs(lots[i].qty), Abs(tx.qty) - closed[i - 1]) ELSE 0
        remaining == Abs(tx.qty) - closed[Len(lots)]
        rest == [i \in DOMAIN lots |->
                    [lots[i] EXCEPT !.qty = @ + Sign(tx.qty) * (closed[i] - closed[i - 1])]]
    IN  IF remaining > 0 THEN Append(rest, [tx EXCEPT !.qty = Sign(tx.qty) * remaining]) ELSE rest

Lots(fills) == SelectSeq(FoldLeft(Matched, <<>>, fills), LAMBDA lot : lot.qty # 0)
Synthetic(qty) == IF qty = 0 THEN <<>> ELSE <<[id |-> 0, qty |-> qty]>>

\* The newest fills that explain the quantity held, or all of them.
suffix(txs, held) ==
    LET explains(i) == Net(SubSeq(txs, i, Len(txs))) = held
    IN  SubSeq(txs, Max({1} \cup {i \in DOMAIN txs : explains(i)}), Len(txs))

computeOpenLots(txs, held) ==
    LET rebuilt == Lots(suffix(txs, held))
    IN  IF held = 0 THEN <<>> ELSE rebuilt \o Synthetic(held - Net(rebuilt))

\* The server: the newest lots of the side held, as far as they are needed.
reconcile(lots, target) ==
    LET same == Reverse(SelectSeq(lots, LAMBDA lot : lot.qty * target > 0))
        taken[i \in 0..Len(same)] == IF i = 0 THEN 0 ELSE Least(Abs(target), taken[i - 1] + Abs(same[i].qty))
        kept == [i \in DOMAIN same |-> [same[i] EXCEPT !.qty = Sign(target) * (taken[i] - taken[i - 1])]]
    IN  SelectSeq(kept, LAMBDA lot : lot.qty # 0) \o Synthetic(target - Net(kept))

get_open_lots(fills) == IF Net(fills) = 0 THEN <<>> ELSE reconcile(Lots(fills), Net(fills))

\* What the list of orders shows as realized: of every filled order that closed
\* something, what it made of the oldest lots of the other side. The orders of a
\* symbol share a book, whatever their product.
derivedOrderPnlById(orders) ==
    LET book(i) == FoldLeft(Matched, <<>>, SubSeq(orders, 1, i))
        closed(i, k) == book(i - 1)[k].qty - book(i)[k].qty
        closes(i) == \E k \in DOMAIN book(i - 1) : closed(i, k) # 0
        realized(i) == MapThenSumSet(LAMBDA k : closed(i, k) * (orders[i].price - book(i - 1)[k].price),
                                     DOMAIN book(i - 1))
    IN  [i \in {j \in DOMAIN orders : closes(j)} |-> realized(i)]
derivedRealizedPnl(orders) ==
    LET pnl == derivedOrderPnlById(orders) IN MapThenSumSet(LAMBDA i : pnl[i], DOMAIN pnl)

effectiveOpenLots == IF ui.openLots = NoLots THEN computeOpenLots(ui.transactions, ui.held) ELSE ui.openLots

-------------------------------------------------------------------------------
Init ==
    ui = [fills |-> <<>>, asked |-> FALSE, since |-> 0, loaded |-> FALSE, isLoading |-> FALSE, held |-> 0,
          transactions |-> <<>>, openLots |-> NoLots, fillsOf |-> [p \in Parts |-> 0]]

\* Here: at most one while a refresh is under way.
Fill(qty) ==
    /\ Len(ui.fills) < MaxFills /\ (ui.asked => ui.since = Len(ui.fills))
    /\ ui' = [ui EXCEPT !.fills = Append(@, [id |-> Len(@) + 1, qty |-> qty])]

\* Four calls at once, of which three matter here. One refresh at a time: it sets
\* all it has read in one step.
refreshPortfolio ==
    /\ ~ui.asked
    /\ ui' = [ui EXCEPT !.asked = TRUE, !.since = Len(ui.fills), !.isLoading = ~ui.loaded]

\* All calls are answered, each read at a moment of its own, or failed: what
\* failed stays as it was, but the lots of the server are dropped. Fills of other
\* holdings may have pushed the oldest ones off the list.
Settled ==
    LET reads == {Failed} \cup ui.since..Len(ui.fills)
        seen(n) == SubSeq(ui.fills, 1, n)
    IN  /\ ui.asked
        /\ \E l \in reads :
             LET lots == IF l = Failed THEN NoLots ELSE get_open_lots(seen(l)) IN
             \E s, t \in reads : \E from \in 1..Max({1, t + 1}) :
               ui' = [ui EXCEPT !.asked = FALSE, !.since = 0, !.isLoading = FALSE, !.loaded = @ \/ s # Failed,
                        !.held = IF s = Failed THEN @ ELSE Net(seen(s)),
                        !.transactions = IF t = Failed THEN @ ELSE SubSeq(ui.fills, from, t),
                        !.openLots = lots,
                        !.fillsOf = [summary |-> IF s = Failed THEN @.summary ELSE s,
                                     transactions |-> IF t = Failed THEN @.transactions ELSE t,
                                     openLots |-> IF l = Failed THEN 0 ELSE l]]

Next ==
    \/ \E qty \in Quantities : Fill(qty)
    \/ refreshPortfolio
    \/ Settled

-------------------------------------------------------------------------------
\* The spinner of the first load ends with it.
NothingLocked == ui.isLoading => ui.asked

\* First in, first out, said without matching: what is held are the newest units
\* of its side.
Newest(fills) ==
    LET held == Net(fills)
        after(i) == MapThenSumSet(LAMBDA j : IF fills[j].qty * held > 0 THEN Abs(fills[j].qty) ELSE 0,
                                  (i + 1)..Len(fills))
        open(i) == IF fills[i].qty * held > 0 THEN Least(Abs(fills[i].qty), Max({0, Abs(held) - after(i)})) ELSE 0
    IN  {[id |-> i, qty |-> Sign(held) * open(i)] : i \in {i \in DOMAIN fills : open(i) > 0}}

\* Profit and loss of the orders, said without matching: it is the money that came
\* in, with what is still open at the price paid for it; and an order has some
\* exactly if it goes against the position before it.
Value(s) == MapThenSumSet(LAMBDA i : s[i].qty * s[i].price, DOMAIN s)
PnlAddsUp ==
    \A n \in 1..MaxFills : \A orders \in [1..n -> [qty : Quantities, price : 1..MaxQuantity]] :
        /\ derivedRealizedPnl(orders) = Value(Lots(orders)) - Value(orders)
        /\ DOMAIN derivedOrderPnlById(orders) =
               {i \in 1..n : Net(SubSeq(orders, 1, i - 1)) * orders[i].qty < 0}

\* The lots on screen add up to the quantity they were worked out for. The lots
\* of the server are the newest units held, and so are those the page works out,
\* whenever it read holdings and fills after the same fill and its list explains
\* the holding: it then starts at a fill before which nothing was held. The
\* profit and loss of orders, which is the same in every state, adds up too.
ShownIsTrue ==
    LET page == computeOpenLots(ui.transactions, ui.held)
        seen(p) == SubSeq(ui.fills, 1, ui.fillsOf[p])
    IN  /\ Net(page) = ui.held
        /\ ui.fills = <<>> /\ ~ui.asked => PnlAddsUp
        /\ ui.openLots # NoLots => ToSet(effectiveOpenLots) = Newest(seen("openLots"))
        /\ ui.fillsOf["summary"] = ui.fillsOf["transactions"] /\ Net(suffix(ui.transactions, ui.held)) = ui.held =>
               ToSet(page) = Newest(seen("summary"))
===============================================================================
