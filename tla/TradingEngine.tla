----------------------------- MODULE TradingEngine -----------------------------
(***************************************************************************)
(* Orders, holdings and capital of one user and one symbol, as changed by  *)
(* every handler that reaches services/trading_engine.py: order placement, *)
(* the tick evaluation and the expiry sweep of workers/order_worker.py,    *)
(* the "safety net" evaluation of GET /orders, cancel, modify, the kill    *)
(* switch, and the portfolio summary.                                      *)
(*                                                                         *)
(* A handler runs here without another one in between; what happens to the *)
(* status of an order, to the holding and to capital when they overlap is  *)
(* the subject of module FillLocks.  Handlers that loop over orders work   *)
(* on the copy sess.st of the database and take one step per order, in any *)
(* order: the queries have no ORDER BY.  All commit at their end; the kill *)
(* switch does so after each cancellation too.                             *)
(***************************************************************************)
EXTENDS PortfolioLedger, FiniteSets

CONSTANTS
    BaseCapital,      \* users.virtual_capital
    Prices,           \* quotes of the symbol
    Requests,         \* order requests users send
    Edits,            \* bodies of PATCH /orders/{id}
    MaxOrders,        \* bound: rows of the orders table
    MaxPositionSize,  \* RiskLimits.max_position_size
    MaxTradeValue,    \* RiskLimits.max_capital_per_trade
    MaxOpenOrders,    \* RiskLimits.max_open_orders
    Handlers          \* handlers that run besides place_order and the ticks

OrderTypes == {"MARKET", "LIMIT", "BRACKET", "STOP_LOSS", "STOP_LOSS_LIMIT",
               "TAKE_PROFIT"}
ExitTypes  == {"STOP_LOSS", "STOP_LOSS_LIMIT", "TAKE_PROFIT"}
EntryTypes == {"LIMIT", "BRACKET"}
Statuses   == {"NONE", "OPEN", "FILLED", "CANCELLED", "EXPIRED"}
HandlerNames == {"poll", "expire", "kill", "cancel", "modify", "summary"}
OrderIds   == 1 .. MaxOrders

\* A request or an order without a price of some kind has 0 (None) there.
Request == [side : Sides, type : OrderTypes, product : ProductTypes,
            qty : Nat \ {0}, price : Nat, trig : Nat, tp : Nat, client : Nat]
Edit == [qty : Nat, price : Nat, trig : Nat, tp : Nat]

ASSUME ConstantsAssumption ==
    /\ BaseCapital \in Nat
    /\ Prices \subseteq Nat \ {0} /\ Prices # {}
    /\ Requests \subseteq Request
    /\ Edits \subseteq Edit
    /\ MaxOrders \in Nat
    /\ MaxPositionSize \in Nat /\ MaxTradeValue \in Nat /\ MaxOpenOrders \in Nat \ {0}
    /\ Handlers \subseteq HandlerNames

\* filled: filled_quantity; parent: the bracket a leg belongs to (its tag);
\* by, edited: which handler filled it and whether PATCH changed it.
Order == [side : Sides, type : OrderTypes, product : ProductTypes, qty : Nat,
          price : Nat, trig : Nat, tp : Nat, status : Statuses, filled : Nat,
          parent : Nat, by : {"", "place", "tick", "poll"}, edited : BOOLEAN]
NoOrder == [side |-> "BUY", type |-> "MARKET", product |-> "CNC", qty |-> 0,
            price |-> 0, trig |-> 0, tp |-> 0, status |-> "NONE", filled |-> 0,
            parent |-> 0, by |-> "", edited |-> FALSE]

Holding == [qty : Int, avg : Int, inv : Int, cur : Int]

\* The database: orders, holdings and portfolio rows.  net and cash are the
\* sums over the transactions table; scaledIn, polled and dust are history:
\* some SELL was added to a short, the product types GET /orders has filled, and
\* the half units that storing rounded averages and margins may have moved.
State == [orders : [OrderIds -> Order], n : Nat,
          hold : [ProductTypes -> Holding], avail : Int, pnl : Int,
          net : [ProductTypes -> Int], cash : Int,
          scaledIn : BOOLEAN, polled : SUBSET ProductTypes, dust : Nat]

InitState ==
    [orders |-> [o \in OrderIds |-> NoOrder], n |-> 0,
     hold |-> [p \in ProductTypes |-> NoHolding], avail |-> BaseCapital,
     pnl |-> 0, net |-> [p \in ProductTypes |-> 0], cash |-> 0,
     scaledIn |-> FALSE, polled |-> {}, dust |-> 0]

VARIABLES db,     \* the committed state
          sess,   \* the handler that is looping over orders, if any
          price   \* the latest quote

vars == <<db, sess, price>>

Session == [kind : {"none", "tick", "poll", "expire", "kill", "close"}, st : State,
            todo : SUBSET OrderIds, close : SUBSET ProductTypes,
            px : Nat, filled : BOOLEAN]
Idle == [kind |-> "none", st |-> InitState, todo |-> {}, close |-> {},
         px |-> 0, filled |-> FALSE]

OpenOrders(s) == {o \in OrderIds : s.orders[o].status = "OPEN"}

--------------------------------------------------------------------------------
(* Filling an order *)

\* Open SL/TP orders of the symbol, of whatever product type, are cancelled.
CancelOrphanedExits(orders) ==
    [o \in OrderIds |->
        IF orders[o].status = "OPEN" /\ orders[o].type \in ExitTypes
        THEN [orders[o] EXCEPT !.status = "CANCELLED"] ELSE orders[o]]

Recalculate(s) ==
    [s EXCEPT !.avail = NormalizeAvailable(s.avail,
                            NetEquity(BaseCapital, s.pnl, s.hold), Flat(s.hold))]

\* What one fill may lose or gain by rounding, in half units: averaging rounds the
\* price of every share held, buying back a part of a leveraged short splits one
\* rounded margin into two.
FillDust(side, p, h, q) ==
    CASE side = "BUY" /\ h.qty > 0 -> h.qty + q
      [] side = "BUY" /\ h.qty < 0 /\ q < -h.qty /\ p = "MIS" -> 2
      [] OTHER -> 0

\* The holding, the cash, the profit and the transaction of a fill.
BookFill(s, o, px) ==
    LET ord  == s.orders[o]
        p    == ord.product
        fill == ApplyFill(ord.side, p, s.hold[p], ord.qty, px)
        sign == IF ord.side = "BUY" THEN ord.qty ELSE -ord.qty
    IN [orders |-> IF fill.gone THEN CancelOrphanedExits(s.orders) ELSE s.orders,
        n |-> s.n,
        hold |-> [s.hold EXCEPT ![p] = fill.hold],
        avail |-> s.avail + fill.avail,
        pnl |-> s.pnl + fill.pnl,
        net |-> [s.net EXCEPT ![p] = @ + sign],
        cash |-> s.cash - sign * px,
        scaledIn |-> s.scaledIn \/ (ord.side = "SELL" /\ s.hold[p].qty < 0),
        polled |-> s.polled,
        dust |-> s.dust + FillDust(ord.side, p, s.hold[p], ord.qty)]

UpdatePortfolioOnFill(s, o, px) == Recalculate(BookFill(s, o, px))

\* The row becomes FILLED: filled_quantity, filled_price, executed_at.
SetFilled(s, o, by) ==
    [s EXCEPT !.orders[o].status = "FILLED", !.orders[o].filled = s.orders[o].qty,
              !.orders[o].by = by]

\* The legs of bracket o occupy the two rows after it.
SlLeg(o) == o + 1
TpLeg(o) == o + 2

ExitLeg(entry, o, type, px, trig) ==
    [side |-> IF entry.side = "BUY" THEN "SELL" ELSE "BUY", type |-> type,
     product |-> entry.product, qty |-> entry.qty, price |-> px, trig |-> trig,
     tp |-> 0, status |-> "OPEN", filled |-> 0, parent |-> o, by |-> "",
     edited |-> FALSE]

CreateBracketChildren(s, o) ==
    LET entry == s.orders[o]
    IN IF entry.type # "BRACKET" THEN s
       ELSE [s EXCEPT !.orders = [i \in OrderIds |->
                CASE i = SlLeg(o) -> ExitLeg(entry, o, "STOP_LOSS", 0, entry.trig)
                  [] i = TpLeg(o) -> ExitLeg(entry, o, "TAKE_PROFIT", entry.tp, 0)
                  [] OTHER -> s.orders[i]]]

\* What a resting BUY LIMIT/BRACKET order still has reserved.
ReservedAmount(ord) ==
    IF ord.side = "BUY" /\ ord.type \in EntryTypes /\ ord.qty > ord.filled
    THEN Margin(ord.product, ord.price * (ord.qty - ord.filled)) ELSE 0

--------------------------------------------------------------------------------
(* place_order *)

\* A MARKET order trades at the price the client saw, if it sends one.
CurrentPrice(r, px) == IF r.type = "MARKET" /\ r.client # 0 THEN r.client ELSE px

ExecutionPrice(r, px) ==
    CASE r.type = "MARKET" -> CurrentPrice(r, px)
      [] r.type \in {"STOP_LOSS", "STOP_LOSS_LIMIT"} /\ r.price = 0 -> px
      [] OTHER -> r.price

BracketOrdered(side, entry, sl, tp) ==
    IF side = "BUY" THEN tp > entry /\ entry > sl ELSE sl > entry /\ entry > tp

WellFormed(r) ==
    /\ r.type \in EntryTypes \cup {"TAKE_PROFIT"} => r.price > 0
    /\ r.type \in {"STOP_LOSS", "STOP_LOSS_LIMIT"} => r.trig > 0
    /\ r.type = "BRACKET" => /\ r.trig > 0 /\ r.tp > 0
                             /\ BracketOrdered(r.side, r.price, r.trig, r.tp)

IsExitOrder(r, held) ==
    r.type \in ExitTypes \/ (IsReducing(r.side, held) /\ r.type = "MARKET")

ExitAllowed(r, h, px) ==
    /\ IF r.side = "SELL" THEN h.qty > 0 /\ r.qty <= h.qty
                          ELSE h.qty < 0 /\ r.qty <= -h.qty
    /\ r.type \in {"STOP_LOSS", "STOP_LOSS_LIMIT"} =>
           IF r.side = "SELL" THEN r.trig < px ELSE r.trig > px
    /\ r.type = "TAKE_PROFIT" =>
           IF r.side = "SELL" THEN r.price > h.avg ELSE r.price < h.avg

\* risk_engine.validate_order; 95 percent is RiskLimits.max_portfolio_exposure.
RiskPassed(s, r, exec) ==
    LET held  == s.hold[r.product].qty
        inv   == TotalInvested(s.hold)
        total == s.avail + inv
    IN /\ r.qty <= MaxPositionSize
       /\ r.side = "BUY" => exec * r.qty <= MaxTradeValue
       /\ (r.side = "BUY" /\ ~IsReducing(r.side, held) /\ total > 0) =>
              100 * (inv + exec * r.qty) <= 95 * total
       /\ Cardinality(OpenOrders(s)) < MaxOpenOrders

CapitalSuffices(s, r, exec) ==
    LET held == s.hold[r.product].qty
        need == Margin(r.product, exec * r.qty)
    IN /\ (r.side = "BUY" /\ ~IsReducing(r.side, held)) => need <= s.avail
       /\ (r.side = "SELL" /\ r.product = "CNC") => held >= r.qty
       /\ (r.side = "SELL" /\ r.product # "CNC") => held >= r.qty \/ need <= s.avail

\* Every early return of place_order is a conjunct that fails.
CanPlace(s, r, px) ==
    LET h    == s.hold[r.product]
        exec == ExecutionPrice(r, px)
    IN /\ WellFormed(r)
       /\ IsExitOrder(r, h.qty) => ExitAllowed(r, h, CurrentPrice(r, px))
       /\ RiskPassed(s, r, exec)
       /\ ~IsExitOrder(r, h.qty) => CapitalSuffices(s, r, exec)

\* MARKET fills now, LIMIT, BRACKET and TAKE_PROFIT if the quote has crossed.
FillsAtOnce(r, px) ==
    \/ r.type = "MARKET"
    \/ /\ r.type \in EntryTypes \cup {"TAKE_PROFIT"}
       /\ IF r.side = "BUY" THEN px <= r.price ELSE px >= r.price

NewOrder(r) ==
    [side |-> r.side, type |-> r.type, product |-> r.product, qty |-> r.qty,
     price |-> r.price, trig |-> r.trig, tp |-> r.tp, status |-> "OPEN",
     filled |-> 0, parent |-> 0, by |-> "", edited |-> FALSE]

RowsFor(r) == IF r.type = "BRACKET" THEN 3 ELSE 1

Placed(s, r, px) ==
    LET o     == s.n + 1
        added == [s EXCEPT !.orders[o] = NewOrder(r), !.n = s.n + RowsFor(r)]
    IN IF FillsAtOnce(r, px)
       THEN CreateBracketChildren(
               UpdatePortfolioOnFill(SetFilled(added, o, "place"), o,
                                     ExecutionPrice(r, px)), o)
       ELSE [added EXCEPT !.avail = @ - ReservedAmount(NewOrder(r))]

PlaceOrder(r) ==
    /\ sess.kind = "none"
    /\ db.n + RowsFor(r) <= MaxOrders
    /\ CanPlace(db, r, price)
    /\ db' = Placed(db, r, price)
    /\ UNCHANGED <<sess, price>>

--------------------------------------------------------------------------------
(* order_worker: evaluation of the open orders at a tick *)

TriggerPrice(ord) == IF ord.trig # 0 THEN ord.trig ELSE ord.price

ShouldFill(ord, px) ==
    IF ord.type \in EntryTypes \cup {"TAKE_PROFIT"}
    THEN IF ord.side = "BUY" THEN px <= ord.price ELSE px >= ord.price
    ELSE /\ ord.type \in {"STOP_LOSS", "STOP_LOSS_LIMIT"}
         /\ IF ord.side = "BUY" THEN px >= TriggerPrice(ord)
                                ELSE px <= TriggerPrice(ord)

\* A stop-limit order fills at the better of the quote and its limit ... as
\* the worker computes it: never worse than the limit.
FillPrice(ord, px) ==
    CASE ord.type \in EntryTypes \cup {"TAKE_PROFIT"} -> ord.price
      [] ord.type = "STOP_LOSS_LIMIT" /\ ord.price # 0 ->
             IF ord.side = "BUY" THEN IF px <= ord.price THEN px ELSE ord.price
                                 ELSE IF px >= ord.price THEN px ELSE ord.price
      [] OTHER -> px

\* Mutants of HoldingCovers: one of the two checks is missing.
ExitsUnchecked(s, ord) ==
    (ord.side = "SELL" /\ ord.product = "CNC") => s.hold[ord.product].qty >= ord.qty
DeliveryUnchecked(s, ord) ==
    LET held == s.hold[ord.product].qty
    IN ord.type \in ExitTypes =>
           IF ord.side = "SELL" THEN held >= ord.qty ELSE -held >= ord.qty

\* SL/TP only close, and CNC shares are sold only when they are there.
HoldingCovers(s, ord) ==
    LET held == s.hold[ord.product].qty
    IN /\ ord.type \in ExitTypes =>
              IF ord.side = "SELL" THEN held > 0 /\ held >= ord.qty
                                   ELSE held < 0 /\ -held >= ord.qty
       /\ (ord.side = "SELL" /\ ord.product = "CNC") => held >= ord.qty

\* Mutant of SetStatus: a misspelt status.
SetStatusMisspelt(s, o, status) ==
    [s EXCEPT !.orders[o].status = IF status = "CANCELLED" THEN "CANCELED" ELSE status]

SetStatus(s, o, status) == [s EXCEPT !.orders[o].status = status]

\* filled_quantity is already set when the reservation is looked up.
ReleaseOnFill(s, o) == [s EXCEPT !.avail = @ + ReservedAmount(s.orders[o])]

\* Mutant of CancelSibling: both legs stay open.
KeepSibling(s, o) == s

\* OCO: the other leg of the same bracket.
CancelSibling(s, o) ==
    [s EXCEPT !.orders = [i \in OrderIds |->
        IF /\ s.orders[o].parent # 0 /\ i # o
           /\ s.orders[i].parent = s.orders[o].parent
           /\ s.orders[i].status = "OPEN"
        THEN [s.orders[i] EXCEPT !.status = "CANCELLED"] ELSE s.orders[i]]]

WorkerFill(s, o, px) ==
    UpdatePortfolioOnFill(
        CreateBracketChildren(
            CancelSibling(ReleaseOnFill(SetFilled(s, o, "tick"), o), o), o),
        o, FillPrice(s.orders[o], px))

BeginTick ==
    /\ sess.kind = "none"
    /\ OpenOrders(db) # {}
    /\ sess' = [Idle EXCEPT !.kind = "tick", !.st = db, !.px = price,
                            !.todo = OpenOrders(db)]
    /\ UNCHANGED <<db, price>>

EvaluateOrder(o) ==
    LET s   == sess.st
        ord == s.orders[o]
    IN /\ sess.kind = "tick" /\ o \in sess.todo
       /\ sess' = [sess EXCEPT
              !.todo = @ \ {o},
              !.filled = @ \/ (ShouldFill(ord, sess.px) /\ HoldingCovers(s, ord)),
              !.st = IF ~ShouldFill(ord, sess.px) THEN s
                     ELSE IF ~HoldingCovers(s, ord) THEN SetStatus(s, o, "CANCELLED")
                     ELSE WorkerFill(s, o, sess.px)]
       /\ UNCHANGED <<db, price>>

\* The session commits only when something was filled.
EndTick ==
    /\ sess.kind = "tick" /\ sess.todo = {}
    /\ db' = IF sess.filled THEN sess.st ELSE db
    /\ sess' = Idle
    /\ UNCHANGED price

--------------------------------------------------------------------------------
(* GET /orders: check_pending_orders, then commit *)

PollTriggered(ord, px) ==
    IF ord.type \in EntryTypes \cup {"TAKE_PROFIT"}
    THEN IF ord.side = "BUY" THEN px <= ord.price ELSE px >= ord.price
    ELSE /\ ord.trig # 0
         /\ IF ord.side = "BUY" THEN px >= ord.trig ELSE px <= ord.trig

PollFill(s, o, px) ==
    LET t == UpdatePortfolioOnFill(SetFilled(s, o, "poll"), o, px)
    IN [t EXCEPT !.polled = @ \cup {s.orders[o].product}]

BeginPoll ==
    /\ "poll" \in Handlers
    /\ sess.kind = "none"
    /\ OpenOrders(db) # {}
    /\ sess' = [Idle EXCEPT !.kind = "poll", !.st = db, !.todo = OpenOrders(db)]
    /\ UNCHANGED <<db, price>>

PollOrder(o) ==
    LET s == sess.st
    IN /\ sess.kind = "poll" /\ o \in sess.todo
       /\ sess' = [sess EXCEPT !.todo = @ \ {o},
                     !.st = IF PollTriggered(s.orders[o], price)
                            THEN PollFill(s, o, price) ELSE s]
       /\ UNCHANGED <<db, price>>

--------------------------------------------------------------------------------
(* Cancel, expiry, modify, kill switch, summary *)

\* cancel_order releases price * quantity; order_worker's sweep the remainder.
CancelledOrder(s, o) ==
    LET ord == s.orders[o]
    IN [SetStatus(s, o, "CANCELLED") EXCEPT
           !.avail = @ + ReservedAmount([ord EXCEPT !.filled = 0])]

CancelOrder(o) ==
    /\ "cancel" \in Handlers
    /\ sess.kind = "none"
    /\ o \in OpenOrders(db)
    /\ db' = CancelledOrder(db, o)
    /\ UNCHANGED <<sess, price>>

\* The open orders created before some instant have reached ORDER_EXPIRY_DAYS.
\* Rows are created in their order, except that legs come later, with the fill of
\* their bracket.
BeginExpirySweep(S) ==
    /\ "expire" \in Handlers
    /\ sess.kind = "none"
    /\ S # {} /\ S \subseteq OpenOrders(db)
    /\ \A i \in OpenOrders(db), j \in S : (i < j /\ db.orders[i].parent = 0) => i \in S
    /\ sess' = [Idle EXCEPT !.kind = "expire", !.st = db, !.todo = S]
    /\ UNCHANGED <<db, price>>

ExpireOrder(o) ==
    LET s == sess.st
    IN /\ sess.kind = "expire" /\ o \in sess.todo
       /\ sess' = [sess EXCEPT !.todo = @ \ {o},
                     !.st = [SetStatus(s, o, "EXPIRED") EXCEPT
                                !.avail = @ + ReservedAmount(s.orders[o])]]
       /\ UNCHANGED <<db, price>>

EditAllowed(ord, e) ==
    /\ e # [qty |-> 0, price |-> 0, trig |-> 0, tp |-> 0]
    /\ e.trig # 0 => ord.type \in {"STOP_LOSS", "STOP_LOSS_LIMIT", "BRACKET"}
    /\ e.tp # 0 => ord.type \in {"TAKE_PROFIT", "BRACKET"}

Edited(ord, e) ==
    [ord EXCEPT !.qty = IF e.qty # 0 THEN e.qty ELSE @,
                !.price = IF e.price # 0 THEN e.price ELSE @,
                !.trig = IF e.trig # 0 THEN e.trig ELSE @,
                !.tp = IF e.tp # 0 THEN e.tp ELSE @,
                !.edited = TRUE]

\* PATCH changes the row and leaves the reservation as it is.
ModifyOrder(o, e) ==
    /\ "modify" \in Handlers
    /\ sess.kind = "none"
    /\ o \in OpenOrders(db)
    /\ EditAllowed(db.orders[o], e)
    /\ LET ord == Edited(db.orders[o], e)
       IN /\ ord.type = "BRACKET" => BracketOrdered(ord.side, ord.price, ord.trig, ord.tp)
          /\ db' = [db EXCEPT !.orders[o] = ord]
    /\ UNCHANGED <<sess, price>>

\* POST /orders/close-all: cancel what is open, then close what is held.
BeginKillSwitch ==
    /\ "kill" \in Handlers
    /\ sess.kind = "none"
    /\ OpenOrders(db) # {} \/ ~Flat(db.hold)
    /\ db.n + Cardinality({p \in ProductTypes : db.hold[p].qty # 0}) <= MaxOrders
    /\ sess' = [Idle EXCEPT !.kind = "kill", !.st = db, !.todo = OpenOrders(db)]
    /\ UNCHANGED <<db, price>>

\* cancel_order commits.
KillCancel(o) ==
    /\ sess.kind = "kill" /\ o \in sess.todo
    /\ db' = CancelledOrder(db, o)
    /\ sess' = [sess EXCEPT !.todo = @ \ {o}, !.st = CancelledOrder(db, o)]
    /\ UNCHANGED price

\* What is held is read after those commits.
ReadHoldings ==
    /\ sess.kind = "kill" /\ sess.todo = {}
    /\ sess' = [sess EXCEPT !.kind = "close",
                   !.close = {p \in ProductTypes : db.hold[p].qty # 0}]
    /\ UNCHANGED <<db, price>>

\* Mutant of CloseRequest: shorts are closed as if they were longs.
CloseBySelling(p, held) ==
    [side |-> "SELL", type |-> "MARKET", product |-> p,
     qty |-> IF held > 0 THEN held ELSE -held, price |-> 0, trig |-> 0, tp |-> 0,
     client |-> 0]

CloseRequest(p, held) ==
    [side |-> IF held > 0 THEN "SELL" ELSE "BUY", type |-> "MARKET", product |-> p,
     qty |-> IF held > 0 THEN held ELSE -held, price |-> 0, trig |-> 0, tp |-> 0,
     client |-> 0]

\* close_net_holding does not commit; a refused close is reported and skipped.
KillClose(p) ==
    LET s == sess.st
        r == CloseRequest(p, s.hold[p].qty)
    IN /\ sess.kind = "close" /\ p \in sess.close
       /\ sess' = [sess EXCEPT !.close = @ \ {p},
                      !.st = IF CanPlace(s, r, price) THEN Placed(s, r, price) ELSE s]
       /\ UNCHANGED <<db, price>>

\* End of a handler that always commits.
EndSession ==
    /\ sess.kind \in {"poll", "expire", "close"}
    /\ sess.todo = {} /\ sess.close = {}
    /\ db' = sess.st
    /\ sess' = Idle
    /\ UNCHANGED price

\* GET /portfolio marks the holdings to the quote, normalises and commits.
GetPortfolioSummary ==
    /\ "summary" \in Handlers
    /\ sess.kind = "none"
    /\ db' = Recalculate([db EXCEPT !.hold =
                [p \in ProductTypes |-> Position(db.hold[p].qty, db.hold[p].avg, price)]])
    /\ UNCHANGED <<sess, price>>

--------------------------------------------------------------------------------
\* The quote moves; a tick or an expiry sweep in progress does not read it.
MoveQuote(px) ==
    /\ sess.kind \notin {"tick", "expire"}
    /\ price' = px /\ px # price
    /\ UNCHANGED <<db, sess>>

Init == db = InitState /\ sess = Idle /\ price \in Prices

Next ==
    \/ \E r \in Requests : PlaceOrder(r)
    \/ BeginTick
    \/ \E o \in OrderIds : EvaluateOrder(o)
    \/ EndTick
    \/ BeginPoll
    \/ \E o \in OrderIds : PollOrder(o)
    \/ \E o \in OrderIds : CancelOrder(o)
    \/ \E S \in SUBSET OrderIds : BeginExpirySweep(S)
    \/ \E o \in OrderIds : ExpireOrder(o)
    \/ \E o \in OrderIds, e \in Edits : ModifyOrder(o, e)
    \/ BeginKillSwitch
    \/ \E o \in OrderIds : KillCancel(o)
    \/ ReadHoldings
    \/ \E p \in ProductTypes : KillClose(p)
    \/ EndSession
    \/ GetPortfolioSummary
    \/ \E px \in Prices : MoveQuote(px)

Spec == Init /\ [][Next]_vars

--------------------------------------------------------------------------------
(* Properties *)

\* Every variable has its type: rows keep the columns' domains.
TypeOK ==
    /\ db \in State
    /\ sess \in Session
    /\ price \in Prices

\* The quantity of each holding row is the signed sum of the transactions of its
\* product type, whatever path (placement, tick, GET /orders, kill switch) filled
\* the orders and however often the position was averaged, reduced or flipped.
PositionIsNetOfTransactions ==
    \A p \in ProductTypes : db.hold[p].qty = db.net[p]

\* total_pnl minus the cost of what is held is the money the transactions have
\* moved, up to half a unit per share and averaging BUY, as long as no SELL was
\* added to an existing short: that fill books a profit although nothing is closed
\* (SellIntoShort).
CashDrift(s) == s.pnl - TotalInvested(s.hold) - s.cash
CashConserved ==
    ~db.scaledIn => 2 * CashDrift(db) \in -db.dust .. db.dust

LongCost(hold) ==
    LET c(p) == IF hold[p].qty > 0 THEN hold[p].inv ELSE 0
    IN c("CNC") + c("MIS") + c("NRML")

ShortMargin(hold) ==
    LET m(p) == IF hold[p].qty < 0 THEN Margin(p, -hold[p].inv) ELSE 0
    IN m("CNC") + m("MIS") + m("NRML")

\* A BUY LIMIT/BRACKET order that was not filled at placement: it reserved cash.
Rested(ord) == /\ ord.status # "NONE" /\ ord.side = "BUY" /\ ord.type \in EntryTypes
               /\ ~(ord.status = "FILLED" /\ ord.by = "place")

\* What available_capital is beyond the capital and realised profit that longs
\* and short margins leave.
CashExcess(s) ==
    s.avail - (BaseCapital + s.pnl - LongCost(s.hold) - ShortMargin(s.hold))

\* available_capital is never more than that, up to rounding: the clamp of
\* _normalize_available_capital, the margin released by a buy-back and the proceeds
\* of a sale create no money.  Stated for accounts that never had a resting BUY order.
CashNeverInvented ==
    (~db.scaledIn /\ \A o \in OrderIds : ~Rested(db.orders[o])) =>
        2 * CashExcess(db) <= db.dust

\* Delivery (CNC) shares are never sold short by placement, by the order worker
\* or by the kill switch; only the unchecked fills of GET /orders can do that.
DeliveryNeverShort ==
    db.hold["CNC"].qty < 0 => "CNC" \in db.polled

\* The two legs of a bracket never both fill, unless GET /orders filled one of
\* them or a user moved one of them with PATCH.
OneLegFills ==
    \A i, j \in OrderIds :
        LET a == db.orders[i]
            b == db.orders[j]
        IN (/\ i # j /\ a.parent # 0 /\ a.parent = b.parent
            /\ a.status = "FILLED" /\ b.status = "FILLED") =>
               \/ "poll" \in {a.by, b.by}
               \/ a.edited \/ b.edited

\* Going from s to t order o was filled and it took part of a position away:
\* the position did not grow and did not change sides.
FilledBetween(s, t, o) ==
    s.orders[o].status # "FILLED" /\ t.orders[o].status = "FILLED"
Reduces(before, after) ==
    \/ before > 0 /\ 0 <= after /\ after < before
    \/ before < 0 /\ before < after /\ after <= 0
ExitsReduce(s, t) ==
    \A o \in OrderIds :
        (FilledBetween(s, t, o) /\ t.orders[o].type \in ExitTypes) =>
            LET p == t.orders[o].product IN Reduces(s.hold[p].qty, t.hold[p].qty)

\* A stop-loss or take-profit order that is filled at placement or by the order
\* worker only reduces the position it protects, even when the position was
\* closed, flipped or resized while the order was waiting.
ExitsOnlyReduce ==
    [][/\ sess.kind = "tick" /\ sess'.kind = "tick" => ExitsReduce(sess.st, sess'.st)
       /\ sess.kind = "none" /\ sess'.kind = "none" => ExitsReduce(db, db')]_vars

\* A position of q shares the risk limits may refuse to close in one order: it is
\* larger than an order may be, or a short that costs more than a trade may.
Unclosable(q) ==
    \/ q > MaxPositionSize \/ -q > MaxPositionSize
    \/ \E px \in Prices : px * (-q) > MaxTradeValue

\* A completed kill switch leaves no open order, and no position other than one
\* the risk limits refuse to close in a single order.
KillSwitchFlattens ==
    [][(sess.kind = "close" /\ sess'.kind = "none") =>
           /\ OpenOrders(db') = {}
           /\ \A p \in ProductTypes :
                 db'.hold[p].qty # 0 => Unclosable(db'.hold[p].qty)]_vars

\* A claim of the code that does not hold.
\* order_worker.py:454: "This order's BUY LIMIT/BRACKET cash was reserved at
\* placement. Release it first; portfolio update will apply the actual fill
\* debit."  A delivery BUY that fills at its limit therefore costs nothing more.
FillUsesReservation ==
    [][\A o \in OrderIds :
          (/\ sess.kind = "tick" /\ sess'.kind = "tick"
           /\ FilledBetween(sess.st, sess'.st, o)
           /\ sess.st.orders[o].side = "BUY" /\ sess.st.orders[o].type = "LIMIT"
           /\ sess.st.orders[o].product = "CNC" /\ ~sess.st.orders[o].edited
           /\ sess.st.hold["CNC"].qty >= 0) =>
              sess'.st.avail >= sess.st.avail]_vars
================================================================================
