------------------------------- MODULE TradingProofs ---------------------------
(***************************************************************************)
(* Proofs about TradingEngine in three parts: types and positions, the     *)
(* life of an order, the money.                                            *)
(***************************************************************************)

(***************************************************************************)
(* Proofs about TradingEngine, for every number of orders, every set of    *)
(* quotes, requests and edits, and every risk limit: the types, the        *)
(* agreement of the holdings with the transactions, and that delivery      *)
(* shares are only ever shorted by GET /orders.                            *)
(*                                                                         *)
(* The argument follows the calls of the handlers.  Each function of the   *)
(* trading engine gets a lemma that says what it keeps (Sound) and whether *)
(* it leaves the positions alone (SameHoldings) or moves one of them by a  *)
(* fill (Moved); each handler gets a lemma that composes those; and the    *)
(* invariant IInv states them of the committed database and of the copy    *)
(* that a looping handler will commit.                                     *)
(***************************************************************************)
EXTENDS TradingEngine, FiniteSetTheorems, TLAPS

\* What a column keeps of a quotient is an integer.
LEMMA RoundDivType ==
    ASSUME NEW a \in Int, NEW b \in Nat \ {0} PROVE RoundDiv(a, b) \in Int
BY DEF RoundDiv

\* So is the margin of an amount.
LEMMA MarginType ==
    ASSUME NEW p, NEW v \in Int PROVE Margin(p, v) \in Int
BY RoundDivType DEF Margin

\* What a fill of q shares adds to a position.
Signed(side, q) == IF side = "BUY" THEN q ELSE -q

\* What a fill returns.
Fill == [hold : Holding, avail : Int, pnl : Int, gone : BOOLEAN]

\* Whatever the position was (none, long, short, smaller or larger than the fill),
\* a fill changes its quantity by exactly the shares bought or sold.
LEMMA FillEffect ==
    ASSUME NEW side \in Sides, NEW p \in ProductTypes, NEW h \in Holding,
           NEW q \in Nat \ {0}, NEW px \in Nat
    PROVE  /\ ApplyFill(side, p, h, q, px) \in Fill
           /\ ApplyFill(side, p, h, q, px).hold.qty = h.qty + Signed(side, q)
<1> USE DEF Fill
<1>h. h.qty \in Int /\ h.avg \in Int
    BY DEF Holding
<1>n. NoHolding \in Holding /\ NoHolding.qty = 0
    BY DEF NoHolding, Holding
<1>1. CASE side = "BUY" /\ h.qty < 0
  <2> DEFINE close == IF q < -h.qty THEN q ELSE -h.qty
             gain == (h.avg - px) * close
             left == q - close
             f == BuyFill(p, h, q, px)
  <2>1. close \in Nat \ {0} /\ left \in Nat /\ gain \in Int
      BY <1>1, <1>h
  <2>2. Margin(p, h.avg * close) \in Int
      BY <2>1, <1>h, MarginType
  <2>3. px * left \in Int
      BY <2>1
  <2>4. f = [hold  |-> IF close < -h.qty THEN Position(h.qty + close, h.avg, px)
                       ELSE IF left > 0 THEN Position(left, px, px)
                       ELSE NoHolding,
             avail |-> Margin(p, h.avg * close) + gain - px * left,
             pnl   |-> gain,
             gone  |-> close = -h.qty]
      BY <1>1 DEF BuyFill
  <2>5. f.hold \in Holding /\ f.hold.qty = h.qty + q
    <3>1. CASE close < -h.qty
        BY <3>1, <2>4, <2>1, <1>h DEF Position, Holding
    <3>2. CASE ~(close < -h.qty) /\ left > 0
        BY <3>2, <2>4, <2>1, <1>h DEF Position, Holding
    <3>3. CASE ~(close < -h.qty) /\ ~(left > 0)
        BY <3>3, <2>4, <2>1, <1>h, <1>n
    <3> QED
        BY <3>1, <3>2, <3>3
  <2>6. f.avail \in Int /\ f.pnl \in Int /\ f.gone \in BOOLEAN
      BY <2>1, <2>2, <2>3, <2>4
  <2> QED
      BY <1>1, <2>4, <2>5, <2>6 DEF ApplyFill, Signed
<1>2. CASE side = "BUY" /\ ~(h.qty < 0)
  <2>1. h.qty + q \in Nat \ {0} /\ h.avg * h.qty + px * q \in Int
      BY <1>2, <1>h
  <2>2. RoundDiv(h.avg * h.qty + px * q, h.qty + q) \in Int
      BY <2>1, RoundDivType
  <2> QED
      BY <1>2, <2>1, <2>2 DEF ApplyFill, BuyFill, Holding, Signed
<1>3. CASE side = "SELL" /\ h.qty >= q
  <2> DEFINE f == ApplyFill(side, p, h, q, px)
             pos == Position(h.qty - q, h.avg, px)
             a == px * q
             g == (px - h.avg) * q
  <2>1. px * q \in Int /\ (px - h.avg) * q \in Int /\ h.qty - q \in Int
      BY <1>h
  <2>2. pos \in Holding /\ pos.qty = h.qty - q
      BY <2>1, <1>h DEF Position, Holding
  <2>3. f = [hold  |-> IF h.qty = q THEN NoHolding ELSE pos,
               avail |-> a, pnl |-> g, gone |-> h.qty = q]
      BY <1>3 DEF ApplyFill, SellFill, SellFromLong
  <2>5. a \in Int /\ g \in Int
      BY <2>1
  <2> HIDE DEF f, pos, a, g
  <2>6. f \in Fill
      BY <1>n, <2>2, <2>3, <2>5
  <2>7. f.hold.qty = h.qty - q
      BY <1>3, <1>h, <1>n, <2>2, <2>3
  <2>8. h.qty - q = h.qty + Signed(side, q)
      BY <1>3, <1>h DEF Signed
  <2> QED
      BY <2>6, <2>7, <2>8 DEF f
<1>4. CASE side = "SELL" /\ ~(h.qty >= q) /\ h.qty < 0
  <2> DEFINE f == ApplyFill(side, p, h, q, px)
             pos == Position(h.qty - q, h.avg, px)
             a == -Margin(p, px * q)
             g == (h.avg - px) * q
  <2>1. px * q \in Int /\ (h.avg - px) * q \in Int /\ h.qty - q \in Int
      BY <1>h
  <2>2. pos \in Holding /\ pos.qty = h.qty - q
      BY <2>1, <1>h DEF Position, Holding
  <2>3. -Margin(p, px * q) \in Int
      BY <2>1, MarginType
  <2>4. f = [hold  |-> pos,
               avail |-> a, pnl |-> g, gone |-> FALSE]
      BY <1>4 DEF ApplyFill, SellFill, SellIntoShort
  <2>5. a \in Int /\ g \in Int
      BY <2>1, <2>3
  <2> HIDE DEF f, pos, a, g
  <2>6. f \in Fill
      BY <1>n, <2>2, <2>4, <2>5
  <2>7. f.hold.qty = h.qty - q
      BY <1>4, <1>h, <1>n, <2>2, <2>4
  <2>8. h.qty - q = h.qty + Signed(side, q)
      BY <1>4, <1>h DEF Signed
  <2> QED
      BY <2>6, <2>7, <2>8 DEF f
<1>5. CASE side = "SELL" /\ ~(h.qty >= q) /\ ~(h.qty < 0)
  <2> DEFINE f == ApplyFill(side, p, h, q, px)
             pos == Position(h.qty - q, px, px)
             a == px * h.qty - Margin(p, px * (q - h.qty))
             g == (px - h.avg) * h.qty
  <2>1. px * (q - h.qty) \in Int /\ (px - h.avg) * h.qty \in Int /\ h.qty - q \in Int
      BY <1>h
  <2>2. pos \in Holding /\ pos.qty = h.qty - q
      BY <2>1, <1>h DEF Position, Holding
  <2>3. px * h.qty - Margin(p, px * (q - h.qty)) \in Int
      BY <2>1, <1>h, MarginType
  <2>4. f = [hold  |-> pos,
               avail |-> a,
               pnl |-> g, gone |-> FALSE]
      BY <1>5 DEF ApplyFill, SellFill, SellShort
  <2>5. a \in Int /\ g \in Int
      BY <2>1, <2>3
  <2> HIDE DEF f, pos, a, g
  <2>6. f \in Fill
      BY <1>n, <2>2, <2>4, <2>5
  <2>7. f.hold.qty = h.qty - q
      BY <1>5, <1>h, <1>n, <2>2, <2>4
  <2>8. h.qty - q = h.qty + Signed(side, q)
      BY <1>5, <1>h DEF Signed
  <2> QED
      BY <2>6, <2>7, <2>8 DEF f
<1> QED
    BY <1>1, <1>2, <1>3, <1>4, <1>5, <1>h DEF Sides

--------------------------------------------------------------------------------
\* A database that is well typed, whose orders are of at least one share and whose
\* holdings are the sums of the transactions.
Sound(s) ==
    /\ s \in State
    /\ \A o \in OrderIds : s.orders[o].status # "NONE" => s.orders[o].qty > 0
    /\ \A p \in ProductTypes : s.hold[p].qty = s.net[p]

\* Short delivery shares come from GET /orders only.
Delivered(s) == s.hold["CNC"].qty < 0 => "CNC" \in s.polled

\* From s to t at most orders and cash have changed, and no order row vanished.
SameHoldings(s, t) ==
    /\ t.hold = s.hold /\ t.net = s.net /\ t.polled = s.polled /\ t.n = s.n
    /\ \A o \in OrderIds : s.orders[o].status # "NONE" => t.orders[o].status # "NONE"

\* The terms of order o, which no handler but PATCH changes.
SameTerms(s, t, o) ==
    /\ t.orders[o].side = s.orders[o].side /\ t.orders[o].product = s.orders[o].product
    /\ t.orders[o].qty = s.orders[o].qty /\ t.orders[o].type = s.orders[o].type

\* Other order rows, of which none vanished and none is empty.
LEMMA OrdersChange ==
    ASSUME NEW s, Sound(s), NEW x \in [OrderIds -> Order],
           \A o \in OrderIds : /\ s.orders[o].status # "NONE" => x[o].status # "NONE"
                               /\ x[o].status # "NONE" => x[o].qty > 0
    PROVE  /\ Sound([s EXCEPT !.orders = x]) /\ SameHoldings(s, [s EXCEPT !.orders = x])
           /\ [s EXCEPT !.orders = x].orders = x
<1> DEFINE t == [s EXCEPT !.orders = x]
<1>1. /\ t \in State /\ t.orders = x /\ t.hold = s.hold /\ t.net = s.net
      /\ t.polled = s.polled /\ t.n = s.n
    BY DEF Sound, State
<1> QED
    BY <1>1 DEF Sound, SameHoldings

\* Another amount of cash.
LEMMA CashChange ==
    ASSUME NEW s, Sound(s), NEW a \in Int
    PROVE  /\ Sound([s EXCEPT !.avail = a]) /\ SameHoldings(s, [s EXCEPT !.avail = a])
           /\ [s EXCEPT !.avail = a].orders = s.orders
<1> DEFINE t == [s EXCEPT !.avail = a]
<1>1. /\ t \in State /\ t.orders = s.orders /\ t.hold = s.hold /\ t.net = s.net
      /\ t.polled = s.polled /\ t.n = s.n
    BY DEF Sound, State
<1> QED
    BY <1>1 DEF Sound, SameHoldings

\* One order row is replaced by one that keeps its terms.
LEMMA OneOrderChange ==
    ASSUME NEW s, Sound(s), NEW o \in OrderIds, NEW r \in Order,
           r.status # "NONE", r.qty > 0
    PROVE  LET t == [s EXCEPT !.orders = [s.orders EXCEPT ![o] = r]]
           IN /\ Sound(t) /\ SameHoldings(s, t)
              /\ t.orders = [s.orders EXCEPT ![o] = r]
<1> DEFINE x == [s.orders EXCEPT ![o] = r]
<1>1. s.orders \in [OrderIds -> Order]
    BY DEF Sound, State
<1>2. x \in [OrderIds -> Order]
    BY <1>1
<1>3. \A i \in OrderIds : x[i] = IF i = o THEN r ELSE s.orders[i]
    BY <1>1
<1> HIDE DEF x
<1>4. \A i \in OrderIds : /\ s.orders[i].status # "NONE" => x[i].status # "NONE"
                          /\ x[i].status # "NONE" => x[i].qty > 0
    BY <1>3 DEF Sound
<1> QED
    BY <1>2, <1>4, OrdersChange DEF x

\* Cancelling or expiring an order changes nothing but its row.
LEMMA SetStatusSound ==
    ASSUME NEW s, Sound(s), NEW o \in OrderIds, s.orders[o].status # "NONE",
           NEW st \in Statuses \ {"NONE"}
    PROVE  /\ Sound(SetStatus(s, o, st)) /\ SameHoldings(s, SetStatus(s, o, st))
<1> DEFINE r == [s.orders[o] EXCEPT !.status = st]
<1>1. s.orders[o] \in Order
    BY DEF Sound, State
<1>2. r \in Order /\ r.status # "NONE" /\ r.qty = s.orders[o].qty
    BY <1>1 DEF Order
<1>3. SetStatus(s, o, st) = [s EXCEPT !.orders = [s.orders EXCEPT ![o] = r]]
    BY DEF SetStatus
<1> HIDE DEF r
<1>4. r.qty > 0
    BY <1>2 DEF Sound
<1> QED
    BY <1>2, <1>3, <1>4, OneOrderChange

\* What an order has reserved is an integer.
LEMMA ReservedType ==
    ASSUME NEW ord \in Order PROVE ReservedAmount(ord) \in Int
<1>0. ord.price \in Nat /\ ord.qty \in Nat /\ ord.filled \in Nat
    BY DEF Order
<1>1. ord.price * (ord.qty - ord.filled) \in Int
    BY <1>0
<1> QED
    BY <1>1, MarginType DEF ReservedAmount

\* Filling the row keeps the terms of the order.
LEMMA SetFilledSound ==
    ASSUME NEW s, Sound(s), NEW o \in OrderIds, s.orders[o].status # "NONE",
           NEW by \in {"place", "tick", "poll"}
    PROVE  LET t == SetFilled(s, o, by)
           IN /\ Sound(t) /\ SameHoldings(s, t) /\ SameTerms(s, t, o)
<1> DEFINE a == s.orders[o]
           r == [a EXCEPT !.status = "FILLED", !.filled = a.qty, !.by = by]
           t == SetFilled(s, o, by)
<1>1. a \in Order /\ s.orders \in [OrderIds -> Order]
    BY DEF Sound, State
<1>2. /\ r \in Order /\ r.status # "NONE" /\ r.qty = a.qty
      /\ r.side = a.side /\ r.product = a.product /\ r.type = a.type
    BY <1>1 DEF Order, Statuses
<1>3. t = [s EXCEPT !.orders = [s.orders EXCEPT ![o] = r]]
    BY <1>1 DEF SetFilled, Sound, State
<1>4. a.qty > 0
    BY DEF Sound
<1> HIDE DEF r, t
<1>5. Sound(t) /\ SameHoldings(s, t) /\ t.orders = [s.orders EXCEPT ![o] = r]
    BY <1>2, <1>3, <1>4, OneOrderChange
<1>6. t.orders[o] = r
    BY <1>1, <1>5
<1> QED
    BY <1>2, <1>5, <1>6 DEF t, SameTerms

\* Releasing a reservation changes nothing but the cash.
LEMMA ReleaseSound ==
    ASSUME NEW s, Sound(s), NEW o \in OrderIds
    PROVE  LET t == ReleaseOnFill(s, o)
           IN /\ Sound(t) /\ SameHoldings(s, t) /\ t.orders = s.orders
<1>1. s.orders[o] \in Order /\ s.avail \in Int
    BY DEF Sound, State
<1>2. s.avail + ReservedAmount(s.orders[o]) \in Int
    BY <1>1, ReservedType
<1>3. ReleaseOnFill(s, o) = [s EXCEPT !.avail = s.avail + ReservedAmount(s.orders[o])]
    BY DEF ReleaseOnFill
<1> QED
    BY <1>2, <1>3, CashChange

\* Cancelling the other leg leaves the filled one alone.
LEMMA CancelSiblingSound ==
    ASSUME NEW s, Sound(s), NEW o \in OrderIds
    PROVE  LET t == CancelSibling(s, o)
           IN /\ Sound(t) /\ SameHoldings(s, t) /\ t.orders[o] = s.orders[o]
<1> DEFINE x == [i \in OrderIds |->
        IF /\ s.orders[o].parent # 0 /\ i # o
           /\ s.orders[i].parent = s.orders[o].parent
           /\ s.orders[i].status = "OPEN"
        THEN [s.orders[i] EXCEPT !.status = "CANCELLED"] ELSE s.orders[i]]
<1>1. \A i \in OrderIds : s.orders[i] \in Order
    BY DEF Sound, State
<1>2. \A i \in OrderIds : LET c == [s.orders[i] EXCEPT !.status = "CANCELLED"]
                          IN c \in Order /\ c.status = "CANCELLED" /\ c.qty = s.orders[i].qty
    BY <1>1 DEF Order, Statuses
<1>3. \A i \in OrderIds :
          \/ x[i] = s.orders[i]
          \/ x[i] = [s.orders[i] EXCEPT !.status = "CANCELLED"] /\ s.orders[i].status = "OPEN"
    OBVIOUS
<1>4. x \in [OrderIds -> Order]
    BY <1>1, <1>2
<1>5. x[o] = s.orders[o]
    OBVIOUS
<1>6. CancelSibling(s, o) = [s EXCEPT !.orders = x]
    BY DEF CancelSibling
<1> HIDE DEF x
<1>7. \A i \in OrderIds : s.orders[i].status # "NONE" => s.orders[i].qty > 0
    BY DEF Sound
<1>8. \A i \in OrderIds : /\ s.orders[i].status # "NONE" => x[i].status # "NONE"
                          /\ x[i].status # "NONE" => x[i].qty > 0
  <2> TAKE i \in OrderIds
  <2>1. CASE x[i] = s.orders[i]
      BY <2>1, <1>7
  <2>2. CASE x[i] = [s.orders[i] EXCEPT !.status = "CANCELLED"] /\ s.orders[i].status = "OPEN"
    <3>1. x[i].status = "CANCELLED" /\ x[i].qty = s.orders[i].qty
        BY <2>2, <1>2
    <3> QED
        BY <2>2, <3>1, <1>7
  <2> QED
      BY <2>1, <2>2, <1>3
<1> QED
    BY <1>4, <1>5, <1>6, <1>8, OrdersChange

\* An open order row, from its columns, and what makes a row an order of q shares.
OpenRow(sd, ty, pr, q, px, tr, tk, pa) ==
    [side |-> sd, type |-> ty, product |-> pr, qty |-> q, price |-> px, trig |-> tr,
     tp |-> tk, status |-> "OPEN", filled |-> 0, parent |-> pa, by |-> "",
     edited |-> FALSE]
OrderOf(r, q) == r \in Order /\ r.status # "NONE" /\ r.qty = q

\* A row just inserted is an order of the shares asked for.
LEMMA OpenRowType ==
    ASSUME NEW sd \in Sides, NEW ty \in OrderTypes, NEW pr \in ProductTypes,
           NEW q \in Nat, NEW px \in Nat, NEW tr \in Nat, NEW tk \in Nat,
           NEW pa \in Nat
    PROVE  OrderOf(OpenRow(sd, ty, pr, q, px, tr, tk, pa), q)
BY DEF OrderOf, OpenRow, Order, Statuses

\* The legs of a bracket are orders of as many shares as their entry.
LEMMA ExitLegType ==
    ASSUME NEW entry \in Order, NEW o \in Nat, NEW type \in ExitTypes,
           NEW px \in Nat, NEW trig \in Nat
    PROVE  OrderOf(ExitLeg(entry, o, type, px, trig), entry.qty)
<1> DEFINE sd == IF entry.side = "BUY" THEN "SELL" ELSE "BUY"
<1>1. entry.product \in ProductTypes /\ entry.qty \in Nat
    BY DEF Order
<1>2. type \in OrderTypes
    BY DEF ExitTypes, OrderTypes
<1>3. sd \in Sides
    BY DEF Sides
<1>4. ExitLeg(entry, o, type, px, trig) =
          OpenRow(sd, type, entry.product, entry.qty, px, trig, 0, o)
    BY DEF ExitLeg, OpenRow
<1> HIDE DEF sd
<1> QED
    BY <1>1, <1>2, <1>3, <1>4, OpenRowType

\* Creating the legs of a bracket leaves the entry alone.
LEMMA CreateChildrenSound ==
    ASSUME NEW s, Sound(s), NEW o \in OrderIds, s.orders[o].status # "NONE"
    PROVE  LET t == CreateBracketChildren(s, o)
           IN /\ Sound(t) /\ SameHoldings(s, t) /\ t.orders[o] = s.orders[o]
<1>1. CASE s.orders[o].type # "BRACKET"
  <2>1. CreateBracketChildren(s, o) = s
      BY <1>1 DEF CreateBracketChildren
  <2>2. SameHoldings(s, s)
      BY DEF SameHoldings
  <2> QED
      BY <2>1, <2>2
<1>2. CASE s.orders[o].type = "BRACKET"
  <2> DEFINE e == s.orders[o]
             sl == ExitLeg(e, o, "STOP_LOSS", 0, e.trig)
             tp == ExitLeg(e, o, "TAKE_PROFIT", e.tp, 0)
             x == [i \in OrderIds |-> CASE i = SlLeg(o) -> sl
                                        [] i = TpLeg(o) -> tp
                                        [] OTHER -> s.orders[i]]
  <2>1. \A i \in OrderIds : s.orders[i] \in Order
      BY DEF Sound, State
  <2>2. e \in Order
      BY <2>1
  <2>n. e.trig \in Nat /\ e.tp \in Nat
      BY <2>2 DEF Order
  <2>o. o \in Nat /\ o + 1 # o /\ o + 2 # o
      BY ConstantsAssumption DEF OrderIds
  <2>t. "STOP_LOSS" \in ExitTypes /\ "TAKE_PROFIT" \in ExitTypes /\ 0 \in Nat
      BY DEF ExitTypes
  <2> HIDE DEF e
  <2>3. OrderOf(sl, e.qty)
      BY <2>2, <2>n, <2>o, <2>t, ExitLegType
  <2>4. OrderOf(tp, e.qty)
      BY <2>2, <2>n, <2>o, <2>t, ExitLegType
  <2>5. CreateBracketChildren(s, o) = [s EXCEPT !.orders = x]
      BY <1>2 DEF CreateBracketChildren, e
  <2> HIDE DEF sl, tp
  <2>6. \A i \in OrderIds : x[i] = sl \/ x[i] = tp \/ x[i] = s.orders[i]
      OBVIOUS
  <2>7. x \in [OrderIds -> Order]
      BY <2>1, <2>3, <2>4, <2>6 DEF OrderOf
  <2>8. o # SlLeg(o) /\ o # TpLeg(o)
      BY <2>o DEF SlLeg, TpLeg
  <2>9. x[o] = s.orders[o]
      BY <2>8
  <2>10. e.qty > 0 /\ \A i \in OrderIds : s.orders[i].status # "NONE" => s.orders[i].qty > 0
      BY DEF Sound, e
  <2> HIDE DEF x
  <2>11. \A i \in OrderIds : /\ s.orders[i].status # "NONE" => x[i].status # "NONE"
                             /\ x[i].status # "NONE" => x[i].qty > 0
      BY <2>3, <2>4, <2>6, <2>10 DEF OrderOf
  <2> QED
      BY <2>5, <2>7, <2>9, <2>11, OrdersChange
<1> QED
    BY <1>1, <1>2

\* Cancelling the exits of a deleted position loses no order row.
LEMMA CancelExitsSound ==
    ASSUME NEW s, Sound(s)
    PROVE  LET x == CancelOrphanedExits(s.orders)
           IN /\ x \in [OrderIds -> Order]
              /\ \A i \in OrderIds : /\ s.orders[i].status # "NONE" => x[i].status # "NONE"
                                     /\ x[i].status # "NONE" => x[i].qty > 0
<1> DEFINE x == CancelOrphanedExits(s.orders)
<1>1. \A i \in OrderIds : s.orders[i] \in Order
    BY DEF Sound, State
<1>2. \A i \in OrderIds : LET c == [s.orders[i] EXCEPT !.status = "CANCELLED"]
                          IN c \in Order /\ c.status = "CANCELLED" /\ c.qty = s.orders[i].qty
    BY <1>1 DEF Order, Statuses
<1>3. \A i \in OrderIds :
          \/ x[i] = s.orders[i]
          \/ x[i] = [s.orders[i] EXCEPT !.status = "CANCELLED"] /\ s.orders[i].status = "OPEN"
    BY DEF CancelOrphanedExits
<1>4. x \in [OrderIds -> Order]
    BY <1>1, <1>2 DEF CancelOrphanedExits
<1>5. \A i \in OrderIds : s.orders[i].status # "NONE" => s.orders[i].qty > 0
    BY DEF Sound
<1> HIDE DEF x
<1>6. \A i \in OrderIds : /\ s.orders[i].status # "NONE" => x[i].status # "NONE"
                          /\ x[i].status # "NONE" => x[i].qty > 0
  <2> TAKE i \in OrderIds
  <2>1. CASE x[i] = s.orders[i]
      BY <2>1, <1>5
  <2>2. CASE x[i] = [s.orders[i] EXCEPT !.status = "CANCELLED"] /\ s.orders[i].status = "OPEN"
    <3>1. x[i].status = "CANCELLED" /\ x[i].qty = s.orders[i].qty
        BY <2>2, <1>2
    <3> QED
        BY <2>2, <3>1, <1>5
  <2> QED
      BY <2>1, <2>2, <1>3
<1> QED
    BY <1>4, <1>6 DEF x

\* Normalising available_capital changes nothing but the cash.
LEMMA RecalculateSound ==
    ASSUME NEW s, Sound(s)
    PROVE  LET t == Recalculate(s)
           IN /\ Sound(t) /\ SameHoldings(s, t) /\ t.orders = s.orders
<1> DEFINE equity == NetEquity(BaseCapital, s.pnl, s.hold)
           a == NormalizeAvailable(s.avail, equity, Flat(s.hold))
<1>1. s.avail \in Int /\ s.pnl \in Int /\ s.hold \in [ProductTypes -> Holding]
    BY DEF Sound, State
<1>2. \A p \in ProductTypes : s.hold[p].inv \in Int /\ s.hold[p].cur \in Int
    BY <1>1 DEF Holding
<1>3. TotalInvested(s.hold) \in Int /\ CurrentValue(s.hold) \in Int
    BY <1>2 DEF TotalInvested, CurrentValue, ProductTypes
<1>4. equity \in Int
    BY <1>1, <1>3, ConstantsAssumption DEF NetEquity
<1> HIDE DEF equity
<1>5. a \in Int
    BY <1>1, <1>4 DEF NormalizeAvailable
<1>6. Recalculate(s) = [s EXCEPT !.avail = a]
    BY DEF Recalculate, equity
<1> HIDE DEF a
<1> QED
    BY <1>5, <1>6, CashChange

--------------------------------------------------------------------------------
\* From s to t the position in product type p has moved by a fill of q shares and
\* the others have not; no order row vanished.
Moved(s, t, side, p, q) ==
    /\ t.n = s.n /\ t.polled = s.polled
    /\ t.hold[p].qty = s.hold[p].qty + Signed(side, q)
    /\ \A r \in ProductTypes \ {p} : t.hold[r].qty = s.hold[r].qty
    /\ \A o \in OrderIds : s.orders[o].status # "NONE" => t.orders[o].status # "NONE"

\* Changes of orders and cash compose, and they may precede or follow a fill.
LEMMA SameThenSame ==
    ASSUME NEW s, NEW t, NEW u, SameHoldings(s, t), SameHoldings(t, u)
    PROVE  SameHoldings(s, u)
BY DEF SameHoldings

\* The same, for a change before the fill.
LEMMA SameThenMoved ==
    ASSUME NEW s, NEW t, NEW u, NEW side, NEW p, NEW q,
           SameHoldings(s, t), Moved(t, u, side, p, q)
    PROVE  Moved(s, u, side, p, q)
BY DEF SameHoldings, Moved

\* The same, for a change after the fill.
LEMMA MovedThenSame ==
    ASSUME NEW s, NEW t, NEW u, NEW side, NEW p, NEW q,
           Moved(s, t, side, p, q), SameHoldings(t, u)
    PROVE  Moved(s, u, side, p, q)
BY DEF SameHoldings, Moved

\* What a fill may round is a number of half units.
LEMMA FillDustType ==
    ASSUME NEW side, NEW p, NEW h \in Holding, NEW q \in Nat
    PROVE  FillDust(side, p, h, q) \in Nat
BY DEF FillDust, Holding

\* A fill writes the holding and the transaction together.
LEMMA BookFillSound ==
    ASSUME NEW s, Sound(s), NEW o \in OrderIds, s.orders[o].status # "NONE",
           NEW px \in Nat
    PROVE  /\ Sound(BookFill(s, o, px))
           /\ Moved(s, BookFill(s, o, px),
                    s.orders[o].side, s.orders[o].product, s.orders[o].qty)
<1> DEFINE ord == s.orders[o]
           p == ord.product
           h == s.hold[p]
           fill == ApplyFill(ord.side, p, h, ord.qty, px)
           sign == Signed(ord.side, ord.qty)
           xo == IF fill.gone THEN CancelOrphanedExits(s.orders) ELSE s.orders
           xh == [s.hold EXCEPT ![p] = fill.hold]
           xa == s.avail + fill.avail
           xp == s.pnl + fill.pnl
           xn == [s.net EXCEPT ![p] = @ + sign]
           xc == s.cash - sign * px
           xs == s.scaledIn \/ (ord.side = "SELL" /\ s.hold[p].qty < 0)
           xd == s.dust + FillDust(ord.side, p, h, ord.qty)
           t == [orders |-> xo, n |-> s.n, hold |-> xh, avail |-> xa, pnl |-> xp,
                 net |-> xn, cash |-> xc, scaledIn |-> xs, polled |-> s.polled,
                 dust |-> xd]
<1>1. ord \in Order
    BY DEF Sound, State
<1>2. /\ s.hold \in [ProductTypes -> Holding] /\ s.net \in [ProductTypes -> Int]
      /\ s.avail \in Int /\ s.pnl \in Int /\ s.cash \in Int /\ s.n \in Nat
      /\ s.scaledIn \in BOOLEAN /\ s.polled \in SUBSET ProductTypes
      /\ s.orders \in [OrderIds -> Order] /\ s.dust \in Nat
    BY DEF Sound, State
<1>3. \A r \in ProductTypes : s.hold[r].qty = s.net[r]
    BY DEF Sound
<1>4. ord.qty > 0
    BY DEF Sound
<1>5. p \in ProductTypes /\ ord.side \in Sides /\ ord.qty \in Nat
    BY <1>1 DEF Order
<1>6. ord.qty \in Nat \ {0} /\ sign \in Int
    BY <1>4, <1>5 DEF Signed
<1>7. h \in Holding
    BY <1>2, <1>5
<1>8. BookFill(s, o, px) = t
    BY DEF BookFill, Signed
<1> HIDE DEF ord, p, h, fill, sign
<1>9. fill \in Fill /\ fill.hold.qty = h.qty + sign
    BY <1>5, <1>6, <1>7, FillEffect DEF fill, sign
<1>10. /\ fill.hold \in Holding /\ fill.avail \in Int /\ fill.pnl \in Int
       /\ fill.gone \in BOOLEAN
    BY <1>9 DEF Fill
<1>11. xa \in Int /\ xp \in Int
    BY <1>2, <1>10
<1>a. xh \in [ProductTypes -> Holding]
    BY <1>2, <1>5, <1>10
<1>12. xn \in [ProductTypes -> Int]
    BY <1>2, <1>5, <1>6
<1>13. xc \in Int
  <2>1. sign * px \in Int
      BY <1>6
  <2> QED
      BY <1>2, <2>1
<1>b. xs \in BOOLEAN
    OBVIOUS
<1>c. xd \in Nat
    BY <1>2, <1>6, <1>7, FillDustType
<1>14. xh[p].qty = s.hold[p].qty + sign /\ xn[p] = s.net[p] + sign
    BY <1>2, <1>5, <1>9 DEF h
<1>15. \A r \in ProductTypes \ {p} : xh[r] = s.hold[r] /\ xn[r] = s.net[r]
    BY <1>2
<1>16. \A r \in ProductTypes : xh[r].qty = xn[r]
    BY <1>3, <1>5, <1>14, <1>15
<1>17. /\ xo \in [OrderIds -> Order]
       /\ \A i \in OrderIds : /\ s.orders[i].status # "NONE" => xo[i].status # "NONE"
                              /\ xo[i].status # "NONE" => xo[i].qty > 0
  <2>1. CASE fill.gone
      BY <2>1, CancelExitsSound
  <2>2. CASE ~fill.gone
      BY <2>2, <1>2 DEF Sound
  <2> QED
      BY <2>1, <2>2
<1> HIDE DEF xo, xh, xa, xp, xn, xc, xs, xd
<1>18. t \in State
    BY <1>2, <1>11, <1>a, <1>12, <1>13, <1>b, <1>c, <1>17 DEF State
<1>19. t.orders = xo /\ t.hold = xh /\ t.net = xn /\ t.n = s.n /\ t.polled = s.polled
    OBVIOUS
<1> HIDE DEF t
<1>20. Sound(t)
    BY <1>16, <1>17, <1>18, <1>19 DEF Sound
<1>21. Moved(s, t, ord.side, p, ord.qty)
    BY <1>14, <1>15, <1>17, <1>19 DEF Moved, sign
<1> QED
    BY <1>8, <1>20, <1>21 DEF ord, p

\* The update of the portfolio does, and then normalises available_capital.
LEMMA UpdateSound ==
    ASSUME NEW s, Sound(s), NEW o \in OrderIds, s.orders[o].status # "NONE",
           NEW px \in Nat
    PROVE  /\ Sound(UpdatePortfolioOnFill(s, o, px))
           /\ Moved(s, UpdatePortfolioOnFill(s, o, px),
                    s.orders[o].side, s.orders[o].product, s.orders[o].qty)
<1> DEFINE t == BookFill(s, o, px)
<1>1. Sound(t) /\ Moved(s, t, s.orders[o].side, s.orders[o].product, s.orders[o].qty)
    BY BookFillSound
<1> HIDE DEF t
<1>2. Sound(Recalculate(t)) /\ SameHoldings(t, Recalculate(t))
    BY <1>1, RecalculateSound
<1> QED
    BY <1>1, <1>2, MovedThenSame DEF t, UpdatePortfolioOnFill

--------------------------------------------------------------------------------
\* No order row of s is missing in t.
RowsKept(s, t) ==
    \A o \in OrderIds : s.orders[o].status # "NONE" => t.orders[o].status # "NONE"

\* A fill that sells delivery shares only when they are held shorts no delivery.
LEMMA DeliveredStep ==
    ASSUME NEW s, NEW t, NEW side \in Sides, NEW p \in ProductTypes, NEW q \in Nat,
           Sound(s), Delivered(s), Moved(s, t, side, p, q),
           (side = "SELL" /\ p = "CNC") => s.hold[p].qty >= q
    PROVE  Delivered(t)
<1>1. s.hold["CNC"] \in Holding /\ "CNC" \in ProductTypes
    BY DEF Sound, State, ProductTypes
<1>2. s.hold["CNC"].qty \in Int
    BY <1>1 DEF Holding
<1>3. CASE p # "CNC"
  <2>1. t.hold["CNC"].qty = s.hold["CNC"].qty /\ t.polled = s.polled
      BY <1>1, <1>3 DEF Moved
  <2> QED
      BY <2>1 DEF Delivered
<1>4. CASE p = "CNC"
  <2>1. t.hold["CNC"].qty = s.hold["CNC"].qty + Signed(side, q) /\ t.polled = s.polled
      BY <1>4 DEF Moved
  <2>2. CASE side = "BUY"
      BY <1>2, <2>1, <2>2 DEF Delivered, Signed
  <2>3. CASE side = "SELL"
      BY <1>2, <1>4, <2>1, <2>3 DEF Delivered, Signed
  <2> QED
      BY <2>2, <2>3 DEF Sides
<1> QED
    BY <1>3, <1>4

\* Changes of orders and cash short no delivery.
LEMMA DeliveredSame ==
    ASSUME NEW s, NEW t, Delivered(s), SameHoldings(s, t)
    PROVE  Delivered(t)
BY DEF Delivered, SameHoldings

\* The price of a fill at a tick is a price.
LEMMA FillPriceType ==
    ASSUME NEW ord \in Order, NEW px \in Nat PROVE FillPrice(ord, px) \in Nat
<1>1. ord.price \in Nat
    BY DEF Order
<1> QED
    BY <1>1 DEF FillPrice

\* A fill by the order worker: every call before the portfolio update leaves the
\* filled row and the holdings alone.
LEMMA WorkerFillSound ==
    ASSUME NEW s, Sound(s), NEW o \in OrderIds, s.orders[o].status # "NONE",
           NEW px \in Nat
    PROVE  /\ Sound(WorkerFill(s, o, px))
           /\ Moved(s, WorkerFill(s, o, px),
                    s.orders[o].side, s.orders[o].product, s.orders[o].qty)
<1> DEFINE t1 == SetFilled(s, o, "tick")
           t2 == ReleaseOnFill(t1, o)
           t3 == CancelSibling(t2, o)
           t4 == CreateBracketChildren(t3, o)
           fp == FillPrice(s.orders[o], px)
<1>1. Sound(t1) /\ SameHoldings(s, t1) /\ SameTerms(s, t1, o)
    BY SetFilledSound
<1>2. WorkerFill(s, o, px) = UpdatePortfolioOnFill(t4, o, fp)
    BY DEF WorkerFill
<1> HIDE DEF t1
<1>3. Sound(t2) /\ SameHoldings(t1, t2) /\ t2.orders = t1.orders
    BY <1>1, ReleaseSound
<1> HIDE DEF t2
<1>4. Sound(t3) /\ SameHoldings(t2, t3) /\ t3.orders[o] = t2.orders[o]
    BY <1>3, CancelSiblingSound
<1>5. SameHoldings(s, t3)
    BY <1>1, <1>3, <1>4, SameThenSame
<1> HIDE DEF t3
<1>6. t3.orders[o].status # "NONE"
    BY <1>5 DEF SameHoldings
<1>7. Sound(t4) /\ SameHoldings(t3, t4) /\ t4.orders[o] = t3.orders[o]
    BY <1>4, <1>6, CreateChildrenSound
<1> HIDE DEF t4
<1>8. SameHoldings(s, t4) /\ t4.orders[o] = t1.orders[o]
    BY <1>3, <1>4, <1>5, <1>7, SameThenSame
<1>9. t4.orders[o].status # "NONE"
    BY <1>6, <1>7
<1>10. s.orders[o] \in Order
    BY DEF Sound, State
<1>11. fp \in Nat
    BY <1>10, FillPriceType
<1> HIDE DEF fp
<1>12. /\ Sound(UpdatePortfolioOnFill(t4, o, fp))
       /\ Moved(t4, UpdatePortfolioOnFill(t4, o, fp),
                t4.orders[o].side, t4.orders[o].product, t4.orders[o].qty)
    BY <1>7, <1>9, <1>11, UpdateSound
<1>13. /\ t4.orders[o].side = s.orders[o].side
       /\ t4.orders[o].product = s.orders[o].product
       /\ t4.orders[o].qty = s.orders[o].qty
    BY <1>1, <1>8 DEF SameTerms
<1> QED
    BY <1>2, <1>8, <1>12, <1>13, SameThenMoved

\* A fill by GET /orders records itself in the history of the account.
LEMMA PollFillSound ==
    ASSUME NEW s, Sound(s), Delivered(s), NEW o \in OrderIds,
           s.orders[o].status # "NONE", NEW px \in Nat
    PROVE  /\ Sound(PollFill(s, o, px)) /\ Delivered(PollFill(s, o, px))
           /\ RowsKept(s, PollFill(s, o, px))
<1> DEFINE ord == s.orders[o]
           t1 == SetFilled(s, o, "poll")
           t2 == UpdatePortfolioOnFill(t1, o, px)
           np == t2.polled \cup {ord.product}
           t == [t2 EXCEPT !.polled = np]
<1>1. Sound(t1) /\ SameHoldings(s, t1) /\ SameTerms(s, t1, o)
    BY SetFilledSound
<1>2. PollFill(s, o, px) = t
    BY DEF PollFill
<1>3. ord \in Order
    BY DEF Sound, State
<1>4. ord.product \in ProductTypes /\ ord.side \in Sides /\ ord.qty \in Nat
    BY <1>3 DEF Order
<1> HIDE DEF t1, ord
<1>5. t1.orders[o].status # "NONE"
    BY <1>1 DEF SameHoldings
<1>6. Sound(t2) /\ Moved(t1, t2, t1.orders[o].side, t1.orders[o].product, t1.orders[o].qty)
    BY <1>1, <1>5, UpdateSound
<1>7. Moved(s, t2, ord.side, ord.product, ord.qty)
    BY <1>1, <1>6, SameThenMoved DEF SameTerms, ord
<1> HIDE DEF t2
<1>8. t2 \in State /\ t2.polled \in SUBSET ProductTypes
    BY <1>6 DEF Sound, State
<1>9. np \in SUBSET ProductTypes
    BY <1>4, <1>8
<1> HIDE DEF np
<1>10. /\ t \in State /\ t.orders = t2.orders /\ t.hold = t2.hold /\ t.net = t2.net
       /\ t.polled = np
    BY <1>8, <1>9 DEF State
<1> HIDE DEF t
<1>11. Sound(t)
    BY <1>6, <1>10 DEF Sound
<1>12. RowsKept(s, t)
    BY <1>7, <1>10 DEF Moved, RowsKept
<1>13. Delivered(t)
  <2>1. CASE ord.product = "CNC"
      BY <1>10, <2>1 DEF Delivered, np
  <2>2. CASE ord.product # "CNC"
    <3>1. Delivered(t2)
        BY <1>4, <1>7, <2>2, DeliveredStep
    <3> QED
        BY <1>10, <3>1 DEF Delivered, np
  <2> QED
      BY <2>1, <2>2
<1> QED
    BY <1>2, <1>11, <1>12, <1>13

--------------------------------------------------------------------------------
\* The database with the row of request r, before it is filled or reserves cash.
WithRow(s, r) ==
    [s EXCEPT !.orders[s.n + 1] = NewOrder(r), !.n = s.n + RowsFor(r)]

\* Inserting a row moves no position.
LEMMA WithRowSound ==
    ASSUME NEW s, Sound(s), NEW r \in Request, s.n + 1 \in OrderIds
    PROVE  /\ Sound(WithRow(s, r)) /\ RowsKept(s, WithRow(s, r))
           /\ WithRow(s, r).hold = s.hold /\ WithRow(s, r).polled = s.polled
           /\ WithRow(s, r).n = s.n + RowsFor(r)
           /\ WithRow(s, r).orders[s.n + 1] = NewOrder(r)
<1> DEFINE o == s.n + 1
           row == NewOrder(r)
           x == [s.orders EXCEPT ![o] = row]
           m == s.n + RowsFor(r)
           t1 == [s EXCEPT !.orders = x]
           t == [t1 EXCEPT !.n = m]
<1>1. s \in State /\ s.orders \in [OrderIds -> Order] /\ s.n \in Nat
    BY DEF Sound, State
<1>2. /\ r.side \in Sides /\ r.type \in OrderTypes /\ r.product \in ProductTypes
      /\ r.qty \in Nat \ {0} /\ r.price \in Nat /\ r.trig \in Nat /\ r.tp \in Nat
    BY DEF Request
<1>3. row = OpenRow(r.side, r.type, r.product, r.qty, r.price, r.trig, r.tp, 0)
    BY DEF NewOrder, OpenRow
<1>4. OrderOf(row, r.qty)
    BY <1>2, <1>3, OpenRowType
<1>5. WithRow(s, r) = t
    BY <1>1 DEF WithRow, State
<1>6. m \in Nat
    BY <1>1 DEF RowsFor
<1> HIDE DEF row, m
<1>7. x[o] = row
    BY <1>1
<1>8. row \in Order /\ row.status # "NONE" /\ row.qty > 0
    BY <1>2, <1>4 DEF OrderOf
<1>9. Sound(t1) /\ SameHoldings(s, t1) /\ t1.orders = x
    BY <1>8, OneOrderChange
<1> HIDE DEF t1, x
<1>10. t1 \in State
    BY <1>9 DEF Sound
<1>11. /\ t \in State /\ t.orders = t1.orders /\ t.hold = t1.hold /\ t.net = t1.net
       /\ t.polled = t1.polled /\ t.n = m
    BY <1>6, <1>10 DEF State
<1> HIDE DEF t
<1>12. Sound(t)
    BY <1>9, <1>11 DEF Sound
<1>13. /\ RowsKept(s, t) /\ t.hold = s.hold /\ t.polled = s.polled
    BY <1>9, <1>11 DEF SameHoldings, RowsKept
<1> QED
    BY <1>5, <1>7, <1>9, <1>11, <1>12, <1>13 DEF m, row

\* The price at which placement fills an order is a price.
LEMMA ExecutionPriceType ==
    ASSUME NEW r \in Request, NEW px \in Nat PROVE ExecutionPrice(r, px) \in Nat
<1>1. r.price \in Nat /\ r.client \in Nat
    BY DEF Request
<1> QED
    BY <1>1 DEF ExecutionPrice, CurrentPrice

\* Placement inserts a row and then either moves the position of its product type
\* by its quantity or reserves cash for it.
LEMMA PlacedEffect ==
    ASSUME NEW s, Sound(s), NEW r \in Request, s.n + 1 \in OrderIds, NEW px \in Nat
    PROVE  /\ Sound(Placed(s, r, px))
           /\ \/ SameHoldings(WithRow(s, r), Placed(s, r, px))
              \/ Moved(WithRow(s, r), Placed(s, r, px), r.side, r.product, r.qty)
<1> DEFINE o == s.n + 1
           t0 == WithRow(s, r)
           row == NewOrder(r)
<1>1. Sound(t0) /\ t0.orders[o] = row
    BY WithRowSound
<1>2. /\ row.side = r.side /\ row.product = r.product /\ row.qty = r.qty
      /\ row.status # "NONE"
    BY DEF NewOrder
<1>3. row \in Order
    BY <1>1 DEF Sound, State
<1> HIDE DEF row, t0
<1>4. CASE FillsAtOnce(r, px)
  <2> DEFINE t1 == SetFilled(t0, o, "place")
             t2 == UpdatePortfolioOnFill(t1, o, ExecutionPrice(r, px))
             t3 == CreateBracketChildren(t2, o)
  <2>1. Placed(s, r, px) = t3
      BY <1>4 DEF Placed, WithRow, t0
  <2>2. Sound(t1) /\ SameHoldings(t0, t1) /\ SameTerms(t0, t1, o)
      BY <1>1, <1>2, SetFilledSound
  <2> HIDE DEF t1
  <2>3. t1.orders[o].status # "NONE"
      BY <1>1, <1>2, <2>2 DEF SameHoldings
  <2>4. ExecutionPrice(r, px) \in Nat
      BY ExecutionPriceType
  <2>5. Sound(t2) /\ Moved(t1, t2, t1.orders[o].side, t1.orders[o].product, t1.orders[o].qty)
      BY <2>2, <2>3, <2>4, UpdateSound
  <2>6. Moved(t1, t2, r.side, r.product, r.qty)
      BY <1>1, <1>2, <2>2, <2>5 DEF SameTerms
  <2> HIDE DEF t2
  <2>7. t2.orders[o].status # "NONE"
      BY <2>3, <2>6 DEF Moved
  <2>8. Sound(t3) /\ SameHoldings(t2, t3)
      BY <2>5, <2>7, CreateChildrenSound
  <2> HIDE DEF t3
  <2>9. Moved(t0, t3, r.side, r.product, r.qty)
      BY <2>2, <2>6, <2>8, SameThenMoved, MovedThenSame
  <2> QED
      BY <2>1, <2>8, <2>9 DEF t0
<1>5. CASE ~FillsAtOnce(r, px)
  <2> DEFINE a == t0.avail - ReservedAmount(row)
  <2>1. Placed(s, r, px) = [t0 EXCEPT !.avail = a]
      BY <1>5 DEF Placed, WithRow, t0, row
  <2>2. t0.avail \in Int
      BY <1>1 DEF Sound, State
  <2>3. a \in Int
      BY <1>3, <2>2, ReservedType
  <2> HIDE DEF a
  <2> QED
      BY <1>1, <2>1, <2>3, CashChange DEF t0
<1> QED
    BY <1>4, <1>5

\* A request place_order accepts sells delivery shares only when they are held.
LEMMA PlacementDelivers ==
    ASSUME NEW s, NEW r \in Request, NEW px, CanPlace(s, r, px),
           r.side = "SELL", r.product = "CNC"
    PROVE  s.hold[r.product].qty >= r.qty
<1> DEFINE h == s.hold[r.product]
<1>1. CASE IsExitOrder(r, h.qty)
  <2>1. ExitAllowed(r, h, CurrentPrice(r, px))
      BY <1>1 DEF CanPlace
  <2>2. r.qty <= h.qty
      BY <2>1 DEF ExitAllowed
  <2> HIDE DEF h
  <2>3. h.qty >= r.qty
      BY <2>2
  <2> QED
      BY <2>3 DEF h
<1>2. CASE ~IsExitOrder(r, h.qty)
  <2>1. CapitalSuffices(s, r, ExecutionPrice(r, px))
      BY <1>2 DEF CanPlace
  <2> QED
      BY <2>1 DEF CapitalSuffices
<1> QED
    BY <1>1, <1>2

\* Placement shorts no delivery, inserts its rows and loses none.
LEMMA PlacedSound ==
    ASSUME NEW s, Sound(s), Delivered(s), NEW r \in Request, s.n + 1 \in OrderIds,
           NEW px \in Nat, CanPlace(s, r, px)
    PROVE  /\ Sound(Placed(s, r, px)) /\ Delivered(Placed(s, r, px))
           /\ RowsKept(s, Placed(s, r, px))
           /\ Placed(s, r, px).n = s.n + RowsFor(r)
           /\ \A p \in ProductTypes \ {r.product} :
                  Placed(s, r, px).hold[p].qty = s.hold[p].qty
<1> DEFINE t0 == WithRow(s, r)
           t == Placed(s, r, px)
<1>1. /\ Sound(t0) /\ RowsKept(s, t0) /\ t0.hold = s.hold /\ t0.polled = s.polled
      /\ t0.n = s.n + RowsFor(r)
    BY WithRowSound
<1>2. Sound(t) /\ (SameHoldings(t0, t) \/ Moved(t0, t, r.side, r.product, r.qty))
    BY PlacedEffect
<1>3. r.side \in Sides /\ r.product \in ProductTypes /\ r.qty \in Nat
    BY DEF Request
<1>4. (r.side = "SELL" /\ r.product = "CNC") => s.hold[r.product].qty >= r.qty
    BY PlacementDelivers
<1> HIDE DEF t0, t
<1>5. Delivered(t0)
    BY <1>1 DEF Delivered
<1>6. CASE SameHoldings(t0, t)
    BY <1>1, <1>2, <1>5, <1>6, DeliveredSame DEF t, SameHoldings, RowsKept
<1>7. CASE Moved(t0, t, r.side, r.product, r.qty)
  <2>1. Delivered(t)
      BY <1>1, <1>3, <1>4, <1>5, <1>7, DeliveredStep
  <2>2. /\ RowsKept(s, t) /\ t.n = s.n + RowsFor(r)
        /\ \A p \in ProductTypes \ {r.product} : t.hold[p].qty = s.hold[p].qty
      BY <1>1, <1>7 DEF Moved, RowsKept
  <2> QED
      BY <1>2, <2>1, <2>2 DEF t
<1> QED
    BY <1>2, <1>6, <1>7

--------------------------------------------------------------------------------
\* Cancelling and expiring release the reservation of a row that stays.
LEMMA ClosedOrderSound ==
    ASSUME NEW s, Sound(s), NEW o \in OrderIds, s.orders[o].status # "NONE",
           NEW st \in Statuses \ {"NONE"}, NEW a \in Int
    PROVE  LET t == [SetStatus(s, o, st) EXCEPT !.avail = a]
           IN Sound(t) /\ SameHoldings(s, t)
<1> DEFINE t1 == SetStatus(s, o, st)
<1>1. Sound(t1) /\ SameHoldings(s, t1)
    BY SetStatusSound
<1> HIDE DEF t1
<1>2. Sound([t1 EXCEPT !.avail = a]) /\ SameHoldings(t1, [t1 EXCEPT !.avail = a])
    BY <1>1, CashChange
<1> QED
    BY <1>1, <1>2, SameThenSame DEF t1

\* cancel_order and the cancellations of the kill switch.
LEMMA CancelledOrderSound ==
    ASSUME NEW s, Sound(s), NEW o \in OrderIds, s.orders[o].status # "NONE"
    PROVE  Sound(CancelledOrder(s, o)) /\ SameHoldings(s, CancelledOrder(s, o))
<1> DEFINE ord == [s.orders[o] EXCEPT !.filled = 0]
           t1 == SetStatus(s, o, "CANCELLED")
           a == t1.avail + ReservedAmount(ord)
<1>1. s.orders[o] \in Order
    BY DEF Sound, State
<1>2. ord \in Order
    BY <1>1 DEF Order
<1>3. Sound(t1)
    BY SetStatusSound DEF Statuses
<1>4. CancelledOrder(s, o) = [t1 EXCEPT !.avail = a]
    BY DEF CancelledOrder
<1> HIDE DEF ord, t1
<1>5. t1.avail \in Int
    BY <1>3 DEF Sound, State
<1>6. a \in Int
    BY <1>2, <1>5, ReservedType
<1> HIDE DEF a
<1> QED
    BY <1>4, <1>6, ClosedOrderSound DEF t1, Statuses

\* The expiry sweep.
LEMMA ExpiredOrderSound ==
    ASSUME NEW s, Sound(s), NEW o \in OrderIds, s.orders[o].status # "NONE"
    PROVE  LET t == [SetStatus(s, o, "EXPIRED") EXCEPT
                        !.avail = @ + ReservedAmount(s.orders[o])]
           IN Sound(t) /\ SameHoldings(s, t)
<1> DEFINE t1 == SetStatus(s, o, "EXPIRED")
           a == t1.avail + ReservedAmount(s.orders[o])
<1>1. s.orders[o] \in Order
    BY DEF Sound, State
<1>2. Sound(t1)
    BY SetStatusSound DEF Statuses
<1> HIDE DEF t1
<1>3. t1.avail \in Int
    BY <1>2 DEF Sound, State
<1>4. a \in Int
    BY <1>1, <1>3, ReservedType
<1> HIDE DEF a
<1>5. Sound([t1 EXCEPT !.avail = a]) /\ SameHoldings(s, [t1 EXCEPT !.avail = a])
    BY <1>4, ClosedOrderSound DEF t1, Statuses
<1> QED
    BY <1>5 DEF a, t1

\* PATCH never leaves an order of no shares.
LEMMA EditedSound ==
    ASSUME NEW s, Sound(s), NEW o \in OrderIds, s.orders[o].status # "NONE",
           NEW e \in Edit
    PROVE  LET t == [s EXCEPT !.orders[o] = Edited(s.orders[o], e)]
           IN Sound(t) /\ SameHoldings(s, t)
<1> DEFINE ord == s.orders[o]
           q == IF e.qty # 0 THEN e.qty ELSE ord.qty
           px == IF e.price # 0 THEN e.price ELSE ord.price
           tr == IF e.trig # 0 THEN e.trig ELSE ord.trig
           tk == IF e.tp # 0 THEN e.tp ELSE ord.tp
           row == [ord EXCEPT !.qty = q, !.price = px, !.trig = tr, !.tp = tk,
                              !.edited = TRUE]
<1>1. ord \in Order /\ s.orders \in [OrderIds -> Order]
    BY DEF Sound, State
<1>2. ord.qty > 0
    BY DEF Sound
<1>3. Edited(ord, e) = row
    BY DEF Edited
<1> HIDE DEF ord
<1>4. /\ e.qty \in Nat /\ e.price \in Nat /\ e.trig \in Nat /\ e.tp \in Nat
    BY DEF Edit
<1>5. /\ ord.qty \in Nat /\ ord.price \in Nat /\ ord.trig \in Nat /\ ord.tp \in Nat
    BY <1>1 DEF Order
<1>6. q \in Nat /\ q > 0 /\ px \in Nat /\ tr \in Nat /\ tk \in Nat
    BY <1>2, <1>4, <1>5
<1> HIDE DEF q, px, tr, tk
<1>7. row \in Order /\ row.status = ord.status /\ row.qty = q
    BY <1>1, <1>6 DEF Order
<1> HIDE DEF row
<1>8. row.status # "NONE" /\ row.qty > 0
    BY <1>6, <1>7 DEF ord
<1> DEFINE t == [s EXCEPT !.orders = [s.orders EXCEPT ![o] = row]]
<1>9. Sound(t) /\ SameHoldings(s, t)
    BY <1>7, <1>8, OneOrderChange
<1> QED
    BY <1>1, <1>3, <1>9 DEF ord

\* Marking the holdings to the quote moves no position.
LEMMA SummarySound ==
    ASSUME NEW s, Sound(s), Delivered(s), NEW px \in Nat
    PROVE  LET t == Recalculate([s EXCEPT !.hold =
                        [p \in ProductTypes |-> Position(s.hold[p].qty, s.hold[p].avg, px)]])
           IN Sound(t) /\ Delivered(t)
<1> DEFINE x == [p \in ProductTypes |-> Position(s.hold[p].qty, s.hold[p].avg, px)]
           t1 == [s EXCEPT !.hold = x]
<1>1. s \in State /\ s.hold \in [ProductTypes -> Holding]
    BY DEF Sound, State
<1>2. \A p \in ProductTypes : s.hold[p].qty \in Int /\ s.hold[p].avg \in Int
    BY <1>1 DEF Holding
<1>3. \A p \in ProductTypes : x[p] \in Holding /\ x[p].qty = s.hold[p].qty
  <2> TAKE p \in ProductTypes
  <2> DEFINE q == s.hold[p].qty
             av == s.hold[p].avg
  <2>1. q \in Int /\ av \in Int
      BY <1>2
  <2>2. x[p] = Position(q, av, px)
      OBVIOUS
  <2> HIDE DEF q, av, x
  <2>3. av * q \in Int /\ px * q \in Int
      BY <2>1
  <2>4. Position(q, av, px) \in Holding /\ Position(q, av, px).qty = q
      BY <2>1, <2>3 DEF Position, Holding
  <2> QED
      BY <2>2, <2>4 DEF q
<1>4. x \in [ProductTypes -> Holding]
    BY <1>3
<1> HIDE DEF x
<1>5. /\ t1 \in State /\ t1.orders = s.orders /\ t1.hold = x /\ t1.net = s.net
      /\ t1.polled = s.polled
    BY <1>1, <1>4 DEF State
<1>6. Sound(t1)
    BY <1>3, <1>5 DEF Sound
<1>7. "CNC" \in ProductTypes
    BY DEF ProductTypes
<1>8. Delivered(t1)
    BY <1>3, <1>5, <1>7 DEF Delivered
<1> HIDE DEF t1
<1>9. Sound(Recalculate(t1)) /\ SameHoldings(t1, Recalculate(t1))
    BY <1>6, RecalculateSound
<1>10. Delivered(Recalculate(t1))
    BY <1>8, <1>9, DeliveredSame
<1> QED
    BY <1>9, <1>10 DEF t1, x

\* The database a user starts with.
LEMMA InitSound == Sound(InitState) /\ Delivered(InitState)
<1>1. NoHolding \in Holding /\ NoHolding.qty = 0
    BY DEF NoHolding, Holding
<1>2. NoOrder \in Order /\ NoOrder.status = "NONE"
    BY DEF NoOrder, Order, Sides, OrderTypes, ProductTypes, Statuses
<1>3. InitState \in State
    BY <1>1, <1>2, ConstantsAssumption DEF InitState, State
<1>4. /\ \A o \in OrderIds : InitState.orders[o].status = "NONE"
      /\ \A p \in ProductTypes : InitState.hold[p].qty = 0 /\ InitState.net[p] = 0
    BY <1>1, <1>2 DEF InitState
<1> QED
    BY <1>3, <1>4 DEF Sound, Delivered, ProductTypes

--------------------------------------------------------------------------------
\* The kill switch closes positions that exist, and the rows of its closing orders
\* fit into the table.
RoomToClose(s, C) ==
    /\ s.n + Cardinality(C) <= MaxOrders
    /\ \A p \in C : s.hold[p].qty # 0
Held(s) == {p \in ProductTypes : s.hold[p].qty # 0}

\* The copy a handler works on is sound, and the orders it has yet to deal with exist.
SessionSound(ss) ==
    /\ ss \in Session
    /\ Sound(ss.st) /\ Delivered(ss.st)
    /\ \A o \in ss.todo : ss.st.orders[o].status # "NONE"
    /\ ss.kind = "kill" => RoomToClose(ss.st, Held(ss.st))
    /\ ss.kind = "close" => ss.todo = {} /\ RoomToClose(ss.st, ss.close)

\* The inductive invariant: what holds of the committed database also holds of the
\* copy a looping handler is about to commit.  While the kill switch cancels there is
\* nothing in the copy that is not committed.
IInv ==
    /\ Sound(db) /\ Delivered(db)
    /\ SessionSound(sess)
    /\ sess.kind = "kill" => sess.st = db
    /\ price \in Prices

\* No handler runs.
LEMMA IdleSound == SessionSound(Idle)
<1>1. Sound(InitState) /\ Delivered(InitState)
    BY InitSound
<1>2. InitState \in State
    BY <1>1 DEF Sound
<1>3. Idle \in Session
    BY <1>2 DEF Idle, Session
<1>4. Idle.st = InitState /\ Idle.todo = {} /\ Idle.kind = "none"
    BY DEF Idle
<1> QED
    BY <1>1, <1>3, <1>4 DEF SessionSound

\* A handler other than the kill switch begins with the rows it found.
LEMMA BeginSound ==
    ASSUME NEW s, Sound(s), Delivered(s), NEW k \in {"tick", "poll", "expire"},
           NEW T \in SUBSET OrderIds, \A o \in T : s.orders[o].status # "NONE",
           NEW px \in Nat
    PROVE  SessionSound([kind |-> k, st |-> s, todo |-> T, close |-> {}, px |-> px,
                         filled |-> FALSE])
<1> DEFINE u == [kind |-> k, st |-> s, todo |-> T, close |-> {}, px |-> px,
                 filled |-> FALSE]
<1>1. s \in State
    BY DEF Sound
<1>2. u \in Session
    BY <1>1 DEF Session
<1>3. u.st = s /\ u.todo = T /\ u.kind # "kill" /\ u.kind # "close"
    OBVIOUS
<1> HIDE DEF u
<1>4. SessionSound(u)
    BY <1>2, <1>3 DEF SessionSound
<1> QED
    BY <1>4 DEF u

\* A handler other than the kill switch has dealt with one of its orders.
LEMMA LoopSound ==
    ASSUME NEW ss, SessionSound(ss), ss.kind \notin {"kill", "close"}, NEW o, NEW x, Sound(x),
           Delivered(x), RowsKept(ss.st, x), NEW f \in BOOLEAN
    PROVE  /\ SessionSound([ss EXCEPT !.todo = @ \ {o}, !.st = x])
           /\ SessionSound([ss EXCEPT !.todo = @ \ {o}, !.filled = f, !.st = x])
<1> DEFINE T == ss.todo \ {o}
           u == [ss EXCEPT !.todo = T, !.st = x]
           v == [ss EXCEPT !.todo = T, !.filled = f, !.st = x]
<1>1. ss \in Session /\ ss.todo \in SUBSET OrderIds
    BY DEF SessionSound, Session
<1>2. x \in State
    BY DEF Sound
<1>3. T \in SUBSET OrderIds
    BY <1>1
<1>4. \A i \in T : x.orders[i].status # "NONE"
    BY <1>1 DEF SessionSound, RowsKept
<1> HIDE DEF T
<1>5. /\ u \in Session /\ u.st = x /\ u.todo = T /\ u.kind = ss.kind
      /\ v \in Session /\ v.st = x /\ v.todo = T /\ v.kind = ss.kind
    BY <1>1, <1>2, <1>3 DEF Session
<1> HIDE DEF u, v
<1>6. SessionSound(u) /\ SessionSound(v)
    BY <1>4, <1>5 DEF SessionSound
<1> QED
    BY <1>6 DEF u, v, T

\* Every step of the invariant that leaves the database alone is about the session.
LEMMA OnlySession ==
    ASSUME IInv, SessionSound(sess'), sess'.kind = "kill" => sess'.st = db,
           UNCHANGED <<db, price>>
    PROVE  IInv'
BY DEF IInv

\* Every step of the invariant that leaves the session alone is about the database.
LEMMA OnlyDatabase ==
    ASSUME IInv, Sound(db'), Delivered(db'), sess.kind = "none", UNCHANGED <<sess, price>>
    PROVE  IInv'
BY DEF IInv

\* A handler that evaluates or expires one order goes on as it was.
LEMMA SameKind ==
    ASSUME IInv, NEW o, EvaluateOrder(o) \/ PollOrder(o) \/ ExpireOrder(o)
    PROVE  sess'.kind = sess.kind /\ sess.kind # "kill"
BY DEF IInv, SessionSound, Session, EvaluateOrder, PollOrder, ExpireOrder

\* Every row that is open exists.
LEMMA OpenExists ==
    ASSUME NEW s, NEW o \in OpenOrders(s)
    PROVE  o \in OrderIds /\ s.orders[o].status # "NONE"
BY DEF OpenOrders

--------------------------------------------------------------------------------
\* A quote is a price.
LEMMA PriceType == IInv => price \in Nat
BY ConstantsAssumption DEF IInv

\* place_order.
LEMMA PlaceStep == ASSUME IInv, NEW r \in Requests, PlaceOrder(r) PROVE IInv'
<1>1. r \in Request
    BY ConstantsAssumption
<1>2. db.n \in Nat
    BY DEF IInv, Sound, State
<1>3. db.n + 1 \in OrderIds
    BY <1>2, ConstantsAssumption DEF PlaceOrder, RowsFor, OrderIds
<1>4. Sound(db') /\ Delivered(db')
    BY <1>1, <1>3, PriceType, PlacedSound DEF PlaceOrder, IInv
<1> QED
    BY <1>4, OnlyDatabase DEF PlaceOrder

\* The order worker begins an evaluation.
LEMMA BeginTickStep == ASSUME IInv, BeginTick PROVE IInv'
<1>1. sess' = [kind |-> "tick", st |-> db, todo |-> OpenOrders(db), close |-> {},
               px |-> price, filled |-> FALSE]
    BY DEF BeginTick, Idle
<1>2. \A o \in OpenOrders(db) : db.orders[o].status # "NONE"
    BY OpenExists
<1>3. OpenOrders(db) \in SUBSET OrderIds
    BY DEF OpenOrders
<1>4. SessionSound(sess')
    BY <1>1, <1>2, <1>3, PriceType, BeginSound DEF IInv
<1> QED
    BY <1>1, <1>4, OnlySession DEF BeginTick

\* GET /orders begins an evaluation.
LEMMA BeginPollStep == ASSUME IInv, BeginPoll PROVE IInv'
<1>1. sess' = [kind |-> "poll", st |-> db, todo |-> OpenOrders(db), close |-> {},
               px |-> 0, filled |-> FALSE]
    BY DEF BeginPoll, Idle
<1>2. \A o \in OpenOrders(db) : db.orders[o].status # "NONE"
    BY OpenExists
<1>3. OpenOrders(db) \in SUBSET OrderIds
    BY DEF OpenOrders
<1>4. SessionSound(sess')
    BY <1>1, <1>2, <1>3, BeginSound DEF IInv
<1> QED
    BY <1>1, <1>4, OnlySession DEF BeginPoll

\* The expiry sweep begins.
LEMMA BeginExpiryStep ==
    ASSUME IInv, NEW T \in SUBSET OrderIds, BeginExpirySweep(T) PROVE IInv'
<1>1. sess' = [kind |-> "expire", st |-> db, todo |-> T, close |-> {},
               px |-> 0, filled |-> FALSE]
    BY DEF BeginExpirySweep, Idle
<1>2. \A o \in T : db.orders[o].status # "NONE"
    BY OpenExists DEF BeginExpirySweep
<1>3. SessionSound(sess')
    BY <1>1, <1>2, BeginSound DEF IInv
<1> QED
    BY <1>1, <1>3, OnlySession DEF BeginExpirySweep

\* The order worker has evaluated one order: not due, cancelled or filled.
LEMMA EvaluateStep == ASSUME IInv, NEW o \in OrderIds, EvaluateOrder(o) PROVE IInv'
<1> DEFINE s == sess.st
           ord == s.orders[o]
           x == IF ~ShouldFill(ord, sess.px) THEN s
                ELSE IF ~HoldingCovers(s, ord) THEN SetStatus(s, o, "CANCELLED")
                ELSE WorkerFill(s, o, sess.px)
           f == sess.filled \/ (ShouldFill(ord, sess.px) /\ HoldingCovers(s, ord))
<1>1. SessionSound(sess) /\ sess.kind \notin {"kill", "close"} /\ o \in sess.todo
    BY DEF IInv, EvaluateOrder
<1>2. Sound(s) /\ Delivered(s) /\ ord.status # "NONE" /\ sess \in Session
    BY <1>1 DEF SessionSound
<1>3. sess.px \in Nat /\ sess.filled \in BOOLEAN
    BY <1>2 DEF Session
<1>4. ord \in Order
    BY <1>2 DEF Sound, State
<1>5. ord.side \in Sides /\ ord.product \in ProductTypes /\ ord.qty \in Nat
    BY <1>4 DEF Order
<1>6. sess' = [sess EXCEPT !.todo = @ \ {o}, !.filled = f, !.st = x]
    BY DEF EvaluateOrder
<1>7. f \in BOOLEAN
    OBVIOUS
<1> HIDE DEF f
<1>8. Sound(x) /\ Delivered(x) /\ RowsKept(s, x)
  <2>1. CASE ~ShouldFill(ord, sess.px)
      BY <1>2, <2>1 DEF RowsKept
  <2>2. CASE ShouldFill(ord, sess.px) /\ ~HoldingCovers(s, ord)
    <3>1. x = SetStatus(s, o, "CANCELLED")
        BY <2>2
    <3> HIDE DEF s, x
    <3>2. Sound(x) /\ SameHoldings(s, x)
        BY <1>2, <3>1, SetStatusSound DEF Statuses
    <3>3. Delivered(x)
        BY <1>2, <3>2, DeliveredSame
    <3> QED
        BY <3>2, <3>3 DEF SameHoldings, RowsKept
  <2>3. CASE ShouldFill(ord, sess.px) /\ HoldingCovers(s, ord)
    <3>1. x = WorkerFill(s, o, sess.px)
        BY <2>3
    <3>2. (ord.side = "SELL" /\ ord.product = "CNC") => s.hold[ord.product].qty >= ord.qty
        BY <2>3 DEF HoldingCovers
    <3> HIDE DEF s, x
    <3>3. Sound(x) /\ Moved(s, x, ord.side, ord.product, ord.qty)
        BY <1>2, <1>3, <3>1, WorkerFillSound
    <3> HIDE DEF ord
    <3>4. Delivered(x)
        BY <1>2, <1>5, <3>2, <3>3, DeliveredStep
    <3> QED
        BY <3>3, <3>4 DEF Moved, RowsKept
  <2> QED
      BY <2>1, <2>2, <2>3
<1> HIDE DEF x
<1>9. SessionSound(sess')
    BY <1>1, <1>6, <1>7, <1>8, LoopSound DEF s
<1> QED
    BY <1>9, OnlySession, SameKind DEF EvaluateOrder

\* GET /orders has evaluated one order.
LEMMA PollStep == ASSUME IInv, NEW o \in OrderIds, PollOrder(o) PROVE IInv'
<1> DEFINE s == sess.st
           x == IF PollTriggered(s.orders[o], price) THEN PollFill(s, o, price) ELSE s
<1>1. SessionSound(sess) /\ sess.kind \notin {"kill", "close"} /\ o \in sess.todo
    BY DEF IInv, PollOrder
<1>2. Sound(s) /\ Delivered(s) /\ s.orders[o].status # "NONE"
    BY <1>1 DEF SessionSound
<1>3. sess' = [sess EXCEPT !.todo = @ \ {o}, !.st = x]
    BY DEF PollOrder
<1>4. RowsKept(s, s)
    BY DEF RowsKept
<1> HIDE DEF s
<1>5. Sound(x) /\ Delivered(x) /\ RowsKept(s, x)
    BY <1>2, <1>4, PriceType, PollFillSound
<1> HIDE DEF x
<1>6. SessionSound(sess')
    BY <1>1, <1>3, <1>5, LoopSound DEF s
<1> QED
    BY <1>6, OnlySession, SameKind DEF PollOrder

\* The sweep has expired one order.
LEMMA ExpireStep == ASSUME IInv, NEW o \in OrderIds, ExpireOrder(o) PROVE IInv'
<1> DEFINE s == sess.st
           x == [SetStatus(s, o, "EXPIRED") EXCEPT !.avail = @ + ReservedAmount(s.orders[o])]
<1>1. SessionSound(sess) /\ sess.kind \notin {"kill", "close"} /\ o \in sess.todo
    BY DEF IInv, ExpireOrder
<1>2. Sound(s) /\ Delivered(s) /\ s.orders[o].status # "NONE"
    BY <1>1 DEF SessionSound
<1>3. sess' = [sess EXCEPT !.todo = @ \ {o}, !.st = x]
    BY DEF ExpireOrder
<1> HIDE DEF s
<1>4. Sound(x) /\ SameHoldings(s, x)
    BY <1>2, ExpiredOrderSound
<1> HIDE DEF x
<1>5. Delivered(x) /\ RowsKept(s, x)
    BY <1>2, <1>4, DeliveredSame DEF SameHoldings, RowsKept
<1>6. SessionSound(sess')
    BY <1>1, <1>3, <1>4, <1>5, LoopSound DEF s
<1> QED
    BY <1>6, OnlySession, SameKind DEF ExpireOrder

\* What a handler commits is what its copy satisfies.
LEMMA CommitStep == ASSUME IInv, EndTick \/ EndSession PROVE IInv'
<1>1. Sound(sess.st) /\ Delivered(sess.st) /\ Sound(db) /\ Delivered(db)
    BY DEF IInv, SessionSound
<1>2. (db' = sess.st \/ db' = db) /\ sess' = Idle /\ price' = price
    BY DEF EndTick, EndSession
<1>3. Sound(db') /\ Delivered(db')
    BY <1>1, <1>2
<1>4. SessionSound(sess') /\ sess'.kind # "kill"
    BY <1>2, IdleSound DEF Idle
<1> QED
    BY <1>2, <1>3, <1>4 DEF IInv

\* cancel_order.
LEMMA CancelStep == ASSUME IInv, NEW o \in OrderIds, CancelOrder(o) PROVE IInv'
<1>1. db.orders[o].status # "NONE"
    BY OpenExists DEF CancelOrder
<1>2. Sound(db') /\ SameHoldings(db, db')
    BY <1>1, CancelledOrderSound DEF CancelOrder, IInv
<1>3. Delivered(db')
    BY <1>2, DeliveredSame DEF IInv
<1> QED
    BY <1>2, <1>3, OnlyDatabase DEF CancelOrder

\* PATCH /orders/{id}.
LEMMA ModifyStep ==
    ASSUME IInv, NEW o \in OrderIds, NEW e \in Edits, ModifyOrder(o, e) PROVE IInv'
<1>1. db.orders[o].status # "NONE" /\ e \in Edit
    BY OpenExists, ConstantsAssumption DEF ModifyOrder
<1>2. db' = [db EXCEPT !.orders[o] = Edited(db.orders[o], e)]
    BY DEF ModifyOrder
<1>3. Sound(db') /\ SameHoldings(db, db')
    BY <1>1, <1>2, EditedSound DEF IInv
<1>4. Delivered(db')
    BY <1>3, DeliveredSame DEF IInv
<1> QED
    BY <1>3, <1>4, OnlyDatabase DEF ModifyOrder

\* GET /portfolio.
LEMMA SummaryStep == ASSUME IInv, GetPortfolioSummary PROVE IInv'
<1>1. Sound(db') /\ Delivered(db')
    BY PriceType, SummarySound DEF GetPortfolioSummary, IInv
<1> QED
    BY <1>1, OnlyDatabase DEF GetPortfolioSummary

\* A user has a handful of product types.
LEMMA ProductTypesFinite == IsFiniteSet(ProductTypes)
<1>1. IsFiniteSet({"CNC"}) /\ IsFiniteSet({"MIS"}) /\ IsFiniteSet({"NRML"})
    BY FS_Singleton
<1>2. IsFiniteSet({"CNC"} \cup {"MIS"})
    BY <1>1, FS_Union
<1>3. IsFiniteSet(({"CNC"} \cup {"MIS"}) \cup {"NRML"})
    BY <1>1, <1>2, FS_Union
<1>4. ProductTypes = ({"CNC"} \cup {"MIS"}) \cup {"NRML"}
    BY DEF ProductTypes
<1> QED
    BY <1>3, <1>4

\* The kill switch begins with the rows and the positions it found.
LEMMA BeginKillStep == ASSUME IInv, BeginKillSwitch PROVE IInv'
<1> DEFINE u == [kind |-> "kill", st |-> db, todo |-> OpenOrders(db), close |-> {},
                 px |-> 0, filled |-> FALSE]
<1>1. sess' = u
    BY DEF BeginKillSwitch, Idle
<1>2. db \in State /\ OpenOrders(db) \in SUBSET OrderIds
    BY DEF IInv, Sound, OpenOrders
<1>3. RoomToClose(db, Held(db))
    BY DEF BeginKillSwitch, RoomToClose, Held
<1>4. \A o \in OpenOrders(db) : db.orders[o].status # "NONE"
    BY OpenExists
<1>5. u \in Session
    BY <1>2 DEF Session
<1>6. u.st = db /\ u.todo = OpenOrders(db) /\ u.kind = "kill"
    OBVIOUS
<1> HIDE DEF u
<1>7. SessionSound(u)
    BY <1>3, <1>4, <1>5, <1>6 DEF SessionSound, IInv
<1> QED
    BY <1>1, <1>6, <1>7, OnlySession DEF BeginKillSwitch

\* A cancellation of the kill switch is committed, and moves no position it is about
\* to close.
LEMMA KillCancelStep == ASSUME IInv, NEW o \in OrderIds, KillCancel(o) PROVE IInv'
<1> DEFINE s == sess.st
           x == CancelledOrder(s, o)
           T == sess.todo \ {o}
           u == [sess EXCEPT !.todo = T, !.st = x]
<1>1. SessionSound(sess) /\ o \in sess.todo /\ sess.kind = "kill" /\ s = db
    BY DEF IInv, KillCancel
<1>2. /\ Sound(s) /\ Delivered(s) /\ s.orders[o].status # "NONE" /\ sess \in Session
      /\ RoomToClose(s, Held(s)) /\ \A i \in sess.todo : s.orders[i].status # "NONE"
    BY <1>1 DEF SessionSound
<1>3. sess.todo \in SUBSET OrderIds
    BY <1>2 DEF Session
<1>4. sess' = u /\ db' = x /\ price' = price
    BY <1>1 DEF KillCancel
<1> HIDE DEF s
<1>5. Sound(x) /\ SameHoldings(s, x)
    BY <1>2, CancelledOrderSound
<1> HIDE DEF x
<1>6. Delivered(x) /\ x \in State
    BY <1>2, <1>5, DeliveredSame DEF Sound
<1>7. T \in SUBSET OrderIds
    BY <1>3
<1>8. \A i \in T : x.orders[i].status # "NONE"
    BY <1>2, <1>3, <1>5 DEF SameHoldings
<1> HIDE DEF T
<1>9. u \in Session /\ u.st = x /\ u.todo = T /\ u.kind = "kill"
    BY <1>1, <1>2, <1>6, <1>7 DEF Session
<1> HIDE DEF u
<1>10. RoomToClose(x, Held(x))
  <2>1. Held(x) = Held(s)
      BY <1>5 DEF Held, SameHoldings
  <2> QED
      BY <1>2, <1>5, <2>1 DEF RoomToClose, SameHoldings
<1>11. SessionSound(u)
    BY <1>5, <1>6, <1>8, <1>9, <1>10 DEF SessionSound
<1> QED
    BY <1>4, <1>5, <1>6, <1>9, <1>11 DEF IInv

\* The kill switch goes on to the positions it finds.
LEMMA ReadHoldingsStep == ASSUME IInv, ReadHoldings PROVE IInv'
<1> DEFINE C == Held(sess.st)
           u == [sess EXCEPT !.kind = "close", !.close = C]
<1>1. SessionSound(sess) /\ sess.todo = {} /\ sess.kind = "kill" /\ sess.st = db
    BY DEF IInv, ReadHoldings
<1>2. sess' = u
    BY <1>1 DEF ReadHoldings, Held
<1>3. sess \in Session /\ RoomToClose(sess.st, C)
    BY <1>1 DEF SessionSound
<1>4. C \in SUBSET ProductTypes
    BY DEF Held
<1> HIDE DEF C
<1>5. u \in Session /\ u.st = sess.st /\ u.todo = {} /\ u.close = C /\ u.kind = "close"
    BY <1>1, <1>3, <1>4 DEF Session
<1> HIDE DEF u
<1>6. SessionSound(u)
    BY <1>1, <1>3, <1>5 DEF SessionSound
<1> QED
    BY <1>2, <1>5, <1>6, OnlySession DEF ReadHoldings

\* A closing order trades one position and leaves room for the remaining ones.
LEMMA KillCloseStep == ASSUME IInv, NEW p \in ProductTypes, KillClose(p) PROVE IInv'
<1> DEFINE s == sess.st
           q == s.hold[p].qty
           r == CloseRequest(p, q)
           x == IF CanPlace(s, r, price) THEN Placed(s, r, price) ELSE s
           C == sess.close \ {p}
           u == [sess EXCEPT !.close = C, !.st = x]
<1>1. /\ SessionSound(sess) /\ p \in sess.close /\ sess.kind = "close"
      /\ sess.todo = {} /\ sess' = u
    BY DEF IInv, KillClose, SessionSound
<1>2. /\ Sound(s) /\ Delivered(s) /\ sess \in Session
      /\ s.n + Cardinality(sess.close) <= MaxOrders
      /\ \A i \in sess.close : s.hold[i].qty # 0
    BY <1>1 DEF SessionSound, RoomToClose
<1>3. /\ sess.close \in SUBSET ProductTypes
    BY <1>2 DEF Session
<1>4. s.n \in Nat /\ s.hold[p] \in Holding
    BY <1>2 DEF Sound, State
<1>5. q \in Int /\ q # 0
    BY <1>1, <1>2, <1>4 DEF Holding
<1>6. IsFiniteSet(sess.close)
    BY <1>3, ProductTypesFinite, FS_Subset
<1>7. /\ Cardinality(C) = Cardinality(sess.close) - 1
      /\ Cardinality(sess.close) \in Nat /\ Cardinality(C) \in Nat
  <2>1. IsFiniteSet(C)
      BY <1>6, FS_Subset
  <2>2. Cardinality(C) = Cardinality(sess.close) - 1
      BY <1>1, <1>6, FS_RemoveElement
  <2> QED
      BY <1>6, <2>1, <2>2, FS_CardinalityType
<1>8. s.n + 1 \in OrderIds /\ s.n + 1 + Cardinality(C) <= MaxOrders
    BY <1>2, <1>4, <1>7, ConstantsAssumption DEF OrderIds
<1> HIDE DEF q
<1>9. r \in Request /\ r.product = p /\ RowsFor(r) = 1
  <2>1. (IF q > 0 THEN "SELL" ELSE "BUY") \in Sides
      BY DEF Sides
  <2>2. (IF q > 0 THEN q ELSE -q) \in Nat \ {0}
      BY <1>5
  <2>3. "MARKET" \in OrderTypes
      BY DEF OrderTypes
  <2>4. r \in Request
      BY <2>1, <2>2, <2>3 DEF CloseRequest, Request
  <2> QED
      BY <2>4 DEF CloseRequest, RowsFor
<1> HIDE DEF s, r
<1>10. /\ Sound(x) /\ Delivered(x) /\ x.n <= s.n + 1
       /\ \A i \in ProductTypes \ {p} : x.hold[i].qty = s.hold[i].qty
  <2>1. CASE CanPlace(s, r, price)
      BY <1>2, <1>4, <1>8, <1>9, <2>1, PriceType, PlacedSound
  <2>2. CASE ~CanPlace(s, r, price)
      BY <1>2, <1>4, <2>2
  <2> QED
      BY <2>1, <2>2
<1> HIDE DEF x
<1>11. x \in State /\ x.n \in Nat
    BY <1>10 DEF Sound, State
<1>12. C \in SUBSET ProductTypes /\ \A i \in C : i # p /\ i \in sess.close
    BY <1>3
<1> HIDE DEF C
<1>13. u \in Session /\ u.st = x /\ u.todo = {} /\ u.close = C /\ u.kind = "close"
    BY <1>1, <1>2, <1>11, <1>12 DEF Session
<1> HIDE DEF u
<1>14. RoomToClose(x, C)
  <2>1. x.n + Cardinality(C) <= MaxOrders
      BY <1>4, <1>7, <1>8, <1>10, <1>11, ConstantsAssumption
  <2>2. \A i \in C : x.hold[i].qty # 0
      BY <1>2, <1>10, <1>12
  <2> QED
      BY <2>1, <2>2 DEF RoomToClose
<1>15. SessionSound(u)
    BY <1>10, <1>13, <1>14 DEF SessionSound
<1> QED
    BY <1>1, <1>13, <1>15, OnlySession DEF KillClose

\* A quote replaces a quote.
LEMMA QuoteStep == ASSUME IInv, NEW px \in Prices, MoveQuote(px) PROVE IInv'
BY DEF MoveQuote, IInv

--------------------------------------------------------------------------------
\* Every handler, started in a database that satisfies the invariant, commits one
\* that satisfies it.
THEOREM InvariantHolds == Spec => []IInv
<1>1. Init => IInv
  <2>1. Idle.kind # "kill"
      BY DEF Idle
  <2> QED
      BY <2>1, InitSound, IdleSound DEF Init, IInv
<1>2. IInv /\ [Next]_vars => IInv'
  <2> SUFFICES ASSUME IInv, [Next]_vars PROVE IInv'
      OBVIOUS
  <2>1. CASE \E r \in Requests : PlaceOrder(r)
      BY <2>1, PlaceStep
  <2>2. CASE BeginTick \/ BeginPoll \/ BeginKillSwitch
      BY <2>2, BeginTickStep, BeginPollStep, BeginKillStep
  <2>3. CASE \E o \in OrderIds : EvaluateOrder(o)
      BY <2>3, EvaluateStep
  <2>4. CASE EndTick \/ EndSession
      BY <2>4, CommitStep
  <2>5. CASE \E o \in OrderIds : PollOrder(o)
      BY <2>5, PollStep
  <2>6. CASE \E o \in OrderIds : CancelOrder(o)
      BY <2>6, CancelStep
  <2>7. CASE \E S \in SUBSET OrderIds : BeginExpirySweep(S)
      BY <2>7, BeginExpiryStep
  <2>8. CASE \E o \in OrderIds : ExpireOrder(o)
      BY <2>8, ExpireStep
  <2>9. CASE \E o \in OrderIds, e \in Edits : ModifyOrder(o, e)
      BY <2>9, ModifyStep
  <2>10. CASE ReadHoldings \/ \E o \in OrderIds : KillCancel(o)
      BY <2>10, KillCancelStep, ReadHoldingsStep
  <2>11. CASE \E p \in ProductTypes : KillClose(p)
      BY <2>11, KillCloseStep
  <2>12. CASE GetPortfolioSummary
      BY <2>12, SummaryStep
  <2>13. CASE \E px \in Prices : MoveQuote(px)
      BY <2>13, QuoteStep
  <2>14. CASE UNCHANGED vars
      BY <2>14 DEF vars, IInv
  <2> QED
      BY <2>1, <2>2, <2>3, <2>4, <2>5, <2>6, <2>7, <2>8, <2>9, <2>10, <2>11,
         <2>12, <2>13, <2>14 DEF Next
<1> QED
    BY <1>1, <1>2, PTL DEF Spec

\* Rows, holdings and the copy of a looping handler always have their types.
THEOREM TypesHold == Spec => []TypeOK
<1>1. IInv => TypeOK
    BY DEF IInv, TypeOK, Sound, SessionSound
<1> QED
    BY <1>1, InvariantHolds, PTL

\* However many orders are placed, filled at a tick, filled by GET /orders or closed
\* by the kill switch, the position of each product type is the signed sum of its
\* transactions.
THEOREM PositionsMatchTransactions == Spec => []PositionIsNetOfTransactions
<1>1. IInv => PositionIsNetOfTransactions
    BY DEF IInv, PositionIsNetOfTransactions, Sound
<1> QED
    BY <1>1, InvariantHolds, PTL

\* Placement, the order worker and the kill switch never sell delivery shares that
\* are not held: only GET /orders does.
THEOREM DeliverySafe == Spec => []DeliveryNeverShort
<1>1. IInv => DeliveryNeverShort
    BY DEF IInv, DeliveryNeverShort, Delivered
<1> QED
    BY <1>1, InvariantHolds, PTL

--------------------------------------------------------------------------------
(***************************************************************************)
(* Proofs about the life of an order in TradingEngine, for every number of *)
(* orders, every set of quotes, requests and edits, and every risk limit:  *)
(* an exit that is checked against the position only reduces it, at most   *)
(* one leg of a bracket is filled, and the kill switch leaves nothing it   *)
(* could have closed.                                                      *)
(*                                                                         *)
(* The argument follows the rows of the orders table.  Each function of    *)
(* the trading engine gets a lemma that says which rows it turns, which    *)
(* ones it cancels on the way (Kept) and which ones it inserts; two lemmas *)
(* (TurnedBook, BracketBook) show that such changes keep the table in      *)
(* order (Book); and OInv adds what a looping handler has found out about  *)
(* the rows it has yet to deal with.                                       *)
(***************************************************************************)

\* A status nothing leads out of.
Terminal == {"FILLED", "CANCELLED", "EXPIRED"}

\* The columns only PATCH changes.
Terms(a, b) ==
    /\ b.type = a.type /\ b.side = a.side /\ b.product = a.product /\ b.qty = a.qty
    /\ b.price = a.price /\ b.trig = a.trig /\ b.tp = a.tp
    /\ b.parent = a.parent /\ b.edited = a.edited

\* A row that was left alone, or cancelled while it was open.
Kept(a, b) ==
    /\ Terms(a, b) /\ b.by = a.by
    /\ b.status = a.status \/ (a.status = "OPEN" /\ b.status = "CANCELLED")

\* A row that was filled, cancelled or has expired.
Turned(a, b) == Terms(a, b) /\ b.status \in Terminal

\* The row b of a leg of entry e at row o, inserted as one of the given type.
Leg(e, o, type, b) ==
    /\ b.type = type /\ b.parent = o /\ b.edited = FALSE /\ b.by = ""
    /\ b.side = (IF e.side = "BUY" THEN "SELL" ELSE "BUY")
    /\ type = "STOP_LOSS" => b.trig = e.trig
    /\ type = "TAKE_PROFIT" => b.price = e.tp
    /\ b.status \in {"OPEN", "CANCELLED"}

\* Order o is filled by a handler of the given name; the others are kept, and the
\* two rows after a bracket become its legs.
AllKept(s, t) == \A i \in OrderIds : Kept(s.orders[i], t.orders[i])
KeptBut(s, t, X) == \A i \in OrderIds \ X : Kept(s.orders[i], t.orders[i])
LegRows(o) == {SlLeg(o), TpLeg(o)}
LegsMade(s, t, o) ==
    /\ SlLeg(o) \in OrderIds => Leg(s.orders[o], o, "STOP_LOSS", t.orders[SlLeg(o)])
    /\ TpLeg(o) \in OrderIds => Leg(s.orders[o], o, "TAKE_PROFIT", t.orders[TpLeg(o)])
FilledBy(a, b, by) == Terms(a, b) /\ b.status = "FILLED" /\ b.by = by

\* A row that is left alone is kept.
LEMMA KeptSame == ASSUME NEW a PROVE Kept(a, a)
BY DEF Kept, Terms

\* What is kept twice is kept.
LEMMA KeptTwice == ASSUME NEW a, NEW b, NEW c, Kept(a, b), Kept(b, c) PROVE Kept(a, c)
BY DEF Kept, Terms

\* A row that is no longer open is left alone.
LEMMA KeptClosed ==
    ASSUME NEW a, NEW b, NEW c, NEW by, FilledBy(a, b, by), Kept(b, c) PROVE FilledBy(a, c, by)
BY DEF Kept, Terms, FilledBy

\* A row cancelled while open.
LEMMA KeptCancelled ==
    ASSUME NEW a \in Order, a.status = "OPEN"
    PROVE  Kept(a, [a EXCEPT !.status = "CANCELLED"])
BY DEF Order, Kept, Terms

\* A portfolio update cancels exit orders and turns nothing else.
LEMMA UpdateRows ==
    ASSUME NEW s, Sound(s), NEW o \in OrderIds, s.orders[o].status # "NONE", NEW px \in Nat
    PROVE  AllKept(s, UpdatePortfolioOnFill(s, o, px))
<1> DEFINE ord == s.orders[o]
           p == ord.product
           fill == ApplyFill(ord.side, p, s.hold[p], ord.qty, px)
           sign == IF ord.side = "BUY" THEN ord.qty ELSE -ord.qty
           xo == IF fill.gone THEN CancelOrphanedExits(s.orders) ELSE s.orders
           t == [orders |-> xo, n |-> s.n, hold |-> [s.hold EXCEPT ![p] = fill.hold],
                 avail |-> s.avail + fill.avail, pnl |-> s.pnl + fill.pnl,
                 net |-> [s.net EXCEPT ![p] = @ + sign], cash |-> s.cash - sign * px,
                 scaledIn |-> s.scaledIn \/ (ord.side = "SELL" /\ s.hold[p].qty < 0),
                 polled |-> s.polled,
                 dust |-> s.dust + FillDust(ord.side, p, s.hold[p], ord.qty)]
<1>1. UpdatePortfolioOnFill(s, o, px) = Recalculate(t)
    BY DEF UpdatePortfolioOnFill, BookFill
<1>2. Recalculate(t).orders = t.orders
    BY DEF Recalculate
<1>3. t.orders = xo
    OBVIOUS
<1>4. \A i \in OrderIds : s.orders[i] \in Order
    BY DEF Sound, State
<1> HIDE DEF t, fill
<1>5. \A i \in OrderIds : Kept(s.orders[i], xo[i])
  <2> TAKE i \in OrderIds
  <2>1. CASE xo[i] = s.orders[i]
      BY <2>1, KeptSame
  <2>2. CASE s.orders[i].status = "OPEN" /\ xo[i] = [s.orders[i] EXCEPT !.status = "CANCELLED"]
      BY <2>2, <1>4, KeptCancelled
  <2> QED
      BY <2>1, <2>2 DEF CancelOrphanedExits
<1> HIDE DEF xo
<1> QED
    BY <1>1, <1>2, <1>3, <1>5 DEF AllKept

\* Marking a row as filled.
LEMMA SetFilledRows ==
    ASSUME NEW s, Sound(s), NEW o \in OrderIds, NEW by \in {"place", "tick", "poll"}
    PROVE  /\ FilledBy(s.orders[o], SetFilled(s, o, by).orders[o], by)
           /\ \A i \in OrderIds \ {o} : SetFilled(s, o, by).orders[i] = s.orders[i]
<1> DEFINE a == s.orders[o]
           r == [a EXCEPT !.status = "FILLED", !.filled = a.qty, !.by = by]
<1>1. a \in Order /\ s \in State /\ s.orders \in [OrderIds -> Order]
    BY DEF Sound, State
<1>2. SetFilled(s, o, by) = [s EXCEPT !.orders = [s.orders EXCEPT ![o] = r]]
    BY <1>1 DEF SetFilled, State
<1>3. FilledBy(a, r, by)
    BY <1>1 DEF Order, FilledBy, Terms
<1> HIDE DEF r
<1>4. SetFilled(s, o, by).orders = [s.orders EXCEPT ![o] = r]
    BY <1>1, <1>2 DEF State
<1>5. SetFilled(s, o, by).orders[o] = r
    BY <1>1, <1>4
<1>6. \A i \in OrderIds \ {o} : SetFilled(s, o, by).orders[i] = s.orders[i]
    BY <1>1, <1>4
<1> QED
    BY <1>3, <1>5, <1>6

\* Cancelling the other leg.
LEMMA CancelSiblingRows ==
    ASSUME NEW s, Sound(s), NEW o \in OrderIds
    PROVE  /\ AllKept(s, CancelSibling(s, o))
           /\ \A j \in OrderIds \ {o} :
                 s.orders[o].parent # 0 /\ s.orders[j].parent = s.orders[o].parent =>
                     CancelSibling(s, o).orders[j].status # "OPEN"
<1> DEFINE x == [i \in OrderIds |->
        IF /\ s.orders[o].parent # 0 /\ i # o
           /\ s.orders[i].parent = s.orders[o].parent
           /\ s.orders[i].status = "OPEN"
        THEN [s.orders[i] EXCEPT !.status = "CANCELLED"] ELSE s.orders[i]]
<1>1. s \in State /\ \A i \in OrderIds : s.orders[i] \in Order
    BY DEF Sound, State
<1>2. CancelSibling(s, o) = [s EXCEPT !.orders = x]
    BY DEF CancelSibling
<1>3. \A i \in OrderIds :
          \/ x[i] = s.orders[i]
          \/ x[i] = [s.orders[i] EXCEPT !.status = "CANCELLED"] /\ s.orders[i].status = "OPEN"
    OBVIOUS
<1>4. \A i \in OrderIds : Kept(s.orders[i], x[i])
    BY <1>1, <1>3, KeptSame, KeptCancelled
<1>5. \A i \in OrderIds : [s.orders[i] EXCEPT !.status = "CANCELLED"].status = "CANCELLED"
    BY <1>1 DEF Order
<1>6. \A j \in OrderIds \ {o} :
          s.orders[o].parent # 0 /\ s.orders[j].parent = s.orders[o].parent => x[j].status # "OPEN"
  <2> TAKE j \in OrderIds \ {o}
  <2> HAVE s.orders[o].parent # 0 /\ s.orders[j].parent = s.orders[o].parent
  <2>1. CASE s.orders[j].status = "OPEN"
    <3>1. x[j] = [s.orders[j] EXCEPT !.status = "CANCELLED"]
        BY <2>1
    <3> QED
        BY <3>1, <1>5
  <2>2. CASE s.orders[j].status # "OPEN"
      BY <2>2
  <2> QED
      BY <2>1, <2>2
<1> HIDE DEF x
<1>7. CancelSibling(s, o).orders = x
    BY <1>1, <1>2 DEF State
<1> QED
    BY <1>4, <1>6, <1>7 DEF AllKept

\* Inserting the legs of a bracket.
LEMMA CreateRows ==
    ASSUME NEW s, Sound(s), NEW o \in OrderIds
    PROVE  /\ s.orders[o].type # "BRACKET" => CreateBracketChildren(s, o) = s
           /\ s.orders[o].type = "BRACKET" =>
                 /\ LegsMade(s, CreateBracketChildren(s, o), o)
                 /\ \A i \in OrderIds \ LegRows(o) :
                        CreateBracketChildren(s, o).orders[i] = s.orders[i]
<1>1. CASE s.orders[o].type # "BRACKET"
    BY <1>1 DEF CreateBracketChildren
<1>2. CASE s.orders[o].type = "BRACKET"
  <2> DEFINE e == s.orders[o]
             sl == ExitLeg(e, o, "STOP_LOSS", 0, e.trig)
             tp == ExitLeg(e, o, "TAKE_PROFIT", e.tp, 0)
             x == [i \in OrderIds |-> CASE i = SlLeg(o) -> sl
                                        [] i = TpLeg(o) -> tp
                                        [] OTHER -> s.orders[i]]
  <2>1. s \in State
      BY DEF Sound
  <2>2. CreateBracketChildren(s, o) = [s EXCEPT !.orders = x]
      BY <1>2 DEF CreateBracketChildren
  <2> HIDE DEF e
  <2>3. Leg(e, o, "STOP_LOSS", sl) /\ Leg(e, o, "TAKE_PROFIT", tp)
      BY DEF Leg, ExitLeg
  <2> HIDE DEF sl, tp
  <2>4. o \in Nat
      BY ConstantsAssumption DEF OrderIds
  <2>5. SlLeg(o) # TpLeg(o)
      BY <2>4 DEF SlLeg, TpLeg
  <2>6. /\ SlLeg(o) \in OrderIds => x[SlLeg(o)] = sl
        /\ TpLeg(o) \in OrderIds => x[TpLeg(o)] = tp
        /\ \A i \in OrderIds \ LegRows(o) : x[i] = s.orders[i]
      BY <2>5 DEF LegRows
  <2> HIDE DEF x
  <2>7. CreateBracketChildren(s, o).orders = x
      BY <2>1, <2>2 DEF State
  <2> QED
      BY <1>2, <2>3, <2>6, <2>7 DEF LegsMade, e
<1> QED
    BY <1>1, <1>2

--------------------------------------------------------------------------------
\* A leg that is kept is a leg, also of the entry as it was before it was filled.
LEMMA LegKept ==
    ASSUME NEW d, NEW e, NEW o, NEW type, NEW b, NEW c,
           Terms(d, e), Leg(e, o, type, b), Kept(b, c)
    PROVE  Leg(d, o, type, c)
BY DEF Terms, Leg, Kept

\* From s to t order o was filled by a handler that inserts the legs of a bracket.
FilledRows(s, t, o, by) ==
    /\ t.n = s.n
    /\ FilledBy(s.orders[o], t.orders[o], by)
    /\ s.orders[o].type # "BRACKET" => KeptBut(s, t, {o})
    /\ s.orders[o].type = "BRACKET" => KeptBut(s, t, {o} \cup LegRows(o)) /\ LegsMade(s, t, o)

\* A bracket is not its own leg.
LEMMA LegsBehind == ASSUME NEW o \in OrderIds PROVE o \notin LegRows(o)
<1>1. o \in Nat
    BY ConstantsAssumption DEF OrderIds
<1> QED
    BY <1>1 DEF LegRows, SlLeg, TpLeg

\* A fill of the order worker also closes the other leg.
LEMMA WorkerRows ==
    ASSUME NEW s, Sound(s), NEW o \in OrderIds, s.orders[o].status # "NONE", NEW px \in Nat
    PROVE  /\ FilledRows(s, WorkerFill(s, o, px), o, "tick")
           /\ s.orders[o].type # "BRACKET" =>
                 \A j \in OrderIds \ {o} :
                    s.orders[o].parent # 0 /\ s.orders[j].parent = s.orders[o].parent =>
                        WorkerFill(s, o, px).orders[j].status # "OPEN"
<1> DEFINE t1 == SetFilled(s, o, "tick")
           t2 == ReleaseOnFill(t1, o)
           t3 == CancelSibling(t2, o)
           t4 == CreateBracketChildren(t3, o)
           fp == FillPrice(s.orders[o], px)
           t == WorkerFill(s, o, px)
<1>1. Sound(t1) /\ SameHoldings(s, t1)
    BY SetFilledSound
<1>2. FilledBy(s.orders[o], t1.orders[o], "tick")
      /\ \A i \in OrderIds \ {o} : t1.orders[i] = s.orders[i]
    BY SetFilledRows
<1>3. t = UpdatePortfolioOnFill(t4, o, fp) /\ t.n = s.n
    BY WorkerFillSound DEF WorkerFill, Moved
<1> HIDE DEF t1, t
<1>4. Sound(t2) /\ SameHoldings(t1, t2) /\ t2.orders = t1.orders
    BY <1>1, ReleaseSound
<1> HIDE DEF t2
<1>5. Sound(t3) /\ SameHoldings(t2, t3) /\ t3.orders[o] = t2.orders[o]
    BY <1>4, CancelSiblingSound
<1>6. /\ AllKept(t2, t3)
      /\ \A j \in OrderIds \ {o} :
            t2.orders[o].parent # 0 /\ t2.orders[j].parent = t2.orders[o].parent =>
                t3.orders[j].status # "OPEN"
    BY <1>4, CancelSiblingRows
<1> HIDE DEF t3
<1>7. t3.orders[o].status # "NONE" /\ t3.orders[o].type = s.orders[o].type
    BY <1>2, <1>4, <1>5 DEF FilledBy, Terms
<1>8. Sound(t4) /\ t4.orders[o] = t3.orders[o]
    BY <1>5, <1>7, CreateChildrenSound
<1>9. /\ t3.orders[o].type # "BRACKET" => t4 = t3
      /\ t3.orders[o].type = "BRACKET" =>
            LegsMade(t3, t4, o) /\ \A i \in OrderIds \ LegRows(o) : t4.orders[i] = t3.orders[i]
    BY <1>5, CreateRows
<1> HIDE DEF t4
<1>10. s.orders[o] \in Order
    BY DEF Sound, State
<1>11. fp \in Nat
    BY <1>10, FillPriceType
<1> HIDE DEF fp
<1>12. AllKept(t4, t)
    BY <1>3, <1>7, <1>8, <1>11, UpdateRows
<1>13. FilledBy(s.orders[o], t.orders[o], "tick")
    BY <1>2, <1>4, <1>5, <1>8, <1>12, KeptClosed DEF AllKept
<1>14. \A i \in OrderIds \ {o} : Kept(s.orders[i], t3.orders[i])
    BY <1>2, <1>4, <1>6 DEF AllKept
<1>15. CASE s.orders[o].type # "BRACKET"
  <2>1. t4 = t3
      BY <1>7, <1>9, <1>15
  <2>2. KeptBut(s, t, {o})
      BY <2>1, <1>12, <1>14, KeptTwice DEF AllKept, KeptBut
  <2>3. \A j \in OrderIds \ {o} :
            s.orders[o].parent # 0 /\ s.orders[j].parent = s.orders[o].parent =>
                t.orders[j].status # "OPEN"
    <3> TAKE j \in OrderIds \ {o}
    <3> HAVE s.orders[o].parent # 0 /\ s.orders[j].parent = s.orders[o].parent
    <3>1. t2.orders[o].parent = s.orders[o].parent /\ t2.orders[j] = s.orders[j]
        BY <1>2, <1>4 DEF FilledBy, Terms
    <3>2. t3.orders[j].status # "OPEN"
        BY <1>6, <3>1
    <3> QED
        BY <2>1, <3>2, <1>12 DEF AllKept, Kept
  <2> QED
      BY <1>3, <1>13, <1>15, <2>2, <2>3 DEF FilledRows, t
<1>16. CASE s.orders[o].type = "BRACKET"
  <2>1. LegsMade(t3, t4, o) /\ \A i \in OrderIds \ LegRows(o) : t4.orders[i] = t3.orders[i]
      BY <1>7, <1>9, <1>16
  <2>2. KeptBut(s, t, {o} \cup LegRows(o))
      BY <2>1, <1>12, <1>14, KeptTwice DEF AllKept, KeptBut
  <2>3. Terms(s.orders[o], t3.orders[o])
      BY <1>2, <1>4, <1>5 DEF FilledBy
  <2>4. LegsMade(s, t, o)
      BY <2>1, <2>3, <1>12, LegKept DEF LegsMade, AllKept
  <2> QED
      BY <1>3, <1>13, <1>16, <2>2, <2>4 DEF FilledRows, t
<1> QED
    BY <1>15, <1>16

\* A fill of GET /orders inserts no legs and closes no other leg.
LEMMA PollRows ==
    ASSUME NEW s, Sound(s), NEW o \in OrderIds, s.orders[o].status # "NONE", NEW px \in Nat
    PROVE  /\ PollFill(s, o, px).n = s.n
           /\ FilledBy(s.orders[o], PollFill(s, o, px).orders[o], "poll")
           /\ KeptBut(s, PollFill(s, o, px), {o})
<1> DEFINE t1 == SetFilled(s, o, "poll")
           t2 == UpdatePortfolioOnFill(t1, o, px)
<1>1. Sound(t1) /\ SameHoldings(s, t1)
    BY SetFilledSound
<1>2. FilledBy(s.orders[o], t1.orders[o], "poll")
      /\ \A i \in OrderIds \ {o} : t1.orders[i] = s.orders[i]
    BY SetFilledRows
<1>3. PollFill(s, o, px) = [t2 EXCEPT !.polled = t2.polled \cup {s.orders[o].product}]
    BY DEF PollFill
<1> HIDE DEF t1
<1>4. t1.orders[o].status # "NONE"
    BY <1>2 DEF FilledBy
<1>5. AllKept(t1, t2) /\ Sound(t2) /\ t2.n = t1.n
    BY <1>1, <1>4, UpdateRows, UpdateSound DEF Moved
<1> HIDE DEF t2
<1>6. t2 \in State
    BY <1>5 DEF Sound
<1>7. PollFill(s, o, px).orders = t2.orders /\ PollFill(s, o, px).n = s.n
    BY <1>1, <1>3, <1>5, <1>6 DEF State, SameHoldings
<1> QED
    BY <1>2, <1>5, <1>7, KeptClosed DEF AllKept, KeptBut

\* The row of a request is the only one that inserting it touches.
LEMMA WithRowRows ==
    ASSUME NEW s, Sound(s), NEW r \in Request, s.n + 1 \in OrderIds
    PROVE  \A i \in OrderIds \ {s.n + 1} : WithRow(s, r).orders[i] = s.orders[i]
<1>1. s \in State /\ s.orders \in [OrderIds -> Order]
    BY DEF Sound, State
<1>2. WithRow(s, r).orders = [s.orders EXCEPT ![s.n + 1] = NewOrder(r)]
    BY <1>1 DEF WithRow, State
<1> QED
    BY <1>1, <1>2

\* Placement fills the row it has inserted, or leaves it open.
LEMMA PlacedRows ==
    ASSUME NEW s, Sound(s), NEW r \in Request, s.n + 1 \in OrderIds, NEW px \in Nat
    PROVE  /\ FillsAtOnce(r, px) =>
                 FilledRows(WithRow(s, r), Placed(s, r, px), s.n + 1, "place")
           /\ ~FillsAtOnce(r, px) =>
                 /\ Placed(s, r, px).orders = WithRow(s, r).orders
                 /\ Placed(s, r, px).n = WithRow(s, r).n
<1> DEFINE o == s.n + 1
           t0 == WithRow(s, r)
           row == NewOrder(r)
           t == Placed(s, r, px)
<1>1. Sound(t0) /\ t0.orders[o] = row
    BY WithRowSound
<1>2. row.status # "NONE"
    BY DEF NewOrder
<1>3. CASE FillsAtOnce(r, px)
  <2> DEFINE t1 == SetFilled(t0, o, "place")
             t2 == UpdatePortfolioOnFill(t1, o, ExecutionPrice(r, px))
             t3 == CreateBracketChildren(t2, o)
  <2>1. t = t3
      BY <1>3 DEF Placed, WithRow
  <2> HIDE DEF row, t0, t
  <2>2. Sound(t1) /\ SameHoldings(t0, t1)
      BY <1>1, <1>2, SetFilledSound
  <2>3. FilledBy(t0.orders[o], t1.orders[o], "place")
        /\ \A i \in OrderIds \ {o} : t1.orders[i] = t0.orders[i]
      BY <1>1, SetFilledRows
  <2> HIDE DEF t1
  <2>4. t1.orders[o].status # "NONE"
      BY <2>3 DEF FilledBy
  <2>5. ExecutionPrice(r, px) \in Nat
      BY ExecutionPriceType
  <2>6. AllKept(t1, t2) /\ Sound(t2) /\ t2.n = t1.n
      BY <2>2, <2>4, <2>5, UpdateRows, UpdateSound DEF Moved
  <2> HIDE DEF t2
  <2>7. FilledBy(t0.orders[o], t2.orders[o], "place")
      BY <2>3, <2>6, KeptClosed DEF AllKept
  <2>8. t2.orders[o].type = t0.orders[o].type /\ t2.orders[o].status # "NONE"
      BY <2>7 DEF FilledBy, Terms
  <2>9. SameHoldings(t2, t3) /\ t3.orders[o] = t2.orders[o]
      BY <2>6, <2>8, CreateChildrenSound
  <2>10. /\ t2.orders[o].type # "BRACKET" => t3 = t2
         /\ t2.orders[o].type = "BRACKET" =>
               LegsMade(t2, t3, o) /\ \A i \in OrderIds \ LegRows(o) : t3.orders[i] = t2.orders[i]
      BY <2>6, CreateRows
  <2> HIDE DEF t3
  <2>11. \A i \in OrderIds \ {o} : Kept(t0.orders[i], t2.orders[i])
      BY <2>3, <2>6 DEF AllKept
  <2>12. t3.n = t0.n
      BY <2>2, <2>6, <2>9 DEF SameHoldings
  <2>13. CASE t0.orders[o].type # "BRACKET"
      BY <2>7, <2>8, <2>9, <2>10, <2>11, <2>12, <2>13, <2>1, <1>3 DEF FilledRows, KeptBut, t0, t
  <2>14. CASE t0.orders[o].type = "BRACKET"
    <3>1. LegsMade(t0, t3, o)
        BY <2>7, <2>8, <2>10, <2>14, KeptSame, LegKept DEF LegsMade, FilledBy
    <3>2. KeptBut(t0, t3, {o} \cup LegRows(o))
        BY <2>8, <2>10, <2>11, <2>14 DEF KeptBut
    <3> QED
        BY <2>7, <2>9, <2>12, <2>14, <2>1, <3>1, <3>2, <1>3 DEF FilledRows, t0, t
  <2> QED
      BY <2>13, <2>14
<1>4. CASE ~FillsAtOnce(r, px)
  <2> DEFINE a == t0.avail - ReservedAmount(row)
  <2>1. t = [t0 EXCEPT !.avail = a]
      BY <1>4 DEF Placed, WithRow
  <2> HIDE DEF a, t0, t
  <2>2. t.orders = t0.orders /\ t.n = t0.n
      BY <1>1, <2>1 DEF Sound, State
  <2> QED
      BY <1>4, <2>2 DEF t0, t
<1> QED
    BY <1>3, <1>4

\* An order that placement fills moves the position of its product type.
LEMMA PlacedMoves ==
    ASSUME NEW s, Sound(s), NEW r \in Request, s.n + 1 \in OrderIds, NEW px \in Nat,
           FillsAtOnce(r, px)
    PROVE  Moved(WithRow(s, r), Placed(s, r, px), r.side, r.product, r.qty)
<1> DEFINE o == s.n + 1
           t0 == WithRow(s, r)
           t1 == SetFilled(t0, o, "place")
           t2 == UpdatePortfolioOnFill(t1, o, ExecutionPrice(r, px))
           t3 == CreateBracketChildren(t2, o)
<1>1. Placed(s, r, px) = t3
    BY DEF Placed, WithRow
<1>2. /\ Sound(t0) /\ t0.orders[o].status # "NONE" /\ t0.orders[o].side = r.side
      /\ t0.orders[o].product = r.product /\ t0.orders[o].qty = r.qty
  <2> DEFINE row == NewOrder(r)
  <2>1. Sound(t0) /\ t0.orders[o] = row
      BY WithRowSound
  <2>2. row.status # "NONE" /\ row.side = r.side /\ row.product = r.product /\ row.qty = r.qty
      BY DEF NewOrder
  <2> HIDE DEF row, t0, o
  <2> QED
      BY <2>1, <2>2
<1> HIDE DEF t0
<1>3. Sound(t1) /\ SameHoldings(t0, t1) /\ SameTerms(t0, t1, o)
    BY <1>2, SetFilledSound
<1> HIDE DEF t1
<1>4. t1.orders[o].status # "NONE"
    BY <1>2, <1>3 DEF SameHoldings
<1>5. ExecutionPrice(r, px) \in Nat
    BY ExecutionPriceType
<1>6. Sound(t2) /\ Moved(t1, t2, t1.orders[o].side, t1.orders[o].product, t1.orders[o].qty)
    BY <1>3, <1>4, <1>5, UpdateSound
<1>7. Moved(t1, t2, r.side, r.product, r.qty)
    BY <1>2, <1>3, <1>6 DEF SameTerms
<1> HIDE DEF t2
<1>8. t2.orders[o].status # "NONE"
    BY <1>4, <1>7 DEF Moved
<1>9. SameHoldings(t2, t3)
    BY <1>6, <1>8, CreateChildrenSound
<1> HIDE DEF t3
<1> QED
    BY <1>1, <1>3, <1>7, <1>9, SameThenMoved, MovedThenSame DEF t0

--------------------------------------------------------------------------------
\* Two rows belong to the same bracket.
Siblings(s, i, j) ==
    i # j /\ s.orders[i].parent # 0 /\ s.orders[i].parent = s.orders[j].parent

\* No quote lets the worker fill both orders, unless PATCH has moved one of them.
Apart(a, b) ==
    a.edited = TRUE \/ b.edited = TRUE \/ \A px \in Nat : ~(ShouldFill(a, px) /\ ShouldFill(b, px))

\* A fill that GET /orders did not make.
Checked(a) == a.status = "FILLED" /\ a.by # "poll"

\* Rows are used in the order of insertion, and nobody refers to an unused one.
RowUsed(s, i) ==
    /\ s.orders[i].status = "NONE" => s.orders[i].parent = 0 /\ s.orders[i].type = "MARKET"
    /\ i > s.n => s.orders[i].status = "NONE"

\* A bracket that is not filled has the two rows after it free, and prices in order.
RowBracket(s, i) ==
    s.orders[i].type = "BRACKET" =>
        /\ TpLeg(i) <= s.n /\ s.orders[i].parent = 0
        /\ s.orders[i].status # "FILLED" =>
               /\ s.orders[SlLeg(i)].status = "NONE" /\ s.orders[TpLeg(i)].status = "NONE"
               /\ s.orders[i].trig > 0
               /\ BracketOrdered(s.orders[i].side, s.orders[i].price,
                                 s.orders[i].trig, s.orders[i].tp)

\* A leg is in one of the two rows after its bracket.
RowLeg(s, i) ==
    s.orders[i].parent # 0 =>
        /\ s.orders[i].parent \in OrderIds
        /\ s.orders[s.orders[i].parent].type = "BRACKET"
        /\ i \in LegRows(s.orders[i].parent)

Layout(s) ==
    /\ s.n <= MaxOrders
    /\ \A i \in OrderIds : RowUsed(s, i) /\ RowBracket(s, i) /\ RowLeg(s, i)

\* The legs of a bracket wait for quotes on opposite sides, a checked fill of one
\* has closed the other, and not both have a checked fill.
LegPair(s, i, j) ==
    /\ Apart(s.orders[i], s.orders[j])
    /\ Checked(s.orders[i]) => s.orders[j].status # "OPEN"
    /\ Checked(s.orders[i]) /\ Checked(s.orders[j]) =>
           s.orders[i].edited = TRUE \/ s.orders[j].edited = TRUE
Legs(s) == \A i, j \in OrderIds : Siblings(s, i, j) => LegPair(s, i, j)

\* The orders table is in order.
Book(s) == Layout(s) /\ Legs(s)

\* An order that is final in s is so in t.
TerminalKept(s, t) ==
    \A i \in OrderIds : s.orders[i].status \in Terminal => t.orders[i].status = s.orders[i].status

\* What makes an order due are its terms.
LEMMA DueByTerms ==
    ASSUME NEW a, NEW b, Terms(a, b), NEW px PROVE ShouldFill(b, px) <=> ShouldFill(a, px)
BY DEF Terms, ShouldFill, TriggerPrice

\* Whether two orders are apart depends on their terms.
LEMMA ApartByTerms ==
    ASSUME NEW a, NEW b, NEW c, NEW d, Terms(a, c), Terms(b, d), Apart(a, b) PROVE Apart(c, d)
<1>1. c.edited = a.edited /\ d.edited = b.edited
    BY DEF Terms
<1>2. \A px \in Nat : /\ ShouldFill(c, px) <=> ShouldFill(a, px)
                      /\ ShouldFill(d, px) <=> ShouldFill(b, px)
    BY DueByTerms
<1> QED
    BY <1>1, <1>2 DEF Apart

\* The rows after a bracket exist and are not unused by accident: they are rows.
LEMMA LegRowsExist ==
    ASSUME NEW s, Sound(s), Layout(s), NEW o \in OrderIds, s.orders[o].type = "BRACKET"
    PROVE  /\ SlLeg(o) \in OrderIds /\ TpLeg(o) \in OrderIds /\ SlLeg(o) # TpLeg(o)
           /\ o \notin LegRows(o)
<1>1. TpLeg(o) <= s.n /\ s.n <= MaxOrders /\ s.n \in Nat
    BY DEF Layout, RowBracket, Sound, State
<1>2. o \in Nat /\ o >= 1 /\ MaxOrders \in Nat
    BY ConstantsAssumption DEF OrderIds
<1> QED
    BY <1>1, <1>2 DEF SlLeg, TpLeg, OrderIds, LegRows

\* One order is filled, cancelled or expires, and others are cancelled on the way.
\* A checked fill must have closed the other leg, and must not be a second one.
LEMMA TurnedBook ==
    ASSUME NEW s, NEW t, Sound(s), Sound(t), Book(s), NEW o \in OrderIds,
           s.orders[o].status \in {"OPEN", "CANCELLED"}, t.n = s.n,
           Turned(s.orders[o], t.orders[o]), KeptBut(s, t, {o}),
           Checked(t.orders[o]) =>
               \A j \in OrderIds : Siblings(s, o, j) =>
                   /\ t.orders[j].status # "OPEN"
                   /\ Checked(s.orders[j]) =>
                          s.orders[o].edited = TRUE \/ s.orders[j].edited = TRUE
    PROVE  Book(t)
<1>1. \A i \in OrderIds : Terms(s.orders[i], t.orders[i])
    BY DEF Turned, KeptBut, Kept
<1>2. \A i \in OrderIds : t.orders[i].status = "NONE" <=> s.orders[i].status = "NONE"
    BY DEF Turned, KeptBut, Kept, Terminal
<1>3. \A i \in OrderIds : i # o /\ t.orders[i].status # "FILLED" => s.orders[i].status # "FILLED"
    BY DEF KeptBut, Kept
<1>4. \A i \in OrderIds : t.orders[i].status # "FILLED" => s.orders[i].status # "FILLED"
    BY <1>3
<1>5. Layout(t)
  <2>1. t.n <= MaxOrders
      BY DEF Book, Layout
  <2> SUFFICES ASSUME NEW i \in OrderIds
               PROVE  RowUsed(t, i) /\ RowBracket(t, i) /\ RowLeg(t, i)
      BY <2>1 DEF Layout
  <2>2. RowUsed(s, i) /\ RowBracket(s, i) /\ RowLeg(s, i)
      BY DEF Book, Layout
  <2>3. RowUsed(t, i)
      BY <2>2, <1>1, <1>2 DEF RowUsed, Terms
  <2>4. RowBracket(t, i)
    <3> SUFFICES ASSUME t.orders[i].type = "BRACKET"
                 PROVE  /\ TpLeg(i) <= t.n /\ t.orders[i].parent = 0
                        /\ t.orders[i].status # "FILLED" =>
                              /\ t.orders[SlLeg(i)].status = "NONE"
                              /\ t.orders[TpLeg(i)].status = "NONE"
                              /\ t.orders[i].trig > 0
                              /\ BracketOrdered(t.orders[i].side, t.orders[i].price,
                                                t.orders[i].trig, t.orders[i].tp)
        BY DEF RowBracket
    <3>1. s.orders[i].type = "BRACKET"
        BY <1>1 DEF Terms
    <3>2. SlLeg(i) \in OrderIds /\ TpLeg(i) \in OrderIds
        BY <3>1, LegRowsExist DEF Book
    <3> QED
        BY <3>1, <3>2, <2>2, <1>1, <1>2, <1>4 DEF RowBracket, Terms
  <2>5. RowLeg(t, i)
      BY <2>2, <1>1 DEF RowLeg, Terms
  <2> QED
      BY <2>3, <2>4, <2>5
<1>6. Legs(t)
  <2> SUFFICES ASSUME NEW i \in OrderIds, NEW j \in OrderIds, Siblings(t, i, j)
               PROVE  LegPair(t, i, j)
      BY DEF Legs
  <2>1. Siblings(s, i, j) /\ Siblings(s, j, i)
      BY <1>1 DEF Siblings, Terms
  <2>2. LegPair(s, i, j) /\ LegPair(s, j, i)
      BY <2>1 DEF Book, Legs
  <2>3. Apart(t.orders[i], t.orders[j])
      BY <2>2, <1>1, ApartByTerms DEF LegPair
  <2>4. /\ t.orders[i].edited = s.orders[i].edited
        /\ t.orders[j].edited = s.orders[j].edited
      BY <1>1 DEF Terms
  <2>5. CASE i = o
    <3>1. j # o
        BY <2>5, <2>1 DEF Siblings
    <3>2. Checked(t.orders[j]) => Checked(s.orders[j])
        BY <3>1 DEF KeptBut, Kept, Checked
    <3> QED
        BY <2>1, <2>3, <2>4, <2>5, <3>2 DEF LegPair
  <2>6. CASE j = o
    <3>1. i # o
        BY <2>6, <2>1 DEF Siblings
    <3>2. Checked(t.orders[i]) => Checked(s.orders[i])
        BY <3>1 DEF KeptBut, Kept, Checked
    <3>3. t.orders[o].status # "OPEN"
        BY DEF Turned, Terminal
    <3> QED
        BY <2>1, <2>3, <2>4, <2>6, <3>2, <3>3 DEF LegPair
  <2>7. CASE i # o /\ j # o
    <3>1. /\ Checked(t.orders[i]) => Checked(s.orders[i])
          /\ Checked(t.orders[j]) => Checked(s.orders[j])
          /\ t.orders[j].status = "OPEN" => s.orders[j].status = "OPEN"
        BY <2>7 DEF KeptBut, Kept, Checked
    <3> QED
        BY <2>2, <2>3, <2>4, <3>1 DEF LegPair
  <2> QED
      BY <2>5, <2>6, <2>7
<1> QED
    BY <1>5, <1>6 DEF Book

\* The legs of a bracket whose prices are in order wait for opposite quotes.
LEMMA LegsApart ==
    ASSUME NEW e \in Order, NEW o, NEW a \in Order, NEW b \in Order, e.trig > 0,
           BracketOrdered(e.side, e.price, e.trig, e.tp),
           Leg(e, o, "STOP_LOSS", a), Leg(e, o, "TAKE_PROFIT", b)
    PROVE  Apart(a, b) /\ Apart(b, a)
<1>1. /\ e.side \in Sides /\ e.price \in Nat /\ e.trig \in Nat /\ e.tp \in Nat
    BY DEF Order
<1>2. a.type = "STOP_LOSS" /\ b.type = "TAKE_PROFIT" /\ a.trig = e.trig /\ b.price = e.tp
    BY DEF Leg
<1>3. TriggerPrice(a) = e.trig
    BY <1>1, <1>2 DEF TriggerPrice
<1>4. CASE e.side = "BUY"
  <2>1. a.side = "SELL" /\ b.side = "SELL" /\ e.tp > e.trig
    <3>1. a.side = "SELL" /\ b.side = "SELL"
        BY <1>4 DEF Leg
    <3>2. e.tp > e.trig
        BY <1>1, <1>4 DEF BracketOrdered
    <3> QED
        BY <3>1, <3>2
  <2>2. \A px \in Nat : /\ ShouldFill(a, px) <=> px <= e.trig
                        /\ ShouldFill(b, px) <=> px >= e.tp
      BY <1>2, <1>3, <2>1 DEF ShouldFill, EntryTypes
  <2>3. \A px \in Nat : ~(ShouldFill(a, px) /\ ShouldFill(b, px))
      BY <1>1, <2>1, <2>2
  <2> QED
      BY <2>3 DEF Apart
<1>5. CASE e.side = "SELL"
  <2>1. a.side = "BUY" /\ b.side = "BUY" /\ e.trig > e.tp
    <3>1. a.side = "BUY" /\ b.side = "BUY"
        BY <1>5 DEF Leg
    <3>2. e.trig > e.tp
        BY <1>1, <1>5 DEF BracketOrdered
    <3> QED
        BY <3>1, <3>2
  <2>2. \A px \in Nat : /\ ShouldFill(a, px) <=> px >= e.trig
                        /\ ShouldFill(b, px) <=> px <= e.tp
      BY <1>2, <1>3, <2>1 DEF ShouldFill, EntryTypes
  <2>3. \A px \in Nat : ~(ShouldFill(a, px) /\ ShouldFill(b, px))
      BY <1>1, <2>1, <2>2
  <2> QED
      BY <2>3 DEF Apart
<1> QED
    BY <1>1, <1>4, <1>5 DEF Sides

\* A bracket is filled and its legs are inserted into the rows kept for them.
LEMMA BracketBook ==
    ASSUME NEW s, NEW t, Sound(s), Sound(t), Book(s), NEW o \in OrderIds, NEW by,
           s.orders[o].type = "BRACKET", s.orders[o].status # "FILLED", t.n = s.n,
           FilledBy(s.orders[o], t.orders[o], by),
           KeptBut(s, t, {o} \cup LegRows(o)), LegsMade(s, t, o)
    PROVE  Book(t)
<1> DEFINE L == LegRows(o)
<1>1. SlLeg(o) \in OrderIds /\ TpLeg(o) \in OrderIds /\ SlLeg(o) # TpLeg(o) /\ o \notin L
    BY LegRowsExist DEF Book
<1>2. /\ Leg(s.orders[o], o, "STOP_LOSS", t.orders[SlLeg(o)])
      /\ Leg(s.orders[o], o, "TAKE_PROFIT", t.orders[TpLeg(o)])
    BY <1>1 DEF LegsMade
<1>3. \A i \in L : /\ i \in OrderIds /\ t.orders[i].parent = o /\ t.orders[i].by = ""
                   /\ t.orders[i].type \in {"STOP_LOSS", "TAKE_PROFIT"}
                   /\ t.orders[i].status \in {"OPEN", "CANCELLED"}
                   /\ s.orders[i].status = "NONE" /\ t.orders[i].edited = FALSE
    BY <1>1, <1>2 DEF Leg, LegRows, Book, Layout, RowBracket
<1>4. o \in Nat /\ o # 0
    BY ConstantsAssumption DEF OrderIds
<1>5. RowBracket(s, o)
    BY DEF Book, Layout
<1>6. /\ s.orders[o].parent = 0 /\ s.orders[o].trig > 0 /\ TpLeg(o) <= s.n
      /\ BracketOrdered(s.orders[o].side, s.orders[o].price, s.orders[o].trig, s.orders[o].tp)
    BY <1>5 DEF RowBracket
<1>7. t.orders[o].parent = 0 /\ t.orders[o].type = "BRACKET" /\ t.orders[o].status = "FILLED"
    BY <1>6 DEF FilledBy, Terms
<1>8. \A i \in OrderIds : i # o /\ i \notin L => Kept(s.orders[i], t.orders[i])
    BY DEF KeptBut
<1>9. Layout(t)
  <2>1. t.n <= MaxOrders /\ s.n \in Nat
      BY DEF Book, Layout, Sound, State
  <2> SUFFICES ASSUME NEW i \in OrderIds
               PROVE  RowUsed(t, i) /\ RowBracket(t, i) /\ RowLeg(t, i)
      BY <2>1 DEF Layout
  <2>2. RowUsed(s, i) /\ RowBracket(s, i) /\ RowLeg(s, i)
      BY DEF Book, Layout
  <2>3. CASE i = o
    <3>1. s.orders[o].status # "NONE"
        BY <2>2, <2>3 DEF RowUsed
    <3>2. RowUsed(t, i)
        BY <1>7, <2>2, <2>3, <3>1 DEF RowUsed
    <3>3. RowBracket(t, i)
        BY <1>6, <1>7, <2>3 DEF RowBracket
    <3>4. RowLeg(t, i)
        BY <1>7, <2>3 DEF RowLeg
    <3> QED
        BY <3>2, <3>3, <3>4
  <2>4. CASE i \in L
    <3>1. i <= t.n
        BY <1>4, <1>6, <2>1, <2>4 DEF LegRows, SlLeg, TpLeg
    <3>2. RowUsed(t, i)
      <4>1. t.orders[i].status # "NONE"
          BY <1>3, <2>4
      <4>2. i \in Nat /\ t.n \in Nat
          BY <2>1, ConstantsAssumption DEF OrderIds
      <4> QED
          BY <3>1, <4>1, <4>2 DEF RowUsed
    <3>3. RowBracket(t, i)
      <4>1. t.orders[i].type # "BRACKET"
          BY <1>3, <2>4
      <4> QED
          BY <4>1 DEF RowBracket
    <3>4. RowLeg(t, i)
        BY <1>3, <1>7, <2>4 DEF RowLeg
    <3> QED
        BY <3>2, <3>3, <3>4
  <2>5. CASE i # o /\ i \notin L
    <3>1. Kept(s.orders[i], t.orders[i])
        BY <1>8, <2>5
    <3>2. RowUsed(t, i)
        BY <2>2, <3>1 DEF RowUsed, Kept, Terms
    <3>3. RowBracket(t, i)
      <4> SUFFICES ASSUME t.orders[i].type = "BRACKET"
                   PROVE  /\ TpLeg(i) <= t.n /\ t.orders[i].parent = 0
                          /\ t.orders[i].status # "FILLED" =>
                                /\ t.orders[SlLeg(i)].status = "NONE"
                                /\ t.orders[TpLeg(i)].status = "NONE"
                                /\ t.orders[i].trig > 0
                                /\ BracketOrdered(t.orders[i].side, t.orders[i].price,
                                                  t.orders[i].trig, t.orders[i].tp)
          BY DEF RowBracket
      <4>1. s.orders[i].type = "BRACKET"
          BY <3>1 DEF Kept, Terms
      <4>2. SlLeg(i) \in OrderIds /\ TpLeg(i) \in OrderIds
          BY <4>1, LegRowsExist DEF Book
      <4>3. t.orders[i].status # "FILLED" => s.orders[i].status # "FILLED"
          BY <3>1 DEF Kept
      <4>4. ASSUME s.orders[i].status # "FILLED", NEW k \in LegRows(i)
            PROVE  t.orders[k].status = "NONE"
        <5>1. k \in OrderIds /\ s.orders[k].status = "NONE"
            BY <4>1, <4>2, <4>4, <2>2 DEF RowBracket, LegRows
        <5>2. s.orders[o].status # "NONE" /\ s.orders[i].status # "NONE"
            BY <4>1 DEF Book, Layout, RowUsed
        <5>3. k # o
            BY <5>1, <5>2
        <5>4. k \notin L
          <6> SUFFICES ASSUME k \in L PROVE FALSE
              OBVIOUS
          <6>1. i \in Nat
              BY ConstantsAssumption DEF OrderIds
          <6>2. i = SlLeg(o) \/ o = SlLeg(i)
              BY <1>4, <2>5, <4>4, <6>1 DEF LegRows, SlLeg, TpLeg
          <6>3. CASE i = SlLeg(o)
              BY <2>5, <6>3 DEF LegRows
          <6>4. CASE o = SlLeg(i)
              BY <4>1, <4>4, <2>2, <5>2, <6>4 DEF RowBracket
          <6> QED
              BY <6>2, <6>3, <6>4
        <5> QED
            BY <5>1, <5>3, <5>4, <1>8 DEF Kept
      <4>5. SlLeg(i) \in LegRows(i) /\ TpLeg(i) \in LegRows(i)
          BY DEF LegRows
      <4> QED
          BY <4>1, <4>3, <4>4, <4>5, <2>2, <3>1 DEF RowBracket, Kept, Terms
    <3>4. RowLeg(t, i)
      <4> SUFFICES ASSUME t.orders[i].parent # 0
                   PROVE  /\ t.orders[i].parent \in OrderIds
                          /\ t.orders[t.orders[i].parent].type = "BRACKET"
                          /\ i \in LegRows(t.orders[i].parent)
          BY DEF RowLeg
      <4> DEFINE q == s.orders[i].parent
      <4>1. t.orders[i].parent = q
          BY <3>1 DEF Kept, Terms
      <4>2. q \in OrderIds /\ s.orders[q].type = "BRACKET" /\ i \in LegRows(q)
          BY <4>1, <2>2 DEF RowLeg
      <4> HIDE DEF q
      <4>3. q \notin L
          BY <1>3, <4>2 DEF Book, Layout, RowUsed
      <4>4. q # o
          BY <2>5, <4>2
      <4>5. t.orders[q].type = "BRACKET"
          BY <1>8, <4>2, <4>3, <4>4 DEF Kept, Terms
      <4> QED
          BY <4>1, <4>2, <4>5
    <3> QED
        BY <3>2, <3>3, <3>4
  <2> QED
      BY <2>3, <2>4, <2>5
<1>10. Legs(t)
  <2> SUFFICES ASSUME NEW i \in OrderIds, NEW j \in OrderIds, Siblings(t, i, j)
               PROVE  LegPair(t, i, j)
      BY DEF Legs
  <2>0. i # j /\ t.orders[i].parent # 0 /\ t.orders[j].parent = t.orders[i].parent
      BY DEF Siblings
  <2>1. i # o /\ j # o
      BY <1>7, <2>0
  <2>2. ASSUME NEW k \in OrderIds, k # o, k \notin L PROVE t.orders[k].parent # o
    <3>1. t.orders[k].parent = s.orders[k].parent
        BY <2>2, <1>8 DEF Kept, Terms
    <3>2. s.orders[k].parent = o => k \in L
        BY <1>4, <2>2 DEF Book, Layout, RowLeg
    <3> QED
        BY <2>2, <3>1, <3>2
  <2>3. CASE i \in L
    <3>1. t.orders[i].parent = o
        BY <1>3, <2>3
    <3>2. j \in L
        BY <2>0, <2>1, <2>2, <3>1
    <3>3. /\ t.orders[i].status # "FILLED" /\ t.orders[j].status # "FILLED"
        BY <1>3, <2>3, <3>2
    <3>4. /\ s.orders[o] \in Order /\ t.orders[SlLeg(o)] \in Order
          /\ t.orders[TpLeg(o)] \in Order
        BY <1>1 DEF Sound, State
    <3>5. /\ Apart(t.orders[SlLeg(o)], t.orders[TpLeg(o)])
          /\ Apart(t.orders[TpLeg(o)], t.orders[SlLeg(o)])
        BY <1>2, <1>6, <3>4, LegsApart
    <3>6. \/ i = SlLeg(o) /\ j = TpLeg(o)
          \/ i = TpLeg(o) /\ j = SlLeg(o)
        BY <2>0, <2>3, <3>2 DEF LegRows
    <3> QED
        BY <3>3, <3>5, <3>6 DEF LegPair, Checked
  <2>4. CASE i \notin L
    <3>1. t.orders[i].parent # o
        BY <2>1, <2>2, <2>4
    <3>2. j \notin L
        BY <1>3, <2>0, <3>1
    <3>3. Kept(s.orders[i], t.orders[i]) /\ Kept(s.orders[j], t.orders[j])
        BY <1>8, <2>1, <2>4, <3>2
    <3>4. Siblings(s, i, j)
        BY <2>0, <3>3 DEF Siblings, Kept, Terms
    <3>5. LegPair(s, i, j)
        BY <3>4 DEF Book, Legs
    <3>6. Apart(t.orders[i], t.orders[j])
        BY <3>3, <3>5, ApartByTerms DEF LegPair, Kept
    <3> QED
        BY <3>3, <3>5, <3>6 DEF LegPair, Kept, Terms, Checked
  <2> QED
      BY <2>3, <2>4
<1> QED
    BY <1>9, <1>10 DEF Book

\* A request that passes the checks of its prices finds room for its rows.
LEMMA WithRowBook ==
    ASSUME NEW s, Sound(s), Book(s), NEW r \in Request, WellFormed(r),
           s.n + RowsFor(r) <= MaxOrders
    PROVE  Book(WithRow(s, r)) /\ s.n + 1 \in OrderIds
<1> DEFINE o == s.n + 1
           t == WithRow(s, r)
           row == NewOrder(r)
<1>1. s.n \in Nat /\ MaxOrders \in Nat
    BY ConstantsAssumption DEF Sound, State
<1>2. RowsFor(r) \in {1, 3}
    BY DEF RowsFor
<1>3. o \in OrderIds
    BY <1>1, <1>2 DEF OrderIds
<1>4. t.n = s.n + RowsFor(r) /\ t.orders[o] = row
    BY <1>3, WithRowSound
<1>5. \A i \in OrderIds : i # o => t.orders[i] = s.orders[i]
    BY <1>3, WithRowRows
<1>6. /\ row.type = r.type /\ row.side = r.side /\ row.price = r.price /\ row.trig = r.trig
      /\ row.tp = r.tp /\ row.parent = 0 /\ row.status = "OPEN"
    BY DEF NewOrder
<1>7. s.orders[o].status = "NONE" /\ s.orders[o].type = "MARKET" /\ s.orders[o].parent = 0
    BY <1>1, <1>3 DEF Book, Layout, RowUsed
<1> HIDE DEF t, row
<1>8. Layout(t)
  <2> SUFFICES ASSUME NEW i \in OrderIds
               PROVE  RowUsed(t, i) /\ RowBracket(t, i) /\ RowLeg(t, i)
      BY <1>4 DEF Layout
  <2>1. RowUsed(s, i) /\ RowBracket(s, i) /\ RowLeg(s, i) /\ i \in Nat
      BY ConstantsAssumption DEF Book, Layout, OrderIds
  <2>2. RowUsed(t, i)
    <3>1. CASE i = o
        BY <1>1, <1>2, <1>4, <1>6, <3>1 DEF RowUsed
    <3>2. CASE i # o
        BY <1>1, <1>2, <1>4, <1>5, <2>1, <3>2 DEF RowUsed
    <3> QED
        BY <3>1, <3>2
  <2>3. RowBracket(t, i)
    <3>1. CASE i = o /\ r.type = "BRACKET"
      <4>1. t.n = o + 2
          BY <1>1, <1>4, <3>1 DEF RowsFor
      <4>2. SlLeg(o) \in OrderIds /\ TpLeg(o) \in OrderIds
          BY <1>1, <1>4, <4>1 DEF SlLeg, TpLeg, OrderIds
      <4>3. SlLeg(o) > s.n /\ TpLeg(o) > s.n /\ SlLeg(o) # o /\ TpLeg(o) # o /\ TpLeg(o) <= t.n
          BY <1>1, <4>1 DEF SlLeg, TpLeg
      <4>4. s.orders[SlLeg(o)].status = "NONE" /\ s.orders[TpLeg(o)].status = "NONE"
          BY <4>2, <4>3 DEF Book, Layout, RowUsed
      <4>5. r.trig > 0 /\ BracketOrdered(r.side, r.price, r.trig, r.tp)
          BY <3>1 DEF WellFormed
      <4> QED
          BY <1>4, <1>5, <1>6, <3>1, <4>2, <4>3, <4>4, <4>5 DEF RowBracket
    <3>2. CASE i = o /\ r.type # "BRACKET"
        BY <1>4, <1>6, <3>2 DEF RowBracket
    <3>3. CASE i # o
      <4> SUFFICES ASSUME s.orders[i].type = "BRACKET" PROVE RowBracket(t, i)
          BY <1>5, <3>3 DEF RowBracket
      <4>1. SlLeg(i) \in OrderIds /\ TpLeg(i) \in OrderIds
          BY LegRowsExist DEF Book
      <4>2. TpLeg(i) <= s.n
          BY <2>1 DEF RowBracket
      <4>3. SlLeg(i) # o /\ TpLeg(i) # o /\ TpLeg(i) <= t.n
          BY <1>1, <1>2, <1>4, <2>1, <4>2 DEF SlLeg, TpLeg
      <4> QED
          BY <1>5, <2>1, <3>3, <4>1, <4>3 DEF RowBracket
    <3> QED
        BY <3>1, <3>2, <3>3
  <2>4. RowLeg(t, i)
    <3>1. CASE i = o
        BY <1>4, <1>6, <3>1 DEF RowLeg
    <3>2. CASE i # o
        BY <1>5, <1>7, <2>1, <3>2 DEF RowLeg
    <3> QED
        BY <3>1, <3>2
  <2> QED
      BY <2>2, <2>3, <2>4
<1>9. Legs(t)
  <2> SUFFICES ASSUME NEW i \in OrderIds, NEW j \in OrderIds, Siblings(t, i, j)
               PROVE  LegPair(t, i, j)
      BY DEF Legs
  <2>1. i # o /\ j # o
      BY <1>4, <1>6 DEF Siblings
  <2>2. t.orders[i] = s.orders[i] /\ t.orders[j] = s.orders[j]
      BY <1>5, <2>1
  <2>3. LegPair(s, i, j)
      BY <2>2 DEF Siblings, Book, Legs
  <2> QED
      BY <2>2, <2>3 DEF LegPair
<1> QED
    BY <1>3, <1>8, <1>9 DEF Book, t

\* Placement keeps the table in order, and no order that is final changes.
LEMMA PlacedBook ==
    ASSUME NEW s, Sound(s), Book(s), NEW r \in Request, WellFormed(r),
           s.n + RowsFor(r) <= MaxOrders, NEW px \in Nat
    PROVE  /\ Book(Placed(s, r, px)) /\ TerminalKept(s, Placed(s, r, px))
           /\ \A i \in OrderIds \ {s.n + 1} :
                 FilledBetween(s, Placed(s, r, px), i) => FALSE
<1> DEFINE o == s.n + 1
           t0 == WithRow(s, r)
           t == Placed(s, r, px)
           row == NewOrder(r)
<1>1. Book(t0) /\ o \in OrderIds
    BY WithRowBook
<1>2. Sound(t0) /\ t0.orders[o] = row
    BY <1>1, WithRowSound
<1>3. \A i \in OrderIds : i # o => t0.orders[i] = s.orders[i]
    BY <1>1, WithRowRows
<1>4. s.orders[o].status = "NONE"
  <2>1. s.n \in Nat
      BY DEF Sound, State
  <2> QED
      BY <1>1, <2>1 DEF Book, Layout, RowUsed
<1>5. Sound(t)
    BY <1>1, PlacedEffect
<1>6. row.status = "OPEN" /\ row.parent = 0
    BY DEF NewOrder
<1>7. /\ FillsAtOnce(r, px) => FilledRows(t0, t, o, "place")
      /\ ~FillsAtOnce(r, px) => t.orders = t0.orders /\ t.n = t0.n
    BY <1>1, PlacedRows
<1> HIDE DEF t0, t, row, o
<1>8. CASE FillsAtOnce(r, px) /\ t0.orders[o].type # "BRACKET"
  <2>1. /\ t.n = t0.n /\ FilledBy(t0.orders[o], t.orders[o], "place") /\ KeptBut(t0, t, {o})
      BY <1>7, <1>8 DEF FilledRows
  <2>2. Turned(t0.orders[o], t.orders[o])
      BY <2>1 DEF FilledBy, Turned, Terminal
  <2>3. \A j \in OrderIds : ~Siblings(t0, o, j)
      BY <1>2, <1>6 DEF Siblings
  <2>4. t0.orders[o].status \in {"OPEN", "CANCELLED"}
      BY <1>2, <1>6
  <2>5. Book(t)
      BY <1>1, <1>2, <1>5, <2>1, <2>2, <2>3, <2>4, TurnedBook
  <2>6. \A i \in OrderIds : i # o => Kept(s.orders[i], t.orders[i])
      BY <1>3, <2>1 DEF KeptBut
  <2>7. TerminalKept(s, t) /\ \A i \in OrderIds : i # o => ~FilledBetween(s, t, i)
      BY <1>4, <2>6 DEF TerminalKept, FilledBetween, Kept, Terminal
  <2> QED
      BY <2>5, <2>7 DEF t, o
<1>9. CASE FillsAtOnce(r, px) /\ t0.orders[o].type = "BRACKET"
  <2>1. /\ t.n = t0.n /\ FilledBy(t0.orders[o], t.orders[o], "place")
        /\ KeptBut(t0, t, {o} \cup LegRows(o)) /\ LegsMade(t0, t, o)
      BY <1>7, <1>9 DEF FilledRows
  <2>2. t0.orders[o].status # "FILLED"
      BY <1>2, <1>6
  <2>3. Book(t)
      BY <1>1, <1>2, <1>5, <1>9, <2>1, <2>2, BracketBook
  <2>4. \A i \in OrderIds : i # o /\ i \notin LegRows(o) => Kept(s.orders[i], t.orders[i])
      BY <1>3, <2>1 DEF KeptBut
  <2>5. SlLeg(o) \in OrderIds /\ TpLeg(o) \in OrderIds /\ o \notin LegRows(o)
      BY <1>1, <1>2, <1>9, LegRowsExist DEF Book
  <2>6. \A i \in LegRows(o) : t0.orders[i].status = "NONE"
      BY <1>1, <1>9, <2>2 DEF Book, Layout, RowBracket, LegRows
  <2>7. \A i \in LegRows(o) : s.orders[i].status = "NONE" /\ t.orders[i].status # "FILLED"
      BY <1>3, <2>1, <2>5, <2>6 DEF LegsMade, Leg, LegRows
  <2>8. TerminalKept(s, t) /\ \A i \in OrderIds : i # o => ~FilledBetween(s, t, i)
      BY <1>4, <2>4, <2>7 DEF TerminalKept, FilledBetween, Kept, Terminal
  <2> QED
      BY <2>3, <2>8 DEF t, o
<1>10. CASE ~FillsAtOnce(r, px)
  <2>1. t.orders = t0.orders /\ t.n = t0.n
      BY <1>7, <1>10
  <2>2. Book(t)
      BY <1>1, <2>1 DEF Book, Layout, Legs, RowUsed, RowBracket, RowLeg, Siblings, LegPair
  <2>3. TerminalKept(s, t) /\ \A i \in OrderIds : i # o => ~FilledBetween(s, t, i)
      BY <1>3, <1>4, <2>1 DEF TerminalKept, FilledBetween, Terminal
  <2> QED
      BY <2>2, <2>3 DEF t, o
<1> QED
    BY <1>8, <1>9, <1>10

\* PATCH moves an open order; a bracket keeps its prices in order, and a leg that
\* was moved is marked.
LEMMA EditedBook ==
    ASSUME NEW s, Sound(s), Book(s), NEW o \in OrderIds, s.orders[o].status = "OPEN",
           NEW e \in Edit,
           Edited(s.orders[o], e).type = "BRACKET" =>
               BracketOrdered(Edited(s.orders[o], e).side, Edited(s.orders[o], e).price,
                              Edited(s.orders[o], e).trig, Edited(s.orders[o], e).tp)
    PROVE  LET t == [s EXCEPT !.orders[o] = Edited(s.orders[o], e)]
           IN /\ Book(t) /\ TerminalKept(s, t)
              /\ \A i \in OrderIds : ~FilledBetween(s, t, i)
<1> DEFINE a == s.orders[o]
           b == Edited(a, e)
           t == [s EXCEPT !.orders[o] = b]
<1>1. s \in State /\ s.orders \in [OrderIds -> Order] /\ a \in Order
    BY DEF Sound, State
<1>2. /\ b.type = a.type /\ b.side = a.side /\ b.parent = a.parent /\ b.status = a.status
      /\ b.by = a.by /\ b.edited = TRUE /\ (b.trig = a.trig \/ (b.trig = e.trig /\ e.trig # 0))
    BY <1>1 DEF Edited, Order
<1>3. t.n = s.n /\ t.orders = [s.orders EXCEPT ![o] = b]
    BY <1>1 DEF State
<1>4. t.orders[o] = b /\ \A i \in OrderIds : i # o => t.orders[i] = s.orders[i]
    BY <1>1, <1>3
<1>5. e.trig \in Nat
    BY DEF Edit
<1>6. \A i \in OrderIds : /\ t.orders[i].type = s.orders[i].type
                          /\ t.orders[i].parent = s.orders[i].parent
                          /\ t.orders[i].status = s.orders[i].status
                          /\ t.orders[i].by = s.orders[i].by
    BY <1>2, <1>4
<1>7. b.type = "BRACKET" => BracketOrdered(b.side, b.price, b.trig, b.tp)
    OBVIOUS
<1> HIDE DEF a, b, t
<1>8. Layout(t)
  <2> SUFFICES ASSUME NEW i \in OrderIds
               PROVE  RowUsed(t, i) /\ RowBracket(t, i) /\ RowLeg(t, i)
      BY <1>3 DEF Layout, Book
  <2>1. RowUsed(s, i) /\ RowBracket(s, i) /\ RowLeg(s, i)
      BY DEF Book, Layout
  <2>2. RowUsed(t, i)
      BY <1>3, <1>6, <2>1 DEF RowUsed
  <2>3. RowBracket(t, i)
    <3> SUFFICES ASSUME s.orders[i].type = "BRACKET" PROVE RowBracket(t, i)
        BY <1>6 DEF RowBracket
    <3>1. SlLeg(i) \in OrderIds /\ TpLeg(i) \in OrderIds
        BY LegRowsExist DEF Book
    <3>2. CASE i # o
        BY <1>3, <1>4, <1>6, <2>1, <3>1, <3>2 DEF RowBracket
    <3>3. CASE i = o
      <4>1. b.trig > 0
        <5>1. a.trig > 0
            BY <2>1, <3>3 DEF RowBracket, a
        <5> QED
            BY <1>2, <1>5, <5>1
      <4>2. BracketOrdered(b.side, b.price, b.trig, b.tp)
          BY <1>2, <1>7, <3>3 DEF a
      <4> QED
          BY <1>3, <1>4, <1>6, <2>1, <3>1, <3>3, <4>1, <4>2 DEF RowBracket
    <3> QED
        BY <3>2, <3>3
  <2>4. RowLeg(t, i)
      BY <1>6, <2>1 DEF RowLeg
  <2> QED
      BY <2>2, <2>3, <2>4
<1>9. Legs(t)
  <2> SUFFICES ASSUME NEW i \in OrderIds, NEW j \in OrderIds, Siblings(t, i, j)
               PROVE  LegPair(t, i, j)
      BY DEF Legs
  <2>1. Siblings(s, i, j)
      BY <1>6 DEF Siblings
  <2>2. LegPair(s, i, j)
      BY <2>1 DEF Book, Legs
  <2>3. CASE i = o \/ j = o
    <3>1. Apart(t.orders[i], t.orders[j]) /\ (t.orders[i].edited = TRUE \/ t.orders[j].edited = TRUE)
        BY <1>2, <1>4, <2>3 DEF Apart
    <3> QED
        BY <1>6, <2>2, <3>1 DEF LegPair, Checked
  <2>4. CASE i # o /\ j # o
      BY <1>4, <2>2, <2>4 DEF LegPair
  <2> QED
      BY <2>3, <2>4
<1>10. TerminalKept(s, t) /\ \A i \in OrderIds : ~FilledBetween(s, t, i)
    BY <1>6 DEF TerminalKept, FilledBetween
<1> QED
    BY <1>8, <1>9, <1>10 DEF Book, t, b, a

--------------------------------------------------------------------------------
\* Setting the status of a row touches nothing else of it and no other row.
LEMMA StatusRows ==
    ASSUME NEW s, Sound(s), NEW o \in OrderIds, NEW st
    PROVE  /\ SetStatus(s, o, st).n = s.n
           /\ Terms(s.orders[o], SetStatus(s, o, st).orders[o])
           /\ SetStatus(s, o, st).orders[o].status = st
           /\ \A i \in OrderIds : i # o => SetStatus(s, o, st).orders[i] = s.orders[i]
<1> DEFINE a == s.orders[o]
           r == [a EXCEPT !.status = st]
<1>1. a \in Order /\ s \in State /\ s.orders \in [OrderIds -> Order]
    BY DEF Sound, State
<1>2. SetStatus(s, o, st) = [s EXCEPT !.orders = [s.orders EXCEPT ![o] = r]]
    BY DEF SetStatus
<1>3. Terms(a, r) /\ r.status = st
    BY <1>1 DEF Order, Terms
<1> HIDE DEF r
<1>4. SetStatus(s, o, st).orders = [s.orders EXCEPT ![o] = r] /\ SetStatus(s, o, st).n = s.n
    BY <1>1, <1>2 DEF State
<1>5. SetStatus(s, o, st).orders[o] = r
      /\ \A i \in OrderIds : i # o => SetStatus(s, o, st).orders[i] = s.orders[i]
    BY <1>1, <1>4
<1> QED
    BY <1>3, <1>4, <1>5

\* From s to t order o was closed without a fill.
ClosedRow(s, t, o) ==
    /\ t.n = s.n /\ Terms(s.orders[o], t.orders[o])
    /\ t.orders[o].status \in {"CANCELLED", "EXPIRED"}
    /\ \A i \in OrderIds : i # o => t.orders[i] = s.orders[i]

\* cancel_order, the worker's refusal to fill, and the expiry sweep.
LEMMA ClosedRows ==
    ASSUME NEW s, Sound(s), NEW o \in OrderIds
    PROVE  /\ ClosedRow(s, SetStatus(s, o, "CANCELLED"), o)
           /\ ClosedRow(s, CancelledOrder(s, o), o)
           /\ ClosedRow(s, [SetStatus(s, o, "EXPIRED") EXCEPT
                               !.avail = @ + ReservedAmount(s.orders[o])], o)
<1>1. ASSUME NEW st PROVE DOMAIN SetStatus(s, o, st) = DOMAIN s
    BY DEF SetStatus
<1>2. "orders" \in DOMAIN s /\ "n" \in DOMAIN s
    BY DEF Sound, State
<1>3. ASSUME NEW u, NEW v
      PROVE  /\ [SetStatus(s, o, u) EXCEPT !.avail = v].orders = SetStatus(s, o, u).orders
             /\ [SetStatus(s, o, u) EXCEPT !.avail = v].n = SetStatus(s, o, u).n
    BY <1>1, <1>2
<1> QED
    BY <1>3, StatusRows DEF ClosedRow, CancelledOrder

\* Closing an order that is not filled keeps the table in order.
LEMMA ClosedBook ==
    ASSUME NEW s, NEW t, Sound(s), Sound(t), Book(s), NEW o \in OrderIds,
           s.orders[o].status \in {"OPEN", "CANCELLED"}, ClosedRow(s, t, o)
    PROVE  /\ Book(t) /\ KeptBut(s, t, {o})
           /\ \A i \in OrderIds : ~FilledBetween(s, t, i)
<1>1. KeptBut(s, t, {o})
    BY KeptSame DEF ClosedRow, KeptBut
<1>2. Turned(s.orders[o], t.orders[o]) /\ ~Checked(t.orders[o]) /\ t.n = s.n
    BY DEF ClosedRow, Turned, Terminal, Checked
<1>3. Book(t)
    BY <1>1, <1>2, TurnedBook
<1>4. \A i \in OrderIds : ~FilledBetween(s, t, i)
    BY DEF ClosedRow, FilledBetween
<1> QED
    BY <1>1, <1>3, <1>4

--------------------------------------------------------------------------------
\* The orders a looping handler has yet to deal with are not filled.
Waiting(ss) == \A o \in ss.todo : ss.st.orders[o].status \in {"OPEN", "CANCELLED"}

\* If a leg still to be evaluated has a sibling with a checked fill, that fill was
\* made in this loop, at the quote of this loop.
Fired(ss) ==
    ss.kind = "tick" =>
        \A o \in ss.todo, j \in OrderIds :
            Siblings(ss.st, o, j) /\ Checked(ss.st.orders[j]) => ShouldFill(ss.st.orders[j], ss.px)

\* The kill switch has cancelled, or will, whatever is open, and has closed, or
\* will, every position it can close.
Flattening(ss) ==
    /\ ss.kind = "kill" => OpenOrders(ss.st) \subseteq ss.todo
    /\ ss.kind = "close" =>
        /\ OpenOrders(ss.st) = {}
        /\ \A p \in ProductTypes :
              ss.st.hold[p].qty # 0 => p \in ss.close \/ Unclosable(ss.st.hold[p].qty)

\* What is final in the database is so in the copy, and what is left to do was open.
Linked(d, ss) ==
    ss.kind # "none" => ss.todo \subseteq OpenOrders(d) /\ TerminalKept(d, ss.st)

\* The invariant of the orders table.
OInv ==
    /\ Book(db) /\ Book(sess.st)
    /\ Waiting(sess) /\ Fired(sess) /\ Flattening(sess) /\ Linked(db, sess)

\* The table a user starts with.
LEMMA InitBook == Book(InitState)
<1>1. InitState.n = 0 /\ \A i \in OrderIds : InitState.orders[i] = NoOrder
    BY DEF InitState
<1>2. NoOrder.status = "NONE" /\ NoOrder.parent = 0 /\ NoOrder.type = "MARKET"
    BY DEF NoOrder
<1>3. 0 <= MaxOrders
    BY ConstantsAssumption
<1> QED
    BY <1>1, <1>2, <1>3 DEF Book, Layout, Legs, RowUsed, RowBracket, RowLeg, Siblings

\* No handler runs.
LEMMA IdleOrders ==
    /\ Book(Idle.st) /\ Waiting(Idle) /\ Fired(Idle) /\ Flattening(Idle)
    /\ \A d : Linked(d, Idle)
<1>1. Idle.st = InitState /\ Idle.todo = {} /\ Idle.kind = "none"
    BY DEF Idle
<1> QED
    BY <1>1, InitBook DEF Waiting, Fired, Flattening, Linked

\* A step of the database alone: nothing is said of the copy, which nobody uses.
LEMMA DatabaseStep ==
    ASSUME OInv, Book(db'), sess.kind = "none", UNCHANGED sess PROVE OInv'
BY DEF OInv, Linked

\* Rows other than o, after a step of a loop that deals with o: kept or inserted.
LoopRows(s, x, o) ==
    \A i \in OrderIds : i # o =>
        \/ Kept(s.orders[i], x.orders[i])
        \/ s.orders[i].status = "NONE" /\ x.orders[i].status \in {"OPEN", "CANCELLED"}

\* A handler has dealt with one of its orders.
LEMMA LoopStep ==
    ASSUME IInv, OInv, NEW o \in sess.todo, sess.kind # "none",
           sess.kind \notin {"kill", "close"}, db' = db, sess'.kind = sess.kind,
           sess'.todo = sess.todo \ {o},
           Book(sess'.st), LoopRows(sess.st, sess'.st, o), Fired(sess')
    PROVE  OInv'
<1>1. sess.todo \subseteq OrderIds
    BY DEF IInv, SessionSound, Session
<1>2. Waiting(sess')
    BY <1>1 DEF OInv, Waiting, LoopRows, Kept
<1>3. sess.todo \subseteq OpenOrders(db) /\ TerminalKept(db, sess.st)
    BY DEF OInv, Linked
<1>4. TerminalKept(db, sess'.st)
  <2> SUFFICES ASSUME NEW i \in OrderIds, db.orders[i].status \in Terminal
               PROVE  sess'.st.orders[i].status = db.orders[i].status
      BY DEF TerminalKept
  <2>1. i # o
      BY <1>3 DEF OpenOrders, Terminal
  <2>2. sess.st.orders[i].status = db.orders[i].status
      BY <1>3 DEF TerminalKept
  <2> QED
      BY <2>1, <2>2 DEF LoopRows, Kept, Terminal
<1>5. Linked(db', sess')
    BY <1>3, <1>4 DEF Linked
<1>6. Flattening(sess')
    BY DEF Flattening
<1> QED
    BY <1>2, <1>5, <1>6 DEF OInv

\* The loop of the order worker goes on: a fill it just made was due.
LEMMA FiredStep ==
    ASSUME IInv, OInv, NEW o \in sess.todo, sess.kind = "tick",
           sess'.kind = "tick", sess'.todo = sess.todo \ {o}, sess'.px = sess.px,
           LoopRows(sess.st, sess'.st, o), Terms(sess.st.orders[o], sess'.st.orders[o]),
           Checked(sess'.st.orders[o]) => ShouldFill(sess.st.orders[o], sess.px)
    PROVE  Fired(sess')
<1> DEFINE s == sess.st
           x == sess'.st
<1> SUFFICES ASSUME NEW k \in sess.todo \ {o}, NEW j \in OrderIds,
                    Siblings(x, k, j), Checked(x.orders[j])
             PROVE  ShouldFill(x.orders[j], sess.px)
    BY DEF Fired
<1>1. k \in OrderIds /\ o \in OrderIds
    BY DEF IInv, SessionSound, Session
<1>2. s.orders[k].status # "NONE"
    BY DEF IInv, SessionSound
<1>3. Kept(s.orders[k], x.orders[k])
    BY <1>1, <1>2 DEF LoopRows
<1>4. CASE j = o
    BY <1>4, DueByTerms
<1>5. CASE j # o
  <2>1. Kept(s.orders[j], x.orders[j])
      BY <1>5 DEF LoopRows, Checked
  <2>2. Siblings(s, k, j) /\ Checked(s.orders[j])
      BY <1>3, <2>1 DEF Siblings, Checked, Kept, Terms
  <2>3. ShouldFill(s.orders[j], sess.px)
      BY <2>2 DEF OInv, Fired
  <2> QED
      BY <2>1, <2>3, DueByTerms DEF Kept
<1> QED
    BY <1>4, <1>5

--------------------------------------------------------------------------------
\* A fill of no more shares than are held, on the other side, reduces the position.
LEMMA CoveredReduces ==
    ASSUME NEW s, NEW t, Sound(s), NEW side \in Sides, NEW p \in ProductTypes,
           NEW q \in Nat, q > 0, Moved(s, t, side, p, q),
           IF side = "SELL" THEN s.hold[p].qty > 0 /\ q <= s.hold[p].qty
                            ELSE s.hold[p].qty < 0 /\ q <= -s.hold[p].qty
    PROVE  Reduces(s.hold[p].qty, t.hold[p].qty)
<1> DEFINE h == s.hold[p].qty
           k == t.hold[p].qty
<1>1. s.hold[p] \in Holding
    BY DEF Sound, State
<1>2. h \in Int /\ k = h + Signed(side, q)
    BY <1>1 DEF Holding, Moved
<1>3. IF side = "SELL" THEN h > 0 /\ q <= h ELSE h < 0 /\ q <= -h
    OBVIOUS
<1> HIDE DEF h, k
<1>4. CASE side = "SELL"
    BY <1>2, <1>3, <1>4 DEF Signed, Reduces, h, k
<1>5. CASE side = "BUY"
    BY <1>2, <1>3, <1>5 DEF Signed, Reduces, h, k
<1> QED
    BY <1>4, <1>5 DEF Sides

\* The order worker has evaluated one order.
LEMMA EvaluateOrders ==
    ASSUME IInv, OInv, NEW o \in OrderIds, EvaluateOrder(o)
    PROVE  OInv' /\ ExitsReduce(sess.st, sess'.st)
<1> DEFINE s == sess.st
           ord == s.orders[o]
           x == IF ~ShouldFill(ord, sess.px) THEN s
                ELSE IF ~HoldingCovers(s, ord) THEN SetStatus(s, o, "CANCELLED")
                ELSE WorkerFill(s, o, sess.px)
           f == sess.filled \/ (ShouldFill(ord, sess.px) /\ HoldingCovers(s, ord))
<1>1. /\ SessionSound(sess) /\ sess.kind = "tick" /\ o \in sess.todo /\ sess \in Session
      /\ sess.kind # "none" /\ sess.kind \notin {"kill", "close"}
    BY DEF IInv, EvaluateOrder, SessionSound
<1>2. Sound(s) /\ ord.status # "NONE" /\ ord.status \in {"OPEN", "CANCELLED"} /\ Book(s)
    BY <1>1 DEF SessionSound, OInv, Waiting
<1>3. sess.px \in Nat
    BY <1>1 DEF Session
<1>4. sess' = [sess EXCEPT !.todo = sess.todo \ {o}, !.filled = f, !.st = x] /\ db' = db
    BY DEF EvaluateOrder
<1>5. Sound(sess'.st)
    BY EvaluateStep DEF IInv, SessionSound
<1> HIDE DEF x, f
<1>6. /\ sess'.st = x /\ sess'.todo = sess.todo \ {o} /\ sess'.kind = sess.kind
      /\ sess'.px = sess.px
    BY <1>1, <1>4 DEF Session
<1>7. Sound(x)
    BY <1>5, <1>6
<1>8. ASSUME Book(x), LoopRows(s, x, o), Terms(ord, x.orders[o]),
             Checked(x.orders[o]) => ShouldFill(ord, sess.px)
      PROVE  OInv'
  <2>1. Fired(sess')
      BY <1>1, <1>6, <1>8, FiredStep
  <2> QED
      BY <1>1, <1>4, <1>6, <1>8, <2>1, LoopStep
<1>9. CASE ~ShouldFill(ord, sess.px)
  <2>1. x = s
      BY <1>9 DEF x
  <2>2. LoopRows(s, x, o) /\ Terms(ord, x.orders[o]) /\ ~Checked(x.orders[o])
      BY <1>2, <2>1, KeptSame DEF LoopRows, Terms, Checked
  <2>3. ExitsReduce(s, x)
      BY <2>1 DEF ExitsReduce, FilledBetween
  <2> QED
      BY <1>2, <1>6, <1>8, <2>1, <2>2, <2>3
<1>10. CASE ShouldFill(ord, sess.px) /\ ~HoldingCovers(s, ord)
  <2>1. x = SetStatus(s, o, "CANCELLED")
      BY <1>10 DEF x
  <2>2. ClosedRow(s, x, o)
      BY <1>2, <2>1, ClosedRows
  <2>3. Book(x) /\ KeptBut(s, x, {o}) /\ \A i \in OrderIds : ~FilledBetween(s, x, i)
      BY <1>2, <1>7, <2>2, ClosedBook
  <2>4. LoopRows(s, x, o) /\ Terms(ord, x.orders[o])
      BY <2>2, <2>3 DEF LoopRows, KeptBut, ClosedRow
  <2>5. ExitsReduce(s, x)
      BY <2>3 DEF ExitsReduce
  <2> QED
      BY <1>6, <1>8, <1>10, <2>3, <2>4, <2>5
<1>11. CASE ShouldFill(ord, sess.px) /\ HoldingCovers(s, ord)
  <2>1. x = WorkerFill(s, o, sess.px)
      BY <1>11 DEF x
  <2>2. /\ FilledRows(s, x, o, "tick")
        /\ ord.type # "BRACKET" =>
              \A j \in OrderIds \ {o} :
                  ord.parent # 0 /\ s.orders[j].parent = ord.parent => x.orders[j].status # "OPEN"
      BY <1>2, <1>3, <2>1, WorkerRows
  <2>3. Moved(s, x, ord.side, ord.product, ord.qty)
      BY <1>2, <1>3, <2>1, WorkerFillSound
  <2>4. x.n = s.n /\ FilledBy(ord, x.orders[o], "tick")
      BY <2>2 DEF FilledRows
  <2>5. Terms(ord, x.orders[o]) /\ Turned(ord, x.orders[o])
      BY <2>4 DEF FilledBy, Turned, Terminal
  <2>6. Book(x) /\ LoopRows(s, x, o)
    <3>1. CASE ord.type # "BRACKET"
      <4>1. KeptBut(s, x, {o})
          BY <2>2, <3>1 DEF FilledRows
      <4>2. \A j \in OrderIds : Siblings(s, o, j) =>
                /\ x.orders[j].status # "OPEN"
                /\ Checked(s.orders[j]) => ord.edited = TRUE \/ s.orders[j].edited = TRUE
        <5> SUFFICES ASSUME NEW j \in OrderIds, Siblings(s, o, j)
                     PROVE  /\ x.orders[j].status # "OPEN"
                            /\ Checked(s.orders[j]) => ord.edited = TRUE \/ s.orders[j].edited = TRUE
            OBVIOUS
        <5>1. x.orders[j].status # "OPEN"
            BY <2>2, <3>1 DEF Siblings
        <5>2. Checked(s.orders[j]) => ShouldFill(s.orders[j], sess.px)
            BY <1>1 DEF OInv, Fired
        <5>3. Apart(ord, s.orders[j])
            BY <1>2 DEF Book, Legs, LegPair
        <5>4. CASE Checked(s.orders[j])
            BY <5>1, <5>2, <5>3, <5>4, <1>3, <1>11 DEF Apart
        <5> QED
            BY <5>1, <5>4
      <4>3. Book(x)
          BY <1>2, <1>7, <2>4, <2>5, <4>1, <4>2, TurnedBook
      <4> QED
          BY <4>1, <4>3 DEF KeptBut, LoopRows
    <3>2. CASE ord.type = "BRACKET"
      <4>1. KeptBut(s, x, {o} \cup LegRows(o)) /\ LegsMade(s, x, o)
          BY <2>2, <3>2 DEF FilledRows
      <4>2. ord.status # "FILLED"
          BY <1>2
      <4>3. Book(x)
          BY <1>2, <1>7, <2>4, <3>2, <4>1, <4>2, BracketBook
      <4>4. SlLeg(o) \in OrderIds /\ TpLeg(o) \in OrderIds
          BY <1>2, <3>2, LegRowsExist DEF Book
      <4>5. \A i \in LegRows(o) : s.orders[i].status = "NONE"
          BY <1>2, <3>2, <4>2 DEF Book, Layout, RowBracket, LegRows
      <4>6. \A i \in LegRows(o) : x.orders[i].status \in {"OPEN", "CANCELLED"}
          BY <4>1, <4>4 DEF LegsMade, Leg, LegRows
      <4> QED
          BY <4>1, <4>3, <4>5, <4>6 DEF KeptBut, LoopRows
    <3> QED
        BY <3>1, <3>2
  <2>7. ExitsReduce(s, x)
    <3> SUFFICES ASSUME NEW i \in OrderIds, FilledBetween(s, x, i), x.orders[i].type \in ExitTypes
                 PROVE  Reduces(s.hold[x.orders[i].product].qty, x.hold[x.orders[i].product].qty)
        BY DEF ExitsReduce
    <3>1. i = o
        BY <2>6 DEF LoopRows, FilledBetween, Kept
    <3>2. x.orders[o].product = ord.product /\ ord.type \in ExitTypes
        BY <2>5, <3>1 DEF Terms
    <3>3. ord \in Order
        BY <1>2 DEF Sound, State
    <3>4. ord.side \in Sides /\ ord.product \in ProductTypes /\ ord.qty \in Nat
        BY <3>3 DEF Order
    <3>5. ord.qty > 0
        BY <1>2 DEF Sound
    <3>6. s.hold[ord.product].qty \in Int
        BY <1>2, <3>4 DEF Sound, State, Holding
    <3>7. IF ord.side = "SELL" THEN s.hold[ord.product].qty > 0 /\ s.hold[ord.product].qty >= ord.qty
                               ELSE s.hold[ord.product].qty < 0 /\ -s.hold[ord.product].qty >= ord.qty
        BY <1>11, <3>2 DEF HoldingCovers
    <3>8. IF ord.side = "SELL" THEN s.hold[ord.product].qty > 0 /\ ord.qty <= s.hold[ord.product].qty
                               ELSE s.hold[ord.product].qty < 0 /\ ord.qty <= -s.hold[ord.product].qty
        BY <3>4, <3>6, <3>7
    <3> HIDE DEF ord, s
    <3>9. Reduces(s.hold[ord.product].qty, x.hold[ord.product].qty)
        BY <1>2, <2>3, <3>4, <3>5, <3>8, CoveredReduces
    <3> QED
        BY <3>1, <3>2, <3>9
  <2> QED
      BY <1>6, <1>8, <1>11, <2>5, <2>6, <2>7
<1> QED
    BY <1>9, <1>10, <1>11

\* GET /orders has evaluated one order.
LEMMA PollOrders == ASSUME IInv, OInv, NEW o \in OrderIds, PollOrder(o) PROVE OInv'
<1> DEFINE s == sess.st
           x == IF PollTriggered(s.orders[o], price) THEN PollFill(s, o, price) ELSE s
<1>1. /\ SessionSound(sess) /\ sess.kind = "poll" /\ o \in sess.todo /\ sess \in Session
      /\ sess.kind # "none" /\ sess.kind \notin {"kill", "close"}
    BY DEF IInv, PollOrder, SessionSound
<1>2. /\ Sound(s) /\ s.orders[o].status # "NONE" /\ Book(s)
      /\ s.orders[o].status \in {"OPEN", "CANCELLED"}
    BY <1>1 DEF SessionSound, OInv, Waiting
<1>3. sess' = [sess EXCEPT !.todo = sess.todo \ {o}, !.st = x] /\ db' = db
    BY DEF PollOrder
<1>4. Sound(sess'.st)
    BY PollStep DEF IInv, SessionSound
<1> HIDE DEF x
<1>5. sess'.st = x /\ sess'.todo = sess.todo \ {o} /\ sess'.kind = sess.kind
    BY <1>1, <1>3 DEF Session
<1>6. Book(x) /\ LoopRows(s, x, o)
  <2>1. CASE PollTriggered(s.orders[o], price)
    <3>1. x = PollFill(s, o, price)
        BY <2>1 DEF x
    <3>2. x.n = s.n /\ FilledBy(s.orders[o], x.orders[o], "poll") /\ KeptBut(s, x, {o})
        BY <1>2, <3>1, PollRows, PriceType
    <3>3. Turned(s.orders[o], x.orders[o]) /\ ~Checked(x.orders[o])
        BY <3>2 DEF FilledBy, Turned, Terminal, Checked
    <3>4. Book(x)
        BY <1>2, <1>4, <1>5, <3>2, <3>3, TurnedBook
    <3> QED
        BY <3>2, <3>4 DEF KeptBut, LoopRows
  <2>2. CASE ~PollTriggered(s.orders[o], price)
    <3>1. x = s
        BY <2>2 DEF x
    <3> QED
        BY <1>2, <3>1, KeptSame DEF LoopRows
  <2> QED
      BY <2>1, <2>2
<1>7. Fired(sess')
    BY <1>1, <1>5 DEF Fired
<1> QED
    BY <1>1, <1>3, <1>5, <1>6, <1>7, LoopStep

\* The sweep has expired one order.
LEMMA ExpireOrders == ASSUME IInv, OInv, NEW o \in OrderIds, ExpireOrder(o) PROVE OInv'
<1> DEFINE s == sess.st
           x == [SetStatus(s, o, "EXPIRED") EXCEPT !.avail = @ + ReservedAmount(s.orders[o])]
<1>1. /\ SessionSound(sess) /\ sess.kind = "expire" /\ o \in sess.todo /\ sess \in Session
      /\ sess.kind # "none" /\ sess.kind \notin {"kill", "close"}
    BY DEF IInv, ExpireOrder, SessionSound
<1>2. Sound(s) /\ Book(s) /\ s.orders[o].status \in {"OPEN", "CANCELLED"}
    BY <1>1 DEF SessionSound, OInv, Waiting
<1>3. sess' = [sess EXCEPT !.todo = sess.todo \ {o}, !.st = x] /\ db' = db
    BY DEF ExpireOrder
<1>4. Sound(sess'.st)
    BY ExpireStep DEF IInv, SessionSound
<1>5. ClosedRow(s, x, o)
    BY <1>2, ClosedRows
<1> HIDE DEF x
<1>6. sess'.st = x /\ sess'.todo = sess.todo \ {o} /\ sess'.kind = sess.kind
    BY <1>1, <1>3 DEF Session
<1>7. Book(x) /\ KeptBut(s, x, {o})
    BY <1>2, <1>4, <1>5, <1>6, ClosedBook
<1>8. LoopRows(s, x, o)
    BY <1>7 DEF KeptBut, LoopRows
<1>9. Fired(sess')
    BY <1>1, <1>6 DEF Fired
<1> QED
    BY <1>1, <1>3, <1>6, <1>7, <1>8, <1>9, LoopStep

\* A cancellation of the kill switch: the database changes with the copy.
LEMMA KillCancelOrders ==
    ASSUME IInv, OInv, NEW o \in OrderIds, KillCancel(o)
    PROVE  OInv' /\ TerminalKept(db, db') /\ sess'.kind = "kill"
<1> DEFINE s == db
           x == CancelledOrder(s, o)
<1>1. /\ SessionSound(sess) /\ sess.kind = "kill" /\ o \in sess.todo /\ sess \in Session
      /\ sess.st = s
    BY DEF IInv, KillCancel, SessionSound
<1>2. /\ Sound(s) /\ Book(s) /\ s.orders[o].status # "NONE" /\ sess.todo \subseteq OpenOrders(s)
      /\ OpenOrders(s) \subseteq sess.todo /\ s.orders[o].status = "OPEN"
    BY <1>1 DEF SessionSound, OInv, IInv, Linked, Flattening, OpenOrders
<1>3. sess' = [sess EXCEPT !.todo = sess.todo \ {o}, !.st = x] /\ db' = x
    BY DEF KillCancel
<1>4. Sound(x) /\ SameHoldings(s, x)
    BY <1>2, CancelledOrderSound
<1>5. ClosedRow(s, x, o)
    BY <1>2, ClosedRows
<1> HIDE DEF x
<1>6. sess'.st = x /\ sess'.todo = sess.todo \ {o} /\ sess'.kind = "kill"
    BY <1>1, <1>3 DEF Session
<1>7. Book(x)
    BY <1>2, <1>4, <1>5, ClosedBook
<1>8. TerminalKept(s, x)
    BY <1>2, <1>5 DEF ClosedRow, TerminalKept, Terminal
<1>9. OpenOrders(x) = sess.todo \ {o}
    BY <1>2, <1>5 DEF OpenOrders, ClosedRow
<1>10. Waiting(sess')
    BY <1>6, <1>9 DEF Waiting, OpenOrders
<1>11. Fired(sess') /\ Flattening(sess')
    BY <1>6, <1>9 DEF Fired, Flattening
<1>12. Linked(db', sess')
    BY <1>3, <1>6, <1>9 DEF Linked, TerminalKept
<1> QED
    BY <1>3, <1>6, <1>7, <1>8, <1>10, <1>11, <1>12 DEF OInv

\* The kill switch goes on to the positions: nothing is open any more.
LEMMA ReadHoldingsOrders == ASSUME IInv, OInv, ReadHoldings PROVE OInv'
<1> DEFINE C == {p \in ProductTypes : db.hold[p].qty # 0}
<1>1. /\ sess.kind = "kill" /\ sess.todo = {} /\ sess.st = db /\ sess \in Session
      /\ Sound(db) /\ Book(db) /\ OpenOrders(db) = {} /\ db' = db
    BY DEF IInv, OInv, SessionSound, ReadHoldings, Flattening
<1>2. sess' = [sess EXCEPT !.kind = "close", !.close = C]
    BY DEF ReadHoldings
<1>3. sess'.st = db /\ sess'.todo = {} /\ sess'.kind = "close" /\ sess'.close = C
    BY <1>1, <1>2 DEF Session
<1>4. Waiting(sess') /\ Fired(sess')
    BY <1>3 DEF Waiting, Fired
<1>5. Flattening(sess')
    BY <1>1, <1>3 DEF Flattening
<1>6. Linked(db', sess')
    BY <1>1, <1>3 DEF Linked, TerminalKept
<1> QED
    BY <1>1, <1>3, <1>4, <1>5, <1>6 DEF OInv

\* place_order accepts the closing order of a position the limits let through, once
\* nothing is open.
LEMMA CloseAccepted ==
    ASSUME NEW s, Sound(s), OpenOrders(s) = {}, NEW p \in ProductTypes,
           s.hold[p].qty # 0, ~Unclosable(s.hold[p].qty), NEW px \in Prices
    PROVE  CanPlace(s, CloseRequest(p, s.hold[p].qty), px)
<1> DEFINE h == s.hold[p]
           q == h.qty
           r == CloseRequest(p, q)
           n == IF q > 0 THEN q ELSE -q
<1>1. q \in Int /\ q # 0 /\ px \in Nat
    BY ConstantsAssumption DEF Sound, State, Holding
<1>2. /\ r.side = (IF q > 0 THEN "SELL" ELSE "BUY") /\ r.type = "MARKET" /\ r.product = p
      /\ r.qty = n /\ r.client = 0
    BY DEF CloseRequest
<1>3. s.hold[r.product] = h
    BY <1>2
<1> HIDE DEF r, h
<1>4. WellFormed(r)
    BY <1>2 DEF WellFormed, EntryTypes
<1>5. IsReducing(r.side, h.qty) /\ IsExitOrder(r, h.qty)
    BY <1>1, <1>2 DEF IsReducing, IsExitOrder
<1>6. ExitAllowed(r, h, CurrentPrice(r, px))
    BY <1>1, <1>2 DEF ExitAllowed
<1>7. ExecutionPrice(r, px) = px
    BY <1>2 DEF ExecutionPrice, CurrentPrice
<1>8. ~(q > MaxPositionSize) /\ ~(-q > MaxPositionSize) /\ ~(px * (-q) > MaxTradeValue)
    BY DEF Unclosable, h
<1>9. r.qty <= MaxPositionSize
    BY <1>1, <1>2, <1>8, ConstantsAssumption
<1>10. r.side = "BUY" => px * r.qty <= MaxTradeValue
  <2> SUFFICES ASSUME r.side = "BUY" PROVE px * r.qty <= MaxTradeValue
      OBVIOUS
  <2>1. r.qty = -q
      BY <1>1, <1>2
  <2>2. px * (-q) \in Int /\ MaxTradeValue \in Int
      BY <1>1, ConstantsAssumption
  <2> QED
      BY <1>8, <2>1, <2>2
<1>11. Cardinality(OpenOrders(s)) < MaxOpenOrders
    BY FS_EmptySet, ConstantsAssumption
<1>12. RiskPassed(s, r, px)
    BY <1>3, <1>5, <1>9, <1>10, <1>11 DEF RiskPassed
<1> QED
    BY <1>3, <1>4, <1>5, <1>6, <1>7, <1>12 DEF CanPlace, r, h

\* A closing order of the kill switch: filled, or one that may be refused.
LEMMA KillCloseOrders == ASSUME IInv, OInv, NEW p \in ProductTypes, KillClose(p) PROVE OInv'
<1> DEFINE s == sess.st
           q == s.hold[p].qty
           r == CloseRequest(p, q)
           x == IF CanPlace(s, r, price) THEN Placed(s, r, price) ELSE s
<1>1. /\ SessionSound(sess) /\ sess.kind = "close" /\ sess.todo = {} /\ p \in sess.close
      /\ sess \in Session
    BY DEF IInv, KillClose, SessionSound
<1>2. /\ Sound(s) /\ Delivered(s) /\ Book(s) /\ price \in Nat /\ price \in Prices
      /\ s.n + Cardinality(sess.close) <= MaxOrders /\ q # 0
    BY <1>1, PriceType DEF IInv, SessionSound, RoomToClose, OInv
<1>3. sess' = [sess EXCEPT !.close = sess.close \ {p}, !.st = x] /\ db' = db
    BY DEF KillClose
<1>4. OpenOrders(s) = {}
    BY <1>1 DEF OInv, Flattening
<1>5. s.n \in Nat /\ q \in Int
    BY <1>2 DEF Sound, State, Holding
<1>6. s.n + 1 <= MaxOrders
  <2>1. IsFiniteSet(sess.close)
      BY <1>1, ProductTypesFinite, FS_Subset DEF Session
  <2>2. Cardinality(sess.close) \in Nat /\ Cardinality(sess.close) # 0
      BY <1>1, <2>1, FS_CardinalityType, FS_EmptySet
  <2> QED
      BY <1>2, <1>5, <2>2, ConstantsAssumption
<1>7. s.n + 1 \in OrderIds
    BY <1>5, <1>6, ConstantsAssumption DEF OrderIds
<1>8. CanPlace(s, r, price) \/ Unclosable(q)
    BY <1>2, <1>4, CloseAccepted
<1>9. /\ r.side = (IF q > 0 THEN "SELL" ELSE "BUY") /\ r.type = "MARKET" /\ r.product = p
      /\ r.qty = (IF q > 0 THEN q ELSE -q) /\ RowsFor(r) = 1
    BY DEF CloseRequest, RowsFor
<1>10. r \in Request
  <2>1. (IF q > 0 THEN "SELL" ELSE "BUY") \in Sides
      BY DEF Sides
  <2>2. (IF q > 0 THEN q ELSE -q) \in Nat \ {0}
      BY <1>2, <1>5
  <2>3. "MARKET" \in OrderTypes
      BY DEF OrderTypes
  <2> HIDE DEF q
  <2> QED
      BY <2>1, <2>2, <2>3 DEF CloseRequest, Request
<1> HIDE DEF r, x, q
<1>11. sess'.st = x /\ sess'.todo = {} /\ sess'.kind = "close" /\ sess'.close = sess.close \ {p}
    BY <1>1, <1>3 DEF Session
<1>12. TerminalKept(db, s)
    BY <1>1 DEF OInv, Linked
<1>13. ASSUME Book(x), TerminalKept(s, x), OpenOrders(x) = {},
              \A i \in ProductTypes \ {p} : x.hold[i].qty = s.hold[i].qty,
              x.hold[p].qty = 0 \/ Unclosable(x.hold[p].qty)
       PROVE  OInv'
  <2>1. Waiting(sess') /\ Fired(sess')
      BY <1>11 DEF Waiting, Fired
  <2>2. \A i \in ProductTypes : s.hold[i].qty # 0 => i \in sess.close \/ Unclosable(s.hold[i].qty)
      BY <1>1 DEF OInv, Flattening
  <2>3. Flattening(sess')
      BY <1>11, <1>13, <2>2 DEF Flattening
  <2>4. TerminalKept(db, x)
      BY <1>12, <1>13 DEF TerminalKept
  <2>5. Linked(db', sess')
      BY <1>3, <1>11, <2>4 DEF Linked
  <2> QED
      BY <1>3, <1>11, <1>13, <2>1, <2>3, <2>5 DEF OInv
<1>14. CASE CanPlace(s, r, price)
  <2> DEFINE o == s.n + 1
             t0 == WithRow(s, r)
  <2>1. x = Placed(s, r, price) /\ WellFormed(r)
      BY <1>14 DEF x, CanPlace
  <2>2. Book(x) /\ TerminalKept(s, x)
      BY <1>2, <1>6, <1>9, <1>10, <2>1, PlacedBook
  <2>3. FillsAtOnce(r, price)
      BY <1>9 DEF FillsAtOnce
  <2>4. FilledRows(t0, x, o, "place") /\ t0.orders[o] = NewOrder(r) /\ t0.hold = s.hold
      BY <1>2, <1>7, <1>10, <2>1, <2>3, PlacedRows, WithRowSound
  <2>5. \A i \in OrderIds : i # o => t0.orders[i] = s.orders[i]
      BY <1>2, <1>7, <1>10, WithRowRows
  <2>6. NewOrder(r).type # "BRACKET"
      BY <1>9 DEF NewOrder
  <2>7. FilledBy(t0.orders[o], x.orders[o], "place") /\ KeptBut(t0, x, {o})
      BY <2>4, <2>6 DEF FilledRows
  <2> HIDE DEF o, t0
  <2>8. OpenOrders(x) = {}
    <3>1. x.orders[o].status # "OPEN"
        BY <2>7 DEF FilledBy
    <3>2. \A i \in OrderIds : i # o => x.orders[i].status # "OPEN"
        BY <1>4, <2>5, <2>7 DEF KeptBut, Kept, OpenOrders
    <3> QED
        BY <3>1, <3>2 DEF OpenOrders
  <2>9. \A i \in ProductTypes \ {p} : x.hold[i].qty = s.hold[i].qty
      BY <1>2, <1>7, <1>9, <1>10, <1>14, <2>1, PlacedSound
  <2>10. x.hold[p].qty = 0
    <3>1. Moved(t0, x, r.side, r.product, r.qty)
        BY <1>2, <1>7, <1>10, <2>1, <2>3, PlacedMoves DEF t0
    <3>2. x.hold[p].qty = q + Signed(r.side, r.qty)
        BY <1>9, <2>4, <3>1 DEF Moved, q
    <3> QED
        BY <1>5, <1>9, <3>2 DEF Signed
  <2> QED
      BY <1>13, <2>2, <2>8, <2>9, <2>10
<1>15. CASE ~CanPlace(s, r, price)
  <2>1. x = s /\ TerminalKept(s, s)
      BY <1>15 DEF x, TerminalKept
  <2> QED
      BY <1>2, <1>4, <1>8, <1>13, <1>15, <2>1 DEF q
<1> QED
    BY <1>14, <1>15

--------------------------------------------------------------------------------
\* A looping handler begins with rows that are open.
LEMMA BeginOrders ==
    ASSUME IInv, OInv,
           \/ BeginTick \/ BeginPoll \/ BeginKillSwitch
           \/ \E S \in SUBSET OrderIds : BeginExpirySweep(S)
    PROVE  OInv'
<1>1. /\ db' = db /\ sess'.st = db /\ sess'.todo \subseteq OpenOrders(db)
      /\ sess'.kind = "kill" => sess'.todo = OpenOrders(db)
      /\ sess'.kind # "close"
    BY DEF BeginTick, BeginPoll, BeginExpirySweep, BeginKillSwitch, Idle
<1>2. Waiting(sess')
    BY <1>1 DEF Waiting, OpenOrders
<1>3. Fired(sess')
  <2> SUFFICES ASSUME NEW o \in sess'.todo, NEW j \in OrderIds,
                      Siblings(db, o, j), Checked(db.orders[j])
               PROVE  FALSE
      BY <1>1 DEF Fired
  <2>1. o \in OrderIds /\ db.orders[o].status = "OPEN"
      BY <1>1 DEF OpenOrders
  <2>2. Siblings(db, j, o)
      BY DEF Siblings
  <2> QED
      BY <2>1, <2>2 DEF OInv, Book, Legs, LegPair
<1>4. Flattening(sess')
    BY <1>1 DEF Flattening
<1>5. Linked(db', sess')
    BY <1>1 DEF Linked, TerminalKept
<1> QED
    BY <1>1, <1>2, <1>3, <1>4, <1>5 DEF OInv

\* A handler commits its copy.
LEMMA CommitOrders ==
    ASSUME IInv, OInv, EndTick \/ EndSession
    PROVE  OInv' /\ TerminalKept(db, db') /\ sess'.kind = "none"
<1>1. (db' = sess.st \/ db' = db) /\ sess' = Idle /\ sess.kind # "none"
    BY DEF EndTick, EndSession
<1>2. Book(db') /\ TerminalKept(db, db')
    BY <1>1 DEF OInv, Linked, TerminalKept
<1>3. Idle.kind = "none"
    BY DEF Idle
<1> QED
    BY <1>1, <1>2, <1>3, IdleOrders DEF OInv

--------------------------------------------------------------------------------
\* What every step of the orders table does: a handler that runs alone leaves what
\* is final, checked exits reduce their position, and a kill switch that ends has
\* flattened the account.
OrdersStep ==
    /\ TerminalKept(db, db')
    /\ sess.kind = "tick" /\ sess'.kind = "tick" => ExitsReduce(sess.st, sess'.st)
    /\ sess.kind = "none" /\ sess'.kind = "none" => ExitsReduce(db, db')
    /\ (sess.kind = "close" /\ sess'.kind = "none") =>
           /\ OpenOrders(db') = {}
           /\ \A p \in ProductTypes : db'.hold[p].qty # 0 => Unclosable(db'.hold[p].qty)

\* A handler that does not loop.
LEMMA DirectStep ==
    ASSUME OInv, Book(db'), sess.kind = "none", UNCHANGED sess,
           TerminalKept(db, db'), ExitsReduce(db, db')
    PROVE  OInv' /\ OrdersStep
BY DatabaseStep DEF OrdersStep

\* Where nothing is filled, no exit is.
LEMMA NoFillNoExit ==
    ASSUME NEW s, NEW t, \A i \in OrderIds : ~FilledBetween(s, t, i) PROVE ExitsReduce(s, t)
BY DEF ExitsReduce

\* place_order: the order it has inserted is the only one it fills, and it checks
\* an exit against the position.
LEMMA PlaceOrders ==
    ASSUME IInv, OInv, NEW r \in Requests, PlaceOrder(r) PROVE OInv' /\ OrdersStep
<1> DEFINE o == db.n + 1
           t0 == WithRow(db, r)
           x == Placed(db, r, price)
<1>1. /\ r \in Request /\ price \in Nat /\ Sound(db) /\ Book(db) /\ sess.kind = "none"
      /\ UNCHANGED sess /\ db.n + RowsFor(r) <= MaxOrders /\ CanPlace(db, r, price) /\ db' = x
    BY ConstantsAssumption, PriceType DEF IInv, OInv, PlaceOrder
<1>2. WellFormed(r)
    BY <1>1 DEF CanPlace
<1>3. /\ Book(x) /\ TerminalKept(db, x)
      /\ \A i \in OrderIds \ {o} : FilledBetween(db, x, i) => FALSE
    BY <1>1, <1>2, PlacedBook
<1>4. o \in OrderIds
    BY <1>1, <1>2, WithRowBook
<1>5. ExitsReduce(db, x)
  <2> SUFFICES ASSUME FilledBetween(db, x, o), x.orders[o].type \in ExitTypes
               PROVE  Reduces(db.hold[x.orders[o].product].qty, x.hold[x.orders[o].product].qty)
      BY <1>3, <1>4 DEF ExitsReduce
  <2> DEFINE row == NewOrder(r)
  <2>1. Sound(t0) /\ t0.orders[o] = row /\ t0.hold = db.hold
      BY <1>1, <1>4, WithRowSound
  <2>2. /\ row.status = "OPEN" /\ row.type = r.type /\ row.product = r.product
      BY DEF NewOrder
  <2> HIDE DEF row, t0
  <2>3. FillsAtOnce(r, price)
    <3>1. SUFFICES ASSUME ~FillsAtOnce(r, price) PROVE FALSE
        OBVIOUS
    <3>2. x.orders = t0.orders
        BY <1>1, <1>4, <3>1, PlacedRows DEF t0
    <3> QED
        BY <2>1, <2>2, <3>2 DEF FilledBetween
  <2>4. FilledRows(t0, x, o, "place")
      BY <1>1, <1>4, <2>3, PlacedRows DEF t0
  <2>5. FilledBy(t0.orders[o], x.orders[o], "place")
      BY <2>4 DEF FilledRows
  <2>6. x.orders[o].type = r.type /\ x.orders[o].product = r.product
      BY <2>1, <2>2, <2>5 DEF FilledBy, Terms
  <2>7. Moved(t0, x, r.side, r.product, r.qty)
      BY <1>1, <1>4, <2>3, PlacedMoves DEF t0
  <2>8. IF r.side = "SELL" THEN db.hold[r.product].qty > 0 /\ r.qty <= db.hold[r.product].qty
                           ELSE db.hold[r.product].qty < 0 /\ r.qty <= -db.hold[r.product].qty
      BY <1>1, <2>6 DEF CanPlace, IsExitOrder, ExitAllowed
  <2>9. /\ r.side \in Sides /\ r.product \in ProductTypes /\ r.qty \in Nat /\ r.qty > 0
      BY <1>1 DEF Request
  <2> HIDE DEF x, o
  <2>10. Reduces(t0.hold[r.product].qty, x.hold[r.product].qty)
      BY <2>1, <2>7, <2>8, <2>9, CoveredReduces
  <2> QED
      BY <2>1, <2>6, <2>10
<1> HIDE DEF x
<1> QED
    BY <1>1, <1>3, <1>5, DirectStep

\* DELETE /orders/{id}.
LEMMA CancelOrders ==
    ASSUME IInv, OInv, NEW o \in OrderIds, CancelOrder(o) PROVE OInv' /\ OrdersStep
<1> DEFINE x == CancelledOrder(db, o)
<1>1. /\ Sound(db) /\ Book(db) /\ sess.kind = "none" /\ UNCHANGED sess
      /\ db.orders[o].status = "OPEN" /\ db' = x
    BY DEF IInv, OInv, CancelOrder, OpenOrders
<1>2. Sound(x)
    BY <1>1, CancelledOrderSound
<1>3. ClosedRow(db, x, o)
    BY <1>1, ClosedRows
<1> HIDE DEF x
<1>4. Book(x) /\ \A i \in OrderIds : ~FilledBetween(db, x, i)
    BY <1>1, <1>2, <1>3, ClosedBook
<1>5. TerminalKept(db, x)
    BY <1>1, <1>3 DEF ClosedRow, TerminalKept, Terminal
<1> QED
    BY <1>1, <1>4, <1>5, NoFillNoExit, DirectStep

\* PATCH /orders/{id}.
LEMMA ModifyOrders ==
    ASSUME IInv, OInv, NEW o \in OrderIds, NEW e \in Edits, ModifyOrder(o, e)
    PROVE  OInv' /\ OrdersStep
<1> DEFINE row == Edited(db.orders[o], e)
           x == [db EXCEPT !.orders[o] = row]
<1>1. /\ Sound(db) /\ Book(db) /\ sess.kind = "none" /\ UNCHANGED sess /\ e \in Edit
      /\ db.orders[o].status = "OPEN" /\ db' = x
      /\ row.type = "BRACKET" => BracketOrdered(row.side, row.price, row.trig, row.tp)
    BY ConstantsAssumption DEF IInv, OInv, ModifyOrder, OpenOrders
<1>2. Book(x) /\ TerminalKept(db, x) /\ \A i \in OrderIds : ~FilledBetween(db, x, i)
    BY <1>1, EditedBook
<1> HIDE DEF x
<1> QED
    BY <1>1, <1>2, NoFillNoExit, DirectStep

\* GET /portfolio marks holdings and leaves the orders alone.
LEMMA SummaryOrders == ASSUME IInv, OInv, GetPortfolioSummary PROVE OInv' /\ OrdersStep
<1> DEFINE h == [p \in ProductTypes |-> Position(db.hold[p].qty, db.hold[p].avg, price)]
           t == [db EXCEPT !.hold = h]
<1>1. db \in State /\ Book(db) /\ sess.kind = "none" /\ UNCHANGED sess
    BY DEF IInv, OInv, Sound, GetPortfolioSummary
<1>2. db' = Recalculate(t)
    BY DEF GetPortfolioSummary
<1> HIDE DEF h
<1>3. t.orders = db.orders /\ t.n = db.n /\ "orders" \in DOMAIN t /\ "n" \in DOMAIN t
    BY <1>1 DEF State
<1> HIDE DEF t
<1>4. db'.orders = db.orders /\ db'.n = db.n
    BY <1>2, <1>3 DEF Recalculate
<1>5. Book(db')
    BY <1>1, <1>4 DEF Book, Layout, RowUsed, RowBracket, RowLeg, Legs, LegPair, Siblings
<1>6. TerminalKept(db, db') /\ \A i \in OrderIds : ~FilledBetween(db, db', i)
    BY <1>4 DEF TerminalKept, FilledBetween
<1> QED
    BY <1>1, <1>5, <1>6, NoFillNoExit, DirectStep

\* A step of a looping handler, or a handler that begins one, commits nothing.
LEMMA LoopCommitsNothing ==
    ASSUME IInv, UNCHANGED db, sess'.kind # "none",
           sess.kind = "tick" => ExitsReduce(sess.st, sess'.st)
    PROVE  OrdersStep
BY DEF OrdersStep, TerminalKept

\* The invariant of the orders table, and what each step does to it.
LEMMA OrdersPreserved ==
    ASSUME IInv, OInv, [Next]_vars PROVE OInv' /\ OrdersStep
<1>1. CASE \E r \in Requests : PlaceOrder(r)
    BY <1>1, PlaceOrders
<1>2. CASE \/ BeginTick \/ BeginPoll \/ BeginKillSwitch
           \/ \E S \in SUBSET OrderIds : BeginExpirySweep(S)
  <2>1. UNCHANGED db /\ sess'.kind # "none" /\ sess.kind = "none"
      BY <1>2 DEF BeginTick, BeginPoll, BeginKillSwitch, BeginExpirySweep, Idle
  <2> QED
      BY <1>2, <2>1, BeginOrders, LoopCommitsNothing
<1>3. CASE \E o \in OrderIds : EvaluateOrder(o)
  <2>1. UNCHANGED db /\ sess'.kind # "none"
      BY <1>3 DEF EvaluateOrder, IInv, SessionSound, Session
  <2> QED
      BY <1>3, <2>1, EvaluateOrders, LoopCommitsNothing
<1>4. CASE EndTick \/ EndSession
  <2>1. OInv' /\ TerminalKept(db, db') /\ sess'.kind = "none" /\ sess.kind # "none"
      BY <1>4, CommitOrders DEF EndTick, EndSession
  <2>2. ASSUME sess.kind = "close"
        PROVE  /\ OpenOrders(db') = {}
               /\ \A p \in ProductTypes : db'.hold[p].qty # 0 => Unclosable(db'.hold[p].qty)
    <3>1. db' = sess.st /\ sess.todo = {} /\ sess.close = {}
        BY <1>4, <2>2 DEF EndTick, EndSession
    <3> QED
        BY <2>2, <3>1 DEF OInv, Flattening
  <2> QED
      BY <2>1, <2>2 DEF OrdersStep
<1>5. CASE \/ \E o \in OrderIds : PollOrder(o) \/ ExpireOrder(o)
           \/ ReadHoldings
           \/ \E p \in ProductTypes : KillClose(p)
  <2>1. UNCHANGED db /\ sess'.kind # "none" /\ sess.kind # "tick"
      BY <1>5 DEF PollOrder, ExpireOrder, ReadHoldings, KillClose, IInv, SessionSound, Session
  <2>2. OInv'
      BY <1>5, PollOrders, ExpireOrders, ReadHoldingsOrders, KillCloseOrders
  <2> QED
      BY <2>1, <2>2, LoopCommitsNothing
<1>6. CASE \E o \in OrderIds : CancelOrder(o) \/ KillCancel(o)
  <2>1. CASE \E o \in OrderIds : CancelOrder(o)
      BY <2>1, CancelOrders
  <2>2. CASE \E o \in OrderIds : KillCancel(o)
    <3>1. OInv' /\ TerminalKept(db, db') /\ sess'.kind = "kill" /\ sess.kind = "kill"
        BY <2>2, KillCancelOrders DEF KillCancel
    <3> QED
        BY <3>1 DEF OrdersStep
  <2> QED
      BY <1>6, <2>1, <2>2
<1>7. CASE \E o \in OrderIds, e \in Edits : ModifyOrder(o, e)
    BY <1>7, ModifyOrders
<1>8. CASE GetPortfolioSummary
    BY <1>8, SummaryOrders
<1>9. CASE (\E px \in Prices : MoveQuote(px)) \/ UNCHANGED vars
  <2>1. UNCHANGED <<db, sess>>
      BY <1>9 DEF MoveQuote, vars
  <2>2. OInv'
      BY <2>1 DEF OInv
  <2> QED
      BY <2>1, <2>2 DEF OrdersStep, TerminalKept, ExitsReduce, FilledBetween
<1> QED
    BY <1>1, <1>2, <1>3, <1>4, <1>5, <1>6, <1>7, <1>8, <1>9 DEF Next

--------------------------------------------------------------------------------
\* Every handler leaves the orders table in order: rows in order of insertion, the
\* legs of a bracket after it and waiting for quotes on opposite sides of its entry,
\* a fill of one having closed the other, and nothing reopened.
THEOREM OrdersInvariant == Spec => [](IInv /\ OInv)
<1>1. Init => OInv
    BY InitBook, IdleOrders DEF Init, OInv
<1>2. IInv /\ OInv /\ [Next]_vars => OInv'
    BY OrdersPreserved
<1> QED
    BY <1>1, <1>2, InvariantHolds, PTL DEF Spec

\* However the order worker, GET /orders, the expiry sweep, cancel, PATCH and the
\* kill switch follow one another, the two legs of a bracket both fill only if
\* GET /orders filled one of them or PATCH moved one.
THEOREM LegsExclude == Spec => []OneLegFills
<1>1. IInv /\ OInv => OneLegFills
  <2> SUFFICES ASSUME IInv, OInv, NEW i \in OrderIds, NEW j \in OrderIds,
                      i # j, db.orders[i].parent # 0,
                      db.orders[i].parent = db.orders[j].parent,
                      db.orders[i].status = "FILLED", db.orders[j].status = "FILLED"
               PROVE  \/ "poll" \in {db.orders[i].by, db.orders[j].by}
                      \/ db.orders[i].edited \/ db.orders[j].edited
      BY DEF OneLegFills
  <2>1. LegPair(db, i, j)
      BY DEF OInv, Book, Legs, Siblings
  <2> QED
      BY <2>1 DEF LegPair, Checked
<1> QED
    BY <1>1, OrdersInvariant, PTL

\* Whatever became of the position while a stop-loss or take-profit order waited, an
\* order worker or a placement that fills it only reduces the position.
THEOREM ExitsAreSafe == Spec => ExitsOnlyReduce
<1> DEFINE A == /\ sess.kind = "tick" /\ sess'.kind = "tick" => ExitsReduce(sess.st, sess'.st)
                /\ sess.kind = "none" /\ sess'.kind = "none" => ExitsReduce(db, db')
<1>1. IInv /\ OInv /\ [Next]_vars => [A]_vars
    BY OrdersPreserved DEF OrdersStep
<1> HIDE DEF A
<1>2. Spec => [][A]_vars
    BY <1>1, OrdersInvariant, PTL DEF Spec
<1> QED
    BY <1>2 DEF A, ExitsOnlyReduce

\* A kill switch that has ended has cancelled every open order and closed every
\* position that the risk limits allow one order to close.
THEOREM KillSwitchWorks == Spec => KillSwitchFlattens
<1> DEFINE A == (sess.kind = "close" /\ sess'.kind = "none") =>
                    /\ OpenOrders(db') = {}
                    /\ \A p \in ProductTypes :
                          db'.hold[p].qty # 0 => Unclosable(db'.hold[p].qty)
<1>1. IInv /\ OInv /\ [Next]_vars => [A]_vars
    BY OrdersPreserved DEF OrdersStep
<1> HIDE DEF A
<1>2. Spec => [][A]_vars
    BY <1>1, OrdersInvariant, PTL DEF Spec
<1> QED
    BY <1>2 DEF A, KillSwitchFlattens

--------------------------------------------------------------------------------
(***************************************************************************)
(* Proofs about the money of TradingEngine, for every set of quotes,       *)
(* requests and edits and every risk limit: total_pnl and the cost of the  *)
(* holdings account for the cash of the transactions, and                  *)
(* available_capital never exceeds what capital, profit, longs and short   *)
(* margins leave.                                                          *)
(*                                                                         *)
(* Neither is inductive.  A BUY that averages stores the exact cost of the *)
(* row and a rounded average; the difference (Gap) reaches total_pnl or    *)
(* available_capital only when a later sale, buy or summary works with the *)
(* average.  The invariant Balanced therefore bounds what has been moved   *)
(* and what the rows still hide together.                                  *)
(***************************************************************************)

Abs(x) == IF x < 0 THEN -x ELSE x

\* What the cost of a row differs from its average times its quantity.
Gap(h) == h.inv - h.avg * h.qty

\* What a row takes out of available_capital: the cost of a long, the margin of a short.
Tied(p, h) ==
    CASE h.qty > 0 -> h.inv
      [] h.qty < 0 -> Margin(p, -h.inv)
      [] OTHER -> 0

\* No row, no money in it; and the cost of a short is its average times its quantity.
RowExact(h) ==
    /\ h.qty = 0 => h.inv = 0 /\ h.cur = 0
    /\ h.qty < 0 => Gap(h) = 0

\* A quotient that a column keeps is at most half a unit off.
LEMMA RoundDivNear ==
    ASSUME NEW a \in Int, NEW b \in Nat \ {0}
    PROVE  /\ RoundDiv(a, b) \in Int
           /\ 2 * (b * RoundDiv(a, b)) - 2 * a \in -b .. b
<1> DEFINE x == 2 * a + b
           d == 2 * b
           r == x \div d
<1>1. x \in Int /\ d \in Nat \ {0} /\ RoundDiv(a, b) = r
    BY DEF RoundDiv
<1> HIDE DEF x, d
<1>2. r \in Int /\ d * r <= x /\ x < d * r + d
    BY <1>1
<1> HIDE DEF r
<1>3. d * r = 2 * (b * r)
    BY <1>2 DEF d
<1>4. b * r \in Int
    BY <1>2
<1> QED
    BY <1>1, <1>2, <1>3, <1>4 DEF x, d

\* Two margins of parts exceed the margin of the whole by at most one unit.
LEMMA MarginSplit ==
    ASSUME NEW p, NEW x \in Int, NEW y \in Int
    PROVE  /\ Margin(p, x) + Margin(p, y) - Margin(p, x + y) <= 1
           /\ p # "MIS" => Margin(p, x) + Margin(p, y) = Margin(p, x + y)
BY DEF Margin, RoundDiv

\* The arithmetic of prices times quantities that the fills use.
LEMMA Distribute ==
    ASSUME NEW x \in Int, NEW y \in Int, NEW z \in Int
    PROVE  /\ x * y \in Int /\ x * (-y) = -(x * y) /\ (-x) * y = -(x * y)
           /\ (x - y) * z = x * z - y * z /\ (x + y) * z = x * z + y * z
           /\ x * (y + z) = x * y + x * z /\ x * (y - z) = x * y - x * z
OBVIOUS

\* A row entered at one price has no gap.
LEMMA PositionExact ==
    ASSUME NEW q \in Int, NEW avg \in Int, NEW px \in Int
    PROVE  /\ RowExact(Position(q, avg, px)) /\ Gap(Position(q, avg, px)) = 0
           /\ Position(q, avg, px).qty = q /\ Position(q, avg, px).inv = avg * q
           /\ Position(q, avg, px).inv \in Int
<1> DEFINE h == Position(q, avg, px)
<1>1. h.qty = q /\ h.avg = avg /\ h.inv = avg * q /\ h.cur = px * q
    BY DEF Position
<1>2. avg * q \in Int /\ (q = 0 => avg * q = 0 /\ px * q = 0)
    OBVIOUS
<1> HIDE DEF h
<1>3. Gap(h) = 0
    BY <1>1, <1>2 DEF Gap
<1> QED
    BY <1>1, <1>2, <1>3 DEF RowExact, h

\* What a fill f of the row h in product type p leaves: it books the gap of the old
\* row, and whatever it rounds itself is within d half units.
Books(p, h, f, sign, px, d) ==
    /\ RowExact(f.hold)
    /\ f.pnl - f.hold.inv + sign * px = Gap(h) - h.inv
    /\ 2 * Abs(Gap(f.hold)) <= d
    /\ 2 * (f.avail - f.pnl + Tied(p, f.hold) - Tied(p, h) + Gap(h))
           + 2 * Abs(Gap(f.hold)) <= d

\* The fields of a row that the accounts are about.
LEMMA RowTypes ==
    ASSUME NEW p, NEW h \in Holding
    PROVE  /\ h.qty \in Int /\ h.avg \in Int /\ h.inv \in Int /\ h.cur \in Int
           /\ h.avg * h.qty \in Int /\ Gap(h) \in Int /\ Tied(p, h) \in Int
           /\ Abs(Gap(h)) \in Nat
<1>1. h.qty \in Int /\ h.avg \in Int /\ h.inv \in Int /\ h.cur \in Int
    BY DEF Holding
<1>2. h.avg * h.qty \in Int
    BY <1>1
<1>3. Margin(p, -h.inv) \in Int
    BY <1>1, MarginType
<1> QED
    BY <1>1, <1>2, <1>3 DEF Gap, Tied, Abs

\* Buying back a part of a short: the margin is split.
LEMMA BuyBackPart ==
    ASSUME NEW p \in ProductTypes, NEW h \in Holding, NEW q \in Nat \ {0}, NEW px \in Nat,
           RowExact(h), h.qty < 0, q < -h.qty
    PROVE  Books(p, h, BuyFill(p, h, q, px), q, px, FillDust("BUY", p, h, q))
<1> DEFINE f == BuyFill(p, h, q, px)
           pos == Position(h.qty + q, h.avg, px)
           gain == (h.avg - px) * q
           x == h.avg * q
           y == -(h.avg * (h.qty + q))
<1>1. /\ h.qty \in Int /\ h.avg \in Int /\ h.inv \in Int /\ h.avg * h.qty \in Int
      /\ Gap(h) = 0
    BY RowTypes DEF RowExact
<1>2. px * 0 = 0 /\ q - q = 0
    OBVIOUS
<1>3. /\ f.hold = pos /\ f.avail = Margin(p, x) + gain - px * (q - q) /\ f.pnl = gain
    BY <1>1 DEF BuyFill
<1>4. /\ gain = x - px * q /\ x \in Int /\ px * q \in Int
      /\ q * px = px * q /\ y = -(h.avg * h.qty) - x
    BY <1>1, Distribute
<1>5. /\ RowExact(pos) /\ Gap(pos) = 0 /\ pos.qty = h.qty + q /\ pos.inv = -y
      /\ pos.inv \in Int
  <2> DEFINE n == h.qty + q
  <2>1. n \in Int /\ px \in Int
      BY <1>1
  <2> HIDE DEF n
  <2>2. LET u == Position(n, h.avg, px)
        IN RowExact(u) /\ Gap(u) = 0 /\ u.qty = n /\ u.inv = h.avg * n /\ u.inv \in Int
      BY <1>1, <2>1, PositionExact
  <2>3. -(-(h.avg * n)) = h.avg * n
      BY <1>1, <2>1
  <2> QED
      BY <2>2, <2>3 DEF n
<1> HIDE DEF f, pos, gain, x, y
<1>6. y \in Int /\ -pos.inv = y /\ x + y = -h.inv
    BY <1>1, <1>4, <1>5 DEF Gap
<1>7. /\ Tied(p, pos) = Margin(p, y) /\ Tied(p, h) = Margin(p, x + y)
    BY <1>1, <1>5, <1>6 DEF Tied
<1>8. Margin(p, x) \in Int /\ Margin(p, y) \in Int /\ Margin(p, x + y) \in Int
    BY <1>4, <1>6, MarginType
<1>9. /\ Margin(p, x) + Margin(p, y) - Margin(p, x + y) <= 1
      /\ p # "MIS" => Margin(p, x) + Margin(p, y) = Margin(p, x + y)
    BY <1>4, <1>6, MarginSplit
<1>10. FillDust("BUY", p, h, q) = IF p = "MIS" THEN 2 ELSE 0
    BY <1>1 DEF FillDust
<1>11. f.avail = Margin(p, x) + gain
    BY <1>2, <1>3, <1>4, <1>8
<1>12. f.pnl - f.hold.inv + q * px = Gap(h) - h.inv
    BY <1>1, <1>3, <1>4, <1>5, <1>6
<1>13. f.avail - f.pnl + Tied(p, f.hold) - Tied(p, h) + Gap(h)
           = Margin(p, x) + Margin(p, y) - Margin(p, x + y)
    BY <1>1, <1>3, <1>4, <1>7, <1>8, <1>11
<1>14. Abs(Gap(f.hold)) = 0
    BY <1>3, <1>5 DEF Abs
<1> QED
    BY <1>3, <1>5, <1>8, <1>9, <1>10, <1>12, <1>13, <1>14 DEF Books, f

\* Buying back a whole short, and perhaps a long on top of it.
LEMMA BuyBackAll ==
    ASSUME NEW p \in ProductTypes, NEW h \in Holding, NEW q \in Nat \ {0}, NEW px \in Nat,
           RowExact(h), h.qty < 0, ~(q < -h.qty)
    PROVE  Books(p, h, BuyFill(p, h, q, px), q, px, FillDust("BUY", p, h, q))
<1> DEFINE f == BuyFill(p, h, q, px)
           k == -h.qty
           left == q - k
           pos == IF left > 0 THEN Position(left, px, px) ELSE NoHolding
           gain == (h.avg - px) * k
<1>1. /\ h.qty \in Int /\ h.avg \in Int /\ h.inv \in Int /\ h.avg * h.qty \in Int
      /\ Gap(h) = 0
    BY RowTypes DEF RowExact
<1>2. k \in Nat \ {0} /\ left \in Nat
    BY <1>1
<1>3. /\ f.hold = pos /\ f.avail = Margin(p, h.avg * k) + gain - px * left
      /\ f.pnl = gain
    BY <1>1 DEF BuyFill
<1>4. /\ gain = h.avg * k - px * k /\ h.avg * k = -(h.avg * h.qty) /\ px * k \in Int
      /\ q * px = px * q /\ px * left = px * q - px * k /\ px * q \in Int
    BY <1>1, <1>2, Distribute
<1>5. /\ RowExact(pos) /\ Gap(pos) = 0 /\ pos.inv = px * left
      /\ Tied(p, pos) = px * left
  <2>1. CASE left > 0
    <3>1. pos = Position(left, px, px)
        BY <2>1
    <3>2. left \in Int /\ px \in Int
        BY <1>2
    <3> HIDE DEF left, pos
    <3>3. /\ RowExact(pos) /\ Gap(pos) = 0 /\ pos.qty = left /\ pos.inv = px * left
        BY <3>1, <3>2, PositionExact
    <3> QED
        BY <1>2, <2>1, <3>3 DEF Tied
  <2>2. CASE left = 0
    <3>1. pos = NoHolding /\ px * left = 0
        BY <2>2
    <3> QED
        BY <3>1 DEF NoHolding, RowExact, Gap, Tied
  <2> QED
      BY <1>2, <2>1, <2>2
<1> HIDE DEF f, pos, gain, left, k
<1>6. h.avg * k = -h.inv
    BY <1>1, <1>4 DEF Gap
<1>7. Tied(p, h) = Margin(p, h.avg * k) /\ Margin(p, h.avg * k) \in Int
    BY <1>1, <1>6, MarginType DEF Tied
<1>8. FillDust("BUY", p, h, q) = 0
    BY <1>1 DEF FillDust
<1>9. f.pnl - f.hold.inv + q * px = Gap(h) - h.inv
    BY <1>1, <1>3, <1>4, <1>5, <1>6
<1>10. f.avail - f.pnl + Tied(p, f.hold) - Tied(p, h) + Gap(h) = 0
    BY <1>1, <1>3, <1>4, <1>5, <1>6, <1>7
<1>11. Abs(Gap(f.hold)) = 0
    BY <1>3, <1>5 DEF Abs
<1> QED
    BY <1>3, <1>5, <1>8, <1>9, <1>10, <1>11 DEF Books, f

\* Averaging: the stored average of all shares is rounded.
LEMMA BuyAverages ==
    ASSUME NEW p \in ProductTypes, NEW h \in Holding, NEW q \in Nat \ {0}, NEW px \in Nat,
           RowExact(h), ~(h.qty < 0)
    PROVE  Books(p, h, BuyFill(p, h, q, px), q, px, FillDust("BUY", p, h, q))
<1> DEFINE f == BuyFill(p, h, q, px)
           cost == h.avg * h.qty + px * q
           total == h.qty + q
           avg == RoundDiv(cost, total)
<1>1. /\ h.qty \in Nat /\ h.avg \in Int /\ h.inv \in Int /\ h.avg * h.qty \in Int
      /\ px * q \in Int /\ q * px = px * q
    BY RowTypes
<1>2. total \in Nat \ {0} /\ cost \in Int /\ total > 0
    BY <1>1
<1>3. /\ f.hold.qty = total /\ f.hold.avg = avg /\ f.hold.inv = cost
      /\ f.avail = -(px * q) /\ f.pnl = 0
    BY <1>1 DEF BuyFill
<1> HIDE DEF f
<1>4. Tied(p, f.hold) = cost
    BY <1>2, <1>3 DEF Tied
<1>5. Tied(p, h) = h.inv
    BY <1>1 DEF Tied, RowExact
<1>6. FillDust("BUY", p, h, q) = IF h.qty > 0 THEN total ELSE 0
    BY <1>1 DEF FillDust
<1>7. 2 * Abs(Gap(f.hold)) <= FillDust("BUY", p, h, q) /\ Gap(f.hold) \in Int
  <2>1. CASE h.qty > 0
    <3> HIDE DEF total, cost
    <3>1. avg \in Int /\ 2 * (total * avg) - 2 * cost \in -total .. total
        BY <1>2, RoundDivNear
    <3> HIDE DEF avg
    <3>2. total * avg = avg * total /\ total * avg \in Int
        BY <1>2, <3>1
    <3>3. Gap(f.hold) = cost - avg * total
        BY <1>3 DEF Gap
    <3> QED
        BY <1>2, <1>6, <2>1, <3>1, <3>2, <3>3 DEF Abs
  <2>2. CASE h.qty = 0
    <3>1. total = q /\ cost = px * q
        BY <1>1, <2>2
    <3>2. avg = px
      <4> HIDE DEF avg, total, cost
      <4> DEFINE z == px * q
      <4>1. z \in Int /\ avg = (2 * z + q) \div (2 * q)
          BY <1>1, <3>1 DEF avg, RoundDiv
      <4>2. 2 * z + q = px * (2 * q) + q
          BY <1>1
      <4>3. (px * (2 * q) + q) \div (2 * q) = px
          OBVIOUS
      <4> QED
          BY <4>1, <4>2, <4>3
    <3>3. Gap(f.hold) = 0
        BY <1>1, <1>3, <3>1, <3>2 DEF Gap
    <3> QED
        BY <1>6, <2>2, <3>3 DEF Abs
  <2> QED
      BY <1>1, <2>1, <2>2
<1>8. RowExact(f.hold)
    BY <1>2, <1>3 DEF RowExact
<1>9. f.pnl - f.hold.inv + q * px = Gap(h) - h.inv
    BY <1>1, <1>3 DEF Gap
<1>10. f.avail - f.pnl + Tied(p, f.hold) - Tied(p, h) + Gap(h) = 0
    BY <1>1, <1>3, <1>4, <1>5 DEF Gap
<1> HIDE DEF cost, total, avg
<1>11. Abs(Gap(f.hold)) \in Int
    BY <1>7 DEF Abs
<1>12. FillDust("BUY", p, h, q) \in Int
    BY <1>2, <1>6
<1> QED
    BY <1>7, <1>8, <1>9, <1>10, <1>11, <1>12 DEF Books, f

\* Selling out of a long books the gap of its average.
LEMMA SellsLong ==
    ASSUME NEW p \in ProductTypes, NEW h \in Holding, NEW q \in Nat \ {0}, NEW px \in Nat,
           RowExact(h), h.qty >= q
    PROVE  Books(p, h, SellFromLong(h, q, px), -q, px, 0)
<1> DEFINE f == SellFromLong(h, q, px)
           left == h.qty - q
           pos == IF h.qty = q THEN NoHolding ELSE Position(left, h.avg, px)
           gain == (px - h.avg) * q
<1>1. /\ h.qty \in Nat \ {0} /\ h.avg \in Int /\ h.inv \in Int /\ h.avg * h.qty \in Int
      /\ h.qty > 0 /\ left \in Nat
    BY RowTypes
<1>2. f.hold = pos /\ f.avail = px * q /\ f.pnl = gain
    BY DEF SellFromLong
<1>3. /\ gain = px * q - h.avg * q /\ h.avg * q \in Int /\ px * q \in Int
      /\ (-q) * px = -(px * q) /\ h.avg * left = h.avg * h.qty - h.avg * q
    BY <1>1, Distribute
<1>4. /\ RowExact(pos) /\ Gap(pos) = 0 /\ pos.inv = h.avg * left
      /\ Tied(p, pos) = h.avg * left
  <2>1. CASE left > 0
    <3>1. pos = Position(left, h.avg, px)
        BY <1>1, <2>1
    <3>2. left \in Int /\ px \in Int
        BY <1>1
    <3> HIDE DEF left, pos
    <3>3. /\ RowExact(pos) /\ Gap(pos) = 0 /\ pos.qty = left /\ pos.inv = h.avg * left
        BY <1>1, <3>1, <3>2, PositionExact
    <3> QED
        BY <1>1, <2>1, <3>3 DEF Tied
  <2>2. CASE left = 0
    <3>1. pos = NoHolding /\ h.avg * left = 0
        BY <1>1, <2>2
    <3> QED
        BY <3>1 DEF NoHolding, RowExact, Gap, Tied
  <2> QED
      BY <1>1, <2>1, <2>2
<1> HIDE DEF f, pos, gain, left
<1>5. Tied(p, h) = h.inv
    BY <1>1 DEF Tied
<1>6. f.pnl - f.hold.inv + (-q) * px = Gap(h) - h.inv
    BY <1>1, <1>2, <1>3, <1>4 DEF Gap
<1>7. f.avail - f.pnl + Tied(p, f.hold) - Tied(p, h) + Gap(h) = 0
    BY <1>1, <1>2, <1>3, <1>4, <1>5 DEF Gap
<1>8. Abs(Gap(f.hold)) = 0
    BY <1>2, <1>4 DEF Abs
<1> QED
    BY <1>2, <1>4, <1>6, <1>7, <1>8 DEF Books, f

\* Selling more than the long, or without one, books the gap and blocks the margin.
LEMMA SellsShort ==
    ASSUME NEW p \in ProductTypes, NEW h \in Holding, NEW q \in Nat \ {0}, NEW px \in Nat,
           RowExact(h), ~(h.qty >= q), ~(h.qty < 0)
    PROVE  Books(p, h, SellShort(p, h, q, px), -q, px, 0)
<1> DEFINE f == SellShort(p, h, q, px)
           k == q - h.qty
           pos == Position(h.qty - q, px, px)
           gain == (px - h.avg) * h.qty
<1>1. /\ h.qty \in Nat /\ h.avg \in Int /\ h.inv \in Int /\ h.avg * h.qty \in Int
      /\ k \in Nat \ {0} /\ h.qty - q = -k
    BY RowTypes
<1>2. f.hold = pos /\ f.avail = px * h.qty - Margin(p, px * k) /\ f.pnl = gain
    BY DEF SellShort
<1>3. /\ gain = px * h.qty - h.avg * h.qty /\ px * h.qty \in Int /\ px * q \in Int
      /\ (-q) * px = -(px * q) /\ px * k = px * q - px * h.qty
      /\ px * (-k) = -(px * k)
    BY <1>1, Distribute
<1>4. /\ RowExact(pos) /\ Gap(pos) = 0 /\ pos.qty = -k /\ pos.inv = -(px * k)
  <2>1. pos = Position(-k, px, px) /\ -k \in Int /\ px \in Int
      BY <1>1
  <2> HIDE DEF k, pos
  <2>2. /\ RowExact(pos) /\ Gap(pos) = 0 /\ pos.qty = -k /\ pos.inv = px * (-k)
      BY <2>1, PositionExact
  <2> QED
      BY <1>3, <2>2
<1> HIDE DEF f, pos, gain, k
<1>5. Tied(p, h) = h.inv
    BY <1>1 DEF Tied, RowExact
<1>6. -pos.inv = px * k /\ px * k \in Int
    BY <1>3, <1>4
<1>7. Tied(p, pos) = Margin(p, px * k) /\ Margin(p, px * k) \in Int
    BY <1>1, <1>4, <1>6, MarginType DEF Tied
<1>8. f.pnl - f.hold.inv + (-q) * px = Gap(h) - h.inv
    BY <1>1, <1>2, <1>3, <1>4 DEF Gap
<1>9. f.avail - f.pnl + Tied(p, f.hold) - Tied(p, h) + Gap(h) = 0
    BY <1>1, <1>2, <1>3, <1>5, <1>7 DEF Gap
<1>10. Abs(Gap(f.hold)) = 0
    BY <1>2, <1>4 DEF Abs
<1> QED
    BY <1>2, <1>4, <1>8, <1>9, <1>10 DEF Books, f

\* Every fill keeps the rows exact, and every fill but one on top of a short books
\* what it moves.
LEMMA FillBooks ==
    ASSUME NEW side \in Sides, NEW p \in ProductTypes, NEW h \in Holding,
           NEW q \in Nat \ {0}, NEW px \in Nat, RowExact(h)
    PROVE  /\ RowExact(ApplyFill(side, p, h, q, px).hold)
           /\ FillDust(side, p, h, q) \in Nat
           /\ ~(side = "SELL" /\ h.qty < 0) =>
                  Books(p, h, ApplyFill(side, p, h, q, px), Signed(side, q), px,
                        FillDust(side, p, h, q))
<1>1. h.qty \in Int /\ h.avg \in Int
    BY RowTypes
<1>2. FillDust(side, p, h, q) \in Nat
    BY <1>1 DEF FillDust
<1>3. CASE side = "BUY"
  <2>1. Books(p, h, BuyFill(p, h, q, px), q, px, FillDust("BUY", p, h, q))
      BY BuyBackPart, BuyBackAll, BuyAverages
  <2> QED
      BY <1>2, <1>3, <2>1 DEF ApplyFill, Signed, Books
<1>4. CASE side = "SELL" /\ ~(h.qty < 0)
  <2>1. Books(p, h, SellFill(p, h, q, px), -q, px, 0)
      BY <1>4, SellsLong, SellsShort DEF SellFill
  <2>2. FillDust(side, p, h, q) = 0
      BY <1>4 DEF FillDust
  <2> QED
      BY <1>2, <1>4, <2>1, <2>2 DEF ApplyFill, Signed, Books
<1>5. CASE side = "SELL" /\ h.qty < 0
  <2> DEFINE f == ApplyFill(side, p, h, q, px)
  <2>1. f.hold = Position(h.qty - q, h.avg, px)
      BY <1>1, <1>5 DEF ApplyFill, SellFill, SellIntoShort
  <2>2. h.qty - q \in Int
      BY <1>1
  <2> HIDE DEF f
  <2>3. RowExact(f.hold)
      BY <1>1, <2>1, <2>2, PositionExact
  <2> QED
      BY <1>2, <1>5, <2>3 DEF f
<1> QED
    BY <1>3, <1>4, <1>5 DEF Sides

--------------------------------------------------------------------------------
\* What the rows of an account hide between their cost and their average.
Residue(hold) == Abs(Gap(hold["CNC"])) + Abs(Gap(hold["MIS"])) + Abs(Gap(hold["NRML"]))

\* What all rows of an account take out of available_capital.
AllTied(hold) == Tied("CNC", hold["CNC"]) + Tied("MIS", hold["MIS"]) + Tied("NRML", hold["NRML"])

RowsExact(s) == \A p \in ProductTypes : RowExact(s.hold[p])
DriftBounded(s) == 2 * Abs(CashDrift(s)) + 2 * Residue(s.hold) <= s.dust
ExcessBounded(s) == 2 * CashExcess(s) + 2 * Residue(s.hold) <= s.dust
NoneRested(s) == \A o \in OrderIds : ~Rested(s.orders[o])

\* The books of an account balance: what rounding has moved and what the rows hide.
Balanced(s) ==
    /\ RowsExact(s)
    /\ s.scaledIn = FALSE => DriftBounded(s)
    /\ s.scaledIn = FALSE /\ NoneRested(s) => ExcessBounded(s)

\* The longs and the short margins are what the rows take.
LEMMA TiedParts ==
    ASSUME NEW s, Sound(s)
    PROVE  /\ LongCost(s.hold) + ShortMargin(s.hold) = AllTied(s.hold)
           /\ AllTied(s.hold) \in Int /\ Residue(s.hold) \in Nat
           /\ CashExcess(s) = s.avail - BaseCapital - s.pnl + AllTied(s.hold)
           /\ CashExcess(s) \in Int
           /\ TotalInvested(s.hold) \in Int /\ CashDrift(s) \in Int
           /\ s.avail \in Int /\ s.pnl \in Int /\ s.cash \in Int /\ s.dust \in Nat
<1>1. \A p \in ProductTypes : s.hold[p] \in Holding
    BY DEF Sound, State
<1>2. \A p \in ProductTypes :
          /\ s.hold[p].qty \in Int /\ s.hold[p].inv \in Int
          /\ Tied(p, s.hold[p]) \in Int /\ Abs(Gap(s.hold[p])) \in Nat
    BY <1>1, RowTypes
<1> DEFINE c(p) == IF s.hold[p].qty > 0 THEN s.hold[p].inv ELSE 0
           m(p) == IF s.hold[p].qty < 0 THEN Margin(p, -s.hold[p].inv) ELSE 0
<1>3. \A p \in ProductTypes : c(p) \in Int /\ m(p) \in Int /\ c(p) + m(p) = Tied(p, s.hold[p])
  <2> TAKE p \in ProductTypes
  <2>1. s.hold[p].qty \in Int /\ s.hold[p].inv \in Int
      BY <1>2
  <2>2. -s.hold[p].inv \in Int
      BY <2>1
  <2>3. Margin(p, -s.hold[p].inv) \in Int
      BY <2>2, MarginType
  <2> QED
      BY <2>1, <2>3 DEF Tied
<1>4. /\ LongCost(s.hold) = c("CNC") + c("MIS") + c("NRML")
      /\ ShortMargin(s.hold) = m("CNC") + m("MIS") + m("NRML")
    BY DEF LongCost, ShortMargin
<1> HIDE DEF c, m
<1>5. "CNC" \in ProductTypes /\ "MIS" \in ProductTypes /\ "NRML" \in ProductTypes
    BY DEF ProductTypes
<1>6. /\ LongCost(s.hold) \in Int /\ ShortMargin(s.hold) \in Int
      /\ LongCost(s.hold) + ShortMargin(s.hold) = AllTied(s.hold)
      /\ AllTied(s.hold) \in Int
  <2>1. /\ c("CNC") \in Int /\ m("CNC") \in Int /\ c("MIS") \in Int /\ m("MIS") \in Int
        /\ c("NRML") \in Int /\ m("NRML") \in Int
        /\ Tied("CNC", s.hold["CNC"]) = c("CNC") + m("CNC")
        /\ Tied("MIS", s.hold["MIS"]) = c("MIS") + m("MIS")
        /\ Tied("NRML", s.hold["NRML"]) = c("NRML") + m("NRML")
      BY <1>3, <1>5
  <2> QED
      BY <1>4, <2>1 DEF AllTied
<1>7. s.avail \in Int /\ s.pnl \in Int /\ s.cash \in Int /\ s.dust \in Nat
    BY DEF Sound, State
<1>8. /\ CashExcess(s) = s.avail - BaseCapital - s.pnl + AllTied(s.hold)
      /\ CashExcess(s) \in Int
    BY <1>6, <1>7, ConstantsAssumption DEF CashExcess
<1>9. Residue(s.hold) \in Nat
    BY <1>2, <1>5 DEF Residue
<1>10. TotalInvested(s.hold) \in Int
    BY <1>2, <1>5 DEF TotalInvested
<1> QED
    BY <1>6, <1>7, <1>8, <1>9, <1>10 DEF CashDrift

\* Three rows of which at most one has changed.
LEMMA OneRowSums ==
    ASSUME NEW s, NEW t, Sound(s), Sound(t), NEW p \in ProductTypes,
           \A r \in ProductTypes \ {p} : t.hold[r] = s.hold[r]
    PROVE  /\ AllTied(t.hold) = AllTied(s.hold) - Tied(p, s.hold[p]) + Tied(p, t.hold[p])
           /\ Residue(t.hold) = Residue(s.hold) - Abs(Gap(s.hold[p])) + Abs(Gap(t.hold[p]))
           /\ TotalInvested(t.hold) = TotalInvested(s.hold) - s.hold[p].inv + t.hold[p].inv
<1>1. \A r \in ProductTypes : s.hold[r] \in Holding /\ t.hold[r] \in Holding
    BY DEF Sound, State
<1>2. \A r \in ProductTypes :
          /\ s.hold[r].inv \in Int /\ t.hold[r].inv \in Int
          /\ Tied(r, s.hold[r]) \in Int /\ Abs(Gap(s.hold[r])) \in Nat
          /\ Tied(r, t.hold[r]) \in Int /\ Abs(Gap(t.hold[r])) \in Nat
    BY <1>1, RowTypes
<1>3. CASE p = "CNC"
    BY <1>2, <1>3 DEF ProductTypes, AllTied, Residue, TotalInvested
<1>4. CASE p = "MIS"
    BY <1>2, <1>4 DEF ProductTypes, AllTied, Residue, TotalInvested
<1>5. CASE p = "NRML"
    BY <1>2, <1>5 DEF ProductTypes, AllTied, Residue, TotalInvested
<1> QED
    BY <1>3, <1>4, <1>5 DEF ProductTypes

\* Going from s to t the account is carried on: whatever bounded its books in s
\* bounds them in t, unless a SELL was added to a short on the way.
Carried(s, t) ==
    /\ RowsExact(t)
    /\ s.scaledIn = TRUE => t.scaledIn = TRUE
    /\ t.scaledIn = FALSE /\ DriftBounded(s) => DriftBounded(t)
    /\ t.scaledIn = FALSE /\ ExcessBounded(s) => ExcessBounded(t)

\* The columns the books are made of.
SameBooks(s, t) ==
    /\ t.hold = s.hold /\ t.avail = s.avail /\ t.pnl = s.pnl /\ t.cash = s.cash
    /\ t.scaledIn = s.scaledIn /\ t.dust = s.dust

\* Untouched books are carried on.
LEMMA SameCarried ==
    ASSUME NEW s, NEW t, RowsExact(s), SameBooks(s, t) PROVE Carried(s, t)
<1>1. /\ CashDrift(t) = CashDrift(s) /\ CashExcess(t) = CashExcess(s)
      /\ Residue(t.hold) = Residue(s.hold) /\ RowsExact(t)
    BY DEF SameBooks, CashDrift, CashExcess, RowsExact
<1> QED
    BY <1>1 DEF Carried, DriftBounded, ExcessBounded, SameBooks

\* Carrying on is transitive.
LEMMA CarriedTwice ==
    ASSUME NEW s, NEW t, NEW u, Sound(s), Sound(t), Sound(u), Carried(s, t), Carried(t, u)
    PROVE  Carried(s, u)
<1>1. /\ s.scaledIn \in BOOLEAN /\ t.scaledIn \in BOOLEAN /\ u.scaledIn \in BOOLEAN
    BY DEF Sound, State
<1> QED
    BY <1>1 DEF Carried

\* _normalize_available_capital lowers available_capital, or sets that of a flat
\* account to its capital and profit.
LEMMA RecalculateCarried ==
    ASSUME NEW s, Sound(s), RowsExact(s) PROVE Carried(s, Recalculate(s))
<1> DEFINE equity == NetEquity(BaseCapital, s.pnl, s.hold)
           a == NormalizeAvailable(s.avail, equity, Flat(s.hold))
           t == Recalculate(s)
<1>1. t = [s EXCEPT !.avail = a] /\ s \in State
    BY DEF Recalculate, Sound
<1>2. Sound(t)
    BY RecalculateSound
<1> HIDE DEF equity, a
<1>3. /\ t.hold = s.hold /\ t.avail = a /\ t.pnl = s.pnl /\ t.cash = s.cash
      /\ t.scaledIn = s.scaledIn /\ t.dust = s.dust
    BY <1>1 DEF State
<1> HIDE DEF t
<1>4. RowsExact(t) /\ Residue(t.hold) = Residue(s.hold) /\ CashDrift(t) = CashDrift(s)
    BY <1>3 DEF RowsExact, CashDrift
<1>5. /\ CashExcess(s) = s.avail - BaseCapital - s.pnl + AllTied(s.hold)
      /\ AllTied(s.hold) \in Int /\ Residue(s.hold) \in Nat /\ s.avail \in Int
      /\ s.pnl \in Int /\ s.dust \in Nat
    BY TiedParts
<1>6. /\ CashExcess(t) = a - BaseCapital - s.pnl + AllTied(s.hold)
      /\ CashExcess(t) \in Int /\ a \in Int
    BY <1>2, <1>3, TiedParts
<1>7. ASSUME ExcessBounded(s) PROVE ExcessBounded(t)
  <2>1. CASE Flat(s.hold)
    <3>1. \A p \in ProductTypes : s.hold[p] \in Holding
        BY DEF Sound, State
    <3>2. \A p \in ProductTypes : /\ s.hold[p].qty = 0 /\ s.hold[p].inv = 0
                                  /\ s.hold[p].cur = 0 /\ s.hold[p].avg \in Int
        BY <2>1, <3>1 DEF Flat, RowsExact, RowExact, Holding
    <3>3. \A p \in ProductTypes : Tied(p, s.hold[p]) = 0 /\ Gap(s.hold[p]) = 0
      <4> TAKE p \in ProductTypes
      <4>1. s.hold[p].avg * 0 = 0
          BY <3>2
      <4> QED
          BY <3>2, <4>1 DEF Tied, Gap
    <3>4. AllTied(s.hold) = 0 /\ Residue(s.hold) = 0
        BY <3>3 DEF AllTied, Residue, ProductTypes, Abs
    <3>5. CurrentValue(s.hold) = 0 /\ TotalInvested(s.hold) = 0
        BY <3>2 DEF CurrentValue, TotalInvested, ProductTypes
    <3>6. a = BaseCapital + s.pnl
        BY <1>5, <2>1, <3>5, ConstantsAssumption DEF a, equity, NormalizeAvailable, NetEquity
    <3>7. CashExcess(t) = 0
        BY <1>5, <1>6, <3>4, <3>6, ConstantsAssumption
    <3> QED
        BY <1>3, <1>4, <1>5, <3>4, <3>7 DEF ExcessBounded
  <2>2. CASE ~Flat(s.hold)
    <3>1. \A p \in ProductTypes : s.hold[p].cur \in Int
        BY DEF Sound, State, Holding
    <3>2. CurrentValue(s.hold) \in Int /\ TotalInvested(s.hold) \in Int
        BY <3>1, TiedParts DEF CurrentValue, ProductTypes
    <3>3. equity \in Int
        BY <1>5, <3>2, ConstantsAssumption DEF equity, NetEquity
    <3>4. a <= s.avail
        BY <1>5, <2>2, <3>3 DEF a, NormalizeAvailable
    <3>5. CashExcess(t) <= CashExcess(s) /\ CashExcess(s) \in Int
        BY <1>5, <1>6, <3>4, ConstantsAssumption
    <3> QED
        BY <1>3, <1>4, <1>5, <1>6, <1>7, <3>5 DEF ExcessBounded
  <2> QED
      BY <2>1, <2>2
<1> QED
    BY <1>3, <1>4, <1>7 DEF Carried, DriftBounded, t

\* The books after a fill, before they are normalised: the row of the order's product
\* type has changed by the fill, and the totals with it.
Filled(s, t, p, f, sign, px, d, scaled) ==
    /\ t.hold[p] = f.hold
    /\ \A r \in ProductTypes \ {p} : t.hold[r] = s.hold[r]
    /\ t.avail = s.avail + f.avail /\ t.pnl = s.pnl + f.pnl
    /\ t.cash = s.cash - sign * px
    /\ t.dust = s.dust + d
    /\ t.scaledIn = (s.scaledIn \/ scaled)

\* A fill that books what it moves carries the account on.
LEMMA FilledCarried ==
    ASSUME NEW s, NEW t, Sound(s), Sound(t), RowsExact(s), NEW p \in ProductTypes,
           NEW f, f \in Fill, NEW sign \in Int, NEW px \in Nat, NEW d \in Nat,
           NEW scaled \in BOOLEAN,
           Filled(s, t, p, f, sign, px, d, scaled), RowExact(f.hold),
           scaled = FALSE => Books(p, s.hold[p], f, sign, px, d)
    PROVE  Carried(s, t)
<1> DEFINE h == s.hold[p]
           g == f.hold
           k == sign * px
<1>1. h \in Holding /\ g \in Holding /\ f.avail \in Int /\ f.pnl \in Int
    BY DEF Sound, State, Fill
<1>2. k \in Int
    OBVIOUS
<1>3. /\ t.hold[p] = g /\ t.avail = s.avail + f.avail /\ t.pnl = s.pnl + f.pnl
      /\ t.cash = s.cash - k /\ t.dust = s.dust + d
      /\ \A r \in ProductTypes \ {p} : t.hold[r] = s.hold[r]
      /\ t.scaledIn = (s.scaledIn \/ scaled)
    BY DEF Filled
<1>4. /\ AllTied(t.hold) = AllTied(s.hold) - Tied(p, h) + Tied(p, g)
      /\ Residue(t.hold) = Residue(s.hold) - Abs(Gap(h)) + Abs(Gap(g))
      /\ TotalInvested(t.hold) = TotalInvested(s.hold) - h.inv + g.inv
    BY <1>3, OneRowSums
<1>5. /\ h.inv \in Int /\ Gap(h) \in Int /\ Tied(p, h) \in Int /\ Abs(Gap(h)) \in Nat
      /\ g.inv \in Int /\ Gap(g) \in Int /\ Tied(p, g) \in Int /\ Abs(Gap(g)) \in Nat
    BY <1>1, RowTypes
<1>6. /\ AllTied(s.hold) \in Int /\ Residue(s.hold) \in Nat
      /\ CashExcess(s) = s.avail - BaseCapital - s.pnl + AllTied(s.hold)
      /\ TotalInvested(s.hold) \in Int /\ s.avail \in Int /\ s.pnl \in Int
      /\ s.cash \in Int /\ s.dust \in Nat
    BY TiedParts
<1>7. CashExcess(t) = t.avail - BaseCapital - t.pnl + AllTied(t.hold)
    BY TiedParts
<1>8. RowsExact(t)
  <2> SUFFICES ASSUME NEW r \in ProductTypes PROVE RowExact(t.hold[r])
      BY DEF RowsExact
  <2> QED
      BY <1>3 DEF RowsExact
<1>9. s.scaledIn \in BOOLEAN /\ t.scaledIn \in BOOLEAN
    BY DEF Sound, State
<1>10. s.scaledIn = TRUE => t.scaledIn = TRUE
    BY <1>3, <1>9
<1>11. ASSUME t.scaledIn = FALSE
       PROVE  /\ f.pnl - g.inv + k = Gap(h) - h.inv
              /\ 2 * Abs(Gap(g)) <= d
              /\ 2 * (f.avail - f.pnl + Tied(p, g) - Tied(p, h) + Gap(h))
                     + 2 * Abs(Gap(g)) <= d
  <2>1. scaled = FALSE
      BY <1>3, <1>9, <1>11
  <2> QED
      BY <2>1 DEF Books
<1> HIDE DEF h, g, k
<1>12. Gap(h) <= Abs(Gap(h)) /\ -Gap(h) <= Abs(Gap(h))
    BY <1>5 DEF Abs
<1>13. ASSUME t.scaledIn = FALSE, DriftBounded(s) PROVE DriftBounded(t)
  <2>0. f.pnl - g.inv + k = Gap(h) - h.inv /\ 2 * Abs(Gap(g)) <= d
      BY <1>11, <1>13
  <2>1. CashDrift(t) = CashDrift(s) + Gap(h) /\ CashDrift(s) \in Int
    <3>1. /\ CashDrift(t) = t.pnl - TotalInvested(t.hold) - t.cash
          /\ CashDrift(s) = s.pnl - TotalInvested(s.hold) - s.cash
        BY DEF CashDrift
    <3>2. CashDrift(t) = (s.pnl + f.pnl) - (TotalInvested(s.hold) - h.inv + g.inv)
                             - (s.cash - k)
        BY <1>3, <1>4, <3>1
    <3>3. /\ f.pnl \in Int /\ h.inv \in Int /\ g.inv \in Int /\ Gap(h) \in Int
          /\ s.pnl \in Int /\ s.cash \in Int /\ TotalInvested(s.hold) \in Int
        BY <1>1, <1>5, <1>6
    <3> QED
        BY <1>2, <2>0, <3>1, <3>2, <3>3
  <2>2. /\ Abs(CashDrift(t)) <= Abs(CashDrift(s)) + Abs(Gap(h))
        /\ Abs(CashDrift(t)) \in Int /\ Abs(CashDrift(s)) \in Int
      BY <1>5, <2>1 DEF Abs
  <2>3. 2 * Abs(CashDrift(s)) + 2 * Residue(s.hold) <= s.dust
      BY <1>13 DEF DriftBounded
  <2>4. 2 * Abs(CashDrift(t)) + 2 * Residue(t.hold) <= t.dust
      BY <1>3, <1>4, <1>5, <1>6, <2>0, <2>2, <2>3
  <2> QED
      BY <2>4 DEF DriftBounded
<1>14. ASSUME t.scaledIn = FALSE, ExcessBounded(s) PROVE ExcessBounded(t)
  <2>1. CashExcess(t) = CashExcess(s) + (f.avail - f.pnl + Tied(p, g) - Tied(p, h))
      BY <1>1, <1>3, <1>4, <1>5, <1>6, <1>7, ConstantsAssumption
  <2>2. 2 * CashExcess(s) + 2 * Residue(s.hold) <= s.dust /\ CashExcess(s) \in Int
      BY <1>14, TiedParts DEF ExcessBounded
  <2> DEFINE z == f.avail - f.pnl + Tied(p, g) - Tied(p, h)
  <2>3. z \in Int
      BY <1>1, <1>5
  <2>4. 2 * (z + Gap(h)) + 2 * Abs(Gap(g)) <= d
      BY <1>11, <1>14
  <2>5. CashExcess(t) = CashExcess(s) + z
      BY <2>1
  <2> HIDE DEF z
  <2>6. 2 * CashExcess(t) + 2 * Residue(t.hold) <= t.dust
      BY <1>3, <1>4, <1>5, <1>6, <1>12, <2>2, <2>3, <2>4, <2>5
  <2> QED
      BY <2>6 DEF ExcessBounded
<1> QED
    BY <1>8, <1>10, <1>13, <1>14 DEF Carried

\* A fill carries the account on, and so does the update of the portfolio.
LEMMA UpdateCarried ==
    ASSUME NEW s, Sound(s), NEW o \in OrderIds, s.orders[o].status # "NONE",
           NEW px \in Nat, RowsExact(s)
    PROVE  Carried(s, UpdatePortfolioOnFill(s, o, px))
<1> DEFINE ord == s.orders[o]
           p == ord.product
           h == s.hold[p]
           fill == ApplyFill(ord.side, p, h, ord.qty, px)
           sign == Signed(ord.side, ord.qty)
           scaled == ord.side = "SELL" /\ h.qty < 0
           d == FillDust(ord.side, p, h, ord.qty)
           t == BookFill(s, o, px)
<1>1. Sound(t)
    BY BookFillSound
<1>2. ord \in Order /\ ord.qty > 0 /\ s.hold \in [ProductTypes -> Holding]
    BY DEF Sound, State
<1>3. p \in ProductTypes /\ ord.side \in Sides /\ ord.qty \in Nat \ {0}
  <2>1. p \in ProductTypes /\ ord.side \in Sides /\ ord.qty \in Nat
      BY <1>2 DEF Order
  <2> HIDE DEF ord
  <2> QED
      BY <1>2, <2>1
<1>4. h \in Holding /\ RowExact(h)
    BY <1>2, <1>3 DEF RowsExact
<1>5. /\ t.hold = [s.hold EXCEPT ![p] = fill.hold]
      /\ t.avail = s.avail + fill.avail /\ t.pnl = s.pnl + fill.pnl
      /\ t.cash = s.cash - sign * px /\ t.dust = s.dust + d
      /\ t.scaledIn = (s.scaledIn \/ scaled)
    BY DEF BookFill, Signed
<1> HIDE DEF ord, p, h, fill, sign, d, scaled, t
<1>6. sign \in Int /\ scaled \in BOOLEAN
    BY <1>3 DEF sign, scaled, Signed
<1>7. fill \in Fill
    BY <1>3, <1>4, FillEffect DEF fill
<1>8. /\ RowExact(fill.hold) /\ d \in Nat
      /\ scaled = FALSE => Books(p, h, fill, sign, px, d)
    BY <1>3, <1>4, FillBooks DEF fill, d, sign, scaled
<1>9. t.hold[p] = fill.hold /\ \A r \in ProductTypes \ {p} : t.hold[r] = s.hold[r]
    BY <1>2, <1>3, <1>5
<1>10. Filled(s, t, p, fill, sign, px, d, scaled)
    BY <1>5, <1>9 DEF Filled
<1>11. Carried(s, t)
    BY <1>1, <1>3, <1>6, <1>7, <1>8, <1>10, FilledCarried DEF h
<1>12. Carried(t, Recalculate(t)) /\ Sound(Recalculate(t))
    BY <1>1, <1>11, RecalculateCarried, RecalculateSound DEF Carried
<1>13. Carried(s, Recalculate(t))
    BY <1>1, <1>11, <1>12, CarriedTwice
<1> QED
    BY <1>13 DEF t, UpdatePortfolioOnFill

--------------------------------------------------------------------------------
\* Changes of order rows leave the books alone.
LEMMA RowsOnly ==
    ASSUME NEW s, s \in State, NEW x
    PROVE  /\ SameBooks(s, [s EXCEPT !.orders = x])
           /\ [s EXCEPT !.orders = x].orders = x
BY DEF State, SameBooks

\* They stay what they were.
LEMMA SameTwice ==
    ASSUME NEW s, NEW t, NEW u, SameBooks(s, t), SameBooks(t, u) PROVE SameBooks(s, u)
BY DEF SameBooks

\* What books depend on is kept where the books are.
LEMMA SameExact ==
    ASSUME NEW s, NEW t, SameBooks(s, t), RowsExact(s) PROVE RowsExact(t)
BY DEF SameBooks, RowsExact

\* Marking a row as filled: nothing of it is still reserved.
LEMMA SetFilledBooks ==
    ASSUME NEW s, Sound(s), NEW o \in OrderIds, NEW by \in {"place", "tick", "poll"}
    PROVE  /\ SameBooks(s, SetFilled(s, o, by))
           /\ ReservedAmount(SetFilled(s, o, by).orders[o]) = 0
<1> DEFINE a == s.orders[o]
           r == [a EXCEPT !.status = "FILLED", !.filled = a.qty, !.by = by]
           x == [s.orders EXCEPT ![o] = r]
<1>1. s \in State /\ a \in Order /\ s.orders \in [OrderIds -> Order]
    BY DEF Sound, State
<1>2. SetFilled(s, o, by) = [s EXCEPT !.orders = x]
    BY <1>1 DEF SetFilled, State
<1>3. r.filled = a.qty /\ r.qty = a.qty /\ a.qty \in Nat
    BY <1>1 DEF Order
<1>4. x[o] = r
    BY <1>1
<1> HIDE DEF x, a, r
<1>5. SameBooks(s, [s EXCEPT !.orders = x]) /\ [s EXCEPT !.orders = x].orders = x
    BY <1>1, RowsOnly
<1>6. ReservedAmount(r) = 0
    BY <1>3 DEF ReservedAmount
<1> QED
    BY <1>2, <1>4, <1>5, <1>6

\* Cancelling the other leg and inserting legs.
LEMMA LegsBooks ==
    ASSUME NEW s, Sound(s), NEW o
    PROVE  /\ SameBooks(s, CancelSibling(s, o)) /\ SameBooks(s, CreateBracketChildren(s, o))
<1>1. s \in State
    BY DEF Sound
<1>2. SameBooks(s, s)
    BY DEF SameBooks
<1>3. SameBooks(s, CancelSibling(s, o))
    BY <1>1, RowsOnly DEF CancelSibling
<1>4. SameBooks(s, CreateBracketChildren(s, o))
    BY <1>1, <1>2, RowsOnly DEF CreateBracketChildren
<1> QED
    BY <1>3, <1>4

\* A fill of the order worker: the release before it releases nothing, because
\* filled_quantity is already set.
LEMMA WorkerCarried ==
    ASSUME NEW s, Sound(s), NEW o \in OrderIds, s.orders[o].status # "NONE",
           NEW px \in Nat, RowsExact(s)
    PROVE  Carried(s, WorkerFill(s, o, px))
<1> DEFINE t1 == SetFilled(s, o, "tick")
           t2 == ReleaseOnFill(t1, o)
           t3 == CancelSibling(t2, o)
           t4 == CreateBracketChildren(t3, o)
           fp == FillPrice(s.orders[o], px)
           t == UpdatePortfolioOnFill(t4, o, fp)
<1>1. Sound(t1) /\ SameHoldings(s, t1)
    BY SetFilledSound
<1>2. SameBooks(s, t1) /\ ReservedAmount(t1.orders[o]) = 0
    BY SetFilledBooks
<1>3. WorkerFill(s, o, px) = t
    BY DEF WorkerFill
<1> HIDE DEF t1
<1>4. Sound(t2) /\ SameHoldings(t1, t2)
    BY <1>1, ReleaseSound
<1>5. SameBooks(t1, t2)
  <2>1. t1 \in State /\ t1.avail \in Int
      BY <1>1 DEF Sound, State
  <2>2. t1.avail + 0 = t1.avail
      BY <2>1
  <2>3. t2 = [t1 EXCEPT !.avail = t1.avail]
      BY <1>2, <2>2 DEF ReleaseOnFill
  <2> HIDE DEF t2
  <2> QED
      BY <2>1, <2>3 DEF State, SameBooks
<1> HIDE DEF t2
<1>6. Sound(t3) /\ SameHoldings(t2, t3) /\ SameBooks(t2, t3)
    BY <1>4, CancelSiblingSound, LegsBooks
<1> HIDE DEF t3
<1>7. SameHoldings(s, t3) /\ SameBooks(s, t3)
    BY <1>1, <1>2, <1>4, <1>5, <1>6, SameThenSame, SameTwice
<1>8. t3.orders[o].status # "NONE"
    BY <1>7 DEF SameHoldings
<1>9. Sound(t4) /\ SameHoldings(t3, t4) /\ SameBooks(t3, t4)
    BY <1>6, <1>8, CreateChildrenSound, LegsBooks
<1> HIDE DEF t4
<1>10. SameBooks(s, t4) /\ t4.orders[o].status # "NONE"
    BY <1>7, <1>8, <1>9, SameTwice DEF SameHoldings
<1>11. RowsExact(t4) /\ Carried(s, t4)
    BY <1>10, SameExact, SameCarried
<1>12. s.orders[o] \in Order
    BY DEF Sound, State
<1>13. fp \in Nat
    BY <1>12, FillPriceType
<1> HIDE DEF fp
<1>14. Carried(t4, t) /\ Sound(t)
    BY <1>9, <1>10, <1>11, <1>13, UpdateCarried, UpdateSound
<1> HIDE DEF t
<1>15. Carried(s, t)
    BY <1>9, <1>11, <1>14, CarriedTwice
<1> QED
    BY <1>3, <1>15

\* A fill of GET /orders.
LEMMA PollCarried ==
    ASSUME NEW s, Sound(s), Delivered(s), NEW o \in OrderIds, s.orders[o].status # "NONE",
           NEW px \in Nat, RowsExact(s)
    PROVE  Carried(s, PollFill(s, o, px))
<1> DEFINE t1 == SetFilled(s, o, "poll")
           t2 == UpdatePortfolioOnFill(t1, o, px)
           t == PollFill(s, o, px)
<1>1. Sound(t1) /\ SameHoldings(s, t1) /\ SameBooks(s, t1)
    BY SetFilledSound, SetFilledBooks
<1>2. t = [t2 EXCEPT !.polled = t2.polled \cup {s.orders[o].product}] /\ Sound(t)
    BY PollFillSound DEF PollFill
<1> HIDE DEF t1, t
<1>3. t1.orders[o].status # "NONE" /\ RowsExact(t1) /\ Carried(s, t1)
    BY <1>1, SameExact, SameCarried DEF SameHoldings
<1>4. Carried(t1, t2) /\ Sound(t2)
    BY <1>1, <1>3, UpdateCarried, UpdateSound
<1> HIDE DEF t2
<1>5. SameBooks(t2, t)
    BY <1>2, <1>4 DEF Sound, State, SameBooks
<1>6. RowsExact(t2)
    BY <1>4 DEF Carried
<1>7. Carried(t2, t)
    BY <1>5, <1>6, SameCarried
<1>8. Carried(s, t2)
    BY <1>1, <1>3, <1>4, CarriedTwice
<1>9. Carried(s, t)
    BY <1>2, <1>4, <1>7, <1>8, CarriedTwice
<1> QED
    BY <1>9 DEF t

\* Inserting a row leaves the books alone.
LEMMA WithRowBooks ==
    ASSUME NEW s, Sound(s), NEW r PROVE SameBooks(s, WithRow(s, r))
BY DEF Sound, State, WithRow, SameBooks

\* An order that placement fills.
LEMMA PlacedCarried ==
    ASSUME NEW s, Sound(s), NEW r \in Request, s.n + 1 \in OrderIds, NEW px \in Nat,
           FillsAtOnce(r, px), RowsExact(s)
    PROVE  Carried(s, Placed(s, r, px))
<1> DEFINE o == s.n + 1
           t0 == WithRow(s, r)
           t1 == SetFilled(t0, o, "place")
           t2 == UpdatePortfolioOnFill(t1, o, ExecutionPrice(r, px))
           t3 == CreateBracketChildren(t2, o)
<1>1. Sound(t0) /\ t0.orders[o] = NewOrder(r) /\ SameBooks(s, t0)
    BY WithRowSound, WithRowBooks
<1>2. t0.orders[o].status # "NONE"
  <2>1. NewOrder(r).status = "OPEN"
      BY DEF NewOrder
  <2> HIDE DEF t0
  <2> QED
      BY <1>1, <2>1
<1>3. Placed(s, r, px) = t3
    BY DEF Placed, WithRow
<1> HIDE DEF t0
<1>4. Sound(t1) /\ SameHoldings(t0, t1) /\ SameBooks(t0, t1)
    BY <1>1, <1>2, SetFilledSound, SetFilledBooks
<1> HIDE DEF t1
<1>5. t1.orders[o].status # "NONE" /\ SameBooks(s, t1)
    BY <1>1, <1>2, <1>4, SameTwice DEF SameHoldings
<1>6. RowsExact(t1) /\ Carried(s, t1)
    BY <1>5, SameExact, SameCarried
<1>7. ExecutionPrice(r, px) \in Nat
    BY ExecutionPriceType
<1>8. Carried(t1, t2) /\ Sound(t2) /\ t2.orders[o].status # "NONE"
    BY <1>4, <1>5, <1>6, <1>7, UpdateCarried, UpdateSound DEF Moved
<1> HIDE DEF t2
<1>9. Carried(s, t2) /\ RowsExact(t2)
    BY <1>4, <1>6, <1>8, CarriedTwice DEF Carried
<1>10. Sound(t3) /\ SameBooks(t2, t3)
    BY <1>8, CreateChildrenSound, LegsBooks
<1> HIDE DEF t3
<1>11. Carried(t2, t3)
    BY <1>9, <1>10, SameCarried
<1>12. Carried(s, t3)
    BY <1>8, <1>9, <1>10, <1>11, CarriedTwice
<1> QED
    BY <1>3, <1>12

\* GET /portfolio recomputes the cost of every row from its average: what the rows
\* hid reaches the books.
LEMMA SummaryCarried ==
    ASSUME NEW s, Sound(s), Delivered(s), NEW px \in Nat, RowsExact(s)
    PROVE  Carried(s, Recalculate([s EXCEPT !.hold =
                [p \in ProductTypes |-> Position(s.hold[p].qty, s.hold[p].avg, px)]]))
<1> DEFINE x == [p \in ProductTypes |-> Position(s.hold[p].qty, s.hold[p].avg, px)]
           t == [s EXCEPT !.hold = x]
<1>1. s \in State /\ s.hold \in [ProductTypes -> Holding] /\ px \in Int
    BY DEF Sound, State
<1>2. \A p \in ProductTypes : s.hold[p] \in Holding
    BY <1>1
<1>3. \A p \in ProductTypes :
          /\ s.hold[p].qty \in Int /\ s.hold[p].avg \in Int /\ s.hold[p].inv \in Int
          /\ Gap(s.hold[p]) \in Int /\ Abs(Gap(s.hold[p])) \in Nat
          /\ Tied(p, s.hold[p]) \in Int /\ s.hold[p].avg * s.hold[p].qty \in Int
    BY <1>2, RowTypes
<1>4. \A p \in ProductTypes :
          /\ x[p] \in Holding /\ RowExact(x[p]) /\ Gap(x[p]) = 0
          /\ x[p].qty = s.hold[p].qty /\ x[p].inv = s.hold[p].inv - Gap(s.hold[p])
  <2> TAKE p \in ProductTypes
  <2> DEFINE q == s.hold[p].qty
             av == s.hold[p].avg
             u == Position(q, av, px)
  <2>1. q \in Int /\ av \in Int /\ x[p] = u
      BY <1>3
  <2>2. av * q = s.hold[p].inv - Gap(s.hold[p])
      BY <1>3 DEF Gap
  <2> HIDE DEF q, av, x
  <2>3. /\ RowExact(u) /\ Gap(u) = 0 /\ u.qty = q /\ u.inv = av * q
      BY <1>1, <2>1, PositionExact
  <2>4. av * q \in Int /\ px * q \in Int
      BY <2>1
  <2>5. u \in Holding
      BY <2>1, <2>4 DEF Position, Holding
  <2> QED
      BY <2>1, <2>2, <2>3, <2>5 DEF q
<1>5. x \in [ProductTypes -> Holding]
    BY <1>4
<1> HIDE DEF x
<1>6. /\ t \in State /\ t.orders = s.orders /\ t.hold = x /\ t.net = s.net
      /\ t.avail = s.avail /\ t.pnl = s.pnl /\ t.cash = s.cash /\ t.dust = s.dust
      /\ t.scaledIn = s.scaledIn
    BY <1>1, <1>5 DEF State
<1> HIDE DEF t
<1>7. Sound(t)
    BY <1>4, <1>6 DEF Sound
<1>8. RowsExact(t)
    BY <1>4, <1>6 DEF RowsExact
<1>9. \A p \in ProductTypes :
          /\ Tied(p, x[p]) \in Int
          /\ Tied(p, x[p]) <= Tied(p, s.hold[p]) + Abs(Gap(s.hold[p]))
  <2> TAKE p \in ProductTypes
  <2>1. Tied(p, x[p]) \in Int
      BY <1>4, RowTypes
  <2>2. CASE s.hold[p].qty > 0
    <3>1. /\ Tied(p, x[p]) = s.hold[p].inv - Gap(s.hold[p])
          /\ Tied(p, s.hold[p]) = s.hold[p].inv
        BY <1>3, <1>4, <2>2 DEF Tied
    <3> QED
        BY <1>3, <2>1, <3>1 DEF Abs
  <2>3. CASE s.hold[p].qty < 0
    <3>1. Gap(s.hold[p]) = 0
        BY <2>3 DEF RowsExact, RowExact
    <3>2. x[p].inv = s.hold[p].inv
        BY <1>3, <1>4, <3>1
    <3>3. Tied(p, x[p]) = Tied(p, s.hold[p])
        BY <1>4, <2>3, <3>2 DEF Tied
    <3> QED
        BY <1>3, <2>1, <3>3
  <2>4. CASE s.hold[p].qty = 0
    <3>1. Tied(p, x[p]) = 0 /\ Tied(p, s.hold[p]) = 0
        BY <1>4, <2>4 DEF Tied
    <3> QED
        BY <1>3, <3>1
  <2> QED
      BY <1>3, <2>2, <2>3, <2>4
<1>10. "CNC" \in ProductTypes /\ "MIS" \in ProductTypes /\ "NRML" \in ProductTypes
    BY DEF ProductTypes
<1>11. Residue(t.hold) = 0
    BY <1>4, <1>6, <1>10 DEF Residue, Abs
<1>12. AllTied(t.hold) <= AllTied(s.hold) + Residue(s.hold)
    BY <1>3, <1>6, <1>9, <1>10 DEF AllTied, Residue
<1> DEFINE g == Gap(s.hold["CNC"]) + Gap(s.hold["MIS"]) + Gap(s.hold["NRML"])
<1>13. TotalInvested(t.hold) = TotalInvested(s.hold) - g /\ g \in Int
    BY <1>3, <1>4, <1>6, <1>10 DEF TotalInvested
<1>14. g <= Residue(s.hold) /\ -g <= Residue(s.hold)
    BY <1>3, <1>10 DEF Residue, Abs
<1> HIDE DEF g
<1>15. /\ AllTied(s.hold) \in Int /\ Residue(s.hold) \in Nat
       /\ CashExcess(s) = s.avail - BaseCapital - s.pnl + AllTied(s.hold)
       /\ CashExcess(s) \in Int /\ CashDrift(s) \in Int
       /\ TotalInvested(s.hold) \in Int /\ s.avail \in Int /\ s.pnl \in Int
       /\ s.cash \in Int /\ s.dust \in Nat
    BY TiedParts
<1>16. /\ CashExcess(t) = s.avail - BaseCapital - s.pnl + AllTied(t.hold)
       /\ AllTied(t.hold) \in Int
    BY <1>6, <1>7, TiedParts
<1>17. ASSUME DriftBounded(s) PROVE DriftBounded(t)
  <2>1. CashDrift(t) = CashDrift(s) + g
      BY <1>6, <1>13, <1>15 DEF CashDrift
  <2>2. /\ Abs(CashDrift(t)) <= Abs(CashDrift(s)) + Residue(s.hold)
        /\ Abs(CashDrift(t)) \in Int /\ Abs(CashDrift(s)) \in Int
      BY <1>13, <1>14, <1>15, <2>1 DEF Abs
  <2>3. 2 * Abs(CashDrift(s)) + 2 * Residue(s.hold) <= s.dust
      BY <1>17 DEF DriftBounded
  <2> QED
      BY <1>6, <1>11, <1>15, <2>2, <2>3 DEF DriftBounded
<1>18. ASSUME ExcessBounded(s) PROVE ExcessBounded(t)
  <2>1. 2 * CashExcess(s) + 2 * Residue(s.hold) <= s.dust
      BY <1>18 DEF ExcessBounded
  <2>2. CashExcess(t) <= CashExcess(s) + Residue(s.hold) /\ CashExcess(t) \in Int
      BY <1>12, <1>15, <1>16, ConstantsAssumption
  <2> QED
      BY <1>6, <1>11, <1>15, <2>1, <2>2 DEF ExcessBounded
<1>19. Carried(s, t)
    BY <1>6, <1>8, <1>17, <1>18 DEF Carried
<1>20. Carried(t, Recalculate(t)) /\ Sound(Recalculate(t))
    BY <1>7, <1>8, RecalculateCarried, RecalculateSound
<1>21. Carried(s, Recalculate(t))
    BY <1>7, <1>19, <1>20, CarriedTwice
<1> QED
    BY <1>21 DEF t, x

--------------------------------------------------------------------------------
\* Once an account has had a resting BUY order it always has had one.
RestedKept(s, t) == \A i \in OrderIds : Rested(s.orders[i]) => Rested(t.orders[i])

\* A row that rested and was kept, closed or filled later has rested.
LEMMA RowRested ==
    ASSUME NEW a, NEW b, Rested(a),
           \/ Kept(a, b)
           \/ Terms(a, b) /\ b.status \in {"CANCELLED", "EXPIRED"}
           \/ FilledBy(a, b, "tick") \/ FilledBy(a, b, "poll")
    PROVE  Rested(b)
BY DEF Rested, Kept, Terms, FilledBy

\* An account that is carried on stays balanced.
LEMMA CarriedBalanced ==
    ASSUME NEW s, NEW t, Sound(s), Sound(t), Balanced(s), Carried(s, t), RestedKept(s, t)
    PROVE  Balanced(t)
<1>1. s.scaledIn \in BOOLEAN /\ t.scaledIn \in BOOLEAN
    BY DEF Sound, State
<1>2. t.scaledIn = FALSE => s.scaledIn = FALSE
    BY <1>1 DEF Carried
<1>3. NoneRested(t) => NoneRested(s)
    BY DEF NoneRested, RestedKept
<1> QED
    BY <1>2, <1>3 DEF Balanced, Carried

\* So does one of which only reservations of resting orders change.
LEMMA ReservedBalanced ==
    ASSUME NEW s, NEW t, Sound(s), Sound(t), Balanced(s), RestedKept(s, t),
           t.hold = s.hold, t.pnl = s.pnl, t.cash = s.cash, t.scaledIn = s.scaledIn,
           t.dust = s.dust, NoneRested(t) => t.avail = s.avail
    PROVE  Balanced(t)
<1>1. RowsExact(t) /\ (DriftBounded(s) => DriftBounded(t))
    BY DEF Balanced, RowsExact, DriftBounded, CashDrift
<1>2. NoneRested(t) => NoneRested(s)
    BY DEF NoneRested, RestedKept
<1>3. NoneRested(t) /\ ExcessBounded(s) => ExcessBounded(t)
    BY DEF ExcessBounded, CashExcess
<1> QED
    BY <1>1, <1>2, <1>3 DEF Balanced

\* Only BUY entries have anything reserved.
LEMMA ReservedOnly ==
    ASSUME NEW ord, ReservedAmount(ord) # 0
    PROVE  ord.side = "BUY" /\ ord.type \in EntryTypes
BY DEF ReservedAmount

\* Placement: a row that reserves cash rests.
LEMMA PlacedBalanced ==
    ASSUME NEW s, Sound(s), Book(s), Balanced(s), NEW r \in Request, s.n + 1 \in OrderIds,
           NEW px \in Nat
    PROVE  Balanced(Placed(s, r, px))
<1> DEFINE o == s.n + 1
           t0 == WithRow(s, r)
           t == Placed(s, r, px)
<1>1. Sound(t) /\ Sound(t0) /\ t0.orders[o] = NewOrder(r) /\ SameBooks(s, t0)
    BY PlacedEffect, WithRowSound, WithRowBooks
<1>2. \A i \in OrderIds \ {o} : t0.orders[i] = s.orders[i]
    BY WithRowRows
<1>3. s.n \in Nat /\ \A i \in OrderIds : i \in Nat
    BY ConstantsAssumption DEF Sound, State, OrderIds
<1>4. \A i \in OrderIds : i > s.n => ~Rested(s.orders[i])
    BY DEF Book, Layout, RowUsed, Rested
<1>5. FillsAtOnce(r, px) => FilledRows(t0, t, o, "place")
    BY PlacedRows
<1>6. ~FillsAtOnce(r, px) => t.orders = t0.orders
    BY PlacedRows
<1>7. CASE FillsAtOnce(r, px)
  <2>1. Carried(s, t)
      BY <1>7, PlacedCarried DEF Balanced
  <2> HIDE DEF t0, t
  <2>2. RestedKept(s, t)
    <3> SUFFICES ASSUME NEW i \in OrderIds, Rested(s.orders[i]) PROVE Rested(t.orders[i])
        BY DEF RestedKept
    <3>1. i # o /\ i \notin LegRows(o)
        BY <1>3, <1>4 DEF LegRows, SlLeg, TpLeg
    <3>2. Kept(t0.orders[i], t.orders[i])
        BY <1>5, <1>7, <3>1 DEF FilledRows, KeptBut
    <3>3. t0.orders[i] = s.orders[i]
        BY <1>2, <3>1
    <3> QED
        BY <3>2, <3>3, RowRested
  <2>3. Balanced(t)
      BY <1>1, <2>1, <2>2, CarriedBalanced
  <2> QED
      BY <2>3 DEF t
<1>8. CASE ~FillsAtOnce(r, px)
  <2> DEFINE row == NewOrder(r)
             a == t0.avail - ReservedAmount(row)
  <2>1. t = [t0 EXCEPT !.avail = a]
      BY <1>8 DEF Placed, WithRow
  <2>2. row.status = "OPEN"
      BY DEF NewOrder
  <2> HIDE DEF t0, t, row, a
  <2>3. /\ t.hold = t0.hold /\ t.pnl = t0.pnl /\ t.cash = t0.cash /\ t.avail = a
        /\ t.scaledIn = t0.scaledIn /\ t.dust = t0.dust
      BY <1>1, <2>1 DEF Sound, State
  <2>4. RestedKept(s, t)
    <3> SUFFICES ASSUME NEW i \in OrderIds, Rested(s.orders[i]) PROVE Rested(t.orders[i])
        BY DEF RestedKept
    <3>1. i # o
        BY <1>3, <1>4
    <3> QED
        BY <1>2, <1>6, <1>8, <3>1
  <2>5. ASSUME NoneRested(t) PROVE t.avail = s.avail
    <3>1. ~Rested(row)
        BY <1>1, <1>6, <1>8, <2>5 DEF NoneRested, row
    <3>2. ReservedAmount(row) = 0
        BY <2>2, <3>1, ReservedOnly DEF Rested
    <3>3. t0.avail = s.avail /\ s.avail \in Int
        BY <1>1 DEF SameBooks, Sound, State
    <3> QED
        BY <2>3, <3>2, <3>3 DEF a
  <2>6. Balanced(t)
      BY <1>1, <2>3, <2>4, <2>5, ReservedBalanced DEF SameBooks
  <2> QED
      BY <2>6 DEF t
<1> QED
    BY <1>7, <1>8

\* Closing an order that is not filled gives back what it had reserved.
LEMMA ClosedBalanced ==
    ASSUME NEW s, NEW t, Sound(s), Sound(t), Balanced(s), NEW o \in OrderIds,
           s.orders[o].status # "NONE", ClosedRow(s, t, o), NEW a \in Int,
           a # 0 => s.orders[o].side = "BUY" /\ s.orders[o].type \in EntryTypes,
           t.hold = s.hold, t.pnl = s.pnl, t.cash = s.cash, t.scaledIn = s.scaledIn,
           t.dust = s.dust, t.avail = s.avail + a
    PROVE  Balanced(t)
<1>1. RestedKept(s, t)
  <2> SUFFICES ASSUME NEW i \in OrderIds, Rested(s.orders[i]) PROVE Rested(t.orders[i])
      BY DEF RestedKept
  <2> QED
      BY RowRested DEF ClosedRow
<1>2. ASSUME NoneRested(t) PROVE t.avail = s.avail
  <2>1. ~Rested(t.orders[o])
      BY <1>2 DEF NoneRested
  <2>2. ~(s.orders[o].side = "BUY" /\ s.orders[o].type \in EntryTypes)
      BY <2>1 DEF ClosedRow, Terms, Rested
  <2>3. a = 0 /\ s.avail \in Int
      BY <2>2 DEF Sound, State
  <2> QED
      BY <2>3
<1> QED
    BY <1>1, <1>2, ReservedBalanced

\* The worker's refusal to fill, cancel_order and the expiry sweep.
LEMMA ClosingBalanced ==
    ASSUME NEW s, Sound(s), Balanced(s), NEW o \in OrderIds, s.orders[o].status # "NONE"
    PROVE  /\ Balanced(SetStatus(s, o, "CANCELLED"))
           /\ Balanced(CancelledOrder(s, o))
           /\ Balanced([SetStatus(s, o, "EXPIRED") EXCEPT
                           !.avail = @ + ReservedAmount(s.orders[o])])
<1> DEFINE ord == s.orders[o]
           z == [ord EXCEPT !.filled = 0]
           x(st) == [s.orders EXCEPT ![o] = [s.orders[o] EXCEPT !.status = st]]
           u(st) == SetStatus(s, o, st)
           t1 == u("CANCELLED")
           t2 == CancelledOrder(s, o)
           t3 == [u("EXPIRED") EXCEPT !.avail = @ + ReservedAmount(ord)]
<1>1. s \in State /\ ord \in Order /\ s.avail \in Int
    BY DEF Sound, State
<1>2. /\ z \in Order /\ z.side = ord.side /\ z.type = ord.type
    BY <1>1 DEF Order
<1>3. /\ ClosedRow(s, t1, o) /\ ClosedRow(s, t2, o) /\ ClosedRow(s, t3, o)
    BY ClosedRows
<1>4. Sound(t1) /\ Sound(t2) /\ Sound(t3)
    BY SetStatusSound, CancelledOrderSound, ExpiredOrderSound DEF Statuses
<1>5. ASSUME NEW st
      PROVE  SameBooks(s, u(st)) /\ DOMAIN u(st) = DOMAIN s
  <2>1. u(st) = [s EXCEPT !.orders = x(st)]
      BY DEF SetStatus
  <2> QED
      BY <1>1, <2>1, RowsOnly
<1>6. t2 = [u("CANCELLED") EXCEPT !.avail = u("CANCELLED").avail + ReservedAmount(z)]
    BY DEF CancelledOrder
<1>7. /\ ReservedAmount(z) \in Int /\ ReservedAmount(ord) \in Int
      /\ ReservedAmount(z) # 0 => ord.side = "BUY" /\ ord.type \in EntryTypes
      /\ ReservedAmount(ord) # 0 => ord.side = "BUY" /\ ord.type \in EntryTypes
    BY <1>1, <1>2, ReservedType, ReservedOnly
<1>8. DOMAIN s = {"orders", "n", "hold", "avail", "pnl", "net", "cash", "scaledIn",
                  "polled", "dust"}
    BY <1>1 DEF State
<1> HIDE DEF z, ord, u
<1>9. ASSUME NEW v, SameBooks(s, v), DOMAIN v = DOMAIN s, NEW a
      PROVE  LET w == [v EXCEPT !.avail = a]
             IN /\ w.hold = s.hold /\ w.pnl = s.pnl /\ w.cash = s.cash
                /\ w.scaledIn = s.scaledIn /\ w.dust = s.dust /\ w.avail = a
    BY <1>8, <1>9 DEF SameBooks
<1>10. Balanced(t1)
  <2>1. SameBooks(s, t1) /\ s.avail + 0 = s.avail
      BY <1>1, <1>5
  <2> HIDE DEF t1
  <2> QED
      BY <1>3, <1>4, <2>1, ClosedBalanced DEF SameBooks
<1>11. Balanced(t2)
  <2>1. /\ t2.hold = s.hold /\ t2.pnl = s.pnl /\ t2.cash = s.cash
        /\ t2.scaledIn = s.scaledIn /\ t2.dust = s.dust
        /\ t2.avail = u("CANCELLED").avail + ReservedAmount(z)
      BY <1>5, <1>6, <1>9
  <2>2. u("CANCELLED").avail = s.avail
      BY <1>5 DEF SameBooks
  <2> HIDE DEF t2
  <2> QED
      BY <1>3, <1>4, <1>7, <2>1, <2>2, ClosedBalanced DEF ord
<1>12. Balanced(t3)
  <2>1. /\ t3.hold = s.hold /\ t3.pnl = s.pnl /\ t3.cash = s.cash
        /\ t3.scaledIn = s.scaledIn /\ t3.dust = s.dust
        /\ t3.avail = u("EXPIRED").avail + ReservedAmount(ord)
      BY <1>5, <1>9
  <2>2. u("EXPIRED").avail = s.avail
      BY <1>5 DEF SameBooks
  <2> HIDE DEF t3
  <2> QED
      BY <1>3, <1>4, <1>7, <2>1, <2>2, ClosedBalanced DEF ord
<1> QED
    BY <1>10, <1>11, <1>12 DEF u, ord

--------------------------------------------------------------------------------
\* A fill by the order worker or by GET /orders.
LEMMA TickBalanced ==
    ASSUME NEW s, Sound(s), Book(s), Balanced(s), NEW o \in OrderIds,
           s.orders[o].status \in {"OPEN", "CANCELLED"}, NEW px \in Nat
    PROVE  Balanced(WorkerFill(s, o, px))
<1> DEFINE t == WorkerFill(s, o, px)
<1>1. Carried(s, t) /\ Sound(t) /\ FilledRows(s, t, o, "tick")
    BY WorkerCarried, WorkerFillSound, WorkerRows DEF Balanced
<1>2. s.orders[o].type = "BRACKET" => \A i \in LegRows(o) : ~Rested(s.orders[i])
    BY DEF Book, Layout, RowBracket, LegRows, Rested
<1> HIDE DEF t
<1>3. RestedKept(s, t)
  <2> SUFFICES ASSUME NEW i \in OrderIds, Rested(s.orders[i]) PROVE Rested(t.orders[i])
      BY DEF RestedKept
  <2>1. CASE i = o
      BY <1>1, <2>1, RowRested DEF FilledRows
  <2>2. CASE i # o
    <3>1. Kept(s.orders[i], t.orders[i])
        BY <1>1, <1>2, <2>2 DEF FilledRows, KeptBut
    <3> QED
        BY <3>1, RowRested
  <2> QED
      BY <2>1, <2>2
<1>4. Balanced(t)
    BY <1>1, <1>3, CarriedBalanced
<1> QED
    BY <1>4 DEF t

\* The same for GET /orders, which inserts no legs.
LEMMA PollBalanced ==
    ASSUME NEW s, Sound(s), Delivered(s), Balanced(s), NEW o \in OrderIds,
           s.orders[o].status # "NONE", NEW px \in Nat
    PROVE  Balanced(PollFill(s, o, px))
<1> DEFINE t == PollFill(s, o, px)
<1>1. /\ Carried(s, t) /\ Sound(t) /\ FilledBy(s.orders[o], t.orders[o], "poll")
      /\ KeptBut(s, t, {o})
    BY PollCarried, PollFillSound, PollRows DEF Balanced
<1> HIDE DEF t
<1>2. RestedKept(s, t)
  <2> SUFFICES ASSUME NEW i \in OrderIds, Rested(s.orders[i]) PROVE Rested(t.orders[i])
      BY DEF RestedKept
  <2> QED
      BY <1>1, RowRested DEF KeptBut
<1>3. Balanced(t)
    BY <1>1, <1>2, CarriedBalanced
<1> QED
    BY <1>3 DEF t

\* PATCH leaves side, type and status of the row, and the cash.
LEMMA EditedBalanced ==
    ASSUME NEW s, Sound(s), Balanced(s), NEW o \in OrderIds, s.orders[o].status # "NONE",
           NEW e \in Edit
    PROVE  Balanced([s EXCEPT !.orders[o] = Edited(s.orders[o], e)])
<1> DEFINE row == Edited(s.orders[o], e)
           x == [s.orders EXCEPT ![o] = row]
           t == [s EXCEPT !.orders[o] = Edited(s.orders[o], e)]
<1>1. Sound(t)
    BY EditedSound
<1>2. s \in State /\ s.orders \in [OrderIds -> Order] /\ s.orders[o] \in Order
    BY DEF Sound, State
<1>3. t = [s EXCEPT !.orders = x]
    BY <1>2
<1>4. /\ row.side = s.orders[o].side /\ row.type = s.orders[o].type
      /\ row.status = s.orders[o].status /\ row.by = s.orders[o].by
    BY <1>2 DEF Edited, Order
<1> HIDE DEF row, t
<1>5. x[o] = row /\ \A i \in OrderIds \ {o} : x[i] = s.orders[i]
    BY <1>2
<1> HIDE DEF x
<1>6. SameBooks(s, t) /\ t.orders = x
    BY <1>2, <1>3, RowsOnly
<1>7. RestedKept(s, t)
    BY <1>4, <1>5, <1>6 DEF RestedKept, Rested
<1>8. Carried(s, t)
    BY <1>6, SameCarried DEF Balanced
<1>9. Balanced(t)
    BY <1>1, <1>7, <1>8, CarriedBalanced
<1> QED
    BY <1>9 DEF t

\* The summary changes no order.
LEMMA SummaryBalanced ==
    ASSUME NEW s, Sound(s), Delivered(s), Balanced(s), NEW px \in Nat
    PROVE  Balanced(Recalculate([s EXCEPT !.hold =
                [p \in ProductTypes |-> Position(s.hold[p].qty, s.hold[p].avg, px)]]))
<1> DEFINE x == [p \in ProductTypes |-> Position(s.hold[p].qty, s.hold[p].avg, px)]
           t == Recalculate([s EXCEPT !.hold = x])
<1>1. Carried(s, t) /\ Sound(t)
    BY SummaryCarried, SummarySound DEF Balanced
<1>2. s \in State
    BY DEF Sound
<1> HIDE DEF x
<1>3. t.orders = s.orders
    BY <1>2 DEF Recalculate, State
<1> HIDE DEF t
<1>4. RestedKept(s, t)
    BY <1>3 DEF RestedKept
<1>5. Balanced(t)
    BY <1>1, <1>4, CarriedBalanced
<1> QED
    BY <1>5 DEF t, x

\* The books a user starts with.
LEMMA InitBalanced == Balanced(InitState)
<1>1. \A p \in ProductTypes : InitState.hold[p] = NoHolding
    BY DEF InitState
<1>2. /\ InitState.avail = BaseCapital /\ InitState.pnl = 0 /\ InitState.cash = 0
      /\ InitState.dust = 0 /\ InitState.scaledIn = FALSE
    BY DEF InitState
<1>3. /\ NoHolding.qty = 0 /\ NoHolding.inv = 0 /\ NoHolding.cur = 0 /\ NoHolding.avg = 0
    BY DEF NoHolding
<1>4. Gap(NoHolding) = 0 /\ RowExact(NoHolding) /\ \A p : Tied(p, NoHolding) = 0
    BY <1>3 DEF Gap, RowExact, Tied
<1>5. "CNC" \in ProductTypes /\ "MIS" \in ProductTypes /\ "NRML" \in ProductTypes
    BY DEF ProductTypes
<1>6. RowsExact(InitState) /\ Residue(InitState.hold) = 0 /\ AllTied(InitState.hold) = 0
    BY <1>1, <1>4, <1>5 DEF RowsExact, Residue, AllTied, Abs
<1>7. TotalInvested(InitState.hold) = 0
    BY <1>1, <1>3, <1>5 DEF TotalInvested
<1>8. CashDrift(InitState) = 0
    BY <1>2, <1>7 DEF CashDrift
<1>9. CashExcess(InitState) = InitState.avail - BaseCapital - InitState.pnl + AllTied(InitState.hold)
    BY InitSound, TiedParts
<1>10. CashExcess(InitState) = 0
    BY <1>2, <1>6, <1>9, ConstantsAssumption
<1> QED
    BY <1>2, <1>6, <1>8, <1>10 DEF Balanced, DriftBounded, ExcessBounded, Abs

\* The invariant: the books of the committed account balance, and those of the copy
\* a looping handler is about to commit.
CInv == Balanced(db) /\ Balanced(sess.st)

\* The order worker has evaluated one order.
LEMMA EvaluateCash ==
    ASSUME IInv, OInv, CInv, NEW o \in OrderIds, EvaluateOrder(o) PROVE CInv'
<1> DEFINE s == sess.st
           ord == s.orders[o]
           x == IF ~ShouldFill(ord, sess.px) THEN s
                ELSE IF ~HoldingCovers(s, ord) THEN SetStatus(s, o, "CANCELLED")
                ELSE WorkerFill(s, o, sess.px)
<1>1. /\ Sound(s) /\ Book(s) /\ Balanced(s) /\ sess.px \in Nat
      /\ ord.status \in {"OPEN", "CANCELLED"}
    BY DEF IInv, SessionSound, Session, OInv, CInv, Waiting, EvaluateOrder
<1>2. ord.status # "NONE"
    BY <1>1
<1>3. sess'.st = x /\ db' = db
    BY DEF EvaluateOrder, IInv, SessionSound, Session
<1> HIDE DEF s, ord
<1>4. Balanced(SetStatus(s, o, "CANCELLED")) /\ Balanced(WorkerFill(s, o, sess.px))
    BY <1>1, <1>2, ClosingBalanced, TickBalanced DEF ord
<1>5. Balanced(x)
    BY <1>1, <1>4
<1> HIDE DEF x
<1> QED
    BY <1>3, <1>5 DEF CInv

\* The other loops: GET /orders, the expiry sweep and, with a commit after every
\* cancellation, the kill switch.
LEMMA LoopCash ==
    ASSUME IInv, OInv, CInv, NEW o \in OrderIds,
           PollOrder(o) \/ ExpireOrder(o) \/ KillCancel(o)
    PROVE  CInv'
<1> DEFINE s == sess.st
<1>1. /\ Sound(s) /\ Delivered(s) /\ Balanced(s) /\ price \in Nat /\ o \in sess.todo
      /\ \A i \in sess.todo : s.orders[i].status # "NONE"
    BY PriceType DEF IInv, SessionSound, CInv, PollOrder, ExpireOrder, KillCancel
<1>2. /\ db' = db \/ db' = sess'.st
      /\ \/ sess'.st = s
         \/ sess'.st = PollFill(s, o, price)
         \/ sess'.st = [SetStatus(s, o, "EXPIRED") EXCEPT !.avail = @ + ReservedAmount(s.orders[o])]
         \/ sess'.st = CancelledOrder(s, o)
    BY DEF PollOrder, ExpireOrder, KillCancel, IInv, SessionSound, Session
<1> HIDE DEF s
<1>3. /\ Balanced(PollFill(s, o, price)) /\ Balanced(CancelledOrder(s, o))
      /\ Balanced([SetStatus(s, o, "EXPIRED") EXCEPT !.avail = @ + ReservedAmount(s.orders[o])])
    BY <1>1, PollBalanced, ClosingBalanced
<1>4. Balanced(sess'.st)
    BY <1>1, <1>2, <1>3
<1>5. CASE db' = db
    BY <1>4, <1>5 DEF CInv
<1>6. CASE db' = sess'.st
    BY <1>4, <1>6 DEF CInv
<1> QED
    BY <1>2, <1>5, <1>6

\* The request of the kill switch is one place_order takes, and has a row.
LEMMA KillCloseCash ==
    ASSUME IInv, OInv, CInv, NEW p \in ProductTypes, KillClose(p) PROVE CInv'
<1> DEFINE s == sess.st
           q == s.hold[p].qty
           r == CloseRequest(p, q)
           x == IF CanPlace(s, r, price) THEN Placed(s, r, price) ELSE s
<1>1. /\ Sound(s) /\ Book(s) /\ Balanced(s) /\ sess \in Session /\ price \in Nat
      /\ p \in sess.close /\ s.n + Cardinality(sess.close) <= MaxOrders /\ q # 0
    BY PriceType DEF IInv, SessionSound, RoomToClose, OInv, CInv, KillClose
<1>2. sess'.st = x /\ db' = db
    BY <1>1 DEF KillClose, Session
<1>3. s.n \in Nat /\ q \in Int /\ sess.close \in SUBSET ProductTypes
    BY <1>1 DEF Sound, State, Holding, Session
<1>4. s.n + 1 \in OrderIds
  <2>1. IsFiniteSet(sess.close)
      BY <1>3, ProductTypesFinite, FS_Subset
  <2>2. Cardinality(sess.close) \in Nat /\ Cardinality(sess.close) # 0
      BY <1>1, <2>1, FS_CardinalityType, FS_EmptySet
  <2> QED
      BY <1>1, <1>3, <2>2, ConstantsAssumption DEF OrderIds
<1> HIDE DEF q
<1>5. r \in Request
  <2>1. (IF q > 0 THEN "SELL" ELSE "BUY") \in Sides /\ "MARKET" \in OrderTypes
      BY DEF Sides, OrderTypes
  <2>2. (IF q > 0 THEN q ELSE -q) \in Nat \ {0}
      BY <1>1, <1>3
  <2> QED
      BY <2>1, <2>2 DEF CloseRequest, Request
<1> HIDE DEF s, r
<1>6. Balanced(Placed(s, r, price))
    BY <1>1, <1>4, <1>5, PlacedBalanced
<1>7. Balanced(x)
    BY <1>1, <1>6
<1> HIDE DEF x
<1> QED
    BY <1>2, <1>7 DEF CInv

\* Handlers that work on the database itself.
LEMMA DirectCash ==
    ASSUME IInv, OInv, CInv,
           \/ \E r \in Requests : PlaceOrder(r)
           \/ \E o \in OrderIds : CancelOrder(o)
           \/ \E o \in OrderIds, e \in Edits : ModifyOrder(o, e)
           \/ GetPortfolioSummary
    PROVE  CInv'
<1>1. /\ Sound(db) /\ Delivered(db) /\ Book(db) /\ Balanced(db) /\ price \in Nat
      /\ Balanced(sess.st)
    BY PriceType DEF IInv, OInv, CInv
<1>2. CASE \E r \in Requests : PlaceOrder(r)
  <2> PICK r \in Requests : PlaceOrder(r)
      BY <1>2
  <2>1. r \in Request /\ db.n \in Nat
      BY <1>1, ConstantsAssumption DEF Sound, State
  <2>2. db.n + 1 \in OrderIds
      BY <2>1, ConstantsAssumption DEF PlaceOrder, RowsFor, OrderIds
  <2>3. db' = Placed(db, r, price) /\ sess' = sess
      BY DEF PlaceOrder
  <2>4. Balanced(Placed(db, r, price))
      BY <1>1, <2>1, <2>2, PlacedBalanced
  <2> QED
      BY <1>1, <2>3, <2>4 DEF CInv
<1>3. CASE \E o \in OrderIds : CancelOrder(o)
  <2> PICK o \in OrderIds : CancelOrder(o)
      BY <1>3
  <2>1. db' = CancelledOrder(db, o) /\ sess' = sess /\ db.orders[o].status # "NONE"
      BY OpenExists DEF CancelOrder
  <2> QED
      BY <1>1, <2>1, ClosingBalanced DEF CInv
<1>4. CASE \E o \in OrderIds, e \in Edits : ModifyOrder(o, e)
  <2> PICK o \in OrderIds, e \in Edits : ModifyOrder(o, e)
      BY <1>4
  <2>1. /\ db' = [db EXCEPT !.orders[o] = Edited(db.orders[o], e)] /\ sess' = sess
        /\ db.orders[o].status # "NONE" /\ e \in Edit
      BY OpenExists, ConstantsAssumption DEF ModifyOrder
  <2> QED
      BY <1>1, <2>1, EditedBalanced DEF CInv
<1>5. CASE GetPortfolioSummary
  <2>1. /\ db' = Recalculate([db EXCEPT !.hold =
                    [p \in ProductTypes |-> Position(db.hold[p].qty, db.hold[p].avg, price)]])
        /\ sess' = sess
      BY <1>5 DEF GetPortfolioSummary
  <2> QED
      BY <1>1, <2>1, SummaryBalanced DEF CInv
<1> QED
    BY <1>2, <1>3, <1>4, <1>5

\* Whatever handler runs, and however far it has come, the books balance.
THEOREM BooksBalance == Spec => []CInv
<1>1. Init => CInv
    BY InitBalanced DEF Init, CInv, Idle
<1>2. IInv /\ OInv /\ CInv /\ [Next]_vars => CInv'
  <2> SUFFICES ASSUME IInv, OInv, CInv, [Next]_vars PROVE CInv'
      OBVIOUS
  <2>1. CASE \/ \E r \in Requests : PlaceOrder(r)
             \/ \E o \in OrderIds : CancelOrder(o)
             \/ \E o \in OrderIds, e \in Edits : ModifyOrder(o, e)
             \/ GetPortfolioSummary
      BY <2>1, DirectCash
  <2>2. CASE \/ BeginTick \/ BeginPoll \/ BeginKillSwitch
             \/ \E S \in SUBSET OrderIds : BeginExpirySweep(S)
    <3>1. db' = db /\ sess'.st = db
        BY <2>2 DEF BeginTick, BeginPoll, BeginKillSwitch, BeginExpirySweep, Idle
    <3> QED
        BY <3>1 DEF CInv
  <2>3. CASE \E o \in OrderIds : EvaluateOrder(o)
      BY <2>3, EvaluateCash
  <2>4. CASE EndTick \/ EndSession
    <3>1. (db' = sess.st \/ db' = db) /\ sess'.st = InitState
        BY <2>4 DEF EndTick, EndSession, Idle
    <3> QED
        BY <3>1, InitBalanced DEF CInv
  <2>5. CASE \E o \in OrderIds : PollOrder(o) \/ ExpireOrder(o) \/ KillCancel(o)
      BY <2>5, LoopCash
  <2>6. CASE \E p \in ProductTypes : KillClose(p)
      BY <2>6, KillCloseCash
  <2>7. CASE (\E px \in Prices : MoveQuote(px)) \/ ReadHoldings \/ UNCHANGED vars
    <3>1. db' = db /\ sess'.st = sess.st
        BY <2>7 DEF MoveQuote, ReadHoldings, vars, IInv, SessionSound, Session
    <3> QED
        BY <3>1 DEF CInv
  <2> QED
      BY <2>1, <2>2, <2>3, <2>4, <2>5, <2>6, <2>7 DEF Next
<1> QED
    BY <1>1, <1>2, OrdersInvariant, PTL DEF Spec

\* However often positions are averaged, reduced, flipped and marked, profit and cost
\* account for the money of the transactions up to half a unit per share and averaging
\* BUY, as long as no SELL was added to a short.
THEOREM CashIsConserved == Spec => []CashConserved
<1>1. IInv /\ CInv => CashConserved
  <2> SUFFICES ASSUME IInv, CInv, ~db.scaledIn PROVE 2 * CashDrift(db) \in -db.dust .. db.dust
      BY DEF CashConserved
  <2>1. Sound(db) /\ db.scaledIn \in BOOLEAN
      BY DEF IInv, Sound, State
  <2>2. DriftBounded(db)
      BY <2>1 DEF CInv, Balanced
  <2>3. CashDrift(db) \in Int /\ Residue(db.hold) \in Nat /\ db.dust \in Nat
      BY <2>1, TiedParts
  <2>4. 2 * Abs(CashDrift(db)) + 2 * Residue(db.hold) <= db.dust
      BY <2>2 DEF DriftBounded
  <2> QED
      BY <2>3, <2>4 DEF Abs
<1> QED
    BY <1>1, InvariantHolds, BooksBalance, PTL

\* No sequence of fills, buy-backs, summaries and clamps leaves an account without
\* resting BUY orders with more available_capital than its capital, its profit and
\* what its longs and short margins take account for, up to the same rounding.
THEOREM CashIsNeverInvented == Spec => []CashNeverInvented
<1>1. IInv /\ CInv => CashNeverInvented
  <2> SUFFICES ASSUME IInv, CInv, ~db.scaledIn, \A o \in OrderIds : ~Rested(db.orders[o])
               PROVE  2 * CashExcess(db) <= db.dust
      BY DEF CashNeverInvented
  <2>1. Sound(db) /\ db.scaledIn \in BOOLEAN
      BY DEF IInv, Sound, State
  <2>2. ExcessBounded(db)
      BY <2>1 DEF CInv, Balanced, NoneRested
  <2>3. CashExcess(db) \in Int /\ Residue(db.hold) \in Nat /\ db.dust \in Nat
      BY <2>1, TiedParts
  <2>4. 2 * CashExcess(db) + 2 * Residue(db.hold) <= db.dust
      BY <2>2 DEF ExcessBounded
  <2> QED
      BY <2>3, <2>4
<1> QED
    BY <1>1, InvariantHolds, BooksBalance, PTL
================================================================================
