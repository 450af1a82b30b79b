---------------------------- MODULE MCTradingEngine ----------------------------
(* Instances of TradingEngine: the prices, requests and edits of each run. *)
EXTENDS TradingEngine

\* Far enough apart that a wrong amount never hides in what rounding allows, and
\* from Low to High by more than the fifth that an intraday short blocks.
Low == 4000
Mid == 5000
High == 6000
ThreePrices == {Low, Mid, High}
TwoPrices == {Low, High}
Capital == 100000

Req(side, type, product, qty, px, trig, tp) ==
    [side |-> side, type |-> type, product |-> product, qty |-> qty,
     price |-> px, trig |-> trig, tp |-> tp, client |-> 0]
Change(qty, px, trig, tp) == [qty |-> qty, price |-> px, trig |-> trig, tp |-> tp]
NoEdits == {}

\* Market orders of both sides and sizes: averaging, partial closes, shorts;
\* limit orders that flip the position; a price the client brought along; resting
\* orders of two products for the kill switch to cancel.
LedgerRequests ==
    {Req(side, "MARKET", "MIS", q, 0, 0, 0) : side \in Sides, q \in {1, 2}}
    \cup {Req("BUY", "MARKET", "CNC", 1, 0, 0, 0),
          Req("SELL", "MARKET", "CNC", 1, 0, 0, 0),
          Req("SELL", "LIMIT", "MIS", 3, Low, 0, 0),
          Req("BUY", "LIMIT", "MIS", 3, High, 0, 0),
          Req("BUY", "LIMIT", "CNC", 1, Low, 0, 0),
          Req("BUY", "STOP_LOSS", "MIS", 1, 0, High, 0),
          [Req("SELL", "MARKET", "NRML", 1, 0, 0, 0) EXCEPT !.client = Mid]}

\* A bracket, shares to keep the position open when one leg has closed its
\* part, and a limit order that can flip the position.
BracketRequests ==
    {Req("BUY", "BRACKET", "MIS", 1, Mid, Low, High),
     Req("BUY", "MARKET", "MIS", 1, 0, 0, 0),
     Req("SELL", "LIMIT", "MIS", 2, Mid, 0, 0)}
BracketEdits == {Change(0, 0, High, 0)}

\* Delivery orders and their exits.
DeliveryRequests ==
    {Req("BUY", "MARKET", "CNC", 1, 0, 0, 0),
     Req("SELL", "MARKET", "CNC", 1, 0, 0, 0),
     Req("SELL", "LIMIT", "CNC", 1, High, 0, 0),
     Req("BUY", "LIMIT", "CNC", 1, Low, 0, 0),
     Req("SELL", "STOP_LOSS_LIMIT", "CNC", 1, Mid, Low, 0),
     Req("SELL", "TAKE_PROFIT", "CNC", 1, High, 0, 0)}
DeliveryEdits == {Change(2, 0, 0, 0)}

\* The smallest history that tells the claims from the code.
RestingBuy == {Req("BUY", "LIMIT", "CNC", 1, Low, 0, 0)}
================================================================================
