------------------------------ MODULE OptionsPage ------------------------------
(* The options terminal as built by default (without progressive hydration):    *)
(* the chain of the selected underlying and expiry, the order ticket that       *)
(* follows the strike nearest to the spot, and the chart of the selected leg. A *)
(* chain, an expiry, a leg are named by the underlying they belong to.          *)
EXTENDS PageCalls

CONSTANTS Underlyings, First    \* First is selected when the page opens

VARIABLE ui

None == "none"
Names == Underlyings \cup {None}
Legs == {"CE", "PE"}
NoLeg == <<None, "CE">>
Charted == (Underlyings \X Legs) \cup {NoLeg}

\* chart and charting are the leg whose candles are shown and fetched; ticket is
\* the underlying the strike and the premium of the ticket were taken from.
TypeOK ==
    /\ CallsOK(ui.calls, {"chain", "expiry"}, Names, Names)
    /\ ui \in [underlying : Underlyings, expiry : Names, chain : Names, live : BOOLEAN,
               loading : BOOLEAN, leg : Legs, ticket : Names, panel : BOOLEAN,
               chart : Charted, charting : Charted, raced : BOOLEAN, calls : {ui.calls}]

--------------------------------------------------------------------------------
chartContract(u) == IF u.chain = None THEN NoLeg ELSE <<u.chain, u.leg>>

\* The effect of another contract: without one the chart is empty; else it is
\* taken from the cache or fetched, and the fetch under way is cancelled.
charted(u, cached) ==
    LET c == chartContract(u)
    IN  IF c = NoLeg THEN [u EXCEPT !.chart = NoLeg, !.charting = NoLeg]
        ELSE IF cached THEN [u EXCEPT !.chart = c, !.charting = NoLeg]
        ELSE [u EXCEPT !.charting = c]

Chart(u, v, cached) == IF chartContract(u) = chartContract(v) THEN v ELSE charted(v, cached)

\* No matter what is under way. Kept: whether a chain of another underlying may
\* arrive later.
fetchChain(u, op, x) ==
    Send([u EXCEPT !.loading = TRUE,
                   !.raced = @ \/ \E i \in Under(u, "chain") \cup Under(u, "expiry") : u.calls[i].id # x],
         call(op, x))

Init ==
    ui = fetchChain([underlying |-> First, expiry |-> None, chain |-> None, live |-> FALSE,
                     loading |-> FALSE, leg |-> "CE", ticket |-> None, panel |-> FALSE,
                     chart |-> NoLeg, charting |-> NoLeg, raced |-> FALSE, calls |-> NoCalls],
                    "chain", First)

\* The expiry and the chain are emptied; the ticket keeps strike and premium.
setSelectedUnderlying(x) ==
    /\ x # ui.underlying /\ CanSend(ui, 1)
    /\ ui' = fetchChain(charted([ui EXCEPT !.underlying = x, !.expiry = None, !.chain = None], FALSE),
                        "chain", x)

\* Another expiry of the list: the chain is fetched for it.
setSelectedExpiry ==
    /\ ui.expiry # None /\ CanSend(ui, 1)
    /\ ui' = fetchChain(ui, "expiry", ui.underlying)

\* The strike nearest to the spot: the ticket starts anew.
nearestRow(u) == IF u.live /\ u.chain # None THEN [u EXCEPT !.leg = "CE", !.ticket = u.chain] ELSE u

SpotMoves ==
    /\ ui.chain # None
    /\ \E cached \in BOOLEAN : ui' = Chart(ui, nearestRow(ui), cached)

handleSelectOption(l) ==
    /\ ui.chain # None
    /\ \E cached \in BOOLEAN :
         ui' = Chart(ui, [ui EXCEPT !.leg = l, !.ticket = ui.chain], cached)

\* The buttons CE and PE of the ticket: the strike stays, the premium is the leg's.
setOptionType(l) ==
    /\ ui.panel /\ l # ui.leg
    /\ \E cached \in BOOLEAN : ui' = Chart(ui, [ui EXCEPT !.leg = l], cached)

\* The premium may also be typed: the ticket needs a strike and a live chain.
TicketReady == ui.ticket # None /\ ui.live

handlePlaceOrder ==
    /\ ui.panel /\ TicketReady
    /\ ui' = [ui EXCEPT !.panel = FALSE]

openOrderPanel == ~ui.panel /\ ui' = [ui EXCEPT !.panel = TRUE]
closeOrderPanel == ui.panel /\ ui' = [ui EXCEPT !.panel = FALSE]

setChartInterval == \E cached \in BOOLEAN : ui' = charted(ui, cached)

--------------------------------------------------------------------------------
\* A chain is answered by the live feed, or by another source and refused. A fetch
\* that timed out is sent once more, for fewer strikes: here, one that takes longer.
Serve(i) ==
    /\ ui.calls[i].at = "sent"
    /\ \E at \in {"ok", "err"} : ui' = [ui EXCEPT !.calls[i].at = at]

\* Whatever is selected by then. The first chain selects its first expiry, which
\* is fetched again under the underlying then selected.
ChainAnswers(i, op) ==
    /\ Answered(ui, i, op)
    /\ LET c == ui.calls[i]
           u == End([ui EXCEPT !.loading = FALSE], i)
       IN  \E live, cached \in BOOLEAN :
             ui' = IF c.at = "ok" /\ live
                   THEN LET v == [u EXCEPT !.chain = c.id, !.live = TRUE]
                            w == IF ui.live /\ ui.chain = c.id THEN v ELSE nearestRow(v)
                            x == Chart(ui, w, cached)
                        IN  IF op = "chain" /\ ui.expiry # c.id
                            THEN fetchChain([x EXCEPT !.expiry = c.id], "expiry", ui.underlying)
                            ELSE x
                   ELSE Chart(ui, [u EXCEPT !.chain = None, !.live = @ /\ c.at = "err"], FALSE)

\* Only the fetch of the last contract is heard; a failure empties the chart.
HistoryAnswers ==
    /\ ui.charting # NoLeg
    /\ \E chart \in {ui.charting, NoLeg} : ui' = [ui EXCEPT !.chart = chart, !.charting = NoLeg]

Answers ==
    \/ HistoryAnswers
    \/ \E i \in DOMAIN ui.calls : Serve(i) \/ \E op \in {"chain", "expiry"} : ChainAnswers(i, op)

Next ==
    \/ Answers \/ setSelectedExpiry \/ SpotMoves \/ handlePlaceOrder \/ openOrderPanel
    \/ closeOrderPanel \/ setChartInterval
    \/ \E x \in Underlyings : setSelectedUnderlying(x)
    \/ \E l \in Legs : handleSelectOption(l) \/ setOptionType(l)

--------------------------------------------------------------------------------
\* The spinner of the chain lasts only while a chain is being fetched.
NothingLocked == ui.loading => Under(ui, "chain") \cup Under(ui, "expiry") # {}

\* The chain shown belongs to the selected underlying, unless another one was
\* selected while a chain was being fetched (no answer is dropped); and in every
\* case a chart that is not loading shows the selected leg or nothing.
ShownIsTrue ==
    /\ ui.raced \/ ui.chain \in {None, ui.underlying}
    /\ ui.charting = NoLeg => ui.chart \in {NoLeg, chartContract(ui)}
================================================================================
