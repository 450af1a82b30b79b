------------------------------ MODULE Commodities ------------------------------
(* The commodities page: a watchlist kept in the browser's storage, quotes that *)
(* come as ticks of the market socket and as snapshots polled every 3 seconds,  *)
(* also while earlier polls are under way. A quote is the time it was made at   *)
(* and the kind of its source.                                                  *)
EXTENDS PageCalls

CONSTANTS
    Symbols,
    Default,        \* DEFAULT_MCX_WATCHLIST[0]
    MaxTime

VARIABLE ui

None == "none"
Times == 1..MaxTime
SOURCE_PRIORITY == [none |-> 0, frozen |-> 10, live |-> 80, live_ws |-> 100]
quote(t, src) == [time |-> t, source |-> src]
NoQuote == quote(0, None)
Quotes == {NoQuote} \cup [time : Times, source : {"frozen", "live", "live_ws"}]
Snapshots == [Symbols -> Quotes]

\* ticks: the market store; open: the market; reconnectedAt is 0 until the socket comes back.
TypeOK ==
    /\ CallsOK(ui.calls, {"fetch"}, {None}, Snapshots)
    /\ ui \in [watchlist : SUBSET Symbols, saved : SUBSET Symbols, selected : Symbols,
               quotes : [Symbols -> Quotes], ticks : [Symbols -> Quotes], now : Times, open : BOOLEAN,
               reconnectedAt : 0..MaxTime, loading : BOOLEAN, calls : {ui.calls}]

--------------------------------------------------------------------------------
subscriptionSymbols(u) == u.watchlist \cup {s \in Symbols : u.quotes[s] # NoQuote}

\* The ticks of all subscribed symbols are applied, not only of the one that changed.
applyTicks(u) ==
    [u EXCEPT !.quotes = [s \in Symbols |->
        IF s \in subscriptionSymbols(u) /\ u.ticks[s] # NoQuote THEN u.ticks[s] ELSE @[s]]]

\* The effect of another list of subscriptions. The list has an order, so that it
\* may change with the watchlist while the set of symbols is the same.
Subscribed(u, v) ==
    IF subscriptionSymbols(u) # subscriptionSymbols(v) THEN {applyTicks(v)}
    ELSE IF u.watchlist # v.watchlist THEN {v, applyTicks(v)} ELSE {v}

\* A snapshot never replaces a later quote of a source as good as its own.
buildCommodityState(old, items) ==
    [s \in Symbols |->
        IF \/ items[s] = NoQuote
           \/ /\ old[s].time > items[s].time
              /\ SOURCE_PRIORITY[old[s].source] >= SOURCE_PRIORITY[items[s].source]
        THEN old[s] ELSE items[s]]

fetchCommodities(u) == Send([u EXCEPT !.loading = TRUE], call("fetch", None))

\* A saved list without a symbol that is still traded is opened as it is.
Init ==
    \E w \in SUBSET Symbols :
        \E s \in IF w = {} THEN {Default} ELSE w :
            ui = fetchCommodities(
                     [watchlist |-> w, saved |-> w, selected |-> s, quotes |-> [x \in Symbols |-> NoQuote],
                      ticks |-> [x \in Symbols |-> NoQuote], now |-> 1, open |-> TRUE,
                      reconnectedAt |-> 0, loading |-> FALSE, calls |-> NoCalls])

TimePasses == ui.now < MaxTime /\ ui' = [ui EXCEPT !.now = @ + 1]

Poll == CanSend(ui, 1) /\ ui' = fetchCommodities(ui)

MarketCloses == ui.open /\ ui' = [ui EXCEPT !.open = FALSE]

\* What comes when the market is not open is marked as frozen.
Tick(s) ==
    ui' = applyTicks([ui EXCEPT !.ticks[s] = quote(ui.now, IF ui.open THEN "live_ws" ELSE "frozen")])

\* The socket is back; while it is down there are just no ticks.
markWsReconnect == ui' = [ui EXCEPT !.reconnectedAt = ui.now]

\* The effect of another watchlist saves it.
setWatchlist(w, s) ==
    ui' \in Subscribed(ui, [ui EXCEPT !.watchlist = w, !.saved = w, !.selected = s])

addCurrentSymbol(s) == s \notin ui.watchlist /\ setWatchlist(ui.watchlist \cup {s}, s)

\* The list is never emptied.
deleteSymbol(s) ==
    LET next == ui.watchlist \ {s}
    IN  /\ s \in ui.watchlist
        /\ \E n \in IF next = {} THEN {Default} ELSE next :
             setWatchlist(IF next = {} THEN {Default} ELSE next, IF ui.selected = s THEN n ELSE ui.selected)

\* A row of the list, or a position, which need not be in the list.
setSelectedSymbol(s) == ui' = [ui EXCEPT !.selected = s]

\* A snapshot with anything from before the last reconnection is dropped; a failed
\* call counts as an empty snapshot.
FetchAnswers(i) ==
    LET done == End([ui EXCEPT !.loading = FALSE], i)
        items == Reply(ui, i)
    IN  /\ Answered(ui, i, "fetch")
        /\ ui' \in IF \/ ui.calls[i].at = "err"
                      \/ \E s \in Symbols : items[s] # NoQuote /\ items[s].time < ui.reconnectedAt
                   THEN {done}
                   ELSE Subscribed(ui, [done EXCEPT !.quotes = buildCommodityState(@, items)])

Serve(i) ==
    /\ ui.calls[i].op = "fetch" /\ ui.calls[i].at = "sent"
    /\ \/ ui' = [ui EXCEPT !.calls[i].at = "err"]
       \/ \E t \in 1..ui.now, there \in SUBSET Symbols :
            LET q == quote(t, IF ui.open THEN "live" ELSE "frozen")
            IN  ui' = [ui EXCEPT !.calls[i].at = "ok",
                                 !.calls[i].got = {[s \in Symbols |-> IF s \in there THEN q ELSE NoQuote]}]

Next ==
    \/ TimePasses \/ MarketCloses \/ Poll \/ markWsReconnect
    \/ \E s \in Symbols : Tick(s) \/ addCurrentSymbol(s) \/ deleteSymbol(s) \/ setSelectedSymbol(s)
    \/ \E i \in 1..MaxCalls : Serve(i) \/ FetchAnswers(i)

--------------------------------------------------------------------------------
NothingLocked == ui.loading => Under(ui, "fetch") # {}

\* While the market is open, a subscribed symbol is never shown with a quote from
\* before its last tick, whatever the polls answer and however late; and what is
\* saved is the list shown. (After the close an old snapshot may replace a frozen
\* quote: its source has the higher priority.)
ShownIsTrue ==
    /\ ui.saved = ui.watchlist
    /\ ui.open => \A s \in subscriptionSymbols(ui) : ui.quotes[s].time >= ui.ticks[s].time
================================================================================
