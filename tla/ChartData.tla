------------------------------- MODULE ChartData -------------------------------
(* The candles of the terminal's chart: a fetch per symbol and period, at once *)
(* and every 15 s, over a cache that outlives the page, with an abort of the   *)
(* fetch before it and retries after a failure. Candles are the symbol and the *)
(* period they were fetched for.                                               *)
EXTENDS Naturals

CONSTANTS
    Symbols, Periods,
    MAX_CANDLE_RETRIES

VARIABLE ui

Keys == Symbols \X Periods
NoCandles == <<"none", "none">>
NoFetch == [key |-> NoCandles, attempt |-> 0]
Attempts == 0..MAX_CANDLE_RETRIES + 1
Fetches == {NoFetch} \cup [key : Keys, attempt : Attempts]

TypeOK ==
    ui \in [symbol : Symbols, period : Periods, candles : Keys \cup {NoCandles},
            cache : [Keys -> {"none", "fresh", "old"}], loading : BOOLEAN,
            call : Fetches, retry : Fetches, limited : BOOLEAN]

--------------------------------------------------------------------------------
\* A new controller: the fetch before it is aborted, and its finally block ends
\* the spinner although the new one has begun.
network(u, key, attempt) ==
    LET aborted == u.call # NoFetch /\ u.call.key[1] = u.symbol
        spin == attempt = 0 /\ u.cache[key] = "none" /\ ~aborted
    IN  [u EXCEPT !.loading = spin, !.call = [key |-> key, attempt |-> attempt]]

whenAllowedOnceMore(u, key, attempt) ==
    CASE ~u.limited -> network(u, key, attempt)
      [] u.limited /\ attempt <= MAX_CANDLE_RETRIES + 1 ->
            [u EXCEPT !.retry = [key |-> key, attempt |-> attempt + 1]]
      [] OTHER -> [u EXCEPT !.loading = FALSE]

\* While the backend limits the rate, a timer tries again, a bounded number of times.
whenAllowed(u, key, attempt) ==
    CASE ~u.limited -> network(u, key, attempt)
      [] u.limited /\ attempt <= MAX_CANDLE_RETRIES ->
            [u EXCEPT !.retry = [key |-> key, attempt |-> attempt + 1]]
      [] OTHER -> [u EXCEPT !.loading = FALSE]

\* A first attempt shows what is cached; a fresh entry ends it there.
fetchCandles(u, key, attempt) ==
    LET cached == attempt = 0 /\ u.cache[key] # "none"
        v == IF cached THEN [u EXCEPT !.candles = key, !.loading = FALSE] ELSE u
    IN  IF cached /\ u.cache[key] = "fresh" THEN v ELSE whenAllowed(v, key, attempt)

Current(u) == <<u.symbol, u.period>>

\* Effects of another symbol: the cleanup aborts the fetch and drops the retry,
\* the newest cached candles of the symbol are shown, the parent fetches.
selectSymbol(u, s, newest) ==
    fetchCandles([u EXCEPT !.symbol = s, !.call = NoFetch, !.retry = NoFetch,
                           !.candles = newest, !.loading = (newest = NoCandles)],
                 <<s, u.period>>, 0)

CachedOf(u, s) ==
    LET c == {k \in Keys : k[1] = s /\ u.cache[k] # "none"} IN IF c = {} THEN {NoCandles} ELSE c

--------------------------------------------------------------------------------
Init ==
    \E s \in Symbols, p \in Periods, limited \in BOOLEAN :
        LET u == [symbol |-> s, period |-> p, candles |-> NoCandles,
                  cache |-> [k \in Keys |-> "none"], loading |-> TRUE,
                  call |-> NoFetch, retry |-> NoFetch, limited |-> limited]
        IN  ui = fetchCandles(u, <<s, p>>, 0)

handleSelectSymbol(s) ==
    /\ s # ui.symbol
    /\ \E newest \in CachedOf(ui, s) : ui' = selectSymbol(ui, s, newest)

setChartPeriod(p) ==
    p # ui.period /\ ui' = fetchCandles([ui EXCEPT !.period = p], <<ui.symbol, p>>, 0)

PollCandles == ui' = fetchCandles(ui, Current(ui), 0)

Retry ==
    /\ ui.retry # NoFetch
    /\ ui' = fetchCandles([ui EXCEPT !.retry = NoFetch], ui.retry.key, ui.retry.attempt)

\* The answer is dropped when the symbol has changed; it is cached and shown
\* otherwise, for whichever period it was asked.
CandlesAnswer ==
    /\ ui.call # NoFetch
    /\ LET k == ui.call.key IN
         \E cached \in {"none", "fresh"} :
           ui' = IF k[1] = ui.symbol
                 THEN [ui EXCEPT !.call = NoFetch, !.retry = NoFetch, !.loading = FALSE,
                                 !.candles = k, !.cache[k] = cached]
                 ELSE [ui EXCEPT !.call = NoFetch]

\* Retried a bounded number of times; then the chart is emptied.
CandlesFail ==
    /\ ui.call # NoFetch
    /\ LET k == ui.call.key  mine == k[1] = ui.symbol IN
         ui' = CASE mine /\ ui.call.attempt < MAX_CANDLE_RETRIES ->
                      [ui EXCEPT !.call = NoFetch,
                                 !.retry = [key |-> k, attempt |-> ui.call.attempt + 1]]
                 [] mine /\ ui.call.attempt >= MAX_CANDLE_RETRIES ->
                      [ui EXCEPT !.call = NoFetch, !.candles = NoCandles, !.loading = FALSE]
                 [] OTHER -> [ui EXCEPT !.call = NoFetch]

CacheAges(k) == ui.cache[k] = "fresh" /\ ui' = [ui EXCEPT !.cache[k] = "old"]

RateLimit == ui' = [ui EXCEPT !.limited = ~@]

Next ==
    \/ \E s \in Symbols : handleSelectSymbol(s)
    \/ \E p \in Periods : setChartPeriod(p)
    \/ \E k \in Keys : CacheAges(k)
    \/ PollCandles \/ Retry \/ CandlesAnswer \/ CandlesFail \/ RateLimit

--------------------------------------------------------------------------------
\* The spinner shows only while a fetch or a retry is due that ends it.
NothingLocked == ui.loading => ui.call # NoFetch \/ ui.retry # NoFetch

\* The chart never shows another symbol's candles, whatever was under way when
\* the symbol was changed.
ShownIsTrue == ui.candles = NoCandles \/ ui.candles[1] = ui.symbol
================================================================================
