---------------------------- MODULE FrontendQuotes ----------------------------
(* How quotes reach the screens of the frontend: WebSocket ticks go through    *)
(* the unified quote authority, which feeds three stores (market, portfolio,   *)
(* watchlist); the REST polls of the chart, the holdings and the watchlist and *)
(* the end-of-day reconciliation write the stores directly.                    *)
(* A quote is the number v of the trade it reports, with the exchange time and *)
(* the sequence number the backend stamped on it, 0 where it stamped none.     *)
(* One key is one spelling of a symbol in a store's map. The memory of the     *)
(* stores is the record mem, because one message writes several of them.       *)
EXTENDS Integers, Sequences, FiniteSets

CONSTANTS
    Symbols,            \* what the feed calls its instruments
    Keys,               \* spellings used as map keys
    Norm,               \* [Keys -> Keys]: normalizeSymbol
    Aliases,            \* [Keys -> SUBSET Keys]: symbolAliases
    TickKeys,           \* [Symbols -> Seq(Keys)]: the keys one tick is written under: the
                        \* normalised symbol, the raw one, the root of a commodity
    Held,               \* the normalised keys in the portfolio
    RestForms,          \* how REST quotes are stamped: subset of {"stamped", "bare"}
    OfficialAnswers,    \* may a batch answer be marked official: subset of BOOLEAN
    TickSources,        \* the sources ticks name: "live" (or none named), another ("none")
    Protect,            \* LIVE_STALE_PROTECT_MS in units of the clock
    MaxRuns,            \* runs over many symbols (watchlist, reconciliation) at a time
    MaxTime, MaxTrades, MaxCalls, MaxPolls, MaxQueue, MaxSeq

\* The spellings fall into instruments.  That leaves out the BSE: its spelling of a
\* share (.BO) and that of the NSE (.NS) are both aliases of the bare name.
ASSUME QuoteAssumption ==
    /\ Norm \in [Keys -> Keys] /\ Aliases \in [Keys -> SUBSET Keys]
    /\ \A k \in Keys : k \in Aliases[k] /\ Norm[k] \in Aliases[k]
    /\ \A k \in Keys : \A a \in Aliases[k] : Aliases[a] = Aliases[k] /\ Norm[a] = Norm[k]
    /\ TickKeys \in [Symbols -> Seq(Keys)] /\ \A s \in Symbols : Len(TickKeys[s]) \in 1..3
    /\ Held \subseteq Keys /\ \A k \in Held : Norm[k] = k
    /\ RestForms \subseteq {"stamped", "bare"} /\ OfficialAnswers \subseteq BOOLEAN
    /\ TickSources \subseteq {"live", "none"}
    /\ MaxTime > 0 /\ {Protect, MaxTime, MaxTrades, MaxCalls, MaxPolls, MaxQueue, MaxSeq, MaxRuns} \subseteq Nat

VARIABLES
    now,        \* Date.now(), and the exchange's clock
    tape,       \* [Symbols -> quote]: the last trade of each instrument at the backend
    trades,     \* how many trades there have been
    ws,         \* [up, queue]: the market socket and the ticks under way on it
    mem,        \* [auth, seqs, store, marks, watch]: the module state of the tab
    eod,        \* [Keys -> price]: the cache of end-of-day prices
    calls,      \* answers of REST calls under way: [kind, quotes, official]
    hydrating,  \* _hydrating
    prices,     \* inflightFetchPricesPromise: [busy, todo, got]
    open,       \* the session snapshot's isOpen
    recon       \* reconciliation: [due, phase, todo, official, got]
vars == <<now, tape, trades, eod, ws, mem, calls, hydrating, prices, open, recon>>

NoQuote == [v |-> 0, ts |-> 0, seq |-> 0]
NoQuotes == [k \in Keys |-> NoQuote]
Quotes == [v : 0..MaxTrades, ts : 0..MaxTime, seq : 0..MaxTrades]
Sources == {"none", "live", "poll", "eod"}
NoEntry == [v |-> 0, ts |-> 0, seq |-> 0, src |-> "none"]
NoRow == [v |-> 0, src |-> "none", at |-> 0]

\* due is the debounce timer; phase is where the run that holds _inflight waits,
\* todo its chunks to come, official what the first answered envelope said, got
\* the quotes to stamp.
Recon(due, phase, todo, official, got) ==
    [due |-> due, phase |-> phase, todo |-> todo, official |-> official, got |-> got]
Phases == {"idle", "fetch", "chunk", "stamped", "ticker"}

\* An end-of-day price is marked official itself, or came in a run whose first
\* answered chunk was: that envelope counts for the chunks after it too.
isOfficialBackendQuote(marked, envelope) == marked = TRUE \/ envelope = "yes"

--------------------------------------------------------------------------------
(* The unified quote authority. *)

parseTs(q) == IF q.ts = 0 THEN now ELSE q.ts

SourceRank == [live |-> 5, poll |-> 3, eod |-> 6, none |-> 2]

shouldAcceptEqualOrLater(existing, incoming) ==
    existing = NoEntry \/ incoming.seq # existing.seq \/ parseTs(incoming) > parseTs(existing)

\* A newer exchange time wins, then the sequence, then the source, then a new price.
shouldAccept(existing, incoming) ==
    LET older == parseTs(existing)  newer == parseTs(incoming)
        exRank == SourceRank[existing.src]  incRank == SourceRank[incoming.src]
    IN  \/ existing = NoEntry
        \/ newer > older
        \/ newer = older /\ incoming.seq > existing.seq
        \/ /\ newer = older /\ incoming.seq = existing.seq
           /\ incRank > exRank \/ (incRank = exRank /\ incoming.v # existing.v)

\* A quote without a sequence number gets the count of quotes accepted for the key.
Incoming(m, key, q, src) ==
    [v |-> q.v, ts |-> q.ts, src |-> src,
     seq |-> IF q.seq = 0 THEN m.seqs[key] + 1 ELSE q.seq]

--------------------------------------------------------------------------------
(* The stores. *)

ProtectedFromAll(row, src) ==
    /\ src # "live"
    /\ row.src = "live" /\ now - row.at < Protect

Protected(row, src) ==
    /\ src \notin {"live", "eod"}
    /\ row.src = "live" /\ now - row.at < Protect

\* A row as it is written now; the time is only ever read on live rows.
Row(v, src) == [v |-> v, src |-> src, at |-> IF src = "live" THEN now ELSE 0]

\* Quotes come in batches, [Keys -> quote] with v = 0 where there is none; a tick
\* is a batch of one. The loop over a batch is one step.
Sent(quotes) == {k \in Keys : quotes[k].v # 0}
Only(key, q) == [NoQuotes EXCEPT ![key] = q]

\* The prices of a batch under every spelling of its keys; of two quotes for one
\* instrument the last one stays.
Spread(quotes) ==
    [a \in Keys |-> LET from == Sent(quotes) \cap Aliases[a]
                    IN  IF from = {} THEN 0 ELSE quotes[CHOOSE k \in from : TRUE].v]

\* The rows a batch may write: a poll does not touch a row that a tick wrote a
\* moment ago.
Free(m, new, src) == {a \in Keys : new[a] # 0 /\ ~Protected(m.store[a], src)}

Written(m, new, rows, src) ==
    [m EXCEPT !.store = [a \in Keys |-> IF a \in rows THEN Row(new[a], src) ELSE @[a]]]

updateQuoteOneKey(m, quotes, src) ==
    LET new == [k \in Keys |-> quotes[k].v]
    IN  Written(m, new, Free(m, new, src), src)

\* Key by key; a quote that changes no row leaves even the time of the rows alone.
updateQuote(m, quotes, src) ==
    LET new == Spread(quotes)
        free == Free(m, new, src)
    IN  Written(m, new, {a \in free : \E b \in free \cap Aliases[a] : m.store[b].v # new[b]}, src)

\* The whole batch at once: one changed row gives all of them the new time.
batchUpdateQuotes(m, quotes, src) ==
    LET new == Spread(quotes)
        free == Free(m, new, src)
    IN  Written(m, new, IF \E a \in free : m.store[a].v # new[a] THEN free ELSE {}, src)

\* The holdings of the portfolio, under their normalised key.
applyLiveQuotes(m, quotes) ==
    [m EXCEPT !.marks = [h \in Held |->
        LET from == {k \in Sent(quotes) : Norm[k] = h}
        IN  IF from = {} THEN @[h] ELSE quotes[CHOOSE k \in from : TRUE].v]]

\* The watchlist's rows, under the keys of the patch and no others.
setPrices(m, new, src) ==
    [m EXCEPT !.watch = [k \in Keys |->
        IF new[k] = 0 THEN @[k] ELSE [v |-> new[k], src |-> src]]]
updatePrices(m, new, src) ==
    IF \A k \in Keys : new[k] \in {0, m.watch[k].v} THEN m ELSE setPrices(m, new, src)

--------------------------------------------------------------------------------
(* The synchronisation engine between the authority and the stores. *)

applyToStoresNoWatch(m, quotes, src) ==
    applyLiveQuotes(updateQuote(m, quotes, src), quotes)

_applyToStores(m, quotes, src) ==
    updatePrices(applyLiveQuotes(updateQuote(m, quotes, src), quotes), Spread(quotes), src)

\* The listeners run inside ingest, so an accepted quote is in every store at once.
ingest(m, quotes, src) ==
    LET incoming == [k \in Keys |-> Incoming(m, k, quotes[k], src)]
        accepted == {k \in Sent(quotes) : shouldAccept(m.auth[k], incoming[k])}
    IN  _applyToStores(
            [m EXCEPT !.auth = [k \in Keys |-> IF k \in accepted THEN incoming[k] ELSE @[k]],
                      !.seqs = [k \in Keys |-> IF k \in accepted THEN @[k] + 1 ELSE @[k]]],
            [k \in Keys |-> IF k \in accepted THEN quotes[k] ELSE NoQuote], src)

\* The i-th key of a tick, if it has so many: the market store is written
\* whatever the authority says, under the source the tick names.
applyUnder(m, keys, i, q, src) ==
    IF i > Len(keys) THEN m
    ELSE updateQuote(ingest(m, Only(keys[i], q), "live"), Only(keys[i], q), src)

\* A tick is dropped when the authority refuses its normalised key.
applyIncomingQuote(m, sym, q, src) ==
    LET keys == TickKeys[sym]
    IN  IF ~shouldAccept(m.auth[keys[1]], Incoming(m, keys[1], q, "live")) THEN m
        ELSE applyUnder(applyUnder(applyUnder(m, keys, 1, q, src), keys, 2, q, src), keys, 3, q, src)

--------------------------------------------------------------------------------
(* Which price a row of the watchlist or the ticker shows. *)

sourcePriority == [live |-> 5, poll |-> 3, eod |-> 2, none |-> 0]

\* The first candidate of the best source; the market store's row comes first.
resolveSymbolPrice(m, cache, k) ==
    LET rows == <<m.store[k], m.watch[k], [v |-> cache[k], src |-> "eod"]>>
        known == {i \in 1..3 : rows[i].v # 0}
        best == {i \in known : \A j \in known :
                    sourcePriority[rows[j].src] <= sourcePriority[rows[i].src]}
    IN  IF known = {} THEN 0 ELSE rows[CHOOSE i \in best : \A j \in best : i <= j].v

--------------------------------------------------------------------------------
Init ==
    /\ now = 1 /\ trades = 0
    /\ tape = [s \in Symbols |-> NoQuote]
    /\ ws = [up |-> FALSE, queue |-> <<>>]
    /\ mem = [auth |-> [k \in Keys |-> NoEntry], seqs |-> [k \in Keys |-> 0],
              store |-> [k \in Keys |-> NoRow], marks |-> [k \in Held |-> 0],
              watch |-> [k \in Keys |-> [v |-> 0, src |-> "none"]]]
    /\ eod = [k \in Keys |-> 0]
    /\ calls = {}
    /\ hydrating = FALSE
    /\ prices = [busy |-> FALSE, todo |-> {}, got |-> NoQuotes]
    /\ open \in BOOLEAN
    /\ recon = IF open THEN Recon(FALSE, "idle", {}, "none", NoQuotes)
               ELSE Recon(TRUE, "idle", {}, "none", NoQuotes)

Tick == now < MaxTime /\ now' = now + 1
        /\ UNCHANGED <<tape, trades, eod, ws, mem, calls, hydrating, prices, open, recon>>

\* A trade; on an open socket the backend pushes it to the tab.
Trade(s) ==
    /\ trades < MaxTrades
    /\ trades' = trades + 1
    /\ LET q == [v |-> trades + 1, ts |-> now, seq |-> trades + 1]
       IN  /\ tape' = [tape EXCEPT ![s] = q]
           /\ \/ ws.up /\ Len(ws.queue) < MaxQueue
                 /\ ws' = [ws EXCEPT !.queue = Append(@, [sym |-> s, q |-> q])]
              \/ ~ws.up /\ UNCHANGED ws
    /\ UNCHANGED <<now, eod, mem, calls, hydrating, prices, open, recon>>

ReceiveTick ==
    /\ ws.queue # <<>>
    /\ ws' = [ws EXCEPT !.queue = Tail(@)]
    /\ \E src \in TickSources :
         mem' = applyIncomingQuote(mem, Head(ws.queue).sym, Head(ws.queue).q, src)
    /\ UNCHANGED <<now, tape, trades, eod, calls, hydrating, prices, open, recon>>

\* What a REST endpoint answers for a set of keys: the last trade of the
\* instrument written last under the key, stamped or not.
LastTrade(k) ==
    LET of == {s \in Symbols : \E i \in DOMAIN TickKeys[s] : k \in Aliases[TickKeys[s][i]]}
        traded == {s \in of : tape[s].v # 0}
    IN  IF traded = {} THEN NoQuote
        ELSE tape[CHOOSE s \in traded : \A t \in traded : tape[t].v <= tape[s].v]
Stamp(q, form) == IF form = "stamped" \/ q.v = 0 THEN q ELSE [q EXCEPT !.ts = 0, !.seq = 0]
Answer(keys, form) == [k \in Keys |-> IF k \in keys THEN Stamp(LastTrade(k), form) ELSE NoQuote]

\* Only a hydration looks at the stamps, and only a reconciliation at whether
\* the batch is official: whether the backend took the session for closed.
Call(kind, keys) ==
    /\ Cardinality(calls) < MaxCalls
    /\ kind \in {"quote", "holdings"} =>
         Cardinality({c \in calls : c.kind \in {"quote", "holdings"}}) < MaxPolls
    /\ \E form \in IF kind = "hydrate" THEN RestForms ELSE {"bare"},
          official \in IF kind = "eod" THEN OfficialAnswers ELSE {FALSE} :
         calls' = calls \cup
            {[kind |-> kind, quotes |-> Answer(keys, form), official |-> official]}

\* onopen: subscribe, and hydrate the authority unless a hydration is under way.
ConnectAndHydrate ==
    /\ ~ws.up /\ \A k \in Keys : mem.seqs[k] < MaxSeq
    /\ ws' = [ws EXCEPT !.up = TRUE]
    /\ \/ hydrating /\ UNCHANGED <<calls, hydrating>>
       \/ ~hydrating /\ hydrating' = TRUE /\ Call("hydrate", Keys)
    /\ UNCHANGED <<now, tape, trades, eod, mem, prices, open, recon>>

DisconnectKeepsQueue ==
    /\ ws.up /\ ws' = [ws EXCEPT !.up = FALSE]
    /\ UNCHANGED <<now, tape, trades, eod, mem, calls, hydrating, prices, open, recon>>

\* What was under way on the socket is lost with it.
Disconnect ==
    /\ ws.up
    /\ ws' = [up |-> FALSE, queue |-> <<>>]
    /\ UNCHANGED <<now, tape, trades, eod, mem, calls, hydrating, prices, open, recon>>

\* The quotes of a hydration pass through the authority as polls.
HydrateAnswers ==
    \E c \in calls :
        /\ c.kind = "hydrate"
        /\ mem' = ingest(mem, c.quotes, "poll")
        /\ calls' = calls \ {c}
        /\ hydrating' = FALSE
        /\ UNCHANGED <<now, tape, trades, eod, ws, prices, open, recon>>

\* The chart polls the quote of its symbol while the session is open.
PollQuote(k) ==
    /\ open /\ Call("quote", {k})
    /\ UNCHANGED <<now, tape, trades, eod, ws, mem, hydrating, prices, open, recon>>
QuoteAnswers ==
    \E c \in calls :
        /\ c.kind = "quote"
        /\ mem' = updateQuote(mem, c.quotes, "poll")
        /\ calls' = calls \ {c}
        /\ UNCHANGED <<now, tape, trades, eod, ws, hydrating, prices, open, recon>>

\* The holdings are polled while the socket is down; the answer marks the
\* holdings even where the market store keeps its own row.
PollHoldings ==
    /\ Held # {} /\ ~ws.up /\ Call("holdings", Held)
    /\ UNCHANGED <<now, tape, trades, eod, ws, mem, hydrating, prices, open, recon>>
HoldingsAnswer ==
    \E c \in calls :
        /\ c.kind = "holdings"
        /\ mem' = applyLiveQuotes(updateQuote(mem, c.quotes, "poll"), c.quotes)
        /\ calls' = calls \ {c}
        /\ UNCHANGED <<now, tape, trades, eod, ws, hydrating, prices, open, recon>>

CallFailsForGood ==
    \E c \in calls :
        /\ calls' = calls \ {c}
        /\ UNCHANGED <<now, tape, trades, eod, ws, mem, hydrating, prices, open, recon>>

\* A request without an answer (failed, rate limited) changes nothing; the
\* reconciliation skips the chunk.
CallFails ==
    \E c \in calls :
        /\ calls' = calls \ {c}
        /\ hydrating' = IF c.kind = "hydrate" THEN FALSE ELSE hydrating
        /\ recon' = IF c.kind = "eod"
                      THEN Recon(recon.due, "fetch", recon.todo, recon.official, recon.got)
                    ELSE recon
        /\ UNCHANGED <<now, tape, trades, eod, ws, mem, prices, open>>

--------------------------------------------------------------------------------
(* The watchlist's prices: one run at a time, in chunks. *)

Runs == (IF prices.busy THEN 1 ELSE 0) + (IF recon.phase = "idle" THEN 0 ELSE 1)

\* A caller that finds a run under way shares its promise.
FetchPrices ==
    /\ ~prices.busy /\ Runs < MaxRuns
    /\ prices' = [busy |-> TRUE, todo |-> {Norm[k] : k \in Keys}, got |-> NoQuotes]
    /\ UNCHANGED <<now, tape, trades, eod, ws, mem, calls, hydrating, open, recon>>

\* One chunk (here a symbol) is answered, or stays unresolved after its retries.
FetchChunk(k) ==
    /\ prices.busy /\ k \in prices.todo
    /\ \E answered \in BOOLEAN :
         prices' = [prices EXCEPT
            !.todo = @ \ {k},
            !.got = [x \in Keys |-> IF answered /\ x \in Aliases[k]
                                    THEN Answer({k}, "bare")[k] ELSE @[x]]]
    /\ UNCHANGED <<now, tape, trades, eod, ws, mem, calls, hydrating, open, recon>>

\* The collected quotes replace the watchlist's rows, go to the market store as
\* polls, and from the terminal page to the holdings.
CommitPrices ==
    /\ prices.busy /\ prices.todo = {}
    /\ LET watched == setPrices(mem, [k \in Keys |-> prices.got[k].v], "poll")
           stored == batchUpdateQuotes(watched, prices.got, "poll")
       IN  mem' = applyLiveQuotes(batchUpdateQuotes(stored, stored.watch, "poll"), stored.watch)
    /\ prices' = [busy |-> FALSE, todo |-> {}, got |-> NoQuotes]
    /\ UNCHANGED <<now, tape, trades, eod, ws, calls, hydrating, open, recon>>

--------------------------------------------------------------------------------
(* The session closes or opens; the close asks for a reconciliation. *)

SessionChanges ==
    /\ open' = ~open
    /\ recon' = IF open
                THEN Recon(TRUE, recon.phase, recon.todo, recon.official, recon.got) ELSE recon
    /\ UNCHANGED <<now, tape, trades, eod, ws, mem, calls, hydrating, prices>>

\* The debounce timer: a request is lost when a run is under way, and a run does
\* not start while the session is open.  No caller gives the reason "manual",
\* which would skip this check.  Nothing looks at the session again.  The symbols
\* to ask for are collected behind the next await; without one only the ticker
\* is left.
executeReconciliation ==
    /\ recon.due = TRUE /\ (recon.phase = "idle" => Runs < MaxRuns)
    /\ \E symbols \in {{}, {Norm[k] : k \in Keys}} :
         recon' = IF recon.phase # "idle" \/ open
                  THEN Recon(FALSE, recon.phase, recon.todo, recon.official, recon.got)
                  ELSE Recon(FALSE, "fetch", symbols, "none", NoQuotes)
    /\ UNCHANGED <<now, tape, trades, eod, ws, mem, calls, hydrating, prices, open>>

\* One chunk (here a symbol) at a time; the backend answers for every spelling.
fetchBatchQuotes(k) ==
    /\ recon.phase = "fetch" /\ k \in recon.todo
    /\ recon' = Recon(recon.due, "chunk", recon.todo \ {k}, recon.official, recon.got)
    /\ Call("eod", Aliases[k])
    /\ UNCHANGED <<now, tape, trades, eod, ws, mem, hydrating, prices, open>>

\* Quotes that are not official are skipped.
ChunkAnswers ==
    \E c \in calls, marked \in OfficialAnswers :
        /\ c.kind = "eod"
        /\ LET official == IF recon.official # "none" THEN recon.official
                           ELSE IF c.official = TRUE THEN "yes" ELSE "no"
               got == [k \in Keys |-> IF c.quotes[k].v # 0 /\ isOfficialBackendQuote(marked, official)
                                      THEN c.quotes[k] ELSE recon.got[k]]
           IN  recon' = Recon(recon.due, "fetch", recon.todo, official, got)
        /\ calls' = calls \ {c}
        /\ UNCHANGED <<now, tape, trades, eod, ws, mem, hydrating, prices, open>>

\* The stamped quotes stay in the cache of end-of-day prices.
stampEODQuotes ==
    /\ recon.phase = "fetch" /\ recon.todo = {}
    /\ eod' = [k \in Keys |-> IF recon.got[k].v = 0 THEN eod[k] ELSE recon.got[k].v]
    /\ recon' = Recon(recon.due, "stamped", {}, "none", recon.got)
    /\ UNCHANGED <<now, tape, trades, ws, mem, calls, hydrating, prices, open>>

\* They overwrite every store, ticks a moment old included; then the run asks for
\* the ticker (its items are not modelled) and ends, whatever comes of that.
applyToStores ==
    /\ recon.phase = "stamped"
    /\ LET stored == batchUpdateQuotes(mem, recon.got, "eod")
           watched == updatePrices(stored, [k \in Keys |-> recon.got[k].v], "eod")
       IN  mem' = applyLiveQuotes(watched, recon.got)
    /\ recon' = Recon(recon.due, "ticker", {}, "none", NoQuotes)
    /\ UNCHANGED <<now, tape, trades, eod, ws, calls, hydrating, prices, open>>

reconcileTickerAndIndices ==
    /\ recon.phase = "ticker"
    /\ recon' = Recon(recon.due, "idle", {}, "none", NoQuotes)
    /\ UNCHANGED <<now, tape, trades, eod, ws, mem, calls, hydrating, prices, open>>

--------------------------------------------------------------------------------
Next ==
    \/ Tick \/ ReceiveTick \/ ConnectAndHydrate \/ Disconnect
    \/ \E s \in Symbols : Trade(s)
    \/ \E k \in {Norm[x] : x \in Keys} : PollQuote(k) \/ FetchChunk(k)
    \/ HydrateAnswers \/ QuoteAnswers \/ PollHoldings \/ HoldingsAnswer \/ CallFails
    \/ FetchPrices \/ CommitPrices
    \/ SessionChanges \/ executeReconciliation
    \/ \E k \in Keys : fetchBatchQuotes(k)
    \/ ChunkAnswers \/ stampEODQuotes \/ applyToStores \/ reconcileTickerAndIndices

Spec == Init /\ [][Next]_vars
--------------------------------------------------------------------------------
\* The type invariant of the quote pipeline.
TypeOK ==
    /\ now \in 1..MaxTime /\ trades \in 0..MaxTrades
    /\ tape \in [Symbols -> Quotes]
    /\ ws.up \in BOOLEAN /\ Len(ws.queue) <= MaxQueue /\ (ws.queue # <<>> => ws.up)
    /\ mem.auth \in [Keys -> [v : 0..MaxTrades, ts : 0..MaxTime, seq : Nat, src : Sources]]
    /\ mem.store \in [Keys -> [v : 0..MaxTrades, src : Sources, at : 0..MaxTime]]
    /\ mem.watch \in [Keys -> [v : 0..MaxTrades, src : Sources]]
    /\ mem.marks \in [Held -> 0..MaxTrades] /\ eod \in [Keys -> 0..MaxTrades]
    /\ hydrating \in BOOLEAN /\ open \in BOOLEAN
    /\ recon.due \in BOOLEAN /\ recon.phase \in Phases /\ recon.todo \subseteq Keys
    /\ prices.todo \subseteq Keys /\ (prices.todo # {} => prices.busy)

\* The authority never goes back to an older trade, however late the answer of
\* a hydration or a queued tick comes in, while the quotes carry the exchange
\* time (shouldAccept compares times, then sequence numbers).
AuthorityNeverRewinds ==
    [][\A k \in Keys : mem.auth[k].ts # 0 /\ mem'.auth[k].ts # 0
                        => mem'.auth[k].v >= mem.auth[k].v]_vars

\* A tick the authority accepts shows in the market store, the watchlist and the
\* portfolio at once: no screen is left on an older price by a protected row, a
\* poll's row or a spelling of the symbol (QuoteSynchronizationEngine).
TickReachesEveryStore ==
    [][\A k \in Keys :
        mem'.auth[k] # mem.auth[k] /\ mem'.auth[k].src = "live"
        => \A a \in Aliases[k] :
             /\ mem'.store[a].v = mem'.auth[k].v
             /\ mem'.watch[a].v = mem'.auth[k].v
             /\ a \in Held => mem'.marks[a] = mem'.auth[k].v]_vars

\* The spellings of a symbol never show different prices, although ticks, polls,
\* chunks of a watchlist and reconciliations write them under different keys.
SpellingsAgree ==
    \A k \in Keys : \A a \in Aliases[k] :
        mem.store[a].v = mem.store[k].v /\ mem.watch[a].v = mem.watch[k].v

\* What shuts the door behind a request is there exactly while the request is
\* under way, through failures and reconnects: hydration and reconciliation
\* never wait for an answer that cannot come, and never run twice at a time,
\* although a run of the reconciliation asks several times.
NoStuckGuards ==
    LET under(kind) == {c \in calls : c.kind = kind}
    IN  /\ hydrating <=> under("hydrate") # {}
        /\ recon.phase = "chunk" <=> under("eod") # {}
        /\ Cardinality(under("hydrate")) <= 1 /\ Cardinality(under("eod")) <= 1

\* The official prices of a run reach the market store, the watchlist and the
\* holdings under every spelling, and the screens resolve to them, whatever
\* ticks, polls and sessions came between its chunks: no row a tick has just
\* protected keeps its price (applyToStores).
OfficialReachesEveryStore ==
    [][recon.phase = "stamped" /\ recon'.phase = "ticker" =>
        \A k \in Keys : recon.got[k].v # 0 =>
            \A a \in Aliases[k] :
                /\ mem'.store[a].v = recon.got[k].v /\ mem'.watch[a].v = recon.got[k].v
                /\ a \in Held => mem'.marks[a] = recon.got[k].v
                /\ resolveSymbolPrice(mem', eod', a) = recon.got[k].v]_vars
================================================================================
