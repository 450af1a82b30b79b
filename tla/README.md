# AlphaSync in TLA+

AlphaSync is a paper-trading platform: a FastAPI backend that simulates orders
against quotes of a delayed market feed and keeps portfolios in PostgreSQL, and a
React application in the browser. This directory holds TLA+ models of the parts of
the backend that own money, positions and events, and of the browser application:
how it keeps quotes, sockets and sessions, and what each of its pages does while
its calls are under way. TLC checks small instances; TLAPS proves some of the
properties for all of them.

`PROJECT.json` lists the components, the runs, for every definition the lines it
models, the hazards of the code with the properties about them, and for every
property a mutant of the model that violates it.

## 1. Inventory

### Backend

| Part | State | Operations | What makes it correct |
|---|---|---|---|
| Order placement and fills (`services/trading_engine.py`) | `orders`, `holdings`, `portfolios`, `transactions` rows; a dictionary of asyncio locks | `place_order`, `cancel_order`, `check_pending_orders`, `_update_portfolio_on_fill` | holdings are the sum of the transactions; money is neither created nor lost; delivery shares are not sold short; exits only reduce |
| Order worker (`workers/order_worker.py`) | the same rows; last tick per symbol | tick evaluation, expiry sweep | one leg of a bracket fills; an order is filled once; a fill uses its reservation |
| Order routes (`routes/orders.py`) | none | create, list (evaluates open orders first), cancel, PATCH, close-all | each request ends; close-all leaves nothing open |
| Risk engine (`engines/risk_engine.py`) | limits, kill-switch flags | `validate_order`, `update_limits` | entries respect the limits, exits are not blocked by them |
| Portfolio service (`services/portfolio_service.py`) | writes `portfolios` while reading | `get_portfolio_summary` | a read changes no money |
| Unit of work, outbox, relay, event bus (`app/`) | `outbox_messages` rows, events recorded on aggregates | commit, rollback, `relay_once`, `publish` | an event not interrupted is run by every subscriber and marked; what is delivered again, and in which order, after a crash |
| Open lots (`routes/portfolio.py`) | none | `get_open_lots` | lots are the newest units of the side held and add up to the holding |
| Square-off worker, portfolio worker, in-process event bus | once-a-day flag; bounded queue | close MIS, push snapshots, dispatch | not modelled, see section 6 |
| Futures (`services/futures_trading_service.py`, three workers) | positions, margins | order, fill, expiry, margin call | not modelled |
| Market data, providers, replay, quote coordination, data layer | feed sessions, caches, clocks, queues | subscribe, publish, freshness | not modelled |
| Algo engine, ZeroLoss controller | running strategies, their positions | start, stop, halt outside the session, tick | a stop closes, a halt keeps the position; modelled as far as the pages meet it, not the decisions |
| Accounts, OTP, administration, academy | user rows, codes | request handlers | not modelled; their pages are |

### Browser application

| Part | State | Operations | What makes it correct |
|---|---|---|---|
| Quotes (`market-v2/`, `store/useMarketStore.js`, `market/`) | the quote authority; market, watchlist and portfolio stores; guards of requests under way | tick, hydration after a reconnect, polls, watchlist chunks, end-of-day reconciliation | an older price never replaces a newer one; every store shows the tick, or the official price, under every spelling of the symbol |
| Sockets (`hooks/useWebSocket.js`, `useFuturesStream.js`, `useOptionsChainLive.js`) | socket, timer, backoff and queue per use of the hook; a send function shared through module variables; what each page counts as subscribed | connect, break, reconnect, subscribe, navigate | a hook is never left without socket and timer; pages leave no streams behind; the shell reconnects |
| Session and guards (`stores/useAuthStore.js`, `App.jsx`, sign-in pages) | token, profile, cookie, copy in the store | sign in, register, renew, switch tenant, log out | who is inside is who the token says |
| Orders (`OrdersPage.jsx`, `OrderPanel.jsx`, `usePortfolioStore.js`, `tradeLots.js`, the bell of `Navbar.jsx`) | the orders fetched, a snapshot per optimistic cancel, forms, lots, notices | list, cancel, edit, submit, work out lots and realized P&L | a failed cancel is not shown as done; one order per click; lots and P&L add up |
| Charts and lists (`LiveChart.jsx`, `useMarketData.js`, `MarketPage.jsx`, `useWatchlistStore.js`, search, dashboards, commodities) | candles, cache, bars, lists in memory, storage and server | fetch, retry, abort, draw, add, remove, roll back, search | what is shown belongs to what is selected; bars are in order |
| Futures and options terminals | selection, contract lists, chain, ticket, margin, positions kept across reloads | select, order, kill, load | the margin shown is that of the order; late chains do not select |
| Strategies (`strategy/`, `AlgoTradingPage.jsx`, `ZeroLossPage.jsx`, `AIMentorPage.jsx`) | enabled strategies, engine result in a store, toggles, conversations | evaluate, toggle, ask | the bias is that of the strategies behind it; a toggle is not sent twice |
| Settings and feedback | profile form, photo kept three times, balance, preferences | save, upload, reset, rate, report | nothing stays busy; what is shown is what is stored |
| Administration and academy | lists, dialogs, one shared refresh | filter, change, refresh, export | with nothing under way the lists are the server's, at the latest after the next refresh |

How they interact: a quote arrives from the feed and is put on the in-process event
bus; the order worker consumes it and evaluates the open orders of the symbol; a
fill changes order, holding and portfolio in one database session and emits an
event for the WebSocket. User requests reach the same tables through the routes,
concurrently with the worker and each other. In the browser, ticks go through the
quote authority into three stores, which polls write as well; pages call the API
and are overtaken by the user, by timers and by each other's answers. The rewrite
under `app/` has its own bus and outbox and is not connected to the old bus.

What is hard: handlers that interleave at every `await` and share rows, with
sessions that keep stale objects (`expire_on_commit=False`, and `FOR UPDATE` does
not refresh what a session has loaded); two kinds of locks, of which the database
sees only one; loops over a list of orders read once; reservations that several
handlers take and release; crashes between a commit and what follows it. In the
browser: answers that come late, never or in another order, optimistic changes
rolled back over newer ones, flags shared by several calls, effects and timers
that see the state of an earlier rendering, and state that survives a reload
beside state that does not. The list `hazards` names them at their lines.

## 2. Modules

| Module | Models | Checked by |
|---|---|---|
| `PortfolioLedger` | the arithmetic of one fill and the normalisation of cash | `ledger` |
| `TradingEngine` | orders, holdings and cash of one user and symbol under every handler of the cash segment, one handler at a time | `ledger`, `brackets`, `delivery`, `claim_reservation` |
| `TradingProofs` | types, positions and delivery; exits, brackets and kill switch; the books: profit, cost, cash and rounding; for all constants | TLAPS |
| `FillLocks` | placement, tick, GET /orders, cancel and close-all interleaved at their awaits: locks and stale session objects | `locks` |
| `FillLocksProofs` | its invariants for every number of handlers | TLAPS |
| `Outbox` | unit of work, outbox rows, relay and event bus, with crashes and failing updates | `outbox` |
| `OutboxProofs` | its safety and its refinement of `EventDelivery` for all constants | TLAPS |
| `EventDelivery` | what the outbox promises, abstractly | refined by `Outbox` |
| `FrontendQuotes` | the quotes of the browser, from the tape to the stores | `quotes` |
| `FrontendQuotesProofs` | order of the authority, agreement of stores and spellings, flags, for all constants | TLAPS |
| `MarketSocket` | the market sockets of a tab and the subscriptions of its pages | `sockets`, `claim_realtime` |
| `MarketSocketProofs` | connections and streams for all constants | TLAPS |
| `Pages` | the pages and widgets below, one mounted at a time | `pages` |
| `FormPages` | those of them that submit something: their states, steps and `OneSubmission` | `pages` |
| `UserPageProofs`, `FormProofs` | their submissions for all constants: session, orders, terminals and settings; administration, academy and all together | TLAPS |
| `PageCalls` | the HTTP calls of a page and what the backend may do with them | used by the pages |
| `SessionPages` | sign-in, profile, route guards, logout | `pages` |
| `OrdersPage`, `OrderPanel`, `TradeLots` | order list, order ticket, open lots and realized P&L | `pages` |
| `Navbar` | the search with the add-symbol dialog; the bell | `pages` |
| `ChartData`, `LiveChart`, `Watchlists`, `Commodities`, `Dashboards` | candles, bars, watchlists, commodities, home pages and market overview | `pages` |
| `FuturesPage`, `FuturesWatchlists`, `OptionsPage` | derivative terminals and their lists | `pages` |
| `OptionsPositions` | paper option orders and positions across reloads | `claim_option_ids` |
| `StrategyDock`, `AlgoPage`, `ZeroLossPage`, `MentorPage` | strategies of the chart, strategies run by the backend, the AI mentor | `pages`, `claim_badge` |
| `ProfileSettings`, `AccountSettings`, `UserFeedback` | settings and feedback | `pages` |
| `AdminAccounts`, `AdminLists`, `InstitutionsPage`, `AdminForms`, `AcademyPages` | administration and academy | `pages` |
| `MC*` | constants of the runs | |

### TradingEngine and PortfolioLedger

`db` is the committed database: a fixed number of order rows, one holding record
per product type (CNC, MIS, NRML), `available_capital`, `total_pnl`, and sums over
the transactions. `price` is the latest quote. A handler that loops over orders
(tick, GET /orders, expiry, kill switch) copies `db` into `sess`, handles one order
per step in any order, and commits at the end; a handler without a loop is one
step. The kill switch commits each cancellation, as `cancel_order` does, and reads
what is held after those commits (`ReadHoldings`). The tick commits only if it filled something, like the code. The expiry
sweep takes a set of open orders that is closed towards older ones. An action is
the whole handler: `PlaceOrder` validates, risk-checks, reserves or fills, creates
the bracket legs, cancels orphaned exits and normalises the cash.

Money is counted in hundredths, and quotients are rounded when they are stored, as
the `Numeric(_, 2)` columns do. History fields (`net`, `cash`, `by`, `edited`,
`scaledIn`, `polled`, and `dust`, what the fills so far may have lost or gained by
rounding) are read by properties only.

Handlers are serialised here, so that this module says nothing about an order that is
cancelled or filled between a handler's read and its write: no property of it is about
the finality of a status. That, and the columns that overlapping handlers lose, is what
`FillLocks` is for.

### FillLocks

Each handler is a process that goes through its awaits. `row` and `orow` are the
PostgreSQL locks on the portfolio and the order, `mem` is the asyncio lock of the
holding. `cache[p]` is what the ORM session of `p` has loaded. `role` is chosen at
the start, in every combination; of several ticks one runs at a time, because the event
bus hands the worker one price after another. No handler looks at the status of the
order again after its first read, so that a tick fills an order that was cancelled or
filled meanwhile: `filled` keeps who has committed a fill of the resting order, and
`SecondFillIsAPoll` bounds the damage. A kill switch loads the portfolio, cancels with a
commit of its own, reads the holdings without a lock and closes them by a placement
whose SELECT FOR UPDATE does not refresh what the session has: `old` and `lost` are
history, whose copy of which column is out of date and which was written back like that.
The database's deadlock detector is `AbortDeadlocked`.

### Outbox and EventDelivery

A worker is a unit of work or a relay. `CommitUnit` writes all rows at once;
`BeginPublish`, one `SubscriberEnds` for each subscriber and a mark follow for each
event. `Crash` forgets everything but the rows, `MarkRaises` is a failing UPDATE.
The order of `created_at_utc` is the recorded order within a unit and open between
units. `attempts` and `last_error` are left out: nothing reads them. Nothing in the
program starts `OutboxRelay` (the docstring of `commit` says it may be run
periodically), so that a relay may take steps and is never required to. FAILED rows are
not retried, and a handler that raises counts as having run, as in the code.

`EventDelivery` knows only which events are committed, which subscribers have run
and which events are settled. `ImplementsDelivery` states the refinement: committed
events are those with a row, settled are those marked.

### FrontendQuotes

A quote is the number of the trade it reports. `tape` is the market; `ws.queue`
holds ticks on their way; `calls` holds REST requests with the prices they were
answered with, so that an answer can be late. `mem` has the authority, the market
store, the watchlist and the marks of the holdings, and `eod` the end-of-day cache, each
under the keys the code uses (`RELIANCE`, `RELIANCE.NS`). Accepting or refusing a quote
compares times, sequence numbers and source ranks, and a row written by a tick is
protected from polls for a while (`Protect`). The loop of the code over a batch and over
the spellings of each of its symbols is one operator that says which rows end up with
which price (`Spread`, `Free`, `Written`): `updateQuote` decides symbol by symbol whether
anything changed, `batchUpdateQuotes` once for the whole batch. A tick carries the source its
quote names (`TickSources`), `live` where it names none.

The reconciliation is a run with its awaits: the look at the session comes first
(`executeReconciliation`), then the symbols, one chunk after another
(`fetchBatchQuotes`, `ChunkAnswers`), the stamp of the end-of-day cache, the write to the
stores, and the ticker, with its flag held to the end; the session may open, and ticks
and polls may come, between any two of them. The first envelope that is answered decides
for the whole run whether quotes without a mark of their own count as official. No
caller gives the reason `manual`, which would skip the look at the session.

### MarketSocket

`conn` has the refs of every use of the hook: the shell's, which lives as long as
the session, and that of a market page. `bridge` is the module variable with the
send function registered last, through which the futures and options pages
subscribe; `futSubs` and `optSubs` are what they believe to have subscribed. A queue
is kept as what it adds up to, because it is only sent on a fresh connection.

### Pages

`page` says which page or widget is mounted, `ui` is its state. The pages share the
backend and the stores, and each is unmounted when another is shown; one at a time
is what the router does, and a widget that is always there (bell, search, feedback
star) shares no state with the page beside it. A page's record has its React state,
its refs, the calls under way, and what the backend has of the things the page is
about. `PageCalls` gives every call its slot: the backend may refuse it, serve it
and answer, or serve it and have the answer lost, because the client gives up after
15 seconds (30 for a few calls); answers arrive in any order, also after the dialog that asked is closed.
Each `...Answers` action is the whole continuation of a handler after its `await`. What
the backend does with a call (`Effect`, `Possible`, `Got`) is mapped to its route.

`Watchlists` has the lists three times: in memory, in the browser's storage and on the
server. `loadWatchlist` puts the stored lists in memory before it asks; an empty answer
makes a default list by another call; a failed load leaves what was stored, or makes a
local list where nothing was. Two calls overlap and restore each other's snapshots. Whether
the backend makes a missing default list at a load is left open. In `AdminAccounts` the
parts of a refresh are served and come in one by one; each may fail, and a denial (401,
403) closes the dialogs and leaves the page, which may be opened again. `ZeroLossPage`
has the backend's part too: outside the session the worker halts the strategy and keeps
its position, and a toggle first switches it off and is then refused, so that a stop
after the close leaves the position open.

`ShownIsTrue` of a page says what its screen claims. `LiveChart` keeps the chart as
what it is in the code, a mutable object that the effects of each commit bring up to
date in the order they are written. `StrategyDock` follows the five registered
strategies from indicator readings to opinions and the engine that weighs them.
Confidence is integer arithmetic with rounding; where floating point decides (a
score of exactly the threshold, a half), both outcomes are possible. `TradeLots`
checks the lots of the page, those of the server and the P&L of the order list
against definitions that do not match fills one by one.

## 3. Runs

| Run | Instance | Shows |
|---|---|---|
| `ledger` | 4 orders out of 9 requests, 2 quotes, kill switch, summaries | `PositionIsNetOfTransactions`, `CashConserved`, `CashNeverInvented` through averaging, partial closes, shorts and flips; `KillSwitchFlattens` |
| `brackets` | a bracket with its legs, two more orders, 3 quotes, polls and edits | `OneLegFills`, `ExitsOnlyReduce` |
| `delivery` | 3 delivery orders, 3 quotes, poll, edit, cancel, expiry | `TypeOK`, `DeliveryNeverShort` |
| `locks` | 3 handlers in every mix | `NoLostHolding`, `SecondFillIsAPoll`, `CapitalExact`, `OnlyPollDeadlocks`, `FinishWithoutPoll` |
| `outbox` | 2 units (2 events and 1), 1 relay, 2 subscribers, 1 crash, 1 fault | `PublishedMeansRun`, `OnceUnlessRecovered`, `RecordedOrder`, `MarksAreFinal`, `SettledUnlessInterrupted`, `ImplementsDelivery` |
| `quotes` | one share with two spellings, 2 trades, 2 calls under way | `AuthorityNeverRewinds`, `TickReachesEveryStore`, `OfficialReachesEveryStore`, `SpellingsAgree`, `NoStuckGuards` |
| `sockets` | two symbols, two contracts, one option leg, three routes | `NeverWedged`, `NoLeakedStreams`, `ShellReconnects` |
| `pages` | 31 pages and widgets with two or three calls under way | `NothingLocked`, `OneSubmission`, and what is shown: `OrdersShown`, `ChartsShown`, `StrategiesShown`, `AccountShown`, `AdministrationShown` |
| `claim_reservation` | one resting BUY | the reservation is not released when the order fills |
| `claim_realtime` | as `sockets` | the selected contract loses its stream |
| `claim_option_ids` | 3 orders, reloads | two positions get the same id, and closing one removes both |
| `claim_badge` | the five strategies | the badge of the chart keeps the bias of the symbol left |

The last four are expected to be violated: each states a line of the repository that
the code does not keep, quoted under `findings`. A further disagreement needs no run:
the header of `strategyEngine.js` asks for a score beyond 0.40 and three opinions, its
inner comment for two, the footer of the dock for 0.3; the code takes 0.15 and one.

### Bounds

`MaxOrders` limits the order table. Four orders are enough for every branch of a
fill to follow every other (open, average, reduce, flip, close), five for a bracket
with both legs and two orders around it. Quotes are far apart, so a wrong amount is
larger than what rounding may move (`dust`). `MaxCrashes` and `MaxFaults` are one each: a worker can
be interrupted at any point, and the recovery itself by the other kind of failure.

In the browser, `MaxCalls` is the number of calls of a page under way: two make every
order of a pair of answers possible, and `ManyCalls` is three where a change, its
refresh and a poll meet. Two symbols, periods, users or lists are enough for an
answer to belong to the one that was left. Particular bounds: the search has one call
under way, commodities too; a visit to the watchlists begins three calls (`MaxSends`), two of them
at a time, and changes the entries of one list of the server (no property is about the
entries of a local list); the open lots see three
fills of at most two shares, at most one of them during a refresh; P&L is checked for
every sequence of those with two prices; the chart has two bars, two periods and six
prices; the mentor has two conversations of three messages; the dock has for each
strategy one weak reading and for two of them a strong one, with their mirror images,
and one opinion changes at a time, while the strategies themselves are checked on both
sides of every threshold. `MaxBackoff` and `MaxGhosts` are one: whether the wait is
the longest and whether a given-up socket is still due are all that matters.

Deadlock is checked in `sockets`, `pages`, `claim_realtime` and `claim_option_ids`. In
the others orders, handlers, events or trades run out, which is how these systems
stop. No symmetry is used: the runs with liveness need all states, and the values of
the pages play different roles.

`MaxRuns` is one: a poll of the watchlist and a reconciliation, which both ask chunk by
chunk, do not overlap in `quotes`; the proofs cover any number of runs.

### Fairness

`FillLocks`: each handler is a task of the event loop and goes on when it can (weak
fairness of each handler); the detector belongs to the handler it ends. `Outbox`:
weak fairness of each unit of work and of its subscribers, which are tasks of the event
loop; none of the relay, which nothing runs. Crashes and faults are never required.
`SettledUnlessInterrupted` therefore claims nothing of an event whose unit was
interrupted. `MarketSocket`: the reconnect timer of the shell fires (weak), and a server
that is asked again and again answers once (strong fairness of `Opened`), without
which no client can promise anything. `TradingEngine`, `FrontendQuotes` and `Pages`
have no liveness property: that a spinner ends is stated as `NothingLocked`, which
finds a call or a timer that ends it in every state.

### Conditions in the properties

Some properties carry a condition because the code does not keep the stronger
statement. Each of these was seen as a counterexample of the unconditional form:

- GET /orders (`check_pending_orders`) fills without the holdings checks and
  without cancelling the other leg, so `DeliveryNeverShort`, `OneLegFills` and
  `ExitsOnlyReduce` except its fills. It also writes back a stale portfolio, as do
  `cancel_order` and the kill switch: the condition of `CapitalExact`.
- The kill switch reads the holdings before it has their lock: a fill committed in
  between is lost, the condition of `NoLostHolding`.
- The worker fills orders of a list it read before; with a GET /orders at the same time
  the order is filled twice: the condition of `SecondFillIsAPoll`.
- Selling on top of a short books a profit although nothing is closed: the
  condition `~db.scaledIn`.
- A summary of a flat account, a fill by the worker and a PATCH leave
  reservations and cash inconsistent: `CashNeverInvented` is stated for accounts
  without resting BUY orders.
- `_cancel_orphaned_exit_orders` ignores the product type, and is not called when a
  SELL turns a long into a short.
- The kill switch closes a position by an order that has to pass the risk limits, and
  a refusal is reported and skipped. `KillSwitchFlattens` excepts the positions they may
  refuse (`Unclosable`): larger than one order may be, or a short that costs more to buy
  back, at some quote, than one trade may.
- Quotes without an exchange time are accepted by arrival: `AuthorityNeverRewinds` is
  about those that have one.
- Few pages order their answers or drop late ones. Where a page does not, its
  state has a history field (`raced`, `crossed`, `overlap`, ...) that is set when two
  calls overlapped in that way or one failed, and `ShownIsTrue` excepts exactly that.
  The comment at each property names the exception: two overlapping cancels restore
  each other's snapshots, overlapping changes of the capital clear each other's mark,
  a late option chain replaces that of the new underlying, a lookup skipped by the rate
  limit leaves the dialog's spinner of a cancelled one, a photo dropped during an upload
  is undone with it, and a sign-in answered during the calls of the session before it
  mixes the two. Such a property does not catch the hazard it excepts, and `hazards`
  says so.
- Three pages recover by themselves, and there the exception ends where the code makes
  it good: the control centre with the next refresh that comes through alone, ZeroLoss
  with the next status asked for alone, the watchlists with a load that nothing overlaps
  (`raced`, `stale`, `sync`).

## 4. Proofs

`FillLocksProofs` proves `TypeOK`, `NoLostHolding`, `SecondFillIsAPoll` and
`CapitalExact` for any set of handlers and any integer quantities, costs and capital; the only assumption is
`LocksAssumption` (the amounts are integers, `NoProc` is not a handler).
`NoLostHolding` is not inductive: that the committed holding is the sum of the
transactions says nothing about what a handler is about to write. The inductive
invariant `IInv` adds that

- whoever has passed the point where its role takes the portfolio row
  (`HasRow`) is the holder of the row (`RowExclusive`), and who reads what it will
  write behind that lock has copies that no commit has overtaken (`LockedLoadsFresh`);
- a copy that no commit has overtaken is the committed value, but for the fill already
  applied to it (`CopiesFresh`);
- each point belongs to certain roles (`Points`).

The proof has one case per action. A commit is the interesting one: it makes every other
copy old, and what it writes from an old copy goes into `lost`. `SecondFillIsAPoll` needs
`FillInv`: a tick under way is the only one, and has read the order while nobody had
filled it but a GET /orders.

`TradingProofs` proves `TypeOK`, `PositionIsNetOfTransactions` and
`DeliveryNeverShort` for any number of order rows, any requests, edits and quotes
and any limits, from `ConstantsAssumption`. It follows the calls of the code:
`FillEffect` is the arithmetic (long, short, reduced, closed and flipped positions
change by exactly the shares traded), each engine function gets a lemma that says
whether it leaves positions alone (`SameHoldings`) or moves one (`Moved`), each
handler one that composes them. The invariant `IInv` is needed because a looping
handler commits its copy of the database at the end: the properties have to hold of
`sess.st` too, the orders it has yet to handle must exist and be of at least one
share, and the kill switch must have room for the orders it will place
(`RoomToClose`). What keeps delivery from being shorted differs per handler: the
capital check or the exit check of placement (`PlacementDelivers`), `HoldingCovers`
at a tick; GET /orders has neither, which is the condition of the property.

`FillLocksProofs` also proves `OnlyPollDeadlocks`. The model names the guard of each
step that may have to wait (`MayLockPortfolio`, `MayFlushOrder`, ...), and `CanStep` is
their disjunction: the property and the proof do without ENABLED, and on the instance
of `locks` the two were found to agree in every state. The invariant `LockInv` says
where the holder of each lock is in its handler. In a standstill the order row can then
only be held by a cancel or a GET /orders that waits for the portfolio row; the detector
breaks cycles of the two rows, and what is left is a cycle through the asyncio lock,
which the detector does not see.

The second part of `TradingProofs` proves `OneLegFills`, `ExitsOnlyReduce` and
`KillSwitchFlattens` from the same assumptions. They need
`OInv`, which was checked by TLC on the instances of `ledger`, `brackets` and
`delivery` first:

- `Book(db)` and `Book(sess.st)`: rows are used in the order they are inserted, a
  bracket that is not filled has its two rows free and its prices in order (`Layout`);
  legs of one bracket wait for quotes on opposite sides (`Apart`), and a fill of one of
  them other than by GET /orders has closed the other (`Legs`). Without `Layout` the
  insertion of legs could overwrite rows; without `Apart` one tick could fill both;
- `Waiting`: no order a loop has yet to handle is filled. It may have been cancelled
  on the way, which the worker does not look at again, so that it can fill a cancelled
  copy;
- `Fired`: if that is a leg whose other leg was filled in the same loop, the quote of
  the loop was the one that filled it: by `Apart` this leg is not due;
- `Flattening`: every open order is among those the kill switch has yet to cancel,
  every position among those it has yet to close or is `Unclosable`. Its closing
  orders pass the limit on open orders because all were cancelled before; that takes
  `MaxOpenOrders` to be positive (50 in `RiskLimits`, which nothing changes);
- `Linked`: what the loop has yet to handle is open in the database, and what is final
  there is so in the copy that will be committed.

Each function of the engine gets a lemma on the rows it turns, cancels or inserts
(`UpdateRows`, `WorkerRows`, `PlacedRows`, ...); `TurnedBook` and `BracketBook` show
that such changes keep `Book`; `OrdersPreserved` has one case per handler.

`OutboxProofs` proves all safety properties of `outbox` and the refinement, for any
units, events, relays, subscribers, batch limit and numbers of crashes and faults, from
`OutboxAssumption` (an event belongs to one unit and once, the limit is positive).
`PublishedMeansRun` needs that a publish under way has run whom it no longer waits for
(`RunOrWaited`); `RecordedOrder` that an event stands in a queue only behind its earlier
ones that are not settled (`EarlierFirst`), which a batch of the relay keeps because it
is sorted; `OnceUnlessRecovered` and `MarksAreFinal` that an event no relay fetched from
under another worker has one worker (`SoleWorker`, `FirstTime`). `KeepsThePromise` maps
every step to one of `EventDelivery` or to a stutter.

`MarketSocketProofs` proves `TypeOK`, `NeverWedged` and `NoLeakedStreams` for any
symbols, contracts, legs and bounds, from `SocketAssumption` (they are different names).
A cleanup only reaches the connection that has the bridge at that time, so that
`NoLeakedStreams` needs `OnlyByBridge`: no other connection has a contract or a leg.
The invariant is stated for one connection (`Sound`), and each operation of the hook
gets a lemma about it.

The third part of `TradingProofs` proves `CashConserved` and `CashNeverInvented`, again from
`ConstantsAssumption`. The tolerance is exact: `dust` counts one half unit for every
share of a position that a BUY averages and one unit for every intraday margin that is
split. Neither property is inductive, because a BUY stores the exact cost of the row
next to a rounded average (`Gap`), and the difference reaches the profit or the capital
only when a later sale, buy or summary works with the average. `Balanced` bounds what
was moved and what the rows still hide together; rows without shares hide nothing, and
the cost of a short is its average times its quantity (`RowsExact`). The lemmas follow
the calls: `FillBooks` is the arithmetic of one fill, case by case (buy back a part, buy
back all and more, average, sell a long, sell short); `FilledCarried` and
`UpdateCarried` add it up over the three rows and through `_normalize_available_capital`;
then one lemma per handler. `CInv` has it for the database and for the copy of a loop.

`FrontendQuotesProofs` proves every property of `quotes` for any symbols, spellings,
holdings, stamps and bounds, from `QuoteAssumption`. What that assumes of the spellings
is that they fall into instruments (the aliases of an alias are the same), which is true
of the NSE, the indices, the commodities and the contracts; the `.BO` spelling of a
share listed on both exchanges is left out, since its short name is also that of the
`.NS` one. The invariant `QInv` has three parts:

- `Typed`: the types, also of the calls, of the memory and of the ticks under way;
- `Alike`: the rows of the market store are the same under all spellings of an
  instrument (in time and source as well, since a poll is refused by them row by row),
  the prices of the watchlist too, and so are the answers and the collected chunks that
  are written to the watchlist key by key;
- `Chrono`: every stamped quote on the tape, on the socket, in an answer or in the
  authority is a trade of the past that carries its number, and of two the later has the
  higher number. This is why comparing times and then sequence numbers, as
  `shouldAccept` does, puts trades in order, whichever way they come.

`Ticked` says what a tick, written under up to three keys, may turn the memory into; it
composes (`TickedTwice`), so that the tick's last key cannot leave a store behind that
its first one wrote. A nonempty set of numbers has a greatest one (`GreatestNumber`) is
what the last trade under a key needs; it is derived from the well-foundedness of the
numbers. `NoStuckGuards` rests on `Guards`, which speaks of the calls one by one: a flag
is up, or a run waits for a chunk, while a call of the kind is under way, and there is
never a second one. `OfficialReachesEveryStore` follows the
writes of `applyToStores`: the protection of a ticked row does not hold against an
end-of-day price (`Protected`), and since the collected batch is the same under all
spellings (`Alike`), the decision whether anything changed, taken once for a batch,
leaves none behind.

`UserPageProofs` and `FormProofs` prove `OneSubmission` for the sixteen pages that submit
something, whatever their constants and however many calls may be under way (`FormsOnce`;
the underlying the futures terminal starts with must be one of them). The theorem is
about `FormSpec` of `FormPages`: one of these pages takes its steps, or any other page is
mounted and does what it likes. `Pages` starts and steps as `FormPages` does on these
sixteen pages, and keeps `page` on the others. That a button is disabled before its call
is sent and enabled when the call ends does not yet make the property inductive, because
answers come in any order, a dialog that closes leaves its call behind, and one handler
may make several calls in turn. Each page therefore has an invariant (`SessionInv`,
`OrdersInv`, ...) that relates a button to all the calls it stands for:

- most say `Guards(u, ops, x)`: at most one call is one of `ops`, and only while `x` is
  up; `ops` has every call of the handler, the fetch that follows the change too;
- in a dialog that may be closed it speaks of the calls that are `mine` (`Asked`, `Own`):
  those of a closed dialog go on, and are not counted;
- where two calls share a flag it holds until they have met, which is what the page
  records in `overlap`, `mixed`, `raced` or `shared`.

`CalledGuards`, `KeptGuards` and their kin say once and for all that a page that sends,
answers, follows or loses a call keeps `Guards`; a page has one lemma per group of
handlers. On the futures terminal `NothingLocked` and `ShownIsTrue` hold as well, for all
constants (`TerminalSafe`): a button is disabled exactly while its one post is under way
(`FuturesBusy` counts them), a spinner turns only while a call is under way that ends
it, and the only margin estimate under way is that of the contract and the lots shown
(`FuturesEstimated`), because every change of either aborts the one before.

Only model-checked, and why:

- `FinishWithoutPoll`, `SettledUnlessInterrupted`, `ShellReconnects`: liveness under fairness.
- the other properties of `Pages`. `NothingLocked` and what is shown are proved for the
  futures terminal only. Properties of `TradeLots` and `StrategyDock` are about folds over
  fills and readings, which is induction over data.

## 5. What could follow

`NothingLocked` of the sixteen pages asks for the converse of their invariants: a button is
up only while a call of it is under way. What is shown can be proved first where answers
are ordered by an abort or a request number (`OptionsPage`, the market overview of
`Dashboards`).

Hazards without a property say why in `PROJECT.json`: most are statements that are
false of the code as it is and contradict no documented promise.

## 6. Not modelled

Backend. The square-off worker places orders through the engine once a day; the
portfolio worker and the in-process event bus carry snapshots; futures trading is a
second ledger with floating-point margins; algo engine and ZeroLoss decide by numeric
signals. Replay, quote coordination, rate limiter and caches are driven by wall-clock
times. The market-session calendar and the indicators are formulas without state.
Providers, e-mail, Redis and the data layer are external services or I/O; the quote
they deliver is a variable. Administration, academy, mentoring and accounts are record
keeping: the calls of their pages are modelled, with an effect on the record and no more.

Browser. Layout, formatting, texts, animation and the arithmetic of the indicators.
Strategies that the engine does not register, drawing tools, horizontal lines and the
full screen of the chart. Progressive hydration of the options page, which is off by
default. The live profit and loss of the futures store. Code that nothing on screen
reaches: the root section of the control centre and its handlers (`AdminPanelPage.jsx`
434-762, data feed, credentials, history imports, resync, financials), the closed-session
price authority (`shouldUseRealtimePrices` is always true), `TradingTerminalPage`,
`DashboardPage`, the `AIMentor` widgets and the `useSearch` hook. `PortfolioPage`,
`LeaderboardPage` and the mode and phone pages read what the stores modelled here have,
or fetch once. React's StrictMode, which runs effects twice in development, and two
tabs that share the local storage.
