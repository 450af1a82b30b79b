----------------------------- MODULE MarketSocket -----------------------------
(* The market sockets of one browser tab. The shell keeps a socket for as long *)
(* as the user is signed in; the pages of the route "market" (dashboard and    *)
(* market page) open one of their own, with the same hook. The futures and the *)
(* options page have none: they send through a bridge, a module variable that  *)
(* holds the send function registered last.                                    *)
(* A message subscribes or unsubscribes topics. Those queued while a socket is *)
(* down meet a fresh connection, so that the queue is kept as what it adds up  *)
(* to: the set of topics a new connection has once they are sent in order.     *)
EXTENDS Integers

CONSTANTS
    Symbols,        \* market symbols
    Legs,           \* option legs, subscribed like symbols
    Contracts,      \* futures contracts
    Ladder,         \* the expiries of the selected underlying
    PageSymbols,    \* the sets of symbols a market page may show
    MaxBackoff,     \* doublings until WS_MAX_BACKOFF_MS
    MaxGhosts       \* sockets given up while connecting whose error event is due

Instances == {"shell", "page"}
Routes == {"market", "futures", "options"}
Topics == Symbols \cup Legs \cup Contracts

ASSUME SocketAssumption ==
    /\ Symbols \cap Contracts = {} /\ Symbols \cap Legs = {} /\ Legs \cap Contracts = {}
    /\ "none" \notin Contracts /\ Ladder \subseteq Contracts /\ PageSymbols \subseteq SUBSET Symbols
    /\ MaxBackoff \in Nat /\ MaxGhosts \in Nat

VARIABLES
    conn,       \* [Instances -> hook state]: the refs of each use of the hook
    status,     \* wsStatus of the market store, written by every instance
    bridge,     \* whose send function is registered, "null" for none
    ghosts,     \* sockets closed by an unmount while connecting
    route,      \* the page that is mounted
    tracked,    \* selected symbol, watchlist, holdings and ticker symbols
    shown,      \* symbols of the market page's overview
    terminal,   \* futures store: selected contract, open positions and orders, watchlist
    futSubs,    \* subscribedRef of useFuturesStream
    optSubs     \* subscribedRef of useOptionsChainLive
vars == <<conn, status, bridge, ghosts, route, tracked, shown, terminal, futSubs, optSubs>>

Conn == [mounted : BOOLEAN, sock : {"none", "connecting", "open", "closed"},
         timer : BOOLEAN, backoff : 0..MaxBackoff,
         server : SUBSET Topics, pending : SUBSET Topics]
Unmounted == [mounted |-> FALSE, sock |-> "none", timer |-> FALSE, backoff |-> 0,
              server |-> {}, pending |-> {}]
Terminal == [sel : Contracts \cup {"none"}, held : SUBSET Contracts, watch : SUBSET Contracts]
EmptyTerminal == [sel |-> "none", held |-> {}, watch |-> {}]

--------------------------------------------------------------------------------
(* Operations on the state c of one instance. *)

\* Sent at once on an open socket, queued otherwise.
send(c, add, del) ==
    IF c.sock = "open" THEN [c EXCEPT !.server = (@ \ del) \cup add]
    ELSE [c EXCEPT !.pending = (@ \ del) \cup add]

connectOnce(c) ==
    IF ~c.mounted \/ c.sock # "none" THEN c
    ELSE [c EXCEPT !.sock = "connecting", !.server = {}]

\* A socket that is open or on its way is kept.
connect(c) ==
    IF ~c.mounted \/ c.sock \in {"open", "connecting"} THEN c
    ELSE [c EXCEPT !.sock = "connecting", !.server = {}]

\* onopen: the queue is sent, then the tracked symbols are subscribed.
onopen(c, symbols) ==
    [c EXCEPT !.sock = "open", !.backoff = 0,
              !.server = c.pending \cup symbols, !.pending = {}]

oncloseUncapped(c) ==
    [c EXCEPT !.sock = "closed", !.timer = TRUE, !.server = {}, !.backoff = @ + 1]

oncloseNoTimer(c) ==
    [c EXCEPT !.sock = "closed", !.server = {},
              !.backoff = IF @ < MaxBackoff THEN @ + 1 ELSE @]

\* onclose: what the server knew of the connection is gone; a timer reconnects.
onclose(c) ==
    [c EXCEPT !.sock = "closed", !.timer = TRUE, !.server = {},
              !.backoff = IF @ < MaxBackoff THEN @ + 1 ELSE @]

--------------------------------------------------------------------------------
(* The bridges and what the pages send through them. *)

\* Without a registered function the message is dropped.
bridgeSend(cs, add, del) ==
    IF bridge = "null" THEN cs ELSE [cs EXCEPT ![bridge] = send(@, add, del)]

futuresWsSend(cs, add, del) == bridgeSend(cs, add, del)
optionsWsSend(cs, symbols) == bridgeSend(cs, symbols, {})
optionsWsUnsubscribe(cs, symbols) == bridgeSend(cs, {}, symbols)

\* Hot: the selected contract, the near expiries, positions and open orders;
\* warm: the watchlist and the ladder. There is no limit on either.
classifyContracts(t) ==
    LET ladder == IF t.sel = "none" THEN {} ELSE Ladder
        hot == ({t.sel} \cap Contracts) \cup t.held \cup ladder
    IN  [hot |-> hot, warm |-> (t.watch \cup ladder) \ hot]
wsContracts(t) == classifyContracts(t).hot \cup classifyContracts(t).warm

CleanupKeepsLegs ==
    CASE route = "futures" -> futuresWsSend(conn, {}, futSubs)
      [] route = "options" -> conn
      [] OTHER -> [conn EXCEPT !["page"] = Unmounted]

\* What the page that is left sends in its cleanup.
Cleanup ==
    CASE route = "futures" -> futuresWsSend(conn, {}, futSubs)
      [] route = "options" -> optionsWsUnsubscribe(conn, optSubs)
      [] OTHER -> [conn EXCEPT !["page"] = Unmounted]

\* What the page that is entered does when it mounts. The market page queues its
\* symbols; the futures page subscribes what its tiers say; the options page
\* waits for its chain.
MountPage(r, cs) ==
    CASE r = "market" -> [cs EXCEPT !["page"] =
             send(connect([Unmounted EXCEPT !.mounted = TRUE]), shown, {})]
      [] r = "futures" -> futuresWsSend(cs, wsContracts(terminal), {})
      [] OTHER -> cs

--------------------------------------------------------------------------------
\* The effects of a child run before those of the shell, which registers last;
\* the futures store is empty then.
Init ==
    /\ route \in Routes /\ tracked \in SUBSET Symbols /\ shown \in PageSymbols
    /\ terminal = EmptyTerminal
    /\ bridge = "shell" /\ ghosts = 0 /\ status = "connecting"
    /\ futSubs = {} /\ optSubs = {}
    /\ conn = [i \in Instances |->
                 IF i = "shell" THEN connect([Unmounted EXCEPT !.mounted = TRUE])
                 ELSE IF route = "market"
                 THEN send(connect([Unmounted EXCEPT !.mounted = TRUE]), shown, {})
                 ELSE Unmounted]

Opened(i) ==
    /\ conn[i].sock = "connecting"
    /\ conn' = [conn EXCEPT ![i] = onopen(@, tracked)]
    /\ status' = "connected"
    /\ UNCHANGED <<bridge, ghosts, route, tracked, shown, terminal, futSubs, optSubs>>

\* A connection fails or breaks: the error event, if any, and the close event.
Lost(i) ==
    /\ conn[i].sock \in {"connecting", "open"}
    /\ conn' = [conn EXCEPT ![i] = onclose(@)]
    /\ status' = "disconnected"
    /\ UNCHANGED <<bridge, ghosts, route, tracked, shown, terminal, futSubs, optSubs>>

Reconnect(i) ==
    /\ conn[i].timer
    /\ conn' = [conn EXCEPT ![i] = connect([@ EXCEPT !.timer = FALSE])]
    /\ status' = IF conn[i].sock = "closed" THEN "connecting" ELSE status
    /\ UNCHANGED <<bridge, ghosts, route, tracked, shown, terminal, futSubs, optSubs>>

\* The error handler, unlike the close handler, does not look whether its
\* component is still mounted.
GhostError ==
    /\ ghosts > 0 /\ ghosts' = ghosts - 1
    /\ status' = "error"
    /\ UNCHANGED <<conn, bridge, route, tracked, shown, terminal, futSubs, optSubs>>

TrackedChanges(symbols) ==
    /\ tracked' = symbols
    /\ conn' = [i \in Instances |->
                  IF conn[i].sock = "open" THEN send(conn[i], symbols, {}) ELSE conn[i]]
    /\ UNCHANGED <<status, bridge, ghosts, route, shown, terminal, futSubs, optSubs>>

\* A new overview unsubscribes the old symbols and subscribes the new ones.
OverviewChanges(symbols) ==
    /\ shown' = symbols
    /\ conn' = IF route # "market" THEN conn
               ELSE [conn EXCEPT !["page"] = send(send(@, {}, shown), symbols, {})]
    /\ UNCHANGED <<status, bridge, ghosts, route, tracked, terminal, futSubs, optSubs>>

\* The futures store changes; on its page the subscriptions are brought in line.
TerminalChanges(t) ==
    /\ terminal' = t
    /\ IF route = "futures"
       THEN /\ conn' = futuresWsSend(conn, wsContracts(t) \ futSubs, futSubs \ wsContracts(t))
            /\ futSubs' = wsContracts(t)
       ELSE UNCHANGED <<conn, futSubs>>
    /\ UNCHANGED <<status, bridge, ghosts, route, tracked, shown, optSubs>>

\* A chain with other legs, or another underlying, replaces the subscription.
ChainChanges(legs, underlying) ==
    /\ route = "options" /\ legs \cup {underlying} # optSubs
    /\ conn' = optionsWsSend(optionsWsUnsubscribe(conn, optSubs), legs \cup {underlying})
    /\ optSubs' = legs \cup {underlying}
    /\ UNCHANGED <<status, bridge, ghosts, route, tracked, shown, terminal, futSubs>>

\* The old page is cleaned up before the new one mounts. A page with a socket
\* takes the bridge when it comes and leaves it empty when it goes.
Navigate(r) ==
    /\ r # route /\ route' = r
    /\ conn["page"].sock = "connecting" => ghosts < MaxGhosts
    /\ ghosts' = IF conn["page"].sock = "connecting" THEN ghosts + 1 ELSE ghosts
    /\ LET left == IF route = "market" THEN "null" ELSE bridge
       IN  /\ bridge' = IF r = "market" THEN "page" ELSE left
           /\ conn' = IF r = "futures" /\ left = "null" THEN Cleanup ELSE MountPage(r, Cleanup)
    /\ status' = IF r = "market" THEN "connecting" ELSE status
    /\ futSubs' = IF r = "futures" THEN wsContracts(terminal) ELSE {}
    /\ optSubs' = {}
    /\ UNCHANGED <<tracked, shown, terminal>>

Next ==
    \/ \E i \in Instances : Opened(i) \/ Lost(i) \/ Reconnect(i)
    \/ GhostError
    \/ \E s \in SUBSET Symbols : TrackedChanges(s)
    \/ \E s \in PageSymbols : OverviewChanges(s)
    \/ \E t \in Terminal : TerminalChanges(t)
    \/ \E l \in SUBSET Legs, u \in Symbols : ChainChanges(l, u)
    \/ \E r \in Routes : Navigate(r)

\* Timers fire, and a server that is asked again and again answers once.
Fairness == WF_vars(Reconnect("shell")) /\ SF_vars(Opened("shell"))
Spec == Init /\ [][Next]_vars /\ Fairness
--------------------------------------------------------------------------------
\* The type invariant; an instance has a life on the server only while its
\* socket is open.
TypeOK ==
    /\ conn \in [Instances -> Conn]
    /\ status \in {"connecting", "connected", "disconnected", "error"}
    /\ bridge \in Instances \cup {"null"} /\ ghosts \in 0..MaxGhosts
    /\ route \in Routes /\ tracked \in SUBSET Symbols /\ shown \in PageSymbols
    /\ terminal \in Terminal /\ futSubs \in SUBSET Contracts
    /\ optSubs \in SUBSET (Symbols \cup Legs)
    /\ \A i \in Instances : conn[i].server # {} => conn[i].sock = "open"

\* A mounted hook is never wedged: it has a socket that is open or connecting or
\* a timer that will connect, through failed attempts, unmounts and timers that
\* find a socket already there; and nothing stays in the queue of an open one.
NeverWedged ==
    \A i \in Instances :
        /\ conn[i].mounted => conn[i].sock \in {"connecting", "open"} \/ conn[i].timer
        /\ conn[i].sock = "open" => conn[i].pending = {}
        /\ conn[i].mounted <=> (i = "shell" \/ route = "market")

\* Leaving the futures or the options page leaves no stream of theirs behind:
\* the shell's connection, and what waits for it in the queue, have only the
\* contracts and the legs the mounted page counts as its own, also when the
\* page was left while the socket was down (bridge, queue and cleanups together).
NoLeakedStreams ==
    \A i \in Instances :
        /\ (conn[i].server \cup conn[i].pending) \cap Contracts \subseteq futSubs
        /\ (conn[i].server \cup conn[i].pending) \cap Legs \subseteq optSubs
        /\ route # "futures" => futSubs = {}
        /\ route # "options" => optSubs = {}

\* However often connections fail, the shell is connected again and again.
ShellReconnects == []<>(conn["shell"].sock = "open")

\* "Selected contract and near expiry NEVER lose realtime": on the futures page,
\* with the shell connected, the server streams the selected contract
\* (the header of useFuturesStream.js says so).
SelectedIsStreamed ==
    route = "futures" /\ conn["shell"].sock = "open" /\ terminal.sel # "none"
    => terminal.sel \in conn["shell"].server
================================================================================
