-------------------------- MODULE MarketSocketProofs --------------------------
(***************************************************************************)
(* MarketSocket for any symbols, legs, contracts, ladder and bounds.       *)
(* NeverWedged is inductive.  NoLeakedStreams is not: a cleanup only       *)
(* reaches the connection the bridge names at that time.  OnlyByBridge     *)
(* says that no other connection has anything to clean up.                 *)
(***************************************************************************)
EXTENDS MarketSocket, TLAPS

Streams(c) == c.server \cup c.pending
PageTopics == Contracts \cup Legs

\* Contracts and legs come through the bridge, and a page that has taken it is
\* the one that is mounted.
OnlyByBridge ==
    /\ \A i \in Instances : i # bridge => Streams(conn[i]) \cap PageTopics = {}
    /\ bridge = "page" => route = "market"

\* A hook that is not mounted has nothing left.
UnmountedIdle == \A i \in Instances : ~conn[i].mounted => conn[i] = Unmounted

IInv == TypeOK /\ NeverWedged /\ NoLeakedStreams /\ OnlyByBridge /\ UnmountedIdle
--------------------------------------------------------------------------------
\* The state of a hook that is not mounted.
LEMMA UnmountedFacts ==
    /\ Unmounted \in Conn
    /\ ~Unmounted.mounted /\ Unmounted.sock = "none" /\ ~Unmounted.timer
    /\ Unmounted.server = {} /\ Unmounted.pending = {}
BY SocketAssumption DEF Unmounted, Conn

\* The tiers name contracts only.
LEMMA TierFacts == ASSUME NEW t \in Terminal PROVE wsContracts(t) \in SUBSET Contracts
BY SocketAssumption DEF wsContracts, classifyContracts, Terminal
--------------------------------------------------------------------------------
\* The part of the invariant that is about the connection c of instance i, when
\* r is mounted, fs and os are what it subscribed, and b has the bridge.
Sound(i, c, r, fs, os, b) ==
    /\ c \in Conn
    /\ c.server # {} => c.sock = "open"
    /\ c.mounted => c.sock \in {"connecting", "open"} \/ c.timer
    /\ c.sock = "open" => c.pending = {}
    /\ c.mounted <=> (i = "shell" \/ r = "market")
    /\ Streams(c) \cap Contracts \subseteq fs
    /\ Streams(c) \cap Legs \subseteq os
    /\ i # b => Streams(c) \cap PageTopics = {}
    /\ ~c.mounted => c = Unmounted

AllSound == /\ conn \in [Instances -> Conn]
            /\ \A i \in Instances : Sound(i, conn[i], route, futSubs, optSubs, bridge)

\* The part that is about the rest of the tab.
TabOK ==
    /\ status \in {"connecting", "connected", "disconnected", "error"}
    /\ bridge \in Instances \cup {"null"} /\ ghosts \in 0..MaxGhosts
    /\ route \in Routes /\ tracked \in SUBSET Symbols /\ shown \in PageSymbols
    /\ terminal \in Terminal /\ futSubs \in SUBSET Contracts
    /\ optSubs \in SUBSET (Symbols \cup Legs)
    /\ route # "futures" => futSubs = {}
    /\ route # "options" => optSubs = {}
    /\ bridge = "page" => route = "market"

\* The invariant, connection by connection.
LEMMA InvariantParts == IInv <=> AllSound /\ TabOK
<1>1. IInv => AllSound /\ TabOK
    BY DEF IInv, TypeOK, NeverWedged, NoLeakedStreams, OnlyByBridge, UnmountedIdle,
           AllSound, TabOK, Sound, Streams, Instances
<1>2. AllSound /\ TabOK => IInv
    BY DEF IInv, TypeOK, NeverWedged, NoLeakedStreams, OnlyByBridge, UnmountedIdle,
           AllSound, TabOK, Sound, Streams, Instances
<1> QED
    BY <1>1, <1>2

\* A message to a mounted connection, on a socket or in the queue.
LEMMA SoundSend ==
    ASSUME NEW i \in Instances, NEW c, NEW r, NEW fs, NEW os, NEW b,
           Sound(i, c, r, fs, os, b), c.mounted = TRUE,
           NEW add \in SUBSET Topics, NEW del \in SUBSET Topics,
           NEW f2, NEW o2,
           (fs \ del) \cup (add \cap Contracts) \subseteq f2,
           (os \ del) \cup (add \cap Legs) \subseteq o2,
           i # b => add \cap PageTopics = {}
    PROVE  Sound(i, send(c, add, del), r, f2, o2, b)
<1> DEFINE d == send(c, add, del)
<1>0. c \in Conn
    BY DEF Sound
<1>1. /\ d \in Conn /\ d.mounted = c.mounted /\ d.sock = c.sock /\ d.timer = c.timer
      /\ c.sock # "open" => d.server = c.server /\ d.pending = (c.pending \ del) \cup add
      /\ c.sock = "open" => d.pending = c.pending /\ d.server = (c.server \ del) \cup add
    BY <1>0 DEF send, Conn
<1> HIDE DEF d
<1>2. Streams(d) \subseteq (Streams(c) \ del) \cup add
    BY <1>1 DEF Streams, Sound
<1>3. /\ d.server # {} => d.sock = "open"
      /\ d.sock = "open" => d.pending = {}
    BY <1>1 DEF Sound
<1>4. /\ Streams(d) \cap Contracts \subseteq f2 /\ Streams(d) \cap Legs \subseteq o2
      /\ i # b => Streams(d) \cap PageTopics = {}
    BY <1>2 DEF Sound, PageTopics
<1>5. d.mounted = TRUE /\ (d.sock \in {"connecting", "open"} \/ d.timer) /\ (i = "shell" \/ r = "market")
    BY <1>1 DEF Sound
<1> QED
    BY <1>1, <1>3, <1>4, <1>5 DEF Sound, d

\* A new connection of a hook that mounts.
LEMMA SoundMount ==
    ASSUME NEW i \in Instances, NEW r, i = "shell" \/ r = "market", NEW fs, NEW os, NEW b
    PROVE  /\ Sound(i, connect([Unmounted EXCEPT !.mounted = TRUE]), r, fs, os, b)
           /\ connect([Unmounted EXCEPT !.mounted = TRUE]).mounted = TRUE
<1> DEFINE d == connect([Unmounted EXCEPT !.mounted = TRUE])
<1>1. 0 \in 0 .. MaxBackoff
    BY SocketAssumption
<1>2. d \in Conn /\ d.mounted = TRUE /\ d.sock = "connecting" /\ d.server = {} /\ d.pending = {}
    BY <1>1 DEF connect, Unmounted, Conn
<1> HIDE DEF d
<1>3. Streams(d) = {}
    BY <1>2 DEF Streams
<1> QED
    BY <1>2, <1>3 DEF Sound, d

\* Nothing that is wanted of a connection without contracts and legs depends on
\* who has the bridge or which page is mounted.
LEMMA SoundClean ==
    ASSUME NEW c, NEW r, NEW fs, NEW os, NEW b, Sound("shell", c, r, fs, os, b),
           Streams(c) \cap PageTopics = {}, NEW r2, NEW f2, NEW o2, NEW b2
    PROVE  Sound("shell", c, r2, f2, o2, b2) /\ c.mounted = TRUE
BY DEF Sound, PageTopics, Streams

\* The page without a socket.
LEMMA SoundUnmounted ==
    ASSUME NEW r, r # "market", NEW fs, NEW os, NEW b
    PROVE  Sound("page", Unmounted, r, fs, os, b)
BY UnmountedFacts DEF Sound, Streams

\* The socket opens: the queue goes out, and only symbols are added to it.
LEMMA SoundOpen ==
    ASSUME NEW i \in Instances, NEW c, NEW r, NEW fs, NEW os, NEW b,
           Sound(i, c, r, fs, os, b), c.sock = "connecting", NEW symbols \in SUBSET Symbols
    PROVE  Sound(i, onopen(c, symbols), r, fs, os, b)
<1> DEFINE d == onopen(c, symbols)
<1>1. 0 \in 0 .. MaxBackoff /\ c \in Conn /\ symbols \in SUBSET Topics
    BY SocketAssumption DEF Sound, Topics
<1>2. /\ d \in Conn /\ d.mounted = c.mounted /\ d.sock = "open"
      /\ d.server = c.pending \cup symbols /\ d.pending = {}
    BY <1>1 DEF onopen, Conn
<1>3. c.mounted = TRUE
    BY <1>1, UnmountedFacts DEF Sound, Conn
<1> HIDE DEF d
<1>4. Streams(d) \subseteq Streams(c) \cup symbols
    BY <1>2 DEF Streams
<1>5. symbols \cap PageTopics = {} /\ symbols \cap Contracts = {} /\ symbols \cap Legs = {}
    BY SocketAssumption DEF PageTopics
<1>6. /\ Streams(d) \cap Contracts \subseteq fs /\ Streams(d) \cap Legs \subseteq os
      /\ i # b => Streams(d) \cap PageTopics = {}
    BY <1>4, <1>5 DEF Sound
<1>7. i = "shell" \/ r = "market"
    BY <1>3 DEF Sound
<1> QED
    BY <1>2, <1>3, <1>6, <1>7 DEF Sound, d

\* The socket is lost: a timer is set and the queue is kept.
LEMMA SoundClose ==
    ASSUME NEW i \in Instances, NEW c, NEW r, NEW fs, NEW os, NEW b,
           Sound(i, c, r, fs, os, b), c.sock \in {"connecting", "open"}
    PROVE  Sound(i, onclose(c), r, fs, os, b)
<1> DEFINE d == onclose(c)
<1>0. c \in Conn
    BY DEF Sound
<1>1. (IF c.backoff < MaxBackoff THEN c.backoff + 1 ELSE c.backoff) \in 0 .. MaxBackoff
    BY <1>0, SocketAssumption DEF Conn
<1>2. /\ d \in Conn /\ d.mounted = c.mounted /\ d.sock = "closed"
      /\ d.server = {} /\ d.pending = c.pending /\ d.timer = TRUE
    BY <1>0, <1>1 DEF onclose, Conn
<1>3. c.mounted = TRUE
    BY <1>0, UnmountedFacts DEF Sound, Conn
<1> HIDE DEF d
<1>4. Streams(d) \subseteq Streams(c)
    BY <1>2 DEF Streams
<1>5. /\ Streams(d) \cap Contracts \subseteq fs /\ Streams(d) \cap Legs \subseteq os
      /\ i # b => Streams(d) \cap PageTopics = {}
    BY <1>4 DEF Sound
<1>6. i = "shell" \/ r = "market"
    BY <1>3 DEF Sound
<1> QED
    BY <1>2, <1>3, <1>5, <1>6 DEF Sound, d

\* The timer fires: the hook has a socket afterwards, an old one or a new one.
LEMMA SoundReconnect ==
    ASSUME NEW i \in Instances, NEW c, NEW r, NEW fs, NEW os, NEW b,
           Sound(i, c, r, fs, os, b), c.timer = TRUE
    PROVE  Sound(i, connect([c EXCEPT !.timer = FALSE]), r, fs, os, b)
<1> DEFINE d == connect([c EXCEPT !.timer = FALSE])
<1>0. c \in Conn
    BY DEF Sound
<1>1. c.mounted = TRUE
    BY <1>0, UnmountedFacts DEF Sound, Conn
<1>2. /\ d \in Conn /\ d.mounted = TRUE /\ d.pending = c.pending
      /\ d.sock \in {"connecting", "open"}
      /\ \/ d.sock = c.sock /\ d.server = c.server
         \/ d.sock = "connecting" /\ d.server = {}
    BY <1>0, <1>1 DEF connect, Conn
<1> HIDE DEF d
<1>4. Streams(d) \subseteq Streams(c)
    BY <1>2 DEF Streams
<1>5. /\ Streams(d) \cap Contracts \subseteq fs /\ Streams(d) \cap Legs \subseteq os
      /\ i # b => Streams(d) \cap PageTopics = {}
    BY <1>4 DEF Sound
<1>6. i = "shell" \/ r = "market"
    BY <1>1 DEF Sound
<1>7. (d.server # {} => d.sock = "open") /\ (d.sock = "open" => d.pending = {})
    BY <1>2 DEF Sound
<1> QED
    BY <1>2, <1>5, <1>6, <1>7 DEF Sound, d

\* One connection changes and everybody else keeps what they had.
LEMMA OneConn ==
    ASSUME AllSound, NEW i \in Instances, NEW c,
           Sound(i, c, route, futSubs, optSubs, bridge), conn' = [conn EXCEPT ![i] = c],
           route' = route, futSubs' = futSubs, optSubs' = optSubs, bridge' = bridge
    PROVE  AllSound'
<1>1. c \in Conn
    BY DEF Sound
<1>2. conn' \in [Instances -> Conn]
    BY <1>1 DEF AllSound
<1>3. \A j \in Instances : conn'[j] = IF j = i THEN c ELSE conn[j]
    BY DEF AllSound
<1>4. \A j \in Instances : Sound(j, conn'[j], route, futSubs, optSubs, bridge)
    BY <1>3 DEF AllSound
<1> QED
    BY <1>2, <1>4 DEF AllSound, Sound

\* A message through the bridge, which only a mounted hook has.
LEMMA BridgeSend ==
    ASSUME TabOK, NEW cs \in [Instances -> Conn], NEW f1, NEW o1,
           \A i \in Instances : Sound(i, cs[i], route, f1, o1, bridge),
           NEW add \in SUBSET Topics, NEW del \in SUBSET Topics, NEW f2, NEW o2,
           (f1 \ del) \cup (add \cap Contracts) \subseteq f2,
           (o1 \ del) \cup (add \cap Legs) \subseteq o2
    PROVE  /\ bridgeSend(cs, add, del) \in [Instances -> Conn]
           /\ \A i \in Instances : Sound(i, bridgeSend(cs, add, del)[i], route, f2, o2, bridge)
<1>0. \A i \in Instances : Sound(i, cs[i], route, f1, o1, bridge) /\ cs[i] \in Conn
    OBVIOUS
<1>1. ASSUME NEW i \in Instances, i # bridge PROVE Sound(i, cs[i], route, f2, o2, bridge)
  <2>1. Streams(cs[i]) \cap Contracts = {} /\ Streams(cs[i]) \cap Legs = {}
      BY <1>0, <1>1 DEF Sound, PageTopics
  <2> QED
      BY <2>1, <1>0 DEF Sound
<1>2. CASE bridge = "null"
  <2>1. bridgeSend(cs, add, del) = cs
      BY <1>2 DEF bridgeSend
  <2> QED
      BY <1>0, <1>1, <1>2, <2>1 DEF Instances
<1>3. CASE bridge # "null"
  <2>1. bridge \in Instances
      BY <1>3 DEF TabOK
  <2>2. cs[bridge].mounted = TRUE
      BY <1>0, <2>1 DEF Sound, TabOK, Instances, Conn
  <2>3. Sound(bridge, send(cs[bridge], add, del), route, f2, o2, bridge)
      BY <1>0, <2>1, <2>2, SoundSend
  <2>4. bridgeSend(cs, add, del) = [cs EXCEPT ![bridge] = send(cs[bridge], add, del)]
      BY <1>3 DEF bridgeSend
  <2>5. send(cs[bridge], add, del) \in Conn
      BY <2>3 DEF Sound
  <2>6. [cs EXCEPT ![bridge] = send(cs[bridge], add, del)] \in [Instances -> Conn]
      BY <2>1, <2>5
  <2>7. ASSUME NEW i \in Instances
        PROVE  Sound(i, [cs EXCEPT ![bridge] = send(cs[bridge], add, del)][i], route, f2, o2, bridge)
    <3>1. CASE i = bridge
      <4>1. [cs EXCEPT ![bridge] = send(cs[bridge], add, del)][i] = send(cs[bridge], add, del)
          BY <3>1
      <4> QED
          BY <4>1, <3>1, <2>3
    <3>2. CASE i # bridge
      <4>1. [cs EXCEPT ![bridge] = send(cs[bridge], add, del)][i] = cs[i]
          BY <3>2
      <4> QED
          BY <4>1, <3>2, <1>1
    <3> QED
        BY <3>1, <3>2
  <2> QED
      BY <2>4, <2>6, <2>7
<1> QED
    BY <1>2, <1>3
--------------------------------------------------------------------------------
\* Sockets open, break and are opened again.
LEMMA SocketStep ==
    ASSUME AllSound, TabOK, NEW i \in Instances, Opened(i) \/ Lost(i) \/ Reconnect(i)
    PROVE  AllSound' /\ TabOK'
<1>0. Sound(i, conn[i], route, futSubs, optSubs, bridge) /\ tracked \in SUBSET Symbols
    BY DEF AllSound, TabOK
<1>1. CASE Opened(i)
  <2>1. Sound(i, onopen(conn[i], tracked), route, futSubs, optSubs, bridge)
      BY <1>0, <1>1, SoundOpen DEF Opened
  <2>2. conn' = [conn EXCEPT ![i] = onopen(conn[i], tracked)]
      BY <1>1 DEF Opened
  <2>3. /\ status' = "connected" /\ bridge' = bridge /\ ghosts' = ghosts /\ route' = route
        /\ tracked' = tracked /\ shown' = shown /\ terminal' = terminal
        /\ futSubs' = futSubs /\ optSubs' = optSubs
      BY <1>1 DEF Opened
  <2> QED
      BY <2>1, <2>2, <2>3, OneConn DEF TabOK
<1>2. CASE Lost(i)
  <2>1. Sound(i, onclose(conn[i]), route, futSubs, optSubs, bridge)
      BY <1>0, <1>2, SoundClose DEF Lost
  <2>2. conn' = [conn EXCEPT ![i] = onclose(conn[i])]
      BY <1>2 DEF Lost
  <2>3. /\ status' = "disconnected" /\ bridge' = bridge /\ ghosts' = ghosts /\ route' = route
        /\ tracked' = tracked /\ shown' = shown /\ terminal' = terminal
        /\ futSubs' = futSubs /\ optSubs' = optSubs
      BY <1>2 DEF Lost
  <2> QED
      BY <2>1, <2>2, <2>3, OneConn DEF TabOK
<1>3. CASE Reconnect(i)
  <2>0. conn[i].timer = TRUE
      BY <1>0, <1>3 DEF Reconnect, Sound, Conn
  <2>1. Sound(i, connect([conn[i] EXCEPT !.timer = FALSE]), route, futSubs, optSubs, bridge)
      BY <1>0, <2>0, SoundReconnect
  <2>2. conn' = [conn EXCEPT ![i] = connect([conn[i] EXCEPT !.timer = FALSE])]
      BY <1>3 DEF Reconnect
  <2>3. /\ status' \in {"connecting", status} /\ bridge' = bridge /\ ghosts' = ghosts /\ route' = route
        /\ tracked' = tracked /\ shown' = shown /\ terminal' = terminal
        /\ futSubs' = futSubs /\ optSubs' = optSubs
      BY <1>3 DEF Reconnect
  <2> QED
      BY <2>1, <2>2, <2>3, OneConn DEF TabOK
<1> QED
    BY <1>1, <1>2, <1>3

\* The symbols of the stores and of the overview change: no page topic moves.
LEMMA SymbolStep ==
    ASSUME AllSound, TabOK,
           \/ \E s \in SUBSET Symbols : TrackedChanges(s)
           \/ \E s \in PageSymbols : OverviewChanges(s)
    PROVE  AllSound' /\ TabOK'
<1>0. \A i \in Instances : Sound(i, conn[i], route, futSubs, optSubs, bridge) /\ conn[i] \in Conn
    BY DEF AllSound
<1>s. /\ PageSymbols \subseteq SUBSET Symbols
      /\ \A x \in SUBSET Symbols :
            x \in SUBSET Topics /\ x \cap PageTopics = {} /\ x \cap Contracts = {} /\ x \cap Legs = {}
    BY SocketAssumption DEF Topics, PageTopics
<1>1. ASSUME NEW s \in SUBSET Symbols, TrackedChanges(s) PROVE AllSound' /\ TabOK'
  <2>1. conn' = [i \in Instances |-> IF conn[i].sock = "open" THEN send(conn[i], s, {}) ELSE conn[i]]
      BY <1>1 DEF TrackedChanges
  <2>2. /\ tracked' = s /\ status' = status /\ bridge' = bridge /\ ghosts' = ghosts /\ route' = route
        /\ shown' = shown /\ terminal' = terminal /\ futSubs' = futSubs /\ optSubs' = optSubs
      BY <1>1 DEF TrackedChanges
  <2>3. ASSUME NEW i \in Instances PROVE Sound(i, conn'[i], route, futSubs, optSubs, bridge)
    <3>1. CASE conn[i].sock = "open"
      <4>1. conn[i].mounted = TRUE
          BY <3>1, <1>0, UnmountedFacts DEF Sound, Conn
      <4>2. Sound(i, send(conn[i], s, {}), route, futSubs, optSubs, bridge)
          BY <4>1, <1>0, <1>s, SoundSend
      <4>3. conn'[i] = send(conn[i], s, {})
          BY <2>1, <3>1
      <4> QED
          BY <4>2, <4>3
    <3>2. CASE conn[i].sock # "open"
      <4>1. conn'[i] = conn[i]
          BY <2>1, <3>2
      <4> QED
          BY <4>1, <1>0
    <3> QED
        BY <3>1, <3>2
  <2>4. conn' \in [Instances -> Conn]
    <3>1. \A i \in Instances : conn'[i] \in Conn
        BY <2>3 DEF Sound
    <3>2. conn' = [i \in Instances |-> conn'[i]]
        BY <2>1
    <3> QED
        BY <3>1, <3>2
  <2>5. AllSound'
      BY <2>2, <2>3, <2>4 DEF AllSound, Sound
  <2> QED
      BY <2>2, <2>5 DEF TabOK
<1>2. ASSUME NEW s \in PageSymbols, OverviewChanges(s) PROVE AllSound' /\ TabOK'
  <2>2. /\ shown' = s /\ status' = status /\ bridge' = bridge /\ ghosts' = ghosts /\ route' = route
        /\ tracked' = tracked /\ terminal' = terminal /\ futSubs' = futSubs /\ optSubs' = optSubs
      BY <1>2 DEF OverviewChanges
  <2>3. AllSound'
    <3>1. CASE route # "market"
      <4>1. conn' = conn
          BY <1>2, <3>1 DEF OverviewChanges
      <4> QED
          BY <4>1, <2>2 DEF AllSound, Sound
    <3>2. CASE route = "market"
      <4>1. "page" \in Instances /\ shown \in SUBSET Topics /\ {} \in SUBSET Topics
          BY <1>s DEF Instances, TabOK
      <4>2. conn["page"].mounted = TRUE
          BY <1>0, <3>2, <4>1 DEF Sound, Conn
      <4>3. Sound("page", send(conn["page"], {}, shown), route, futSubs, optSubs, bridge)
          BY <4>1, <4>2, <1>0, SoundSend
      <4>4. send(conn["page"], {}, shown).mounted = TRUE
          BY <4>3, <3>2 DEF Sound, Conn
      <4>5. Sound("page", send(send(conn["page"], {}, shown), s, {}), route, futSubs, optSubs, bridge)
          BY <4>1, <4>3, <4>4, <1>s, SoundSend
      <4>6. conn' = [conn EXCEPT !["page"] = send(send(conn["page"], {}, shown), s, {})]
          BY <1>2, <3>2 DEF OverviewChanges
      <4> QED
          BY <4>1, <4>5, <4>6, <2>2, OneConn
    <3> QED
        BY <3>1, <3>2
  <2> QED
      BY <2>2, <2>3 DEF TabOK
<1> QED
    BY <1>1, <1>2

\* The subscriptions of the futures and of the options page follow their stores.
LEMMA PageStep ==
    ASSUME AllSound, TabOK,
           \/ \E x \in Terminal : TerminalChanges(x)
           \/ \E l \in SUBSET Legs, u \in Symbols : ChainChanges(l, u)
    PROVE  AllSound' /\ TabOK'
<1>0. /\ conn \in [Instances -> Conn]
      /\ \A i \in Instances : Sound(i, conn[i], route, futSubs, optSubs, bridge)
    BY DEF AllSound
<1>s. /\ \A x \in SUBSET Contracts : x \in SUBSET Topics /\ x \cap Legs = {}
      /\ \A x \in SUBSET (Symbols \cup Legs) : x \in SUBSET Topics /\ x \cap Contracts = {}
    BY SocketAssumption DEF Topics
<1>1. ASSUME NEW x \in Terminal, TerminalChanges(x) PROVE AllSound' /\ TabOK'
  <2> DEFINE W == wsContracts(x)
  <2>1. W \in SUBSET Contracts /\ futSubs \in SUBSET Contracts
      BY TierFacts DEF TabOK
  <2>2. /\ terminal' = x /\ status' = status /\ bridge' = bridge /\ ghosts' = ghosts /\ route' = route
        /\ tracked' = tracked /\ shown' = shown /\ optSubs' = optSubs
      BY <1>1 DEF TerminalChanges
  <2>3. CASE route = "futures"
    <3>1. conn' = bridgeSend(conn, W \ futSubs, futSubs \ W) /\ futSubs' = W
        BY <1>1, <2>3 DEF TerminalChanges, futuresWsSend
    <3> HIDE DEF W
    <3>2. /\ W \ futSubs \in SUBSET Topics /\ futSubs \ W \in SUBSET Topics
          /\ (futSubs \ (futSubs \ W)) \cup ((W \ futSubs) \cap Contracts) \subseteq W
          /\ (optSubs \ (futSubs \ W)) \cup ((W \ futSubs) \cap Legs) \subseteq optSubs
        BY <2>1, <1>s
    <3>3. /\ bridgeSend(conn, W \ futSubs, futSubs \ W) \in [Instances -> Conn]
          /\ \A i \in Instances :
                Sound(i, bridgeSend(conn, W \ futSubs, futSubs \ W)[i], route, W, optSubs, bridge)
        BY <1>0, <3>2, BridgeSend
    <3>4. AllSound'
        BY <3>1, <3>3, <2>2 DEF AllSound, Sound
    <3> QED
        BY <3>1, <3>4, <2>1, <2>2, <2>3 DEF TabOK
  <2>4. CASE route # "futures"
    <3>1. conn' = conn /\ futSubs' = futSubs
        BY <1>1, <2>4 DEF TerminalChanges
    <3> QED
        BY <3>1, <2>2 DEF AllSound, TabOK, Sound
  <2> QED
      BY <2>3, <2>4
<1>2. ASSUME NEW l \in SUBSET Legs, NEW u \in Symbols, ChainChanges(l, u) PROVE AllSound' /\ TabOK'
  <2> DEFINE N == l \cup {u}
             cs == bridgeSend(conn, {}, optSubs)
  <2>1. /\ N \in SUBSET (Symbols \cup Legs) /\ N \in SUBSET Topics /\ N \cap Contracts = {}
        /\ optSubs \in SUBSET Topics /\ {} \in SUBSET Topics
      BY <1>s DEF TabOK
  <2>2. /\ route = "options" /\ conn' = bridgeSend(cs, N, {}) /\ optSubs' = N
        /\ status' = status /\ bridge' = bridge /\ ghosts' = ghosts /\ route' = route
        /\ tracked' = tracked /\ shown' = shown /\ terminal' = terminal /\ futSubs' = futSubs
      BY <1>2 DEF ChainChanges, optionsWsSend, optionsWsUnsubscribe
  <2>3. futSubs = {}
      BY <2>2 DEF TabOK
  <2>4. /\ cs \in [Instances -> Conn]
        /\ \A i \in Instances : Sound(i, cs[i], route, {}, {}, bridge)
    <3>1. /\ (futSubs \ optSubs) \cup ({} \cap Contracts) \subseteq {}
          /\ (optSubs \ optSubs) \cup ({} \cap Legs) \subseteq {}
        BY <2>3
    <3>2. optSubs \in SUBSET Topics /\ {} \in SUBSET Topics
        BY <2>1
    <3> HIDE DEF N
    <3> QED
        BY <1>0, <3>1, <3>2, BridgeSend
  <2> HIDE DEF cs, N
  <2>5. /\ bridgeSend(cs, N, {}) \in [Instances -> Conn]
        /\ \A i \in Instances : Sound(i, bridgeSend(cs, N, {})[i], route, {}, N, bridge)
    <3>1. /\ ({} \ {}) \cup (N \cap Contracts) \subseteq {}
          /\ ({} \ {}) \cup (N \cap Legs) \subseteq N
        BY <2>1
    <3> QED
        BY <2>1, <2>4, <3>1, BridgeSend
  <2>6. AllSound'
      BY <2>2, <2>3, <2>5 DEF AllSound, Sound
  <2> QED
      BY <2>1, <2>2, <2>3, <2>6 DEF TabOK
<1> QED
    BY <1>1, <1>2

\* Whatever page is left, its cleanup leaves no contract and no leg anywhere and
\* no socket but the shell's.
LEMMA CleanupLeavesNothing ==
    ASSUME AllSound, TabOK
    PROVE  /\ Cleanup \in [Instances -> Conn] /\ Cleanup["page"] = Unmounted
           /\ \A r, fs, os, b : Sound("shell", Cleanup["shell"], r, fs, os, b)
           /\ Cleanup["shell"].mounted = TRUE
<1>0. /\ conn \in [Instances -> Conn] /\ "shell" \in Instances /\ "page" \in Instances
      /\ \A i \in Instances : Sound(i, conn[i], route, futSubs, optSubs, bridge)
    BY DEF AllSound, Instances
<1>p. route # "market" => conn["page"] = Unmounted
    BY <1>0 DEF Sound
<1>q. \A b \in {bridge} : \A i \in Instances : i # b => Streams(conn[i]) \cap PageTopics = {}
    BY <1>0 DEF Sound
<1>s. futSubs \in SUBSET Topics /\ optSubs \in SUBSET Topics /\ {} \in SUBSET Topics
    BY DEF TabOK, Topics
<1>1. ASSUME NEW cs \in [Instances -> Conn], Cleanup = cs, cs["page"] = Unmounted,
             Sound("shell", cs["shell"], route, {}, {}, bridge)
      PROVE  /\ Cleanup \in [Instances -> Conn] /\ Cleanup["page"] = Unmounted
             /\ \A r, fs, os, b : Sound("shell", Cleanup["shell"], r, fs, os, b)
             /\ Cleanup["shell"].mounted = TRUE
  <2>1. Streams(cs["shell"]) \cap PageTopics = {}
      BY <1>1 DEF Sound, PageTopics
  <2>2. \A r, fs, os, b : Sound("shell", cs["shell"], r, fs, os, b) /\ cs["shell"].mounted = TRUE
      BY <1>1, <2>1, SoundClean
  <2> QED
      BY <1>1, <2>2
<1>2. CASE route \in {"futures", "options"}
  <2> DEFINE D == IF route = "futures" THEN futSubs ELSE optSubs
             cs == bridgeSend(conn, {}, D)
  <2>1. Cleanup = cs
      BY <1>2 DEF Cleanup, futuresWsSend, optionsWsUnsubscribe
  <2>2. /\ D \in SUBSET Topics
        /\ (futSubs \ D) \cup ({} \cap Contracts) \subseteq {}
        /\ (optSubs \ D) \cup ({} \cap Legs) \subseteq {}
      BY <1>2, <1>s DEF TabOK
  <2> HIDE DEF D
  <2>3. /\ cs \in [Instances -> Conn]
        /\ \A i \in Instances : Sound(i, cs[i], route, {}, {}, bridge)
      BY <1>0, <1>s, <2>2, BridgeSend
  <2>4. cs["page"] = Unmounted
      BY <2>3, <1>0, <1>2 DEF Sound
  <2> HIDE DEF cs
  <2> QED
      BY <1>0, <1>1, <2>1, <2>3, <2>4
<1>3. CASE route = "market"
  <2>1. Cleanup = [conn EXCEPT !["page"] = Unmounted]
      BY <1>3 DEF Cleanup
  <2>2. [conn EXCEPT !["page"] = Unmounted] \in [Instances -> Conn]
      BY <1>0, UnmountedFacts
  <2>3. /\ [conn EXCEPT !["page"] = Unmounted]["page"] = Unmounted
        /\ [conn EXCEPT !["page"] = Unmounted]["shell"] = conn["shell"]
      BY <1>0
  <2>4. futSubs = {} /\ optSubs = {}
      BY <1>3 DEF TabOK
  <2> QED
      BY <1>0, <1>1, <2>1, <2>2, <2>3, <2>4
<1> QED
    BY <1>2, <1>3 DEF TabOK, Routes

\* From page to page: after the cleanup there is only the shell's connection, to
\* which the futures page adds its contracts and beside which the market page
\* opens its own.
LEMMA NavigateStep ==
    ASSUME AllSound, TabOK, NEW r \in Routes, Navigate(r) PROVE AllSound' /\ TabOK'
<1> DEFINE W == wsContracts(terminal)
           left == IF route = "market" THEN "null" ELSE bridge
<1>0. "shell" \in Instances /\ "page" \in Instances /\ Instances = {"shell", "page"}
    BY DEF Instances
<1>a. /\ r # route /\ route' = r /\ tracked' = tracked /\ shown' = shown /\ terminal' = terminal
      /\ futSubs' = (IF r = "futures" THEN W ELSE {}) /\ optSubs' = {}
      /\ bridge' = (IF r = "market" THEN "page" ELSE left)
      /\ status' \in {"connecting", status}
      /\ conn' = (IF r = "futures" /\ left = "null" THEN Cleanup ELSE MountPage(r, Cleanup))
    BY DEF Navigate
<1>g. ghosts' \in 0 .. MaxGhosts
    BY SocketAssumption DEF Navigate, TabOK
<1>w. W \in SUBSET Contracts /\ W \in SUBSET Topics /\ W \cap Legs = {}
    BY TierFacts, SocketAssumption DEF TabOK, Topics
<1>l. left \in {"shell", "null"}
    BY DEF TabOK, Instances
<1>c. /\ Cleanup \in [Instances -> Conn] /\ Cleanup["page"] = Unmounted
      /\ \A q, fs, os, b : Sound("shell", Cleanup["shell"], q, fs, os, b)
      /\ Cleanup["shell"].mounted = TRUE
    BY CleanupLeavesNothing
<1> HIDE DEF W, left
<1>1. TabOK'
  <2>1. bridge' \in Instances \cup {"null"} /\ (bridge' = "page" => route' = "market")
      BY <1>a, <1>l, <1>0
  <2>2. /\ futSubs' \in SUBSET Contracts /\ optSubs' \in SUBSET (Symbols \cup Legs)
        /\ route' # "futures" => futSubs' = {}
      BY <1>a, <1>w
  <2> QED
      BY <1>a, <1>g, <2>1, <2>2 DEF TabOK
<1>2. ASSUME conn' \in [Instances -> Conn],
             Sound("shell", conn'["shell"], route', futSubs', optSubs', bridge'),
             Sound("page", conn'["page"], route', futSubs', optSubs', bridge')
      PROVE  AllSound'
    BY <1>0, <1>2 DEF AllSound, Sound
<1>3. CASE r = "market"
  <2> DEFINE d == send(connect([Unmounted EXCEPT !.mounted = TRUE]), shown, {})
  <2>1. conn' = [Cleanup EXCEPT !["page"] = d]
      BY <1>a, <1>3 DEF MountPage
  <2>2. Sound("page", d, "market", {}, {}, "page")
    <3>1. /\ shown \in SUBSET Topics /\ {} \in SUBSET Topics
          /\ ({} \ {}) \cup (shown \cap Contracts) \subseteq {}
          /\ ({} \ {}) \cup (shown \cap Legs) \subseteq {}
        BY SocketAssumption DEF TabOK, Topics
    <3>2. /\ Sound("page", connect([Unmounted EXCEPT !.mounted = TRUE]), "market", {}, {}, "page")
          /\ connect([Unmounted EXCEPT !.mounted = TRUE]).mounted = TRUE
        BY <1>0, SoundMount
    <3> QED
        BY <1>0, <3>1, <3>2, SoundSend
  <2> HIDE DEF d
  <2>3. d \in Conn
      BY <2>2 DEF Sound
  <2>4. conn' \in [Instances -> Conn] /\ conn'["page"] = d /\ conn'["shell"] = Cleanup["shell"]
      BY <1>0, <1>c, <2>1, <2>3
  <2>5. route' = "market" /\ futSubs' = {} /\ optSubs' = {} /\ bridge' = "page"
      BY <1>a, <1>3
  <2> QED
      BY <1>1, <1>2, <1>c, <2>2, <2>4, <2>5
<1>4. CASE r # "market"
  <2>1. Sound("page", Unmounted, r, futSubs', optSubs', bridge')
      BY <1>4, SoundUnmounted
  <2>2. CASE conn' = Cleanup
      BY <1>1, <1>2, <1>a, <1>c, <2>1, <2>2
  <2>3. CASE conn' # Cleanup
    <3>1. r = "futures" /\ left = "shell" /\ conn' = bridgeSend(Cleanup, W, {})
        BY <2>3, <1>4, <1>a, <1>l DEF MountPage, futuresWsSend, Routes, W
    <3>2. bridge = "shell" /\ bridge' = "shell"
        BY <3>1, <1>a DEF left
    <3>3. conn' = [Cleanup EXCEPT !["shell"] = send(Cleanup["shell"], W, {})]
        BY <3>1, <3>2 DEF bridgeSend
    <3>4. Sound("shell", send(Cleanup["shell"], W, {}), r, W, {}, "shell")
      <4>1. /\ {} \in SUBSET Topics
            /\ ({} \ {}) \cup (W \cap Contracts) \subseteq W
            /\ ({} \ {}) \cup (W \cap Legs) \subseteq {}
          BY <1>w
      <4>2. Sound("shell", Cleanup["shell"], r, {}, {}, "shell")
          BY <1>c
      <4> QED
          BY <1>0, <1>c, <1>w, <4>1, <4>2, SoundSend
    <3>5. send(Cleanup["shell"], W, {}) \in Conn
        BY <3>4 DEF Sound
    <3>6. /\ conn' \in [Instances -> Conn] /\ conn'["page"] = Unmounted
          /\ conn'["shell"] = send(Cleanup["shell"], W, {})
        BY <1>0, <1>c, <3>3, <3>5
    <3>7. route' = r /\ futSubs' = W /\ optSubs' = {}
        BY <1>a, <3>1
    <3> QED
        BY <1>1, <1>2, <2>1, <3>2, <3>4, <3>6, <3>7
  <2> QED
      BY <2>2, <2>3
<1> QED
    BY <1>3, <1>4

\* A tab starts with the shell's socket and, on a market page, the page's.
LEMMA InitEstablishes == ASSUME Init PROVE AllSound /\ TabOK
<1> DEFINE m == connect([Unmounted EXCEPT !.mounted = TRUE])
<1>0. "shell" \in Instances /\ "page" \in Instances /\ Instances = {"shell", "page"}
    BY DEF Instances
<1>a. /\ route \in Routes /\ tracked \in SUBSET Symbols /\ shown \in PageSymbols
      /\ terminal = EmptyTerminal /\ bridge = "shell" /\ ghosts = 0 /\ status = "connecting"
      /\ futSubs = {} /\ optSubs = {}
      /\ conn = [i \in Instances |-> IF i = "shell" THEN m
                                     ELSE IF route = "market" THEN send(m, shown, {}) ELSE Unmounted]
    BY DEF Init
<1>1. TabOK
  <2>1. EmptyTerminal \in Terminal
      BY DEF EmptyTerminal, Terminal
  <2>2. 0 \in 0 .. MaxGhosts
      BY SocketAssumption
  <2> QED
      BY <1>0, <1>a, <2>1, <2>2 DEF TabOK
<1>2. Sound("shell", m, route, {}, {}, "shell")
    BY <1>0, SoundMount
<1>3. route = "market" => Sound("page", send(m, shown, {}), route, {}, {}, "shell")
  <2> SUFFICES ASSUME route = "market" PROVE Sound("page", send(m, shown, {}), route, {}, {}, "shell")
      OBVIOUS
  <2>1. /\ shown \in SUBSET Topics /\ {} \in SUBSET Topics /\ shown \cap PageTopics = {}
        /\ ({} \ {}) \cup (shown \cap Contracts) \subseteq {}
        /\ ({} \ {}) \cup (shown \cap Legs) \subseteq {}
      BY <1>a, SocketAssumption DEF Topics, PageTopics
  <2>2. Sound("page", m, route, {}, {}, "shell") /\ m.mounted = TRUE
      BY <1>0, SoundMount
  <2> HIDE DEF m
  <2> QED
      BY <1>0, <2>1, <2>2, SoundSend
<1>4. route # "market" => Sound("page", Unmounted, route, {}, {}, "shell")
    BY SoundUnmounted
<1> HIDE DEF m
<1>5. \A i \in Instances : Sound(i, conn[i], route, {}, {}, "shell")
    BY <1>0, <1>a, <1>2, <1>3, <1>4
<1>6. conn \in [Instances -> Conn]
  <2>1. \A i \in Instances : conn[i] \in Conn
      BY <1>5 DEF Sound
  <2>2. conn = [i \in Instances |-> conn[i]]
      BY <1>a
  <2> QED
      BY <2>1, <2>2
<1> QED
    BY <1>a, <1>1, <1>5, <1>6 DEF AllSound

\* The inductive invariant holds in every reachable state.
LEMMA InvariantHolds == Spec => []IInv
<1>1. Init => IInv
    BY InitEstablishes, InvariantParts
<1>2. ASSUME IInv, [Next]_vars PROVE IInv'
  <2>0. AllSound /\ TabOK
      BY <1>2, InvariantParts
  <2>1. ASSUME AllSound' /\ TabOK' PROVE IInv'
      BY <2>1 DEF IInv, TypeOK, NeverWedged, NoLeakedStreams, OnlyByBridge, UnmountedIdle,
                  AllSound, TabOK, Sound, Streams, Instances
  <2>2. CASE UNCHANGED vars
      BY <1>2, <2>2 DEF vars, IInv, TypeOK, NeverWedged, NoLeakedStreams, OnlyByBridge, UnmountedIdle
  <2>3. CASE GhostError
    <3>1. /\ ghosts > 0 /\ ghosts' = ghosts - 1 /\ status' = "error" /\ conn' = conn /\ bridge' = bridge
          /\ route' = route /\ tracked' = tracked /\ shown' = shown /\ terminal' = terminal
          /\ futSubs' = futSubs /\ optSubs' = optSubs
        BY <2>3 DEF GhostError
    <3>2. ghosts' \in 0 .. MaxGhosts
        BY <3>1, <2>0, SocketAssumption DEF TabOK
    <3> QED
        BY <2>0, <2>1, <3>1, <3>2 DEF AllSound, TabOK, Sound
  <2> QED
      BY <1>2, <2>0, <2>1, <2>2, <2>3, SocketStep, SymbolStep, PageStep, NavigateStep DEF Next
<1> QED
    BY <1>1, <1>2, PTL DEF Spec

\* Hooks, bridge, stores and subscriptions keep their types, and the server knows
\* of a connection only while its socket is open.
THEOREM TypesHold == Spec => []TypeOK
<1>1. IInv => TypeOK
    BY DEF IInv
<1> QED
    BY <1>1, InvariantHolds, PTL

\* For any symbols, backoff and number of pages visited: a mounted hook has a
\* socket that is open or on its way or a timer that will connect, and an open
\* socket has nothing queued.
THEOREM HooksNeverWedge == Spec => []NeverWedged
<1>1. IInv => NeverWedged
    BY DEF IInv
<1> QED
    BY <1>1, InvariantHolds, PTL

\* For any legs, contracts and ladder: who leaves the futures or the options page
\* leaves no stream of it behind, neither on the server nor in a queue.
THEOREM NoStreamIsLeaked == Spec => []NoLeakedStreams
<1>1. IInv => NoLeakedStreams
    BY DEF IInv
<1> QED
    BY <1>1, InvariantHolds, PTL
================================================================================
