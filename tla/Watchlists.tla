------------------------------ MODULE Watchlists ------------------------------
(* The watchlist store: named lists kept in memory, in the browser's storage    *)
(* and on the server. Every change is made in memory first and sent to the     *)
(* server after; a failure puts back a snapshot taken when the change began.   *)
(* A list is shown by what it holds of one symbol: nothing, an entry with a     *)
(* temporary id, or an entry the server knows.                                 *)
EXTENDS Naturals, FiniteSets

CONSTANTS
    ServerLists,    \* ids of lists the server keeps
    LocalLists,     \* ids of lists that live in the browser only
    Edited,         \* the lists whose entries the user changes
    MaxCalls,       \* calls under way at the same time
    MaxSends        \* calls a visit begins

VARIABLE ui

Ids == ServerLists \cup LocalLists
Content == {"gone", "empty", "temp", "real"}
Lists == [Ids -> Content]
NoLists == [i \in Ids |-> "gone"]
Actives == Ids \cup {"none"}
\* A call; a delete and a removal keep the lists and the active id they began
\* with, a delete the next active id too. A load keeps the stored id, carries the
\* lists it is answered with, and may be what addItem waits for.
Idle == [op |-> "idle", id |-> "none", at |-> "idle", lists |-> NoLists,
         active |-> "none", next |-> "none"]
Calls == [op : {"load", "default", "create", "rename", "delete", "add", "remove"}, id : Actives,
          at : {"sent", "ok", "err"}, lists : Lists, active : Actives, next : Actives \cup {"add"}]
call(op, id) == [Idle EXCEPT !.op = op, !.id = id, !.at = "sent"]
snapshotCall(op, id, u, next) ==
    [call(op, id) EXCEPT !.lists = u.lists, !.active = u.active, !.next = next]

\* sync is the history of the last load: "yes" when the page has the server's
\* lists from it and neither two calls at a time nor a lost answer since.
TypeOK ==
    /\ ui \in [lists : Lists, active : Actives, stored : [lists : Lists, active : Actives],
               server : Lists, loading : BOOLEAN, calls : [1..MaxCalls -> Calls \cup {Idle}],
               rolledBack : BOOLEAN, sync : {"no", "loading", "yes"}, sent : 0..MaxSends]
    /\ \A i \in LocalLists : ui.server[i] = "gone"

--------------------------------------------------------------------------------
Existing(lists) == {i \in Ids : lists[i] # "gone"}

Under(u) == {n \in 1..MaxCalls : u.calls[n] # Idle}
Free(u) == Under(u) # 1..MaxCalls /\ u.sent < MaxSends

\* Ids of lists are made once: no copy of the lists knows a fresh one.
Fresh(u) ==
    {i \in ServerLists :
        /\ u.server[i] = "gone" /\ u.lists[i] = "gone" /\ u.stored.lists[i] = "gone"
        /\ \A n \in Under(u) : u.calls[n].id # i /\ u.calls[n].lists[i] = "gone"}

persistToStorage(u) == [u EXCEPT !.stored = [lists |-> u.lists, active |-> u.active]]

Send(u, c) ==
    [u EXCEPT !.calls[CHOOSE n \in 1..MaxCalls : u.calls[n] = Idle] = c,
              !.sync = IF Under(u) = {} THEN @ ELSE "no",
              !.sent = IF @ < MaxSends THEN @ + 1 ELSE @]

\* The active id kept with the cached lists, or one of the lists.
activeAmong(lists, wanted) ==
    IF wanted \in Existing(lists) THEN {wanted} ELSE Existing(lists)

\* The lists are replaced, and the active id is one of them.
Replaced(u, lists, active) ==
    [u EXCEPT !.lists = lists, !.active = active, !.rolledBack = FALSE]

--------------------------------------------------------------------------------
\* What is stored takes the place of the lists in memory before the server is
\* asked.
Loads(u, next) ==
    LET asked(v) == Send([v EXCEPT !.loading = TRUE, !.sync = "loading"],
                         [call("load", "none") EXCEPT !.active = u.stored.active, !.next = next])
    IN  IF Existing(u.stored.lists) = {} THEN {asked(u)}
        ELSE {asked(Replaced(u, u.stored.lists, a)) :
                a \in activeAmong(u.stored.lists, u.stored.active)}

\* A new tab on a browser with the lists of an earlier visit, or none; or a later
\* moment of a visit, nothing under way and in step with the server.
Init ==
    \E i \in ServerLists \cap Edited, now \in {"empty", "real"}, before \in {"gone", "empty", "real"} :
        LET server == [NoLists EXCEPT ![i] = now]
            tab == [lists |-> NoLists, active |-> "none",
                    stored |-> [lists |-> [NoLists EXCEPT ![i] = before],
                                active |-> IF before = "gone" THEN "none" ELSE i],
                    server |-> server, loading |-> FALSE, calls |-> [n \in 1..MaxCalls |-> Idle],
                    rolledBack |-> FALSE, sync |-> "no", sent |-> 0]
        IN  \/ ui \in Loads(tab, "none")
            \/ ui = persistToStorage([Replaced(tab, server, i) EXCEPT !.sync = "yes"])

\* The terminal and the trading page load the lists when they are opened.
loadWatchlist == Free(ui) /\ ui' \in Loads(ui, "none")

setActiveWatchlist(i) ==
    /\ i \in Existing(ui.lists)
    /\ ui' = persistToStorage(Replaced(ui, ui.lists, i))

createWatchlist == Free(ui) /\ \E i \in Fresh(ui) : ui' = Send(ui, call("create", i))

\* An index basket: a local list that replaces the one of the same index.
openIndexWatchlist(i) ==
    /\ i \in LocalLists
    /\ ui' = persistToStorage(Replaced(ui, [ui.lists EXCEPT ![i] = "empty"], i))

renameWatchlist(i) ==
    /\ i \in Existing(ui.lists)
    /\ \/ i \in LocalLists /\ ui' = persistToStorage(ui)
       \/ i \in ServerLists /\ Free(ui) /\ ui' = Send(ui, call("rename", i))

\* The last list cannot be deleted; another takes the place of the active one.
deleteWatchlist(i) ==
    /\ i \in Existing(ui.lists) /\ Cardinality(Existing(ui.lists)) > 1
    /\ \E next \in IF ui.active = i THEN Existing(ui.lists) \ {i} ELSE {ui.active} :
         LET u == [ui EXCEPT !.lists[i] = "gone", !.active = next]
         IN  \/ i \in LocalLists /\ ui' = persistToStorage(u)
             \/ i \in ServerLists /\ Free(ui) /\ ui' = Send(u, snapshotCall("delete", i, ui, next))

\* To the active list, unless it is there already; a local list stays as it is.
Added(u) ==
    LET v == persistToStorage([u EXCEPT !.lists[u.active] = "temp"])
    IN  IF u.active \notin Edited \cap Existing(u.lists) \/ u.lists[u.active] # "empty" THEN u
        ELSE IF u.active \in LocalLists THEN v ELSE Send(v, call("add", u.active))

\* Without lists it loads them first.
addItem ==
    /\ Free(ui)
    /\ IF ui.active = "none" THEN ui' \in Loads(ui, "add") ELSE ui' = Added(ui) /\ ui' # ui

removeItem ==
    /\ ui.active \in Edited \cap Existing(ui.lists) /\ ui.lists[ui.active] \in {"temp", "real"}
    /\ LET u == persistToStorage([ui EXCEPT !.lists[ui.active] = "empty"])
       IN  \/ ui.active \in LocalLists /\ ui' = u
           \/ /\ ui.active \in ServerLists /\ Free(ui)
              /\ ui' = Send(u, snapshotCall("remove", ui.active, ui, "none"))

\* The star of the search bar, and of the header of the chart, looks at the
\* active list as it is by then.
handleStarClick == addItem \/ removeItem

--------------------------------------------------------------------------------
(* The server: a call takes effect or fails; the answer of one that took        *)
(* effect may still be lost, which the page sees as a failure. The entry of a   *)
(* temporary id is not known to it.                                             *)

\* A load may find default lists missing and make one. (With the backend as it is
\* it always does when there is none; the page does not count on it.)
Effects(c) ==
    CASE c.op = "load" -> {ui.server} \cup {[ui.server EXCEPT ![i] = "empty"] : i \in Fresh(ui)}
      [] c.op \in {"create", "default"} -> {[ui.server EXCEPT ![c.id] = "empty"]}
      [] c.op = "delete" -> {[ui.server EXCEPT ![c.id] = "gone"]}
      [] c.op = "add" -> {[ui.server EXCEPT ![c.id] = "real"]}
      [] c.op = "remove" -> {[ui.server EXCEPT ![c.id] = "empty"]}
      [] OTHER -> {ui.server}

Possible(c) ==
    CASE c.op \in {"load", "create", "default"} -> TRUE
      [] c.op = "add" -> ui.server[c.id] = "empty"
      [] c.op = "remove" -> ui.server[c.id] = "real" /\ c.lists[c.id] = "real"
      [] OTHER -> ui.server[c.id] # "gone"

Serve(n) ==
    LET c == ui.calls[n]
    IN  /\ c.at = "sent"
        /\ \/ /\ Possible(c)
              /\ \E server \in Effects(c), at \in {"ok", "err"} :
                   ui' = [ui EXCEPT
                       !.calls[n] = [c EXCEPT !.at = at, !.lists = IF c.op = "load" THEN server ELSE @],
                       !.server = server, !.sync = IF at = "ok" THEN @ ELSE "no"]
           \/ ui' = [ui EXCEPT !.calls[n].at = "err"]

Ended(n) == [ui EXCEPT !.calls[n] = Idle]
Answered(n, op) == ui.calls[n].op = op /\ ui.calls[n].at # "sent"

\* The end of a load, and what addItem does then.
Finished(u, c) == IF c.next = "add" THEN Added([u EXCEPT !.loading = FALSE]) ELSE [u EXCEPT !.loading = FALSE]

\* A load that failed leaves what was stored, or a local list where nothing was.
localFallback(u, c) ==
    IF c.active # "none" THEN {[u EXCEPT !.sync = "no"]}
    ELSE {persistToStorage([Replaced(u, [NoLists EXCEPT ![i] = "empty"], i) EXCEPT !.sync = "no"]) :
            i \in LocalLists}

\* The server's lists replace those in memory, local ones included; the id that
\* was stored when the load began chooses the active one. Where the server has
\* none, a default list is asked for.
LoadAnswers(n) ==
    LET c == ui.calls[n]  u == Ended(n)
        synced == IF ui.sync = "loading" THEN "yes" ELSE "no"
    IN  /\ Answered(n, "load")
        /\ \/ /\ c.at = "ok" /\ Existing(c.lists) # {}
              /\ \E a \in activeAmong(c.lists, c.active) :
                   ui' = Finished(persistToStorage([Replaced(u, c.lists, a) EXCEPT !.sync = synced]), c)
           \/ /\ c.at = "ok" /\ Existing(c.lists) = {}
              /\ \E i \in Fresh(ui) :
                   ui' = [ui EXCEPT !.calls[n] =
                            [call("default", i) EXCEPT !.active = c.active, !.next = c.next]]
           \/ c.at = "err" /\ \E v \in localFallback(u, c) : ui' = Finished(v, c)

DefaultAnswers(n) ==
    LET c == ui.calls[n]  u == Ended(n)
        synced == IF ui.sync = "loading" THEN "yes" ELSE "no"
    IN  /\ Answered(n, "default")
        /\ \/ /\ c.at = "ok"
              /\ ui' = Finished(persistToStorage(
                     [Replaced(u, [NoLists EXCEPT ![c.id] = "empty"], c.id) EXCEPT !.sync = synced]), c)
           \/ c.at = "err" /\ \E v \in localFallback(u, c) : ui' = Finished(v, c)

CreateAnswers(n) ==
    LET c == ui.calls[n]  u == Ended(n)
    IN  /\ Answered(n, "create")
        /\ ui' = IF c.at = "err" THEN u
                 ELSE persistToStorage(Replaced(u, [u.lists EXCEPT ![c.id] = "empty"], c.id))

\* A failed rename loads everything again.
RenameAnswers(n) ==
    LET c == ui.calls[n]  u == Ended(n)
    IN  /\ Answered(n, "rename")
        /\ IF c.at = "err" THEN ui' \in Loads(u, "none") ELSE ui' = persistToStorage(u)

\* A failed delete restores the lists and the active id as it found them; a
\* successful one stores them as it left them.
DeleteAnswers(n) ==
    LET c == ui.calls[n]  u == Ended(n)
    IN  /\ Answered(n, "delete")
        /\ ui' = IF c.at = "err"
                 THEN [u EXCEPT !.lists = c.lists, !.active = c.active,
                                !.rolledBack = c.active \notin Existing(c.lists)]
                 ELSE [u EXCEPT !.stored = [lists |-> [c.lists EXCEPT ![c.id] = "gone"], active |-> c.next]]

\* Success gives the entry its id, failure takes the temporary entry out, in
\* whatever the list has become.
AddAnswers(n) ==
    LET c == ui.calls[n]  u == Ended(n)
        content == IF c.at = "ok" THEN "real" ELSE "empty"
    IN  /\ Answered(n, "add")
        /\ ui' = persistToStorage(IF u.lists[c.id] = "temp" THEN [u EXCEPT !.lists[c.id] = content] ELSE u)

RemoveAnswersKeepsEntry(n) ==
    LET c == ui.calls[n]  u == Ended(n)
    IN  Answered(n, "remove") /\ ui' = u

\* Failure restores every list as it was, and leaves the active id.
RemoveAnswers(n) ==
    LET c == ui.calls[n]  u == Ended(n)
    IN  /\ Answered(n, "remove")
        /\ ui' = IF c.at = "ok" THEN u
                 ELSE [u EXCEPT !.lists = c.lists, !.rolledBack = TRUE,
                                !.stored = [lists |-> c.lists, active |-> c.active]]

Answers ==
    \E n \in 1..MaxCalls :
        \/ Serve(n) \/ LoadAnswers(n) \/ DefaultAnswers(n) \/ CreateAnswers(n) \/ RenameAnswers(n)
        \/ DeleteAnswers(n) \/ AddAnswers(n) \/ RemoveAnswers(n)

Next ==
    \/ loadWatchlist \/ createWatchlist \/ handleStarClick \/ Answers
    \/ \E i \in Ids : \/ setActiveWatchlist(i) \/ openIndexWatchlist(i)
                      \/ renameWatchlist(i) \/ deleteWatchlist(i)

--------------------------------------------------------------------------------
\* The skeleton is shown only while a load, or the default list it asks for, is
\* under way.
NothingLocked == ui.loading => \E n \in Under(ui) : ui.calls[n].op \in {"load", "default"}

\* The active id names a list, through optimistic changes, overlapping answers and
\* rollbacks: a removal that failed restores older lists under the newer active
\* id, and until the next load or choice of a list that one may be gone. And a
\* load that nothing overlapped makes good whatever rollbacks did before it: from
\* there, one change after another, failed ones included, the page at rest shows
\* the lists of the server, entry by entry.
ShownIsTrue ==
    /\ Existing(ui.lists) # {} => ui.rolledBack \/ ui.active \in Existing(ui.lists)
    /\ ui.sync = "yes" /\ Under(ui) = {}
        => \A i \in ServerLists : ui.lists[i] = ui.server[i]
================================================================================
