--------------------------- MODULE FuturesWatchlists ---------------------------
(* The futures watchlists, kept in the browser only: every change is written to  *)
(* local storage, from which the page loads them again. Lists that look like the *)
(* defaults of an earlier version are emptied by every load. A dialog looks up   *)
(* the contracts to add.                                                         *)
EXTENDS Naturals, FiniteSets

CONSTANTS
    ListIds,
    Contracts, Seeded,      \* contracts, and those whose names begin like a default's
    MaxSeeded,              \* the most contracts a default list has
    Underlyings, First      \* of the dialog

VARIABLE ui

None == "none"
Books == [there : SUBSET ListIds, items : [ListIds -> SUBSET Contracts],
          active : ListIds \cup {None}]
Empty == [there |-> {}, items |-> [l \in ListIds |-> {}], active |-> None]

\* wanted: what the user put on the lists; modal: the underlying looked up, or
\* none; call: the underlying whose contracts are awaited; limited: the client
\* refuses calls after an answer 429; held: a lookup was skipped for that reason.
TypeOK ==
    ui \in [book : Books, stored : Books, wanted : [ListIds -> SUBSET Contracts],
            open : BOOLEAN, under : Underlyings, results : Underlyings \cup {None},
            loading : BOOLEAN, call : Underlyings \cup {None}, limited : BOOLEAN, held : BOOLEAN]

--------------------------------------------------------------------------------
persistToStorage(u) == [u EXCEPT !.stored = u.book]

stripSeededDefaults(items) ==
    IF Cardinality(items) <= MaxSeeded /\ items \subseteq Seeded THEN {} ELSE items

\* A book without lists gets one; an active list that is gone is replaced by the
\* first. Which list is first is not told here.
ensureState(b) ==
    IF b.there # {}
    THEN {[b EXCEPT !.active = a] : a \in IF b.active \in b.there THEN {b.active} ELSE b.there}
    ELSE {[Empty EXCEPT !.there = {l}, !.active = l] : l \in ListIds}

\* By the page when it is mounted, and by an add without lists.
Loads(u) ==
    LET cached == [u.stored EXCEPT !.items = [l \in ListIds |-> stripSeededDefaults(u.stored.items[l])]]
    IN  {persistToStorage([u EXCEPT !.book = b]) : b \in ensureState(cached)}

\* A page without lists in the store and in the browser.
Init ==
    ui = [book |-> Empty, stored |-> Empty, wanted |-> Empty.items, open |-> FALSE,
          under |-> First, results |-> None, loading |-> FALSE, call |-> None, limited |-> FALSE,
          held |-> FALSE]

loadWatchlist == ui' \in Loads(ui)

Changed(b) == ui' = persistToStorage([ui EXCEPT !.book = b])

setActiveWatchlist(l) == l \in ui.book.there /\ Changed([ui.book EXCEPT !.active = l])

createWatchlist(l) ==
    /\ l \notin ui.book.there
    /\ ui' = persistToStorage([ui EXCEPT !.book.there = @ \cup {l}, !.book.active = l,
                                         !.book.items[l] = {}, !.wanted[l] = {}])

\* The last list cannot be deleted.
deleteWatchlist(l) ==
    /\ l \in ui.book.there /\ Cardinality(ui.book.there) > 1
    /\ \E a \in ui.book.there \ {l} :
         /\ l # ui.book.active => a = ui.book.active
         /\ ui' = persistToStorage([ui EXCEPT !.book.there = @ \ {l}, !.book.active = a,
                                              !.book.items[l] = {}, !.wanted[l] = {}])

\* From the dialog, which then closes, and from the star of the chart.
addItem(c) ==
    \E u \in IF ui.book.active = None THEN Loads(ui) ELSE {ui} :
        LET l == u.book.active
            v == persistToStorage([u EXCEPT !.book.items[l] = @ \cup {c}, !.wanted[l] = @ \cup {c}])
        IN  /\ c \notin u.book.items[l]
            /\ \/ ui.open /\ ui.results # None /\ ~ui.loading
                  /\ ui' = [v EXCEPT !.open = FALSE, !.results = None, !.call = None, !.held = FALSE]
               \/ ~ui.open /\ ui' = v

removeItem(c) ==
    /\ ui.book.active # None /\ c \in ui.book.items[ui.book.active]
    /\ ui' = persistToStorage([ui EXCEPT !.book.items[ui.book.active] = @ \ {c},
                                         !.wanted[ui.book.active] = @ \ {c}])

--------------------------------------------------------------------------------
(* The dialog. A lookup that is replaced or closed is cancelled, and with it the *)
(* end of its spinner.                                                           *)

loadContracts(u) ==
    IF u.limited THEN [u EXCEPT !.call = None, !.held = TRUE]
    ELSE [u EXCEPT !.call = u.under, !.loading = TRUE, !.held = FALSE]

openModal == ~ui.open /\ ui' = loadContracts([ui EXCEPT !.open = TRUE, !.under = First])
closeModal ==
    ui.open /\ ui' = [ui EXCEPT !.open = FALSE, !.results = None, !.call = None, !.held = FALSE]
setSelectedUnderlying(x) ==
    ui.open /\ x # ui.under /\ ui' = loadContracts([ui EXCEPT !.under = x])

ContractsAnswer ==
    /\ ui.call # None
    /\ \E r \in {ui.call, None} :
         ui' = [ui EXCEPT !.call = None, !.loading = FALSE, !.results = r]

RateLimit == ui' = [ui EXCEPT !.limited = ~@]

Next ==
    \/ loadWatchlist \/ openModal \/ closeModal \/ ContractsAnswer \/ RateLimit
    \/ \E l \in ListIds : setActiveWatchlist(l) \/ createWatchlist(l) \/ deleteWatchlist(l)
    \/ \E c \in Contracts : addItem(c) \/ removeItem(c)
    \/ \E x \in Underlyings : setSelectedUnderlying(x)

--------------------------------------------------------------------------------
\* The dialog's spinner waits for contracts that are being fetched; a lookup the
\* rate limit skipped leaves the spinner of a cancelled one turning.
NothingLocked == ui.open /\ ui.loading => ui.held \/ ui.call = ui.under

\* The lists on screen are those stored, one of them is active, and no contract
\* the user added is lost by a load, except of the bases of the old defaults; the
\* dialog offers the contracts of the underlying that is selected.
ShownIsTrue ==
    /\ ui.book = ui.stored
    /\ ui.book.there # {} => ui.book.active \in ui.book.there
    /\ \A l \in ui.book.there : ui.wanted[l] \ Seeded \subseteq ui.book.items[l]
    /\ ui.open /\ ~ui.loading /\ ui.results # None => ui.held \/ ui.results = ui.under
================================================================================
