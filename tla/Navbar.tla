-------------------------------- MODULE Navbar --------------------------------
(* The top bar of every page: its search, with the dialog that adds a symbol to *)
(* a watchlist in the same way, and its bell. The search and the bell share     *)
(* nothing: each is a specification of its own.                                 *)
EXTENDS PageCalls, Sequences, SequencesExt

CONSTANTS
    Queries,                    \* of the search
    Orders, Turns, MaxNotices   \* of the bell; Turns name the turns of the market session

VARIABLE ui

(* Searching. The popular symbols are offered before anything is typed. A query *)
(* waits for a pause in the typing; the call it then makes is never cancelled.  *)
(* Bar and dialog share nothing: here the one is left alone until the search of *)
(* the other is over.                                                           *)

None == "none"      \* nothing typed, nothing found, no timer
Texts == Queries \cup {None}

\* raced: the answer of an older query came last.
SearchOK ==
    /\ CallsOK(ui.calls, {"bar", "dialog", "popular"}, Texts, Texts)
    /\ ui \in [query : Texts, results : Texts, timer : Texts, focused : BOOLEAN, show : BOOLEAN,
               popular : BOOLEAN, raced : BOOLEAN, open : BOOLEAN, dialogQuery : Texts,
               dialogResults : Texts, dialogTimer : Texts, isSearching : BOOLEAN,
               dialogRaced : BOOLEAN, calls : {ui.calls}]

-------------------------------------------------------------------------------
\* The effect of another query, focus or list of popular symbols.
Debounced(u) ==
    IF u.query = None
    THEN [u EXCEPT !.timer = None, !.results = None, !.raced = FALSE, !.show = u.focused /\ u.popular]
    ELSE [u EXCEPT !.timer = u.query]

Commit(v) ==
    ui' = IF <<v.query, v.focused, v.popular>> = <<ui.query, ui.focused, ui.popular>>
          THEN v ELSE Debounced(v)

DialogRests == ui.dialogTimer = None /\ Under(ui, "dialog") = {} /\ ~ui.open
BarRests == ui.timer = None /\ Under(ui, "bar") \cup Under(ui, "popular") = {}

InitSearch ==
    ui = Send([query |-> None, results |-> None, timer |-> None, focused |-> FALSE, show |-> FALSE,
               popular |-> FALSE, raced |-> FALSE, open |-> FALSE, dialogQuery |-> None,
               dialogResults |-> None, dialogTimer |-> None, isSearching |-> FALSE,
               dialogRaced |-> FALSE, calls |-> NoCalls], call("popular", None))

onFocus ==
    /\ ~ui.focused /\ DialogRests
    /\ Commit([ui EXCEPT !.focused = TRUE, !.show = ui.results # None \/ ui.popular])

setSearchQuery == ui.focused /\ \E q \in Texts \ {ui.query} : Commit([ui EXCEPT !.query = q])

\* A click elsewhere, or the escape key.
Outside ==
    /\ ui.focused \/ ui.show
    /\ Commit([ui EXCEPT !.focused = FALSE, !.show = FALSE, !.query = None, !.results = None])

\* A row of what the dropdown lists: the results, or the popular symbols.
handleSelectStock ==
    /\ ui.show /\ IF ui.query = None THEN ui.popular ELSE ui.results # None
    /\ Commit([ui EXCEPT !.query = None, !.focused = FALSE, !.show = FALSE])

\* Another page: the focus stays.
RouteChange == DialogRests /\ Commit([ui EXCEPT !.query = None, !.results = None, !.show = FALSE])

TimerFires ==
    /\ ui.timer # None /\ CanSend(ui, 1)
    /\ ui' = Send([ui EXCEPT !.timer = None], call("bar", ui.timer))

PopularAnswers(i) ==
    /\ Answered(ui, i, "popular")
    /\ Commit(End([ui EXCEPT !.popular = ui.calls[i].at = "ok"], i))

\* Shown whatever is typed by now; a failure shows that nothing was found.
SearchAnswers(i) ==
    /\ Answered(ui, i, "bar")
    /\ \E found \in BOOLEAN :
           ui' = End([ui EXCEPT !.show = TRUE, !.raced = ui.calls[i].id # ui.query,
                                !.results = IF ui.calls[i].at = "ok" /\ found THEN ui.calls[i].id ELSE None], i)

-------------------------------------------------------------------------------
\* The dialog. It is kept while it is closed, and emptied when it opens.
openModal ==
    /\ ~ui.open /\ BarRests
    /\ ui' = [ui EXCEPT !.open = TRUE, !.focused = FALSE, !.show = FALSE, !.query = None, !.results = None,
                        !.timer = None, !.raced = FALSE, !.dialogQuery = None, !.dialogResults = None,
                        !.dialogTimer = None]
onClose == ui.open /\ ui' = [ui EXCEPT !.open = FALSE]

setDialogQuery ==
    \E q \in Texts \ {ui.dialogQuery} :
        /\ ui.open
        /\ ui' = IF q = None
                 THEN [ui EXCEPT !.dialogQuery = q, !.dialogTimer = None, !.dialogResults = None]
                 ELSE [ui EXCEPT !.dialogQuery = q, !.dialogTimer = q, !.isSearching = TRUE]

DialogTimerFires ==
    /\ ui.dialogTimer # None /\ CanSend(ui, 1)
    /\ ui' = Send([ui EXCEPT !.dialogTimer = None], call("dialog", ui.dialogTimer))

DialogAnswers(i) ==
    /\ Answered(ui, i, "dialog")
    /\ ui' = End([ui EXCEPT !.isSearching = FALSE, !.dialogRaced = ui.calls[i].id # ui.dialogQuery,
                            !.dialogResults = IF ui.calls[i].at = "ok" THEN ui.calls[i].id ELSE None], i)

\* A row of the results, instead of the spinner.
handleAdd ==
    /\ ui.open /\ ui.dialogQuery # None /\ ~ui.isSearching /\ ui.dialogResults # None
    /\ ui' = [ui EXCEPT !.dialogQuery = None, !.dialogTimer = None, !.dialogResults = None]

Serve(i) ==
    /\ ui.calls[i].at = "sent"
    /\ \E at \in {"ok", "err"} : ui' = [ui EXCEPT !.calls[i].at = at]

NextSearch ==
    \/ onFocus \/ setSearchQuery \/ Outside \/ handleSelectStock \/ RouteChange \/ TimerFires
    \/ openModal \/ onClose \/ setDialogQuery \/ DialogTimerFires \/ handleAdd
    \/ \E i \in 1..MaxCalls : Serve(i) \/ PopularAnswers(i) \/ SearchAnswers(i) \/ DialogAnswers(i)

-------------------------------------------------------------------------------
\* The spinner of the dialog is there only while what is typed will be answered.
SearchNotLocked ==
    ui.isSearching /\ ui.dialogQuery # None => ui.dialogTimer # None \/ Under(ui, "dialog") # {}

\* Once the typing and the calls are over, the results shown are those of the
\* text in the field, unless an older answer came last; and the popular symbols
\* are offered only in a field that has the focus.
SearchIsTrue ==
    /\ ui.timer = None /\ Under(ui, "bar") = {} /\ ~ui.raced => ui.results \in {None, ui.query}
    /\ ui.show /\ ui.query = None /\ ~ui.raced => ui.focused /\ ui.popular
    /\ ui.dialogTimer = None /\ Under(ui, "dialog") = {} /\ ui.dialogQuery # None /\ ~ui.dialogRaced =>
           ui.dialogResults \in {None, ui.dialogQuery}

-------------------------------------------------------------------------------
(* The bell: a notice for every order the portfolio store shows for the first   *)
(* time and for every turn of the market session, the newest first and no more  *)
(* than MaxNotices of them.                                                     *)

Statuses == {"PENDING", "FILLED", "REJECTED"}
Kind == [s \in Statuses |-> CASE s = "PENDING" -> "order_pending" [] s = "FILLED" -> "order_complete"
                              [] s = "REJECTED" -> "order_rejected"]
Notice == [id : Orders \cup Turns, type : {Kind[s] : s \in Statuses} \cup {"market"}, read : BOOLEAN]

\* gone: the notices that were dismissed, cleared or pushed out.
BellOK ==
    /\ \A i \in DOMAIN ui.notices : ui.notices[i] \in Notice
    /\ ui \in [orders : [Orders -> Statuses \cup {"none"}], seen : SUBSET Orders, notices : {ui.notices},
               bell : BOOLEAN, turned : SUBSET Turns, gone : SUBSET (Orders \cup Turns)]

--------------------------------------------------------------------------------
Ids(notices) == {notices[i].id : i \in DOMAIN notices}
Shorter(u, notices) == [u EXCEPT !.notices = notices, !.gone = @ \cup (Ids(u.notices) \ Ids(notices))]
Push(u, new) ==
    LET all == new \o u.notices
    IN  Shorter([u EXCEPT !.notices = all], SubSeq(all, 1, IF Len(all) < MaxNotices THEN Len(all) ELSE MaxNotices))

\* An order that was seen before is skipped, whatever became of it.
Noticed(u) ==
    LET unseen == {o \in Orders : u.orders[o] # "none"} \ u.seen
        notice(o) == [id |-> o, type |-> Kind[u.orders[o]], read |-> FALSE]
    IN  Push([u EXCEPT !.seen = @ \cup unseen], [i \in 1..Len(SetToSeq(unseen)) |-> notice(SetToSeq(unseen)[i])])

InitBell ==
    ui = [orders |-> [o \in Orders |-> "none"], seen |-> {}, notices |-> <<>>, bell |-> FALSE,
          turned |-> {}, gone |-> {}]

\* Orders are placed and change between two refreshes of the store.
refreshPortfolio ==
    \E orders \in [Orders -> Statuses \cup {"none"}] :
        /\ orders # ui.orders
        /\ \A o \in Orders :
               \/ orders[o] = ui.orders[o]
               \/ ui.orders[o] \in {"none", "PENDING"} /\ orders[o] # "none"
        /\ ui' = Noticed([ui EXCEPT !.orders = orders])

\* A notice of its own for every turn.
marketTurns ==
    \E t \in Turns \ ui.turned :
        ui' = Push([ui EXCEPT !.turned = @ \cup {t}], <<[id |-> t, type |-> "market", read |-> FALSE]>>)

\* Opening the panel reads everything in it.
toggleNotifications ==
    ui' = [ui EXCEPT !.bell = ~@,
                     !.notices = IF ui.bell THEN @ ELSE [i \in DOMAIN @ |-> [@[i] EXCEPT !.read = TRUE]]]

handleDismiss ==
    \E id \in Ids(ui.notices) : ui.bell /\ ui' = Shorter(ui, SelectSeq(ui.notices, LAMBDA n : n.id # id))

handleClearAll == ui.bell /\ ui.notices # <<>> /\ ui' = Shorter(ui, <<>>)

NextBell == refreshPortfolio \/ marketTurns \/ toggleNotifications \/ handleDismiss \/ handleClearAll

--------------------------------------------------------------------------------
\* No order is noticed twice, a notice that is gone does not come back, no order
\* of the store is missed, and what is unread is above what is read.
BellIsTrue ==
    /\ \A i, j \in DOMAIN ui.notices : ui.notices[i].id = ui.notices[j].id => i = j
    /\ Ids(ui.notices) \cap ui.gone = {}
    /\ \A o \in Orders : ui.orders[o] # "none" => o \in Ids(ui.notices) \cup ui.gone
    /\ \A i, j \in DOMAIN ui.notices : i < j /\ ~ui.notices[j].read => ~ui.notices[i].read
===============================================================================
