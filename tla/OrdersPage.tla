------------------------------ MODULE OrdersPage ------------------------------
(* The order book page: the orders of the portfolio store as last fetched,     *)
(* filters over them, an optimistic cancel that restores a snapshot of the     *)
(* whole list when it fails, and an inline editor.                             *)
EXTENDS Naturals, FiniteSets

CONSTANTS
    Orders,         \* order ids
    MaxCalls        \* calls under way at the same time

VARIABLE ui

Status == {"absent", "open", "filled", "cancelled"}
Books == [Orders -> Status]
Nothing == [o \in Orders |-> "absent"]
\* A call: what it is, the order it is about, the list restored if it fails (of
\* a load: the list answered), and how far it is.
Calls == [op : {"load", "poll", "cancel", "modify"}, id : Orders \cup {"none"},
          list : Books, at : {"sent", "ok", "err"}]
call(op, o, list) == [op |-> op, id |-> o, list |-> list, at |-> "sent"]

TypeOK ==
    /\ ui \in [server : Books, shown : Books, calls : SUBSET Calls, refreshing : BOOLEAN,
               cancelling : Orders \cup {"none"}, editing : Orders \cup {"none"},
               overlap : BOOLEAN]
    /\ Cardinality(ui.calls) <= MaxCalls

--------------------------------------------------------------------------------
(* What the page shows. *)

getStatusKind(s) == CASE s = "open" -> "pending" [] s = "filled" -> "filled" [] OTHER -> "rejected"

\* The filters, the tabs and the order of the rows are the user's choice, and
\* some choice shows each row of the list: they are left open here.
Listed(u) == {o \in Orders : u.shown[o] # "absent"}

\* While the first load is under way the page is a skeleton without controls.
Rendered(u) == ~(u.refreshing /\ Listed(u) = {})

Pending(u, o) ==
    Rendered(u) /\ o \in Listed(u) /\ getStatusKind(u.shown[o]) = "pending"

\* The cancel button of a row: of a pending order, disabled during its own cancel.
CanCancel(u, o) == Pending(u, o) /\ u.cancelling # o

\* The editor of a row is part of its details, which the user can unfold.
CanSubmit(u, o) == Rendered(u) /\ o \in Listed(u) /\ u.editing = o

Free(u) == Cardinality(u.calls) < MaxCalls

--------------------------------------------------------------------------------
\* The page is opened on what the store holds and fetches the orders.
Init ==
    \E s \in [Orders -> {"absent", "open"}] : \E shown \in {Nothing, s} :
        ui = [server |-> s, shown |-> shown, calls |-> {call("load", "none", Nothing)},
              refreshing |-> TRUE, cancelling |-> "none", editing |-> "none", overlap |-> FALSE]

loadOrders ==
    /\ Rendered(ui) /\ ~ui.refreshing /\ Free(ui)
    /\ ui' = [ui EXCEPT !.refreshing = TRUE, !.calls = @ \cup {call("load", "none", Nothing)}]

\* The shell refreshes the portfolio every 30 s and on order events.
refreshPortfolio ==
    /\ Free(ui)
    /\ ui' = [ui EXCEPT !.calls = @ \cup {call("poll", "none", Nothing)}]

openModifyEditor(o) == Pending(ui, o) /\ ui' = [ui EXCEPT !.editing = o]

closeEditor == CanSubmit(ui, ui.editing) /\ ui' = [ui EXCEPT !.editing = "none"]

\* A draft that is not a quantity, or has no trigger price where one is needed,
\* is reported on the row and goes no further.
handleModifySubmit(o) ==
    /\ CanSubmit(ui, o) /\ Free(ui)
    /\ ui' = [ui EXCEPT !.calls = @ \cup {call("modify", o, Nothing)}]

handleCancelOrder(o) ==
    /\ CanCancel(ui, o) /\ Free(ui)
    /\ ui' = [ui EXCEPT !.cancelling = o,
                        !.calls = @ \cup {call("cancel", o, ui.shown)},
                        !.shown[o] = "cancelled",
                        !.overlap = @ \/ \E c \in ui.calls : c.op = "cancel" /\ c.id # o]

--------------------------------------------------------------------------------
(* The backend: orders appear and fill, calls are served; an answer may be     *)
(* lost, so that the page sees a timeout of a call that took effect.           *)

ServerMoves(o) ==
    \/ ui.server[o] = "absent" /\ ui' = [ui EXCEPT !.server[o] = "open"]
    \/ ui.server[o] = "open" /\ ui' = [ui EXCEPT !.server[o] = "filled"]

Serve(c) ==
    /\ c \in ui.calls /\ c.at = "sent"
    /\ \E at \in {"ok", "err"} :
         LET took == c.op = "cancel" /\ ui.server[c.id] = "open"
             done == [c EXCEPT !.at = at, !.list = IF c.op \in {"load", "poll"} THEN ui.server ELSE @]
         IN  /\ c.op = "cancel" /\ ~took => at = "err"
             /\ \E effect \in (IF took THEN {TRUE} \cup {at = "ok"} ELSE {FALSE}) :
                  ui' = [ui EXCEPT !.calls = (@ \ {c}) \cup {done},
                                   !.server = IF effect THEN [@ EXCEPT ![c.id] = "cancelled"] ELSE @]

LoadAnswers(c) ==
    /\ c \in ui.calls /\ c.at # "sent" /\ c.op \in {"load", "poll"}
    /\ ui' = [ui EXCEPT !.calls = @ \ {c},
                        !.shown = IF c.at = "ok" THEN c.list ELSE @,
                        !.refreshing = IF c.op = "load" THEN FALSE ELSE @]

\* Success closes whichever editor is open.
ModifyAnswers(c) ==
    /\ c \in ui.calls /\ c.at # "sent" /\ c.op = "modify"
    /\ ui' = [ui EXCEPT !.calls = @ \ {c}, !.editing = IF c.at = "ok" THEN "none" ELSE @]

CancelAnswersKeepsList(c) ==
    /\ c \in ui.calls /\ c.at # "sent" /\ c.op = "cancel"
    /\ ui' = [ui EXCEPT !.calls = @ \ {c}, !.cancelling = "none"]

\* A failed cancel puts the list back as it was when the cancel began.
CancelAnswers(c) ==
    /\ c \in ui.calls /\ c.at # "sent" /\ c.op = "cancel"
    /\ ui' = [ui EXCEPT !.calls = @ \ {c}, !.cancelling = "none",
                        !.shown = IF c.at = "err" THEN c.list ELSE @]

Answers == \E c \in ui.calls : Serve(c) \/ LoadAnswers(c) \/ ModifyAnswers(c) \/ CancelAnswers(c)

Next ==
    \/ loadOrders \/ refreshPortfolio \/ closeEditor \/ Answers
    \/ \E o \in Orders : \/ openModifyEditor(o) \/ handleModifySubmit(o)
                         \/ handleCancelOrder(o) \/ ServerMoves(o)

--------------------------------------------------------------------------------
Under(op) == {c \in ui.calls : c.op = op}

\* The refresh button and a row's cancel button are disabled only while the call
\* that enables them again is under way (the finally blocks of loadOrders and
\* handleCancelOrder run on every path).
NothingLocked ==
    /\ ui.refreshing => Under("load") # {}
    /\ ui.cancelling # "none" => \E c \in Under("cancel") : c.id = ui.cancelling

\* An order is not cancelled twice at once, also when a load that was served
\* before the cancel shows it as open again; cancels of two orders share one
\* flag and are the exception.
OneSubmission ==
    ui.overlap \/ \A o \in Orders : Cardinality({c \in Under("cancel") : c.id = o}) <= 1

\* Once its cancel has ended, an order shown as cancelled is cancelled: the
\* optimistic row of a failed cancel does not stay. Two cancels that overlap
\* restore each other's snapshots and are the exception.
ShownIsTrue ==
    ui.overlap \/ Under("cancel") # {}
    \/ \A o \in Orders : ui.shown[o] = "cancelled" => ui.server[o] = "cancelled"
================================================================================
