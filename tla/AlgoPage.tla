------------------------------- MODULE AlgoPage -------------------------------
(* Algorithmic strategies of the user: a list fetched as a whole after every    *)
(* change, a chart of the selected range, and dialogs to create, edit and       *)
(* delete a strategy or read its log.                                           *)
EXTENDS PageCalls

CONSTANTS Strategies, Ranges

VARIABLE ui

Books == [Strategies -> {"absent", "off", "on"}]
Nothing == [s \in Strategies |-> "absent"]
NoStrategy == "none"
Ops == {"ensure", "load", "chart", "toggle", "delete", "update", "create", "logs"}

TypeOK ==
    /\ CallsOK(ui.calls, Ops, Strategies \cup Ranges \cup {NoStrategy}, Books)
    /\ ui \in [server : Books, shown : Books, range : Ranges, chart : Ranges \cup {"none"},
               loading : BOOLEAN, dialog : {"none", "new", "edit"},
               target : Strategies \cup {NoStrategy},
               logs : Strategies \cup {NoStrategy}, busy : BOOLEAN, raced : BOOLEAN,
               calls : {ui.calls}]

--------------------------------------------------------------------------------
\* Two loads under way may be applied in either order.
loadData(u, i) ==
    [Follow(u, i, call("load", u.range)) EXCEPT !.raced = @ \/ Under(u, "load") # {}]

\* Mounting, and again every change of the range.
initPage(u) == Send(u, call("ensure", NoStrategy))

Init ==
    \E s \in [Strategies -> {"absent", "off"}], r \in Ranges :
        ui = initPage([server |-> s, shown |-> Nothing, range |-> r, chart |-> "none",
                       loading |-> TRUE, dialog |-> "none", target |-> NoStrategy,
                       logs |-> NoStrategy, busy |-> FALSE, raced |-> FALSE, calls |-> NoCalls])

\* The page is a spinner until the first load ends; a dialog covers it.
Rendered == ~ui.loading /\ ui.dialog = "none" /\ ui.logs = NoStrategy

handleRangeChange(r) ==
    /\ Rendered /\ CanSend(ui, 2)
    /\ LET u == Send([ui EXCEPT !.range = r], call("chart", r))
       IN  ui' = IF r = ui.range THEN u ELSE initPage(u)

\* A row has its switch and a menu; an active strategy cannot be deleted.
Listed(s) == Rendered /\ ui.shown[s] # "absent" /\ CanSend(ui, 1)

handleToggle(s) == Listed(s) /\ ui' = Send(ui, call("toggle", s))
handleDelete(s) == Listed(s) /\ ui.shown[s] = "off" /\ ui' = Send(ui, call("delete", s))
handleViewLogs(s) == Listed(s) /\ ui' = Send(ui, call("logs", s))

openDialog(d, s) == [ui EXCEPT !.dialog = d, !.target = s, !.busy = FALSE]
setEditStrategy(s) == Listed(s) /\ ui' = openDialog("edit", s)
setShowNewStrategy == Rendered /\ ui' = openDialog("new", NoStrategy)

closed(u) ==
    Orphan([u EXCEPT !.dialog = "none", !.target = NoStrategy, !.busy = FALSE], Ops)
onClose == ui.dialog # "none" /\ ui' = closed(ui)
closeLogs == ui.logs # NoStrategy /\ ui' = [ui EXCEPT !.logs = NoStrategy]

\* Save or create, disabled while one is under way; a create without a name or
\* a symbol is reported and goes no further.
handleSubmit(op) ==
    /\ ui.dialog = (IF op = "create" THEN "new" ELSE "edit") /\ ~ui.busy /\ CanSend(ui, 1)
    /\ ui' = Send([ui EXCEPT !.busy = TRUE], dialogCall(op, ui.target))

--------------------------------------------------------------------------------
(* The backend; which strategy a create makes is its choice, and a user without any *)
(* is given the default ones.                                                       *)

Possible(u, c) ==
    CASE c.op = "toggle" -> u.server[c.id] # "absent"
      [] c.op = "delete" -> u.server[c.id] = "off"
      [] c.op = "update" -> u.server[c.id] # "absent"
      [] c.op = "create" -> \E s \in Strategies : u.server[s] = "absent"
      [] OTHER -> TRUE

New(u) == CHOOSE s \in Strategies : u.server[s] = "absent"

Effect(u, c) ==
    CASE c.op = "toggle" -> [u EXCEPT !.server[c.id] = IF @ = "on" THEN "off" ELSE "on"]
      [] c.op = "delete" -> [u EXCEPT !.server[c.id] = "absent"]
      [] c.op = "create" -> [u EXCEPT !.server[New(u)] = "off"]
      [] c.op = "ensure" /\ u.server = Nothing ->
           [u EXCEPT !.server = [s \in Strategies |-> "off"]]
      [] OTHER -> u

\* A create answers the strategy it made.
Got(u, c) ==
    CASE c.op = "load" -> {u.server}
      [] c.op = "create" -> {[Nothing EXCEPT ![New(u)] = "off"]}
      [] OTHER -> {}

Serve(i) == ui' \in Outcomes(ui, i, Possible, Effect, Got)

--------------------------------------------------------------------------------
\* A failure of the defaults is ignored.
EnsureAnswers(i) == Answered(ui, i, "ensure") /\ ui' = loadData(ui, i)

\* Each part of a load is applied if it did not fail.
LoadAnswers(i) ==
    /\ Answered(ui, i, "load")
    /\ \E listed, charted \in BOOLEAN :
         /\ listed => ui.calls[i].got # {}
         /\ ui.calls[i].at = "ok" => listed /\ charted
         /\ ui' = End([ui EXCEPT !.loading = FALSE,
                                 !.shown = IF listed THEN Reply(ui, i) ELSE @,
                                 !.chart = IF charted THEN ui.calls[i].id ELSE @,
                                 !.raced = @ \/ ~listed], i)

ChartAnswers(i) ==
    /\ Answered(ui, i, "chart")
    /\ ui' = End([ui EXCEPT !.chart = IF ui.calls[i].at = "ok" THEN ui.calls[i].id ELSE @], i)

LogsAnswers(i) ==
    /\ Answered(ui, i, "logs")
    /\ ui' = IF ui.calls[i].at = "err" THEN End(ui, i)
             ELSE End([ui EXCEPT !.logs = ui.calls[i].id], i)

ChangeAnswersOnly(i, op) ==
    /\ Answered(ui, i, op)
    /\ ui' = End([ui EXCEPT !.raced = @ \/ ui.calls[i].at = "err"], i)

\* Toggle and delete: the list is fetched again. After a failure it is not.
ChangeAnswers(i, op) ==
    /\ Answered(ui, i, op)
    /\ ui' = IF ui.calls[i].at = "err" THEN End([ui EXCEPT !.raced = TRUE], i) ELSE loadData(ui, i)

\* The dialog closes, a created strategy is put first in the list, and the list
\* is fetched again. After a failure the dialog stays open.
SubmitAnswers(i, op) ==
    /\ Answered(ui, i, op)
    /\ ui' = IF ui.calls[i].at = "err"
             THEN End([ui EXCEPT !.raced = TRUE, !.busy = @ /\ ~ui.calls[i].mine], i)
             ELSE LET new == Reply(ui, i)
                      u == IF op = "create" THEN [ui EXCEPT !.shown = [s \in Strategies |->
                                IF ui.shown[s] = "absent" THEN new[s] ELSE ui.shown[s]]] ELSE ui
                  IN  loadData(closed(u), i)

Answers ==
    \E i \in DOMAIN ui.calls :
        \/ Serve(i) \/ EnsureAnswers(i) \/ LoadAnswers(i) \/ ChartAnswers(i) \/ LogsAnswers(i)
        \/ \E op \in {"toggle", "delete"} : ChangeAnswers(i, op)
        \/ \E op \in {"update", "create"} : SubmitAnswers(i, op)

Next ==
    \/ Answers \/ onClose \/ closeLogs \/ setShowNewStrategy
    \/ \E r \in Ranges : handleRangeChange(r)
    \/ \E op \in {"update", "create"} : handleSubmit(op)
    \/ \E s \in Strategies :
         handleToggle(s) \/ handleDelete(s) \/ handleViewLogs(s) \/ setEditStrategy(s)

--------------------------------------------------------------------------------
Mine(op) == {i \in Under(ui, op) : ui.calls[i].mine}

\* The spinner of the page and the disabled button of a dialog last only while
\* the calls that end them are under way.
NothingLocked ==
    /\ ui.loading => Under(ui, "ensure") \cup Under(ui, "load") # {}
    /\ ui.busy => Mine("update") \cup Mine("create") # {}

\* A dialog has one submission under way.
OneSubmission == Cardinality(Mine("update") \cup Mine("create")) <= 1

\* Every change ends in a fetch of the list: with nothing under way the list is
\* the backend's, unless a call failed or two fetches of the list overlapped.
ShownIsTrue == Quiet(ui) /\ ~ui.raced => ui.shown = ui.server
================================================================================
