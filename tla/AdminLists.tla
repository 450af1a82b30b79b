------------------------------ MODULE AdminLists ------------------------------
(* The other lists of the control centre: the admins, in a dialog of their own, *)
(* fetched again after every change; the traders, fetched at every key of the   *)
(* search; and the exports.                                                     *)
EXTENDS PageCalls

CONSTANT Queries

VARIABLE ui

RosterActions == {"promote", "level", "revoke"}
Ops == RosterActions \cup {"admins", "traders", "export"}

\* current: the admins on screen are as the backend has them; traders: the query
\* of the traders on screen; raced, crossed: what was overtaken or failed, of the
\* admins and of the traders.
TypeOK ==
    /\ CallsOK(ui.calls, Ops, Queries \cup {"none"}, {"fresh"})
    /\ ui \in [dialog : BOOLEAN, current : BOOLEAN, adminsLoading : BOOLEAN, promoting : BOOLEAN,
               tab : {"users", "traders"}, query : Queries, traders : Queries \cup {"none"},
               tradersLoading : BOOLEAN, exporting : BOOLEAN, raced : BOOLEAN, crossed : BOOLEAN,
               calls : {ui.calls}]

--------------------------------------------------------------------------------
Init ==
    \E q \in Queries :
        ui = [dialog |-> FALSE, current |-> FALSE, adminsLoading |-> FALSE, promoting |-> FALSE,
              tab |-> "users", query |-> q, traders |-> "none", tradersLoading |-> FALSE,
              exporting |-> FALSE, raced |-> FALSE, crossed |-> FALSE, calls |-> NoCalls]

loadAdmins(u, i) ==
    [u EXCEPT !.adminsLoading = TRUE, !.raced = @ \/ Under(u, "admins") # {},
              !.calls[i] = call("admins", "none")]

openAdminManagement ==
    ~ui.dialog /\ CanSend(ui, 1) /\ ui' = loadAdmins([ui EXCEPT !.dialog = TRUE], Slot(ui))
onClose ==
    ui.dialog /\ ui' = Orphan([ui EXCEPT !.dialog = FALSE, !.promoting = FALSE], {"promote", "admins"})

\* The button is disabled during a promotion, the Enter key is not.
handlePromote ==
    /\ ui.dialog /\ CanSend(ui, 1)
    /\ ui' = Send([ui EXCEPT !.promoting = TRUE], dialogCall("promote", "none"))

\* The rows, while the list is not being fetched.
onRow(op) ==
    ui.dialog /\ ~ui.adminsLoading /\ CanSend(ui, 1) /\ ui' = Send(ui, call(op, "none"))

loadTraders(u, q) ==
    Send([u EXCEPT !.tradersLoading = TRUE, !.crossed = @ \/ Under(u, "traders") # {}],
         call("traders", q))

setAdminTab(t) ==
    /\ ~ui.dialog /\ CanSend(ui, 1)
    /\ LET u == [ui EXCEPT !.tab = t]
       IN  ui' = IF t = "traders" THEN loadTraders(u, ui.query) ELSE u
setTraderSearchQuery(q) ==
    ~ui.dialog /\ ui.tab = "traders" /\ CanSend(ui, 1) /\ ui' = loadTraders([ui EXCEPT !.query = q], q)

handleDownload ==
    /\ ~ui.dialog /\ ui.tab = "users" /\ ~ui.exporting /\ CanSend(ui, 1)
    /\ ui' = Send([ui EXCEPT !.exporting = TRUE], call("export", "none"))

--------------------------------------------------------------------------------
Possible(u, c) == TRUE
Effect(u, c) ==
    IF c.op \notin RosterActions THEN u
    ELSE [u EXCEPT !.current = FALSE,
                   !.calls = [i \in DOMAIN u.calls |-> [u.calls[i] EXCEPT !.got = {}]]]
Got(u, c) == IF c.op = "admins" THEN {"fresh"} ELSE {}
Serve(i) == ui' \in Outcomes(ui, i, Possible, Effect, Got)

Failed(i) == ui.calls[i].at = "err"

AdminsAnswer(i) ==
    /\ Answered(ui, i, "admins")
    /\ ui' = End([ui EXCEPT !.adminsLoading = FALSE, !.raced = @ \/ Failed(i),
                            !.current = IF Failed(i) THEN @ ELSE ui.calls[i].got # {},
                            !.promoting = @ /\ ~ui.calls[i].mine], i)

RosterAnswersOnly(i, op) ==
    /\ Answered(ui, i, op)
    /\ ui' = End([ui EXCEPT !.raced = @ \/ Failed(i), !.promoting = @ /\ ~ui.calls[i].mine], i)

\* The dialog waits for the list that follows a promotion, too.
RosterAnswers(i, op) ==
    /\ Answered(ui, i, op)
    /\ ui' = IF Failed(i)
             THEN End([ui EXCEPT !.raced = TRUE, !.promoting = @ /\ ~ui.calls[i].mine], i)
             ELSE [loadAdmins(ui, i) EXCEPT !.calls[i].mine = ui.calls[i].mine]

TradersAnswer(i) ==
    /\ Answered(ui, i, "traders")
    /\ ui' = End([ui EXCEPT !.tradersLoading = FALSE, !.crossed = @ \/ Failed(i),
                            !.traders = IF Failed(i) THEN @ ELSE ui.calls[i].id], i)

ExportAnswers(i) == Answered(ui, i, "export") /\ ui' = End([ui EXCEPT !.exporting = FALSE], i)

Answers ==
    \E i \in DOMAIN ui.calls :
        \/ Serve(i) \/ AdminsAnswer(i) \/ TradersAnswer(i) \/ ExportAnswers(i)
        \/ \E op \in RosterActions : RosterAnswers(i, op)

Next ==
    \/ Answers \/ openAdminManagement \/ onClose \/ handlePromote \/ handleDownload
    \/ \E op \in {"level", "revoke"} : onRow(op)
    \/ \E t \in {"users", "traders"} : setAdminTab(t)
    \/ \E q \in Queries : setTraderSearchQuery(q)

--------------------------------------------------------------------------------
\* The spinners and the disabled buttons last only while a call that ends them is
\* under way.
NothingLocked ==
    /\ ui.adminsLoading => Under(ui, "admins") # {}
    /\ ui.promoting => \E i \in DOMAIN ui.calls : ui.calls[i].mine
    /\ ui.tradersLoading => Under(ui, "traders") # {}
    /\ ui.exporting => Under(ui, "export") # {}

OneSubmission == Cardinality(Under(ui, "export")) <= 1

\* With nothing under way the admins on screen are as the backend has them and
\* the traders are those of the query, unless fetches of the same list overlapped
\* or a call failed.
ShownIsTrue ==
    Quiet(ui) =>
        /\ ui.dialog /\ ~ui.raced => ui.current
        /\ ui.tab = "traders" /\ ~ui.crossed => ui.traders = ui.query
================================================================================
