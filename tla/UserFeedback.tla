----------------------------- MODULE UserFeedback -----------------------------
(* What users send the operators of the platform.                               *)
(*                                                                              *)
(* The bug reports: a user files one and follows or deletes the user's own; an  *)
(* administrator filters all of them and changes their status. Both lists are   *)
(* fetched again after every change.                                            *)
(*                                                                              *)
(* The star that asks every user once for a rating: it checks with the backend, *)
(* comes in by timers, opens a card, and celebrates what was sent before it     *)
(* goes away for good. isOpen and the rating live in a store that survives the  *)
(* widget; the timers and the rest do not.                                      *)
EXTENDS PageCalls

CONSTANTS Reports, Queries

VARIABLE ui

--------------------------------------------------------------------------------
(* Bug reports *)

None == "none"
Books == [Reports -> {"absent", "open", "solved"}]
Nothing == [r \in Reports |-> "absent"]
Changes == {"submit", "delete", "update"}
Lists == {"list", "relist"}     \* a relist is awaited by the handler that asks for it

\* clicked: the filter when the update was asked for; rowsFor: the filter the rows
\* on screen were fetched with; deleting: the report whose delete button is
\* disabled; raced: fetches overlapped, or a call failed.
TypeOK ==
    /\ CallsOK(ui.calls, Changes \cup Lists, Reports \cup Queries \cup {None}, Books)
    /\ ui \in [admin : BOOLEAN, server : Books, shown : Books, query : Queries,
               clicked : Queries, rowsFor : Queries \cup {None}, loading : BOOLEAN,
               sending : BOOLEAN, deleting : Reports \cup {None}, saving : BOOLEAN,
               dialog : Reports \cup {None}, raced : BOOLEAN, calls : {ui.calls}]

--------------------------------------------------------------------------------
Race(u, b) == [u EXCEPT !.raced = @ \/ b]
Pending(u, ops) == {i \in DOMAIN u.calls : u.calls[i].op \in ops}

\* Of the user: all, of the administrator: those of the filter.
fetchReports(u, i, op, q) ==
    Race([u EXCEPT !.loading = TRUE, !.calls[i] = call(op, q)], Pending(u, Lists) # {})

FirstQuery == CHOOSE q \in Queries : TRUE

Mounted(admin, server) ==
    fetchReports([admin |-> admin, server |-> server, shown |-> Nothing, query |-> FirstQuery,
                  clicked |-> FirstQuery, rowsFor |-> None, loading |-> FALSE, sending |-> FALSE, deleting |-> None,
                  saving |-> FALSE, dialog |-> None, raced |-> FALSE, calls |-> NoCalls],
                 1, "list", FirstQuery)

Init == \E b \in BOOLEAN, s \in [Reports -> {"absent", "open"}] : ui = Mounted(b, s)

\* A dialog covers the page.
Page == ui.dialog = None /\ CanSend(ui, 1)

refreshButton == Page /\ ui' = fetchReports(ui, Slot(ui), "list", ui.query)

\* The rows, instead of the spinner.
openReport(r) ==
    ui.dialog = None /\ ~ui.loading /\ ui.shown[r] # "absent" /\ ui' = [ui EXCEPT !.dialog = r]
closeReport == ui.dialog # None /\ ui' = [ui EXCEPT !.dialog = None]

\* A title or a description too short is reported and goes no further.
handleSubmit ==
    /\ ~ui.admin /\ Page /\ ~ui.sending
    /\ ui' = Send([ui EXCEPT !.sending = TRUE], call("submit", None))

deleteReport ==
    /\ ~ui.admin /\ ui.dialog # None /\ ui.deleting # ui.dialog /\ CanSend(ui, 1)
    /\ ui' = Race(Send([ui EXCEPT !.deleting = ui.dialog], call("delete", ui.dialog)),
                  ui.deleting # None)

setFilters(q) ==
    /\ ui.admin /\ Page /\ q # ui.query
    /\ ui' = Race(fetchReports([ui EXCEPT !.query = q], Slot(ui), "list", q), ui.saving)

\* The handler remembers the filter for the fetch that follows.
submitUpdate ==
    /\ ui.admin /\ ui.dialog # None /\ ~ui.saving /\ CanSend(ui, 1)
    /\ ui' = Send([ui EXCEPT !.saving = TRUE, !.clicked = ui.query], call("update", ui.dialog))

--------------------------------------------------------------------------------
Possible(u, c) ==
    CASE c.op = "submit" -> \E r \in Reports : u.server[r] = "absent"
      [] c.op \in {"delete", "update"} -> u.server[c.id] # "absent"
      [] OTHER -> TRUE
Effect(u, c) ==
    CASE c.op = "submit" -> [u EXCEPT !.server[CHOOSE r \in Reports : u.server[r] = "absent"] = "open"]
      [] c.op = "delete" -> [u EXCEPT !.server[c.id] = "absent"]
      [] c.op = "update" -> [u EXCEPT !.server[c.id] = "solved"]
      [] OTHER -> u
Got(u, c) == IF c.op \in Lists THEN {u.server} ELSE {}
Serve(i) == ui' \in Outcomes(ui, i, Possible, Effect, Got)

Failed(i) == ui.calls[i].at = "err"
Fails(u, i) == End(Race(u, TRUE), i)

\* The end of the handler that waited for the list.
Awaited(u, op) ==
    IF op = "relist" THEN [u EXCEPT !.deleting = None, !.saving = FALSE, !.clicked = FirstQuery] ELSE u

ListAnswers(i, op) ==
    /\ Answered(ui, i, op)
    /\ LET u == Awaited([ui EXCEPT !.loading = FALSE], op)
       IN  ui' = IF Failed(i) THEN Fails(u, i)
                 ELSE End([u EXCEPT !.shown = Reply(ui, i), !.rowsFor = ui.calls[i].id], i)

\* The form is emptied, the list beside it fetched.
SubmitAnswers(i) ==
    /\ Answered(ui, i, "submit")
    /\ LET u == [ui EXCEPT !.sending = FALSE]
       IN  ui' = IF Failed(i) THEN Fails(u, i) ELSE fetchReports(u, i, "list", u.query)

\* Whichever dialog is open by now is closed.
ChangeAnswers(i, op) ==
    /\ Answered(ui, i, op)
    /\ ui' = IF Failed(i) THEN Fails(Awaited(ui, "relist"), i)
             ELSE fetchReports([ui EXCEPT !.dialog = None], i, "relist", ui.clicked)

Answers ==
    \E i \in DOMAIN ui.calls :
        \/ Serve(i) \/ SubmitAnswers(i) \/ \E op \in Lists : ListAnswers(i, op)
        \/ ChangeAnswers(i, "delete") \/ ChangeAnswers(i, "update")

Next ==
    \/ Answers \/ refreshButton \/ closeReport \/ handleSubmit \/ deleteReport \/ submitUpdate
    \/ \E r \in Reports : openReport(r)
    \/ \E q \in Queries : setFilters(q)

--------------------------------------------------------------------------------
NothingLocked ==
    /\ ui.loading => Pending(ui, Lists) # {}
    /\ ui.sending => Under(ui, "submit") # {}
    /\ ui.deleting # None \/ ui.saving => Pending(ui, {"delete", "update", "relist"}) # {}

OneSubmission ==
    /\ Cardinality(Under(ui, "submit")) <= 1 /\ Cardinality(Under(ui, "update")) <= 1
    /\ ui.raced \/ Cardinality(Under(ui, "delete")) <= 1

\* Nothing under way: the rows are those of the backend under the filter chosen,
\* unless fetches overlapped, the filter changed during an update, or a call failed.
ShownIsTrue == Quiet(ui) /\ ~ui.raced => ui.shown = ui.server /\ ui.rowsFor = ui.query

--------------------------------------------------------------------------------
(* The rating *)

Phases == {"idle", "entrance", "open", "closing", "rest", "celebrating"}
Timers == {"enter", "open", "rest", "done"}

\* recorded: the backend has a rating; done: the store's hasSubmitted; call, old:
\* what this widget, and one unmounted before, wait for; late: an old call wrote
\* to the store.
WidgetTypeOK ==
    ui \in [recorded : BOOLEAN, done : BOOLEAN, isOpen : BOOLEAN, rating : BOOLEAN,
            mounted : BOOLEAN, phase : Phases, card : BOOLEAN, submitting : BOOLEAN,
            timers : SUBSET Timers, call : {"none", "check", "post"}, old : {"none", "check", "post"},
            late : BOOLEAN]

--------------------------------------------------------------------------------
checkFeedbackStatus(u) == [u EXCEPT !.call = IF u.done THEN "none" ELSE "check"]

WidgetMounted(u) ==
    checkFeedbackStatus([u EXCEPT !.mounted = TRUE, !.phase = "idle", !.card = FALSE,
                                  !.submitting = FALSE, !.timers = {}])

WidgetInit ==
    \E b \in BOOLEAN :
        ui = WidgetMounted([recorded |-> b, done |-> FALSE, isOpen |-> FALSE, rating |-> FALSE,
                      mounted |-> TRUE, phase |-> "idle", card |-> FALSE, submitting |-> FALSE,
                      timers |-> {}, call |-> "none", old |-> "none", late |-> FALSE])

\* Nothing is rendered until the first timer has fired, nor once it is done.
Shown == ui.mounted /\ ~ui.done /\ ui.phase # "idle"

openWidget ==
    /\ Shown /\ ~ui.card /\ ~ui.submitting /\ ~ui.isOpen
    /\ ui' = [ui EXCEPT !.phase = "open", !.card = TRUE, !.isOpen = TRUE]

\* The button of the card, and the dark area around it.
closeWidget ==
    /\ Shown /\ ui.card /\ ~ui.submitting
    /\ ui' = [ui EXCEPT !.phase = "closing", !.isOpen = FALSE, !.timers = {"rest"}]

setCurrentRating == Shown /\ ui.card /\ ~ui.rating /\ ui' = [ui EXCEPT !.rating = TRUE]

\* Possible while the card is closing, too: the timer that would end it is cleared.
submitRating ==
    /\ Shown /\ ui.card /\ ui.rating /\ ~ui.submitting
    /\ ui' = [ui EXCEPT !.submitting = TRUE, !.timers = {}, !.call = "post"]

--------------------------------------------------------------------------------
\* A check that fails lets the widget come in, as if nothing had been sent.
CheckAnswers ==
    /\ ui.call = "check"
    /\ \/ ui.recorded /\ ui' = [ui EXCEPT !.call = "none", !.done = TRUE, !.timers = {}]
       \/ ui' = [ui EXCEPT !.call = "none", !.timers = {"enter", "open"}]

\* The timers of one check are in order; so is the celebration, the last of all.
Fires(t) == t \in ui.timers /\ ui.mounted /\ (t = "open" => "enter" \notin ui.timers)
Fired(t) == [ui EXCEPT !.timers = @ \ {t}]

EnterTimer == Fires("enter") /\ ui' = [Fired("enter") EXCEPT !.phase = "entrance"]
OpenTimer ==
    Fires("open") /\ ui' = [Fired("open") EXCEPT !.phase = "open", !.card = TRUE, !.isOpen = TRUE]
RestTimer ==
    Fires("rest") /\ ui' = [Fired("rest") EXCEPT !.phase = "rest", !.card = FALSE, !.rating = FALSE]
DoneTimer == Fires("done") /\ ui' = [Fired("done") EXCEPT !.done = TRUE]

\* A second rating is refused with 409 and counts as sent; the answer to the
\* first may have been lost. Confetti is launched before the last timer is set.
PostAnswers ==
    /\ ui.call = "post"
    /\ \/ ui' = [ui EXCEPT !.recorded = TRUE, !.call = "none", !.isOpen = FALSE, !.card = FALSE,
                           !.phase = "celebrating", !.timers = {"done"}]
       \/ \E b \in {ui.recorded, TRUE} :
            ui' = [ui EXCEPT !.recorded = b, !.call = "none", !.submitting = FALSE,
                             !.isOpen = TRUE, !.phase = "open"]

\* The handlers of an unmounted widget go on: they write the store and nothing else.
OldCheckAnswers ==
    /\ ui.old = "check"
    /\ \/ ui.recorded /\ ui' = [ui EXCEPT !.old = "none", !.done = TRUE, !.timers = {}]
       \/ ui' = [ui EXCEPT !.old = "none"]
OldPostAnswers ==
    /\ ui.old = "post"
    /\ \/ ui' = [ui EXCEPT !.recorded = TRUE, !.old = "none", !.late = TRUE, !.isOpen = FALSE]
       \/ ui' = [ui EXCEPT !.old = "none", !.late = TRUE, !.isOpen = TRUE]

\* The shell is left and entered again: the administration and the sign-in are
\* outside of it.
Unmount ==
    /\ ui.mounted /\ ui.old = "none"       \* a bound: one old call
    /\ ui' = [ui EXCEPT !.mounted = FALSE, !.timers = {}, !.call = "none", !.old = ui.call]
Mount == ~ui.mounted /\ ui' = WidgetMounted(ui)

WidgetAnswers ==
    \/ CheckAnswers \/ PostAnswers \/ OldCheckAnswers \/ OldPostAnswers
    \/ EnterTimer \/ OpenTimer \/ RestTimer \/ DoneTimer

WidgetNext ==
    WidgetAnswers \/ openWidget \/ closeWidget \/ setCurrentRating \/ submitRating \/ Unmount \/ Mount

--------------------------------------------------------------------------------
\* A card that closes, a celebration and a submission end by a timer or an answer
\* to come, and a star whose click is refused is about to open by itself; the
\* late answer to a widget unmounted before is the exception.
WidgetNotLocked ==
    ui.mounted /\ ~ui.done =>
        /\ ui.submitting => ui.call = "post" \/ "done" \in ui.timers
        /\ ui.phase = "closing" => ui.call = "post" \/ "rest" \in ui.timers
        /\ ui.phase = "celebrating" => "done" \in ui.timers
        /\ Shown /\ ui.isOpen /\ ~ui.card => ui.late \/ "open" \in ui.timers

\* The widget goes away for good only when a rating is recorded, and shows its
\* card in no phase but those of the card.
WidgetIsTrue ==
    /\ ui.done => ui.recorded
    /\ ui.mounted => (ui.card <=> ui.phase \in {"open", "closing"})
================================================================================
