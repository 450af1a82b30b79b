----------------------------- MODULE AcademyPages -----------------------------
(* The academy: the dashboard of a teacher, who adds students to the roster,    *)
(* publishes challenges and inspects the logs of a student, and the challenges  *)
(* a student accepts. Both lists are fetched again after a change; a fetch that *)
(* fails is shown as an empty list.                                             *)
EXTENDS PageCalls

CONSTANT Students   \* on a teacher's roster; for a student, the challenges

VARIABLE ui

None == "none"
Rosters == SUBSET Students

\* For a student `shown` are the challenges accepted, of those the last load
\* listed. logs: the student whose logs are on screen; raced: loads overlapped or failed,
\* another student was inspected, or an answer was lost.
TypeOK ==
    /\ CallsOK(ui.calls, {"load", "add", "create", "logs", "enroll"}, Students \cup {None}, Rosters)
    /\ ui \in [teacher : BOOLEAN, server : Rosters, shown : Rosters, listed : BOOLEAN, loading : BOOLEAN,
               dialog : {None, "student", "challenge"}, adding : BOOLEAN, creatingCh : BOOLEAN,
               selected : Students \cup {None}, logs : Students \cup {None}, loadingLogs : BOOLEAN,
               enrolling : Students \cup {None}, raced : BOOLEAN, crossed : BOOLEAN, calls : {ui.calls}]

-------------------------------------------------------------------------------
\* Not awaited by the handlers that ask for it: it takes the slot of their call.
loadDashboardData(u, i) ==
    [u EXCEPT !.loading = TRUE, !.raced = @ \/ Under(u, "load") # {}, !.calls[i] = call("load", None)]

Mounted(teacher, server) ==
    loadDashboardData([teacher |-> teacher, server |-> server, shown |-> {}, listed |-> FALSE, loading |-> FALSE,
                       dialog |-> None, adding |-> FALSE, creatingCh |-> FALSE, selected |-> None, logs |-> None,
                       loadingLogs |-> FALSE, enrolling |-> None, raced |-> FALSE, crossed |-> FALSE,
                       calls |-> NoCalls], 1)

Init == \E teacher \in BOOLEAN, server \in Rosters : ui = Mounted(teacher, server)

\* The page is left and opened again, with nothing under way.
Reopen == Quiet(ui) /\ ui' = Mounted(ui.teacher, ui.server)

\* The page, instead of its skeleton; a dialog or the logs of a student cover it.
Rendered == ~ui.loading
Page == Rendered /\ ui.dialog = None /\ ui.selected = None

setShowDialog ==
    \/ /\ ui.teacher /\ Page
       /\ \E d \in {"student", "challenge"} : ui' = [ui EXCEPT !.dialog = d]
    \/ Rendered /\ ui.dialog # None /\ ui' = [ui EXCEPT !.dialog = None]

handleAddStudentSubmit ==
    \E s \in Students :
        /\ Rendered /\ ui.dialog = "student" /\ ~ui.adding /\ CanSend(ui, 1)
        /\ ui' = Send([ui EXCEPT !.adding = TRUE], call("add", s))

handleCreateChallengeSubmit ==
    /\ Rendered /\ ui.dialog = "challenge" /\ ~ui.creatingCh /\ CanSend(ui, 1)
    /\ ui' = Send([ui EXCEPT !.creatingCh = TRUE], call("create", None))

handleInspectStudentLogs ==
    \E s \in ui.shown :
        /\ ui.teacher /\ Page /\ CanSend(ui, 1)
        /\ ui' = Send([ui EXCEPT !.selected = s, !.loadingLogs = TRUE, !.crossed = @ \/ Under(ui, "logs") # {}],
                      call("logs", s))

closeLogs == Rendered /\ ui.selected # None /\ ui' = [ui EXCEPT !.selected = None, !.logs = None]

\* One mark for all buttons: accepting another challenge frees the first one.
handleEnroll ==
    \E s \in Students \ ui.shown :
        /\ ~ui.teacher /\ Rendered /\ ui.listed /\ ui.enrolling # s /\ CanSend(ui, 1)
        /\ ui' = Send([ui EXCEPT !.enrolling = s], call("enroll", s))

-------------------------------------------------------------------------------
LoadAnswers(i) ==
    /\ Answered(ui, i, "load")
    /\ ui' = End([ui EXCEPT !.loading = FALSE, !.listed = ui.calls[i].at = "ok",
                            !.raced = @ \/ ui.calls[i].at = "err",
                            !.shown = IF ui.calls[i].at = "ok" THEN Reply(ui, i) ELSE {}], i)

\* Success closes the dialog that is open by now and loads again.
AddAnswers(i) ==
    LET done == [ui EXCEPT !.adding = FALSE]
    IN  /\ Answered(ui, i, "add")
        /\ ui' = IF ui.calls[i].at = "ok"
                 THEN loadDashboardData([done EXCEPT !.dialog = IF @ = "student" THEN None ELSE @], i)
                 ELSE End([done EXCEPT !.raced = TRUE], i)

CreateAnswers(i) ==
    /\ Answered(ui, i, "create")
    /\ ui' = End([ui EXCEPT !.creatingCh = FALSE,
                            !.dialog = IF ui.calls[i].at = "ok" /\ @ = "challenge" THEN None ELSE @], i)

\* Whoever is selected by now.
LogsAnswer(i) ==
    /\ Answered(ui, i, "logs")
    /\ ui' = End([ui EXCEPT !.loadingLogs = FALSE, !.crossed = @ \/ ui.calls[i].id # ui.selected,
                            !.logs = IF ui.calls[i].at = "ok" THEN ui.calls[i].id ELSE None], i)

EnrollAnswers(i) ==
    LET done == [ui EXCEPT !.enrolling = None]
    IN  /\ Answered(ui, i, "enroll")
        /\ ui' = IF ui.calls[i].at = "ok" THEN loadDashboardData(done, i) ELSE End([done EXCEPT !.raced = TRUE], i)

Possible(u, c) == TRUE
Effect(u, c) == IF c.op \in {"add", "enroll"} THEN [u EXCEPT !.server = @ \cup {c.id}] ELSE u
Got(u, c) == IF c.op = "load" THEN {u.server} ELSE {{}}
Serve(i) == ui' \in Outcomes(ui, i, Possible, Effect, Got)

Next ==
    \/ Reopen \/ setShowDialog \/ handleAddStudentSubmit \/ handleCreateChallengeSubmit
    \/ handleInspectStudentLogs \/ closeLogs \/ handleEnroll
    \/ \E i \in 1..MaxCalls :
           \/ Serve(i) \/ LoadAnswers(i) \/ AddAnswers(i) \/ CreateAnswers(i) \/ LogsAnswer(i) \/ EnrollAnswers(i)

-------------------------------------------------------------------------------
\* The skeleton of the page and the disabled buttons wait for a call under way.
NothingLocked ==
    /\ ui.loading => Under(ui, "load") # {}
    /\ ui.adding => Under(ui, "add") # {}
    /\ ui.creatingCh => Under(ui, "create") # {}
    /\ ui.loadingLogs => Under(ui, "logs") # {}
    /\ ui.enrolling # None => \E i \in Under(ui, "enroll") : ui.calls[i].id = ui.enrolling

\* A student is added and a challenge published once.
OneSubmission == Cardinality(Under(ui, "add")) <= 1 /\ Cardinality(Under(ui, "create")) <= 1

\* At rest the list is the server's, unless loads overlapped or failed; and the
\* logs are those of the student inspected, unless two were asked for.
ShownIsTrue ==
    /\ Quiet(ui) /\ ~ui.raced => ui.shown = ui.server
    /\ ~ui.crossed => ui.logs \in {None, ui.selected}
===============================================================================
