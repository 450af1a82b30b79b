------------------------------ MODULE AdminForms ------------------------------
(* Two forms of a root administrator that are filled by whatever was fetched   *)
(* last. The page that overrides the figures of one user (Init, Next) fills its *)
(* form from a detail and saves it for the user that is selected; selecting a   *)
(* user starts the whole page again, too. The data feed panel (FeedInit,        *)
(* FeedNext) is overwritten by every status, that of a timer of 10 s included,  *)
(* and has one busy flag for the fetches and the connection to the broker.      *)
EXTENDS PageCalls

CONSTANT Users

VARIABLE ui


None == "none"
Names == Users \cup {None}

\* preset: the user of the address; detail: whose figures the form holds, edited
\* or not; astray: figures of another user were saved with nothing being fetched.
TypeOK ==
    /\ CallsOK(ui.calls, {"boot", "detail", "save", "after"}, Names, {"root", "other"})
    /\ ui \in [at : {"boot", "page", "denied", "left"}, preset : Names, selected : Names,
               detail : Names, detailLoading : BOOLEAN, saving : BOOLEAN, raced : BOOLEAN,
               astray : BOOLEAN, calls : {ui.calls}]

--------------------------------------------------------------------------------
\* Nothing is asked for no user; two details under way are applied in any order.
loadSelectedUserDetail(u, op, x) ==
    IF x = None THEN [u EXCEPT !.detail = None]
    ELSE Send([u EXCEPT !.detailLoading = TRUE,
                        !.raced = @ \/ Under(u, "detail") \cup Under(u, "after") # {}],
              call(op, x))

\* The effects of a changed selection: the page becomes a spinner and fetches
\* everything again, and the detail of the user beside it. The detail that follows
\* a save still under way is then another user's.
bootstrap(u) == Send([u EXCEPT !.at = "boot"], call("boot", u.selected))
setSelectedUserId(u, x) ==
    IF x = u.selected THEN u
    ELSE loadSelectedUserDetail(bootstrap([u EXCEPT !.selected = x, !.raced = @ \/ u.saving]), "detail", x)

Mounted(x) ==
    loadSelectedUserDetail(
        bootstrap([at |-> "boot", preset |-> x, selected |-> x, detail |-> None,
                   detailLoading |-> FALSE, saving |-> FALSE, raced |-> FALSE,
                   astray |-> FALSE, calls |-> NoCalls]), "detail", x)
Init == \E x \in Names : ui = Mounted(x)

select(x) == ui.at = "page" /\ CanSend(ui, 2) /\ ui' = setSelectedUserId(ui, x)

refreshButton ==
    /\ ui.at = "page" /\ ~ui.detailLoading /\ ui.selected # None /\ CanSend(ui, 1)
    /\ ui' = loadSelectedUserDetail(ui, "detail", ui.selected)

\* Confirmed, and with one field filled at least: the user may fill an empty form.
handleSave ==
    /\ ui.at = "page" /\ ~ui.saving /\ ui.selected # None /\ CanSend(ui, 1)
    /\ ui' = Send([ui EXCEPT !.saving = TRUE,
                             !.astray = @ \/ (/\ ~ui.detailLoading /\ ~ui.raced
                                              /\ ui.detail \notin {ui.selected, None})],
                  call("save", ui.selected))

leave == ui.at \in {"page", "denied"} /\ ui' = [ui EXCEPT !.at = "left"]

\* The page is opened anew; the calls of the old one are of no more use.
Reopen == ui.at = "left" /\ \E x \in Names : ui' = Mounted(x)

--------------------------------------------------------------------------------
Possible(u, c) == TRUE
Effect(u, c) == u
RootGot(u, c) == IF c.op = "boot" THEN {"root"} ELSE {}
OtherGot(u, c) == IF c.op = "boot" THEN {"other"} ELSE {}
Serve(i) ==
    \/ ui' \in Outcomes(ui, i, Possible, Effect, RootGot)
    \/ ui' \in Outcomes(ui, i, Possible, Effect, OtherGot)

\* The user of the address wins over the user's choice; without either, the
\* first of the list, if there is one.
BootAnswers(i) ==
    /\ Answered(ui, i, "boot") /\ CanSend(ui, 1)
    /\ LET u == End(ui, i)
           wanted == IF ui.preset # None THEN ui.preset ELSE ui.calls[i].id
       IN  IF ui.calls[i].at = "err" THEN ui' = [u EXCEPT !.at = "left"]
           ELSE IF Reply(ui, i) # "root" THEN ui' = [u EXCEPT !.at = "denied"]
           ELSE \E x \in (IF wanted # None THEN {wanted} ELSE Names) :
                    ui' = setSelectedUserId([u EXCEPT !.at = "page"], x)

\* A failure empties the form.
DetailAnswers(i, op) ==
    /\ Answered(ui, i, op)
    /\ ui' = End([ui EXCEPT !.detailLoading = FALSE, !.saving = @ /\ op # "after",
                            !.detail = IF ui.calls[i].at = "ok" THEN ui.calls[i].id ELSE None], i)

\* Then the detail of the user that was saved, selected or not.
SaveAnswers(i) ==
    /\ Answered(ui, i, "save")
    /\ ui' = IF ui.calls[i].at = "ok"
             THEN loadSelectedUserDetail(End(ui, i), "after", ui.calls[i].id)
             ELSE End([ui EXCEPT !.saving = FALSE], i)

Answers ==
    \E i \in DOMAIN ui.calls :
        /\ ui.at # "left"
        /\ Serve(i) \/ BootAnswers(i) \/ SaveAnswers(i) \/ DetailAnswers(i, "detail")
           \/ DetailAnswers(i, "after")

Next ==
    \/ Answers \/ refreshButton \/ handleSave \/ leave \/ Reopen
    \/ \E x \in Users : select(x)

--------------------------------------------------------------------------------
NothingLocked ==
    /\ ui.at = "boot" => Under(ui, "boot") # {}
    /\ ui.detailLoading => Under(ui, "detail") \cup Under(ui, "after") # {}
    /\ ui.saving => Under(ui, "save") \cup Under(ui, "after") # {}

OneSubmission == Cardinality(Under(ui, "save") \cup Under(ui, "after")) <= 1

\* The form holds the figures of the selected user, or none, once nothing is
\* being fetched, so that a save then cannot give one user the figures of
\* another; details that overlapped, and a save overtaken by another selection,
\* are the exceptions.
ShownIsTrue ==
    /\ ui.at = "page" /\ ~ui.detailLoading /\ ~ui.raced => ui.detail \in {ui.selected, None}
    /\ ~ui.astray

--------------------------------------------------------------------------------
Settings == [delay : {0, 1}, policy : BOOLEAN]
Actions == {"delay", "policy", "other"}     \* the others: disconnect, resync the symbols
Ops == Actions \cup {"status", "configure", "authorize"}

\* edited: the delay on screen was typed and not saved; raced: a status crossed a
\* change, or a call failed; shared: the busy flag had two owners.
FeedOK ==
    /\ CallsOK(ui.calls, Ops, {"none"}, Settings)
    /\ ui \in [server : Settings, form : Settings, edited : BOOLEAN, loading : BOOLEAN,
               raced : BOOLEAN, shared : BOOLEAN, calls : {ui.calls}]

--------------------------------------------------------------------------------
Connecting(u) == Under(u, "configure") \cup Under(u, "authorize")
Changing(u) == Under(u, "delay") \cup Under(u, "policy")

fetchStatus(u, i) ==
    [u EXCEPT !.loading = TRUE, !.calls[i] = call("status", "none"),
              !.raced = @ \/ Under(u, "status") \cup (Changing(u) \ {i}) # {},
              !.shared = @ \/ Connecting(u) \ {i} # {}]

FeedInit ==
    \E s \in Settings :
        ui = fetchStatus([server |-> s, form |-> [delay |-> 0, policy |-> TRUE], edited |-> FALSE,
                          loading |-> FALSE, raced |-> FALSE, shared |-> FALSE,
                          calls |-> NoCalls], 1)

\* The timer, and the refresh button.
poll == CanSend(ui, 1) /\ ui' = fetchStatus(ui, Slot(ui))

setDelaySeconds(d) == d # ui.form.delay /\ ui' = [ui EXCEPT !.form.delay = d, !.edited = TRUE]

handleSaveAndConnect ==
    /\ ~ui.loading /\ CanSend(ui, 1)
    /\ ui' = Send([ui EXCEPT !.loading = TRUE, !.shared = @ \/ Under(ui, "status") # {}],
                  call("configure", "none"))

\* What is asked for is what is on screen: the delay typed, the other policy.
Asked(op) ==
    CASE op = "delay" -> {[ui.form EXCEPT !.policy = TRUE]}
      [] op = "policy" -> {[delay |-> 0, policy |-> ~ui.form.policy]}
      [] OTHER -> {}

handleAction(op) ==
    /\ CanSend(ui, 1)
    /\ LET u == IF op \in {"delay", "policy"}
                THEN [ui EXCEPT !.raced = @ \/ Under(ui, "status") \cup Changing(ui) # {}] ELSE ui
       IN  ui' = Send([u EXCEPT !.edited = @ /\ op # "delay"],
                      [call(op, "none") EXCEPT !.got = Asked(op)])

--------------------------------------------------------------------------------
FeedEffect(u, c) ==
    LET asked == CHOOSE s \in c.got : TRUE
    IN  CASE c.op = "delay" -> [u EXCEPT !.server.delay = asked.delay]
          [] c.op = "policy" -> [u EXCEPT !.server.policy = asked.policy]
          [] OTHER -> u
FeedGot(u, c) == IF c.op = "status" THEN {u.server} ELSE c.got
FeedServe(i) == ui' \in Outcomes(ui, i, Possible, FeedEffect, FeedGot)

Failed(i) == ui.calls[i].at = "err"

\* Over whatever was typed meanwhile.
StatusAnswers(i) ==
    /\ Answered(ui, i, "status")
    /\ LET u == [ui EXCEPT !.loading = FALSE]
       IN  ui' = IF Failed(i) THEN End([u EXCEPT !.raced = TRUE], i)
                 ELSE End([u EXCEPT !.form = Reply(ui, i), !.edited = FALSE], i)

ConfigureAnswers(i) ==
    /\ Answered(ui, i, "configure")
    /\ ui' = IF Failed(i) THEN End([ui EXCEPT !.loading = FALSE], i)
             ELSE [ui EXCEPT !.calls[i] = call("authorize", "none")]

\* With an address to open, the toast that follows does not exist in the library:
\* the status is not fetched. Without one it is, and the flag is cleared at once.
AuthorizeAnswers(i) ==
    /\ Answered(ui, i, "authorize")
    /\ \/ ui' = End([ui EXCEPT !.loading = FALSE], i)
       \/ ~Failed(i) /\ ui' = [fetchStatus(ui, i) EXCEPT !.loading = FALSE]

\* A policy is put on screen, everything else is followed by a status.
ActionAnswers(i, op) ==
    /\ Answered(ui, i, op)
    /\ ui' = IF Failed(i) THEN End([ui EXCEPT !.raced = TRUE], i)
             ELSE IF op = "policy" THEN End([ui EXCEPT !.form.policy = Reply(ui, i).policy], i)
             ELSE fetchStatus(ui, i)

FeedAnswers ==
    \E i \in DOMAIN ui.calls :
        \/ FeedServe(i) \/ StatusAnswers(i) \/ ConfigureAnswers(i) \/ AuthorizeAnswers(i)
        \/ \E op \in Actions : ActionAnswers(i, op)

FeedNext ==
    \/ FeedAnswers \/ poll \/ handleSaveAndConnect
    \/ \E d \in {0, 1} : setDelaySeconds(d)
    \/ \E op \in Actions : handleAction(op)

--------------------------------------------------------------------------------
FeedNotLocked == ui.loading => Under(ui, "status") \cup Connecting(ui) # {}

\* A status that ends during the connection frees the button: the exception.
OneConnection == ui.shared \/ Cardinality(Connecting(ui)) <= 1

\* Nothing under way and nothing typed: the delay and the policy on screen are
\* those in force, unless a status crossed a change or a call failed.
FeedIsTrue == Quiet(ui) /\ ~ui.edited /\ ~ui.raced => ui.form = ui.server
================================================================================
