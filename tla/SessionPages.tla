----------------------------- MODULE SessionPages -----------------------------
(* Who is signed in: a token, a profile and a cookie in the browser's storage,  *)
(* a copy of the profile in the auth store, and the guards of the routes, which *)
(* look at the store. The profile is renewed from the backend whenever the      *)
(* application is loaded.                                                       *)
EXTENDS PageCalls

CONSTANTS
    Accounts,
    Active,     \* accounts that may use the application
    Admins

VARIABLE ui

NoAccount == "none"
Routes == {"login", "app", "status", "admin", "access"}
Inside == {"app", "admin"}      \* routes within the shell
Forms == {"login", "register"}
Ops == Forms \cup {"me", "logout", "leave", "tenant", "save"}

\* token, stored, cookie: of the browser; user, initializing: of the store;
\* leaving: a logout was asked for since the last sign-in.
TypeOK ==
    /\ CallsOK(ui.calls, Ops, Accounts, {})
    /\ ui \in [token : Accounts \cup {NoAccount}, stored : Accounts \cup {NoAccount},
               cookie : BOOLEAN, user : Accounts \cup {NoAccount}, initializing : BOOLEAN,
               route : Routes, busy : SUBSET (Forms \cup {"tenant"}), reload : BOOLEAN,
               leaving : BOOLEAN, crossed : BOOLEAN, calls : {ui.calls}]

--------------------------------------------------------------------------------
routeByAccountStatus(a) == IF a \in Active THEN "app" ELSE "status"

\* Where a user ends up who is sent to route r: the login page sends a user with
\* a cookie home; within the other routes nothing is decided before the profile
\* is renewed.
LoginRoute(u) ==
    IF u.user = NoAccount \/ ~u.cookie THEN "login" ELSE routeByAccountStatus(u.user)
ProtectedRoute(u, r) ==
    IF u.initializing THEN r ELSE IF u.user = NoAccount THEN LoginRoute(u) ELSE r
AccountStatusPage(u) == IF u.user \in Active THEN ProtectedRoute(u, "app") ELSE ProtectedRoute(u, "status")
AdminRoute(u) ==
    IF u.initializing \/ u.user \in Admins \cup {NoAccount} THEN ProtectedRoute(u, "admin") ELSE "app"
AdminAccessPage(u) == IF ~u.initializing /\ u.user \in Admins THEN AdminRoute(u) ELSE "access"

Guarded(u, r) ==
    CASE r = "login" -> LoginRoute(u)
      [] r = "app" -> ProtectedRoute(u, r)
      [] r = "status" -> IF u.initializing THEN r ELSE AccountStatusPage(u)
      [] r = "admin" -> AdminRoute(u)
      [] r = "access" -> AdminAccessPage(u)

\* A route is entered, or entered again after the store changed: the page that
\* was left forgets what it was busy with.
Go(u, r) ==
    LET to == Guarded(u, r)
        left == (IF to # "login" THEN Forms ELSE {}) \cup (IF to \notin Inside THEN {"tenant"} ELSE {})
    IN  Orphan([u EXCEPT !.route = to, !.busy = @ \ left], left)

Stays(u) == Go(u, u.route)

persistSession(u, a) == [u EXCEPT !.token = a, !.stored = a, !.cookie = TRUE]
clearSession(u) == [u EXCEPT !.token = NoAccount, !.stored = NoAccount, !.cookie = FALSE]
SetUser(u, a) == Stays([u EXCEPT !.user = a, !.initializing = FALSE])

--------------------------------------------------------------------------------
\* The application is loaded at a URL; calls under way are forgotten.
initAuth(u) ==
    IF u.token = NoAccount THEN [u EXCEPT !.user = NoAccount, !.initializing = FALSE]
    ELSE Send([u EXCEPT !.user = u.stored, !.initializing = TRUE], call("me", u.token))
Loaded(u, r) ==
    Go(initAuth([u EXCEPT !.calls = NoCalls, !.busy = {}, !.reload = FALSE, !.leaving = FALSE,
                          !.crossed = FALSE]), r)

Init ==
    \E a \in Accounts \cup {NoAccount}, c \in BOOLEAN, r \in Routes :
        ui = Loaded([token |-> a, stored |-> a, cookie |-> c, user |-> a, initializing |-> TRUE,
                     route |-> r, busy |-> {}, reload |-> FALSE, leaving |-> FALSE,
                     crossed |-> FALSE, calls |-> NoCalls], r)

Open(r) == ui' = Loaded(ui, r)

\* A form of the login page, disabled while its own call is under way.
handleForm(op, a) ==
    /\ ui.route = "login" /\ op \notin ui.busy /\ CanSend(ui, 1)
    /\ ui' = Send([ui EXCEPT !.busy = @ \cup {op}], dialogCall(op, a))

\* The shell is on screen once the profile has been renewed.
Shown == ui.route \in Inside /\ ~ui.initializing

Leave(op) == Send([ui EXCEPT !.leaving = TRUE], call(op, ui.user))
\* The sidebar does not wait for the logout before it goes to the login page.
handleLogout == Shown /\ CanSend(ui, 1) /\ ui' = Go(Leave("logout"), "login")
\* The other pages do.
logoutAndLeave ==
    /\ ui.route \in {"status", "access", "admin"} /\ ~ui.initializing /\ ui.user # NoAccount
    /\ CanSend(ui, 1)
    /\ ui' = Leave("leave")

handleSwitch ==
    /\ Shown /\ ui.token # NoAccount /\ "tenant" \notin ui.busy /\ CanSend(ui, 1)
    /\ ui' = Send([ui EXCEPT !.busy = @ \cup {"tenant"}], dialogCall("tenant", ui.token))

\* The profile page saves; its answer is a patch of the user in the store.
saveProfile ==
    /\ Shown /\ ui.token # NoAccount /\ CanSend(ui, 1)
    /\ ui' = Send(ui, call("save", ui.token))

navigate(r) == Shown /\ r # "login" /\ ui' = Go(ui, r)

--------------------------------------------------------------------------------
Possible(u, c) == TRUE
Effect(u, c) == u
Got(u, c) == {}
Serve(i) == ui' \in Outcomes(ui, i, Possible, Effect, Got)

\* No token, or one that is no longer accepted: any call of a page reports it.
forceLogout(u) ==
    IF u.route = "login" THEN clearSession(u) ELSE Loaded(clearSession(u), "login")
Unauthorized == Shown /\ ui' = forceLogout(ui)

Others(i) == \E j \in DOMAIN ui.calls \ {i} : ui.calls[j].op \in Ops \ Forms

\* Any failure, also of the network, ends the session.
MeAnswers(i) ==
    /\ Answered(ui, i, "me")
    /\ LET u == End(ui, i)
           a == ui.calls[i].id
       IN  \/ /\ ui.calls[i].at = "ok"
              /\ ui' = SetUser([u EXCEPT !.stored = a, !.cookie = TRUE], a)
           \/ ui.calls[i].at = "err" /\ ui' = SetUser(clearSession(u), NoAccount)
           \/ /\ ui.calls[i].at = "err" /\ ui.route # "login"
              /\ ui' = forceLogout(u)

FormAnswers(i, op) ==
    /\ Answered(ui, i, op)
    /\ LET mine == ui.calls[i].mine
           u == End([ui EXCEPT !.busy = IF mine THEN @ \ {op} ELSE @], i)
           a == ui.calls[i].id
       IN  ui' = IF ui.calls[i].at = "err" THEN u
                 ELSE Go(SetUser(persistSession([u EXCEPT !.leaving = FALSE,
                             !.crossed = @ \/ Others(i)], a), a), routeByAccountStatus(a))

\* Whatever the backend says, the session ends here.
LogoutAnswers(i, op) ==
    /\ Answered(ui, i, op)
    /\ LET u == SetUser(clearSession(End([ui EXCEPT !.crossed = @ \/ Others(i)], i)), NoAccount)
       IN  ui' = IF op = "leave" THEN Go(u, "login") ELSE u

\* The profile of the workspace is stored, and the application soon reloaded.
TenantAnswers(i) ==
    /\ Answered(ui, i, "tenant")
    /\ LET u == End([ui EXCEPT !.busy = IF ui.calls[i].mine THEN @ \ {"tenant"} ELSE @], i)
           a == ui.calls[i].id
       IN  ui' = IF ui.calls[i].at = "err" THEN u
                 ELSE Stays([u EXCEPT !.stored = a, !.user = a, !.reload = TRUE])
Reload == ui.reload /\ ui' = Loaded(ui, ui.route)

\* updateUser: nothing to patch without a user.
SaveAnswers(i) ==
    /\ Answered(ui, i, "save")
    /\ ui' = IF ui.calls[i].at = "err" \/ ui.user = NoAccount THEN End(ui, i)
             ELSE Stays(End([ui EXCEPT !.stored = ui.calls[i].id, !.user = ui.calls[i].id], i))

Answers ==
    \/ Reload
    \/ \E i \in DOMAIN ui.calls :
         \/ Serve(i) \/ MeAnswers(i) \/ TenantAnswers(i) \/ SaveAnswers(i)
         \/ \E op \in Forms : FormAnswers(i, op)
         \/ \E op \in {"logout", "leave"} : LogoutAnswers(i, op)

Next ==
    \/ Answers \/ handleLogout \/ logoutAndLeave \/ handleSwitch \/ saveProfile \/ Unauthorized
    \/ \E r \in Routes : Open(r) \/ navigate(r)
    \/ \E op \in Forms, a \in Accounts : handleForm(op, a)

--------------------------------------------------------------------------------
Mine(op) == {i \in Under(ui, op) : ui.calls[i].mine}

NothingLocked ==
    /\ ui.initializing => Under(ui, "me") # {}
    /\ \A op \in ui.busy : Mine(op) # {}

OneSubmission == \A op \in Forms \cup {"tenant"} : Cardinality(Mine(op)) <= 1

\* With nothing under way the guards let in exactly the account whose token is
\* sent with every call, a logout that was asked for has happened, and nobody is
\* inside who is not signed in, unless a sign-in or a logout was answered while
\* a call of the session before was still under way.
ShownIsTrue ==
    Quiet(ui) /\ ~ui.crossed =>
        /\ ui.user = ui.token
        /\ ui.leaving => ui.user = NoAccount
        /\ ui.route \in Inside \cup {"status"} => ui.user # NoAccount
================================================================================
