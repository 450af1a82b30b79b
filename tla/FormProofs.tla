------------------------------ MODULE FormProofs -------------------------------
(* The pages of the administration and the academy, and all pages together:     *)
(* each form is submitted once, for every value of the constants.                *)
EXTENDS UserPageProofs

--------------------------------------------------------------------------------
(* The bug reports, of a user and of an administrator *)

ReportFields == {"calls", "admin", "saving", "deleting", "raced", "sending"}
ReportsInv(u) ==
    /\ Page(u) /\ ReportFields \subseteq DOMAIN u /\ u.admin \in BOOLEAN
    /\ Once(u.calls, {"submit"}, u.sending)
    /\ u.admin = TRUE => /\ \A i \in DOMAIN u.calls : u.calls[i].op # "delete"
                         /\ Once(u.calls, {"update", "relist"}, u.saving)
    /\ u.admin = FALSE => /\ \A i \in DOMAIN u.calls : u.calls[i].op # "update"
                          /\ u.raced = TRUE \/ Once(u.calls, {"delete", "relist"}, u.deleting # Reporting!None)
\* Slot k goes to call c, and what was raced stays so.
ReportTurn(u, v, k, c) ==
    /\ Called(u, v, k, c) /\ ReportFields \subseteq DOMAIN v /\ v.admin = u.admin
    /\ u.raced = TRUE => v.raced = TRUE
ReportRests(u, v) == v.sending = u.sending /\ v.saving = u.saving /\ v.deleting = u.deleting

LEMMA ReportsPage ==
    ASSUME NEW u, ReportsInv(u), NEW v, NEW k, NEW c, ReportTurn(u, v, k, c)
    PROVE  Page(v) /\ DOMAIN v.calls = DOMAIN u.calls
BY CalledPage DEF ReportsInv, ReportTurn

LEMMA ReportsOps ==
    ASSUME NEW u, ReportsInv(u), NEW v, NEW k, NEW c, ReportTurn(u, v, k, c)
    PROVE  \A j \in DOMAIN v.calls : v.calls[j].op = IF j = k THEN c.op ELSE u.calls[j].op
<1>1. Page(v) /\ DOMAIN v.calls = DOMAIN u.calls
  BY ReportsPage
<1> QED BY <1>1 DEF ReportTurn, Called, Put

LEMMA ReportsAside ==
    ASSUME NEW u, ReportsInv(u), NEW v, NEW k, NEW c, ReportTurn(u, v, k, c), ReportRests(u, v),
           c.op \notin {"submit", "delete", "update", "relist"}
    PROVE  ReportsInv(v)
<1>1. Page(v) /\ DOMAIN v.calls = DOMAIN u.calls
  BY ReportsPage
<1> QED BY <1>1 DEF ReportsInv, ReportTurn, ReportRests, Called, Put, Once

LEMMA ReportsKept ==
    ASSUME NEW u, ReportsInv(u), NEW v, Kept(u, v), ReportRests(u, v), ReportFields \subseteq DOMAIN v,
           v.admin = u.admin, v.raced = u.raced
    PROVE  ReportsInv(v)
BY DEF ReportsInv, ReportRests, Kept, Once

LEMMA ReportsFetch ==
    ASSUME NEW u, Page(u), ReportFields \subseteq DOMAIN u, NEW i, NEW op, NEW q
    PROVE  /\ ReportTurn(u, Reporting!fetchReports(u, i, op, q), i, Reporting!call(op, q))
           /\ ReportRests(u, Reporting!fetchReports(u, i, op, q))
           /\ Reporting!call(op, q).op = op
BY DEF Page, ReportFields, ReportTurn, ReportRests, Called, Put, Fields, Reporting!fetchReports,
   Reporting!Race, Reporting!call

LEMMA ReportsRace ==
    ASSUME NEW u, NEW b, ReportFields \subseteq DOMAIN u
    PROVE  LET v == Reporting!Race(u, b)
           IN  /\ DOMAIN v = DOMAIN u /\ v.calls = u.calls /\ v.admin = u.admin /\ ReportRests(u, v)
               /\ u.raced = TRUE \/ b => v.raced = TRUE
BY DEF ReportFields, ReportRests, Reporting!Race

LEMMA ReportsInit == ASSUME Reporting!Init PROVE ReportsInv(ui)
<1>1. PICK a, s : a \in BOOLEAN /\ ui = Reporting!Mounted(a, s)
  BY DEF Reporting!Init
<1> DEFINE u == [admin |-> a, server |-> s, shown |-> Reporting!Nothing, query |-> Reporting!FirstQuery,
                 clicked |-> Reporting!FirstQuery, rowsFor |-> Reporting!None, loading |-> FALSE, sending |-> FALSE,
                 deleting |-> Reporting!None, saving |-> FALSE, dialog |-> Reporting!None, raced |-> FALSE,
                 calls |-> Reporting!NoCalls]
           c == Reporting!call("list", Reporting!FirstQuery)
           v == Reporting!fetchReports(u, 1, "list", Reporting!FirstQuery)
<1>2. ReportsInv(u)
  BY <1>1 DEF ReportsInv, ReportFields, Page, Slots, Once, Fields, Reporting!NoCalls, Reporting!Idle
<1>3. ui = v
  BY <1>1 DEF Reporting!Mounted
<1> HIDE DEF u
<1>4. ReportTurn(u, v, 1, c) /\ ReportRests(u, v) /\ c.op = "list"
  BY <1>2, ReportsFetch DEF ReportsInv
<1> HIDE DEF c, v
<1> QED BY <1>2, <1>3, <1>4, ReportsAside

LEMMA ReportsRefresh == ASSUME ReportsInv(ui), Reporting!refreshButton PROVE ReportsInv(ui')
<1> DEFINE k == Reporting!Slot(ui)
           c == Reporting!call("list", ui.query)
<1>1. ui' = Reporting!fetchReports(ui, k, "list", ui.query)
  BY DEF Reporting!refreshButton
<1>2. ReportTurn(ui, ui', k, c) /\ ReportRests(ui, ui') /\ c.op = "list"
  BY <1>1, ReportsFetch DEF ReportsInv
<1> HIDE DEF c, k
<1> QED BY <1>2, ReportsAside

LEMMA ReportsFilter == ASSUME ReportsInv(ui), NEW q, Reporting!setFilters(q) PROVE ReportsInv(ui')
<1> DEFINE u == [ui EXCEPT !.query = q]
           k == Reporting!Slot(ui)
           c == Reporting!call("list", q)
           v == Reporting!fetchReports(u, k, "list", q)
<1>1. ReportsInv(u)
  BY DEF ReportsInv, Page, ReportFields
<1>2. ui' = Reporting!Race(v, ui.saving)
  BY DEF Reporting!setFilters
<1> HIDE DEF u
<1>3. ReportTurn(u, v, k, c) /\ ReportRests(u, v) /\ c.op = "list"
  BY <1>1, ReportsFetch DEF ReportsInv
<1> HIDE DEF c, v, k
<1>4. ReportsInv(v)
  BY <1>1, <1>3, ReportsAside
<1>5. ReportFields \subseteq DOMAIN v
  BY <1>4 DEF ReportsInv
<1>6. /\ DOMAIN ui' = DOMAIN v /\ ui'.calls = v.calls /\ ui'.admin = v.admin /\ ReportRests(v, ui')
      /\ v.raced = TRUE => ui'.raced = TRUE
  BY <1>2, <1>5, ReportsRace
<1> QED BY <1>4, <1>6 DEF ReportsInv, ReportRests, Page

LEMMA ReportsDialog ==
    ASSUME ReportsInv(ui), (\E r : Reporting!openReport(r)) \/ Reporting!closeReport
    PROVE  ReportsInv(ui')
<1>1. \E x : ui' = [ui EXCEPT !.dialog = x]
  BY DEF Reporting!openReport, Reporting!closeReport
<1> QED BY <1>1 DEF ReportsInv, Page, ReportFields

LEMMA ReportsSubmit == ASSUME ReportsInv(ui), Reporting!handleSubmit PROVE ReportsInv(ui')
<1> DEFINE c == Reporting!call("submit", Reporting!None)
<1>1. PICK k : ui' = [[ui EXCEPT !.sending = TRUE] EXCEPT !.calls[k] = c]
  BY DEF Reporting!handleSubmit, Reporting!Send
<1>2. /\ ReportTurn(ui, ui', k, c) /\ ui'.saving = ui.saving /\ ui'.deleting = ui.deleting
      /\ ui'.sending = TRUE /\ ui'.raced = ui.raced /\ c.op = "submit"
  BY <1>1 DEF ReportsInv, Page, ReportTurn, ReportFields, Called, Put, Fields, Reporting!call
<1>3. ui.sending # TRUE
  BY DEF Reporting!handleSubmit
<1> HIDE DEF c
<1>4. Page(ui') /\ DOMAIN ui'.calls = DOMAIN ui.calls
  BY <1>2, ReportsPage
<1>5. \A j \in DOMAIN ui'.calls : ui'.calls[j].op = IF j = k THEN "submit" ELSE ui.calls[j].op
  BY <1>2, ReportsOps
<1>6. Once(ui'.calls, {"submit"}, ui'.sending)
  BY <1>2, <1>3, <1>4, <1>5 DEF ReportsInv, Once
<1>7. ui.admin = TRUE => Once(ui'.calls, {"update", "relist"}, ui'.saving)
  BY <1>2, <1>3, <1>4, <1>5 DEF ReportsInv, Once
<1>8. ui.admin = FALSE => ui'.raced = TRUE \/ Once(ui'.calls, {"delete", "relist"}, ui'.deleting # Reporting!None)
  BY <1>2, <1>3, <1>4, <1>5 DEF ReportsInv, Once, ReportTurn
<1> QED BY <1>2, <1>3, <1>4, <1>5, <1>6, <1>7, <1>8 DEF ReportsInv, ReportTurn

LEMMA ReportsDelete == ASSUME ReportsInv(ui), Reporting!deleteReport PROVE ReportsInv(ui')
<1> DEFINE c == Reporting!call("delete", ui.dialog)
<1>1. PICK k, r : /\ ui' = [[[ui EXCEPT !.deleting = ui.dialog] EXCEPT !.calls[k] = c] EXCEPT !.raced = r]
                  /\ ui.raced = TRUE \/ ui.deleting # Reporting!None => r = TRUE
  BY DEF ReportsInv, ReportFields, Reporting!deleteReport, Reporting!Send, Reporting!Race
<1>2. /\ ReportTurn(ui, ui', k, c) /\ ui'.saving = ui.saving /\ ui'.deleting = ui.dialog
      /\ ui'.sending = ui.sending /\ ui'.raced = r /\ c.op = "delete"
  BY <1>1 DEF ReportsInv, Page, ReportTurn, ReportFields, Called, Put, Fields, Reporting!call
<1>3. ui.dialog # Reporting!None /\ ui.admin # TRUE
  BY DEF Reporting!deleteReport
<1> HIDE DEF c
<1>4. Page(ui') /\ DOMAIN ui'.calls = DOMAIN ui.calls
  BY <1>2, ReportsPage
<1>5. r # TRUE => \A i \in DOMAIN ui.calls : ui.calls[i].op \notin {"delete", "relist"}
  BY <1>1, <1>3 DEF ReportsInv, Once
<1>6. \A j \in DOMAIN ui'.calls : ui'.calls[j].op = IF j = k THEN "delete" ELSE ui.calls[j].op
  BY <1>2, ReportsOps
<1>7. Once(ui'.calls, {"submit"}, ui'.sending)
  BY <1>2, <1>3, <1>4, <1>6 DEF ReportsInv, Once
<1>8. ui.admin = TRUE => Once(ui'.calls, {"update", "relist"}, ui'.saving)
  BY <1>2, <1>3, <1>4, <1>6 DEF ReportsInv, Once
<1>9. ui.admin = FALSE => ui'.raced = TRUE \/ Once(ui'.calls, {"delete", "relist"}, ui'.deleting # Reporting!None)
  BY <1>2, <1>3, <1>4, <1>6, <1>5 DEF ReportsInv, Once, ReportTurn
<1> QED BY <1>2, <1>3, <1>4, <1>6, <1>7, <1>8, <1>9 DEF ReportsInv, ReportTurn

LEMMA ReportsUpdate == ASSUME ReportsInv(ui), Reporting!submitUpdate PROVE ReportsInv(ui')
<1> DEFINE c == Reporting!call("update", ui.dialog)
<1>1. PICK k, q : ui' = [[ui EXCEPT !.saving = TRUE, !.clicked = q] EXCEPT !.calls[k] = c]
  BY DEF Reporting!submitUpdate, Reporting!Send
<1>2. /\ ReportTurn(ui, ui', k, c) /\ ui'.saving = TRUE /\ ui'.deleting = ui.deleting
      /\ ui'.sending = ui.sending /\ ui'.raced = ui.raced /\ c.op = "update"
  BY <1>1 DEF ReportsInv, Page, ReportTurn, ReportFields, Called, Put, Fields, Reporting!call
<1>3. ui.admin = TRUE /\ ui.saving # TRUE
  BY DEF ReportsInv, Reporting!submitUpdate
<1> HIDE DEF c
<1>4. Page(ui') /\ DOMAIN ui'.calls = DOMAIN ui.calls
  BY <1>2, ReportsPage
<1>5. \A j \in DOMAIN ui'.calls : ui'.calls[j].op = IF j = k THEN "update" ELSE ui.calls[j].op
  BY <1>2, ReportsOps
<1>6. Once(ui'.calls, {"submit"}, ui'.sending)
  BY <1>2, <1>3, <1>4, <1>5 DEF ReportsInv, Once
<1>7. ui.admin = TRUE => Once(ui'.calls, {"update", "relist"}, ui'.saving)
  BY <1>2, <1>3, <1>4, <1>5 DEF ReportsInv, Once
<1>8. ui.admin = FALSE => ui'.raced = TRUE \/ Once(ui'.calls, {"delete", "relist"}, ui'.deleting # Reporting!None)
  BY <1>2, <1>3, <1>4, <1>5 DEF ReportsInv, Once, ReportTurn
<1> QED BY <1>2, <1>3, <1>4, <1>5, <1>6, <1>7, <1>8 DEF ReportsInv, ReportTurn

LEMMA ReportsServe == ASSUME ReportsInv(ui), NEW i, Reporting!Serve(i) PROVE ReportsInv(ui')
<1> DEFINE w == Reporting!Effect(ui, ui.calls[i])
<1>1. \/ ui' = [ui EXCEPT !.calls[i].at = "err"]
      \/ \E g, a : ui' = [[w EXCEPT !.calls[i].got = g] EXCEPT !.calls[i].at = a]
  BY DEF Reporting!Serve, Reporting!Outcomes
<1>2. Kept(ui, w) /\ \A x \in {"admin", "saving", "deleting", "raced", "sending"} : Rests(ui, w, x)
  BY DEF ReportsInv, ReportFields, Page, Kept, Rests, Reporting!Effect
<1> HIDE DEF w
<1>3. Kept(ui, ui') /\ \A x \in {"admin", "saving", "deleting", "raced", "sending"} : Rests(ui, ui', x)
  BY <1>1, <1>2, Serves DEF ReportsInv, ReportFields
<1>4. ReportFields \subseteq DOMAIN ui' /\ ReportRests(ui, ui') /\ ui'.admin = ui.admin /\ ui'.raced = ui.raced
  BY <1>3 DEF ReportFields, ReportRests, Rests, Kept, Page
<1> QED BY <1>3, <1>4, ReportsKept

\* An answer that leaves slot i to c and the buttons to what they are in v.
LEMMA ReportsEnd ==
    ASSUME NEW u, ReportsInv(u), NEW i \in DOMAIN u.calls, NEW v, NEW c, ReportTurn(u, v, i, c),
           c.op \in {"idle", "list"},
           v.sending = u.sending \/ u.calls[i].op = "submit",
           \/ v.saving = u.saving /\ v.deleting = u.deleting
           \/ u.calls[i].op = "relist"
           \/ u.calls[i].op \in {"update", "delete"} /\ v.raced = TRUE
    PROVE  ReportsInv(v)
<1>1. Page(v) /\ DOMAIN v.calls = DOMAIN u.calls
  BY ReportsPage
<1>2. \A j \in DOMAIN v.calls : v.calls[j].op = IF j = i THEN c.op ELSE u.calls[j].op
  BY <1>1 DEF ReportTurn, Called, Put
<1>3. Once(v.calls, {"submit"}, v.sending)
  BY <1>1, <1>2 DEF ReportsInv, Once
<1>4. u.admin = TRUE => Once(v.calls, {"update", "relist"}, v.saving)
  BY <1>1, <1>2 DEF ReportsInv, Once
<1>5. u.admin = FALSE => v.raced = TRUE \/ Once(v.calls, {"delete", "relist"}, v.deleting # Reporting!None)
  BY <1>1, <1>2 DEF ReportsInv, Once, ReportTurn
<1> QED BY <1>1, <1>2, <1>3, <1>4, <1>5 DEF ReportsInv, ReportTurn

LEMMA ReportsFails ==
    ASSUME NEW u, Page(u), ReportFields \subseteq DOMAIN u, NEW i
    PROVE  /\ ReportTurn(u, Reporting!Fails(u, i), i, Reporting!Idle) /\ Reporting!Idle.op = "idle"
           /\ ReportRests(u, Reporting!Fails(u, i)) /\ Reporting!Fails(u, i).raced = TRUE
BY DEF Page, ReportFields, ReportTurn, ReportRests, Called, Put, Fields, Reporting!Fails,
   Reporting!End, Reporting!Race, Reporting!Idle

LEMMA ReportsListed ==
    ASSUME ReportsInv(ui), NEW i \in DOMAIN ui.calls, NEW op, Reporting!ListAnswers(i, op)
    PROVE  ReportsInv(ui')
<1> DEFINE u == Reporting!Awaited([ui EXCEPT !.loading = FALSE], op)
           w == [u EXCEPT !.shown = Reporting!Reply(ui, i), !.rowsFor = ui.calls[i].id]
<1>1. /\ ui.calls[i].op = op
      /\ ui' = Reporting!Fails(u, i) \/ ui' = [w EXCEPT !.calls[i] = Reporting!Idle]
  BY DEF Reporting!ListAnswers, Reporting!Answered, Reporting!End
<1>2. /\ Page(u) /\ ReportFields \subseteq DOMAIN u
      /\ u.calls = ui.calls /\ u.admin = ui.admin /\ u.raced = ui.raced /\ u.sending = ui.sending
      /\ op # "relist" => u.saving = ui.saving /\ u.deleting = ui.deleting
  BY DEF ReportsInv, ReportFields, Page, Reporting!Awaited
<1> HIDE DEF u
<1>3. CASE ui' = Reporting!Fails(u, i)
  <2>1. /\ ReportTurn(u, ui', i, Reporting!Idle) /\ Reporting!Idle.op = "idle"
        /\ ReportRests(u, ui')
    BY <1>2, <1>3, ReportsFails
  <2>2. ReportTurn(ui, ui', i, Reporting!Idle)
    BY <1>2, <2>1 DEF ReportTurn, Called
  <2> QED BY <1>1, <1>2, <2>1, <2>2, ReportsEnd DEF ReportRests
<1>4. CASE ui' = [w EXCEPT !.calls[i] = Reporting!Idle]
  <2>1. ReportTurn(ui, ui', i, Reporting!Idle) /\ Reporting!Idle.op = "idle" /\ ReportRests(u, ui')
    BY <1>2, <1>4 DEF ReportTurn, ReportFields, ReportRests, Called, Put, Fields, Page,
       Reporting!Idle
  <2> QED BY <1>1, <1>2, <2>1, ReportsEnd DEF ReportRests
<1> QED BY <1>1, <1>3, <1>4

LEMMA ReportsSubmitted ==
    ASSUME ReportsInv(ui), NEW i \in DOMAIN ui.calls, Reporting!SubmitAnswers(i)
    PROVE  ReportsInv(ui')
<1> DEFINE u == [ui EXCEPT !.sending = FALSE]
<1>1. /\ ui.calls[i].op = "submit"
      /\ ui' = Reporting!Fails(u, i) \/ ui' = Reporting!fetchReports(u, i, "list", u.query)
  BY DEF Reporting!SubmitAnswers, Reporting!Answered
<1>2. /\ Page(u) /\ ReportFields \subseteq DOMAIN u
      /\ u.calls = ui.calls /\ u.admin = ui.admin /\ u.raced = ui.raced /\ u.saving = ui.saving /\ u.deleting = ui.deleting
  BY DEF ReportsInv, ReportFields, Page
<1> HIDE DEF u
<1>3. PICK c : ReportTurn(u, ui', i, c) /\ ReportRests(u, ui') /\ c.op \in {"idle", "list"}
  <2>1. CASE ui' = Reporting!Fails(u, i)
    BY <1>2, <2>1, ReportsFails
  <2>2. CASE ui' = Reporting!fetchReports(u, i, "list", u.query)
    <3> DEFINE c == Reporting!call("list", u.query)
    <3>1. ReportTurn(u, ui', i, c) /\ ReportRests(u, ui') /\ c.op = "list"
      BY <1>2, <2>2, ReportsFetch
    <3> HIDE DEF c
    <3> QED BY <3>1
  <2> QED BY <1>1, <2>1, <2>2
<1>4. ReportTurn(ui, ui', i, c)
  BY <1>2, <1>3 DEF ReportTurn, Called
<1> QED BY <1>1, <1>2, <1>3, <1>4, ReportsEnd DEF ReportRests

LEMMA ReportsChanged ==
    ASSUME ReportsInv(ui), NEW i \in DOMAIN ui.calls, NEW op \in {"update", "delete"}, Reporting!ChangeAnswers(i, op)
    PROVE  ReportsInv(ui')
<1>1. ui.calls[i].op = op
  BY DEF Reporting!ChangeAnswers, Reporting!Answered
<1>2. CASE Reporting!Failed(i)
  <2> DEFINE u == Reporting!Awaited(ui, "relist")
  <2>1. ui' = Reporting!Fails(u, i)
    BY <1>2 DEF Reporting!ChangeAnswers
  <2>2. /\ Page(u) /\ ReportFields \subseteq DOMAIN u
        /\ u.calls = ui.calls /\ u.admin = ui.admin /\ u.raced = ui.raced /\ u.sending = ui.sending
    BY DEF ReportsInv, ReportFields, Page, Reporting!Awaited
  <2> HIDE DEF u
  <2>3. /\ ReportTurn(u, ui', i, Reporting!Idle) /\ Reporting!Idle.op = "idle"
        /\ ReportRests(u, ui') /\ ui'.raced = TRUE
    BY <2>1, <2>2, ReportsFails
  <2>4. ReportTurn(ui, ui', i, Reporting!Idle) /\ ui'.sending = ui.sending
    BY <2>2, <2>3 DEF ReportTurn, ReportRests, Called
  <2> QED BY <1>1, <2>3, <2>4, ReportsEnd
<1>3. CASE ~Reporting!Failed(i)
  <2> DEFINE u == [ui EXCEPT !.dialog = Reporting!None]
             c == Reporting!call("relist", ui.clicked)
  <2>1. ui' = Reporting!fetchReports(u, i, "relist", ui.clicked)
    BY <1>3 DEF Reporting!ChangeAnswers
  <2>2. ReportsInv(u) /\ u.calls = ui.calls
    BY DEF ReportsInv, ReportFields, Page
  <2> HIDE DEF u
  <2>3. ReportTurn(u, ui', i, c) /\ ReportRests(u, ui') /\ c.op = "relist"
    BY <2>1, <2>2, ReportsFetch DEF ReportsInv
  <2> HIDE DEF c
  <2>4. Page(ui') /\ DOMAIN ui'.calls = DOMAIN u.calls
    BY <2>2, <2>3, ReportsPage
  <2>5. \A j \in DOMAIN ui'.calls : ui'.calls[j].op = IF j = i THEN "relist" ELSE u.calls[j].op
    BY <2>3, <2>4 DEF ReportTurn, Called, Put
  <2>6. u.admin = TRUE => Once(ui'.calls, {"update", "relist"}, u.saving)
    BY <1>1, <2>2, <2>4, <2>5 DEF ReportsInv, Once
  <2>7. u.admin = FALSE => u.raced = TRUE \/ Once(ui'.calls, {"delete", "relist"}, u.deleting # Reporting!None)
    BY <1>1, <2>2, <2>4, <2>5 DEF ReportsInv, Once
  <2>8. Once(ui'.calls, {"submit"}, u.sending)
    BY <2>2, <2>4, <2>5 DEF ReportsInv, Once
  <2> QED BY <2>2, <2>3, <2>4, <2>5, <2>6, <2>7, <2>8 DEF ReportsInv, ReportTurn, ReportRests
<1> QED BY <1>2, <1>3

LEMMA ReportsNext == ASSUME ReportsInv(ui), Reporting!Next PROVE ReportsInv(ui')
BY ReportsRefresh, ReportsFilter, ReportsDialog, ReportsSubmit, ReportsDelete, ReportsUpdate,
   ReportsServe,
   ReportsListed, ReportsSubmitted, ReportsChanged
   DEF Reporting!Next, Reporting!Answers

LEMMA ReportsSubmits == ASSUME ReportsInv(ui) PROVE Reporting!OneSubmission
<1>1. \A S : Reporting!Cardinality(S) = Cardinality(S)
  BY DEF Cardinality, Reporting!Cardinality
<1>2. Cardinality(Reporting!Under(ui, "submit")) <= 1
  BY OnceCard DEF ReportsInv, Reporting!Under
<1>3. Cardinality(Reporting!Under(ui, "update")) <= 1
  <2>1. Once(ui.calls, {"update"}, TRUE)
    BY DEF ReportsInv, Once
  <2> QED BY <2>1, OnceCard DEF Reporting!Under
<1>4. ui.raced # TRUE => Cardinality(Reporting!Under(ui, "delete")) <= 1
  <2>1. ui.raced # TRUE => Once(ui.calls, {"delete"}, TRUE)
    BY DEF ReportsInv, Once
  <2> QED BY <2>1, OnceCard DEF Reporting!Under
<1> QED BY <1>1, <1>2, <1>3, <1>4 DEF Reporting!OneSubmission

--------------------------------------------------------------------------------
(* The accounts of a root admin: one refresh and one action of the dialog *)

UsersIn(c) == c.op \in {"change", "delete", "after"} \/ (c.op = "join" /\ c.id = "act")
UsersInv(u) ==
    /\ Page(u) /\ "acting" \in DOMAIN u
    /\ Once(u.calls, {"refresh"}, TRUE)
    /\ \A i \in DOMAIN u.calls : UsersIn(u.calls[i]) =>
         u.acting # ManageUsers!NoUser /\ \A j \in DOMAIN u.calls : UsersIn(u.calls[j]) => i = j
\* Nothing is under way for the mark but call i.
UsersBut(u, i) ==
    /\ Page(u) /\ "acting" \in DOMAIN u
    /\ Once(u.calls, {"refresh"}, TRUE)
    /\ \A j \in DOMAIN u.calls : UsersIn(u.calls[j]) => j = i
UsersSame(u, v) == {"calls", "acting"} \subseteq DOMAIN v /\ v.calls = u.calls /\ v.acting = u.acting
UsersTurn(u, v, k, c) == Called(u, v, k, c) /\ "acting" \in DOMAIN v /\ v.acting = u.acting

LEMMA UsersSames ==
    ASSUME NEW u, NEW v, UsersSame(u, v)
    PROVE  (UsersInv(u) => UsersInv(v)) /\ \A i : UsersBut(u, i) => UsersBut(v, i)
BY DEF UsersInv, UsersBut, UsersSame, Page

LEMMA UsersKept ==
    ASSUME NEW u, UsersInv(u), NEW v, Kept(u, v), "acting" \in DOMAIN v, v.acting = u.acting
    PROVE  UsersInv(v)
<1>1. \A j \in DOMAIN u.calls : (UsersIn(v.calls[j]) => UsersIn(u.calls[j])) /\ v.calls[j].op = u.calls[j].op
  BY DEF Kept, UsersIn
<1> QED BY <1>1 DEF UsersInv, Once, Kept

LEMMA UsersTurns ==
    ASSUME NEW u, UsersInv(u), NEW v, NEW k, NEW c, Called(u, v, k, c)
    PROVE  /\ Page(v) /\ DOMAIN v.calls = DOMAIN u.calls
           /\ \A j \in DOMAIN u.calls : v.calls[j] = IF j = k THEN c ELSE u.calls[j]
<1>1. Page(v) /\ DOMAIN v.calls = DOMAIN u.calls
  BY CalledPage DEF UsersInv
<1> QED BY <1>1 DEF Called, Put

LEMMA UsersAside ==
    ASSUME NEW u, UsersInv(u), NEW v, NEW k, NEW c, UsersTurn(u, v, k, c), ~UsersIn(c),
           \/ c.op # "refresh"
           \/ \A i \in DOMAIN u.calls : u.calls[i].op # "refresh"
    PROVE  UsersInv(v)
<1>1. /\ Page(v) /\ DOMAIN v.calls = DOMAIN u.calls
      /\ \A j \in DOMAIN u.calls : v.calls[j] = IF j = k THEN c ELSE u.calls[j]
  BY UsersTurns DEF UsersTurn
<1>2. Once(v.calls, {"refresh"}, TRUE)
  BY <1>1 DEF UsersInv, Once
<1> QED BY <1>1, <1>2 DEF UsersInv, UsersTurn

\* The action goes on.
LEMMA UsersGoesOn ==
    ASSUME NEW u, UsersInv(u), NEW v, NEW i \in DOMAIN u.calls, NEW c, UsersTurn(u, v, i, c),
           UsersIn(u.calls[i]), c.op # "refresh"
    PROVE  UsersInv(v)
<1>1. /\ Page(v) /\ DOMAIN v.calls = DOMAIN u.calls
      /\ \A j \in DOMAIN u.calls : v.calls[j] = IF j = i THEN c ELSE u.calls[j]
  BY UsersTurns DEF UsersTurn
<1>2. Once(v.calls, {"refresh"}, TRUE)
  BY <1>1 DEF UsersInv, Once
<1> QED BY <1>1, <1>2 DEF UsersInv, UsersTurn

LEMMA UsersClear ==
    ASSUME NEW u, UsersInv(u), NEW i \in DOMAIN u.calls, UsersIn(u.calls[i]), NEW x
    PROVE  UsersBut([u EXCEPT !.acting = x], i)
BY DEF UsersInv, UsersBut, Page

LEMMA UsersEndBut == ASSUME NEW u, NEW i, UsersBut(u, i) PROVE UsersInv(ManageUsers!End(u, i))
<1> DEFINE v == ManageUsers!End(u, i)
<1>1. Page(v) /\ "acting" \in DOMAIN v /\ DOMAIN v.calls = DOMAIN u.calls
      /\ \A j \in DOMAIN u.calls : v.calls[j] = IF j = i THEN ManageUsers!Idle ELSE u.calls[j]
  BY DEF UsersBut, Page, Slots, Fields, ManageUsers!End, ManageUsers!Idle
<1>2. ~UsersIn(ManageUsers!Idle) /\ ManageUsers!Idle.op = "idle"
  BY DEF UsersIn, ManageUsers!Idle
<1> HIDE DEF v
<1>3. Once(v.calls, {"refresh"}, TRUE)
  BY <1>1, <1>2 DEF UsersBut, Once
<1>4. UsersInv(v)
  BY <1>1, <1>2, <1>3 DEF UsersInv, UsersBut
<1> QED BY <1>4 DEF v

LEMMA UsersEnd == ASSUME NEW u, UsersInv(u), NEW i PROVE UsersInv(ManageUsers!End(u, i))
<1>1. UsersTurn(u, ManageUsers!End(u, i), i, ManageUsers!Idle) /\ ~UsersIn(ManageUsers!Idle) /\ ManageUsers!Idle.op # "refresh"
  BY DEF UsersInv, Page, Called, Put, Fields, UsersTurn, UsersIn, ManageUsers!End, ManageUsers!Idle
<1> QED BY <1>1, UsersAside

LEMMA UsersRace ==
    ASSUME NEW u, {"calls", "acting"} \subseteq DOMAIN u, NEW b
    PROVE  UsersSame(u, ManageUsers!Race(u, b))
BY DEF UsersSame, ManageUsers!Race

LEMMA UsersHas ==
    ASSUME NEW u
    PROVE  UsersInv(u) \/ (\E i : UsersBut(u, i)) => {"calls", "acting"} \subseteq DOMAIN u
BY DEF UsersInv, UsersBut, Page

LEMMA UsersRaces ==
    ASSUME NEW u, NEW b
    PROVE  (UsersInv(u) => UsersInv(ManageUsers!Race(u, b))) /\ \A i : UsersBut(u, i) => UsersBut(ManageUsers!Race(u, b), i)
BY UsersRace, UsersHas, UsersSames

LEMMA UsersSets ==
    ASSUME NEW u, UsersInv(u)
    PROVE  /\ \A x : UsersInv([u EXCEPT !.bootstrapping = x])
           /\ \A x : UsersInv([u EXCEPT !.filter = x])
           /\ \A h, x : UsersInv([u EXCEPT !.clicked[h] = x])
           /\ \A x, y : UsersInv([u EXCEPT !.current = x, !.rowsFor = y])
           /\ \A x, y : UsersInv([u EXCEPT !.root = x, !.bootstrapping = y])
           /\ \A x : UsersInv([u EXCEPT !.root = x])
           /\ \A x : UsersInv([u EXCEPT !.raced = x])
           /\ \A x, y, z : UsersInv([u EXCEPT !.modal = x, !.detail = y, !.left = z])
           /\ \A x : UsersInv([u EXCEPT !.modal = x])
           /\ \A x, y : UsersInv([u EXCEPT !.modal = x, !.detail = y, !.mixed = FALSE])
<1>1. {"calls", "acting"} \subseteq DOMAIN u
  BY UsersHas
<1>2. /\ \A x : UsersSame(u, [u EXCEPT !.bootstrapping = x])
      /\ \A x : UsersSame(u, [u EXCEPT !.filter = x])
      /\ \A h, x : UsersSame(u, [u EXCEPT !.clicked[h] = x])
      /\ \A x, y : UsersSame(u, [u EXCEPT !.current = x, !.rowsFor = y])
      /\ \A x, y : UsersSame(u, [u EXCEPT !.root = x, !.bootstrapping = y])
      /\ \A x : UsersSame(u, [u EXCEPT !.root = x])
      /\ \A x : UsersSame(u, [u EXCEPT !.raced = x])
      /\ \A x, y, z : UsersSame(u, [u EXCEPT !.modal = x, !.detail = y, !.left = z])
      /\ \A x : UsersSame(u, [u EXCEPT !.modal = x])
      /\ \A x, y : UsersSame(u, [u EXCEPT !.modal = x, !.detail = y, !.mixed = FALSE])
  BY <1>1 DEF UsersSame
<1> QED BY <1>2, UsersSames

LEMMA UsersReset == ASSUME NEW u, UsersInv(u) PROVE UsersInv(ManageUsers!resetToVerifyStage(u))
BY UsersSets DEF ManageUsers!resetToVerifyStage

LEMMA UsersFails ==
    ASSUME NEW u, NEW i, UsersInv(u) \/ UsersBut(u, i) PROVE UsersInv(ManageUsers!Fails(u, i))
<1> DEFINE v == ManageUsers!Race(u, TRUE)
<1>1. UsersInv(v) \/ UsersBut(v, i)
  BY UsersRaces
<1>2. ManageUsers!Fails(u, i) = ManageUsers!End(v, i)
  BY DEF ManageUsers!Fails
<1> HIDE DEF v
<1> QED BY <1>1, <1>2, UsersEnd, UsersEndBut

LEMMA UsersDone ==
    ASSUME NEW u, NEW h
    PROVE  (UsersInv(u) => UsersInv(ManageUsers!Done(u, h))) /\ \A i : UsersBut(u, i) => UsersBut(ManageUsers!Done(u, h), i)
<1>1. {"calls", "acting"} \subseteq DOMAIN u => UsersSame(u, ManageUsers!Done(u, h))
  BY DEF UsersSame, ManageUsers!Done
<1> QED BY <1>1, UsersHas, UsersSames

LEMMA UsersRefresh ==
    ASSUME NEW u, UsersInv(u), NEW f
    PROVE  UsersInv(ManageUsers!refreshDashboard(u, f))
<1>1. CASE ManageUsers!Refreshing(u)
  BY <1>1, UsersRaces DEF ManageUsers!refreshDashboard
<1>2. CASE ~ManageUsers!Refreshing(u)
  <2> DEFINE w == [u EXCEPT !.raced = FALSE]
             c == ManageUsers!call("refresh", f)
  <2>1. PICK b : ManageUsers!refreshDashboard(u, f) = ManageUsers!Send(ManageUsers!Race(w, b), c)
    BY <1>2 DEF ManageUsers!refreshDashboard
  <2>2. UsersInv(w) /\ w.calls = u.calls
    BY UsersSets, UsersHas
  <2>3. \A i \in DOMAIN u.calls : u.calls[i].op # "refresh"
    BY <1>2 DEF ManageUsers!Refreshing, ManageUsers!Under
  <2>4. Fields \subseteq DOMAIN c /\ c.op = "refresh" /\ ~UsersIn(c)
    BY DEF Fields, UsersIn, ManageUsers!call
  <2> HIDE DEF w, c
  <2> DEFINE v == ManageUsers!Race(w, b)
  <2>5. UsersInv(v) /\ v.calls = u.calls
    BY <2>2, UsersRaces, UsersRace, UsersHas DEF UsersSame
  <2> HIDE DEF v
  <2>6. UsersTurn(v, ManageUsers!Send(v, c), ManageUsers!Slot(v), c)
    BY <2>4, <2>5 DEF UsersInv, Page, Called, Put, UsersTurn, ManageUsers!Send
  <2>7. UsersInv(ManageUsers!Send(v, c))
    BY <2>3, <2>4, <2>5, <2>6, UsersAside
  <2> QED BY <2>1, <2>7 DEF v
<1> QED BY <1>1, <1>2

LEMMA UsersBoots == ASSUME NEW u, UsersInv(u) PROVE UsersInv(ManageUsers!bootstrapAdmin(u))
<1> DEFINE v == [u EXCEPT !.bootstrapping = TRUE]
<1>1. UsersInv(v)
  BY UsersSets
<1>2. \E f : ManageUsers!bootstrapAdmin(u) = ManageUsers!refreshDashboard(v, f)
  BY DEF ManageUsers!bootstrapAdmin
<1> HIDE DEF v
<1> QED BY <1>1, <1>2, UsersRefresh

LEMMA UsersApply ==
    ASSUME NEW u, UsersInv(u), NEW i, NEW parts
    PROVE  UsersInv(ManageUsers!Apply(u, i, parts)) /\ UsersSame(u, ManageUsers!Apply(u, i, parts))
<1> DEFINE v(x, y) == [u EXCEPT !.current = x, !.rowsFor = y]
<1>1. \A x, y : UsersSame(u, v(x, y))
  BY DEF UsersInv, Page, UsersSame
<1>2. CASE u.raced = TRUE
  <2>1. ManageUsers!Apply(u, i, parts) = u
    BY <1>2 DEF ManageUsers!Apply
  <2> QED BY <2>1 DEF UsersSame, UsersInv, Page
<1>3. CASE u.raced # TRUE
  <2>1. PICK x, y : ManageUsers!Apply(u, i, parts) = IF u.raced THEN u ELSE v(x, y)
    BY DEF ManageUsers!Apply
  <2> HIDE DEF v
  <2> QED BY <1>1, <1>3, <2>1, UsersSames
<1> QED BY <1>2, <1>3

\* Handler h waits, whose call was one of the action or has nothing to do with it.
LEMMA UsersAwait ==
    ASSUME NEW u, UsersInv(u), NEW i \in DOMAIN u.calls, NEW h, UsersIn(u.calls[i]) \/ h # "act"
    PROVE  UsersInv(ManageUsers!Await(u, i, h))
<1> DEFINE c == ManageUsers!call("join", h)
           v == [u EXCEPT !.calls[i] = c]
<1>1. Fields \subseteq DOMAIN c /\ c.op = "join" /\ c.id = h
  BY DEF Fields, ManageUsers!call
<1>2. \E f : ManageUsers!Await(u, i, h) = ManageUsers!refreshDashboard(v, f)
  BY DEF ManageUsers!Await
<1> HIDE DEF c
<1>3. UsersTurn(u, v, i, c)
  BY <1>1 DEF UsersInv, Page, Called, Put, UsersTurn
<1> HIDE DEF v
<1>4. CASE UsersIn(u.calls[i])
  <2>1. UsersInv(v)
    BY <1>1, <1>3, <1>4, UsersGoesOn
  <2> QED BY <1>2, <2>1, UsersRefresh
<1>5. CASE h # "act"
  <2>1. ~UsersIn(c)
    BY <1>1, <1>5 DEF UsersIn
  <2>2. UsersInv(v)
    BY <1>1, <1>3, <2>1, UsersAside
  <2> QED BY <1>2, <2>2, UsersRefresh
<1> QED BY <1>4, <1>5

LEMMA UsersRefreshes ==
    ASSUME UsersInv(ui), (\E f : ManageUsers!setFilters(f)) \/ ManageUsers!refreshButton
    PROVE  UsersInv(ui')
<1> DEFINE v(f) == [ui EXCEPT !.filter = f]
<1>1. \A f : UsersInv(v(f))
  BY UsersSets
<1>2. (\E f : ui' = ManageUsers!bootstrapAdmin(v(f))) \/ \E f : ui' = ManageUsers!refreshDashboard(ui, f)
  BY DEF ManageUsers!setFilters, ManageUsers!refreshButton
<1> HIDE DEF v
<1> QED BY <1>1, <1>2, UsersBoots, UsersRefresh

\* Getting a part changes no call and no mark.
LEMMA UsersPart ==
    ASSUME UsersInv(ui), NEW i, NEW p,
           ManageUsers!ServePart(i, p) \/ ManageUsers!PartArrives(i, p) \/ ManageUsers!PartFails(i, p)
    PROVE  UsersInv(ui')
<1>1. CASE ManageUsers!ServePart(i, p)
  <2>1. \E g : ui' = [ui EXCEPT !.calls[i].got = g]
    BY <1>1 DEF ManageUsers!ServePart
  <2>2. Kept(ui, ui') /\ Rests(ui, ui', "acting")
    <3>1. Page(ui) /\ Kept(ui, ui) /\ "acting" \in DOMAIN ui
      BY KeptSelf DEF UsersInv
    <3> QED BY <2>1, <3>1, Getting
  <2> QED BY <2>2, UsersKept DEF Rests
<1>2. CASE ManageUsers!PartArrives(i, p)
  <2> DEFINE w == ManageUsers!Apply(ui, i, {p})
  <2>1. Kept(ui, w) /\ Rests(ui, w, "acting")
    <3>1. UsersInv(w) /\ UsersSame(ui, w)
      BY UsersApply
    <3> HIDE DEF w
    <3> QED BY <3>1 DEF UsersInv, UsersSame, Kept, Rests
  <2>2. \E g : ui' = [w EXCEPT !.calls[i].got = g]
    BY <1>2 DEF ManageUsers!PartArrives, ManageUsers!Over
  <2> HIDE DEF w
  <2>3. Kept(ui, ui') /\ Rests(ui, ui', "acting")
    <3>1. Page(ui)
      BY DEF UsersInv
    <3>2. Kept(ui, ui') /\ \A x \in DOMAIN w : x # "calls" => Rests(w, ui', x)
      BY <2>1, <2>2, <3>1, Getting
    <3> QED BY <2>1, <3>2 DEF Rests
  <2> QED BY <2>3, UsersKept DEF Rests
<1>3. CASE ManageUsers!PartFails(i, p)
  <2> DEFINE w == ManageUsers!Race(ui, TRUE)
  <2>1. Kept(ui, w) /\ Rests(ui, w, "acting")
    BY UsersRace, UsersRaces, UsersHas DEF UsersInv, UsersSame, Kept, Rests
  <2>2. \E g : ui' = [[w EXCEPT !.calls[i].got = g] EXCEPT !.calls[i].at = "err"]
    BY <1>3 DEF ManageUsers!PartFails, ManageUsers!Over
  <2> HIDE DEF w
  <2>3. Kept(ui, ui') /\ Rests(ui, ui', "acting")
    BY <2>1, <2>2, Serves DEF UsersInv
  <2> QED BY <2>3, UsersKept DEF Rests
<1> QED BY <1>1, <1>2, <1>3

LEMMA UsersRefreshed ==
    ASSUME UsersInv(ui), NEW i \in DOMAIN ui.calls, NEW parts, ManageUsers!RefreshAnswers(i, parts)
    PROVE  UsersInv(ui')
<1> DEFINE f == [j \in DOMAIN ui.calls |->
                  IF j = i THEN ManageUsers!Idle
                  ELSE IF ui.calls[j].op = "join" THEN [ui.calls[j] EXCEPT !.at = "ok"] ELSE ui.calls[j]]
           v == [ui EXCEPT !.bootstrapping = FALSE, !.calls = f]
           w == [v EXCEPT !.root = TRUE]
<1>1. /\ Slots(f) /\ DOMAIN f = DOMAIN ui.calls
      /\ \A j \in DOMAIN f : /\ f[j].op = "refresh" => ui.calls[j].op = "refresh"
                             /\ UsersIn(f[j]) => UsersIn(ui.calls[j])
  <2>1. ~UsersIn(ManageUsers!Idle) /\ ManageUsers!Idle.op = "idle" /\ Fields \subseteq DOMAIN ManageUsers!Idle
    BY DEF Fields, UsersIn, ManageUsers!Idle
  <2>2. \A j \in DOMAIN f :
          \/ f[j] = ManageUsers!Idle
          \/ Fields \subseteq DOMAIN f[j] /\ f[j].op = ui.calls[j].op /\ f[j].id = ui.calls[j].id
    BY DEF UsersInv, Page, Slots, Fields
  <2> HIDE DEF f
  <2>3. DOMAIN f = DOMAIN ui.calls
    BY DEF f
  <2> QED BY <2>1, <2>2, <2>3 DEF Slots, UsersIn
<1>2. ui' = v \/ ui' = ManageUsers!bootstrapAdmin(w) \/ ui' = ManageUsers!resetToVerifyStage(v)
  BY DEF ManageUsers!RefreshAnswers
<1> HIDE DEF f
<1>3. Page(v) /\ v.calls = f /\ "acting" \in DOMAIN v /\ v.acting = ui.acting
  BY <1>1 DEF UsersInv, Page
<1> HIDE DEF v
<1>4. UsersInv(v)
  BY <1>1, <1>3 DEF UsersInv, Once
<1>5. UsersInv(w)
  BY <1>4, UsersSets
<1> HIDE DEF w
<1> QED BY <1>2, <1>4, <1>5, UsersBoots, UsersReset

LEMMA UsersRefreshGoesOn ==
    ASSUME UsersInv(ui), NEW parts, ManageUsers!RefreshGoesOn(parts)
    PROVE  UsersInv(ui')
<1>1. CASE ManageUsers!LevelArrives
  BY <1>1, UsersSets DEF ManageUsers!LevelArrives
<1> QED BY <1>1, UsersRefreshed, UsersPart DEF ManageUsers!RefreshGoesOn

LEMMA UsersServe ==
    ASSUME UsersInv(ui), NEW i, ManageUsers!Serve(i) PROVE UsersInv(ui')
<1> DEFINE w == ManageUsers!Effect(ui, ui.calls[i])
<1>1. \/ ui' = [ui EXCEPT !.calls[i].at = "err"]
      \/ \E g, a : ui' = [[w EXCEPT !.calls[i].got = g] EXCEPT !.calls[i].at = a]
  BY DEF ManageUsers!Serve, ManageUsers!Outcomes
<1>2. Kept(ui, w) /\ Rests(ui, w, "acting")
  <2>1. w = ui \/ \E p : w = ManageUsers!Outdate(ui, p)
    BY DEF ManageUsers!Effect
  <2>2. ASSUME NEW p PROVE Kept(ui, ManageUsers!Outdate(ui, p)) /\ Rests(ui, ManageUsers!Outdate(ui, p), "acting")
    <3> DEFINE g == [j \in DOMAIN ui.calls |-> [ui.calls[j] EXCEPT !.got = ui.calls[j].got \ p]]
               v == ManageUsers!Outdate(ui, p)
    <3>1. /\ Slots(g) /\ DOMAIN g = DOMAIN ui.calls
          /\ \A j \in DOMAIN g : g[j].op = ui.calls[j].op /\ g[j].id = ui.calls[j].id /\ g[j].mine = ui.calls[j].mine
      BY DEF UsersInv, Page, Slots, Fields
    <3>2. v = [ui EXCEPT !.current = ui.current \ p, !.calls = g]
      BY DEF ManageUsers!Outdate
    <3> HIDE DEF g, v
    <3>3. Kept(ui, v) /\ Rests(ui, v, "acting")
      BY <3>1, <3>2 DEF UsersInv, Page, Kept, Rests
    <3> QED BY <3>3 DEF v
  <2>3. Kept(ui, ui) /\ Rests(ui, ui, "acting")
    BY KeptSelf DEF UsersInv, Rests
  <2> QED BY <2>1, <2>2, <2>3
<1> HIDE DEF w
<1>3. Kept(ui, ui') /\ Rests(ui, ui', "acting")
  BY <1>1, <1>2, Serves DEF UsersInv
<1> QED BY <1>3, UsersKept DEF Rests

\* A call that belongs to no mark.
LEMMA UsersSend ==
    ASSUME NEW u, UsersInv(u), NEW op, NEW x, ~UsersIn(ManageUsers!call(op, x)), op # "refresh"
    PROVE  UsersInv(ManageUsers!Send(u, ManageUsers!call(op, x)))
<1> DEFINE c == ManageUsers!call(op, x)
<1>1. Fields \subseteq DOMAIN c /\ c.op = op
  BY DEF Fields, ManageUsers!call
<1>2. ~UsersIn(c)
  OBVIOUS
<1> HIDE DEF c
<1>3. UsersTurn(u, ManageUsers!Send(u, c), ManageUsers!Slot(u), c)
  BY <1>1 DEF UsersInv, Page, Called, Put, UsersTurn, ManageUsers!Send
<1>4. UsersInv(ManageUsers!Send(u, c))
  BY <1>1, <1>2, <1>3, UsersAside
<1> QED BY <1>4 DEF c

\* A call that starts the action.
LEMMA UsersStart ==
    ASSUME NEW u, UsersInv(u), NEW v, NEW k, NEW c, Called(u, v, k, c), "acting" \in DOMAIN v,
           ~(u.acting # ManageUsers!NoUser), v.acting # ManageUsers!NoUser, c.op # "refresh"
    PROVE  UsersInv(v)
<1>1. /\ Page(v) /\ DOMAIN v.calls = DOMAIN u.calls
      /\ \A j \in DOMAIN u.calls : v.calls[j] = IF j = k THEN c ELSE u.calls[j]
  BY UsersTurns
<1>2. Once(v.calls, {"refresh"}, TRUE)
  BY <1>1 DEF UsersInv, Once
<1> QED BY <1>1, <1>2 DEF UsersInv

LEMMA UsersMounts == UsersInv(ManageUsers!Mounted)
<1> DEFINE u == [current |-> {}, filter |-> Normal, rowsFor |-> "none", bootstrapping |-> TRUE,
         root |-> FALSE, clicked |-> [h \in ManageUsers!Handlers |-> Normal], modal |-> ManageUsers!NoUser,
         detail |-> ManageUsers!NoUser, acting |-> ManageUsers!NoUser, raced |-> FALSE, mixed |-> FALSE,
         left |-> FALSE, calls |-> ManageUsers!NoCalls]
<1>1. UsersInv(u)
  BY DEF UsersInv, UsersIn, Page, Slots, Fields, Once, ManageUsers!NoCalls, ManageUsers!Idle
<1>2. ManageUsers!Mounted = ManageUsers!bootstrapAdmin(u)
  BY DEF ManageUsers!Mounted
<1> HIDE DEF u
<1> QED BY <1>1, <1>2, UsersBoots

LEMMA UsersInit == ASSUME ManageUsers!Init PROVE UsersInv(ui)
BY UsersMounts DEF ManageUsers!Init

LEMMA UsersAsks ==
    ASSUME UsersInv(ui),
           \/ \E x : ManageUsers!openManageModal(x)
           \/ \E x : ManageUsers!deleteInline(x)
           \/ ManageUsers!closeManageModal
           \/ ManageUsers!Reopen
    PROVE  UsersInv(ui')
<1>1. CASE \E x : ManageUsers!openManageModal(x)
  <2> DEFINE v(x) == [ui EXCEPT !.modal = x]
  <2>1. \A x : UsersInv(v(x))
    BY UsersSets
  <2>2. \E x : ui' = ManageUsers!Send(v(x), ManageUsers!call("detail", x))
    BY <1>1 DEF ManageUsers!openManageModal
  <2>3. \A x : ~UsersIn(ManageUsers!call("detail", x))
    BY DEF UsersIn, ManageUsers!call
  <2> HIDE DEF v
  <2> QED BY <2>1, <2>2, <2>3, UsersSend
<1>2. CASE \E x : ManageUsers!deleteInline(x)
  <2> DEFINE v(y) == [ui EXCEPT !.clicked["del"] = y]
  <2>1. \A y : UsersInv(v(y))
    BY UsersSets
  <2>2. \E x, y : ui' = ManageUsers!Send(v(y), ManageUsers!call("inline", x))
    BY <1>2 DEF ManageUsers!deleteInline, ManageUsers!Clicked
  <2>3. \A x : ~UsersIn(ManageUsers!call("inline", x))
    BY DEF UsersIn, ManageUsers!call
  <2> HIDE DEF v
  <2> QED BY <2>1, <2>2, <2>3, UsersSend
<1>3. CASE ManageUsers!closeManageModal
  BY <1>3, UsersSets DEF ManageUsers!closeManageModal, ManageUsers!closed
<1>4. CASE ManageUsers!Reopen
  BY <1>4, UsersMounts DEF ManageUsers!Reopen
<1> QED BY <1>1, <1>2, <1>3, <1>4

LEMMA UsersActs ==
    ASSUME UsersInv(ui), NEW op \in ManageUsers!UserActions, ManageUsers!runUserAction(op)
    PROVE  UsersInv(ui')
<1> DEFINE c == ManageUsers!call(op, ui.modal)
<1>1. ui' = ManageUsers!Send([[ui EXCEPT !.acting = ui.modal] EXCEPT !.clicked["act"] = ui.filter], c)
  <2>1. "filter" \in DOMAIN ui => [ui EXCEPT !.acting = ui.modal].filter = ui.filter
    OBVIOUS
  <2> QED BY <2>1 DEF ManageUsers!runUserAction, ManageUsers!Clicked
<1>2. PICK k : ui' = [ui EXCEPT !.acting = ui.modal, !.clicked["act"] = ui.filter, !.calls[k] = c]
  BY <1>1 DEF UsersInv, Page, ManageUsers!Send
<1>3. Fields \subseteq DOMAIN c /\ c.op # "refresh"
  BY DEF Fields, ManageUsers!call, ManageUsers!UserActions
<1>4. ui.acting = ManageUsers!NoUser /\ ui.modal # ManageUsers!NoUser
  BY DEF ManageUsers!runUserAction
<1> HIDE DEF c
<1>5. Called(ui, ui', k, c) /\ "acting" \in DOMAIN ui' /\ ui'.acting = ui.modal
  BY <1>2, <1>3 DEF UsersInv, Page, Called, Put
<1> QED BY <1>3, <1>4, <1>5, UsersStart

LEMMA UsersActed ==
    ASSUME UsersInv(ui), NEW i \in DOMAIN ui.calls, NEW op \in ManageUsers!UserActions, ManageUsers!ActionAnswers(i, op)
    PROVE  UsersInv(ui')
<1>1. UsersIn(ui.calls[i])
  BY DEF UsersIn, ManageUsers!ActionAnswers, ManageUsers!Answered, ManageUsers!UserActions
<1>2. CASE ManageUsers!Failed(i)
  <2> DEFINE v == [ui EXCEPT !.acting = ManageUsers!NoUser]
  <2>1. UsersBut(v, i)
    BY <1>1, UsersClear
  <2> DEFINE w == ManageUsers!Fails(ManageUsers!Done(v, "act"), i)
  <2>2. ui' = w \/ ui' = ManageUsers!resetToVerifyStage(w)
    BY <1>2 DEF ManageUsers!ActionAnswers, ManageUsers!ActionFails
  <2> HIDE DEF v
  <2>3. UsersBut(ManageUsers!Done(v, "act"), i)
    BY <2>1, UsersDone
  <2>4. UsersInv(w)
    BY <2>3, UsersFails
  <2> HIDE DEF w
  <2> QED BY <2>2, <2>4, UsersReset
<1>3. CASE ~ManageUsers!Failed(i)
  <2> DEFINE v == ManageUsers!closed(ui)
  <2>1. UsersInv(v) /\ v.calls = ui.calls
    <3>1. UsersInv(v)
      BY UsersSets DEF ManageUsers!closed
    <3>2. v.calls = ui.calls
      BY UsersHas DEF ManageUsers!closed
    <3> QED BY <3>1, <3>2
  <2>2. ui' = ManageUsers!Await(ui, i, "act") \/ ui' = ManageUsers!Await(v, i, "act")
    BY <1>3 DEF ManageUsers!ActionAnswers
  <2> HIDE DEF v
  <2> QED BY <1>1, <2>1, <2>2, UsersAwait
<1> QED BY <1>2, <1>3

LEMMA UsersJoined ==
    ASSUME UsersInv(ui), NEW i \in DOMAIN ui.calls, ManageUsers!InlineAnswers(i) \/ ManageUsers!JoinAnswers(i)
    PROVE  UsersInv(ui')
<1>1. CASE ManageUsers!InlineAnswers(i)
  <2> DEFINE v == ManageUsers!Done(ui, "del")
  <2>1. UsersInv(v)
    BY UsersDone
  <2> DEFINE w == ManageUsers!Fails(v, i)
  <2>2. ui' = w \/ ui' = ManageUsers!resetToVerifyStage(w) \/ ui' = ManageUsers!Await(ui, i, "del")
    BY <1>1 DEF ManageUsers!InlineAnswers
  <2> HIDE DEF v
  <2>3. UsersInv(w)
    BY <2>1, UsersFails
  <2> HIDE DEF w
  <2> QED BY <2>2, <2>3, UsersReset, UsersAwait
<1>2. CASE ManageUsers!JoinAnswers(i)
  <2>1. CASE ui.calls[i].id = "act"
    <3> DEFINE c == ManageUsers!call("after", ui.acting)
    <3>1. UsersIn(ui.calls[i])
      BY <1>2, <2>1 DEF UsersIn, ManageUsers!JoinAnswers, ManageUsers!Answered
    <3>2. Fields \subseteq DOMAIN c /\ c.op # "refresh"
      BY DEF Fields, ManageUsers!call
    <3>3. ui' = [ui EXCEPT !.calls[i] = c]
      BY <1>2, <2>1 DEF ManageUsers!JoinAnswers
    <3> HIDE DEF c
    <3>4. UsersTurn(ui, ui', i, c)
      BY <3>2, <3>3 DEF UsersInv, Page, Called, Put, UsersTurn
    <3> QED BY <3>1, <3>2, <3>4, UsersGoesOn
  <2>2. CASE ui.calls[i].id # "act"
    <3>1. ui' = ManageUsers!End(ManageUsers!Done(ui, "del"), i)
      BY <1>2, <2>2 DEF ManageUsers!JoinAnswers
    <3> QED BY <3>1, UsersDone, UsersEnd
  <2> QED BY <2>1, <2>2
<1> QED BY <1>1, <1>2

LEMMA UsersDetail ==
    ASSUME NEW u, NEW i, UsersInv(u) \/ UsersBut(u, i) PROVE UsersInv(ManageUsers!setDetail(u, i))
<1> DEFINE v(x, b) == [u EXCEPT !.detail = x, !.mixed = b]
<1>1. \A x, b : UsersInv(v(x, b)) \/ UsersBut(v(x, b), i)
  <2>1. \A x, b : {"calls", "acting"} \subseteq DOMAIN u => UsersSame(u, v(x, b))
    BY DEF UsersSame
  <2> HIDE DEF v
  <2> QED BY <2>1, UsersHas, UsersSames
<1>2. \/ ManageUsers!setDetail(u, i) = ManageUsers!End(u, i)
      \/ \E x, b : ManageUsers!setDetail(u, i) = ManageUsers!End(v(x, b), i)
  BY DEF ManageUsers!setDetail
<1> HIDE DEF v
<1> QED BY <1>1, <1>2, UsersEnd, UsersEndBut

LEMMA UsersDetails ==
    ASSUME UsersInv(ui), NEW i \in DOMAIN ui.calls, ManageUsers!DetailAnswers(i) \/ ManageUsers!AfterAnswers(i)
    PROVE  UsersInv(ui')
<1>1. CASE ManageUsers!DetailAnswers(i)
  <2>1. UsersInv(ManageUsers!setDetail(ui, i))
    BY UsersDetail
  <2> QED BY <1>1, <2>1, UsersReset DEF ManageUsers!DetailAnswers
<1>2. CASE ManageUsers!AfterAnswers(i)
  <2> DEFINE v == [ui EXCEPT !.acting = ManageUsers!NoUser]
             w == ManageUsers!setDetail(ManageUsers!Done(v, "act"), i)
  <2>1. UsersIn(ui.calls[i])
    BY <1>2 DEF UsersIn, ManageUsers!AfterAnswers, ManageUsers!Answered
  <2>2. UsersBut(v, i)
    BY <2>1, UsersClear
  <2>3. ui' = w \/ ui' = ManageUsers!resetToVerifyStage(w)
    BY <1>2 DEF ManageUsers!AfterAnswers
  <2> HIDE DEF v
  <2>4. UsersBut(ManageUsers!Done(v, "act"), i)
    BY <2>2, UsersDone
  <2>5. UsersInv(w)
    BY <2>4, UsersDetail
  <2> HIDE DEF w
  <2> QED BY <2>3, <2>5, UsersReset
<1> QED BY <1>1, <1>2

LEMMA UsersNext == ASSUME UsersInv(ui), ManageUsers!Next PROVE UsersInv(ui')
BY UsersAsks, UsersActs, UsersActed, UsersJoined, UsersDetails, UsersServe, UsersRefreshGoesOn,
   UsersRefreshes
   DEF ManageUsers!Next, ManageUsers!Answers, ManageUsers!User

LEMMA UsersSubmits == ASSUME UsersInv(ui) PROVE ManageUsers!OneSubmission
<1>1. Cardinality(ManageUsers!Under(ui, "refresh")) <= 1
  BY OnceCard DEF UsersInv, ManageUsers!Under
<1>2. Cardinality(ManageUsers!CallsOf(ManageUsers!UserActions \cup {"after"}, "act")) <= 1
  <2>1. \A i, j \in ManageUsers!CallsOf(ManageUsers!UserActions \cup {"after"}, "act") : i = j
    BY DEF UsersInv, UsersIn, ManageUsers!CallsOf, ManageUsers!UserActions
  <2> QED BY <2>1, SingleCard
<1>3. \A S : ManageUsers!Cardinality(S) = Cardinality(S)
  BY DEF Cardinality, ManageUsers!Cardinality
<1> QED BY <1>1, <1>2, <1>3 DEF ManageUsers!OneSubmission

--------------------------------------------------------------------------------
(* The groups of a root admin: one refresh and one action on the groups *)

GroupsIn(c) == c.op \in ManageGroups!GroupActions \cup {"groups", "join"}
GroupsInv(u) ==
    /\ Page(u) /\ "grouping" \in DOMAIN u
    /\ Once(u.calls, {"refresh"}, TRUE)
    /\ \A i \in DOMAIN u.calls : GroupsIn(u.calls[i]) =>
         u.grouping = TRUE /\ \A j \in DOMAIN u.calls : GroupsIn(u.calls[j]) => i = j
\* Nothing is under way for the mark but call i.
GroupsBut(u, i) ==
    /\ Page(u) /\ "grouping" \in DOMAIN u
    /\ Once(u.calls, {"refresh"}, TRUE)
    /\ \A j \in DOMAIN u.calls : GroupsIn(u.calls[j]) => j = i
GroupsSame(u, v) == {"calls", "grouping"} \subseteq DOMAIN v /\ v.calls = u.calls /\ v.grouping = u.grouping
GroupsTurn(u, v, k, c) == Called(u, v, k, c) /\ "grouping" \in DOMAIN v /\ v.grouping = u.grouping

LEMMA GroupsSames ==
    ASSUME NEW u, NEW v, GroupsSame(u, v)
    PROVE  (GroupsInv(u) => GroupsInv(v)) /\ \A i : GroupsBut(u, i) => GroupsBut(v, i)
BY DEF GroupsInv, GroupsBut, GroupsSame, Page

LEMMA GroupsKept ==
    ASSUME NEW u, GroupsInv(u), NEW v, Kept(u, v), "grouping" \in DOMAIN v, v.grouping = u.grouping
    PROVE  GroupsInv(v)
<1>1. \A j \in DOMAIN u.calls : (GroupsIn(v.calls[j]) => GroupsIn(u.calls[j])) /\ v.calls[j].op = u.calls[j].op
  BY DEF Kept, GroupsIn
<1> QED BY <1>1 DEF GroupsInv, Once, Kept

LEMMA GroupsTurns ==
    ASSUME NEW u, GroupsInv(u), NEW v, NEW k, NEW c, Called(u, v, k, c)
    PROVE  /\ Page(v) /\ DOMAIN v.calls = DOMAIN u.calls
           /\ \A j \in DOMAIN u.calls : v.calls[j] = IF j = k THEN c ELSE u.calls[j]
<1>1. Page(v) /\ DOMAIN v.calls = DOMAIN u.calls
  BY CalledPage DEF GroupsInv
<1> QED BY <1>1 DEF Called, Put

LEMMA GroupsAside ==
    ASSUME NEW u, GroupsInv(u), NEW v, NEW k, NEW c, GroupsTurn(u, v, k, c), ~GroupsIn(c),
           \/ c.op # "refresh"
           \/ \A i \in DOMAIN u.calls : u.calls[i].op # "refresh"
    PROVE  GroupsInv(v)
<1>1. /\ Page(v) /\ DOMAIN v.calls = DOMAIN u.calls
      /\ \A j \in DOMAIN u.calls : v.calls[j] = IF j = k THEN c ELSE u.calls[j]
  BY GroupsTurns DEF GroupsTurn
<1>2. Once(v.calls, {"refresh"}, TRUE)
  BY <1>1 DEF GroupsInv, Once
<1> QED BY <1>1, <1>2 DEF GroupsInv, GroupsTurn

\* The action goes on.
LEMMA GroupsGoesOn ==
    ASSUME NEW u, GroupsInv(u), NEW v, NEW i \in DOMAIN u.calls, NEW c, GroupsTurn(u, v, i, c),
           GroupsIn(u.calls[i]), c.op # "refresh"
    PROVE  GroupsInv(v)
<1>1. /\ Page(v) /\ DOMAIN v.calls = DOMAIN u.calls
      /\ \A j \in DOMAIN u.calls : v.calls[j] = IF j = i THEN c ELSE u.calls[j]
  BY GroupsTurns DEF GroupsTurn
<1>2. Once(v.calls, {"refresh"}, TRUE)
  BY <1>1 DEF GroupsInv, Once
<1> QED BY <1>1, <1>2 DEF GroupsInv, GroupsTurn

LEMMA GroupsClear ==
    ASSUME NEW u, GroupsInv(u), NEW i \in DOMAIN u.calls, GroupsIn(u.calls[i]), NEW x
    PROVE  GroupsBut([u EXCEPT !.grouping = x], i)
BY DEF GroupsInv, GroupsBut, Page

LEMMA GroupsEndBut == ASSUME NEW u, NEW i, GroupsBut(u, i) PROVE GroupsInv(ManageGroups!End(u, i))
<1> DEFINE v == ManageGroups!End(u, i)
<1>1. Page(v) /\ "grouping" \in DOMAIN v /\ DOMAIN v.calls = DOMAIN u.calls
      /\ \A j \in DOMAIN u.calls : v.calls[j] = IF j = i THEN ManageGroups!Idle ELSE u.calls[j]
  BY DEF GroupsBut, Page, Slots, Fields, ManageGroups!End, ManageGroups!Idle
<1>2. ~GroupsIn(ManageGroups!Idle) /\ ManageGroups!Idle.op = "idle"
  BY DEF GroupsIn, ManageGroups!Idle, ManageGroups!GroupActions
<1> HIDE DEF v
<1>3. Once(v.calls, {"refresh"}, TRUE)
  BY <1>1, <1>2 DEF GroupsBut, Once
<1>4. GroupsInv(v)
  BY <1>1, <1>2, <1>3 DEF GroupsInv, GroupsBut
<1> QED BY <1>4 DEF v

LEMMA GroupsEnd == ASSUME NEW u, GroupsInv(u), NEW i PROVE GroupsInv(ManageGroups!End(u, i))
<1>1. GroupsTurn(u, ManageGroups!End(u, i), i, ManageGroups!Idle) /\ ~GroupsIn(ManageGroups!Idle) /\ ManageGroups!Idle.op # "refresh"
  BY DEF GroupsInv, Page, Called, Put, Fields, GroupsTurn, GroupsIn, ManageGroups!End,
     ManageGroups!Idle, ManageGroups!GroupActions
<1> QED BY <1>1, GroupsAside

LEMMA GroupsRace ==
    ASSUME NEW u, {"calls", "grouping"} \subseteq DOMAIN u, NEW b
    PROVE  GroupsSame(u, ManageGroups!Race(u, b))
BY DEF GroupsSame, ManageGroups!Race

LEMMA GroupsHas ==
    ASSUME NEW u
    PROVE  GroupsInv(u) \/ (\E i : GroupsBut(u, i)) => {"calls", "grouping"} \subseteq DOMAIN u
BY DEF GroupsInv, GroupsBut, Page

LEMMA GroupsRaces ==
    ASSUME NEW u, NEW b
    PROVE  (GroupsInv(u) => GroupsInv(ManageGroups!Race(u, b))) /\ \A i : GroupsBut(u, i) => GroupsBut(ManageGroups!Race(u, b), i)
BY GroupsRace, GroupsHas, GroupsSames

LEMMA GroupsSets ==
    ASSUME NEW u, GroupsInv(u)
    PROVE  /\ \A x : GroupsInv([u EXCEPT !.bootstrapping = x])
           /\ \A x : GroupsInv([u EXCEPT !.filter = x])
           /\ \A h, x : GroupsInv([u EXCEPT !.clicked[h] = x])
           /\ \A x, y : GroupsInv([u EXCEPT !.current = x, !.rowsFor = y])
           /\ \A x, y : GroupsInv([u EXCEPT !.root = x, !.bootstrapping = y])
           /\ \A x : GroupsInv([u EXCEPT !.root = x])
           /\ \A x : GroupsInv([u EXCEPT !.raced = x])
           /\ \A x, y, z : GroupsInv([u EXCEPT !.modal = x, !.detail = y, !.left = z])
           /\ \A x : GroupsInv([u EXCEPT !.saving = x])
<1>1. {"calls", "grouping"} \subseteq DOMAIN u
  BY GroupsHas
<1>2. /\ \A x : GroupsSame(u, [u EXCEPT !.bootstrapping = x])
      /\ \A x : GroupsSame(u, [u EXCEPT !.filter = x])
      /\ \A h, x : GroupsSame(u, [u EXCEPT !.clicked[h] = x])
      /\ \A x, y : GroupsSame(u, [u EXCEPT !.current = x, !.rowsFor = y])
      /\ \A x, y : GroupsSame(u, [u EXCEPT !.root = x, !.bootstrapping = y])
      /\ \A x : GroupsSame(u, [u EXCEPT !.root = x])
      /\ \A x : GroupsSame(u, [u EXCEPT !.raced = x])
      /\ \A x, y, z : GroupsSame(u, [u EXCEPT !.modal = x, !.detail = y, !.left = z])
      /\ \A x : GroupsSame(u, [u EXCEPT !.saving = x])
  BY <1>1 DEF GroupsSame
<1> QED BY <1>2, GroupsSames

LEMMA GroupsReset == ASSUME NEW u, GroupsInv(u) PROVE GroupsInv(ManageGroups!resetToVerifyStage(u))
BY GroupsSets DEF ManageGroups!resetToVerifyStage

LEMMA GroupsFails ==
    ASSUME NEW u, NEW i, GroupsInv(u) \/ GroupsBut(u, i) PROVE GroupsInv(ManageGroups!Fails(u, i))
<1> DEFINE v == ManageGroups!Race(u, TRUE)
<1>1. GroupsInv(v) \/ GroupsBut(v, i)
  BY GroupsRaces
<1>2. ManageGroups!Fails(u, i) = ManageGroups!End(v, i)
  BY DEF ManageGroups!Fails
<1> HIDE DEF v
<1> QED BY <1>1, <1>2, GroupsEnd, GroupsEndBut

LEMMA GroupsDone ==
    ASSUME NEW u, NEW h
    PROVE  (GroupsInv(u) => GroupsInv(ManageGroups!Done(u, h))) /\ \A i : GroupsBut(u, i) => GroupsBut(ManageGroups!Done(u, h), i)
<1>1. {"calls", "grouping"} \subseteq DOMAIN u => GroupsSame(u, ManageGroups!Done(u, h))
  BY DEF GroupsSame, ManageGroups!Done
<1> QED BY <1>1, GroupsHas, GroupsSames

LEMMA GroupsRefresh ==
    ASSUME NEW u, GroupsInv(u), NEW f
    PROVE  GroupsInv(ManageGroups!refreshDashboard(u, f))
<1>1. CASE ManageGroups!Refreshing(u)
  BY <1>1, GroupsRaces DEF ManageGroups!refreshDashboard
<1>2. CASE ~ManageGroups!Refreshing(u)
  <2> DEFINE w == [u EXCEPT !.raced = FALSE]
             c == ManageGroups!call("refresh", f)
  <2>1. PICK b : ManageGroups!refreshDashboard(u, f) = ManageGroups!Send(ManageGroups!Race(w, b), c)
    BY <1>2 DEF ManageGroups!refreshDashboard
  <2>2. GroupsInv(w) /\ w.calls = u.calls
    BY GroupsSets, GroupsHas
  <2>3. \A i \in DOMAIN u.calls : u.calls[i].op # "refresh"
    BY <1>2 DEF ManageGroups!Refreshing, ManageGroups!Under
  <2>4. Fields \subseteq DOMAIN c /\ c.op = "refresh" /\ ~GroupsIn(c)
    BY DEF Fields, GroupsIn, ManageGroups!call, ManageGroups!GroupActions
  <2> HIDE DEF w, c
  <2> DEFINE v == ManageGroups!Race(w, b)
  <2>5. GroupsInv(v) /\ v.calls = u.calls
    BY <2>2, GroupsRaces, GroupsRace, GroupsHas DEF GroupsSame
  <2> HIDE DEF v
  <2>6. GroupsTurn(v, ManageGroups!Send(v, c), ManageGroups!Slot(v), c)
    BY <2>4, <2>5 DEF GroupsInv, Page, Called, Put, GroupsTurn, ManageGroups!Send
  <2>7. GroupsInv(ManageGroups!Send(v, c))
    BY <2>3, <2>4, <2>5, <2>6, GroupsAside
  <2> QED BY <2>1, <2>7 DEF v
<1> QED BY <1>1, <1>2

LEMMA GroupsBoots == ASSUME NEW u, GroupsInv(u) PROVE GroupsInv(ManageGroups!bootstrapAdmin(u))
<1> DEFINE v == [u EXCEPT !.bootstrapping = TRUE]
<1>1. GroupsInv(v)
  BY GroupsSets
<1>2. \E f : ManageGroups!bootstrapAdmin(u) = ManageGroups!refreshDashboard(v, f)
  BY DEF ManageGroups!bootstrapAdmin
<1> HIDE DEF v
<1> QED BY <1>1, <1>2, GroupsRefresh

LEMMA GroupsApply ==
    ASSUME NEW u, GroupsInv(u), NEW i, NEW parts
    PROVE  GroupsInv(ManageGroups!Apply(u, i, parts)) /\ GroupsSame(u, ManageGroups!Apply(u, i, parts))
<1> DEFINE v(x, y) == [u EXCEPT !.current = x, !.rowsFor = y]
<1>1. \A x, y : GroupsSame(u, v(x, y))
  BY DEF GroupsInv, Page, GroupsSame
<1>2. CASE u.raced = TRUE
  <2>1. ManageGroups!Apply(u, i, parts) = u
    BY <1>2 DEF ManageGroups!Apply
  <2> QED BY <2>1 DEF GroupsSame, GroupsInv, Page
<1>3. CASE u.raced # TRUE
  <2>1. PICK x, y : ManageGroups!Apply(u, i, parts) = IF u.raced THEN u ELSE v(x, y)
    BY DEF ManageGroups!Apply
  <2> HIDE DEF v
  <2> QED BY <1>1, <1>3, <2>1, GroupsSames
<1> QED BY <1>2, <1>3

\* Handler h waits, whose call was one of the action.
LEMMA GroupsAwait ==
    ASSUME NEW u, GroupsInv(u), NEW i \in DOMAIN u.calls, NEW h, GroupsIn(u.calls[i])
    PROVE  GroupsInv(ManageGroups!Await(u, i, h))
<1> DEFINE c == ManageGroups!call("join", h)
           v == [u EXCEPT !.calls[i] = c]
<1>1. Fields \subseteq DOMAIN c /\ c.op = "join" /\ c.id = h
  BY DEF Fields, ManageGroups!call
<1>2. \E f : ManageGroups!Await(u, i, h) = ManageGroups!refreshDashboard(v, f)
  BY DEF ManageGroups!Await
<1> HIDE DEF c
<1>3. GroupsTurn(u, v, i, c)
  BY <1>1 DEF GroupsInv, Page, Called, Put, GroupsTurn
<1> HIDE DEF v
<1>4. GroupsInv(v)
  BY <1>1, <1>3, GroupsGoesOn
<1> QED BY <1>2, <1>4, GroupsRefresh

LEMMA GroupsRefreshes ==
    ASSUME GroupsInv(ui), (\E f : ManageGroups!setFilters(f)) \/ ManageGroups!refreshButton
    PROVE  GroupsInv(ui')
<1> DEFINE v(f) == [ui EXCEPT !.filter = f]
<1>1. \A f : GroupsInv(v(f))
  BY GroupsSets
<1>2. (\E f : ui' = ManageGroups!bootstrapAdmin(v(f))) \/ \E f : ui' = ManageGroups!refreshDashboard(ui, f)
  BY DEF ManageGroups!setFilters, ManageGroups!refreshButton
<1> HIDE DEF v
<1> QED BY <1>1, <1>2, GroupsBoots, GroupsRefresh

\* Getting a part changes no call and no mark.
LEMMA GroupsPart ==
    ASSUME GroupsInv(ui), NEW i, NEW p,
           ManageGroups!ServePart(i, p) \/ ManageGroups!PartArrives(i, p) \/ ManageGroups!PartFails(i, p)
    PROVE  GroupsInv(ui')
<1>1. CASE ManageGroups!ServePart(i, p)
  <2>1. \E g : ui' = [ui EXCEPT !.calls[i].got = g]
    BY <1>1 DEF ManageGroups!ServePart
  <2>2. Kept(ui, ui') /\ Rests(ui, ui', "grouping")
    <3>1. Page(ui) /\ Kept(ui, ui) /\ "grouping" \in DOMAIN ui
      BY KeptSelf DEF GroupsInv
    <3> QED BY <2>1, <3>1, Getting
  <2> QED BY <2>2, GroupsKept DEF Rests
<1>2. CASE ManageGroups!PartArrives(i, p)
  <2> DEFINE w == ManageGroups!Apply(ui, i, {p})
  <2>1. Kept(ui, w) /\ Rests(ui, w, "grouping")
    <3>1. GroupsInv(w) /\ GroupsSame(ui, w)
      BY GroupsApply
    <3> HIDE DEF w
    <3> QED BY <3>1 DEF GroupsInv, GroupsSame, Kept, Rests
  <2>2. \E g : ui' = [w EXCEPT !.calls[i].got = g]
    BY <1>2 DEF ManageGroups!PartArrives, ManageGroups!Over
  <2> HIDE DEF w
  <2>3. Kept(ui, ui') /\ Rests(ui, ui', "grouping")
    <3>1. Page(ui)
      BY DEF GroupsInv
    <3>2. Kept(ui, ui') /\ \A x \in DOMAIN w : x # "calls" => Rests(w, ui', x)
      BY <2>1, <2>2, <3>1, Getting
    <3> QED BY <2>1, <3>2 DEF Rests
  <2> QED BY <2>3, GroupsKept DEF Rests
<1>3. CASE ManageGroups!PartFails(i, p)
  <2> DEFINE w == ManageGroups!Race(ui, TRUE)
  <2>1. Kept(ui, w) /\ Rests(ui, w, "grouping")
    BY GroupsRace, GroupsRaces, GroupsHas DEF GroupsInv, GroupsSame, Kept, Rests
  <2>2. \E g : ui' = [[w EXCEPT !.calls[i].got = g] EXCEPT !.calls[i].at = "err"]
    BY <1>3 DEF ManageGroups!PartFails, ManageGroups!Over
  <2> HIDE DEF w
  <2>3. Kept(ui, ui') /\ Rests(ui, ui', "grouping")
    BY <2>1, <2>2, Serves DEF GroupsInv
  <2> QED BY <2>3, GroupsKept DEF Rests
<1> QED BY <1>1, <1>2, <1>3

LEMMA GroupsRefreshed ==
    ASSUME GroupsInv(ui), NEW i \in DOMAIN ui.calls, NEW parts, ManageGroups!RefreshAnswers(i, parts)
    PROVE  GroupsInv(ui')
<1> DEFINE f == [j \in DOMAIN ui.calls |->
                  IF j = i THEN ManageGroups!Idle
                  ELSE IF ui.calls[j].op = "join" THEN [ui.calls[j] EXCEPT !.at = "ok"] ELSE ui.calls[j]]
           v == [ui EXCEPT !.bootstrapping = FALSE, !.calls = f]
           w == [v EXCEPT !.root = TRUE]
<1>1. /\ Slots(f) /\ DOMAIN f = DOMAIN ui.calls
      /\ \A j \in DOMAIN f : /\ f[j].op = "refresh" => ui.calls[j].op = "refresh"
                             /\ GroupsIn(f[j]) => GroupsIn(ui.calls[j])
  <2>1. ~GroupsIn(ManageGroups!Idle) /\ ManageGroups!Idle.op = "idle" /\ Fields \subseteq DOMAIN ManageGroups!Idle
    BY DEF Fields, GroupsIn, ManageGroups!Idle, ManageGroups!GroupActions
  <2>2. \A j \in DOMAIN f :
          \/ f[j] = ManageGroups!Idle
          \/ Fields \subseteq DOMAIN f[j] /\ f[j].op = ui.calls[j].op /\ f[j].id = ui.calls[j].id
    BY DEF GroupsInv, Page, Slots, Fields
  <2> HIDE DEF f
  <2>3. DOMAIN f = DOMAIN ui.calls
    BY DEF f
  <2> QED BY <2>1, <2>2, <2>3 DEF Slots, GroupsIn
<1>2. ui' = v \/ ui' = ManageGroups!bootstrapAdmin(w) \/ ui' = ManageGroups!resetToVerifyStage(v)
  BY DEF ManageGroups!RefreshAnswers
<1> HIDE DEF f
<1>3. Page(v) /\ v.calls = f /\ "grouping" \in DOMAIN v /\ v.grouping = ui.grouping
  BY <1>1 DEF GroupsInv, Page
<1> HIDE DEF v
<1>4. GroupsInv(v)
  BY <1>1, <1>3 DEF GroupsInv, Once
<1>5. GroupsInv(w)
  BY <1>4, GroupsSets
<1> HIDE DEF w
<1> QED BY <1>2, <1>4, <1>5, GroupsBoots, GroupsReset

LEMMA GroupsRefreshGoesOn ==
    ASSUME GroupsInv(ui), NEW parts, ManageGroups!RefreshGoesOn(parts)
    PROVE  GroupsInv(ui')
<1>1. CASE ManageGroups!LevelArrives
  BY <1>1, GroupsSets DEF ManageGroups!LevelArrives
<1> QED BY <1>1, GroupsRefreshed, GroupsPart DEF ManageGroups!RefreshGoesOn

LEMMA GroupsServe ==
    ASSUME GroupsInv(ui), NEW i, ManageGroups!GroupServe(i) PROVE GroupsInv(ui')
<1> DEFINE w == ManageGroups!GroupEffect(ui, ui.calls[i])
<1>1. \/ ui' = [ui EXCEPT !.calls[i].at = "err"]
      \/ \E g, a : ui' = [[w EXCEPT !.calls[i].got = g] EXCEPT !.calls[i].at = a]
  BY DEF ManageGroups!GroupServe, ManageGroups!Outcomes
<1>2. Kept(ui, w) /\ Rests(ui, w, "grouping")
  <2>1. w = ui \/ \E p : w = ManageGroups!Outdate(ui, p)
    BY DEF ManageGroups!GroupEffect
  <2>2. ASSUME NEW p PROVE Kept(ui, ManageGroups!Outdate(ui, p)) /\ Rests(ui, ManageGroups!Outdate(ui, p), "grouping")
    <3> DEFINE g == [j \in DOMAIN ui.calls |-> [ui.calls[j] EXCEPT !.got = ui.calls[j].got \ p]]
               v == ManageGroups!Outdate(ui, p)
    <3>1. /\ Slots(g) /\ DOMAIN g = DOMAIN ui.calls
          /\ \A j \in DOMAIN g : g[j].op = ui.calls[j].op /\ g[j].id = ui.calls[j].id /\ g[j].mine = ui.calls[j].mine
      BY DEF GroupsInv, Page, Slots, Fields
    <3>2. v = [ui EXCEPT !.current = ui.current \ p, !.calls = g]
      BY DEF ManageGroups!Outdate
    <3> HIDE DEF g, v
    <3>3. Kept(ui, v) /\ Rests(ui, v, "grouping")
      BY <3>1, <3>2 DEF GroupsInv, Page, Kept, Rests
    <3> QED BY <3>3 DEF v
  <2>3. Kept(ui, ui) /\ Rests(ui, ui, "grouping")
    BY KeptSelf DEF GroupsInv, Rests
  <2> QED BY <2>1, <2>2, <2>3
<1> HIDE DEF w
<1>3. Kept(ui, ui') /\ Rests(ui, ui', "grouping")
  BY <1>1, <1>2, Serves DEF GroupsInv
<1> QED BY <1>3, GroupsKept DEF Rests

\* A call that belongs to no mark.
LEMMA GroupsSend ==
    ASSUME NEW u, GroupsInv(u), NEW op, NEW x, ~GroupsIn(ManageGroups!call(op, x)), op # "refresh"
    PROVE  GroupsInv(ManageGroups!Send(u, ManageGroups!call(op, x)))
<1> DEFINE c == ManageGroups!call(op, x)
<1>1. Fields \subseteq DOMAIN c /\ c.op = op
  BY DEF Fields, ManageGroups!call
<1>2. ~GroupsIn(c)
  OBVIOUS
<1> HIDE DEF c
<1>3. GroupsTurn(u, ManageGroups!Send(u, c), ManageGroups!Slot(u), c)
  BY <1>1 DEF GroupsInv, Page, Called, Put, GroupsTurn, ManageGroups!Send
<1>4. GroupsInv(ManageGroups!Send(u, c))
  BY <1>1, <1>2, <1>3, GroupsAside
<1> QED BY <1>4 DEF c

\* A call that starts the action.
LEMMA GroupsStart ==
    ASSUME NEW u, GroupsInv(u), NEW v, NEW k, NEW c, Called(u, v, k, c), "grouping" \in DOMAIN v,
           ~(u.grouping = TRUE), v.grouping = TRUE, c.op # "refresh"
    PROVE  GroupsInv(v)
<1>1. /\ Page(v) /\ DOMAIN v.calls = DOMAIN u.calls
      /\ \A j \in DOMAIN u.calls : v.calls[j] = IF j = k THEN c ELSE u.calls[j]
  BY GroupsTurns
<1>2. Once(v.calls, {"refresh"}, TRUE)
  BY <1>1 DEF GroupsInv, Once
<1> QED BY <1>1, <1>2 DEF GroupsInv

LEMMA GroupsMounts == GroupsInv(ManageGroups!GroupsMounted)
<1> DEFINE u == [current |-> {}, filter |-> Normal, rowsFor |-> "none", bootstrapping |-> TRUE,
         root |-> FALSE, clicked |-> [h \in ManageGroups!GroupHandlers |-> Normal], grouping |-> FALSE,
         saving |-> FALSE, modal |-> ManageGroups!NoUser, detail |-> ManageGroups!NoUser, raced |-> FALSE,
         left |-> FALSE, calls |-> ManageGroups!NoCalls]
<1>1. GroupsInv(u)
  BY DEF GroupsInv, GroupsIn, Page, Slots, Fields, Once, ManageGroups!NoCalls, ManageGroups!Idle,
     ManageGroups!GroupActions
<1>2. ManageGroups!GroupsMounted = ManageGroups!bootstrapAdmin(u)
  BY DEF ManageGroups!GroupsMounted
<1> HIDE DEF u
<1> QED BY <1>1, <1>2, GroupsBoots

LEMMA GroupsInit == ASSUME ManageGroups!InitGroups PROVE GroupsInv(ui)
BY GroupsMounts DEF ManageGroups!InitGroups

LEMMA GroupsActs ==
    ASSUME GroupsInv(ui), NEW op \in ManageGroups!GroupActions, ManageGroups!handleGroup(op)
    PROVE  GroupsInv(ui')
<1> DEFINE c == ManageGroups!call(op, Group)
<1>1. \E x : ui' = ManageGroups!Send([[ui EXCEPT !.grouping = TRUE] EXCEPT !.clicked["grp"] = x], c)
  BY DEF ManageGroups!handleGroup, ManageGroups!Clicked
<1>2. PICK k, x : ui' = [ui EXCEPT !.grouping = TRUE, !.clicked["grp"] = x, !.calls[k] = c]
  BY <1>1 DEF GroupsInv, Page, ManageGroups!Send
<1>3. Fields \subseteq DOMAIN c /\ c.op # "refresh"
  BY DEF Fields, ManageGroups!call, ManageGroups!GroupActions
<1>4. ui.grouping # TRUE
  BY DEF ManageGroups!handleGroup
<1> HIDE DEF c
<1>5. Called(ui, ui', k, c) /\ "grouping" \in DOMAIN ui' /\ ui'.grouping = TRUE
  BY <1>2, <1>3 DEF GroupsInv, Page, Called, Put
<1> QED BY <1>3, <1>4, <1>5, GroupsStart

LEMMA GroupsAuto == ASSUME GroupsInv(ui), ManageGroups!handleToggleAutoApproval PROVE GroupsInv(ui')
<1> DEFINE v == [ui EXCEPT !.saving = TRUE]
<1>1. GroupsInv(v)
  BY GroupsSets
<1>2. \E b : ui' = ManageGroups!Send(ManageGroups!Race(v, b), ManageGroups!call("auto", Normal))
  BY DEF ManageGroups!handleToggleAutoApproval
<1>3. ~GroupsIn(ManageGroups!call("auto", Normal))
  BY DEF GroupsIn, ManageGroups!call, ManageGroups!GroupActions
<1> HIDE DEF v
<1> QED BY <1>1, <1>2, <1>3, GroupsRaces, GroupsSend

LEMMA GroupsUngroup ==
    ASSUME NEW u, GroupsInv(u), NEW i \in DOMAIN u.calls, GroupsIn(u.calls[i])
    PROVE  GroupsBut(ManageGroups!Ungroup(u), i)
<1> DEFINE v == [u EXCEPT !.grouping = FALSE]
<1>1. GroupsBut(v, i)
  BY GroupsClear
<1>2. ManageGroups!Ungroup(u) = ManageGroups!Done(v, "grp")
  BY DEF ManageGroups!Ungroup
<1> HIDE DEF v
<1> QED BY <1>1, <1>2, GroupsDone

LEMMA GroupsAgain ==
    ASSUME NEW i \in DOMAIN ui.calls, GroupsInv(ui), GroupsIn(ui.calls[i]), NEW op
    PROVE  GroupsInv([ui EXCEPT !.calls[i] = ManageGroups!call("groups", op)])
<1> DEFINE c == ManageGroups!call("groups", op)
           v == [ui EXCEPT !.calls[i] = c]
<1>1. Fields \subseteq DOMAIN c /\ c.op # "refresh"
  BY DEF Fields, ManageGroups!call
<1> HIDE DEF c
<1>2. GroupsTurn(ui, v, i, c)
  BY <1>1 DEF GroupsInv, Page, Called, Put, GroupsTurn
<1> HIDE DEF v
<1>3. GroupsInv(v)
  BY <1>1, <1>2, GroupsGoesOn
<1> QED BY <1>3 DEF v, c

LEMMA GroupsActed ==
    ASSUME GroupsInv(ui), NEW i \in DOMAIN ui.calls,
           \/ \E op \in {"create", "remove", "toggle"} : ManageGroups!GroupAnswers(i, op)
           \/ ManageGroups!LinkAnswers(i)
           \/ ManageGroups!MoveAnswers(i)
    PROVE  GroupsInv(ui')
<1> DEFINE v(op) == [ui EXCEPT !.calls[i] = ManageGroups!call("groups", op)]
           w(op) == [v(op) EXCEPT !.filter = Normal]
<1>1. GroupsIn(ui.calls[i])
  BY DEF GroupsIn, ManageGroups!GroupAnswers, ManageGroups!LinkAnswers, ManageGroups!MoveAnswers,
     ManageGroups!Answered, ManageGroups!GroupActions
<1>2. \/ ui' = ManageGroups!Fails(ManageGroups!Ungroup(ui), i)
      \/ ui' = ManageGroups!End(ManageGroups!Ungroup(ui), i)
      \/ \E op : ui' = v(op) \/ ui' = ManageGroups!bootstrapAdmin(w(op))
      \/ ui' = ManageGroups!Await(ui, i, "grp")
  <2>1. CASE \E op \in {"create", "remove", "toggle"} : ManageGroups!GroupAnswers(i, op)
    BY <2>1 DEF ManageGroups!GroupAnswers
  <2>2. CASE ManageGroups!LinkAnswers(i) \/ ManageGroups!MoveAnswers(i)
    BY <2>2 DEF ManageGroups!LinkAnswers, ManageGroups!MoveAnswers
  <2> QED BY <2>1, <2>2
<1>3. \A op : GroupsInv(v(op))
  BY <1>1, GroupsAgain
<1> HIDE DEF v
<1>4. \A op : GroupsInv(w(op))
  BY <1>3, GroupsSets
<1> HIDE DEF w
<1> QED BY <1>1, <1>2, <1>3, <1>4, GroupsUngroup, GroupsFails, GroupsEndBut, GroupsBoots,
           GroupsAwait

LEMMA GroupsGroupsAnswer ==
    ASSUME GroupsInv(ui), NEW i \in DOMAIN ui.calls, ManageGroups!GroupsAnswers(i)
    PROVE  GroupsInv(ui')
<1>1. GroupsIn(ui.calls[i])
  BY DEF GroupsIn, ManageGroups!GroupsAnswers, ManageGroups!Answered
<1> DEFINE u == IF ManageGroups!Failed(i) THEN ManageGroups!Race(ui, TRUE) ELSE ManageGroups!Apply(ui, i, {"groups"})
<1>2. GroupsInv(u) /\ u.calls = ui.calls
  <2>1. CASE ManageGroups!Failed(i)
    <3> DEFINE v == ManageGroups!Race(ui, TRUE)
    <3>1. GroupsInv(v) /\ GroupsSame(ui, v)
      BY GroupsRace, GroupsRaces, GroupsHas
    <3>2. u = v
      BY <2>1
    <3> HIDE DEF u, v
    <3> QED BY <3>1, <3>2 DEF GroupsSame
  <2>2. CASE ~ManageGroups!Failed(i)
    <3> DEFINE v == ManageGroups!Apply(ui, i, {"groups"})
    <3>1. GroupsInv(v) /\ GroupsSame(ui, v)
      BY GroupsApply
    <3>2. u = v
      BY <2>2
    <3> HIDE DEF u, v
    <3> QED BY <3>1, <3>2 DEF GroupsSame
  <2> QED BY <2>1, <2>2
<1>3. ui' = ManageGroups!End(ManageGroups!Ungroup(u), i) \/ ui' = ManageGroups!Await(u, i, "grp")
  BY DEF ManageGroups!GroupsAnswers
<1> HIDE DEF u
<1> QED BY <1>1, <1>2, <1>3, GroupsUngroup, GroupsEndBut, GroupsAwait

LEMMA GroupsJoined ==
    ASSUME GroupsInv(ui), NEW i \in DOMAIN ui.calls, ManageGroups!GroupJoinAnswers(i)
    PROVE  GroupsInv(ui')
<1>1. ui.calls[i].op = "join" /\ ui' = ManageGroups!End(ManageGroups!Ungroup(ui), i)
  BY DEF ManageGroups!GroupJoinAnswers, ManageGroups!Answered
<1>2. GroupsIn(ui.calls[i])
  BY <1>1 DEF GroupsIn
<1> QED BY <1>1, <1>2, GroupsUngroup, GroupsEndBut

LEMMA GroupsAutoAnswer ==
    ASSUME GroupsInv(ui), NEW i \in DOMAIN ui.calls, ManageGroups!AutoAnswers(i)
    PROVE  GroupsInv(ui')
<1> DEFINE v == [ui EXCEPT !.saving = FALSE]
           w == ManageGroups!Apply(v, i, {"auto"})
           x == ManageGroups!Fails(v, i)
<1>1. \/ ui' = x
      \/ ui' = ManageGroups!resetToVerifyStage(x)
      \/ \E b : ui' = ManageGroups!End(ManageGroups!Race(w, b), i)
  BY DEF ManageGroups!AutoAnswers
<1>2. GroupsInv(v)
  BY GroupsSets
<1> HIDE DEF v
<1>3. GroupsInv(w) /\ GroupsInv(x)
  BY <1>2, GroupsApply, GroupsFails
<1> HIDE DEF w, x
<1> QED BY <1>1, <1>3, GroupsReset, GroupsRaces, GroupsEnd

LEMMA GroupsNext == ASSUME GroupsInv(ui), ManageGroups!NextGroups PROVE GroupsInv(ui')
BY GroupsActs, GroupsAuto, GroupsActed, GroupsGroupsAnswer, GroupsJoined, GroupsAutoAnswer,
   GroupsMounts, GroupsServe, GroupsRefreshGoesOn, GroupsRefreshes
   DEF ManageGroups!NextGroups, ManageGroups!GroupCallsAnswer, ManageGroups!GroupsReopen

LEMMA GroupsSubmits == ASSUME GroupsInv(ui) PROVE ManageGroups!OneGroupSubmission
<1>1. Cardinality(ManageGroups!Under(ui, "refresh")) <= 1
  BY OnceCard DEF GroupsInv, ManageGroups!Under
<1>2. Cardinality(ManageGroups!CallsOf(ManageGroups!GroupActions \cup {"groups"}, "grp")) <= 1
  <2>1. \A i, j \in ManageGroups!CallsOf(ManageGroups!GroupActions \cup {"groups"}, "grp") : i = j
    BY DEF GroupsInv, GroupsIn, ManageGroups!CallsOf
  <2> QED BY <2>1, SingleCard
<1>3. \A S : ManageGroups!Cardinality(S) = Cardinality(S)
  BY DEF Cardinality, ManageGroups!Cardinality
<1> QED BY <1>1, <1>2, <1>3 DEF ManageGroups!OneGroupSubmission

--------------------------------------------------------------------------------
(* The other lists of the control centre: admins, traders and exports *)

RostersInv(u) ==
    /\ Page(u)
    /\ Guards(u, {"export"}, "exporting")
RostersMoves(u, v, k, c) ==
    /\ Called(u, v, k, c)
    /\ Moves(u, v, k, c, {"export"}, "exporting")
RostersRests(u, v) ==
    /\ Kept(u, v)
    /\ Rests(u, v, "exporting")

LEMMA RostersStep ==
    ASSUME NEW u, NEW v, RostersInv(u),
           RostersRests(u, v) \/ \E k, c : RostersMoves(u, v, k, c)
    PROVE  RostersInv(v)
<1>1. ASSUME NEW k, NEW c, RostersMoves(u, v, k, c) PROVE RostersInv(v)
  BY <1>1, CalledPage, CalledGuards DEF RostersInv, RostersMoves
<1>2. CASE RostersRests(u, v)
  BY <1>2, KeptGuards DEF RostersInv, RostersRests, Kept
<1> QED BY <1>1, <1>2

LEMMA RostersInit == ASSUME Rosters!Init PROVE RostersInv(ui)
BY DEF RostersInv, Page, Slots, Guards, Once, Fields, Rosters!Init, Rosters!NoCalls, Rosters!Idle

LEMMA RostersOpens ==
    ASSUME RostersInv(ui), Rosters!openAdminManagement PROVE RostersInv(ui')
<1>1. PICK b, k : ui' = [[ui EXCEPT !.dialog = TRUE] EXCEPT !.adminsLoading = TRUE, !.raced = b, !.calls[k] = Rosters!call("admins", "none")]
  BY DEF Rosters!openAdminManagement, Rosters!loadAdmins
<1>2. RostersMoves(ui, ui', k, Rosters!call("admins", "none"))
  BY <1>1 DEF RostersInv, RostersMoves, Called, Moves, Put, Page, Guards, Fields, Rosters!call
<1> QED BY <1>2, RostersStep

LEMMA RostersCloses ==
    ASSUME RostersInv(ui), Rosters!onClose PROVE RostersInv(ui')
<1>1. PICK f : /\ ui' = [ui EXCEPT !.dialog = FALSE, !.promoting = FALSE, !.calls = f]
               /\ Slots(f) /\ DOMAIN f = DOMAIN ui.calls
               /\ \A i \in DOMAIN f : f[i].op = ui.calls[i].op
  <2> DEFINE f == [i \in DOMAIN ui.calls |-> IF ui.calls[i].op \in {"promote", "admins"}
                                            THEN [ui.calls[i] EXCEPT !.mine = FALSE] ELSE ui.calls[i]]
  <2>1. Slots(f) /\ DOMAIN f = DOMAIN ui.calls /\ \A i \in DOMAIN f : f[i].op = ui.calls[i].op
    BY DEF RostersInv, Page, Slots, Fields
  <2>2. ui' = [ui EXCEPT !.dialog = FALSE, !.promoting = FALSE, !.calls = f]
    BY DEF Rosters!onClose, Rosters!Orphan
  <2> QED BY <2>1, <2>2
<1>2. Alike(ui, ui') /\ Rests(ui, ui', "exporting")
  BY <1>1 DEF RostersInv, Alike, Rests, Page, Guards
<1> QED BY <1>2, AlikeGuards DEF RostersInv, Alike

LEMMA RostersPromotes ==
    ASSUME RostersInv(ui), Rosters!handlePromote PROVE RostersInv(ui')
<1>1. PICK k : ui' = [[ui EXCEPT !.promoting = TRUE]
      EXCEPT !.calls[k] = Rosters!dialogCall("promote", "none")]
  BY DEF Rosters!handlePromote, Rosters!Send
<1>2. RostersMoves(ui, ui', k, Rosters!dialogCall("promote", "none"))
  BY <1>1 DEF RostersInv, RostersMoves, Called, Moves, Put, Page, Guards, Fields,
     Rosters!dialogCall, Rosters!call
<1> QED BY <1>2, RostersStep

LEMMA RostersRow ==
    ASSUME RostersInv(ui), NEW op, op \in {"level", "revoke"}, Rosters!onRow(op)
    PROVE  RostersInv(ui')
<1>1. PICK k : ui' = [ui EXCEPT !.calls[k] = Rosters!call(op, "none")]
  BY DEF Rosters!onRow, Rosters!Send
<1>2. RostersMoves(ui, ui', k, Rosters!call(op, "none"))
  BY <1>1 DEF RostersInv, RostersMoves, Called, Moves, Put, Page, Guards, Fields, Rosters!call
<1> QED BY <1>2, RostersStep

LEMMA RostersTab ==
    ASSUME RostersInv(ui), NEW t, Rosters!setAdminTab(t) PROVE RostersInv(ui')
<1>1. CASE t = "traders"
  <2>1. PICK b, q, k : ui' = [[[ui EXCEPT !.tab = t] EXCEPT !.tradersLoading = TRUE, !.crossed = b]
        EXCEPT !.calls[k] = Rosters!call("traders", q)]
    BY <1>1 DEF Rosters!setAdminTab, Rosters!loadTraders, Rosters!Send
  <2>2. RostersMoves(ui, ui', k, Rosters!call("traders", q))
    BY <1>1, <2>1 DEF RostersInv, RostersMoves, Called, Moves, Put, Page, Guards, Fields,
       Rosters!call
  <2> QED BY <2>2, RostersStep
<1>2. CASE t # "traders"
  <2>1. ui' = [ui EXCEPT !.tab = t]
    BY <1>2 DEF Rosters!setAdminTab
  <2>2. RostersRests(ui, ui')
    BY <1>2, <2>1 DEF RostersInv, RostersRests, Kept, Rests, Page, Guards
  <2> QED BY <2>2, RostersStep
<1> QED BY <1>1, <1>2

LEMMA RostersSearch ==
    ASSUME RostersInv(ui), NEW q, Rosters!setTraderSearchQuery(q) PROVE RostersInv(ui')
<1>1. PICK b, k : ui' = [[[ui EXCEPT !.query = q] EXCEPT !.tradersLoading = TRUE, !.crossed = b]
      EXCEPT !.calls[k] = Rosters!call("traders", q)]
  BY DEF Rosters!setTraderSearchQuery, Rosters!loadTraders, Rosters!Send
<1>2. RostersMoves(ui, ui', k, Rosters!call("traders", q))
  BY <1>1 DEF RostersInv, RostersMoves, Called, Moves, Put, Page, Guards, Fields, Rosters!call
<1> QED BY <1>2, RostersStep

LEMMA RostersDownload ==
    ASSUME RostersInv(ui), Rosters!handleDownload PROVE RostersInv(ui')
<1>1. PICK k : ui' = [[ui EXCEPT !.exporting = TRUE]
      EXCEPT !.calls[k] = Rosters!call("export", "none")]
  BY DEF Rosters!handleDownload, Rosters!Send
<1>2. RostersMoves(ui, ui', k, Rosters!call("export", "none"))
  BY <1>1 DEF RostersInv, RostersMoves, Called, Moves, Put, Page, Guards, Fields,
     Rosters!handleDownload, Rosters!call
<1> QED BY <1>2, RostersStep

LEMMA RostersServe ==
    ASSUME RostersInv(ui), NEW i, Rosters!Serve(i) PROVE RostersInv(ui')
<1> DEFINE w == Rosters!Effect(ui, ui.calls[i])
<1>1. \/ ui' = [ui EXCEPT !.calls[i].at = "err"]
      \/ \E g, a : ui' = [[w EXCEPT !.calls[i].got = g] EXCEPT !.calls[i].at = a]
  BY DEF Rosters!Serve, Rosters!Outcomes
<1>2. RostersRests(ui, w)
  BY DEF RostersInv, RostersRests, Page, Kept, Guards, Rests, Fields, Slots, Rosters!Effect
<1> HIDE DEF w
<1>3. RostersRests(ui, ui')
  BY <1>1, <1>2, Serves DEF RostersInv, RostersRests, Guards
<1> QED BY <1>3, RostersStep

LEMMA RostersAnswers ==
    ASSUME RostersInv(ui), NEW i \in DOMAIN ui.calls,
           \/ Rosters!AdminsAnswer(i)
           \/ Rosters!TradersAnswer(i)
           \/ Rosters!ExportAnswers(i)
    PROVE  RostersInv(ui')
<1>1. CASE Rosters!AdminsAnswer(i)
  <2>1. PICK r, c, m : ui' = [[ui EXCEPT !.adminsLoading = FALSE, !.raced = r, !.current = c, !.promoting = m]
        EXCEPT !.calls[i] = Rosters!Idle]
    BY <1>1 DEF Rosters!AdminsAnswer, Rosters!End
  <2>2. RostersMoves(ui, ui', i, Rosters!Idle)
    BY <1>1, <2>1 DEF RostersInv, RostersMoves, Called, Moves, Put, Page, Guards, Fields,
       Rosters!Idle
  <2> QED BY <2>2, RostersStep
<1>2. CASE Rosters!TradersAnswer(i)
  <2>1. PICK r, c : ui' = [[ui EXCEPT !.tradersLoading = FALSE, !.crossed = r, !.traders = c]
        EXCEPT !.calls[i] = Rosters!Idle]
    BY <1>2 DEF Rosters!TradersAnswer, Rosters!End
  <2>2. RostersMoves(ui, ui', i, Rosters!Idle)
    BY <1>2, <2>1 DEF RostersInv, RostersMoves, Called, Moves, Put, Page, Guards, Fields,
       Rosters!Idle
  <2> QED BY <2>2, RostersStep
<1>3. CASE Rosters!ExportAnswers(i)
  <2>1. ui' = [[ui EXCEPT !.exporting = FALSE]
        EXCEPT !.calls[i] = Rosters!Idle]
    BY <1>3 DEF Rosters!ExportAnswers, Rosters!End
  <2>2. RostersMoves(ui, ui', i, Rosters!Idle)
    BY <1>3, <2>1 DEF RostersInv, RostersMoves, Called, Moves, Put, Page, Guards, Fields,
       Rosters!ExportAnswers, Rosters!Answered, Rosters!Idle
  <2> QED BY <2>2, RostersStep
<1> QED BY <1>1, <1>2, <1>3

LEMMA RostersFollows ==
    ASSUME RostersInv(ui), NEW i \in DOMAIN ui.calls, NEW op, Rosters!RosterAnswers(i, op)
    PROVE  RostersInv(ui')
<1>1. CASE Rosters!Failed(i)
  <2>1. PICK m : ui' = [[ui EXCEPT !.raced = TRUE, !.promoting = m]
        EXCEPT !.calls[i] = Rosters!Idle]
    BY <1>1 DEF Rosters!RosterAnswers, Rosters!End
  <2>2. RostersMoves(ui, ui', i, Rosters!Idle)
    BY <1>1, <2>1 DEF RostersInv, RostersMoves, Called, Moves, Put, Page, Guards, Fields,
       Rosters!Idle
  <2> QED BY <2>2, RostersStep
<1>2. CASE ~Rosters!Failed(i)
  <2> DEFINE c == Rosters!call("admins", "none")
  <2>1. PICK r, m : ui' = [[ui EXCEPT !.adminsLoading = TRUE, !.raced = r, !.calls[i] = c]
                             EXCEPT !.calls[i].mine = m]
    BY <1>2 DEF Rosters!RosterAnswers, Rosters!loadAdmins
  <2>2. ui'.calls = Put(ui.calls, i, [c EXCEPT !.mine = m])
    <3>1. "calls" \in DOMAIN ui /\ i \in DOMAIN ui.calls
      BY DEF RostersInv, Page
    <3> HIDE DEF c
    <3> QED BY <2>1, <3>1 DEF Put
  <2>3. RostersMoves(ui, ui', i, [c EXCEPT !.mine = m])
    BY <2>1, <2>2 DEF RostersInv, RostersMoves, Called, Moves, Page, Guards, Fields, Rosters!call
  <2> QED BY <2>3, RostersStep
<1> QED BY <1>1, <1>2

LEMMA RostersNext == ASSUME RostersInv(ui), Rosters!Next PROVE RostersInv(ui')
BY RostersOpens, RostersCloses, RostersPromotes, RostersRow, RostersTab, RostersSearch,
   RostersDownload, RostersServe, RostersAnswers, RostersFollows
   DEF Rosters!Next, Rosters!Answers

LEMMA RostersSubmits == ASSUME RostersInv(ui) PROVE Rosters!OneSubmission
<1>1. Cardinality(Rosters!Under(ui, "export")) <= 1
  BY OnceCard DEF RostersInv, Guards, Rosters!Under
<1>2. \A S : Rosters!Cardinality(S) = Cardinality(S)
  BY DEF Cardinality, Rosters!Cardinality
<1> QED BY <1>1, <1>2 DEF Rosters!OneSubmission

--------------------------------------------------------------------------------
(* The institutions of the platform *)

InstitutionsInv(u) ==
    /\ Page(u)
    /\ Guards(u, {"create"}, "creating")
InstitutionsMoves(u, v, k, c) ==
    /\ Called(u, v, k, c)
    /\ Moves(u, v, k, c, {"create"}, "creating")
InstitutionsRests(u, v) ==
    /\ Kept(u, v)
    /\ Rests(u, v, "creating")

LEMMA InstitutionsStep ==
    ASSUME NEW u, NEW v, InstitutionsInv(u),
           InstitutionsRests(u, v) \/ \E k, c : InstitutionsMoves(u, v, k, c)
    PROVE  InstitutionsInv(v)
<1>1. ASSUME NEW k, NEW c, InstitutionsMoves(u, v, k, c) PROVE InstitutionsInv(v)
  BY <1>1, CalledPage, CalledGuards DEF InstitutionsInv, InstitutionsMoves
<1>2. CASE InstitutionsRests(u, v)
  BY <1>2, KeptGuards DEF InstitutionsInv, InstitutionsRests, Kept
<1> QED BY <1>1, <1>2

LEMMA InstitutionsRace ==
    ASSUME NEW u, InstitutionsInv(u), NEW b
    PROVE  InstitutionsInv(Institutions!Race(u, b))
<1>1. InstitutionsRests(u, Institutions!Race(u, b))
  BY DEF InstitutionsInv, InstitutionsMoves, InstitutionsRests, Called, Moves, Put, Kept, Rests,
     Page, Guards, Fields, Institutions!Race
<1> QED BY <1>1, InstitutionsStep

LEMMA InstitutionsList ==
    ASSUME NEW u, InstitutionsInv(u), NEW i
    PROVE  InstitutionsInv(Institutions!fetchInstitutions(u, i))
<1> DEFINE c == Institutions!about("list", Institutions!None)
           v == [u EXCEPT !.loading = TRUE, !.calls[i] = c]
<1>1. InstitutionsMoves(u, v, i, c)
  BY DEF InstitutionsInv, InstitutionsMoves, InstitutionsRests, Called, Moves, Put, Kept, Rests,
     Page, Guards, Fields, Institutions!about, Institutions!call
<1>2. Institutions!fetchInstitutions(u, i) = Institutions!Race(v, Institutions!Under(u, "list") # {})
  BY DEF Institutions!fetchInstitutions
<1> HIDE DEF v, c
<1>3. InstitutionsInv(v)
  BY <1>1, InstitutionsStep
<1> QED BY <1>2, <1>3, InstitutionsRace

LEMMA InstitutionsMembers ==
    ASSUME NEW u, InstitutionsInv(u)
    PROVE  InstitutionsInv(Institutions!fetchMembers(u))
<1> DEFINE c == Institutions!call("members", <<u.tenant, u.query>>)
           v == [[u EXCEPT !.membersLoading = TRUE] EXCEPT !.calls[Institutions!Slot([u EXCEPT !.membersLoading = TRUE])] = c]
<1>1. InstitutionsMoves(u, v, Institutions!Slot([u EXCEPT !.membersLoading = TRUE]), c)
  BY DEF InstitutionsInv, InstitutionsMoves, InstitutionsRests, Called, Moves, Put, Kept, Rests,
     Page, Guards, Fields, Institutions!about, Institutions!call
<1>2. Institutions!fetchMembers(u) = Institutions!Race(v, Institutions!Under(u, "members") \cup Institutions!Under(u, "role") # {})
  BY DEF Institutions!fetchMembers, Institutions!Send
<1> HIDE DEF v, c
<1>3. InstitutionsInv(v)
  BY <1>1, InstitutionsStep
<1> QED BY <1>2, <1>3, InstitutionsRace

LEMMA InstitutionsEnd ==
    ASSUME NEW u, InstitutionsInv(u), NEW i
    PROVE  InstitutionsInv(Institutions!End(u, i))
<1>1. InstitutionsMoves(u, Institutions!End(u, i), i, Institutions!Idle)
  BY DEF InstitutionsInv, InstitutionsMoves, Called, Moves, Put, Page, Guards, Fields,
     Institutions!End, Institutions!Idle
<1> QED BY <1>1, InstitutionsStep

LEMMA InstitutionsCalls ==
    ASSUME NEW u, InstitutionsInv(u), NEW c, Fields \subseteq DOMAIN c, c.op # "create"
    PROVE  InstitutionsInv(Institutions!Send(u, c))
<1>1. InstitutionsMoves(u, Institutions!Send(u, c), Institutions!Slot(u), c)
  BY DEF InstitutionsInv, InstitutionsMoves, Called, Moves, Put, Page, Guards, Institutions!Send
<1> QED BY <1>1, InstitutionsStep

LEMMA InstitutionsShows ==
    ASSUME NEW u, InstitutionsInv(u)
    PROVE  /\ \A t, s : InstitutionsInv([u EXCEPT !.tenant = t, !.copy = s])
           /\ \A s : InstitutionsInv([u EXCEPT !.copy = s])
           /\ \A q : InstitutionsInv([u EXCEPT !.query = q])
           /\ \A m : InstitutionsInv([u EXCEPT !.updating = m])
           /\ \A b : InstitutionsInv([u EXCEPT !.modal = b])
           /\ \A b : InstitutionsInv([u EXCEPT !.loading = b])
           /\ \A b : InstitutionsInv([u EXCEPT !.membersLoading = b])
           /\ \A s : InstitutionsInv([u EXCEPT !.shown = s])
           /\ \A m, b : InstitutionsInv([u EXCEPT !.members = m, !.fresh = b])
           /\ \A b : InstitutionsInv([u EXCEPT !.fresh = b])
BY DEF InstitutionsInv, Page, Guards, Once

LEMMA InstitutionsMounts == ASSUME NEW s PROVE InstitutionsInv(Institutions!Mounted(s))
<1> DEFINE u == [server |-> s, shown |-> Institutions!Nothing, loading |-> TRUE, tenant |-> Institutions!None,
        copy |-> "gone", query |-> CHOOSE q \in Queries : TRUE, members |-> Institutions!NoMembers,
        fresh |-> TRUE, membersLoading |-> FALSE, updating |-> Institutions!None, modal |-> FALSE, creating |-> FALSE,
        raced |-> FALSE, calls |-> Institutions!NoCalls]
<1>1. InstitutionsInv(u)
  BY DEF InstitutionsInv, Page, Slots, Guards, Once, Fields, Institutions!NoCalls, Institutions!Idle
<1>2. Institutions!Mounted(s) = Institutions!fetchInstitutions(u, 1)
  BY DEF Institutions!Mounted
<1> HIDE DEF u
<1> QED BY <1>1, <1>2, InstitutionsList

LEMMA InstitutionsInit == ASSUME Institutions!Init PROVE InstitutionsInv(ui)
BY InstitutionsMounts DEF Institutions!Init

LEMMA InstitutionsOpens ==
    ASSUME InstitutionsInv(ui), NEW t, Institutions!setSelectedTenant(t) PROVE InstitutionsInv(ui')
<1>1. PICK s, b : ui' = Institutions!fetchMembers(Institutions!Race([ui EXCEPT !.tenant = t, !.copy = s], b))
  BY DEF Institutions!setSelectedTenant
<1> DEFINE v == [ui EXCEPT !.tenant = t, !.copy = s]
<1>2. InstitutionsInv(v)
  BY InstitutionsShows
<1> HIDE DEF v
<1>3. InstitutionsInv(Institutions!Race(v, b))
  BY <1>2, InstitutionsRace
<1>4. InstitutionsInv(Institutions!fetchMembers(Institutions!Race(v, b)))
  BY <1>3, InstitutionsMembers
<1> QED BY <1>1, <1>4 DEF v

LEMMA InstitutionsLooks ==
    ASSUME InstitutionsInv(ui),
           \/ Institutions!refreshButton
           \/ Institutions!back
           \/ \E q : Institutions!setMemberFilter(q)
           \/ \E b : Institutions!setShowCreateModal(b)
    PROVE  InstitutionsInv(ui')
<1>1. CASE Institutions!refreshButton
  BY <1>1, InstitutionsList DEF Institutions!refreshButton
<1>2. CASE Institutions!back
  BY <1>2, InstitutionsShows DEF Institutions!back
<1>3. ASSUME NEW q, Institutions!setMemberFilter(q) PROVE InstitutionsInv(ui')
  <2> DEFINE v == [ui EXCEPT !.query = q]
  <2>1. InstitutionsInv(v)
    BY InstitutionsShows
  <2>2. ui' = Institutions!fetchMembers(v)
    BY <1>3 DEF Institutions!setMemberFilter
  <2> HIDE DEF v
  <2> QED BY <2>1, <2>2, InstitutionsMembers
<1>4. CASE \E b : Institutions!setShowCreateModal(b)
  <2>1. PICK b : ui' = [ui EXCEPT !.modal = b]
    BY <1>4 DEF Institutions!setShowCreateModal
  <2> QED BY <2>1, InstitutionsShows
<1> QED BY <1>1, <1>2, <1>3, <1>4

LEMMA InstitutionsRole ==
    ASSUME InstitutionsInv(ui), NEW m, Institutions!handleRoleChange(m) PROVE InstitutionsInv(ui')
<1> DEFINE v == [ui EXCEPT !.updating = m]
           c == Institutions!about("role", m)
<1>1. InstitutionsInv(v)
  BY InstitutionsShows
<1>2. Fields \subseteq DOMAIN c /\ c.op # "create"
  BY DEF Fields, Institutions!about, Institutions!call
<1>3. PICK b : ui' = Institutions!Race(Institutions!Send(v, c), b)
  BY DEF Institutions!handleRoleChange
<1> HIDE DEF v, c
<1>4. InstitutionsInv(Institutions!Send(v, c))
  BY <1>1, <1>2, InstitutionsCalls
<1> QED BY <1>3, <1>4, InstitutionsRace

LEMMA InstitutionsToggle ==
    ASSUME InstitutionsInv(ui), NEW t, Institutions!handleToggleActive(t) PROVE InstitutionsInv(ui')
<1>1. PICK g, m, b :
        ui' = Institutions!Race(Institutions!Send(ui, [Institutions!about("active", t) EXCEPT !.mine = m, !.got = g]), b)
  BY DEF Institutions!handleToggleActive
<1> DEFINE c == [Institutions!about("active", t) EXCEPT !.mine = m, !.got = g]
<1>2. Fields \subseteq DOMAIN c /\ c.op # "create"
  BY DEF Fields, Institutions!about, Institutions!call
<1> HIDE DEF c
<1>3. InstitutionsInv(Institutions!Send(ui, c))
  BY <1>2, InstitutionsCalls
<1> QED BY <1>1, <1>3, InstitutionsRace DEF c

LEMMA InstitutionsDeletes ==
    ASSUME InstitutionsInv(ui), NEW t, Institutions!handleDeleteInstitution(t)
    PROVE  InstitutionsInv(ui')
<1> DEFINE c == Institutions!about("delete", t)
<1>1. Fields \subseteq DOMAIN c /\ c.op # "create"
  BY DEF Fields, Institutions!about, Institutions!call
<1>2. ui' = Institutions!Send(ui, c)
  BY DEF Institutions!handleDeleteInstitution
<1> HIDE DEF c
<1> QED BY <1>1, <1>2, InstitutionsCalls

LEMMA InstitutionsCreate ==
    ASSUME InstitutionsInv(ui), Institutions!handleCreateInstitution PROVE InstitutionsInv(ui')
<1>1. PICK k : ui' = [[ui EXCEPT !.creating = TRUE]
      EXCEPT !.calls[k] = Institutions!about("create", Institutions!None)]
  BY DEF Institutions!handleCreateInstitution, Institutions!Send
<1>2. InstitutionsMoves(ui, ui', k, Institutions!about("create", Institutions!None))
  BY <1>1 DEF InstitutionsInv, InstitutionsMoves, Called, Moves, Put, Page, Guards, Fields,
     Institutions!handleCreateInstitution, Institutions!about, Institutions!call
<1> QED BY <1>2, InstitutionsStep

LEMMA InstitutionsServe ==
    ASSUME InstitutionsInv(ui), NEW i, Institutions!Serve(i) PROVE InstitutionsInv(ui')
<1> DEFINE w == Institutions!Effect(ui, ui.calls[i])
<1>1. \/ ui' = [ui EXCEPT !.calls[i].at = "err"]
      \/ \E g, a : ui' = [[w EXCEPT !.calls[i].got = g] EXCEPT !.calls[i].at = a]
  BY DEF Institutions!Serve, Institutions!Outcomes
<1>2. InstitutionsRests(ui, w)
  <2> DEFINE f == [j \in DOMAIN ui.calls |->
                     IF ui.calls[j].op = "members" THEN [ui.calls[j] EXCEPT !.got = {}] ELSE ui.calls[j]]
             v == [ui EXCEPT !.fresh = FALSE, !.calls = f]
  <2>1. Slots(f) /\ DOMAIN f = DOMAIN ui.calls
        /\ \A j \in DOMAIN f : f[j].op = ui.calls[j].op /\ f[j].id = ui.calls[j].id /\ f[j].mine = ui.calls[j].mine
    BY DEF InstitutionsInv, Page, Slots, Fields
  <2> HIDE DEF f
  <2>2. InstitutionsRests(ui, v) /\ InstitutionsRests(ui, ui) /\ \A s : InstitutionsRests(ui, [ui EXCEPT !.server = s])
    BY <2>1 DEF InstitutionsInv, InstitutionsRests, Page, Kept, Guards, Rests
  <2>3. w = v \/ w = ui \/ \E s : w = [ui EXCEPT !.server = s]
    BY DEF Institutions!Effect, f
  <2> HIDE DEF v, w
  <2> QED BY <2>2, <2>3
<1> HIDE DEF w
<1>3. InstitutionsRests(ui, ui')
  BY <1>1, <1>2, Serves DEF InstitutionsInv, InstitutionsRests, Guards
<1> QED BY <1>3, InstitutionsStep

LEMMA InstitutionsFails ==
    ASSUME NEW u, InstitutionsInv(u), NEW i PROVE InstitutionsInv(Institutions!Fails(u, i))
<1>1. InstitutionsInv(Institutions!Race(u, TRUE))
  BY InstitutionsRace
<1> QED BY <1>1, InstitutionsEnd DEF Institutions!Fails

LEMMA InstitutionsListed ==
    ASSUME InstitutionsInv(ui), NEW i, Institutions!ListAnswers(i) PROVE InstitutionsInv(ui')
<1> DEFINE u == [ui EXCEPT !.loading = FALSE]
           v == [u EXCEPT !.shown = Institutions!Reply(ui, i)]
<1>1. InstitutionsInv(u)
  BY InstitutionsShows
<1>2. ui' = Institutions!Fails(u, i) \/ ui' = Institutions!End(Institutions!Race(v, FALSE), i)
  BY DEF Institutions!ListAnswers
<1> HIDE DEF u
<1>3. InstitutionsInv(v)
  BY <1>1, InstitutionsShows
<1> HIDE DEF v
<1>4. InstitutionsInv(Institutions!Race(v, FALSE))
  BY <1>3, InstitutionsRace
<1> QED BY <1>1, <1>2, <1>4, InstitutionsFails, InstitutionsEnd

LEMMA InstitutionsMembersListed ==
    ASSUME InstitutionsInv(ui), NEW i, Institutions!MembersAnswer(i) PROVE InstitutionsInv(ui')
<1> DEFINE u == [ui EXCEPT !.membersLoading = FALSE]
           v == [u EXCEPT !.members = ui.calls[i].id, !.fresh = ui.calls[i].got # {}]
<1>1. InstitutionsInv(u)
  BY InstitutionsShows
<1>2. ui' = Institutions!Fails(u, i) \/ ui' = Institutions!End(Institutions!Race(v, FALSE), i)
  BY DEF Institutions!MembersAnswer
<1> HIDE DEF u
<1>3. InstitutionsInv(v)
  BY <1>1, InstitutionsShows
<1> HIDE DEF v
<1>4. InstitutionsInv(Institutions!Race(v, FALSE))
  BY <1>3, InstitutionsRace
<1> QED BY <1>1, <1>2, <1>4, InstitutionsFails, InstitutionsEnd

LEMMA InstitutionsCreated ==
    ASSUME InstitutionsInv(ui), NEW i \in DOMAIN ui.calls, Institutions!CreateAnswers(i)
    PROVE  InstitutionsInv(ui')
<1> DEFINE u == [ui EXCEPT !.creating = FALSE]
           c == Institutions!about("list", Institutions!None)
           Ends(w, k) == /\ w.calls = Put(ui.calls, i, k) /\ DOMAIN w = DOMAIN ui /\ w.creating = FALSE
<1>1. /\ "calls" \in DOMAIN ui /\ "creating" \in DOMAIN ui
      /\ ui.calls[i].op = "create"
  BY DEF InstitutionsInv, Page, Guards, Institutions!CreateAnswers, Institutions!Answered
<1>2. \A w, k, b : Ends(w, k) => Ends(Institutions!Race(w, b), k)
  BY DEF Institutions!Race
<1>3. CASE Institutions!Failed(i)
  <2> DEFINE w == Institutions!Race(u, TRUE)
  <2>1. ui' = Institutions!End(w, i)
    BY <1>3 DEF Institutions!CreateAnswers, Institutions!Fails
  <2>2. w.calls = ui.calls /\ DOMAIN w = DOMAIN ui /\ w.creating = FALSE
    BY <1>1 DEF Institutions!Race
  <2> HIDE DEF w
  <2>3. Ends(ui', Institutions!Idle)
    BY <1>1, <2>1, <2>2 DEF Institutions!End, Put
  <2>4. InstitutionsMoves(ui, ui', i, Institutions!Idle)
    BY <1>1, <2>3 DEF InstitutionsMoves, InstitutionsInv, Called, Moves, Page, Guards, Fields,
       Institutions!Idle
  <2> QED BY <2>4, InstitutionsStep
<1>4. CASE ~Institutions!Failed(i)
  <2> DEFINE w == [[u EXCEPT !.modal = FALSE] EXCEPT !.loading = TRUE, !.calls[i] = c]
  <2>1. PICK b : ui' = Institutions!Race(w, b)
    BY <1>4 DEF Institutions!CreateAnswers, Institutions!fetchInstitutions
  <2>2. Ends(w, c)
    BY <1>1 DEF Put
  <2> HIDE DEF w
  <2>3. Ends(ui', c)
    BY <1>2, <2>1, <2>2
  <2>4. InstitutionsMoves(ui, ui', i, c)
    BY <1>1, <2>3 DEF InstitutionsMoves, InstitutionsInv, Called, Moves, Page, Guards, Fields,
       Institutions!about, Institutions!call
  <2> QED BY <2>4, InstitutionsStep
<1> QED BY <1>3, <1>4

LEMMA InstitutionsRoleAnswers ==
    ASSUME InstitutionsInv(ui), NEW i, Institutions!RoleAnswers(i) PROVE InstitutionsInv(ui')
<1> DEFINE u == [ui EXCEPT !.updating = Institutions!None]
           v == [u EXCEPT !.fresh = TRUE]
<1>1. InstitutionsInv(u)
  BY InstitutionsShows
<1>2. ui' = Institutions!Fails(u, i) \/ ui' = Institutions!fetchInstitutions(v, i)
  BY DEF Institutions!RoleAnswers
<1> HIDE DEF u
<1>3. InstitutionsInv(v)
  BY <1>1, InstitutionsShows
<1> HIDE DEF v
<1> QED BY <1>1, <1>2, <1>3, InstitutionsFails, InstitutionsList

LEMMA InstitutionsActive ==
    ASSUME InstitutionsInv(ui), NEW i, Institutions!ActiveAnswers(i) \/ Institutions!DeleteAnswers(i)
    PROVE  InstitutionsInv(ui')
<1> DEFINE u == Institutions!fetchInstitutions(ui, i)
<1>1. InstitutionsInv(u)
  BY InstitutionsList
<1>2. \/ ui' = Institutions!Fails(ui, i) \/ ui' = u
      \/ \E s, b : ui' = Institutions!Race(Institutions!fetchMembers([u EXCEPT !.copy = s]), b)
  BY DEF Institutions!ActiveAnswers, Institutions!DeleteAnswers
<1> HIDE DEF u
<1>3. ASSUME NEW s, NEW b PROVE InstitutionsInv(Institutions!Race(Institutions!fetchMembers([u EXCEPT !.copy = s]), b))
  <2> DEFINE v == [u EXCEPT !.copy = s]
  <2>1. InstitutionsInv(v)
    BY <1>1, InstitutionsShows
  <2> HIDE DEF v
  <2>2. InstitutionsInv(Institutions!fetchMembers(v))
    BY <2>1, InstitutionsMembers
  <2> QED BY <2>2, InstitutionsRace DEF v
<1> QED BY <1>1, <1>2, <1>3, InstitutionsFails

LEMMA InstitutionsNext == ASSUME InstitutionsInv(ui), Institutions!Next PROVE InstitutionsInv(ui')
BY InstitutionsOpens, InstitutionsLooks, InstitutionsRole, InstitutionsToggle, InstitutionsDeletes,
   InstitutionsCreate, InstitutionsServe, InstitutionsListed, InstitutionsMembersListed,
   InstitutionsCreated, InstitutionsRoleAnswers, InstitutionsActive, InstitutionsMounts
   DEF Institutions!Next, Institutions!Answers, Institutions!User, Institutions!Reopen

LEMMA InstitutionsSubmits == ASSUME InstitutionsInv(ui) PROVE Institutions!OneSubmission
<1>1. Cardinality(Institutions!Under(ui, "create")) <= 1
  BY OnceCard DEF InstitutionsInv, Guards, Institutions!Under
<1>2. \A S : Institutions!Cardinality(S) = Cardinality(S)
  BY DEF Cardinality, Institutions!Cardinality
<1> QED BY <1>1, <1>2 DEF Institutions!OneSubmission

--------------------------------------------------------------------------------
(* The page that overrides the figures of a user *)

RootInv(u) ==
    /\ Page(u)
    /\ Guards(u, {"save", "after"}, "saving")
RootMoves(u, v, k, c) ==
    /\ Called(u, v, k, c)
    /\ Moves(u, v, k, c, {"save", "after"}, "saving")
RootRests(u, v) ==
    /\ Kept(u, v)
    /\ Rests(u, v, "saving")

LEMMA RootStep ==
    ASSUME NEW u, NEW v, RootInv(u),
           RootRests(u, v) \/ \E k, c : RootMoves(u, v, k, c)
    PROVE  RootInv(v)
<1>1. ASSUME NEW k, NEW c, RootMoves(u, v, k, c) PROVE RootInv(v)
  BY <1>1, CalledPage, CalledGuards DEF RootInv, RootMoves
<1>2. CASE RootRests(u, v)
  BY <1>2, KeptGuards DEF RootInv, RootRests, Kept
<1> QED BY <1>1, <1>2

LEMMA RootSets ==
    ASSUME NEW u, RootInv(u)
    PROVE  /\ \A x : RootInv([u EXCEPT !.detail = x])
           /\ \A a : RootInv([u EXCEPT !.at = a])
           /\ \A x, r : RootInv([u EXCEPT !.selected = x, !.raced = r])
BY DEF RootInv, Page, Guards, Once

LEMMA RootSends ==
    ASSUME NEW u, RootInv(u), NEW c, Fields \subseteq DOMAIN c, c.op \notin {"save", "after"}
    PROVE  RootInv(Root!Send(u, c))
<1>1. RootMoves(u, Root!Send(u, c), Root!Slot(u), c)
  BY DEF RootInv, RootMoves, Called, Moves, Put, Page, Guards, Root!Send
<1> QED BY <1>1, RootStep

LEMMA RootDetail ==
    ASSUME NEW u, RootInv(u), NEW x PROVE RootInv(Root!loadSelectedUserDetail(u, "detail", x))
<1> DEFINE c == Root!call("detail", x)
           v == [u EXCEPT !.detail = Root!None]
<1>1. PICK r : \/ Root!loadSelectedUserDetail(u, "detail", x) = v
               \/ Root!loadSelectedUserDetail(u, "detail", x) = Root!Send([u EXCEPT !.detailLoading = TRUE, !.raced = r], c)
  BY DEF Root!loadSelectedUserDetail
<1>2. RootInv(v)
  BY RootSets
<1> DEFINE w == [u EXCEPT !.detailLoading = TRUE, !.raced = r]
<1>3. RootInv(w)
  BY DEF RootInv, Page, Guards, Once
<1>4. Fields \subseteq DOMAIN c /\ c.op \notin {"save", "after"}
  BY DEF Fields, Root!call
<1> HIDE DEF c, v, w
<1>5. RootInv(Root!Send(w, c))
  BY <1>3, <1>4, RootSends
<1> QED BY <1>1, <1>2, <1>5 DEF w

LEMMA RootBoots == ASSUME NEW u, RootInv(u) PROVE RootInv(Root!bootstrap(u))
<1> DEFINE v == [u EXCEPT !.at = "boot"]
           c == Root!call("boot", u.selected)
<1>1. RootInv(v)
  BY RootSets
<1>2. Fields \subseteq DOMAIN c /\ c.op \notin {"save", "after"}
  BY DEF Fields, Root!call
<1>3. Root!bootstrap(u) = Root!Send(v, c)
  BY DEF Root!bootstrap
<1> HIDE DEF v, c
<1> QED BY <1>1, <1>2, <1>3, RootSends

LEMMA RootSelects == ASSUME NEW u, RootInv(u), NEW x PROVE RootInv(Root!setSelectedUserId(u, x))
<1>1. PICK r : \/ Root!setSelectedUserId(u, x) = u
               \/ Root!setSelectedUserId(u, x)
                    = Root!loadSelectedUserDetail(Root!bootstrap([u EXCEPT !.selected = x, !.raced = r]), "detail", x)
  BY DEF Root!setSelectedUserId
<1> DEFINE v == [u EXCEPT !.selected = x, !.raced = r]
<1>2. RootInv(v)
  BY RootSets
<1> HIDE DEF v
<1>3. RootInv(Root!bootstrap(v))
  BY <1>2, RootBoots
<1>4. RootInv(Root!loadSelectedUserDetail(Root!bootstrap(v), "detail", x))
  BY <1>3, RootDetail
<1> QED BY <1>1, <1>4 DEF v

LEMMA RootMounts == ASSUME NEW x PROVE RootInv(Root!Mounted(x))
<1> DEFINE u == [at |-> "boot", preset |-> x, selected |-> x, detail |-> Root!None,
                 detailLoading |-> FALSE, saving |-> FALSE, raced |-> FALSE,
                 astray |-> FALSE, calls |-> Root!NoCalls]
<1>1. RootInv(u)
  BY DEF RootInv, Page, Slots, Guards, Once, Fields, Root!NoCalls, Root!Idle
<1>2. Root!Mounted(x) = Root!loadSelectedUserDetail(Root!bootstrap(u), "detail", x)
  BY DEF Root!Mounted
<1> HIDE DEF u
<1>3. RootInv(Root!bootstrap(u))
  BY <1>1, RootBoots
<1> QED BY <1>2, <1>3, RootDetail

LEMMA RootInit == ASSUME Root!Init PROVE RootInv(ui)
BY RootMounts DEF Root!Init

LEMMA RootLooks ==
    ASSUME RootInv(ui),
           \/ \E x : Root!select(x)
           \/ Root!refreshButton
           \/ Root!leave
           \/ Root!Reopen
    PROVE  RootInv(ui')
<1>1. CASE \E x : Root!select(x)
  BY <1>1, RootSelects DEF Root!select
<1>2. CASE Root!refreshButton
  BY <1>2, RootDetail DEF Root!refreshButton
<1>3. CASE Root!leave
  <2>1. ui' = [ui EXCEPT !.at = "left"]
    BY <1>3 DEF Root!leave
  <2> QED BY <2>1, RootSets
<1>4. CASE Root!Reopen
  BY <1>4, RootMounts DEF Root!Reopen
<1> QED BY <1>1, <1>2, <1>3, <1>4

LEMMA RootSaves ==
    ASSUME RootInv(ui), Root!handleSave PROVE RootInv(ui')
<1>1. PICK b, k : ui' = [[ui EXCEPT !.saving = TRUE, !.astray = b]
      EXCEPT !.calls[k] = Root!call("save", ui.selected)]
  BY DEF Root!handleSave, Root!Send
<1>2. RootMoves(ui, ui', k, Root!call("save", ui.selected))
  BY <1>1 DEF RootInv, RootMoves, Called, Moves, Put, Page, Guards, Fields, Root!handleSave,
     Root!call
<1> QED BY <1>2, RootStep

LEMMA RootServe ==
    ASSUME RootInv(ui), NEW i, Root!Serve(i) PROVE RootInv(ui')
<1>1. \/ ui' = [ui EXCEPT !.calls[i].at = "err"]
      \/ \E g, a : ui' = [[ui EXCEPT !.calls[i].got = g] EXCEPT !.calls[i].at = a]
  BY DEF Root!Serve, Root!Outcomes, Root!Effect
<1>2. RootRests(ui, ui)
  BY DEF RootInv, RootRests, Kept, Rests, Page, Guards
<1>3. RootRests(ui, ui')
  BY <1>1, <1>2, Serves DEF RootInv, RootRests, Guards
<1> QED BY <1>3, RootStep

LEMMA RootEnd == ASSUME NEW u, RootInv(u), NEW i PROVE RootInv(Root!End(u, i))
<1>1. RootMoves(u, Root!End(u, i), i, Root!Idle)
  BY DEF RootInv, RootMoves, Called, Moves, Put, Page, Guards, Fields, Root!End, Root!Idle
<1> QED BY <1>1, RootStep

LEMMA RootBooted == ASSUME RootInv(ui), NEW i, Root!BootAnswers(i) PROVE RootInv(ui')
<1> DEFINE u == Root!End(ui, i)
           v == [u EXCEPT !.at = "page"]
<1>1. RootInv(u)
  BY RootEnd
<1>2. \/ \E a : ui' = [u EXCEPT !.at = a]
      \/ \E x : ui' = Root!setSelectedUserId(v, x)
  BY DEF Root!BootAnswers
<1> HIDE DEF u
<1>3. RootInv(v) /\ \A a : RootInv([u EXCEPT !.at = a])
  BY <1>1, RootSets
<1> HIDE DEF v
<1> QED BY <1>2, <1>3, RootSelects

\* The detail that follows a save takes the place of its call.
LEMMA RootAfter ==
    ASSUME RootInv(ui), NEW i \in DOMAIN ui.calls, Root!SaveAnswers(i) PROVE RootInv(ui')
<1> DEFINE u == Root!End(ui, i)
<1>1. RootInv(u)
  BY RootEnd
<1>2. CASE ui.calls[i].at = "ok"
  <2> DEFINE x == ui.calls[i].id
             c == Root!call("after", x)
  <2>1. u.saving = TRUE /\ \A j \in DOMAIN u.calls : u.calls[j].op \notin {"save", "after"}
    BY DEF RootInv, Page, Guards, Once, Root!SaveAnswers, Root!Answered, Root!End, Root!Idle
  <2>2. ui' = Root!loadSelectedUserDetail(u, "after", x)
    BY <1>2 DEF Root!SaveAnswers
  <2>3. Fields \subseteq DOMAIN c
    BY DEF Fields, Root!call
  <2> HIDE DEF u, x
  <2>4. CASE ui' = [u EXCEPT !.detail = Root!None]
    BY <1>1, <2>4, RootSets
  <2>5. ASSUME NEW r, NEW k, ui' = [[u EXCEPT !.detailLoading = TRUE, !.raced = r] EXCEPT !.calls[k] = c]
        PROVE  RootInv(ui')
    <3> HIDE DEF c
    <3> QED BY <1>1, <2>1, <2>3, <2>5 DEF RootInv, Page, Slots, Guards, Once
  <2> QED BY <2>2, <2>4, <2>5 DEF Root!loadSelectedUserDetail, Root!Send
<1>3. CASE ui.calls[i].at # "ok"
  <2>1. ui' = [[ui EXCEPT !.saving = FALSE] EXCEPT !.calls[i] = Root!Idle]
    BY <1>3 DEF Root!SaveAnswers, Root!End
  <2>2. RootMoves(ui, ui', i, Root!Idle)
    BY <2>1 DEF RootInv, RootMoves, Called, Moves, Put, Page, Guards, Fields, Root!Idle,
       Root!SaveAnswers, Root!Answered
  <2> QED BY <2>2, RootStep
<1> QED BY <1>2, <1>3

LEMMA RootDetailed ==
    ASSUME RootInv(ui), NEW i \in DOMAIN ui.calls, NEW op \in {"detail", "after"}, Root!DetailAnswers(i, op)
    PROVE  RootInv(ui')
<1>1. PICK d, s : /\ ui' = [[ui EXCEPT !.detailLoading = FALSE, !.saving = s, !.detail = d] EXCEPT !.calls[i] = Root!Idle]
                  /\ s = (ui.saving /\ op # "after")
  BY DEF Root!DetailAnswers, Root!End
<1>2. RootMoves(ui, ui', i, Root!Idle)
  BY <1>1 DEF RootInv, RootMoves, Called, Moves, Put, Page, Guards, Fields, Root!Idle,
     Root!DetailAnswers, Root!Answered
<1> QED BY <1>2, RootStep

LEMMA RootNext == ASSUME RootInv(ui), Root!Next PROVE RootInv(ui')
BY RootLooks, RootSaves, RootServe, RootBooted, RootAfter, RootDetailed
   DEF Root!Next, Root!Answers

LEMMA RootSubmits == ASSUME RootInv(ui) PROVE Root!OneSubmission
<1>1. Cardinality(Root!Under(ui, "save") \cup Root!Under(ui, "after")) <= 1
  BY OnceCard DEF RootInv, Guards, Root!Under
<1>2. \A S : Root!Cardinality(S) = Cardinality(S)
  BY DEF Cardinality, Root!Cardinality
<1> QED BY <1>1, <1>2 DEF Root!OneSubmission

--------------------------------------------------------------------------------
(* The data feed panel: the connection to the broker *)

Connects == {"configure", "authorize"}
FeedInv(u) ==
    /\ Page(u) /\ "shared" \in DOMAIN u /\ "loading" \in DOMAIN u
    /\ \/ u.shared = TRUE
       \/ /\ Once(u.calls, Connects, u.loading)
          /\ \A i, j \in DOMAIN u.calls : ~(u.calls[i].op = "status" /\ u.calls[j].op \in Connects)

LEMMA FeedKept ==
    ASSUME NEW u, FeedInv(u), NEW v, Kept(u, v), Rests(u, v, "shared"), Rests(u, v, "loading")
    PROVE  FeedInv(v)
BY DEF FeedInv, Kept, Rests, Once

LEMMA FeedFetches == ASSUME NEW u, FeedInv(u), NEW i PROVE FeedInv(Feed!fetchStatus(u, i))
<1> DEFINE c == Feed!call("status", "none")
           v == Feed!fetchStatus(u, i)
<1>1. /\ v.calls = Put(u.calls, i, c) /\ {"calls", "shared", "loading"} \subseteq DOMAIN v
      /\ v.loading = TRUE /\ (u.shared = TRUE \/ Feed!Connecting(u) \ {i} # {} => v.shared = TRUE)
  BY DEF FeedInv, Page, Put, Feed!fetchStatus
<1>2. c.op = "status" /\ Fields \subseteq DOMAIN c
  BY DEF Fields, Feed!call
<1> HIDE DEF c, v
<1>3. v.shared # TRUE => u.shared # TRUE /\ \A j \in DOMAIN u.calls : u.calls[j].op \in Connects => j = i
  <2>1. \A j \in DOMAIN u.calls : u.calls[j].op \in Connects => j \in Feed!Connecting(u)
    BY DEF Connects, Feed!Connecting, Feed!Under
  <2> QED BY <1>1, <2>1
<1>4. Page(v) /\ DOMAIN v.calls = DOMAIN u.calls
  BY <1>1, <1>2 DEF FeedInv, Page, Slots, Put
<1>5. v.shared # TRUE => \A j \in DOMAIN v.calls : v.calls[j].op \notin Connects
  BY <1>1, <1>2, <1>3 DEF Put, Connects
<1> QED BY <1>1, <1>4, <1>5 DEF FeedInv, Once, v

LEMMA FeedInit == ASSUME Feed!FeedInit PROVE FeedInv(ui)
<1>1. PICK s : ui = Feed!fetchStatus([server |-> s, form |-> [delay |-> 0, policy |-> TRUE], edited |-> FALSE,
                          loading |-> FALSE, raced |-> FALSE, shared |-> FALSE, calls |-> Feed!NoCalls], 1)
  BY DEF Feed!FeedInit
<1> DEFINE u == [server |-> s, form |-> [delay |-> 0, policy |-> TRUE], edited |-> FALSE,
                 loading |-> FALSE, raced |-> FALSE, shared |-> FALSE, calls |-> Feed!NoCalls]
<1>2. FeedInv(u)
  BY DEF FeedInv, Page, Slots, Once, Fields, Connects, Feed!NoCalls, Feed!Idle
<1> HIDE DEF u
<1>3. FeedInv(Feed!fetchStatus(u, 1))
  BY <1>2, FeedFetches
<1> QED BY <1>1, <1>3 DEF u

\* A call that is no connection and no status takes slot k, whatever is busy.
LEMMA FeedOther ==
    ASSUME NEW u, FeedInv(u), NEW v, NEW k, NEW c, Called(u, v, k, c),
           c.op \notin Connects, c.op # "status", Rests(u, v, "shared"), Rests(u, v, "loading")
    PROVE  FeedInv(v)
<1>1. Page(v) /\ DOMAIN v.calls = DOMAIN u.calls
  BY CalledPage DEF FeedInv
<1> QED BY <1>1 DEF FeedInv, Called, Put, Once, Rests

LEMMA FeedUser ==
    ASSUME FeedInv(ui), Feed!poll \/ \E d : Feed!setDelaySeconds(d) PROVE FeedInv(ui')
<1>1. CASE Feed!poll
  BY <1>1, FeedFetches DEF Feed!poll
<1>2. CASE \E d : Feed!setDelaySeconds(d)
  <2>1. Kept(ui, ui') /\ Rests(ui, ui', "shared") /\ Rests(ui, ui', "loading")
    BY <1>2 DEF FeedInv, Page, Kept, Rests, Feed!setDelaySeconds
  <2> QED BY <2>1, FeedKept
<1> QED BY <1>1, <1>2

LEMMA FeedConnects == ASSUME FeedInv(ui), Feed!handleSaveAndConnect PROVE FeedInv(ui')
<1> DEFINE c == Feed!call("configure", "none")
<1>1. PICK b, k : ui' = [[ui EXCEPT !.loading = TRUE, !.shared = b] EXCEPT !.calls[k] = c]
                  /\ b = (ui.shared \/ Feed!Under(ui, "status") # {})
  BY DEF Feed!handleSaveAndConnect, Feed!Send
<1>2. ui'.calls = Put(ui.calls, k, c) /\ ui'.shared = b /\ ui'.loading = TRUE /\ {"calls", "shared", "loading"} \subseteq DOMAIN ui'
  BY <1>1 DEF FeedInv, Page, Put
<1>3. c.op = "configure" /\ Fields \subseteq DOMAIN c
  BY DEF Fields, Feed!call
<1> HIDE DEF c
<1>4. Page(ui') /\ DOMAIN ui'.calls = DOMAIN ui.calls
  BY <1>2, <1>3 DEF FeedInv, Page, Slots, Put
<1>5. b # TRUE => ui.shared # TRUE /\ \A j \in DOMAIN ui.calls : ui.calls[j].op # "status"
  BY <1>1 DEF Feed!Under
<1>6. ui.loading # TRUE
  BY DEF Feed!handleSaveAndConnect
<1>7. b # TRUE => \A j \in DOMAIN ui.calls : ui.calls[j].op \notin Connects
  BY <1>5, <1>6 DEF FeedInv, Once
<1>8. b # TRUE => \A j \in DOMAIN ui'.calls : j # k => ui'.calls[j].op \notin Connects /\ ui'.calls[j].op # "status"
  BY <1>2, <1>5, <1>7 DEF Put
<1>9. k \in DOMAIN ui'.calls => ui'.calls[k].op = "configure"
  BY <1>2, <1>3 DEF Put
<1> QED BY <1>2, <1>4, <1>8, <1>9 DEF FeedInv, Once

LEMMA FeedAction ==
    ASSUME FeedInv(ui), NEW op \in Feed!Actions, Feed!handleAction(op) PROVE FeedInv(ui')
<1>1. PICK w, e, k, g : /\ w = ui \/ \E r : w = [ui EXCEPT !.raced = r]
                        /\ ui' = [[w EXCEPT !.edited = e]
                                     EXCEPT !.calls[k] = [Feed!call(op, "none") EXCEPT !.got = g]]
  BY DEF Feed!handleAction, Feed!Send
<1> DEFINE c == [Feed!call(op, "none") EXCEPT !.got = g]
<1>2. Called(ui, ui', k, c) /\ Rests(ui, ui', "shared") /\ Rests(ui, ui', "loading")
  BY <1>1 DEF FeedInv, Page, Called, Put, Rests, Fields, Feed!call
<1>3. c.op \notin Connects /\ c.op # "status"
  BY DEF Connects, Feed!call, Feed!Actions
<1> HIDE DEF c
<1> QED BY <1>2, <1>3, FeedOther

LEMMA FeedServed == ASSUME FeedInv(ui), NEW i, Feed!FeedServe(i) PROVE FeedInv(ui')
<1> DEFINE w == Feed!FeedEffect(ui, ui.calls[i])
<1>1. \/ ui' = [ui EXCEPT !.calls[i].at = "err"]
      \/ \E g, a : ui' = [[w EXCEPT !.calls[i].got = g] EXCEPT !.calls[i].at = a]
  BY DEF Feed!FeedServe, Feed!Outcomes
<1>2. Kept(ui, w) /\ Rests(ui, w, "shared") /\ Rests(ui, w, "loading")
  BY DEF FeedInv, Page, Kept, Rests, Feed!FeedEffect
<1> HIDE DEF w
<1>3. Kept(ui, ui') /\ Rests(ui, ui', "shared") /\ Rests(ui, ui', "loading")
  BY <1>1, <1>2, Serves DEF FeedInv
<1> QED BY <1>3, FeedKept

LEMMA FeedEnd ==
    ASSUME NEW u, FeedInv(u), NEW i PROVE FeedInv(Feed!End(u, i))
<1>1. Called(u, Feed!End(u, i), i, Feed!Idle)
  BY DEF FeedInv, Page, Called, Put, Fields, Feed!End, Feed!Idle
<1>2. /\ Rests(u, Feed!End(u, i), "shared") /\ Rests(u, Feed!End(u, i), "loading")
      /\ Feed!Idle.op \notin Connects /\ Feed!Idle.op # "status"
  BY DEF FeedInv, Rests, Connects, Feed!End, Feed!Idle
<1> QED BY <1>1, <1>2, FeedOther

\* The call that holds the busy flag ends.
LEMMA FeedFrees ==
    ASSUME NEW u, FeedInv(u), NEW i \in DOMAIN u.calls, u.calls[i].op \in Connects \cup {"status"},
           NEW v, Called(u, v, i, Feed!Idle), Rests(u, v, "shared"), "loading" \in DOMAIN v
    PROVE  FeedInv(v)
<1>1. Page(v) /\ DOMAIN v.calls = DOMAIN u.calls
  BY CalledPage DEF FeedInv
<1>2. Feed!Idle.op \notin Connects
  BY DEF Feed!Idle, Connects
<1>3. u.shared # TRUE => \A j \in DOMAIN u.calls : j # i => u.calls[j].op \notin Connects
  BY DEF FeedInv, Once
<1>4. u.shared # TRUE => \A j \in DOMAIN v.calls : v.calls[j].op \notin Connects
  BY <1>2, <1>3 DEF Called, Put
<1> QED BY <1>1, <1>4 DEF FeedInv, Once, Rests

LEMMA FeedAnswered ==
    ASSUME FeedInv(ui), NEW i \in DOMAIN ui.calls,
           \/ Feed!StatusAnswers(i)
           \/ Feed!ConfigureAnswers(i)
           \/ Feed!AuthorizeAnswers(i)
    PROVE  FeedInv(ui')
<1>1. CASE Feed!StatusAnswers(i)
  <2>1. \/ ui' = [[[ui EXCEPT !.loading = FALSE] EXCEPT !.raced = TRUE] EXCEPT !.calls[i] = Feed!Idle]
        \/ \E f : ui' = [[[ui EXCEPT !.loading = FALSE] EXCEPT !.form = f, !.edited = FALSE] EXCEPT !.calls[i] = Feed!Idle]
    BY <1>1 DEF Feed!StatusAnswers, Feed!End
  <2>2. Called(ui, ui', i, Feed!Idle) /\ Rests(ui, ui', "shared") /\ "loading" \in DOMAIN ui'
    BY <2>1 DEF FeedInv, Page, Called, Put, Rests, Fields, Feed!Idle
  <2> QED BY <1>1, <2>2, FeedFrees DEF Feed!StatusAnswers, Feed!Answered
<1>2. CASE Feed!ConfigureAnswers(i) \/ Feed!AuthorizeAnswers(i)
  <2>1. CASE ui' = [[ui EXCEPT !.loading = FALSE] EXCEPT !.calls[i] = Feed!Idle]
    <3>1. Called(ui, ui', i, Feed!Idle) /\ Rests(ui, ui', "shared") /\ "loading" \in DOMAIN ui'
      BY <2>1 DEF FeedInv, Page, Called, Put, Rests, Fields, Feed!Idle
    <3> QED BY <1>2, <3>1, FeedFrees DEF Connects, Feed!ConfigureAnswers, Feed!AuthorizeAnswers,
               Feed!Answered
  <2>2. CASE Feed!ConfigureAnswers(i) /\ ui' = [ui EXCEPT !.calls[i] = Feed!call("authorize", "none")]
    <3> DEFINE c == Feed!call("authorize", "none")
    <3>1. Called(ui, ui', i, c) /\ Rests(ui, ui', "shared") /\ Rests(ui, ui', "loading") /\ c.op = "authorize"
      BY <2>2 DEF FeedInv, Page, Called, Put, Rests, Fields, Feed!call
    <3>2. ui.calls[i].op \in Connects
      BY <2>2 DEF Connects, Feed!ConfigureAnswers, Feed!Answered
    <3> HIDE DEF c
    <3>3. Page(ui') /\ DOMAIN ui'.calls = DOMAIN ui.calls
      BY <3>1, CalledPage DEF FeedInv
    <3> QED BY <3>1, <3>2, <3>3 DEF FeedInv, Once, Called, Put, Rests
  <2>3. CASE Feed!AuthorizeAnswers(i) /\ ui' = [Feed!fetchStatus(ui, i) EXCEPT !.loading = FALSE]
    <3> DEFINE v == Feed!fetchStatus(ui, i)
    <3>1. FeedInv(v)
      BY FeedFetches
    <3>2. v.shared # TRUE => \A j \in DOMAIN v.calls : v.calls[j].op \notin Connects
      BY <2>3 DEF FeedInv, Page, Once, Connects, Feed!fetchStatus, Feed!AuthorizeAnswers,
         Feed!Answered, Feed!call, Feed!Connecting, Feed!Under
    <3> HIDE DEF v
    <3> QED BY <2>3, <3>1, <3>2 DEF FeedInv, Page, Once, v
  <2> QED BY <1>2, <2>1, <2>2, <2>3 DEF Feed!ConfigureAnswers, Feed!AuthorizeAnswers, Feed!End
<1> QED BY <1>1, <1>2

LEMMA FeedActed ==
    ASSUME FeedInv(ui), NEW i, NEW op, Feed!ActionAnswers(i, op) PROVE FeedInv(ui')
<1> DEFINE v == [ui EXCEPT !.raced = TRUE]
           w(p) == [ui EXCEPT !.form.policy = p]
<1>1. FeedInv(v) /\ \A p : FeedInv(w(p))
  BY DEF FeedInv, Page, Once
<1>2. ui' = Feed!End(v, i) \/ (\E p : ui' = Feed!End(w(p), i)) \/ ui' = Feed!fetchStatus(ui, i)
  BY DEF Feed!ActionAnswers
<1> HIDE DEF v, w
<1> QED BY <1>1, <1>2, FeedEnd, FeedFetches

LEMMA FeedNext == ASSUME FeedInv(ui), Feed!FeedNext PROVE FeedInv(ui')
BY FeedUser, FeedConnects, FeedAction, FeedServed, FeedAnswered, FeedActed DEF Feed!FeedNext,
   Feed!FeedAnswers

LEMMA FeedSubmits == ASSUME FeedInv(ui) PROVE Feed!OneConnection
<1>1. CASE ui.shared = TRUE
  BY <1>1 DEF Feed!OneConnection
<1>2. CASE Once(ui.calls, Connects, ui.loading)
  <2>1. Cardinality(Feed!Connecting(ui)) <= 1
    BY <1>2, OnceCard DEF Connects, Feed!Connecting, Feed!Under
  <2>2. \A S : Feed!Cardinality(S) = Cardinality(S)
    BY DEF Cardinality, Feed!Cardinality
  <2> QED BY <2>1, <2>2 DEF Feed!OneConnection
<1> QED BY <1>1, <1>2 DEF FeedInv

--------------------------------------------------------------------------------
(* The academy *)

AcademyInv(u) ==
    /\ Page(u) /\ DOMAIN u.calls = 1..MaxCalls
    /\ Guards(u, {"add"}, "adding") /\ Guards(u, {"create"}, "creatingCh")
AcademyMoves(u, v, k, c) ==
    /\ Called(u, v, k, c)
    /\ Moves(u, v, k, c, {"add"}, "adding") /\ Moves(u, v, k, c, {"create"}, "creatingCh")
AcademyRests(u, v) == Kept(u, v) /\ Rests(u, v, "adding") /\ Rests(u, v, "creatingCh")

LEMMA AcademyStep ==
    ASSUME NEW u, NEW v, AcademyInv(u),
           AcademyRests(u, v) \/ \E k, c : AcademyMoves(u, v, k, c)
    PROVE  AcademyInv(v)
<1>1. ASSUME NEW k, NEW c, AcademyMoves(u, v, k, c) PROVE AcademyInv(v)
  BY <1>1, CalledPage, CalledGuards DEF AcademyInv, AcademyMoves
<1>2. CASE AcademyRests(u, v)
  BY <1>2, KeptGuards DEF AcademyInv, AcademyRests, Kept
<1> QED BY <1>1, <1>2

LEMMA AcademyMounts == ASSUME NEW t, NEW s PROVE AcademyInv(Academy!Mounted(t, s))
BY DEF AcademyInv, Page, Slots, Guards, Once, Fields, Academy!Mounted, Academy!loadDashboardData,
   Academy!NoCalls, Academy!Idle, Academy!None, Academy!Under, Academy!call

LEMMA AcademyAdd ==
    ASSUME AcademyInv(ui), Academy!handleAddStudentSubmit PROVE AcademyInv(ui')
<1>1. PICK s, k : ui' = [[ui EXCEPT !.adding = TRUE] EXCEPT !.calls[k] = Academy!call("add", s)]
  BY DEF Academy!handleAddStudentSubmit, Academy!Send
<1>2. AcademyMoves(ui, ui', k, Academy!call("add", s))
  BY <1>1 DEF AcademyInv, AcademyMoves, Called, Moves, Put, Page, Guards, Fields, Academy!call,
     Academy!handleAddStudentSubmit
<1> QED BY <1>2, AcademyStep

LEMMA AcademyCreate ==
    ASSUME AcademyInv(ui), Academy!handleCreateChallengeSubmit PROVE AcademyInv(ui')
<1>1. PICK x, k : ui' = [[ui EXCEPT !.creatingCh = TRUE] EXCEPT !.calls[k] = Academy!call("create", x)]
  BY DEF Academy!handleCreateChallengeSubmit, Academy!Send
<1>2. AcademyMoves(ui, ui', k, Academy!call("create", x))
  BY <1>1 DEF AcademyInv, AcademyMoves, Called, Moves, Put, Page, Guards, Fields, Academy!call,
     Academy!handleCreateChallengeSubmit
<1> QED BY <1>2, AcademyStep

LEMMA AcademyInspect ==
    ASSUME AcademyInv(ui), Academy!handleInspectStudentLogs PROVE AcademyInv(ui')
<1>1. PICK s, b, k :
        ui' = [[ui EXCEPT !.selected = s, !.loadingLogs = TRUE, !.crossed = b]
                 EXCEPT !.calls[k] = Academy!call("logs", s)]
  BY DEF Academy!handleInspectStudentLogs, Academy!Send
<1>2. AcademyMoves(ui, ui', k, Academy!call("logs", s))
  BY <1>1 DEF AcademyInv, AcademyMoves, Called, Moves, Put, Page, Guards, Fields, Academy!call
<1> QED BY <1>2, AcademyStep

LEMMA AcademyEnroll ==
    ASSUME AcademyInv(ui), Academy!handleEnroll PROVE AcademyInv(ui')
<1>1. PICK s, k : ui' = [[ui EXCEPT !.enrolling = s] EXCEPT !.calls[k] = Academy!call("enroll", s)]
  BY DEF Academy!handleEnroll, Academy!Send
<1>2. AcademyMoves(ui, ui', k, Academy!call("enroll", s))
  BY <1>1 DEF AcademyInv, AcademyMoves, Called, Moves, Put, Page, Guards, Fields, Academy!call
<1> QED BY <1>2, AcademyStep

LEMMA AcademyDialogs ==
    ASSUME AcademyInv(ui), Academy!setShowDialog \/ Academy!closeLogs PROVE AcademyInv(ui')
<1>1. AcademyRests(ui, ui')
  BY DEF AcademyInv, AcademyRests, Kept, Rests, Page, Guards, Academy!setShowDialog,
     Academy!closeLogs
<1> QED BY <1>1, AcademyStep

LEMMA AcademyServe ==
    ASSUME AcademyInv(ui), NEW i, Academy!Serve(i) PROVE AcademyInv(ui')
<1> DEFINE w == Academy!Effect(ui, ui.calls[i])
<1>1. \/ ui' = [ui EXCEPT !.calls[i].at = "err"]
      \/ \E g, a : ui' = [[w EXCEPT !.calls[i].got = g] EXCEPT !.calls[i].at = a]
  BY DEF Academy!Serve, Academy!Outcomes
<1>2. AcademyRests(ui, w)
  BY DEF Academy!Effect, AcademyInv, AcademyRests, Page, Kept, Guards, Rests
<1> HIDE DEF w
<1>3. AcademyRests(ui, ui')
  BY <1>1, <1>2, Serves DEF AcademyInv, AcademyRests, Guards
<1> QED BY <1>3, AcademyStep

LEMMA AcademyAnswers ==
    ASSUME AcademyInv(ui), NEW i \in 1..MaxCalls,
           \/ Academy!LoadAnswers(i) \/ Academy!AddAnswers(i) \/ Academy!CreateAnswers(i)
           \/ Academy!LogsAnswer(i) \/ Academy!EnrollAnswers(i)
    PROVE  AcademyInv(ui')
<1>1. CASE Academy!LoadAnswers(i)
  <2>1. PICK s, l, r : ui' = [[ui EXCEPT !.loading = FALSE, !.listed = l, !.raced = r, !.shown = s]
                         EXCEPT !.calls[i] = Academy!Idle]
    BY <1>1 DEF Academy!LoadAnswers, Academy!End
  <2>2. AcademyMoves(ui, ui', i, Academy!Idle)
    BY <2>1 DEF AcademyInv, AcademyMoves, Called, Moves, Put, Page, Guards, Fields, Academy!Idle
  <2> QED BY <2>2, AcademyStep
<1>2. CASE Academy!AddAnswers(i)
  <2>1. CASE ui.calls[i].at = "ok"
    <3>1. PICK d, r : ui' = [[[ui EXCEPT !.adding = FALSE] EXCEPT !.dialog = d]
                           EXCEPT !.loading = TRUE, !.raced = r, !.calls[i] = Academy!call("load", Academy!None)]
      BY <1>2, <2>1 DEF Academy!AddAnswers, Academy!loadDashboardData
    <3>2. AcademyMoves(ui, ui', i, Academy!call("load", Academy!None))
      BY <1>2, <3>1 DEF AcademyInv, AcademyMoves, Called, Moves, Put, Page, Guards, Fields,
         Academy!AddAnswers, Academy!Answered, Academy!call
    <3> QED BY <3>2, AcademyStep
  <2>2. CASE ui.calls[i].at # "ok"
    <3>1. ui' = [[[ui EXCEPT !.adding = FALSE] EXCEPT !.raced = TRUE] EXCEPT !.calls[i] = Academy!Idle]
      BY <1>2, <2>2 DEF Academy!AddAnswers, Academy!End
    <3>2. AcademyMoves(ui, ui', i, Academy!Idle)
      BY <1>2, <3>1 DEF AcademyInv, AcademyMoves, Called, Moves, Put, Page, Guards, Fields,
         Academy!AddAnswers, Academy!Answered, Academy!Idle
    <3> QED BY <3>2, AcademyStep
  <2> QED BY <2>1, <2>2
<1>3. CASE Academy!CreateAnswers(i)
  <2>1. PICK d : ui' = [[ui EXCEPT !.creatingCh = FALSE, !.dialog = d] EXCEPT !.calls[i] = Academy!Idle]
    BY <1>3 DEF Academy!CreateAnswers, Academy!End
  <2>2. AcademyMoves(ui, ui', i, Academy!Idle)
    BY <1>3, <2>1 DEF AcademyInv, AcademyMoves, Called, Moves, Put, Page, Guards, Fields,
       Academy!CreateAnswers, Academy!Answered, Academy!Idle
  <2> QED BY <2>2, AcademyStep
<1>4. CASE Academy!LogsAnswer(i)
  <2>1. PICK b, l : ui' = [[ui EXCEPT !.loadingLogs = FALSE, !.crossed = b, !.logs = l] EXCEPT !.calls[i] = Academy!Idle]
    BY <1>4 DEF Academy!LogsAnswer, Academy!End
  <2>2. AcademyMoves(ui, ui', i, Academy!Idle)
    BY <2>1 DEF AcademyInv, AcademyMoves, Called, Moves, Put, Page, Guards, Fields, Academy!Idle
  <2> QED BY <2>2, AcademyStep
<1>5. CASE Academy!EnrollAnswers(i)
  <2>1. CASE ui.calls[i].at = "ok"
    <3>1. PICK r : ui' = [[ui EXCEPT !.enrolling = Academy!None]
                           EXCEPT !.loading = TRUE, !.raced = r, !.calls[i] = Academy!call("load", Academy!None)]
      BY <1>5, <2>1 DEF Academy!EnrollAnswers, Academy!loadDashboardData
    <3>2. AcademyMoves(ui, ui', i, Academy!call("load", Academy!None))
      BY <3>1 DEF AcademyInv, AcademyMoves, Called, Moves, Put, Page, Guards, Fields, Academy!call
    <3> QED BY <3>2, AcademyStep
  <2>2. CASE ui.calls[i].at # "ok"
    <3>1. ui' = [[[ui EXCEPT !.enrolling = Academy!None] EXCEPT !.raced = TRUE] EXCEPT !.calls[i] = Academy!Idle]
      BY <1>5, <2>2 DEF Academy!EnrollAnswers, Academy!End
    <3>2. AcademyMoves(ui, ui', i, Academy!Idle)
      BY <3>1 DEF AcademyInv, AcademyMoves, Called, Moves, Put, Page, Guards, Fields, Academy!Idle
    <3> QED BY <3>2, AcademyStep
  <2> QED BY <2>1, <2>2
<1> QED BY <1>1, <1>2, <1>3, <1>4, <1>5

LEMMA AcademyNext == ASSUME AcademyInv(ui), Academy!Next PROVE AcademyInv(ui')
BY AcademyMounts, AcademyAdd, AcademyCreate, AcademyInspect, AcademyEnroll, AcademyDialogs,
   AcademyServe, AcademyAnswers DEF Academy!Next, Academy!Reopen

LEMMA AcademyInit == ASSUME Academy!Init PROVE AcademyInv(ui)
BY AcademyMounts DEF Academy!Init

LEMMA AcademySubmits == ASSUME AcademyInv(ui) PROVE Academy!OneSubmission
<1>1. Cardinality(Academy!Under(ui, "add")) <= 1
  BY OnceCard DEF AcademyInv, Guards, Academy!Under
<1>2. Cardinality(Academy!Under(ui, "create")) <= 1
  BY OnceCard DEF AcademyInv, Guards, Academy!Under
<1>3. \A S : Academy!Cardinality(S) = Cardinality(S)
  BY DEF Cardinality, Academy!Cardinality
<1> QED BY <1>1, <1>2, <1>3 DEF Academy!OneSubmission

-----------------------------------------------------------------------------
(* All pages together.                                                         *)
FormInv ==
    /\ page = "session" => SessionInv(ui)
    /\ page = "orders" => OrdersInv(ui)
    /\ page = "ticket" => TicketInv(ui)
    /\ page = "futures" => FuturesInv(ui)
    /\ page = "algo" => AlgoInv(ui)
    /\ page = "zeroloss" => ZeroLossInv(ui)
    /\ page = "profile" => ProfileInv(ui)
    /\ page = "capital" => SettingsInv(ui) /\ ChangesInv(ui)
    /\ page = "reports" => ReportsInv(ui)
    /\ page = "users" => UsersInv(ui)
    /\ page = "groups" => GroupsInv(ui)
    /\ page = "rosters" => RostersInv(ui)
    /\ page = "institutions" => InstitutionsInv(ui)
    /\ page = "rootControl" => RootInv(ui)
    /\ page = "dataFeed" => FeedInv(ui)
    /\ page = "academy" => AcademyInv(ui)

LEMMA FormsInit == ASSUME First \in Underlyings, FormInit \/ Other PROVE FormInv
BY SessionInit, OrdersInit, TicketInit, FuturesInit, AlgoInit, ZeroLossInit, ProfileInit,
   SettingsInit,
   ChangesInit, ReportsInit, UsersInit, GroupsInit, RostersInit, InstitutionsInit, RootInit,
   FeedInit,
   AcademyInit
   DEF FormInv, FormInit, Other, Forms

LEMMA FormsNext == ASSUME FormInv, FormNext PROVE FormInv'
<1>1. page' = page
  BY DEF FormNext
<1>2. /\ page = "session" => SessionInv(ui')
      /\ page = "orders" => OrdersInv(ui')
      /\ page = "ticket" => TicketInv(ui')
      /\ page = "futures" => FuturesInv(ui')
      /\ page = "algo" => AlgoInv(ui')
      /\ page = "zeroloss" => ZeroLossInv(ui')
      /\ page = "profile" => ProfileInv(ui')
      /\ page = "capital" => SettingsInv(ui') /\ ChangesInv(ui')
  BY SessionNext, OrdersNext, TicketNext, FuturesNext, AlgoNext, ZeroLossNext, ProfileNext,
     SettingsNext,
     ChangesNext
     DEF FormNext, FormInv
<1>3. /\ page = "reports" => ReportsInv(ui')
      /\ page = "users" => UsersInv(ui')
      /\ page = "groups" => GroupsInv(ui')
      /\ page = "rosters" => RostersInv(ui')
      /\ page = "institutions" => InstitutionsInv(ui')
      /\ page = "rootControl" => RootInv(ui')
      /\ page = "dataFeed" => FeedInv(ui')
      /\ page = "academy" => AcademyInv(ui')
  BY ReportsNext, UsersNext, GroupsNext, RostersNext, InstitutionsNext, RootNext, FeedNext,
     AcademyNext
     DEF FormNext, FormInv
<1> QED BY <1>1, <1>2, <1>3 DEF FormInv

LEMMA FormsSubmit == ASSUME FormInv PROVE OneSubmission
BY SessionSubmits, OrdersSubmits, TicketSubmits, FuturesSubmits, AlgoSubmits, ZeroLossSubmits,
   ProfileSubmits, SettingsSubmits, ReportsSubmits, UsersSubmits, GroupsSubmits, RostersSubmits,
   InstitutionsSubmits, RootSubmits, FeedSubmits, AcademySubmits
   DEF FormInv, OneSubmission

LEMMA FormsAlways == ASSUME First \in Underlyings PROVE FormSpec => []FormInv
<1>1. FormInit \/ Other => FormInv
  BY FormsInit
<1>2. FormInv /\ [FormNext \/ (Other /\ UNCHANGED page)]_vars => FormInv'
  <2> SUFFICES ASSUME FormInv, [FormNext \/ (Other /\ UNCHANGED page)]_vars PROVE FormInv'
    OBVIOUS
  <2>1. CASE FormNext
    BY <2>1, FormsNext
  <2>2. CASE Other /\ UNCHANGED page
    BY <2>2 DEF FormInv, Other, Forms
  <2>3. CASE UNCHANGED vars
    BY <2>3 DEF FormInv, vars
  <2> QED BY <2>1, <2>2, <2>3
<1> QED BY <1>1, <1>2, PTL DEF FormSpec

\* Whatever the accounts, orders, strategies, students and underlyings, and
\* however many calls are under way: on the sixteen pages that send something for
\* the user, a form whose call has not ended is not sent again, in whatever order
\* answers, failures and closed dialogs come. The flag is set before the call and
\* cleared when it ends (handleConfirm, handleCancelOrder, handleSubmit,
\* handleAddCapital and their kin). Exceptions are those each page states, all of
\* a flag two calls share: cancels of two orders, two kinds of capital change, a
\* status that ends during a connection, a fetch that overlaps the deletion of a
\* report.
THEOREM FormsOnce ==
    ASSUME First \in Underlyings
    PROVE  FormSpec => []OneSubmission
<1>1. FormInv => OneSubmission
  BY FormsSubmit
<1> QED BY <1>1, FormsAlways, PTL

\* Whatever the underlyings and however many calls: on the futures terminal no
\* button stays disabled without a call under way, no order of the panel and no
\* kill is sent twice, and the margin that has arrived is that of the contract
\* and the lots shown (FuturesOrderPanel and handleKillSwitch).
THEOREM TerminalSafe ==
    ASSUME First \in Underlyings
    PROVE  FormSpec => [](page = "futures" =>
                Futures!NothingLocked /\ Futures!OneSubmission /\ Futures!ShownIsTrue)
<1>1. FormInv => (page = "futures" =>
                Futures!NothingLocked /\ Futures!OneSubmission /\ Futures!ShownIsTrue)
  BY FuturesSubmits DEF FormInv
<1> QED BY <1>1, FormsAlways, PTL
================================================================================
