---------------------------- MODULE UserPageProofs -----------------------------
(* A page submits each of its forms once. It is proved by an invariant of the   *)
(* page, which relates a button to the calls it stands for: such a call is       *)
(* under way only while the button is disabled, and then it is the only one.     *)
(* First the facts about calls all pages share, then the session, the orders,    *)
(* the terminals and the settings; the pages of the administration follow in     *)
(* FormProofs. A lemma is named for the page and the steps of it it is about.    *)
EXTENDS FormPages, FiniteSetTheorems, TLAPS

(* A page is a record whose field calls holds the calls under way.              *)
Fields == {"op", "id", "at", "got", "mine"}
Slots(f) == \A i \in DOMAIN f : Fields \subseteq DOMAIN f[i]
Page(u) == "calls" \in DOMAIN u /\ Slots(u.calls)
Put(f, k, c) == [f EXCEPT ![k] = c]

\* At most one call is one of ops, and only while the button is disabled.
Once(f, ops, disabled) ==
    \A i \in DOMAIN f : f[i].op \in ops =>
        disabled = TRUE /\ \A j \in DOMAIN f : f[j].op \in ops => i = j

\* Button x stands for the calls of ops.
Guards(u, ops, x) == x \in DOMAIN u /\ u[x] \in BOOLEAN /\ Once(u.calls, ops, u[x])

\* Slot k goes to call c, and button x to what it is in v.
Moves(u, v, k, c, ops, x) ==
    /\ x \in DOMAIN v /\ v[x] \in BOOLEAN
    /\ \/ c.op \notin ops /\ (u[x] = TRUE => v[x] = TRUE)
       \/ u[x] = FALSE /\ v[x] = TRUE
       \/ k \in DOMAIN u.calls /\ u.calls[k].op \in ops /\ (c.op \notin ops \/ v[x] = TRUE)

Called(u, v, k, c) ==
    /\ "calls" \in DOMAIN v /\ v.calls = Put(u.calls, k, c) /\ Fields \subseteq DOMAIN c

\* The calls go on as what they are.
Kept(u, v) ==
    /\ Page(v) /\ DOMAIN v.calls = DOMAIN u.calls
    /\ \A i \in DOMAIN u.calls : v.calls[i].op = u.calls[i].op /\ v.calls[i].id = u.calls[i].id /\ v.calls[i].mine = u.calls[i].mine
\* The calls go on, of whatever dialog they are.
Alike(u, v) ==
    /\ Page(v) /\ DOMAIN v.calls = DOMAIN u.calls
    /\ \A i \in DOMAIN u.calls : v.calls[i].op = u.calls[i].op
Rests(u, v, x) == x \in DOMAIN v /\ v[x] = u[x]

LEMMA CalledPage ==
    ASSUME NEW u, Page(u), NEW v, NEW k, NEW c, Called(u, v, k, c)
    PROVE  Page(v) /\ DOMAIN v.calls = DOMAIN u.calls
BY DEF Page, Slots, Called, Put

LEMMA CalledGuards ==
    ASSUME NEW u, NEW v, NEW k, NEW c, NEW ops, NEW x, Called(u, v, k, c),
           Guards(u, ops, x), Moves(u, v, k, c, ops, x)
    PROVE  Guards(v, ops, x)
BY DEF Called, Put, Once, Guards, Moves

LEMMA AlikeGuards ==
    ASSUME NEW u, NEW v, NEW ops, NEW x, Alike(u, v), Guards(u, ops, x), Rests(u, v, x)
    PROVE  Guards(v, ops, x)
BY DEF Alike, Once, Guards, Rests

LEMMA KeptGuards ==
    ASSUME NEW u, NEW v, NEW ops, NEW x, Kept(u, v), Guards(u, ops, x), Rests(u, v, x)
    PROVE  Guards(v, ops, x)
BY DEF Kept, Once, Guards, Rests

LEMMA Refused ==
    ASSUME NEW u, Page(u), NEW i, NEW a
    PROVE  LET v == [u EXCEPT !.calls[i].at = a]
           IN  Kept(u, v) /\ \A x \in DOMAIN u : x # "calls" => Rests(u, v, x)
<1> DEFINE f == [u.calls EXCEPT ![i].at = a]
           v == [u EXCEPT !.calls = f]
<1>1. /\ Slots(f) /\ DOMAIN f = DOMAIN u.calls
      /\ \A j \in DOMAIN f : f[j].op = u.calls[j].op /\ f[j].id = u.calls[j].id /\ f[j].mine = u.calls[j].mine
  BY DEF Page, Slots, Fields
<1> HIDE DEF f
<1>2. Kept(u, v) /\ \A x \in DOMAIN u : x # "calls" => Rests(u, v, x)
  BY <1>1 DEF Page, Kept, Rests
<1> QED
  BY <1>2 DEF f

LEMMA Gets ==
    ASSUME NEW u, Page(u), NEW w, Kept(u, w), NEW i, NEW g
    PROVE  LET v == [w EXCEPT !.calls[i].got = g]
           IN  Kept(u, v) /\ \A x \in DOMAIN w : x # "calls" => Rests(w, v, x)
<1> DEFINE f == [w.calls EXCEPT ![i].got = g]
           v == [w EXCEPT !.calls = f]
<1>1. /\ Slots(f) /\ DOMAIN f = DOMAIN w.calls
      /\ \A j \in DOMAIN f : f[j].op = w.calls[j].op /\ f[j].id = w.calls[j].id /\ f[j].mine = w.calls[j].mine
  BY DEF Page, Slots, Fields, Kept
<1> HIDE DEF f
<1>2. Kept(u, v) /\ \A x \in DOMAIN w : x # "calls" => Rests(w, v, x)
  BY <1>1 DEF Page, Kept, Rests
<1> QED
  BY <1>2 DEF f

LEMMA Getting ==
    ASSUME NEW u, Page(u), NEW w, Kept(u, w), NEW i, NEW v, \E g : v = [w EXCEPT !.calls[i].got = g]
    PROVE  Kept(u, v) /\ \A x \in DOMAIN w : x # "calls" => Rests(w, v, x)
<1>1. PICK g : v = [w EXCEPT !.calls[i].got = g]
  OBVIOUS
<1> QED BY <1>1, Gets

LEMMA Served ==
    ASSUME NEW u, Page(u), NEW w, Kept(u, w), NEW i, NEW g, NEW a
    PROVE  LET v == [[w EXCEPT !.calls[i].got = g] EXCEPT !.calls[i].at = a]
           IN  Kept(u, v) /\ \A x \in DOMAIN w : x # "calls" => Rests(w, v, x)
<1> DEFINE f == [w.calls EXCEPT ![i].got = g]
           t == [w EXCEPT !.calls = f]
<1>1. /\ Slots(f) /\ DOMAIN f = DOMAIN w.calls
      /\ \A j \in DOMAIN f : f[j].op = w.calls[j].op /\ f[j].id = w.calls[j].id /\ f[j].mine = w.calls[j].mine
  BY DEF Page, Slots, Fields, Kept
<1> HIDE DEF f
<1>2. Kept(w, t) /\ \A x \in DOMAIN w : x # "calls" => Rests(w, t, x)
  BY <1>1 DEF Page, Kept, Rests
<1>3. Page(t) /\ DOMAIN t = DOMAIN w
  BY <1>2 DEF Kept
<1> HIDE DEF t
<1> DEFINE v == [t EXCEPT !.calls[i].at = a]
<1>4. Kept(t, v) /\ \A x \in DOMAIN t : x # "calls" => Rests(t, v, x)
  BY <1>3, Refused
<1> HIDE DEF v
<1>5. Kept(u, v) /\ \A x \in DOMAIN w : x # "calls" => Rests(w, v, x)
  BY <1>2, <1>3, <1>4 DEF Kept, Rests
<1> QED
  BY <1>5 DEF f, t, v

LEMMA KeptSelf == ASSUME NEW u, Page(u) PROVE Kept(u, u)
BY DEF Kept

LEMMA Serves ==
    ASSUME NEW u, Page(u), NEW w, Kept(u, w), NEW i, NEW v,
           \/ v = [u EXCEPT !.calls[i].at = "err"]
           \/ \E g, a : v = [[w EXCEPT !.calls[i].got = g] EXCEPT !.calls[i].at = a]
    PROVE  /\ Kept(u, v)
           /\ \A x \in DOMAIN u : x # "calls" /\ Rests(u, w, x) => Rests(u, v, x)
<1>1. CASE v = [u EXCEPT !.calls[i].at = "err"]
  BY <1>1, Refused
<1>2. ASSUME NEW g, NEW a, v = [[w EXCEPT !.calls[i].got = g] EXCEPT !.calls[i].at = a]
      PROVE  /\ Kept(u, v)
             /\ \A x \in DOMAIN u : x # "calls" /\ Rests(u, w, x) => Rests(u, v, x)
  <2>1. Kept(u, v) /\ \A x \in DOMAIN w : x # "calls" => Rests(w, v, x)
    BY <1>2, Served
  <2> QED BY <2>1 DEF Rests
<1> QED BY <1>1, <1>2

LEMMA SingleCard == ASSUME NEW S, \A i, j \in S : i = j PROVE Cardinality(S) <= 1
<1>1. CASE S = {}
  BY <1>1, FS_EmptySet
<1>2. CASE S # {}
  <2>1. PICK x \in S : TRUE
    BY <1>2
  <2>2. S = {x}
    BY <2>1
  <2> QED BY <2>2, FS_Singleton
<1> QED BY <1>1, <1>2

LEMMA OnceCard ==
    ASSUME NEW f, NEW ops, NEW b, Once(f, ops, b), NEW S, S \subseteq {i \in DOMAIN f : f[i].op \in ops}
    PROVE  Cardinality(S) <= 1
BY SingleCard DEF Once

--------------------------------------------------------------------------------
(* The session: the forms of the login page and the workspace switch *)

Asked(c) == c.op \in {"login", "register", "tenant"} /\ c.mine = TRUE
SessionInv(u) ==
    /\ Page(u) /\ "busy" \in DOMAIN u
    /\ \A i \in DOMAIN u.calls : Asked(u.calls[i]) =>
         /\ u.calls[i].op \in u.busy
         /\ \A j \in DOMAIN u.calls : Asked(u.calls[j]) /\ u.calls[j].op = u.calls[i].op => i = j

LEMMA SessionAside ==
    ASSUME NEW u, SessionInv(u), NEW v, NEW k, NEW c, Called(u, v, k, c), ~Asked(c),
           "busy" \in DOMAIN v, v.busy = u.busy
    PROVE  SessionInv(v)
<1>1. Page(v) /\ DOMAIN v.calls = DOMAIN u.calls
  BY CalledPage DEF SessionInv
<1>2. \A j \in DOMAIN v.calls : Asked(v.calls[j]) => Asked(u.calls[j]) /\ v.calls[j] = u.calls[j]
  BY <1>1 DEF Called, Put
<1> QED BY <1>1, <1>2 DEF SessionInv

LEMMA SessionKept ==
    ASSUME NEW u, SessionInv(u), NEW v, Kept(u, v), "busy" \in DOMAIN v, v.busy = u.busy
    PROVE  SessionInv(v)
<1>1. \A j \in DOMAIN v.calls : Asked(v.calls[j]) => Asked(u.calls[j]) /\ v.calls[j].op = u.calls[j].op
  BY DEF Kept, Asked
<1> QED BY <1>1 DEF SessionInv, Kept

LEMMA SessionSets ==
    ASSUME NEW u, SessionInv(u)
    PROVE  /\ \A x : SessionInv([u EXCEPT !.token = x])
           /\ \A x : SessionInv([u EXCEPT !.leaving = x])
           /\ \A x : SessionInv([u EXCEPT !.crossed = x])
           /\ \A x, y : SessionInv([u EXCEPT !.user = x, !.initializing = y])
           /\ \A x, y : SessionInv([u EXCEPT !.stored = x, !.cookie = y])
           /\ \A x, y : SessionInv([u EXCEPT !.stored = x, !.user = y])
           /\ \A x, y, z : SessionInv([u EXCEPT !.token = x, !.stored = y, !.cookie = z])
           /\ \A x, y, z : SessionInv([u EXCEPT !.stored = x, !.user = y, !.reload = z])
           /\ \A x, y : SessionInv([u EXCEPT !.leaving = x, !.crossed = y])
BY DEF SessionInv, Page

LEMMA SessionSend ==
    ASSUME NEW u, SessionInv(u), NEW op, NEW a
    PROVE  SessionInv(Session!Send(u, Session!call(op, a)))
<1> DEFINE c == Session!call(op, a)
<1>1. Fields \subseteq DOMAIN c /\ ~Asked(c)
  BY DEF Fields, Asked, Session!call
<1> HIDE DEF c
<1>2. /\ Called(u, Session!Send(u, c), Session!Slot(u), c)
      /\ "busy" \in DOMAIN Session!Send(u, c) /\ Session!Send(u, c).busy = u.busy
  BY <1>1 DEF SessionInv, Page, Called, Put, Session!Send
<1>3. SessionInv(Session!Send(u, c))
  BY <1>1, <1>2, SessionAside
<1> QED BY <1>3 DEF c

LEMMA SessionEnd == ASSUME NEW u, SessionInv(u), NEW i PROVE SessionInv(Session!End(u, i))
<1>1. /\ Called(u, Session!End(u, i), i, Session!Idle) /\ ~Asked(Session!Idle)
      /\ "busy" \in DOMAIN Session!End(u, i) /\ Session!End(u, i).busy = u.busy
  BY DEF SessionInv, Page, Called, Put, Fields, Asked, Session!End, Session!Idle
<1> QED BY <1>1, SessionAside

\* A call of a form ends, and with it what the form is busy with.
LEMMA SessionFinish ==
    ASSUME NEW u, SessionInv(u), NEW i \in DOMAIN u.calls, NEW b,
           b = IF u.calls[i].mine THEN u.busy \ {u.calls[i].op} ELSE u.busy
    PROVE  SessionInv(Session!End([u EXCEPT !.busy = b], i))
<1> DEFINE v == Session!End([u EXCEPT !.busy = b], i)
<1>1. v = [u EXCEPT !.busy = b, !.calls[i] = Session!Idle]
  BY DEF SessionInv, Page, Session!End
<1> HIDE DEF v
<1>2. Called(u, v, i, Session!Idle) /\ v.busy = b /\ "busy" \in DOMAIN v /\ ~Asked(Session!Idle)
  BY <1>1 DEF SessionInv, Page, Called, Put, Fields, Asked, Session!Idle
<1>3. Page(v) /\ DOMAIN v.calls = DOMAIN u.calls
  BY <1>2, CalledPage DEF SessionInv
<1>4. \A j \in DOMAIN v.calls : Asked(v.calls[j]) => j # i /\ Asked(u.calls[j]) /\ v.calls[j] = u.calls[j]
  BY <1>2, <1>3 DEF Called, Put
<1>5. \A j \in DOMAIN v.calls : Asked(v.calls[j]) => v.calls[j].op \in b
  <2>1. CASE u.calls[i].mine = TRUE
    <3>1. b = u.busy \ {u.calls[i].op}
      BY <2>1
    <3>2. ASSUME NEW j \in DOMAIN v.calls, Asked(v.calls[j]) PROVE v.calls[j].op # u.calls[i].op
      BY <1>3, <1>4, <2>1, <3>2 DEF SessionInv, Asked
    <3> QED BY <1>3, <1>4, <3>1, <3>2 DEF SessionInv
  <2>2. CASE u.calls[i].mine # TRUE
    <3>1. b = u.busy
      BY <2>2
    <3> QED BY <1>3, <1>4, <3>1 DEF SessionInv
  <2> QED BY <2>1, <2>2
<1>6. SessionInv(v)
  BY <1>2, <1>3, <1>4, <1>5 DEF SessionInv
<1> QED BY <1>6 DEF v

LEMMA SessionGo == ASSUME NEW u, SessionInv(u), NEW r PROVE SessionInv(Session!Go(u, r))
<1>1. ASSUME NEW to, NEW left
      PROVE  SessionInv(Session!Orphan([u EXCEPT !.route = to, !.busy = u.busy \ left], left))
  <2> DEFINE f == [i \in DOMAIN u.calls |->
                     IF u.calls[i].op \in left THEN [u.calls[i] EXCEPT !.mine = FALSE] ELSE u.calls[i]]
             v == Session!Orphan([u EXCEPT !.route = to, !.busy = u.busy \ left], left)
  <2>1. /\ Slots(f) /\ DOMAIN f = DOMAIN u.calls
        /\ \A i \in DOMAIN f : Asked(f[i]) => Asked(u.calls[i]) /\ f[i].op = u.calls[i].op /\ f[i].op \notin left
    BY DEF SessionInv, Page, Slots, Fields, Asked
  <2>2. v = [u EXCEPT !.route = to, !.busy = u.busy \ left, !.calls = f]
    <3>1. [u EXCEPT !.route = to, !.busy = u.busy \ left].calls = u.calls
      BY DEF SessionInv, Page
    <3> QED BY <3>1 DEF Session!Orphan
  <2> HIDE DEF f, v
  <2>3. Page(v) /\ v.calls = f /\ "busy" \in DOMAIN v /\ v.busy = u.busy \ left
    BY <2>1, <2>2 DEF SessionInv, Page
  <2>4. SessionInv(v)
    BY <2>1, <2>3 DEF SessionInv
  <2> QED BY <2>4 DEF v
<1>2. \E to, left : Session!Go(u, r) = Session!Orphan([u EXCEPT !.route = to, !.busy = u.busy \ left], left)
  BY DEF Session!Go
<1> QED BY <1>1, <1>2

LEMMA SessionStays == ASSUME NEW u, SessionInv(u) PROVE SessionInv(Session!Stays(u))
BY SessionGo DEF Session!Stays

LEMMA SessionUser == ASSUME NEW u, SessionInv(u), NEW a PROVE SessionInv(Session!SetUser(u, a))
<1> DEFINE v == [u EXCEPT !.user = a, !.initializing = FALSE]
<1>1. SessionInv(v)
  BY SessionSets
<1>2. Session!SetUser(u, a) = Session!Stays(v)
  BY DEF Session!SetUser
<1> HIDE DEF v
<1> QED BY <1>1, <1>2, SessionStays

LEMMA SessionStores ==
    ASSUME NEW u, SessionInv(u)
    PROVE  SessionInv(Session!clearSession(u)) /\ \A a : SessionInv(Session!persistSession(u, a))
BY SessionSets DEF Session!clearSession, Session!persistSession

LEMMA SessionAuth == ASSUME NEW u, SessionInv(u) PROVE SessionInv(Session!initAuth(u))
<1> DEFINE v(x, y) == [u EXCEPT !.user = x, !.initializing = y]
<1>1. \A x, y : SessionInv(v(x, y))
  BY SessionSets
<1>2. \/ \E x, y : Session!initAuth(u) = v(x, y)
      \/ \E x, y, a : Session!initAuth(u) = Session!Send(v(x, y), Session!call("me", a))
  BY DEF Session!initAuth
<1> HIDE DEF v
<1> QED BY <1>1, <1>2, SessionSend

LEMMA SessionLoaded ==
    ASSUME NEW u, "calls" \in DOMAIN u, "busy" \in DOMAIN u, NEW r
    PROVE  SessionInv(Session!Loaded(u, r))
<1> DEFINE v == [u EXCEPT !.calls = Session!NoCalls, !.busy = {}, !.reload = FALSE, !.leaving = FALSE,
                          !.crossed = FALSE]
<1>1. /\ "calls" \in DOMAIN v /\ "busy" \in DOMAIN v /\ v.calls = Session!NoCalls
  OBVIOUS
<1>2. Slots(Session!NoCalls) /\ \A i \in DOMAIN Session!NoCalls : ~Asked(Session!NoCalls[i])
  BY DEF Slots, Fields, Asked, Session!NoCalls, Session!Idle
<1>3. Session!Loaded(u, r) = Session!Go(Session!initAuth(v), r)
  BY DEF Session!Loaded
<1> HIDE DEF v
<1>4. SessionInv(v)
  BY <1>1, <1>2 DEF SessionInv, Page
<1> QED BY <1>3, <1>4, SessionAuth, SessionGo

LEMMA SessionForced == ASSUME NEW u, SessionInv(u) PROVE SessionInv(Session!forceLogout(u))
<1> DEFINE v == Session!clearSession(u)
<1>1. SessionInv(v)
  BY SessionStores
<1>2. Session!forceLogout(u) = v \/ Session!forceLogout(u) = Session!Loaded(v, "login")
  BY DEF Session!forceLogout
<1> HIDE DEF v
<1> QED BY <1>1, <1>2, SessionLoaded DEF SessionInv, Page

LEMMA SessionInit == ASSUME Session!Init PROVE SessionInv(ui)
<1> DEFINE u(a, c, r) == [token |-> a, stored |-> a, cookie |-> c, user |-> a, initializing |-> TRUE,
                     route |-> r, busy |-> {}, reload |-> FALSE, leaving |-> FALSE,
                     crossed |-> FALSE, calls |-> Session!NoCalls]
<1>1. \A a, c, r : "calls" \in DOMAIN u(a, c, r) /\ "busy" \in DOMAIN u(a, c, r)
  OBVIOUS
<1>2. \E a, c, r : ui = Session!Loaded(u(a, c, r), r)
  BY DEF Session!Init
<1> HIDE DEF u
<1> QED BY <1>1, <1>2, SessionLoaded

LEMMA SessionSubmit ==
    ASSUME SessionInv(ui),
           \/ \E a : \E op \in Session!Forms : Session!handleForm(op, a)
           \/ Session!handleSwitch
    PROVE  SessionInv(ui')
<1>1. \E op, a : /\ op \notin ui.busy
                 /\ ui' = Session!Send([ui EXCEPT !.busy = ui.busy \cup {op}], Session!dialogCall(op, a))
  BY DEF Session!handleForm, Session!handleSwitch
<1>2. PICK op, a, k : /\ op \notin ui.busy
                      /\ ui' = [ui EXCEPT !.busy = ui.busy \cup {op}, !.calls[k] = Session!dialogCall(op, a)]
  BY <1>1 DEF SessionInv, Page, Session!Send
<1> DEFINE c == Session!dialogCall(op, a)
<1>3. Fields \subseteq DOMAIN c /\ c.op = op
  BY DEF Fields, Session!dialogCall, Session!call
<1> HIDE DEF c
<1>4. Called(ui, ui', k, c) /\ "busy" \in DOMAIN ui' /\ ui'.busy = ui.busy \cup {op}
  BY <1>2, <1>3 DEF SessionInv, Page, Called, Put, c
<1>5. Page(ui') /\ DOMAIN ui'.calls = DOMAIN ui.calls
  BY <1>4, CalledPage DEF SessionInv
<1>6. /\ \A j \in DOMAIN ui'.calls : j # k => ui'.calls[j] = ui.calls[j]
      /\ k \in DOMAIN ui'.calls => ui'.calls[k].op = op
  BY <1>3, <1>4, <1>5 DEF Called, Put
<1> QED BY <1>2, <1>4, <1>5, <1>6 DEF SessionInv

LEMMA SessionLeaves ==
    ASSUME SessionInv(ui),
           \/ Session!handleLogout
           \/ Session!logoutAndLeave
           \/ Session!saveProfile
           \/ Session!Unauthorized
           \/ Session!Reload
           \/ \E r : Session!Open(r)
           \/ \E r : Session!navigate(r)
    PROVE  SessionInv(ui')
<1>1. CASE Session!handleLogout \/ Session!logoutAndLeave
  <2> DEFINE v == [ui EXCEPT !.leaving = TRUE]
  <2>1. SessionInv(v)
    BY SessionSets
  <2>2. \/ \E op, a : ui' = Session!Send(v, Session!call(op, a))
        \/ \E op, a : ui' = Session!Go(Session!Send(v, Session!call(op, a)), "login")
    BY <1>1 DEF Session!handleLogout, Session!logoutAndLeave, Session!Leave
  <2> HIDE DEF v
  <2> QED BY <2>1, <2>2, SessionSend, SessionGo
<1>2. CASE Session!saveProfile
  BY <1>2, SessionSend DEF Session!saveProfile
<1>3. CASE Session!Unauthorized
  BY <1>3, SessionForced DEF Session!Unauthorized
<1>4. CASE Session!Reload \/ \E r : Session!Open(r)
  BY <1>4, SessionLoaded DEF SessionInv, Page, Session!Reload, Session!Open
<1>5. CASE \E r : Session!navigate(r)
  BY <1>5, SessionGo DEF Session!navigate
<1> QED BY <1>1, <1>2, <1>3, <1>4, <1>5

LEMMA SessionServe == ASSUME SessionInv(ui), NEW i, Session!Serve(i) PROVE SessionInv(ui')
<1> DEFINE w == Session!Effect(ui, ui.calls[i])
<1>1. \/ ui' = [ui EXCEPT !.calls[i].at = "err"]
      \/ \E g, a : ui' = [[w EXCEPT !.calls[i].got = g] EXCEPT !.calls[i].at = a]
  BY DEF Session!Serve, Session!Outcomes
<1>2. w = ui
  BY DEF Session!Effect
<1> HIDE DEF w
<1>3. Kept(ui, w) /\ Rests(ui, w, "busy") /\ Page(ui) /\ "busy" \in DOMAIN ui
  BY <1>2, KeptSelf DEF SessionInv, Rests
<1>4. Kept(ui, ui') /\ Rests(ui, ui', "busy")
  BY <1>1, <1>3, Serves
<1> QED BY <1>4, SessionKept DEF Rests

LEMMA SessionMe == ASSUME SessionInv(ui), NEW i, Session!MeAnswers(i) PROVE SessionInv(ui')
<1> DEFINE u == Session!End(ui, i)
           v == [u EXCEPT !.stored = ui.calls[i].id, !.cookie = TRUE]
<1>1. SessionInv(u)
  BY SessionEnd
<1>2. \/ ui' = Session!SetUser(v, ui.calls[i].id)
      \/ ui' = Session!SetUser(Session!clearSession(u), Session!NoAccount)
      \/ ui' = Session!forceLogout(u)
  BY DEF Session!MeAnswers
<1> HIDE DEF u
<1>3. SessionInv(v)
  BY <1>1, SessionSets
<1> HIDE DEF v
<1> QED BY <1>1, <1>2, <1>3, SessionUser, SessionStores, SessionForced

LEMMA SessionForms ==
    ASSUME SessionInv(ui), NEW i \in DOMAIN ui.calls, NEW op, Session!FormAnswers(i, op)
    PROVE  SessionInv(ui')
<1> DEFINE u == Session!End([ui EXCEPT !.busy = IF ui.calls[i].mine THEN ui.busy \ {op} ELSE ui.busy], i)
           v(x) == [u EXCEPT !.leaving = FALSE, !.crossed = x]
<1>1. ui.calls[i].op = op
  BY DEF Session!FormAnswers, Session!Answered
<1>2. SessionInv(u)
  BY <1>1, SessionFinish
<1>3. ui' = u \/ \E x, a, r : ui' = Session!Go(Session!SetUser(Session!persistSession(v(x), a), a), r)
  BY DEF Session!FormAnswers
<1> HIDE DEF u
<1>4. \A x : SessionInv(v(x))
  BY <1>2, SessionSets
<1> HIDE DEF v
<1> QED BY <1>2, <1>3, <1>4, SessionStores, SessionUser, SessionGo

LEMMA SessionLogout ==
    ASSUME SessionInv(ui), NEW i, NEW op, Session!LogoutAnswers(i, op) PROVE SessionInv(ui')
<1> DEFINE v(x) == [ui EXCEPT !.crossed = x]
           u(x) == Session!SetUser(Session!clearSession(Session!End(v(x), i)), Session!NoAccount)
<1>1. \A x : SessionInv(v(x))
  BY SessionSets
<1>2. \E x : ui' = u(x) \/ ui' = Session!Go(u(x), "login")
  BY DEF Session!LogoutAnswers
<1> HIDE DEF v
<1>3. \A x : SessionInv(u(x))
  BY <1>1, SessionEnd, SessionStores, SessionUser
<1> HIDE DEF u
<1> QED BY <1>2, <1>3, SessionGo

LEMMA SessionTenant ==
    ASSUME SessionInv(ui), NEW i \in DOMAIN ui.calls, Session!TenantAnswers(i) PROVE SessionInv(ui')
<1> DEFINE u == Session!End([ui EXCEPT !.busy = IF ui.calls[i].mine THEN ui.busy \ {"tenant"} ELSE ui.busy], i)
           v == [u EXCEPT !.stored = ui.calls[i].id, !.user = ui.calls[i].id, !.reload = TRUE]
<1>1. ui.calls[i].op = "tenant"
  BY DEF Session!TenantAnswers, Session!Answered
<1>2. SessionInv(u)
  BY <1>1, SessionFinish
<1>3. ui' = u \/ ui' = Session!Stays(v)
  BY DEF Session!TenantAnswers
<1> HIDE DEF u
<1>4. SessionInv(v)
  BY <1>2, SessionSets
<1> HIDE DEF v
<1> QED BY <1>2, <1>3, <1>4, SessionStays

LEMMA SessionSaves == ASSUME SessionInv(ui), NEW i, Session!SaveAnswers(i) PROVE SessionInv(ui')
<1> DEFINE v == [ui EXCEPT !.stored = ui.calls[i].id, !.user = ui.calls[i].id]
<1>1. SessionInv(v)
  BY SessionSets
<1>2. ui' = Session!End(ui, i) \/ ui' = Session!Stays(Session!End(v, i))
  BY DEF Session!SaveAnswers
<1> HIDE DEF v
<1> QED BY <1>1, <1>2, SessionEnd, SessionStays

LEMMA SessionNext == ASSUME SessionInv(ui), Session!Next PROVE SessionInv(ui')
BY SessionSubmit, SessionLeaves, SessionServe, SessionMe, SessionForms, SessionLogout,
   SessionTenant,
   SessionSaves
   DEF Session!Next, Session!Answers

LEMMA SessionSubmits == ASSUME SessionInv(ui) PROVE Session!OneSubmission
<1>1. ASSUME NEW op \in Session!Forms \cup {"tenant"} PROVE Cardinality(Session!Mine(op)) <= 1
  <2>1. \A i, j \in Session!Mine(op) : i = j
    BY DEF SessionInv, Asked, Session!Mine, Session!Under, Session!Forms
  <2> QED BY <2>1, SingleCard
<1>2. \A T : Session!Cardinality(T) = Cardinality(T)
  BY DEF Cardinality, Session!Cardinality
<1> QED BY <1>1, <1>2 DEF Session!OneSubmission

--------------------------------------------------------------------------------
(* The order book: its calls are a set *)

OrderFields == {"op", "id", "list", "at"}
OrdersInv(u) ==
    /\ {"calls", "overlap", "cancelling"} \subseteq DOMAIN u
    /\ \A c \in u.calls : OrderFields \subseteq DOMAIN c
    /\ \/ u.overlap = TRUE
       \/ \A c, d \in u.calls : c.op = "cancel" /\ d.op = "cancel" => c = d /\ c.id = u.cancelling
\* No cancel is added.
OrdersRest(u, v) ==
    /\ {"calls", "overlap", "cancelling"} \subseteq DOMAIN v
    /\ v.overlap = u.overlap
    /\ \A c \in v.calls : OrderFields \subseteq DOMAIN c
    /\ \A c \in v.calls : c.op = "cancel" => c \in u.calls
    /\ v.cancelling = u.cancelling

LEMMA OrdersStep == ASSUME NEW u, NEW v, OrdersInv(u), OrdersRest(u, v) PROVE OrdersInv(v)
BY DEF OrdersInv, OrdersRest

LEMMA OrdersInit == ASSUME OrderBook!Init PROVE OrdersInv(ui)
<1>1. PICK s, t : ui = [server |-> s, shown |-> t, calls |-> {OrderBook!call("load", "none", OrderBook!Nothing)},
              refreshing |-> TRUE, cancelling |-> "none", editing |-> "none", overlap |-> FALSE]
  BY DEF OrderBook!Init
<1> QED BY <1>1 DEF OrdersInv, OrderFields, OrderBook!call

LEMMA OrdersAsks ==
    ASSUME OrdersInv(ui),
           \/ OrderBook!loadOrders
           \/ OrderBook!refreshPortfolio
           \/ \E o : OrderBook!handleModifySubmit(o)
    PROVE  OrdersInv(ui')
<1> DEFINE Aside(c) == OrderFields \subseteq DOMAIN c /\ c.op # "cancel"
<1>1. \A o, l : \A op \in {"load", "poll", "modify"} : Aside(OrderBook!call(op, o, l))
  BY DEF OrderFields, OrderBook!call
<1> HIDE DEF Aside
<1>2. \E c : Aside(c) /\ (\/ ui' = [ui EXCEPT !.refreshing = TRUE, !.calls = ui.calls \cup {c}]
                          \/ ui' = [ui EXCEPT !.calls = ui.calls \cup {c}])
  <2>1. CASE OrderBook!loadOrders
    BY <1>1, <2>1 DEF OrderBook!loadOrders
  <2>2. CASE OrderBook!refreshPortfolio
    BY <1>1, <2>2 DEF OrderBook!refreshPortfolio
  <2>3. CASE \E o : OrderBook!handleModifySubmit(o)
    BY <1>1, <2>3 DEF OrderBook!handleModifySubmit
  <2> QED BY <2>1, <2>2, <2>3
<1>3. PICK c : Aside(c) /\ (\/ ui' = [ui EXCEPT !.refreshing = TRUE, !.calls = ui.calls \cup {c}]
                            \/ ui' = [ui EXCEPT !.calls = ui.calls \cup {c}])
  BY <1>2
<1>4. OrdersRest(ui, ui')
  BY <1>3 DEF OrdersInv, OrdersRest, Aside
<1> QED BY <1>4, OrdersStep

LEMMA OrdersLooks ==
    ASSUME OrdersInv(ui),
           \/ OrderBook!closeEditor
           \/ \E o : OrderBook!openModifyEditor(o)
           \/ \E o : OrderBook!ServerMoves(o)
    PROVE  OrdersInv(ui')
<1>1. OrdersRest(ui, ui')
  BY DEF OrdersInv, OrdersRest, OrderBook!closeEditor, OrderBook!openModifyEditor,
     OrderBook!ServerMoves
<1> QED BY <1>1, OrdersStep

LEMMA OrdersCancels ==
    ASSUME OrdersInv(ui), NEW o, OrderBook!handleCancelOrder(o)
    PROVE  OrdersInv(ui')
<1> DEFINE c == OrderBook!call("cancel", o, ui.shown)
<1>1. /\ ui'.calls = ui.calls \cup {c} /\ ui'.cancelling = o
      /\ ui'.overlap = (ui.overlap \/ \E d \in ui.calls : d.op = "cancel" /\ d.id # o)
      /\ {"calls", "overlap", "cancelling"} \subseteq DOMAIN ui' /\ ui.cancelling # o
  BY DEF OrdersInv, OrderBook!handleCancelOrder, OrderBook!CanCancel
<1>2. OrderFields \subseteq DOMAIN c /\ c.op = "cancel" /\ c.id = o
  BY DEF OrderFields, OrderBook!call
<1> HIDE DEF c
<1>3. ui'.overlap # TRUE => \A d \in ui.calls : d.op # "cancel"
  BY <1>1 DEF OrdersInv
<1> QED BY <1>1, <1>2, <1>3 DEF OrdersInv

LEMMA OrdersServe ==
    ASSUME OrdersInv(ui), NEW c \in ui.calls, OrderBook!Serve(c)
    PROVE  OrdersInv(ui')
<1>1. PICK a, l, s : ui' = [ui EXCEPT !.calls = (ui.calls \ {c}) \cup {[c EXCEPT !.at = a, !.list = l]}, !.server = s]
  <2>1. PICK at \in {"ok", "err"} : \E l, e \in BOOLEAN :
          ui' = [ui EXCEPT !.calls = (ui.calls \ {c}) \cup
                              {[c EXCEPT !.at = at, !.list = IF c.op \in {"load", "poll"} THEN ui.server ELSE c.list]},
                           !.server = IF e THEN [ui.server EXCEPT ![c.id] = "cancelled"] ELSE ui.server]
    BY DEF OrderBook!Serve
  <2> QED BY <2>1
<1> DEFINE d == [c EXCEPT !.at = a, !.list = l]
<1>2. OrderFields \subseteq DOMAIN d /\ d.op = c.op /\ d.id = c.id
  BY DEF OrdersInv, OrderFields
<1>3. /\ ui'.calls = (ui.calls \ {c}) \cup {d} /\ ui'.cancelling = ui.cancelling /\ ui'.overlap = ui.overlap
      /\ {"calls", "overlap", "cancelling"} \subseteq DOMAIN ui'
  BY <1>1 DEF OrdersInv
<1> HIDE DEF d
<1> QED BY <1>2, <1>3 DEF OrdersInv

LEMMA OrdersAnswers ==
    ASSUME OrdersInv(ui), NEW c \in ui.calls,
           OrderBook!LoadAnswers(c) \/ OrderBook!ModifyAnswers(c) \/ OrderBook!CancelAnswers(c)
    PROVE  OrdersInv(ui')
<1>1. CASE OrderBook!LoadAnswers(c) \/ OrderBook!ModifyAnswers(c)
  <2>1. OrdersRest(ui, ui')
    BY <1>1 DEF OrdersInv, OrdersRest, OrderBook!LoadAnswers, OrderBook!ModifyAnswers
  <2> QED BY <2>1, OrdersStep
<1>2. CASE OrderBook!CancelAnswers(c)
  <2>1. /\ ui'.calls = ui.calls \ {c} /\ ui'.overlap = ui.overlap
        /\ {"calls", "overlap", "cancelling"} \subseteq DOMAIN ui' /\ c.op = "cancel"
    BY <1>2 DEF OrdersInv, OrderBook!CancelAnswers
  <2>2. ui.overlap # TRUE => \A d \in ui'.calls : d.op # "cancel"
    BY <2>1 DEF OrdersInv
  <2> QED BY <2>1, <2>2 DEF OrdersInv
<1> QED BY <1>1, <1>2

LEMMA OrdersNext == ASSUME OrdersInv(ui), OrderBook!Next PROVE OrdersInv(ui')
BY OrdersAsks, OrdersLooks, OrdersCancels, OrdersServe, OrdersAnswers DEF OrderBook!Next,
   OrderBook!Answers

LEMMA OrdersSubmits == ASSUME OrdersInv(ui) PROVE OrderBook!OneSubmission
<1>1. \A S : OrderBook!Cardinality(S) = Cardinality(S)
  BY DEF Cardinality, OrderBook!Cardinality
<1>2. ASSUME ui.overlap # TRUE, NEW o PROVE Cardinality({c \in OrderBook!Under("cancel") : c.id = o}) <= 1
  <2> DEFINE S == {c \in OrderBook!Under("cancel") : c.id = o}
  <2>1. \A c, d \in S : c = d
    BY <1>2 DEF OrdersInv, OrderBook!Under
  <2> SUFFICES Cardinality(S) <= 1
    OBVIOUS
  <2> HIDE DEF S
  <2>2. CASE S = {}
    BY <2>2, FS_EmptySet
  <2>3. CASE S # {}
    <3>1. PICK x \in S : TRUE
      BY <2>3
    <3>2. S = {x}
      BY <2>1, <3>1
    <3> QED BY <3>2, FS_Singleton
  <2> QED BY <2>2, <2>3
<1> QED BY <1>1, <1>2 DEF OrderBook!OneSubmission

--------------------------------------------------------------------------------
(* The order form *)

TicketInv(u) ==
    /\ {"calls", "submitting"} \subseteq DOMAIN u
    /\ \/ u.submitting = TRUE /\ u.calls = 1
       \/ u.submitting = FALSE /\ u.calls = 0
TicketRests(u, v) ==
    {"calls", "submitting"} \subseteq DOMAIN v /\ v.calls = u.calls /\ v.submitting = u.submitting

LEMMA TicketInit == ASSUME Ticket!Init PROVE TicketInv(ui)
BY DEF TicketInv, Ticket!Init

LEMMA TicketForms ==
    ASSUME TicketInv(ui),
           \/ Ticket!closeOrderPanel
           \/ Ticket!requestConfirm
           \/ Ticket!cancelConfirm
           \/ Ticket!checkSession
           \/ \E q : Ticket!setQuantity(q)
           \/ \E m : Ticket!handleTradingTypeChange(m)
    PROVE  TicketInv(ui')
<1>1. TicketRests(ui, ui')
  BY DEF TicketInv, TicketRests, Ticket!closeOrderPanel, Ticket!requestConfirm,
     Ticket!cancelConfirm, Ticket!checkSession, Ticket!setQuantity, Ticket!handleTradingTypeChange
<1> QED BY <1>1 DEF TicketInv, TicketRests

LEMMA TicketSide == ASSUME NEW u, TicketInv(u) PROVE TicketInv(Ticket!WithExitSide(u))
<1>1. TicketRests(u, Ticket!WithExitSide(u))
  BY DEF TicketInv, TicketRests, Ticket!WithExitSide
<1> QED BY <1>1 DEF TicketInv, TicketRests

LEMMA TicketSides ==
    ASSUME TicketInv(ui),
           \/ \E s : Ticket!openWithSide(s)
           \/ \E s : Ticket!setSide(s)
           \/ \E t : Ticket!handleOrderTypeChange(t)
           \/ \E h : Ticket!holdingsChange(h)
    PROVE  TicketInv(ui')
<1>1. PICK u : ui' = Ticket!WithExitSide(u) /\ TicketRests(ui, u)
  <2>1. CASE \E s : Ticket!openWithSide(s)
    <3>1. PICK s : ui' = Ticket!WithExitSide([ui EXCEPT !.form.side = s, !.form.mode = "INTRADAY"])
      BY <2>1 DEF Ticket!openWithSide
    <3>2. TicketRests(ui, [ui EXCEPT !.form.side = s, !.form.mode = "INTRADAY"])
      BY DEF TicketInv, TicketRests
    <3> QED BY <3>1, <3>2
  <2>2. CASE \E s : Ticket!setSide(s)
    <3>1. PICK s : ui' = Ticket!WithExitSide([ui EXCEPT !.form.side = s])
      BY <2>2 DEF Ticket!setSide
    <3>2. TicketRests(ui, [ui EXCEPT !.form.side = s])
      BY DEF TicketInv, TicketRests
    <3> QED BY <3>1, <3>2
  <2>3. CASE \E t : Ticket!handleOrderTypeChange(t)
    <3>1. PICK t : ui' = Ticket!WithExitSide([ui EXCEPT !.form.type = t])
      BY <2>3 DEF Ticket!handleOrderTypeChange
    <3>2. TicketRests(ui, [ui EXCEPT !.form.type = t])
      BY DEF TicketInv, TicketRests
    <3> QED BY <3>1, <3>2
  <2>4. CASE \E h : Ticket!holdingsChange(h)
    <3>1. PICK h : ui' = Ticket!WithExitSide([ui EXCEPT !.held = h])
      BY <2>4 DEF Ticket!holdingsChange
    <3>2. TicketRests(ui, [ui EXCEPT !.held = h])
      BY DEF TicketInv, TicketRests
    <3> QED BY <3>1, <3>2
  <2> QED BY <2>1, <2>2, <2>3, <2>4
<1>2. TicketInv(u)
  BY <1>1 DEF TicketInv, TicketRests
<1> QED BY <1>1, <1>2, TicketSide

LEMMA TicketOpens == ASSUME TicketInv(ui), NEW s, Ticket!openOrderPanel(s) PROVE TicketInv(ui')
BY DEF TicketInv, Ticket!openOrderPanel

LEMMA TicketConfirms == ASSUME TicketInv(ui), Ticket!handleConfirm PROVE TicketInv(ui')
<1> DEFINE u == [ui EXCEPT !.confirm = FALSE]
<1>1. TicketInv(u)
  BY DEF TicketInv
<1>2. ui' = Ticket!submitOrder(u)
  BY DEF Ticket!handleConfirm
<1> HIDE DEF u
<1> QED BY <1>1, <1>2 DEF TicketInv, Ticket!submitOrder

LEMMA TicketAnswers == ASSUME TicketInv(ui), Ticket!OrderAnswers PROVE TicketInv(ui')
BY DEF TicketInv, Ticket!OrderAnswers

LEMMA TicketNext == ASSUME TicketInv(ui), Ticket!Next PROVE TicketInv(ui')
BY TicketForms, TicketSides, TicketOpens, TicketConfirms, TicketAnswers DEF Ticket!Next

LEMMA TicketSubmits == ASSUME TicketInv(ui) PROVE Ticket!OneSubmission
BY DEF TicketInv, Ticket!OneSubmission

--------------------------------------------------------------------------------
(* The futures terminal *)

\* Why it holds: a button is disabled exactly while its one post is under way, a
\* spinner only while a call is that ends it; and the only estimate under way is
\* that of the contract and the lots shown.
FuturesBusy(u) ==
    /\ u \in Futures!State
    /\ u.posts["place"] + u.posts["placed"] = IF u.submitting THEN 1 ELSE 0
    /\ u.posts["kill"] + u.posts["killed"] = IF u.killing THEN 1 ELSE 0
    /\ u.listing => \E c \in u.calls : c[1] \in {"first", "list"}
    /\ u.charting => \E c \in u.calls : c[1] = "history"

FuturesEstimated(u) ==
    /\ u.estimates \subseteq {<<u.contract, u.lots>>}
    /\ u.estimated => u.margin = <<u.contract, u.lots>>

FuturesInv(u) == FuturesBusy(u) /\ FuturesEstimated(u)

LEMMA FuturesInit == ASSUME First \in Underlyings, Futures!Init PROVE FuturesInv(ui)
BY DEF Futures!Init, FuturesInv, FuturesBusy, FuturesEstimated, Futures!State, Futures!Selectable,
   Futures!Lots, Futures!Margins, Futures!NoMargin, Futures!Ops, Futures!Posts

\* The margin is asked for again: no other estimate is under way or shown.
LEMMA FuturesAskMargin ==
    ASSUME NEW u, FuturesBusy(u)
    PROVE  FuturesBusy(Futures!askMargin(u)) /\ FuturesEstimated(Futures!askMargin(u))
<1> DEFINE asked == IF u.panel /\ u.contract # "none" THEN {<<u.contract, u.lots>>} ELSE {}
           v == [u EXCEPT !.estimates = asked, !.estimated = FALSE]
<1>1. Futures!askMargin(u) = v
  BY DEF Futures!askMargin
<1>2. asked \in SUBSET Futures!Margins
  BY DEF FuturesBusy, Futures!State, Futures!Margins, Futures!Selectable
<1>3. v \in Futures!State
  <2> HIDE DEF asked
  <2> QED BY <1>2 DEF FuturesBusy, Futures!State
<1>4. /\ v.posts = u.posts /\ v.submitting = u.submitting /\ v.killing = u.killing
      /\ v.listing = u.listing /\ v.charting = u.charting /\ v.calls = u.calls
      /\ v.contract = u.contract /\ v.lots = u.lots /\ v.estimates = asked /\ v.estimated = FALSE
  <2> HIDE DEF asked
  <2> QED BY DEF FuturesBusy, Futures!State
<1>5. FuturesBusy(v)
  <2> HIDE DEF v
  <2> QED BY <1>3, <1>4 DEF FuturesBusy
<1>6. FuturesEstimated(v)
  <2> HIDE DEF v
  <2> QED BY <1>4 DEF FuturesEstimated
<1> QED
  BY <1>1, <1>5, <1>6

\* A call more is under way.
LEMMA FuturesSendMore ==
    ASSUME NEW u, u \in Futures!State, NEW op \in Futures!Ops, NEW x \in Underlyings
    PROVE  LET v == Futures!Send(u, op, x)
           IN  /\ v \in Futures!State /\ v.calls = u.calls \cup {<<op, x>>}
               /\ v.posts = u.posts /\ v.submitting = u.submitting /\ v.killing = u.killing
               /\ v.listing = u.listing /\ v.charting = u.charting
               /\ v.contract = u.contract /\ v.lots = u.lots /\ v.panel = u.panel
               /\ v.estimates = u.estimates /\ v.estimated = u.estimated /\ v.margin = u.margin
<1> DEFINE calls == u.calls \cup {<<op, x>>}
<1>1. calls \in SUBSET (Futures!Ops \X Underlyings)
  BY DEF Futures!State
<1>2. Futures!Send(u, op, x) = [u EXCEPT !.calls = calls]
  BY DEF Futures!Send
<1> HIDE DEF calls
<1>3. [u EXCEPT !.calls = calls] \in Futures!State
  BY <1>1 DEF Futures!State
<1> QED
  BY <1>2, <1>3 DEF Futures!State, calls

\* The history of the contract selected is fetched.
LEMMA FuturesFetchHistory ==
    ASSUME NEW u, FuturesBusy(u), u.contract \in Underlyings, NEW cached \in BOOLEAN
    PROVE  /\ FuturesBusy(Futures!fetchHistory(u, cached))
           /\ FuturesEstimated(u) => FuturesEstimated(Futures!fetchHistory(u, cached))
<1> DEFINE w == [u EXCEPT !.charting = ~cached]
           v == Futures!Send(w, "history", u.contract)
<1>1. /\ w \in Futures!State /\ w.calls = u.calls
      /\ w.posts = u.posts /\ w.submitting = u.submitting /\ w.killing = u.killing
      /\ w.listing = u.listing /\ w.charting = ~cached /\ w.contract = u.contract /\ w.lots = u.lots
      /\ w.estimates = u.estimates /\ w.estimated = u.estimated /\ w.margin = u.margin
  BY DEF FuturesBusy, Futures!State
<1>2. Futures!fetchHistory(u, cached) = v
  BY DEF Futures!fetchHistory
<1> HIDE DEF w
<1>3. "history" \in Futures!Ops
  BY DEF Futures!Ops
<1>4. /\ v \in Futures!State /\ v.calls = w.calls \cup {<<"history", u.contract>>}
      /\ v.posts = w.posts /\ v.submitting = w.submitting /\ v.killing = w.killing
      /\ v.listing = w.listing /\ v.contract = w.contract /\ v.lots = w.lots
      /\ v.estimates = w.estimates /\ v.estimated = w.estimated /\ v.margin = w.margin
  BY <1>1, <1>3, FuturesSendMore
<1> HIDE DEF v
<1>5. FuturesBusy(v)
  <2>1. <<"history", u.contract>> \in v.calls /\ <<"history", u.contract>>[1] = "history"
    BY <1>4
  <2>2. v.listing => \E c \in v.calls : c[1] \in {"first", "list"}
    BY <1>1, <1>4 DEF FuturesBusy
  <2> QED BY <1>1, <1>4, <2>1, <2>2 DEF FuturesBusy
<1>6. FuturesEstimated(u) => FuturesEstimated(v)
  BY <1>1, <1>4 DEF FuturesEstimated
<1> QED
  BY <1>2, <1>5, <1>6

LEMMA FuturesSelectContract ==
    ASSUME NEW u, FuturesBusy(u), FuturesEstimated(u), NEW x \in Underlyings, NEW cached \in BOOLEAN
    PROVE  FuturesBusy(Futures!selectContract(u, x, cached)) /\ FuturesEstimated(Futures!selectContract(u, x, cached))
<1> DEFINE w == [u EXCEPT !.contract = x]
<1>1. CASE u.contract = x
  BY <1>1 DEF Futures!selectContract
<1>2. CASE u.contract # x
  <2>1. /\ w \in Futures!State /\ w.calls = u.calls /\ w.contract = x
        /\ w.posts = u.posts /\ w.submitting = u.submitting /\ w.killing = u.killing
        /\ w.listing = u.listing /\ w.charting = u.charting
    BY DEF FuturesBusy, Futures!State, Futures!Selectable
  <2> HIDE DEF w
  <2>2. FuturesBusy(w)
    BY <2>1 DEF FuturesBusy
  <2>3. FuturesBusy(Futures!fetchHistory(w, cached))
    BY <2>1, <2>2, FuturesFetchHistory
  <2>4. Futures!selectContract(u, x, cached) = Futures!askMargin(Futures!fetchHistory(w, cached))
    BY <1>2 DEF Futures!selectContract, w
  <2> QED
    BY <2>3, <2>4, FuturesAskMargin
<1> QED
  BY <1>1, <1>2

\* The contracts of an underlying are asked for.
LEMMA FuturesListMore ==
    ASSUME NEW u, FuturesBusy(u), FuturesEstimated(u), NEW op \in {"first", "list"}, NEW x \in Underlyings,
           NEW w \in Futures!State, w.calls = u.calls, w.posts = u.posts, w.submitting = u.submitting,
           w.killing = u.killing, w.charting = u.charting, w.contract = u.contract, w.lots = u.lots,
           w.estimates = u.estimates, w.estimated = u.estimated, w.margin = u.margin
    PROVE  FuturesBusy(Futures!Send(w, op, x)) /\ FuturesEstimated(Futures!Send(w, op, x))
<1> DEFINE v == Futures!Send(w, op, x)
<1>1. op \in Futures!Ops
  BY DEF Futures!Ops
<1>2. /\ v \in Futures!State /\ v.calls = w.calls \cup {<<op, x>>}
      /\ v.posts = w.posts /\ v.submitting = w.submitting /\ v.killing = w.killing
      /\ v.charting = w.charting /\ v.contract = w.contract /\ v.lots = w.lots
      /\ v.estimates = w.estimates /\ v.estimated = w.estimated /\ v.margin = w.margin
  BY <1>1, FuturesSendMore
<1> HIDE DEF v
<1>3. FuturesEstimated(v)
  BY <1>2 DEF FuturesEstimated
<1>4. <<op, x>> \in v.calls /\ <<op, x>>[1] \in {"first", "list"}
  BY <1>2
<1>5. v.charting => \E c \in v.calls : c[1] = "history"
  BY <1>2 DEF FuturesBusy
<1>6. FuturesBusy(v)
  BY <1>2, <1>4, <1>5 DEF FuturesBusy
<1> QED
  BY <1>3, <1>6 DEF v

\* A list arrives, or does not.
LEMMA FuturesListEnds ==
    ASSUME NEW u, FuturesBusy(u), FuturesEstimated(u), NEW c \in u.calls, c[1] # "history"
    PROVE  LET v == [Futures!End(u, c) EXCEPT !.listing = FALSE]
               w == [v EXCEPT !.listed = @ \cup {c[2]}]
           IN  FuturesBusy(v) /\ FuturesEstimated(v) /\ FuturesBusy(w) /\ FuturesEstimated(w)
<1> DEFINE v == [Futures!End(u, c) EXCEPT !.listing = FALSE]
           more == v.listed \cup {c[2]}
           w == [v EXCEPT !.listed = more]
<1>1. c[2] \in Underlyings
  BY DEF FuturesBusy, Futures!State
<1>2. /\ v \in Futures!State /\ v.calls = u.calls \ {c} /\ v.listing = FALSE
      /\ v.posts = u.posts /\ v.submitting = u.submitting /\ v.killing = u.killing
      /\ v.charting = u.charting /\ v.contract = u.contract /\ v.lots = u.lots
      /\ v.estimates = u.estimates /\ v.estimated = u.estimated /\ v.margin = u.margin
  BY DEF FuturesBusy, Futures!State, Futures!End
<1> HIDE DEF v
<1>3. more \in SUBSET Underlyings
  BY <1>1, <1>2 DEF Futures!State
<1> HIDE DEF more
<1>4. /\ w \in Futures!State /\ w.calls = v.calls /\ w.listing = FALSE
      /\ w.posts = v.posts /\ w.submitting = v.submitting /\ w.killing = v.killing
      /\ w.charting = v.charting /\ w.contract = v.contract /\ w.lots = v.lots
      /\ w.estimates = v.estimates /\ w.estimated = v.estimated /\ w.margin = v.margin
  BY <1>2, <1>3 DEF Futures!State
<1> HIDE DEF w
<1>5. v.charting => \E d \in v.calls : d[1] = "history"
  BY <1>2 DEF FuturesBusy
<1>6. FuturesBusy(v) /\ FuturesEstimated(v)
  BY <1>2, <1>5 DEF FuturesBusy, FuturesEstimated
<1>7. FuturesBusy(w) /\ FuturesEstimated(w)
  BY <1>4, <1>6 DEF FuturesBusy, FuturesEstimated
<1> QED
  BY <1>6, <1>7 DEF v, w, more

\* A post begins, or ends.
LEMMA FuturesPostsState ==
    ASSUME NEW u \in Futures!State, NEW p \in Futures!Posts
    PROVE  Futures!Posted(u, p) \in Futures!State /\ (u.posts[p] > 0 => Futures!Done(u, p) \in Futures!State)
<1> DEFINE more == [u.posts EXCEPT ![p] = @ + 1]
           less == [u.posts EXCEPT ![p] = @ - 1]
<1>1. u.posts \in [Futures!Posts -> Nat]
  BY DEF Futures!State
<1>2. more \in [Futures!Posts -> Nat] /\ (u.posts[p] > 0 => less \in [Futures!Posts -> Nat])
  BY <1>1
<1>3. Futures!Posted(u, p) = [u EXCEPT !.posts = more] /\ Futures!Done(u, p) = [u EXCEPT !.posts = less]
  BY DEF Futures!Posted, Futures!Done
<1> HIDE DEF more, less
<1>4. [u EXCEPT !.posts = more] \in Futures!State
  BY <1>2 DEF Futures!State
<1>5. u.posts[p] > 0 => [u EXCEPT !.posts = less] \in Futures!State
  BY <1>2 DEF Futures!State
<1> QED
  BY <1>3, <1>4, <1>5

\* A step that leaves the calls and the estimates alone.
LEMMA FuturesButtonsStep ==
    ASSUME FuturesInv(ui), ui' \in Futures!State, ui.calls = ui'.calls, ui'.listing = ui.listing,
           ui'.charting = ui.charting, ui'.contract = ui.contract, ui'.lots = ui.lots,
           ui'.estimates = ui.estimates, ui'.estimated = ui.estimated, ui'.margin = ui.margin,
           ui'.posts["place"] + ui'.posts["placed"] = IF ui'.submitting THEN 1 ELSE 0,
           ui'.posts["kill"] + ui'.posts["killed"] = IF ui'.killing THEN 1 ELSE 0
    PROVE  FuturesInv(ui')
BY DEF FuturesInv, FuturesBusy, FuturesEstimated

LEMMA FuturesNext == ASSUME FuturesInv(ui), Futures!Next PROVE FuturesInv(ui')
<1>0. FuturesBusy(ui) /\ FuturesEstimated(ui) /\ ui \in Futures!State
  BY DEF FuturesInv, FuturesBusy
<1>t. ui.posts \in [Futures!Posts -> Nat]
  BY <1>0 DEF Futures!State
<1>p. /\ \A p \in {"place", "placed", "kill", "killed"} : ui.posts[p] \in Nat
      /\ ui.posts["place"] + ui.posts["placed"] = IF ui.submitting THEN 1 ELSE 0
      /\ ui.posts["kill"] + ui.posts["killed"] = IF ui.killing THEN 1 ELSE 0
  BY <1>0, <1>t DEF FuturesBusy, Futures!Posts
<1>1. ASSUME NEW x \in Underlyings, Futures!handleSelectUnderlying(x) PROVE FuturesInv(ui')
  <2> DEFINE w == [ui EXCEPT !.underlying = x, !.listing = TRUE]
  <2>1. ui' = Futures!Send(w, "first", x)
    BY <1>1 DEF Futures!handleSelectUnderlying
  <2>2. /\ w \in Futures!State /\ w.calls = ui.calls /\ w.posts = ui.posts /\ w.submitting = ui.submitting
        /\ w.killing = ui.killing /\ w.charting = ui.charting /\ w.contract = ui.contract
        /\ w.lots = ui.lots /\ w.estimates = ui.estimates /\ w.estimated = ui.estimated
        /\ w.margin = ui.margin
    BY <1>0 DEF Futures!State
  <2> HIDE DEF w
  <2>3. FuturesBusy(Futures!Send(w, "first", x)) /\ FuturesEstimated(Futures!Send(w, "first", x))
    BY <1>0, <2>2, FuturesListMore
  <2> QED BY <2>1, <2>3 DEF FuturesInv
<1>2. ASSUME NEW x \in Underlyings, Futures!handleSelectContract(x) PROVE FuturesInv(ui')
  <2>1. PICK cached \in BOOLEAN :
          LET u == [Futures!selectContract(ui, x, cached) EXCEPT !.underlying = x]
          IN  ui' = IF x \in ui.listed THEN u ELSE Futures!Send([u EXCEPT !.listing = TRUE], "list", x)
    BY <1>2 DEF Futures!handleSelectContract
  <2> DEFINE s == Futures!selectContract(ui, x, cached)
             u == [s EXCEPT !.underlying = x]
             w == [u EXCEPT !.listing = TRUE]
  <2>2. FuturesBusy(s) /\ FuturesEstimated(s)
    BY <1>0, FuturesSelectContract
  <2> HIDE DEF s
  <2>3. /\ u \in Futures!State /\ u.calls = s.calls /\ u.posts = s.posts /\ u.submitting = s.submitting
        /\ u.killing = s.killing /\ u.listing = s.listing /\ u.charting = s.charting
        /\ u.contract = s.contract /\ u.lots = s.lots /\ u.estimates = s.estimates
        /\ u.estimated = s.estimated /\ u.margin = s.margin
    BY <2>2 DEF FuturesBusy, Futures!State
  <2> HIDE DEF u
  <2>4. FuturesBusy(u) /\ FuturesEstimated(u)
    BY <2>2, <2>3 DEF FuturesBusy, FuturesEstimated
  <2>5. /\ w \in Futures!State /\ w.calls = u.calls /\ w.posts = u.posts /\ w.submitting = u.submitting
        /\ w.killing = u.killing /\ w.charting = u.charting /\ w.contract = u.contract
        /\ w.lots = u.lots /\ w.estimates = u.estimates /\ w.estimated = u.estimated
        /\ w.margin = u.margin
    BY <2>3 DEF Futures!State
  <2> HIDE DEF w
  <2>6. FuturesBusy(Futures!Send(w, "list", x)) /\ FuturesEstimated(Futures!Send(w, "list", x))
    BY <2>4, <2>5, FuturesListMore
  <2>7. ui' = u \/ ui' = Futures!Send(w, "list", x)
    BY <2>1 DEF s, u, w
  <2> QED BY <2>4, <2>6, <2>7 DEF FuturesInv
<1>3. ASSUME NEW n \in Futures!Lots, Futures!setLots(n) PROVE FuturesInv(ui')
  <2> DEFINE w == [ui EXCEPT !.lots = n]
  <2>1. /\ w \in Futures!State /\ w.calls = ui.calls /\ w.posts = ui.posts /\ w.submitting = ui.submitting
        /\ w.killing = ui.killing /\ w.listing = ui.listing /\ w.charting = ui.charting
    BY <1>0 DEF Futures!State
  <2>2. ui' = Futures!askMargin(w)
    BY <1>3 DEF Futures!setLots
  <2> HIDE DEF w
  <2>3. FuturesBusy(w)
    BY <1>0, <2>1 DEF FuturesBusy
  <2> QED BY <2>2, <2>3, FuturesAskMargin DEF FuturesInv
<1>4. CASE Futures!handleIntervalChange
  <2>1. PICK cached \in BOOLEAN : ui' = Futures!fetchHistory(ui, cached)
    BY <1>4 DEF Futures!handleIntervalChange
  <2>2. ui.contract \in Underlyings
    BY <1>0, <1>4 DEF Futures!handleIntervalChange, Futures!State, Futures!Selectable
  <2> QED BY <1>0, <2>1, <2>2, FuturesFetchHistory DEF FuturesInv
<1>5. CASE Futures!openOrderPanel
  <2> DEFINE w == [ui EXCEPT !.panel = TRUE, !.lots = 1, !.submitting = FALSE,
                             !.margin = Futures!NoMargin, !.posts["place"] = 0, !.posts["placed"] = 0]
  <2>1. /\ w \in Futures!State /\ w.calls = ui.calls /\ w.submitting = FALSE
        /\ w.killing = ui.killing /\ w.listing = ui.listing /\ w.charting = ui.charting
        /\ w.posts["place"] = 0 /\ w.posts["placed"] = 0
        /\ w.posts["kill"] = ui.posts["kill"] /\ w.posts["killed"] = ui.posts["killed"]
    BY <1>0, <1>t DEF Futures!State, Futures!Posts, Futures!Lots, Futures!Margins
  <2>2. ui' = Futures!askMargin(w)
    BY <1>5 DEF Futures!openOrderPanel
  <2> HIDE DEF w
  <2>3. FuturesBusy(w)
    BY <1>0, <2>1 DEF FuturesBusy
  <2> QED BY <2>2, <2>3, FuturesAskMargin DEF FuturesInv
<1>6. CASE Futures!closeOrderPanel
  <2> DEFINE w == [ui EXCEPT !.panel = FALSE]
  <2>1. /\ w \in Futures!State /\ w.calls = ui.calls /\ w.posts = ui.posts /\ w.submitting = ui.submitting
        /\ w.killing = ui.killing /\ w.listing = ui.listing /\ w.charting = ui.charting
    BY <1>0 DEF Futures!State
  <2>2. ui' = Futures!askMargin(w)
    BY <1>6 DEF Futures!closeOrderPanel
  <2> HIDE DEF w
  <2>3. FuturesBusy(w)
    BY <1>0, <2>1 DEF FuturesBusy
  <2> QED BY <2>2, <2>3, FuturesAskMargin DEF FuturesInv
<1>7. CASE Futures!PriceChanges
  BY <1>0, <1>7, FuturesAskMargin DEF Futures!PriceChanges, FuturesInv
<1>8. CASE Futures!placeOrder
  <2>1. ~ui.submitting /\ ui' = Futures!Posted([ui EXCEPT !.submitting = TRUE], "place")
    BY <1>8 DEF Futures!placeOrder
  <2>w. [ui EXCEPT !.submitting = TRUE] \in Futures!State /\ "place" \in Futures!Posts
    BY <1>0 DEF Futures!State, Futures!Posts
  <2>s. ui' \in Futures!State
    BY <2>1, <2>w, FuturesPostsState
  <2>f. ui'.submitting = TRUE /\ ui'.killing = ui.killing
    BY <1>0, <2>1 DEF Futures!Posted, Futures!State
  <2>2. ui'.submitting = TRUE /\ ui'.killing = ui.killing /\ ui' \in Futures!State
    BY <2>s, <2>f
  <2>3. ui'.posts = [ui.posts EXCEPT !["place"] = @ + 1]
    BY <1>0, <1>t, <2>1 DEF Futures!Posted, Futures!State, Futures!Posts
  <2>v. /\ ui'.posts["place"] = ui.posts["place"] + 1 /\ ui'.posts["placed"] = ui.posts["placed"]
        /\ ui'.posts["kill"] = ui.posts["kill"] /\ ui'.posts["killed"] = ui.posts["killed"]
    BY <1>t, <2>3 DEF Futures!Posts
  <2>4. /\ ui'.calls = ui.calls /\ ui'.listing = ui.listing /\ ui'.charting = ui.charting
        /\ ui'.contract = ui.contract /\ ui'.lots = ui.lots /\ ui'.estimates = ui.estimates
        /\ ui'.estimated = ui.estimated /\ ui'.margin = ui.margin
    BY <1>0, <2>1 DEF Futures!Posted, Futures!State
  <2>5. /\ ui'.posts["place"] + ui'.posts["placed"] = IF ui'.submitting THEN 1 ELSE 0
        /\ ui'.posts["kill"] + ui'.posts["killed"] = IF ui'.killing THEN 1 ELSE 0
    BY <1>p, <2>1, <2>2, <2>v
  <2> QED BY <2>2, <2>4, <2>5, FuturesButtonsStep
<1>9. CASE Futures!handleKillSwitch
  <2>1. ~ui.killing /\ ui' = Futures!Posted([ui EXCEPT !.killing = TRUE], "kill")
    BY <1>9 DEF Futures!handleKillSwitch
  <2>w. [ui EXCEPT !.killing = TRUE] \in Futures!State /\ "kill" \in Futures!Posts
    BY <1>0 DEF Futures!State, Futures!Posts
  <2>s. ui' \in Futures!State
    BY <2>1, <2>w, FuturesPostsState
  <2>f. ui'.killing = TRUE /\ ui'.submitting = ui.submitting
    BY <1>0, <2>1 DEF Futures!Posted, Futures!State
  <2>2. ui'.killing = TRUE /\ ui'.submitting = ui.submitting /\ ui' \in Futures!State
    BY <2>s, <2>f
  <2>3. ui'.posts = [ui.posts EXCEPT !["kill"] = @ + 1]
    BY <1>0, <1>t, <2>1 DEF Futures!Posted, Futures!State, Futures!Posts
  <2>v. /\ ui'.posts["place"] = ui.posts["place"] /\ ui'.posts["placed"] = ui.posts["placed"]
        /\ ui'.posts["kill"] = ui.posts["kill"] + 1 /\ ui'.posts["killed"] = ui.posts["killed"]
    BY <1>t, <2>3 DEF Futures!Posts
  <2>4. /\ ui'.calls = ui.calls /\ ui'.listing = ui.listing /\ ui'.charting = ui.charting
        /\ ui'.contract = ui.contract /\ ui'.lots = ui.lots /\ ui'.estimates = ui.estimates
        /\ ui'.estimated = ui.estimated /\ ui'.margin = ui.margin
    BY <1>0, <2>1 DEF Futures!Posted, Futures!State
  <2>5. /\ ui'.posts["place"] + ui'.posts["placed"] = IF ui'.submitting THEN 1 ELSE 0
        /\ ui'.posts["kill"] + ui'.posts["killed"] = IF ui'.killing THEN 1 ELSE 0
    BY <1>p, <2>1, <2>2, <2>v
  <2> QED BY <2>2, <2>4, <2>5, FuturesButtonsStep
<1>10. ASSUME NEW c \in ui.calls, Futures!UnderlyingAnswers(c) PROVE FuturesInv(ui')
  <2> DEFINE v == [Futures!End(ui, c) EXCEPT !.listing = FALSE]
             w == [v EXCEPT !.listed = @ \cup {c[2]}]
  <2>1. c[1] # "history" /\ c[2] \in Underlyings
    BY <1>0, <1>10 DEF Futures!UnderlyingAnswers, Futures!Under, Futures!State
  <2>2. FuturesBusy(v) /\ FuturesEstimated(v) /\ FuturesBusy(w) /\ FuturesEstimated(w)
    BY <1>0, <2>1, FuturesListEnds
  <2>3. ui' = v \/ \E cached \in BOOLEAN : ui' = Futures!selectContract(w, c[2], cached)
    BY <1>10 DEF Futures!UnderlyingAnswers
  <2> HIDE DEF v, w
  <2> QED BY <2>1, <2>2, <2>3, FuturesSelectContract DEF FuturesInv
<1>11. ASSUME NEW c \in ui.calls, Futures!ListAnswers(c) PROVE FuturesInv(ui')
  <2> DEFINE v == [Futures!End(ui, c) EXCEPT !.listing = FALSE]
             w == [v EXCEPT !.listed = @ \cup {c[2]}]
  <2>1. c[1] # "history"
    BY <1>0, <1>11 DEF Futures!ListAnswers, Futures!Under
  <2>2. FuturesBusy(v) /\ FuturesEstimated(v) /\ FuturesBusy(w) /\ FuturesEstimated(w)
    BY <1>0, <2>1, FuturesListEnds
  <2>3. ui' = v \/ ui' = w
    BY <1>11 DEF Futures!ListAnswers
  <2> HIDE DEF v, w
  <2> QED BY <2>2, <2>3 DEF FuturesInv
<1>12. ASSUME NEW c \in ui.calls, Futures!HistoryAnswers(c) PROVE FuturesInv(ui')
  <2>1. c[1] = "history" /\ ui' = [Futures!End(ui, c) EXCEPT !.charting = FALSE]
    BY <1>12 DEF Futures!HistoryAnswers, Futures!Under
  <2>2. /\ ui' \in Futures!State /\ ui'.calls = ui.calls \ {c} /\ ui'.charting = FALSE
        /\ ui'.posts = ui.posts /\ ui'.submitting = ui.submitting /\ ui'.killing = ui.killing
        /\ ui'.listing = ui.listing /\ ui'.contract = ui.contract /\ ui'.lots = ui.lots
        /\ ui'.estimates = ui.estimates /\ ui'.estimated = ui.estimated /\ ui'.margin = ui.margin
    BY <1>0, <2>1 DEF Futures!End, Futures!State
  <2>3. ui'.listing => \E d \in ui'.calls : d[1] \in {"first", "list"}
    BY <1>0, <2>1, <2>2 DEF FuturesBusy
  <2> QED BY <1>0, <2>2, <2>3 DEF FuturesInv, FuturesBusy, FuturesEstimated
<1>13. ASSUME NEW k \in ui.estimates, Futures!MarginAnswers(k) PROVE FuturesInv(ui')
  <2> DEFINE u == [ui EXCEPT !.estimates = @ \ {k}]
             w == [u EXCEPT !.margin = k, !.estimated = TRUE]
  <2>1. ui' = u \/ ui' = w
    BY <1>13 DEF Futures!MarginAnswers
  <2>2. k \in Futures!Margins /\ k = <<ui.contract, ui.lots>>
    BY <1>0, <1>13 DEF Futures!State, FuturesEstimated
  <2>3. /\ u \in Futures!State /\ u.estimates = ui.estimates \ {k} /\ u.calls = ui.calls
        /\ u.posts = ui.posts /\ u.submitting = ui.submitting /\ u.killing = ui.killing
        /\ u.listing = ui.listing /\ u.charting = ui.charting /\ u.contract = ui.contract
        /\ u.lots = ui.lots /\ u.estimated = ui.estimated /\ u.margin = ui.margin
    BY <1>0 DEF Futures!State
  <2> HIDE DEF u
  <2>4. /\ w \in Futures!State /\ w.estimates = u.estimates /\ w.calls = u.calls
        /\ w.posts = u.posts /\ w.submitting = u.submitting /\ w.killing = u.killing
        /\ w.listing = u.listing /\ w.charting = u.charting /\ w.contract = u.contract
        /\ w.lots = u.lots /\ w.margin = k
    BY <2>2, <2>3 DEF Futures!State
  <2> HIDE DEF w
  <2>5. FuturesBusy(u) /\ FuturesEstimated(u)
    BY <1>0, <2>3 DEF FuturesBusy, FuturesEstimated
  <2>6. FuturesBusy(w) /\ FuturesEstimated(w)
    BY <2>2, <2>3, <2>4, <2>5 DEF FuturesBusy, FuturesEstimated
  <2> QED BY <2>1, <2>5, <2>6 DEF FuturesInv
<1>14. CASE Futures!PlaceAnswers
  <2> DEFINE u == Futures!Done(ui, "place")
  <2>1. ui.posts["place"] > 0 /\ (ui' = [u EXCEPT !.submitting = FALSE] \/ ui' = Futures!Posted(u, "placed"))
    BY <1>14 DEF Futures!PlaceAnswers
  <2>u. /\ u \in Futures!State /\ u.posts = [ui.posts EXCEPT !["place"] = @ - 1]
        /\ u.submitting = ui.submitting /\ u.killing = ui.killing
        /\ u.calls = ui.calls /\ u.listing = ui.listing /\ u.charting = ui.charting
        /\ u.contract = ui.contract /\ u.lots = ui.lots /\ u.estimates = ui.estimates
        /\ u.estimated = ui.estimated /\ u.margin = ui.margin
    BY <1>0, <1>t, <2>1 DEF Futures!Done, Futures!State, Futures!Posts
  <2> HIDE DEF u
  <2>f. [u EXCEPT !.submitting = FALSE] \in Futures!State /\ "placed" \in Futures!Posts
    BY <2>u DEF Futures!State, Futures!Posts
  <2>s. ui' \in Futures!State
    BY <2>1, <2>u, <2>f, FuturesPostsState
  <2>k. ui'.killing = ui.killing
    BY <2>1, <2>u DEF Futures!Posted, Futures!State
  <2>2. ui'.killing = ui.killing /\ ui' \in Futures!State
    BY <2>s, <2>k
  <2>3. \/ ui'.submitting = FALSE /\ ui'.posts = u.posts
        \/ ui'.submitting = ui.submitting /\ ui'.posts = [u.posts EXCEPT !["placed"] = @ + 1]
    BY <2>1, <2>u DEF Futures!Posted, Futures!State, Futures!Posts
  <2>4. /\ ui'.calls = ui.calls /\ ui'.listing = ui.listing /\ ui'.charting = ui.charting
        /\ ui'.contract = ui.contract /\ ui'.lots = ui.lots /\ ui'.estimates = ui.estimates
        /\ ui'.estimated = ui.estimated /\ ui'.margin = ui.margin
    BY <2>1, <2>u DEF Futures!Posted, Futures!State
  <2>v. /\ u.posts["place"] = ui.posts["place"] - 1 /\ u.posts["placed"] = ui.posts["placed"]
        /\ u.posts["kill"] = ui.posts["kill"] /\ u.posts["killed"] = ui.posts["killed"]
        /\ u.posts \in [Futures!Posts -> Int]
    BY <1>t, <2>u DEF Futures!Posts
  <2>w. \/ /\ ui'.submitting = FALSE /\ ui'.posts["place"] = u.posts["place"] /\ ui'.posts["placed"] = u.posts["placed"]
           /\ ui'.posts["kill"] = u.posts["kill"] /\ ui'.posts["killed"] = u.posts["killed"]
        \/ /\ ui'.submitting = ui.submitting /\ ui'.posts["place"] = u.posts["place"] /\ ui'.posts["placed"] = u.posts["placed"] + 1
           /\ ui'.posts["kill"] = u.posts["kill"] /\ ui'.posts["killed"] = u.posts["killed"]
    BY <2>3, <2>v DEF Futures!Posts
  <2>5. /\ ui'.posts["place"] + ui'.posts["placed"] = IF ui'.submitting THEN 1 ELSE 0
        /\ ui'.posts["kill"] + ui'.posts["killed"] = IF ui'.killing THEN 1 ELSE 0
    BY <1>p, <2>1, <2>2, <2>v, <2>w
  <2> QED BY <2>2, <2>4, <2>5, FuturesButtonsStep
<1>15. CASE Futures!AfterPlace
  <2>1. PICK held \in BOOLEAN :
          ui.posts["placed"] > 0 /\ ui' = [Futures!Done(ui, "placed") EXCEPT !.submitting = FALSE, !.held = held]
    BY <1>15 DEF Futures!AfterPlace
  <2> DEFINE u == Futures!Done(ui, "placed")
  <2>u. u \in Futures!State
    BY <1>0, <2>1, FuturesPostsState DEF Futures!Posts
  <2> HIDE DEF u
  <2>s. ui' \in Futures!State
    BY <2>1, <2>u DEF Futures!State, u
  <2>f. ui'.submitting = FALSE /\ ui'.killing = ui.killing
    BY <1>0, <2>1 DEF Futures!Done, Futures!State
  <2>2. ui'.submitting = FALSE /\ ui'.killing = ui.killing /\ ui' \in Futures!State
    BY <2>s, <2>f
  <2>3. ui'.posts = [ui.posts EXCEPT !["placed"] = @ - 1]
    BY <1>0, <1>t, <2>1 DEF Futures!Done, Futures!State, Futures!Posts
  <2>v. /\ ui'.posts["place"] = ui.posts["place"] /\ ui'.posts["placed"] = ui.posts["placed"] - 1
        /\ ui'.posts["kill"] = ui.posts["kill"] /\ ui'.posts["killed"] = ui.posts["killed"]
    BY <1>t, <2>3 DEF Futures!Posts
  <2>4. /\ ui'.calls = ui.calls /\ ui'.listing = ui.listing /\ ui'.charting = ui.charting
        /\ ui'.contract = ui.contract /\ ui'.lots = ui.lots /\ ui'.estimates = ui.estimates
        /\ ui'.estimated = ui.estimated /\ ui'.margin = ui.margin
    BY <1>0, <2>1 DEF Futures!Done, Futures!State
  <2>5. /\ ui'.posts["place"] + ui'.posts["placed"] = IF ui'.submitting THEN 1 ELSE 0
        /\ ui'.posts["kill"] + ui'.posts["killed"] = IF ui'.killing THEN 1 ELSE 0
    BY <1>p, <2>1, <2>2, <2>v
  <2> QED BY <2>2, <2>4, <2>5, FuturesButtonsStep
<1>16. CASE Futures!KillAnswers
  <2> DEFINE u == Futures!Done(ui, "kill")
  <2>1. ui.posts["kill"] > 0 /\ (ui' = [u EXCEPT !.killing = FALSE] \/ ui' = Futures!Posted(u, "killed"))
    BY <1>16 DEF Futures!KillAnswers
  <2>u. /\ u \in Futures!State /\ u.posts = [ui.posts EXCEPT !["kill"] = @ - 1]
        /\ u.submitting = ui.submitting /\ u.killing = ui.killing
        /\ u.calls = ui.calls /\ u.listing = ui.listing /\ u.charting = ui.charting
        /\ u.contract = ui.contract /\ u.lots = ui.lots /\ u.estimates = ui.estimates
        /\ u.estimated = ui.estimated /\ u.margin = ui.margin
    BY <1>0, <1>t, <2>1 DEF Futures!Done, Futures!State, Futures!Posts
  <2> HIDE DEF u
  <2>f. [u EXCEPT !.killing = FALSE] \in Futures!State /\ "killed" \in Futures!Posts
    BY <2>u DEF Futures!State, Futures!Posts
  <2>s. ui' \in Futures!State
    BY <2>1, <2>u, <2>f, FuturesPostsState
  <2>k. ui'.submitting = ui.submitting
    BY <2>1, <2>u DEF Futures!Posted, Futures!State
  <2>2. ui'.submitting = ui.submitting /\ ui' \in Futures!State
    BY <2>s, <2>k
  <2>3. \/ ui'.killing = FALSE /\ ui'.posts = u.posts
        \/ ui'.killing = ui.killing /\ ui'.posts = [u.posts EXCEPT !["killed"] = @ + 1]
    BY <2>1, <2>u DEF Futures!Posted, Futures!State, Futures!Posts
  <2>4. /\ ui'.calls = ui.calls /\ ui'.listing = ui.listing /\ ui'.charting = ui.charting
        /\ ui'.contract = ui.contract /\ ui'.lots = ui.lots /\ ui'.estimates = ui.estimates
        /\ ui'.estimated = ui.estimated /\ ui'.margin = ui.margin
    BY <2>1, <2>u DEF Futures!Posted, Futures!State
  <2>v. /\ u.posts["kill"] = ui.posts["kill"] - 1 /\ u.posts["killed"] = ui.posts["killed"]
        /\ u.posts["place"] = ui.posts["place"] /\ u.posts["placed"] = ui.posts["placed"]
        /\ u.posts \in [Futures!Posts -> Int]
    BY <1>t, <2>u DEF Futures!Posts
  <2>w. \/ /\ ui'.killing = FALSE /\ ui'.posts["kill"] = u.posts["kill"] /\ ui'.posts["killed"] = u.posts["killed"]
           /\ ui'.posts["place"] = u.posts["place"] /\ ui'.posts["placed"] = u.posts["placed"]
        \/ /\ ui'.killing = ui.killing /\ ui'.posts["kill"] = u.posts["kill"] /\ ui'.posts["killed"] = u.posts["killed"] + 1
           /\ ui'.posts["place"] = u.posts["place"] /\ ui'.posts["placed"] = u.posts["placed"]
    BY <2>3, <2>v DEF Futures!Posts
  <2>5. /\ ui'.posts["place"] + ui'.posts["placed"] = IF ui'.submitting THEN 1 ELSE 0
        /\ ui'.posts["kill"] + ui'.posts["killed"] = IF ui'.killing THEN 1 ELSE 0
    BY <1>p, <2>1, <2>2, <2>v, <2>w
  <2> QED BY <2>2, <2>4, <2>5, FuturesButtonsStep
<1>17. CASE Futures!AfterKill
  <2>1. PICK held \in BOOLEAN :
          ui.posts["killed"] > 0 /\ ui' = [Futures!Done(ui, "killed") EXCEPT !.killing = FALSE, !.held = held]
    BY <1>17 DEF Futures!AfterKill
  <2> DEFINE u == Futures!Done(ui, "killed")
  <2>u. u \in Futures!State
    BY <1>0, <2>1, FuturesPostsState DEF Futures!Posts
  <2> HIDE DEF u
  <2>s. ui' \in Futures!State
    BY <2>1, <2>u DEF Futures!State, u
  <2>f. ui'.killing = FALSE /\ ui'.submitting = ui.submitting
    BY <1>0, <2>1 DEF Futures!Done, Futures!State
  <2>2. ui'.killing = FALSE /\ ui'.submitting = ui.submitting /\ ui' \in Futures!State
    BY <2>s, <2>f
  <2>3. ui'.posts = [ui.posts EXCEPT !["killed"] = @ - 1]
    BY <1>0, <1>t, <2>1 DEF Futures!Done, Futures!State, Futures!Posts
  <2>v. /\ ui'.posts["place"] = ui.posts["place"] /\ ui'.posts["placed"] = ui.posts["placed"]
        /\ ui'.posts["kill"] = ui.posts["kill"] /\ ui'.posts["killed"] = ui.posts["killed"] - 1
    BY <1>t, <2>3 DEF Futures!Posts
  <2>4. /\ ui'.calls = ui.calls /\ ui'.listing = ui.listing /\ ui'.charting = ui.charting
        /\ ui'.contract = ui.contract /\ ui'.lots = ui.lots /\ ui'.estimates = ui.estimates
        /\ ui'.estimated = ui.estimated /\ ui'.margin = ui.margin
    BY <1>0, <2>1 DEF Futures!Done, Futures!State
  <2>5. /\ ui'.posts["place"] + ui'.posts["placed"] = IF ui'.submitting THEN 1 ELSE 0
        /\ ui'.posts["kill"] + ui'.posts["killed"] = IF ui'.killing THEN 1 ELSE 0
    BY <1>p, <2>1, <2>2, <2>v
  <2> QED BY <2>2, <2>4, <2>5, FuturesButtonsStep
<1> QED
  BY <1>1, <1>2, <1>3, <1>4, <1>5, <1>6, <1>7, <1>8, <1>9, <1>10, <1>11, <1>12,
     <1>13, <1>14, <1>15, <1>16, <1>17 DEF Futures!Next, Futures!Answers

LEMMA FuturesSubmits ==
    ASSUME FuturesInv(ui)
    PROVE  Futures!NothingLocked /\ Futures!OneSubmission /\ Futures!ShownIsTrue
<1>1. ui.posts \in [Futures!Posts -> Nat]
  BY DEF FuturesInv, FuturesBusy, Futures!State
<1>2. Futures!NothingLocked
  BY <1>1 DEF FuturesInv, FuturesBusy, Futures!Posts, Futures!NothingLocked, Futures!Under
<1>3. Futures!OneSubmission
  BY <1>1 DEF FuturesInv, FuturesBusy, Futures!Posts, Futures!OneSubmission
<1> QED BY <1>2, <1>3 DEF FuturesInv, FuturesEstimated, Futures!ShownIsTrue

--------------------------------------------------------------------------------
(* The algorithmic strategies: the submissions of an open dialog *)

Own(c) == c.op \in {"update", "create"} /\ c.mine = TRUE
AlgoInv(u) ==
    /\ Page(u) /\ {"busy", "dialog"} \subseteq DOMAIN u
    /\ \A i \in DOMAIN u.calls : Own(u.calls[i]) =>
         /\ u.busy = TRUE /\ u.dialog # "none"
         /\ \A j \in DOMAIN u.calls : Own(u.calls[j]) => i = j
AlgoRests(u, v) ==
    /\ {"busy", "dialog"} \subseteq DOMAIN v
    /\ u.busy = TRUE => v.busy = TRUE
    /\ v.dialog = u.dialog

LEMMA AlgoAside ==
    ASSUME NEW u, AlgoInv(u), NEW v, NEW k, NEW c, Called(u, v, k, c), ~Own(c), AlgoRests(u, v)
    PROVE  AlgoInv(v)
<1>1. Page(v) /\ DOMAIN v.calls = DOMAIN u.calls
  BY CalledPage DEF AlgoInv
<1>2. \A j \in DOMAIN v.calls : Own(v.calls[j]) => Own(u.calls[j])
  BY <1>1 DEF Called, Put
<1> QED BY <1>1, <1>2 DEF AlgoInv, AlgoRests

LEMMA AlgoKept == ASSUME NEW u, AlgoInv(u), NEW v, Kept(u, v), AlgoRests(u, v) PROVE AlgoInv(v)
<1>1. \A j \in DOMAIN v.calls : Own(v.calls[j]) => Own(u.calls[j])
  BY DEF Kept, Own
<1> QED BY <1>1 DEF AlgoInv, AlgoRests, Kept

LEMMA AlgoNone ==
    ASSUME NEW u, Page(u), {"busy", "dialog"} \subseteq DOMAIN u, \A i \in DOMAIN u.calls : ~Own(u.calls[i])
    PROVE  AlgoInv(u)
BY DEF AlgoInv

LEMMA AlgoCalls ==
    ASSUME NEW op, NEW s
    PROVE  /\ Fields \subseteq DOMAIN Algo!call(op, s) /\ ~Own(Algo!call(op, s))
           /\ Algo!call(op, s).op = op
BY DEF Fields, Own, Algo!call

LEMMA AlgoSets ==
    ASSUME NEW u, AlgoInv(u)
    PROVE  /\ \A x : AlgoInv([u EXCEPT !.raced = x])
           /\ \A x : AlgoInv([u EXCEPT !.range = x])
           /\ \A x : AlgoInv([u EXCEPT !.shown = x])
           /\ \A x : AlgoInv([u EXCEPT !.chart = x])
           /\ \A x : AlgoInv([u EXCEPT !.logs = x])
           /\ \A x, y, z, r : AlgoInv([u EXCEPT !.loading = x, !.shown = y, !.chart = z, !.raced = r])
BY DEF AlgoInv, Page

LEMMA AlgoSend ==
    ASSUME NEW u, AlgoInv(u), NEW c, Fields \subseteq DOMAIN c, ~Own(c)
    PROVE  AlgoInv(Algo!Send(u, c))
<1>1. Called(u, Algo!Send(u, c), Algo!Slot(u), c) /\ AlgoRests(u, Algo!Send(u, c))
  BY DEF AlgoInv, AlgoRests, Page, Called, Put, Algo!Send
<1> QED BY <1>1, AlgoAside

LEMMA AlgoAsk ==
    ASSUME NEW u, AlgoInv(u), NEW op, NEW s
    PROVE  AlgoInv(Algo!Send(u, Algo!call(op, s)))
BY AlgoSend, AlgoCalls

LEMMA AlgoEnd == ASSUME NEW u, AlgoInv(u), NEW i PROVE AlgoInv(Algo!End(u, i))
<1>1. /\ Called(u, Algo!End(u, i), i, Algo!Idle) /\ AlgoRests(u, Algo!End(u, i)) /\ ~Own(Algo!Idle)
  BY DEF AlgoInv, AlgoRests, Page, Called, Put, Fields, Own, Algo!End, Algo!Idle
<1> QED BY <1>1, AlgoAside

LEMMA AlgoLoads == ASSUME NEW u, AlgoInv(u), NEW i PROVE AlgoInv(Algo!loadData(u, i))
<1> DEFINE c == [Algo!call("load", u.range) EXCEPT !.mine = u.calls[i].mine]
           v == Algo!loadData(u, i)
<1>1. c.op = "load" /\ Fields \subseteq DOMAIN c
  BY DEF Fields, Algo!call
<1>2. \E x : v = [[u EXCEPT !.calls[i] = c] EXCEPT !.raced = x]
  BY DEF Algo!loadData, Algo!Follow
<1> HIDE DEF c, v
<1>3. Called(u, v, i, c) /\ AlgoRests(u, v) /\ ~Own(c)
  BY <1>1, <1>2 DEF AlgoInv, AlgoRests, Page, Called, Put, Own
<1>4. AlgoInv(v)
  BY <1>3, AlgoAside
<1> QED BY <1>4 DEF v

LEMMA AlgoClosed == ASSUME NEW u, AlgoInv(u) PROVE AlgoInv(Algo!closed(u))
<1> DEFINE f == [i \in DOMAIN u.calls |->
                   IF u.calls[i].op \in Algo!Ops THEN [u.calls[i] EXCEPT !.mine = FALSE] ELSE u.calls[i]]
<1>1. Slots(f) /\ DOMAIN f = DOMAIN u.calls /\ \A i \in DOMAIN f : ~Own(f[i])
  BY DEF AlgoInv, Page, Slots, Fields, Own, Algo!Ops
<1>2. Algo!closed(u) = [u EXCEPT !.dialog = "none", !.target = Algo!NoStrategy, !.busy = FALSE, !.calls = f]
  <2>1. Algo!closed(u) = Algo!Orphan([u EXCEPT !.dialog = "none", !.target = Algo!NoStrategy, !.busy = FALSE], Algo!Ops)
    BY DEF Algo!closed
  <2>2. [u EXCEPT !.dialog = "none", !.target = Algo!NoStrategy, !.busy = FALSE].calls = u.calls
    BY DEF AlgoInv, Page
  <2> QED BY <2>1, <2>2 DEF Algo!Orphan
<1> HIDE DEF f
<1>3. Page(Algo!closed(u)) /\ Algo!closed(u).calls = f /\ {"busy", "dialog"} \subseteq DOMAIN Algo!closed(u)
  BY <1>1, <1>2 DEF AlgoInv, Page
<1> QED BY <1>1, <1>3, AlgoNone

LEMMA AlgoInit == ASSUME Algo!Init PROVE AlgoInv(ui)
<1> DEFINE u(s, r) == [server |-> s, shown |-> Algo!Nothing, range |-> r, chart |-> "none",
                       loading |-> TRUE, dialog |-> "none", target |-> Algo!NoStrategy,
                       logs |-> Algo!NoStrategy, busy |-> FALSE, raced |-> FALSE, calls |-> Algo!NoCalls]
<1>1. \A s, r : AlgoInv(u(s, r))
  BY DEF AlgoInv, Page, Slots, Fields, Own, Algo!NoCalls, Algo!Idle
<1>2. \E s, r : ui = Algo!initPage(u(s, r))
  BY DEF Algo!Init
<1> HIDE DEF u
<1> QED BY <1>1, <1>2, AlgoAsk DEF Algo!initPage

LEMMA AlgoAsks ==
    ASSUME AlgoInv(ui),
           \/ \E r : Algo!handleRangeChange(r)
           \/ \E s : Algo!handleToggle(s)
           \/ \E s : Algo!handleDelete(s)
           \/ \E s : Algo!handleViewLogs(s)
    PROVE  AlgoInv(ui')
<1>1. CASE \E r : Algo!handleRangeChange(r)
  <2>1. PICK r : Algo!handleRangeChange(r)
    BY <1>1
  <2> DEFINE v == [ui EXCEPT !.range = r]
             w == Algo!Send(v, Algo!call("chart", r))
  <2>2. AlgoInv(v)
    BY AlgoSets
  <2>3. ui' = w \/ ui' = Algo!Send(w, Algo!call("ensure", Algo!NoStrategy))
    BY <2>1 DEF Algo!handleRangeChange, Algo!initPage
  <2> HIDE DEF v
  <2>4. AlgoInv(w)
    BY <2>2, AlgoAsk
  <2> HIDE DEF w
  <2> QED BY <2>3, <2>4, AlgoAsk
<1>2. CASE \/ \E s : Algo!handleToggle(s)
           \/ \E s : Algo!handleDelete(s)
           \/ \E s : Algo!handleViewLogs(s)
  BY <1>2, AlgoAsk DEF Algo!handleToggle, Algo!handleDelete, Algo!handleViewLogs
<1> QED BY <1>1, <1>2

LEMMA AlgoDialogs ==
    ASSUME AlgoInv(ui),
           \/ \E s : Algo!setEditStrategy(s)
           \/ Algo!setShowNewStrategy
    PROVE  AlgoInv(ui')
<1>1. ui.dialog = "none" /\ \E d, s : ui' = [ui EXCEPT !.dialog = d, !.target = s, !.busy = FALSE]
  BY DEF Algo!setEditStrategy, Algo!setShowNewStrategy, Algo!Listed, Algo!Rendered, Algo!openDialog
<1> QED BY <1>1 DEF AlgoInv, Page

LEMMA AlgoCloses == ASSUME AlgoInv(ui), Algo!onClose \/ Algo!closeLogs PROVE AlgoInv(ui')
<1>1. CASE Algo!onClose
  BY <1>1, AlgoClosed DEF Algo!onClose
<1>2. CASE Algo!closeLogs
  BY <1>2, AlgoSets DEF Algo!closeLogs
<1> QED BY <1>1, <1>2

LEMMA AlgoSubmit ==
    ASSUME AlgoInv(ui), NEW op \in {"update", "create"}, Algo!handleSubmit(op) PROVE AlgoInv(ui')
<1> DEFINE c == Algo!dialogCall(op, ui.target)
<1>1. PICK k : ui' = [ui EXCEPT !.busy = TRUE, !.calls[k] = c]
  BY DEF Algo!handleSubmit, Algo!Send
<1>2. Fields \subseteq DOMAIN c
  BY DEF Fields, Algo!dialogCall, Algo!call
<1>3. ui.busy # TRUE /\ ui.dialog # "none"
  BY DEF Algo!handleSubmit
<1> HIDE DEF c
<1>4. Called(ui, ui', k, c) /\ ui'.busy = TRUE /\ ui'.dialog = ui.dialog /\ {"busy", "dialog"} \subseteq DOMAIN ui'
  BY <1>1, <1>2 DEF AlgoInv, Page, Called, Put
<1>5. Page(ui') /\ DOMAIN ui'.calls = DOMAIN ui.calls
  BY <1>4, CalledPage DEF AlgoInv
<1>6. \A j \in DOMAIN ui'.calls : Own(ui'.calls[j]) => j = k
  BY <1>3, <1>4, <1>5 DEF AlgoInv, Called, Put
<1> QED BY <1>3, <1>4, <1>5, <1>6 DEF AlgoInv

LEMMA AlgoServe == ASSUME AlgoInv(ui), NEW i, Algo!Serve(i) PROVE AlgoInv(ui')
<1> DEFINE w == Algo!Effect(ui, ui.calls[i])
<1>1. \/ ui' = [ui EXCEPT !.calls[i].at = "err"]
      \/ \E g, a : ui' = [[w EXCEPT !.calls[i].got = g] EXCEPT !.calls[i].at = a]
  BY DEF Algo!Serve, Algo!Outcomes
<1>2. Kept(ui, w) /\ Rests(ui, w, "busy") /\ Rests(ui, w, "dialog")
  BY DEF AlgoInv, Page, Kept, Rests, Fields, Slots, Algo!Effect
<1> HIDE DEF w
<1>3. Kept(ui, ui') /\ Rests(ui, ui', "busy") /\ Rests(ui, ui', "dialog")
  BY <1>1, <1>2, Serves DEF AlgoInv
<1> QED BY <1>3, AlgoKept DEF AlgoRests, Rests

LEMMA AlgoShows ==
    ASSUME AlgoInv(ui), NEW i,
           \/ Algo!EnsureAnswers(i)
           \/ Algo!LoadAnswers(i)
           \/ Algo!ChartAnswers(i)
           \/ Algo!LogsAnswers(i)
           \/ \E op : Algo!ChangeAnswers(i, op)
    PROVE  AlgoInv(ui')
<1>1. CASE Algo!EnsureAnswers(i)
  BY <1>1, AlgoLoads DEF Algo!EnsureAnswers
<1>2. CASE Algo!LoadAnswers(i)
  <2>1. PICK x, y, z, r : ui' = Algo!End([ui EXCEPT !.loading = x, !.shown = y, !.chart = z, !.raced = r], i)
    BY <1>2 DEF Algo!LoadAnswers
  <2> DEFINE v == [ui EXCEPT !.loading = x, !.shown = y, !.chart = z, !.raced = r]
  <2>2. AlgoInv(v)
    BY AlgoSets
  <2> HIDE DEF v
  <2>3. AlgoInv(Algo!End(v, i))
    BY <2>2, AlgoEnd
  <2> QED BY <2>1, <2>3 DEF v
<1>3. CASE Algo!ChartAnswers(i)
  <2>1. PICK x : ui' = Algo!End([ui EXCEPT !.chart = x], i)
    BY <1>3 DEF Algo!ChartAnswers
  <2> DEFINE v == [ui EXCEPT !.chart = x]
  <2>2. AlgoInv(v)
    BY AlgoSets
  <2> HIDE DEF v
  <2>3. AlgoInv(Algo!End(v, i))
    BY <2>2, AlgoEnd
  <2> QED BY <2>1, <2>3 DEF v
<1>4. CASE Algo!LogsAnswers(i)
  <2> DEFINE v == [ui EXCEPT !.logs = ui.calls[i].id]
  <2>1. ui' = Algo!End(ui, i) \/ ui' = Algo!End(v, i)
    BY <1>4 DEF Algo!LogsAnswers
  <2>2. AlgoInv(v)
    BY AlgoSets
  <2> HIDE DEF v
  <2> QED BY <2>1, <2>2, AlgoEnd
<1>5. CASE \E op : Algo!ChangeAnswers(i, op)
  <2> DEFINE v == [ui EXCEPT !.raced = TRUE]
  <2>1. ui' = Algo!End(v, i) \/ ui' = Algo!loadData(ui, i)
    BY <1>5 DEF Algo!ChangeAnswers
  <2>2. AlgoInv(v)
    BY AlgoSets
  <2> HIDE DEF v
  <2> QED BY <2>1, <2>2, AlgoEnd, AlgoLoads
<1> QED BY <1>1, <1>2, <1>3, <1>4, <1>5

LEMMA AlgoSubmitted ==
    ASSUME AlgoInv(ui), NEW i \in DOMAIN ui.calls, NEW op \in {"update", "create"}, Algo!SubmitAnswers(i, op)
    PROVE  AlgoInv(ui')
<1>1. CASE ui.calls[i].at = "err"
  <2>1. ui' = [ui EXCEPT !.raced = TRUE, !.busy = ui.busy /\ ~ui.calls[i].mine, !.calls[i] = Algo!Idle]
    BY <1>1 DEF AlgoInv, Page, Algo!SubmitAnswers, Algo!End
  <2>2. ui.calls[i].op \in {"update", "create"}
    BY DEF Algo!SubmitAnswers, Algo!Answered
  <2>3. /\ Called(ui, ui', i, Algo!Idle) /\ ~Own(Algo!Idle) /\ ui'.dialog = ui.dialog
        /\ ui'.busy = (ui.busy /\ ~ui.calls[i].mine) /\ {"busy", "dialog"} \subseteq DOMAIN ui'
    BY <2>1 DEF AlgoInv, Called, Put, Page, Fields, Own, Algo!Idle
  <2>4. CASE ui.calls[i].mine = TRUE
    <3>1. Page(ui') /\ DOMAIN ui'.calls = DOMAIN ui.calls
      BY <2>3, CalledPage DEF AlgoInv
    <3>2. \A j \in DOMAIN ui'.calls : ~Own(ui'.calls[j])
      BY <2>2, <2>3, <2>4, <3>1 DEF AlgoInv, Own, Called, Put
    <3> QED BY <2>3, <3>1, <3>2, AlgoNone
  <2>5. CASE ui.calls[i].mine # TRUE
    <3>1. AlgoRests(ui, ui')
      BY <2>3, <2>5 DEF AlgoRests
    <3> QED BY <2>3, <3>1, AlgoAside
  <2> QED BY <2>4, <2>5
<1>2. CASE ui.calls[i].at # "err"
  <2>1. \/ ui' = Algo!loadData(Algo!closed(ui), i)
        \/ \E x : ui' = Algo!loadData(Algo!closed([ui EXCEPT !.shown = x]), i)
    BY <1>2 DEF Algo!SubmitAnswers
  <2> DEFINE v(x) == [ui EXCEPT !.shown = x]
  <2>2. \A x : AlgoInv(v(x))
    BY AlgoSets
  <2>3. ui' = Algo!loadData(Algo!closed(ui), i) \/ \E x : ui' = Algo!loadData(Algo!closed(v(x)), i)
    BY <2>1
  <2> HIDE DEF v
  <2> QED BY <2>2, <2>3, AlgoClosed, AlgoLoads
<1> QED BY <1>1, <1>2

LEMMA AlgoNext == ASSUME AlgoInv(ui), Algo!Next PROVE AlgoInv(ui')
BY AlgoAsks, AlgoDialogs, AlgoCloses, AlgoSubmit, AlgoServe, AlgoShows, AlgoSubmitted
   DEF Algo!Next, Algo!Answers

LEMMA AlgoSubmits == ASSUME AlgoInv(ui) PROVE Algo!OneSubmission
<1> DEFINE S == Algo!Mine("update") \cup Algo!Mine("create")
<1>1. \A i, j \in S : i = j
  BY DEF AlgoInv, Own, Algo!Mine, Algo!Under
<1>2. \A T : Algo!Cardinality(T) = Cardinality(T)
  BY DEF Cardinality, Algo!Cardinality
<1> HIDE DEF S
<1>3. Cardinality(S) <= 1
  BY <1>1, SingleCard
<1> QED BY <1>2, <1>3 DEF S, Algo!OneSubmission

--------------------------------------------------------------------------------
(* Alpha Auto *)

ZeroLossInv(u) ==
    /\ Page(u)
    /\ {"autoStop", "marketOpen", "open"} \subseteq DOMAIN u
    /\ u.marketOpen \in BOOLEAN /\ u.open \in BOOLEAN
    /\ Once(u.calls, {"autostop"}, TRUE)
    /\ \A i \in DOMAIN u.calls : u.calls[i].op = "autostop" => u.autoStop = TRUE /\ u.marketOpen = FALSE
    /\ Guards(u, {"toggle"}, "toggling")
ZeroLossMoves(u, v, k, c) ==
    /\ Called(u, v, k, c)
    /\ Rests(u, v, "autoStop") /\ Rests(u, v, "marketOpen") /\ Rests(u, v, "open")
    /\ c.op # "autostop"
    /\ Moves(u, v, k, c, {"toggle"}, "toggling")
ZeroLossRests(u, v) ==
    /\ Kept(u, v) /\ Rests(u, v, "autoStop") /\ Rests(u, v, "marketOpen")
    /\ Rests(u, v, "open")
    /\ Rests(u, v, "toggling")

LEMMA ZeroLossStep ==
    ASSUME NEW u, NEW v, ZeroLossInv(u),
           ZeroLossRests(u, v) \/ \E k, c : ZeroLossMoves(u, v, k, c)
    PROVE  ZeroLossInv(v)
<1>1. ASSUME NEW k, NEW c, ZeroLossMoves(u, v, k, c) PROVE ZeroLossInv(v)
  <2>1. Page(v) /\ DOMAIN v.calls = DOMAIN u.calls /\ Guards(v, {"toggle"}, "toggling")
    BY <1>1, CalledPage, CalledGuards DEF ZeroLossInv, ZeroLossMoves
  <2>2. \A j \in DOMAIN u.calls : v.calls[j].op = "autostop" => u.calls[j].op = "autostop"
    BY <1>1 DEF ZeroLossMoves, Called, Put
  <2> QED BY <1>1, <2>1, <2>2 DEF ZeroLossInv, ZeroLossMoves, Rests, Once
<1>2. CASE ZeroLossRests(u, v)
  <2>1. Guards(v, {"toggle"}, "toggling")
    BY <1>2, KeptGuards DEF ZeroLossInv, ZeroLossRests
  <2> QED BY <1>2, <2>1 DEF ZeroLossInv, ZeroLossRests, Kept, Rests, Once
<1> QED BY <1>1, <1>2

LEMMA ZeroLossSets ==
    ASSUME NEW u, ZeroLossInv(u)
    PROVE  /\ \A x : ZeroLossInv([u EXCEPT !.stale = x])
           /\ \A x : ZeroLossInv([u EXCEPT !.enabled = x])
           /\ \A x : ZeroLossInv([u EXCEPT !.loading = x])
           /\ \A x : ZeroLossInv([u EXCEPT !.shown = x])
BY DEF ZeroLossInv, Page, Guards, Once

\* A call other than the page's own stop, or that stop when it is marked and none is under way.
LEMMA ZeroLossSent ==
    ASSUME NEW u, ZeroLossInv(u), NEW op,
           \/ op \notin {"toggle", "autostop"}
           \/ op = "autostop" /\ u.autoStop = TRUE /\ u.marketOpen = FALSE
              /\ \A i \in DOMAIN u.calls : u.calls[i].op # "autostop"
    PROVE  ZeroLossInv(ZeroLoss!Sent(u, op))
<1> DEFINE c == ZeroLoss!call(op, "none")
<1>1. PICK x : ZeroLoss!Sent(u, op) = ZeroLoss!Send([u EXCEPT !.stale = x], c)
  BY DEF ZeroLoss!Sent
<1> DEFINE w == [u EXCEPT !.stale = x]
           v == ZeroLoss!Send(w, c)
<1>2. ZeroLossInv(w) /\ w.autoStop = u.autoStop /\ w.marketOpen = u.marketOpen /\ w.calls = u.calls
  BY ZeroLossSets DEF ZeroLossInv, Page
<1>3. Fields \subseteq DOMAIN c /\ c.op = op
  BY DEF Fields, ZeroLoss!call
<1> HIDE DEF c, w
<1>4. /\ Called(w, v, ZeroLoss!Slot(w), c) /\ Rests(w, v, "toggling")
      /\ Rests(w, v, "autoStop") /\ Rests(w, v, "marketOpen") /\ Rests(w, v, "open")
  BY <1>2, <1>3 DEF ZeroLossInv, Page, Guards, Called, Rests, Put, ZeroLoss!Send
<1> HIDE DEF v
<1>5. ZeroLossInv(v)
  <2>1. Moves(w, v, ZeroLoss!Slot(w), c, {"toggle"}, "toggling")
    BY <1>2, <1>3, <1>4 DEF ZeroLossInv, Guards, Moves, Rests
  <2>2. CASE op \notin {"toggle", "autostop"}
    <3>1. ZeroLossMoves(w, v, ZeroLoss!Slot(w), c)
      BY <1>3, <1>4, <2>1, <2>2 DEF ZeroLossMoves
    <3> QED BY <1>2, <3>1, ZeroLossStep
  <2>3. CASE op = "autostop" /\ u.autoStop = TRUE /\ u.marketOpen = FALSE
             /\ \A i \in DOMAIN u.calls : u.calls[i].op # "autostop"
    <3>1. Page(v) /\ DOMAIN v.calls = DOMAIN w.calls /\ Guards(v, {"toggle"}, "toggling")
      BY <1>2, <1>4, <2>1, CalledPage, CalledGuards DEF ZeroLossInv
    <3>2. \A j \in DOMAIN w.calls : v.calls[j].op = "autostop" => j = ZeroLoss!Slot(w)
      BY <1>2, <1>4, <2>3 DEF Called, Put
    <3> QED BY <1>2, <1>4, <2>3, <3>1, <3>2 DEF ZeroLossInv, Rests, Once
  <2> QED BY <2>2, <2>3
<1> QED BY <1>1, <1>5 DEF w, v

LEMMA ZeroLossEffect == ASSUME NEW u, ZeroLossInv(u) PROVE ZeroLossInv(ZeroLoss!autoStopEffect(u))
<1>1. CASE u.marketOpen = TRUE
  <2>1. ZeroLoss!autoStopEffect(u) = [u EXCEPT !.autoStop = FALSE]
    BY <1>1 DEF ZeroLoss!autoStopEffect
  <2>2. ZeroLossInv([u EXCEPT !.autoStop = FALSE])
    BY <1>1 DEF ZeroLossInv, Page, Guards, Once
  <2> QED BY <2>1, <2>2
<1>2. CASE u.marketOpen # TRUE
  <2> DEFINE v == [u EXCEPT !.autoStop = TRUE]
  <2>1. \/ ZeroLoss!autoStopEffect(u) = u
        \/ ZeroLoss!autoStopEffect(u) = ZeroLoss!Sent(v, "autostop") /\ u.autoStop # TRUE
    BY <1>2 DEF ZeroLoss!autoStopEffect
  <2>2. ASSUME u.autoStop # TRUE PROVE ZeroLossInv(v) /\ \A i \in DOMAIN v.calls : v.calls[i].op # "autostop"
    BY <2>2 DEF ZeroLossInv, Page, Guards, Once
  <2>3. v.autoStop = TRUE /\ v.marketOpen = u.marketOpen
    BY DEF ZeroLossInv
  <2> HIDE DEF v
  <2>4. CASE u.marketOpen = FALSE
    BY <2>1, <2>2, <2>3, <2>4, ZeroLossSent
  <2> QED BY <1>2, <2>1, <2>4 DEF ZeroLossInv
<1> QED BY <1>1, <1>2

LEMMA ZeroLossEnabled ==
    ASSUME NEW u, ZeroLossInv(u), NEW on
    PROVE  ZeroLossInv(ZeroLoss!setEnabled(u, on))
<1> DEFINE v == [u EXCEPT !.enabled = on]
<1>1. ZeroLossInv(v)
  BY ZeroLossSets
<1>2. ZeroLoss!setEnabled(u, on) = u \/ ZeroLoss!setEnabled(u, on) = ZeroLoss!autoStopEffect(v)
  BY DEF ZeroLoss!setEnabled
<1> HIDE DEF v
<1> QED BY <1>1, <1>2, ZeroLossEffect

LEMMA ZeroLossToggled ==
    ASSUME NEW u, ZeroLossInv(u), NEW i
    PROVE  ZeroLossInv(ZeroLoss!Toggled(u, i))
<1>1. PICK x, on : ZeroLoss!Toggled(u, i) = ZeroLoss!setEnabled([u EXCEPT !.shown = x], on)
  BY DEF ZeroLoss!Toggled
<1> DEFINE v == [u EXCEPT !.shown = x]
<1>2. ZeroLossInv(v)
  BY ZeroLossSets
<1> HIDE DEF v
<1>3. ZeroLossInv(ZeroLoss!setEnabled(v, on))
  BY <1>2, ZeroLossEnabled
<1> QED BY <1>1, <1>3 DEF v

LEMMA ZeroLossEnd == ASSUME NEW u, ZeroLossInv(u), NEW i PROVE ZeroLossInv(ZeroLoss!End(u, i))
<1>1. ZeroLossMoves(u, ZeroLoss!End(u, i), i, ZeroLoss!Idle)
  BY DEF ZeroLossInv, ZeroLossMoves, Called, Moves, Put, Page, Guards, Rests, Fields, ZeroLoss!End,
     ZeroLoss!Idle
<1> QED BY <1>1, ZeroLossStep

LEMMA ZeroLossInit == ASSUME ZeroLoss!Init PROVE ZeroLossInv(ui)
<1> DEFINE u(on, open) == [on |-> on, held |-> FALSE, enabled |-> FALSE, shown |-> FALSE,
                   loading |-> TRUE, toggling |-> FALSE, autoStop |-> FALSE, open |-> open,
                   marketOpen |-> open, pushed |-> <<>>, stale |-> FALSE,
                   calls |-> ZeroLoss!NoCalls]
<1>1. \A on, open \in BOOLEAN : ZeroLossInv(u(on, open))
  BY DEF ZeroLossInv, Page, Slots, Guards, Once, Fields, ZeroLoss!NoCalls, ZeroLoss!Idle
<1>2. \E on, open \in BOOLEAN : ui = ZeroLoss!Sent(u(on, open), "status")
  BY DEF ZeroLoss!Init
<1> HIDE DEF u
<1> QED BY <1>1, <1>2, ZeroLossSent

LEMMA ZeroLossPolls == ASSUME ZeroLossInv(ui), ZeroLoss!fetchAll PROVE ZeroLossInv(ui')
BY ZeroLossSent DEF ZeroLoss!fetchAll

LEMMA ZeroLossToggles == ASSUME ZeroLossInv(ui), ZeroLoss!handleToggle PROVE ZeroLossInv(ui')
<1> DEFINE c == ZeroLoss!call("toggle", "none")
<1>1. PICK k, x : ui' = [ui EXCEPT !.toggling = TRUE, !.stale = x, !.calls[k] = c]
  BY DEF ZeroLoss!handleToggle, ZeroLoss!Sent, ZeroLoss!Send
<1>2. ui.toggling # TRUE
  BY DEF ZeroLoss!handleToggle
<1>3. Fields \subseteq DOMAIN c /\ c.op = "toggle"
  BY DEF Fields, ZeroLoss!call
<1> HIDE DEF c
<1>4. ZeroLossMoves(ui, ui', k, c)
  BY <1>1, <1>2, <1>3 DEF ZeroLossInv, ZeroLossMoves, Called, Moves, Put, Page, Guards, Rests
<1> QED BY <1>4, ZeroLossStep

LEMMA ZeroLossLooks ==
    ASSUME ZeroLossInv(ui), ZeroLoss!SessionTurns \/ ZeroLoss!Trades \/ ZeroLoss!handleWsMessage
    PROVE  ZeroLossInv(ui')
<1>1. CASE ZeroLoss!SessionTurns
  BY <1>1 DEF ZeroLossInv, Page, Guards, Once, ZeroLoss!SessionTurns
<1>2. CASE ZeroLoss!Trades \/ ZeroLoss!handleWsMessage
  <2>1. ZeroLossRests(ui, ui')
    BY <1>2 DEF ZeroLossInv, ZeroLossRests, Kept, Rests, Page, Guards, ZeroLoss!Trades,
       ZeroLoss!handleWsMessage
  <2> QED BY <2>1, ZeroLossStep
<1> QED BY <1>1, <1>2

LEMMA ZeroLossSees == ASSUME ZeroLossInv(ui), ZeroLoss!PageSeesSession PROVE ZeroLossInv(ui')
<1> DEFINE v == [ui EXCEPT !.marketOpen = ui.open]
<1>1. \A i \in DOMAIN ui.calls : ui.calls[i].op # "autostop"
  BY DEF ZeroLossInv, ZeroLoss!PageSeesSession, ZeroLoss!Quiet, ZeroLoss!Idle
<1>2. ZeroLossInv(v)
  BY <1>1 DEF ZeroLossInv, Page, Guards, Once
<1>3. ui' = ZeroLoss!autoStopEffect(v)
  BY DEF ZeroLoss!PageSeesSession
<1> HIDE DEF v
<1> QED BY <1>2, <1>3, ZeroLossEffect

LEMMA ZeroLossRelabelled ==
    ASSUME ZeroLossInv(ui), ZeroLoss!stateLabelChanges
    PROVE  ZeroLossInv(ui')
BY ZeroLossEffect DEF ZeroLoss!stateLabelChanges

LEMMA ZeroLossStatus ==
    ASSUME ZeroLossInv(ui), NEW i, ZeroLoss!StatusAnswers(i)
    PROVE  ZeroLossInv(ui')
<1> DEFINE v == [ui EXCEPT !.loading = FALSE]
           w == ZeroLoss!End(v, i)
<1>1. ZeroLossInv(v)
  BY ZeroLossSets
<1>2. \/ ui' = [w EXCEPT !.stale = TRUE]
      \/ \E x, on : ui' = ZeroLoss!setEnabled([w EXCEPT !.shown = x], on)
  BY DEF ZeroLoss!StatusAnswers
<1> HIDE DEF v
<1>3. ZeroLossInv(w)
  BY <1>1, ZeroLossEnd
<1> HIDE DEF w
<1> DEFINE t(x) == [w EXCEPT !.shown = x]
<1>4. \A x : ZeroLossInv(t(x))
  BY <1>3, ZeroLossSets
<1>5. CASE ui' = [w EXCEPT !.stale = TRUE]
  BY <1>3, <1>5, ZeroLossSets
<1>6. CASE \E x, on : ui' = ZeroLoss!setEnabled(t(x), on)
  <2> HIDE DEF t
  <2> QED BY <1>4, <1>6, ZeroLossEnabled
<1> QED BY <1>2, <1>5, <1>6

LEMMA ZeroLossToggleEnds ==
    ASSUME ZeroLossInv(ui), NEW i \in DOMAIN ui.calls, ZeroLoss!ToggleAnswers(i)
    PROVE  ZeroLossInv(ui')
<1> DEFINE v == [ui EXCEPT !.toggling = FALSE]
           w == ZeroLoss!End(v, i)
<1>1. w = [ui EXCEPT !.toggling = FALSE, !.calls[i] = ZeroLoss!Idle]
  BY DEF ZeroLossInv, Page, ZeroLoss!End
<1>2. \/ ui' = [w EXCEPT !.stale = TRUE]
      \/ ui' = ZeroLoss!Toggled(w, i)
  BY DEF ZeroLoss!ToggleAnswers
<1>3. ui.calls[i].op = "toggle"
  BY DEF ZeroLoss!ToggleAnswers, ZeroLoss!Answered
<1> HIDE DEF w
<1>4. ZeroLossMoves(ui, w, i, ZeroLoss!Idle)
  BY <1>1, <1>3 DEF ZeroLossInv, ZeroLossMoves, Called, Moves, Put, Page, Guards, Rests, Fields,
     ZeroLoss!Idle
<1>5. ZeroLossInv(w)
  BY <1>4, ZeroLossStep
<1> QED BY <1>2, <1>5, ZeroLossSets, ZeroLossToggled

LEMMA ZeroLossStops ==
    ASSUME ZeroLossInv(ui), NEW i \in DOMAIN ui.calls, ZeroLoss!AutoStopAnswers(i)
    PROVE  ZeroLossInv(ui')
<1>1. CASE ui.calls[i].at = "err"
  <2>1. ui' = [ui EXCEPT !.autoStop = FALSE, !.stale = TRUE, !.calls[i] = ZeroLoss!Idle]
    BY <1>1 DEF ZeroLossInv, Page, ZeroLoss!AutoStopAnswers, ZeroLoss!End
  <2>2. ui.calls[i].op = "autostop"
    BY DEF ZeroLoss!AutoStopAnswers, ZeroLoss!Answered
  <2>3. /\ Called(ui, ui', i, ZeroLoss!Idle) /\ ZeroLoss!Idle.op = "idle"
        /\ Rests(ui, ui', "toggling") /\ Rests(ui, ui', "marketOpen") /\ Rests(ui, ui', "open")
        /\ "autoStop" \in DOMAIN ui'
    BY <2>1 DEF ZeroLossInv, Called, Put, Page, Guards, Rests, Fields, ZeroLoss!Idle
  <2>4. Moves(ui, ui', i, ZeroLoss!Idle, {"toggle"}, "toggling")
    BY <2>3 DEF ZeroLossInv, Guards, Moves, Rests
  <2>5. Page(ui') /\ DOMAIN ui'.calls = DOMAIN ui.calls /\ Guards(ui', {"toggle"}, "toggling")
    BY <2>3, <2>4, CalledPage, CalledGuards DEF ZeroLossInv
  <2>6. \A j \in DOMAIN ui.calls : ui'.calls[j].op # "autostop"
    BY <2>2, <2>3 DEF ZeroLossInv, Once, Called, Put
  <2> QED BY <2>3, <2>5, <2>6 DEF ZeroLossInv, Rests, Once
<1>2. CASE ui.calls[i].at # "err"
  <2>1. ui' = ZeroLoss!Toggled(ZeroLoss!End(ui, i), i)
    BY <1>2 DEF ZeroLoss!AutoStopAnswers
  <2> QED BY <2>1, ZeroLossEnd, ZeroLossToggled
<1> QED BY <1>1, <1>2

LEMMA ZeroLossHalted ==
    ASSUME NEW u, ZeroLossInv(u)
    PROVE  ZeroLossInv(ZeroLoss!Halted(u)) /\ ZeroLoss!Halted(u).calls = u.calls
<1>1. ZeroLossInv([u EXCEPT !.on = FALSE]) /\ [u EXCEPT !.on = FALSE].calls = u.calls
  BY DEF ZeroLossInv, Page, Guards, Once
<1> QED BY <1>1 DEF ZeroLoss!Halted

LEMMA ZeroLossHalts == ASSUME ZeroLossInv(ui), ZeroLoss!WorkerHalts PROVE ZeroLossInv(ui')
<1> DEFINE w == ZeroLoss!Halted(ui)
<1>1. ui' = [w EXCEPT !.stale = TRUE]
  BY DEF ZeroLoss!WorkerHalts
<1>2. ZeroLossInv(w)
  BY ZeroLossHalted
<1> HIDE DEF w
<1> QED BY <1>1, <1>2, ZeroLossSets

LEMMA ZeroLossRefused ==
    ASSUME ZeroLossInv(ui), NEW i, ZeroLoss!Refused(i) PROVE ZeroLossInv(ui')
<1> DEFINE w == ZeroLoss!Halted(ui)
<1>1. ui' = [w EXCEPT !.calls[i].at = "err"]
  BY DEF ZeroLoss!Refused
<1>2. ZeroLossInv(w)
  BY ZeroLossHalted
<1> HIDE DEF w
<1>3. ZeroLossRests(w, ui')
  BY <1>1, <1>2 DEF ZeroLossInv, ZeroLossRests, Page, Kept, Guards, Rests, Fields, Slots
<1> QED BY <1>2, <1>3, ZeroLossStep

LEMMA ZeroLossServe ==
    ASSUME ZeroLossInv(ui), NEW i, ZeroLoss!Serve(i) PROVE ZeroLossInv(ui')
<1> DEFINE w == ZeroLoss!Effect(ui, ui.calls[i])
<1>1. \/ ZeroLoss!Refused(i)
      \/ ui' = [ui EXCEPT !.calls[i].at = "err"]
      \/ \E g, a : ui' = [[w EXCEPT !.calls[i].got = g] EXCEPT !.calls[i].at = a]
  BY DEF ZeroLoss!Serve, ZeroLoss!Outcomes
<1>2. ZeroLossRests(ui, w)
  BY DEF ZeroLossInv, ZeroLossRests, Page, Kept, Guards, Rests, Fields, Slots, ZeroLoss!Effect,
     ZeroLoss!Halted
<1> HIDE DEF w
<1>3. CASE ~ZeroLoss!Refused(i)
  <2>1. ZeroLossRests(ui, ui')
    BY <1>1, <1>2, <1>3, Serves DEF ZeroLossInv, ZeroLossRests, Guards
  <2> QED BY <2>1, ZeroLossStep
<1> QED BY <1>3, ZeroLossRefused

LEMMA ZeroLossNext == ASSUME ZeroLossInv(ui), ZeroLoss!Next PROVE ZeroLossInv(ui')
BY ZeroLossPolls, ZeroLossToggles, ZeroLossLooks, ZeroLossSees, ZeroLossRelabelled, ZeroLossHalts,
   ZeroLossStatus, ZeroLossToggleEnds, ZeroLossStops, ZeroLossServe
   DEF ZeroLoss!Next, ZeroLoss!Answers

LEMMA ZeroLossSubmits == ASSUME ZeroLossInv(ui) PROVE ZeroLoss!OneSubmission
<1>1. Cardinality(ZeroLoss!Under(ui, "autostop")) <= 1
  BY OnceCard DEF ZeroLossInv, Guards, ZeroLoss!Under
<1>2. Cardinality(ZeroLoss!Under(ui, "toggle")) <= 1
  BY OnceCard DEF ZeroLossInv, Guards, ZeroLoss!Under
<1>3. \A S : ZeroLoss!Cardinality(S) = Cardinality(S)
  BY DEF Cardinality, ZeroLoss!Cardinality
<1> QED BY <1>1, <1>2, <1>3 DEF ZeroLoss!OneSubmission

--------------------------------------------------------------------------------
(* The settings page: profile, photo and sessions *)

ProfileInv(u) ==
    /\ Page(u)
    /\ Guards(u, {"save"}, "saving")
    /\ Guards(u, {"sessions"}, "listing")
ProfileMoves(u, v, k, c) ==
    /\ Called(u, v, k, c)
    /\ Moves(u, v, k, c, {"save"}, "saving")
    /\ Moves(u, v, k, c, {"sessions"}, "listing")
ProfileRests(u, v) ==
    /\ Kept(u, v)
    /\ Rests(u, v, "saving")
    /\ Rests(u, v, "listing")

LEMMA ProfileStep ==
    ASSUME NEW u, NEW v, ProfileInv(u),
           ProfileRests(u, v) \/ \E k, c : ProfileMoves(u, v, k, c)
    PROVE  ProfileInv(v)
<1>1. ASSUME NEW k, NEW c, ProfileMoves(u, v, k, c) PROVE ProfileInv(v)
  BY <1>1, CalledPage, CalledGuards DEF ProfileInv, ProfileMoves
<1>2. CASE ProfileRests(u, v)
  BY <1>2, KeptGuards DEF ProfileInv, ProfileRests, Kept
<1> QED BY <1>1, <1>2

LEMMA ProfileInit == ASSUME Profile!Init PROVE ProfileInv(ui)
<1>1. PICK p, phone :
        LET u == [server |-> p, stored |-> p, preview |-> p, edited |-> FALSE,
                  uploading |-> FALSE, saving |-> FALSE, listing |-> FALSE,
                  overlap |-> FALSE, failed |-> FALSE, calls |-> Profile!NoCalls]
        IN  ui = IF phone THEN u ELSE Profile!Send(u, Profile!call("phone", Profile!NoPhoto))
  BY DEF Profile!Init
<1> DEFINE r == [server |-> p, stored |-> p, preview |-> p, edited |-> FALSE,
                 uploading |-> FALSE, saving |-> FALSE, listing |-> FALSE,
                 overlap |-> FALSE, failed |-> FALSE, calls |-> Profile!NoCalls]
           c == Profile!call("phone", Profile!NoPhoto)
<1>2. ProfileInv(r)
  BY DEF ProfileInv, Page, Slots, Guards, Once, Fields, Profile!Idle, Profile!NoCalls
<1>3. r.calls = Profile!NoCalls /\ "calls" \in DOMAIN r
  OBVIOUS
<1>4. ui = r \/ \E k : ui = [r EXCEPT !.calls[k] = c]
  BY <1>1 DEF Profile!Send
<1> HIDE DEF r
<1>5. \A k : ui = [r EXCEPT !.calls[k] = c] => ProfileMoves(r, ui, k, c)
  BY <1>2 DEF ProfileInv, ProfileMoves, Called, Moves, Put, Page, Guards, Fields, Profile!call
<1> QED BY <1>2, <1>4, <1>5, ProfileStep

LEMMA ProfileUpload ==
    ASSUME ProfileInv(ui), NEW p, Profile!processFile(p) PROVE ProfileInv(ui')
<1>1. PICK g, b, k : ui' = [[[ui EXCEPT !.overlap = b] EXCEPT !.preview = p, !.uploading = TRUE]
                     EXCEPT !.calls[k] = [Profile!call("upload", p) EXCEPT !.got = g]]
  BY DEF Profile!processFile, Profile!Beside, Profile!Send
<1>2. ProfileMoves(ui, ui', k, [Profile!call("upload", p) EXCEPT !.got = g])
  BY <1>1 DEF ProfileInv, ProfileMoves, Called, Moves, Put, Page, Guards, Fields, Profile!call
<1> QED BY <1>2, ProfileStep

LEMMA ProfileRemove ==
    ASSUME ProfileInv(ui), Profile!handleRemove PROVE ProfileInv(ui')
<1>1. PICK b, k : ui' = [[[ui EXCEPT !.overlap = b] EXCEPT !.uploading = TRUE]
                     EXCEPT !.calls[k] = Profile!call("remove", Profile!NoPhoto)]
  BY DEF Profile!handleRemove, Profile!Beside, Profile!Send
<1>2. ProfileMoves(ui, ui', k, Profile!call("remove", Profile!NoPhoto))
  BY <1>1 DEF ProfileInv, ProfileMoves, Called, Moves, Put, Page, Guards, Fields, Profile!call
<1> QED BY <1>2, ProfileStep

LEMMA ProfileSave ==
    ASSUME ProfileInv(ui), Profile!saveProfile PROVE ProfileInv(ui')
<1>1. PICK b, k : ui' = [[[ui EXCEPT !.overlap = b] EXCEPT !.saving = TRUE]
                     EXCEPT !.calls[k] = Profile!call("save", Profile!NoPhoto)]
  BY DEF Profile!saveProfile, Profile!Beside, Profile!Send
<1>2. ProfileMoves(ui, ui', k, Profile!call("save", Profile!NoPhoto))
  BY <1>1 DEF ProfileInv, ProfileMoves, Called, Moves, Put, Page, Guards, Fields,
     Profile!saveProfile, Profile!call
<1> QED BY <1>2, ProfileStep

LEMMA ProfileSessions ==
    ASSUME ProfileInv(ui), Profile!loadSessions PROVE ProfileInv(ui')
<1>1. PICK k : ui' = [[ui EXCEPT !.listing = TRUE]
                     EXCEPT !.calls[k] = Profile!call("sessions", Profile!NoPhoto)]
  BY DEF Profile!loadSessions, Profile!Send
<1>2. ProfileMoves(ui, ui', k, Profile!call("sessions", Profile!NoPhoto))
  BY <1>1 DEF ProfileInv, ProfileMoves, Called, Moves, Put, Page, Guards, Fields,
     Profile!loadSessions, Profile!call
<1> QED BY <1>2, ProfileStep

LEMMA ProfileEdit ==
    ASSUME ProfileInv(ui), Profile!setProfile PROVE ProfileInv(ui')
<1>1. ProfileRests(ui, ui')
  BY DEF ProfileInv, ProfileRests, Kept, Rests, Page, Guards, Profile!setProfile
<1> QED BY <1>1, ProfileStep

LEMMA ProfileServe ==
    ASSUME ProfileInv(ui), NEW i, Profile!Serve(i) PROVE ProfileInv(ui')
<1> DEFINE w == Profile!Effect(ui, ui.calls[i])
<1>1. \/ ui' = [ui EXCEPT !.calls[i].at = "err"]
      \/ \E g, a : ui' = [[w EXCEPT !.calls[i].got = g] EXCEPT !.calls[i].at = a]
  BY DEF Profile!Serve, Profile!Outcomes
<1>2. ProfileRests(ui, w)
  BY DEF ProfileInv, ProfileRests, Page, Kept, Guards, Rests, Profile!Effect
<1> HIDE DEF w
<1>3. ProfileRests(ui, ui')
  BY <1>1, <1>2, Serves DEF ProfileInv, ProfileRests, Guards
<1> QED BY <1>3, ProfileStep

LEMMA ProfileAnswers ==
    ASSUME ProfileInv(ui), NEW i \in DOMAIN ui.calls,
           \/ Profile!PhoneAnswers(i) \/ Profile!UploadAnswers(i) \/ Profile!RemoveAnswers(i)
           \/ Profile!SaveAnswers(i) \/ Profile!SessionsAnswer(i)
    PROVE  ProfileInv(ui')
<1>1. CASE Profile!PhoneAnswers(i)
  <2>1. PICK v : ui' = [v EXCEPT !.calls[i] = Profile!Idle] /\ v \in {ui, Profile!updateUser(ui, ui.stored)}
    BY <1>1 DEF Profile!PhoneAnswers, Profile!End
  <2>2. ProfileMoves(ui, ui', i, Profile!Idle)
    BY <2>1 DEF ProfileInv, ProfileMoves, Called, Moves, Put, Page, Guards, Fields,
       Profile!updateUser, Profile!Idle
  <2> QED BY <2>2, ProfileStep
<1>2. CASE Profile!UploadAnswers(i) \/ Profile!RemoveAnswers(i)
  <2> DEFINE u == [ui EXCEPT !.uploading = FALSE]
             Same(v) == ProfileRests(ui, v) /\ v.calls = ui.calls
  <2>1. /\ \A p, q : Same([Profile!updateUser(u, p) EXCEPT !.preview = q])
        /\ \A q : Same([u EXCEPT !.preview = q, !.failed = TRUE])
        /\ Same([u EXCEPT !.failed = TRUE])
    BY DEF ProfileInv, ProfileRests, Kept, Rests, Page, Guards, Profile!updateUser
  <2>2. \/ \E p : ui' = [[Profile!updateUser(u, p) EXCEPT !.preview = p] EXCEPT !.calls[i] = Profile!Idle]
        \/ \E p : ui' = [[u EXCEPT !.preview = p, !.failed = TRUE] EXCEPT !.calls[i] = Profile!Idle]
        \/ ui' = [[u EXCEPT !.failed = TRUE] EXCEPT !.calls[i] = Profile!Idle]
    BY <1>2 DEF Profile!UploadAnswers, Profile!RemoveAnswers, Profile!End
  <2>3. PICK v : Same(v) /\ ui' = [v EXCEPT !.calls[i] = Profile!Idle]
    <3> HIDE DEF u, Same
    <3> QED BY <2>1, <2>2
  <2>4. ProfileMoves(ui, ui', i, Profile!Idle)
    BY <2>3 DEF ProfileInv, ProfileMoves, ProfileRests, Kept, Rests, Called, Moves, Put, Page,
       Guards, Fields, Profile!Idle
  <2> QED BY <2>4, ProfileStep
<1>3. CASE Profile!SaveAnswers(i)
  <2> DEFINE u == [ui EXCEPT !.saving = FALSE]
  <2>1. PICK v, p : ui' = [v EXCEPT !.calls[i] = Profile!Idle] /\ v \in {u, Profile!updateUser(u, p)}
    BY <1>3 DEF Profile!SaveAnswers, Profile!End
  <2>2. ProfileMoves(ui, ui', i, Profile!Idle)
    BY <1>3, <2>1 DEF ProfileInv, ProfileMoves, Called, Moves, Put, Page, Guards, Fields,
                      Profile!updateUser, Profile!Idle, Profile!SaveAnswers, Profile!Answered
  <2> QED BY <2>2, ProfileStep
<1>4. CASE Profile!SessionsAnswer(i)
  <2>1. ui' = [[ui EXCEPT !.listing = FALSE] EXCEPT !.calls[i] = Profile!Idle]
    BY <1>4 DEF Profile!SessionsAnswer, Profile!End
  <2>2. ProfileMoves(ui, ui', i, Profile!Idle)
    BY <1>4, <2>1 DEF ProfileInv, ProfileMoves, Called, Moves, Put, Page, Guards, Fields,
                      Profile!Idle, Profile!SessionsAnswer, Profile!Answered
  <2> QED BY <2>2, ProfileStep
<1> QED BY <1>1, <1>2, <1>3, <1>4

LEMMA ProfileNext == ASSUME ProfileInv(ui), Profile!Next PROVE ProfileInv(ui')
BY ProfileUpload, ProfileRemove, ProfileSave, ProfileSessions, ProfileEdit, ProfileServe,
   ProfileAnswers
   DEF Profile!Next, Profile!Answers

LEMMA ProfileSubmits == ASSUME ProfileInv(ui) PROVE Profile!OneSubmission
<1>1. Cardinality(Profile!Under(ui, "save")) <= 1
  BY OnceCard DEF ProfileInv, Guards, Profile!Under
<1>2. Cardinality(Profile!Under(ui, "sessions")) <= 1
  BY OnceCard DEF ProfileInv, Guards, Profile!Under
<1>3. \A S : Profile!Cardinality(S) = Cardinality(S)
  BY DEF Cardinality, Profile!Cardinality
<1> QED BY <1>1, <1>2, <1>3 DEF Profile!OneSubmission

--------------------------------------------------------------------------------
(* The settings that change the portfolio *)

SettingsInv(u) ==
    /\ Page(u)
    /\ Guards(u, {"resetAccount"}, "resetting")
    /\ Guards(u, {"deleteAccount", "logout"}, "deleting")
SettingsMoves(u, v, k, c) ==
    /\ Called(u, v, k, c)
    /\ Moves(u, v, k, c, {"resetAccount"}, "resetting")
    /\ Moves(u, v, k, c, {"deleteAccount", "logout"}, "deleting")
SettingsRests(u, v) ==
    /\ Kept(u, v)
    /\ Rests(u, v, "resetting")
    /\ Rests(u, v, "deleting")

LEMMA SettingsStep ==
    ASSUME NEW u, NEW v, SettingsInv(u),
           SettingsRests(u, v) \/ \E k, c : SettingsMoves(u, v, k, c)
    PROVE  SettingsInv(v)
<1>1. ASSUME NEW k, NEW c, SettingsMoves(u, v, k, c) PROVE SettingsInv(v)
  BY <1>1, CalledPage, CalledGuards DEF SettingsInv, SettingsMoves
<1>2. CASE SettingsRests(u, v)
  BY <1>2, KeptGuards DEF SettingsInv, SettingsRests, Kept
<1> QED BY <1>1, <1>2

Asks == {"resetAccount", "deleteAccount", "logout"}

LEMMA SettingsSets ==
    ASSUME NEW u, SettingsInv(u)
    PROVE  /\ \A r : SettingsInv([u EXCEPT !.raced = r])
           /\ \A x : SettingsInv([u EXCEPT !.loading = x])
           /\ \A x : SettingsInv([u EXCEPT !.mixed = x])
           /\ \A x : SettingsInv([u EXCEPT !.shown = x])
BY DEF SettingsInv, Page, Guards, Once

LEMMA SettingsSends ==
    ASSUME NEW u, SettingsInv(u), NEW c, Fields \subseteq DOMAIN c, c.op \notin Asks
    PROVE  SettingsInv(Settings!Send(u, c))
<1>1. SettingsMoves(u, Settings!Send(u, c), Settings!Slot(u), c)
  BY DEF SettingsInv, SettingsMoves, Called, Moves, Put, Page, Guards, Asks, Settings!Send
<1> QED BY <1>1, SettingsStep

LEMMA SettingsFetches == ASSUME NEW u, SettingsInv(u) PROVE SettingsInv(Settings!fetched(u))
<1> DEFINE c == Settings!call("portfolio", "none")
<1>1. PICK r : Settings!fetched(u) = Settings!Send([u EXCEPT !.raced = r], c)
  BY DEF Settings!fetched
<1> DEFINE v == [u EXCEPT !.raced = r]
<1>2. SettingsInv(v)
  BY SettingsSets
<1>3. Fields \subseteq DOMAIN c /\ c.op \notin Asks
  BY DEF Fields, Asks, Settings!call
<1> HIDE DEF c, v
<1>4. SettingsInv(Settings!Send(v, c))
  BY <1>2, <1>3, SettingsSends
<1> QED BY <1>1, <1>4 DEF v

LEMMA SettingsMarks ==
    ASSUME NEW u, SettingsInv(u), NEW x
    PROVE  SettingsInv(Settings!setLoading(u, x))
<1> DEFINE v == [u EXCEPT !.loading = x]
<1>1. SettingsInv(v)
  BY SettingsSets
<1>2. Settings!setLoading(u, x) = u \/ Settings!setLoading(u, x) = Settings!fetched(v)
  BY DEF Settings!setLoading
<1> HIDE DEF v
<1> QED BY <1>1, <1>2, SettingsFetches

LEMMA SettingsEnd == ASSUME NEW u, SettingsInv(u), NEW i PROVE SettingsInv(Settings!End(u, i))
<1>1. SettingsMoves(u, Settings!End(u, i), i, Settings!Idle)
  BY DEF SettingsInv, SettingsMoves, Called, Moves, Put, Page, Guards, Fields, Settings!End,
     Settings!Idle
<1> QED BY <1>1, SettingsStep

LEMMA SettingsInit == ASSUME Settings!Init PROVE SettingsInv(ui)
<1> DEFINE u == [server |-> 0, shown |-> 2, loading |-> "", resetting |-> FALSE,
                 deleting |-> FALSE, leaving |-> "no", signedIn |-> TRUE, mixed |-> FALSE,
                 raced |-> FALSE, calls |-> Settings!NoCalls]
<1>1. SettingsInv(u)
  BY DEF SettingsInv, Page, Slots, Guards, Once, Fields, Settings!NoCalls, Settings!Idle
<1>2. ui = Settings!fetched(u)
  BY DEF Settings!Init
<1> HIDE DEF u
<1> QED BY <1>1, <1>2, SettingsFetches

LEMMA SettingsCapital ==
    ASSUME SettingsInv(ui), NEW op \in Settings!Changes, Settings!handleCapital(op)
    PROVE  SettingsInv(ui')
<1> DEFINE c == Settings!call(op, "none")
<1>1. PICK b : ui' = Settings!setLoading(Settings!Send([ui EXCEPT !.mixed = b], c), op)
  BY DEF Settings!handleCapital
<1> DEFINE v == [ui EXCEPT !.mixed = b]
<1>2. SettingsInv(v)
  BY SettingsSets
<1>3. Fields \subseteq DOMAIN c /\ c.op \notin Asks
  BY DEF Fields, Asks, Settings!call, Settings!Changes
<1> HIDE DEF c, v
<1>4. SettingsInv(Settings!Send(v, c))
  BY <1>2, <1>3, SettingsSends
<1>5. SettingsInv(Settings!setLoading(Settings!Send(v, c), op))
  BY <1>4, SettingsMarks
<1> QED BY <1>1, <1>5 DEF v

LEMMA SettingsResets ==
    ASSUME SettingsInv(ui), Settings!handleResetAccount PROVE SettingsInv(ui')
<1>1. PICK k : ui' = [[ui EXCEPT !.resetting = TRUE]
      EXCEPT !.calls[k] = Settings!call("resetAccount", "none")]
  BY DEF Settings!handleResetAccount, Settings!Send
<1>2. SettingsMoves(ui, ui', k, Settings!call("resetAccount", "none"))
  BY <1>1 DEF SettingsInv, SettingsMoves, Called, Moves, Put, Page, Guards, Fields,
     Settings!handleResetAccount, Settings!call
<1> QED BY <1>2, SettingsStep

LEMMA SettingsDeletes ==
    ASSUME SettingsInv(ui), Settings!handleDeleteAccount PROVE SettingsInv(ui')
<1>1. PICK k : ui' = [[ui EXCEPT !.deleting = TRUE]
      EXCEPT !.calls[k] = Settings!call("deleteAccount", "none")]
  BY DEF Settings!handleDeleteAccount, Settings!Send
<1>2. SettingsMoves(ui, ui', k, Settings!call("deleteAccount", "none"))
  BY <1>1 DEF SettingsInv, SettingsMoves, Called, Moves, Put, Page, Guards, Fields,
     Settings!handleDeleteAccount, Settings!call
<1> QED BY <1>2, SettingsStep

LEMMA SettingsLeaves == ASSUME SettingsInv(ui), Settings!Leaves PROVE SettingsInv(ui')
<1> DEFINE u == [ui EXCEPT !.shown = 2, !.loading = "", !.resetting = FALSE,
                           !.deleting = FALSE, !.leaving = "no", !.signedIn = TRUE,
                           !.mixed = FALSE, !.raced = FALSE, !.calls = Settings!NoCalls]
<1>1. SettingsInv(u)
  <2>1. "calls" \in DOMAIN ui /\ "resetting" \in DOMAIN ui /\ "deleting" \in DOMAIN ui
    BY DEF SettingsInv, Page, Guards
  <2> QED BY <2>1 DEF SettingsInv, Page, Slots, Guards, Once, Fields, Settings!NoCalls,
             Settings!Idle
<1>2. ui' = Settings!fetched(u)
  BY DEF Settings!Leaves
<1> HIDE DEF u
<1> QED BY <1>1, <1>2, SettingsFetches

LEMMA SettingsShows ==
    ASSUME SettingsInv(ui), NEW i,
           Settings!PortfolioAnswers(i) \/ \E op : Settings!CapitalAnswers(i, op)
    PROVE  SettingsInv(ui')
<1> DEFINE r == [ui EXCEPT !.raced = TRUE]
           s == [ui EXCEPT !.shown = Settings!Reply(ui, i)]
<1>1. SettingsInv(r) /\ SettingsInv(s)
  BY SettingsSets
<1>2. \/ ui' = Settings!End(r, i) \/ ui' = Settings!End(s, i)
      \/ ui' = Settings!setLoading(Settings!End(ui, i), "")
  BY DEF Settings!PortfolioAnswers, Settings!CapitalAnswers
<1> HIDE DEF r, s
<1>3. SettingsInv(Settings!End(ui, i)) /\ SettingsInv(Settings!End(r, i)) /\ SettingsInv(Settings!End(s, i))
  BY <1>1, SettingsEnd
<1> QED BY <1>2, <1>3, SettingsMarks

LEMMA SettingsServe ==
    ASSUME SettingsInv(ui), NEW i, Settings!Serve(i) PROVE SettingsInv(ui')
<1> DEFINE w == Settings!Effect(ui, ui.calls[i])
<1>1. \/ ui' = [ui EXCEPT !.calls[i].at = "err"]
      \/ \E g, a : ui' = [[w EXCEPT !.calls[i].got = g] EXCEPT !.calls[i].at = a]
  BY DEF Settings!Serve, Settings!Outcomes
<1>2. SettingsRests(ui, w)
  BY DEF SettingsInv, SettingsRests, Page, Kept, Guards, Rests, Fields, Slots, Settings!Effect
<1> HIDE DEF w
<1>3. SettingsRests(ui, ui')
  BY <1>1, <1>2, Serves DEF SettingsInv, SettingsRests, Guards
<1> QED BY <1>3, SettingsStep

LEMMA SettingsAnswers ==
    ASSUME SettingsInv(ui), NEW i \in DOMAIN ui.calls,
           \/ Settings!ResetAccountAnswers(i)
           \/ Settings!LogoutAnswers(i)
           \/ Settings!DeleteAccountAnswers(i)
    PROVE  SettingsInv(ui')
<1>1. CASE Settings!ResetAccountAnswers(i)
  <2>1. PICK l : ui' = [[ui EXCEPT !.resetting = FALSE, !.raced = TRUE, !.leaving = l]
        EXCEPT !.calls[i] = Settings!Idle]
    BY <1>1 DEF Settings!ResetAccountAnswers, Settings!End
  <2>2. SettingsMoves(ui, ui', i, Settings!Idle)
    BY <1>1, <2>1 DEF SettingsInv, SettingsMoves, Called, Moves, Put, Page, Guards, Fields,
       Settings!ResetAccountAnswers, Settings!Answered, Settings!Idle
  <2> QED BY <2>2, SettingsStep
<1>2. CASE Settings!LogoutAnswers(i)
  <2>1. ui' = [[ui EXCEPT !.signedIn = FALSE, !.deleting = FALSE, !.leaving = "login"]
        EXCEPT !.calls[i] = Settings!Idle]
    BY <1>2 DEF Settings!LogoutAnswers, Settings!End
  <2>2. SettingsMoves(ui, ui', i, Settings!Idle)
    BY <1>2, <2>1 DEF SettingsInv, SettingsMoves, Called, Moves, Put, Page, Guards, Fields,
       Settings!LogoutAnswers, Settings!Answered, Settings!Idle
  <2> QED BY <2>2, SettingsStep
<1>3. CASE Settings!DeleteAccountAnswers(i)
  <2>1. CASE ui.calls[i].at # "ok"
    <3>1. ui' = [[ui EXCEPT !.deleting = FALSE]
          EXCEPT !.calls[i] = Settings!Idle]
      BY <1>3, <2>1 DEF Settings!DeleteAccountAnswers, Settings!End
    <3>2. SettingsMoves(ui, ui', i, Settings!Idle)
      BY <1>3, <2>1, <3>1 DEF SettingsInv, SettingsMoves, Called, Moves, Put, Page, Guards, Fields,
         Settings!DeleteAccountAnswers, Settings!Answered, Settings!Idle
    <3> QED BY <3>2, SettingsStep
  <2>2. CASE ui.calls[i].at = "ok"
    <3> DEFINE c == [Settings!call("logout", "none") EXCEPT !.mine = ui.calls[i].mine]
    <3>1. ui' = [ui EXCEPT !.calls[i] = c]
      BY <1>3, <2>2 DEF Settings!DeleteAccountAnswers, Settings!Follow
    <3>2. ui.calls[i].op = "deleteAccount"
      BY <1>3 DEF Settings!DeleteAccountAnswers, Settings!Answered
    <3>3. c.op = "logout" /\ Fields \subseteq DOMAIN c
      BY DEF Settings!call, Fields
    <3>4. ui.deleting = TRUE
      BY <3>2 DEF SettingsInv, Guards, Once
    <3> HIDE DEF c
    <3>5. SettingsMoves(ui, ui', i, c)
      BY <3>1, <3>2, <3>3, <3>4 DEF SettingsInv, SettingsMoves, Called, Moves, Put, Page, Guards
    <3> QED BY <3>5, SettingsStep
  <2> QED BY <1>3, <2>1, <2>2
<1> QED BY <1>1, <1>2, <1>3

LEMMA SettingsNext == ASSUME SettingsInv(ui), Settings!Next PROVE SettingsInv(ui')
BY SettingsCapital, SettingsResets, SettingsDeletes, SettingsLeaves, SettingsShows, SettingsServe,
   SettingsAnswers
   DEF Settings!Next, Settings!Answers

\* Changes of the capital: one at a time, and it is the one that is marked.
ChangesInv(u) ==
    /\ Page(u) /\ "mixed" \in DOMAIN u /\ "loading" \in DOMAIN u
    /\ \/ u.mixed = TRUE
       \/ \A i \in DOMAIN u.calls : u.calls[i].op \in Settings!Changes =>
            u.loading = u.calls[i].op /\ \A j \in DOMAIN u.calls : u.calls[j].op \in Settings!Changes => i = j
\* The mark becomes x, and no call of v is a change that is none in u.
Marks(u, v, x) ==
    /\ Page(v) /\ DOMAIN v.calls = DOMAIN u.calls /\ Rests(u, v, "mixed") /\ "loading" \in DOMAIN v
    /\ \A i \in DOMAIN u.calls : v.calls[i].op \in Settings!Changes => v.calls[i].op = u.calls[i].op
    /\ v.loading = x

LEMMA ChangesRest == ASSUME NEW u, ChangesInv(u), NEW v, Marks(u, v, u.loading) PROVE ChangesInv(v)
BY DEF ChangesInv, Marks, Rests

LEMMA ChangesOther ==
    ASSUME NEW u, ChangesInv(u), NEW v, NEW k, NEW c, Called(u, v, k, c), c.op \notin Settings!Changes,
           Rests(u, v, "mixed"), Rests(u, v, "loading")
    PROVE  ChangesInv(v)
<1>1. Page(v) /\ DOMAIN v.calls = DOMAIN u.calls
  BY CalledPage DEF ChangesInv
<1> QED BY <1>1, ChangesRest DEF ChangesInv, Marks, Called, Put, Rests

LEMMA ChangesMark ==
    ASSUME NEW u, Page(u), "mixed" \in DOMAIN u, "loading" \in DOMAIN u, NEW x
    PROVE  Marks(u, Settings!setLoading(u, x), x)
<1>1. CASE u.loading = x
  <2>1. Settings!setLoading(u, x) = u
    BY <1>1 DEF Settings!setLoading
  <2> QED BY <1>1, <2>1 DEF Marks, Rests, Page
<1>2. CASE u.loading # x
  <2> DEFINE c == Settings!call("portfolio", "none")
             v == Settings!setLoading(u, x)
  <2>1. PICK r, k : v = [[[u EXCEPT !.loading = x] EXCEPT !.raced = r] EXCEPT !.calls[k] = c]
    BY <1>2 DEF Settings!setLoading, Settings!fetched, Settings!Send
  <2>2. c.op \notin Settings!Changes /\ Fields \subseteq DOMAIN c
    BY DEF Fields, Settings!call, Settings!Changes
  <2> HIDE DEF c, v
  <2>3. v.calls = Put(u.calls, k, c) /\ Rests(u, v, "mixed") /\ "loading" \in DOMAIN v /\ v.loading = x /\ "calls" \in DOMAIN v
    BY <2>1 DEF Page, Put, Rests
  <2>4. Marks(u, v, x)
    BY <2>2, <2>3 DEF Marks, Page, Slots, Put
  <2> QED BY <2>4 DEF v
<1> QED BY <1>1, <1>2

LEMMA ChangesInit == ASSUME Settings!Init PROVE ChangesInv(ui)
<1> DEFINE u == [server |-> 0, shown |-> 2, loading |-> "", resetting |-> FALSE,
                 deleting |-> FALSE, leaving |-> "no", signedIn |-> TRUE, mixed |-> FALSE,
                 raced |-> FALSE, calls |-> Settings!NoCalls]
           c == Settings!call("portfolio", "none")
<1>1. ChangesInv(u)
  BY DEF ChangesInv, Page, Slots, Fields, Settings!NoCalls, Settings!Idle, Settings!Changes
<1>2. \E k, r : ui = [[u EXCEPT !.raced = r] EXCEPT !.calls[k] = c]
  BY DEF Settings!Init, Settings!fetched, Settings!Send
<1>3. c.op \notin Settings!Changes /\ Fields \subseteq DOMAIN c
  BY DEF Fields, Settings!call, Settings!Changes
<1> HIDE DEF u, c
<1>4. \E k : Called(u, ui, k, c) /\ Rests(u, ui, "mixed") /\ Rests(u, ui, "loading")
  BY <1>1, <1>2, <1>3 DEF ChangesInv, Page, Called, Put, Rests
<1> QED BY <1>1, <1>3, <1>4, ChangesOther

LEMMA ChangesCapital ==
    ASSUME ChangesInv(ui), NEW op \in Settings!Changes, Settings!handleCapital(op)
    PROVE  ChangesInv(ui')
<1> DEFINE c == Settings!call(op, "none")
<1>1. PICK k, b : /\ ui' = Settings!setLoading([[ui EXCEPT !.mixed = b] EXCEPT !.calls[k] = c], op)
                  /\ b = (ui.mixed \/ Settings!ChangeCalls(ui) \ Settings!Under(ui, op) # {})
  BY DEF Settings!handleCapital, Settings!Send
<1> DEFINE w == [[ui EXCEPT !.mixed = b] EXCEPT !.calls[k] = c]
<1>2. w.calls = Put(ui.calls, k, c) /\ w.mixed = b /\ {"calls", "mixed", "loading"} \subseteq DOMAIN w
  BY DEF ChangesInv, Page, Put
<1>3. c.op = op /\ Fields \subseteq DOMAIN c
  BY DEF Fields, Settings!call
<1>4. b # TRUE => ui.mixed # TRUE /\ \A j \in DOMAIN ui.calls : ui.calls[j].op \notin Settings!Changes
  <2>1. SUFFICES ASSUME b # TRUE, NEW j \in DOMAIN ui.calls, ui.calls[j].op \in Settings!Changes PROVE FALSE
    BY <1>1
  <2>2. ui.mixed # TRUE /\ Settings!ChangeCalls(ui) \ Settings!Under(ui, op) = {}
    BY <1>1, <2>1
  <2>3. j \in Settings!ChangeCalls(ui)
    BY <2>1 DEF Settings!ChangeCalls, Settings!Under
  <2>4. ui.calls[j].op = op
    BY <2>2, <2>3 DEF Settings!Under
  <2>5. ui.loading = op
    BY <2>1, <2>2, <2>4 DEF ChangesInv
  <2> QED BY <2>5 DEF Settings!handleCapital
<1> HIDE DEF c, w
<1>5. Page(w) /\ DOMAIN w.calls = DOMAIN ui.calls
  BY <1>2, <1>3 DEF ChangesInv, Page, Slots, Put
<1>6. Marks(w, ui', op)
  <2>1. Marks(w, Settings!setLoading(w, op), op)
    BY <1>2, <1>5, ChangesMark
  <2> QED BY <1>1, <2>1 DEF w
<1>7. b # TRUE => \A j \in DOMAIN w.calls : w.calls[j].op \in Settings!Changes => j = k /\ w.calls[j].op = op
  BY <1>2, <1>3, <1>4 DEF Put
<1>8. Page(ui') /\ "mixed" \in DOMAIN ui' /\ ui'.mixed = b /\ "loading" \in DOMAIN ui' /\ ui'.loading = op
  BY <1>2, <1>6 DEF Marks, Rests
<1>9. b # TRUE => \A j \in DOMAIN ui'.calls : ui'.calls[j].op \in Settings!Changes => j = k /\ ui'.calls[j].op = op
  BY <1>6, <1>7 DEF Marks
<1> QED BY <1>8, <1>9 DEF ChangesInv

LEMMA ChangesEnd ==
    ASSUME ChangesInv(ui), NEW i \in DOMAIN ui.calls, NEW op \in Settings!Changes, Settings!CapitalAnswers(i, op)
    PROVE  ChangesInv(ui')
<1> DEFINE w == Settings!End(ui, i)
<1>1. ui.calls[i].op = op /\ ui' = Settings!setLoading(w, "")
  BY DEF Settings!CapitalAnswers, Settings!Answered
<1>2. w.calls = Put(ui.calls, i, Settings!Idle) /\ Rests(ui, w, "mixed") /\ {"calls", "mixed", "loading"} \subseteq DOMAIN w
  BY DEF ChangesInv, Page, Put, Rests, Settings!End
<1>3. Settings!Idle.op \notin Settings!Changes /\ Fields \subseteq DOMAIN Settings!Idle
  BY DEF Fields, Settings!Idle, Settings!Changes
<1> HIDE DEF w
<1>4. Page(w) /\ DOMAIN w.calls = DOMAIN ui.calls
  BY <1>2, <1>3 DEF ChangesInv, Page, Slots, Put
<1>5. ui.mixed # TRUE => \A j \in DOMAIN w.calls : w.calls[j].op \notin Settings!Changes
  BY <1>1, <1>2, <1>3 DEF ChangesInv, Put
<1>6. Marks(w, ui', "")
  BY <1>1, <1>2, <1>4, ChangesMark
<1> QED BY <1>2, <1>5, <1>6 DEF ChangesInv, Marks, Rests

\* What says nothing of the capital.
LEMMA ChangesAside ==
    ASSUME ChangesInv(ui), NEW i,
           \/ Settings!handleResetAccount \/ Settings!handleDeleteAccount
           \/ Settings!PortfolioAnswers(i) \/ Settings!ResetAccountAnswers(i)
           \/ Settings!DeleteAccountAnswers(i) \/ Settings!LogoutAnswers(i)
    PROVE  ChangesInv(ui')
<1> DEFINE Same(w) == w.calls = ui.calls /\ "calls" \in DOMAIN w /\ Rests(ui, w, "mixed") /\ Rests(ui, w, "loading")
           Aside(c) == c.op \notin Settings!Changes /\ Fields \subseteq DOMAIN c
<1>1. \E w, k, c : Same(w) /\ Aside(c) /\ ui' = [w EXCEPT !.calls[k] = c]
  <2> DEFINE H(k, c) == \E w : Same(w) /\ ui' = [w EXCEPT !.calls[k] = c]
  <2>1. \A op \in {"resetAccount", "deleteAccount"} : Aside(Settings!call(op, "none"))
    BY DEF Fields, Settings!call, Settings!Changes
  <2>2. \A m : Aside([Settings!call("logout", "none") EXCEPT !.mine = m])
    BY DEF Fields, Settings!call, Settings!Changes
  <2>3. Aside(Settings!Idle)
    BY DEF Fields, Settings!Idle, Settings!Changes
  <2>4. CASE Settings!handleResetAccount
    <3>1. \E k : H(k, Settings!call("resetAccount", "none"))
      BY <2>4 DEF ChangesInv, Page, Rests, Settings!handleResetAccount, Settings!Send
    <3> HIDE DEF Same, Aside
    <3> QED BY <3>1, <2>1
  <2>5. CASE Settings!handleDeleteAccount
    <3>1. \E k : H(k, Settings!call("deleteAccount", "none"))
      BY <2>5 DEF ChangesInv, Page, Rests, Settings!handleDeleteAccount, Settings!Send
    <3> HIDE DEF Same, Aside
    <3> QED BY <3>1, <2>1
  <2>6. CASE Settings!PortfolioAnswers(i)
    <3> DEFINE a == [ui EXCEPT !.shown = Settings!Reply(ui, i)]
               b == [ui EXCEPT !.raced = TRUE]
    <3>1. Same(a) /\ Same(b)
      BY DEF ChangesInv, Page, Rests
    <3>2. ui' = [a EXCEPT !.calls[i] = Settings!Idle] \/ ui' = [b EXCEPT !.calls[i] = Settings!Idle]
      BY <2>6 DEF Settings!PortfolioAnswers, Settings!End
    <3> HIDE DEF Same, Aside, a, b
    <3> QED BY <3>1, <3>2, <2>3
  <2>7. CASE Settings!ResetAccountAnswers(i)
    <3>1. PICK l : ui' = [[ui EXCEPT !.resetting = FALSE, !.raced = TRUE, !.leaving = l] EXCEPT !.calls[i] = Settings!Idle]
      BY <2>7 DEF Settings!ResetAccountAnswers, Settings!End
    <3> DEFINE a == [ui EXCEPT !.resetting = FALSE, !.raced = TRUE, !.leaving = l]
    <3>2. Same(a)
      BY DEF ChangesInv, Page, Rests
    <3>3. ui' = [a EXCEPT !.calls[i] = Settings!Idle]
      BY <3>1
    <3> HIDE DEF Same, Aside, a
    <3> QED BY <3>2, <3>3, <2>3
  <2>8. CASE Settings!LogoutAnswers(i)
    <3> DEFINE a == [ui EXCEPT !.signedIn = FALSE, !.deleting = FALSE, !.leaving = "login"]
    <3>1. Same(a)
      BY DEF ChangesInv, Page, Rests
    <3>2. ui' = [a EXCEPT !.calls[i] = Settings!Idle]
      BY <2>8 DEF Settings!LogoutAnswers, Settings!End
    <3> HIDE DEF Same, Aside, a
    <3> QED BY <3>1, <3>2, <2>3
  <2>9. CASE Settings!DeleteAccountAnswers(i)
    <3> DEFINE a == [ui EXCEPT !.deleting = FALSE]
               c == [Settings!call("logout", "none") EXCEPT !.mine = ui.calls[i].mine]
    <3>1. Same(a) /\ Same(ui)
      BY DEF ChangesInv, Page, Rests
    <3>2. ui' = [a EXCEPT !.calls[i] = Settings!Idle] \/ ui' = [ui EXCEPT !.calls[i] = c]
      BY <2>9 DEF Settings!DeleteAccountAnswers, Settings!End, Settings!Follow
    <3>3. Aside(c)
      BY <2>2
    <3> HIDE DEF Same, Aside, a, c
    <3> QED BY <3>1, <3>2, <3>3, <2>3
  <2> QED BY <2>4, <2>5, <2>6, <2>7, <2>8, <2>9
<1>2. PICK w, k, c : Same(w) /\ Aside(c) /\ ui' = [w EXCEPT !.calls[k] = c]
  BY <1>1
<1>3. Called(ui, ui', k, c) /\ Rests(ui, ui', "mixed") /\ Rests(ui, ui', "loading")
  BY <1>2 DEF Called, Put, Rests
<1> QED BY <1>2, <1>3, ChangesOther

LEMMA ChangesLeave == ASSUME ChangesInv(ui), Settings!Leaves PROVE ChangesInv(ui')
<1> DEFINE u == [ui EXCEPT !.shown = 2, !.loading = "", !.resetting = FALSE,
                           !.deleting = FALSE, !.leaving = "no", !.signedIn = TRUE,
                           !.mixed = FALSE, !.raced = FALSE, !.calls = Settings!NoCalls]
           c == Settings!call("portfolio", "none")
<1>1. ChangesInv(u)
  <2>1. "calls" \in DOMAIN ui /\ "mixed" \in DOMAIN ui /\ "loading" \in DOMAIN ui
    BY DEF ChangesInv, Page
  <2> QED BY <2>1 DEF ChangesInv, Page, Slots, Fields, Settings!NoCalls, Settings!Idle,
             Settings!Changes
<1>2. \E k, r : ui' = [[u EXCEPT !.raced = r] EXCEPT !.calls[k] = c]
  BY DEF Settings!Leaves, Settings!fetched, Settings!Send
<1>3. c.op \notin Settings!Changes /\ Fields \subseteq DOMAIN c
  BY DEF Fields, Settings!call, Settings!Changes
<1> HIDE DEF u, c
<1>4. \E k : Called(u, ui', k, c) /\ Rests(u, ui', "mixed") /\ Rests(u, ui', "loading")
  BY <1>1, <1>2, <1>3 DEF ChangesInv, Page, Called, Put, Rests
<1> QED BY <1>1, <1>3, <1>4, ChangesOther

LEMMA ChangesServe == ASSUME ChangesInv(ui), NEW i, Settings!Serve(i) PROVE ChangesInv(ui')
<1> DEFINE w == Settings!Effect(ui, ui.calls[i])
<1>1. \/ ui' = [ui EXCEPT !.calls[i].at = "err"]
      \/ \E g, a : ui' = [[w EXCEPT !.calls[i].got = g] EXCEPT !.calls[i].at = a]
  BY DEF Settings!Serve, Settings!Outcomes
<1>2. Kept(ui, w) /\ Rests(ui, w, "mixed") /\ Rests(ui, w, "loading")
  BY DEF ChangesInv, Page, Kept, Rests, Settings!Effect
<1> HIDE DEF w
<1>3. Kept(ui, ui') /\ Rests(ui, ui', "mixed") /\ Rests(ui, ui', "loading")
  BY <1>1, <1>2, Serves DEF ChangesInv
<1>4. Marks(ui, ui', ui.loading)
  BY <1>3 DEF Marks, Kept, Rests
<1> QED BY <1>4, ChangesRest

LEMMA ChangesNext == ASSUME ChangesInv(ui), Settings!Next PROVE ChangesInv(ui')
BY ChangesCapital, ChangesEnd, ChangesAside, ChangesLeave, ChangesServe DEF Settings!Next,
   Settings!Answers

LEMMA SettingsSubmits == ASSUME SettingsInv(ui), ChangesInv(ui) PROVE Settings!OneSubmission
<1>1. \A S : Settings!Cardinality(S) = Cardinality(S)
  BY DEF Cardinality, Settings!Cardinality
<1>2. Cardinality(Settings!Under(ui, "resetAccount")) <= 1
  BY OnceCard DEF SettingsInv, Guards, Settings!Under
<1>3. Cardinality(Settings!Under(ui, "deleteAccount")) <= 1
  BY OnceCard DEF SettingsInv, Guards, Settings!Under
<1>4. ASSUME NEW op \in Settings!Changes, ui.mixed # TRUE PROVE Cardinality(Settings!Under(ui, op)) <= 1
  <2>1. Once(ui.calls, Settings!Changes, TRUE)
    BY <1>4 DEF ChangesInv, Once
  <2>2. Settings!Under(ui, op) \subseteq {i \in DOMAIN ui.calls : ui.calls[i].op \in Settings!Changes}
    BY DEF Settings!Under
  <2> QED BY <2>1, <2>2, OnceCard
<1> QED BY <1>1, <1>2, <1>3, <1>4 DEF Settings!OneSubmission
================================================================================
