--------------------------- MODULE InstitutionsPage ---------------------------
(* The institutions of the platform and, of the one that is opened, a copy of   *)
(* its entry and its members: fetched anew whenever the copy, the search or the *)
(* role filter changes, and never cancelled.                                    *)
EXTENDS PageCalls

CONSTANTS Tenants, Queries, Members

VARIABLE ui

None == "none"
States == {"gone", "off", "on"}
NoMembers == <<None, None>>
Rosters == (Tenants \X Queries) \cup {NoMembers}
Ops == {"list", "members", "create", "role", "active", "delete"}
Nothing == [t \in Tenants |-> "gone"]

\* copy: the state of the opened institution as the page remembers it; members:
\* the institution and the query of the rows on screen; fresh: their roles are
\* those of the backend; raced: calls overlapped that the page does not order.
TypeOK ==
    /\ CallsOK(ui.calls, Ops, (Tenants \cup Members \cup {None}) \X (Queries \cup {None}),
               [Tenants -> States])
    /\ ui \in [server : [Tenants -> States], shown : [Tenants -> States], loading : BOOLEAN,
               tenant : Tenants \cup {None}, copy : States, query : Queries, members : Rosters,
               fresh : BOOLEAN, membersLoading : BOOLEAN, updating : Members \cup {None},
               modal : BOOLEAN, creating : BOOLEAN, raced : BOOLEAN, calls : {ui.calls}]

--------------------------------------------------------------------------------
about(op, x) == call(op, <<x, None>>)

\* What is on screen is not followed any further.
Race(u, b) ==
    IF u.raced \/ b
    THEN [u EXCEPT !.raced = TRUE, !.shown = Nothing, !.members = NoMembers, !.fresh = TRUE] ELSE u

\* In slot i: that of the call it follows, or a free one.
fetchInstitutions(u, i) ==
    Race([u EXCEPT !.loading = TRUE, !.calls[i] = about("list", None)], Under(u, "list") # {})

fetchMembers(u) ==
    Race(Send([u EXCEPT !.membersLoading = TRUE], call("members", <<u.tenant, u.query>>)),
         Under(u, "members") \cup Under(u, "role") # {})

Mounted(server) ==
    fetchInstitutions([server |-> server, shown |-> Nothing, loading |-> TRUE, tenant |-> None,
        copy |-> "gone", query |-> CHOOSE q \in Queries : TRUE, members |-> NoMembers,
        fresh |-> TRUE, membersLoading |-> FALSE, updating |-> None, modal |-> FALSE, creating |-> FALSE,
        raced |-> FALSE, calls |-> NoCalls], 1)

Init == \E s \in [Tenants -> {"gone", "on"}] : ui = Mounted(s)

refreshButton == ~ui.loading /\ CanSend(ui, 1) /\ ui' = fetchInstitutions(ui, Slot(ui))

\* The cards: hidden by the spinner while the list is fetched.
Card(t) == ui.tenant = None /\ ~ui.loading /\ ui.shown[t] # "gone" /\ CanSend(ui, 1)

setSelectedTenant(t) ==
    /\ Card(t)
    /\ ui' = fetchMembers(Race([ui EXCEPT !.tenant = t, !.copy = ui.shown[t]],
                               Under(ui, "active") \cup Under(ui, "delete") # {}))
back == ui.tenant # None /\ ui' = [ui EXCEPT !.tenant = None, !.copy = "gone"]

setMemberFilter(q) ==
    ui.tenant # None /\ q # ui.query /\ CanSend(ui, 1) /\ ui' = fetchMembers([ui EXCEPT !.query = q])

\* The select of a row; a spinner stands in its place while it is updated.
handleRoleChange(m) ==
    /\ ui.tenant # None /\ ~ui.membersLoading /\ ui.members # NoMembers /\ ui.updating # m
    /\ CanSend(ui, 1)
    /\ ui' = Race(Send([ui EXCEPT !.updating = m], about("role", m)),
                  Under(ui, "members") \cup Under(ui, "role") # {})

\* Asks for the opposite of what is on screen; mine: asked from the opened
\* institution. The handler keeps that answer to the end.
handleToggleActive(t) ==
    /\ Card(t) \/ ui.tenant = t
    /\ CanSend(ui, 2)       \* a bound: two calls follow
    /\ LET now == IF ui.tenant = t THEN ui.copy ELSE ui.shown[t]
       IN  ui' = Race(Send(ui, [about("active", t) EXCEPT !.mine = ui.tenant = t,
                                   !.got = {[Nothing EXCEPT ![t] = IF now = "on" THEN "off" ELSE "on"]}]),
                      Under(ui, "active") # {})

handleDeleteInstitution(t) == Card(t) /\ ui' = Send(ui, about("delete", t))

setShowCreateModal(b) == ui.modal # b /\ ui' = [ui EXCEPT !.modal = b]

\* Without a name it is reported and goes no further.
handleCreateInstitution ==
    /\ ui.modal /\ ~ui.creating /\ CanSend(ui, 1)
    /\ ui' = Send([ui EXCEPT !.creating = TRUE], about("create", None))

--------------------------------------------------------------------------------
\* The state a toggle asks for.
Asked(c) == (CHOOSE x \in c.got : TRUE)[c.id[1]]

Possible(u, c) ==
    CASE c.op = "create" -> \E t \in Tenants : u.server[t] = "gone"
      [] c.op \in {"active", "delete"} -> u.server[c.id[1]] # "gone"
      [] OTHER -> TRUE

\* A role changed makes the members fetched before out of date.
Effect(u, c) ==
    CASE c.op = "create" -> [u EXCEPT !.server[CHOOSE t \in Tenants : u.server[t] = "gone"] = "on"]
      [] c.op = "delete" -> [u EXCEPT !.server[c.id[1]] = "gone"]
      [] c.op = "active" -> [u EXCEPT !.server[c.id[1]] = Asked(c)]
      [] c.op = "role" -> [u EXCEPT !.fresh = FALSE,
              !.calls = [i \in DOMAIN u.calls |->
                  IF u.calls[i].op = "members" THEN [u.calls[i] EXCEPT !.got = {}] ELSE u.calls[i]]]
      [] OTHER -> u
Got(u, c) ==
    CASE c.op = "list" -> {u.server}
      [] c.op = "members" -> {u.server}
      [] OTHER -> c.got
Serve(i) == ui' \in Outcomes(ui, i, Possible, Effect, Got)

Failed(i) == ui.calls[i].at = "err"
Fails(u, i) == End(Race(u, TRUE), i)

ListAnswers(i) ==
    /\ Answered(ui, i, "list")
    /\ LET u == [ui EXCEPT !.loading = FALSE]
       IN  ui' = IF Failed(i) THEN Fails(u, i) ELSE End(Race([u EXCEPT !.shown = Reply(ui, i)], FALSE), i)

\* Whatever is open by now.
MembersAnswer(i) ==
    /\ Answered(ui, i, "members")
    /\ LET u == [ui EXCEPT !.membersLoading = FALSE]
       IN  ui' = IF Failed(i) THEN Fails(u, i)
                 ELSE End(Race([u EXCEPT !.members = ui.calls[i].id, !.fresh = ui.calls[i].got # {}], FALSE), i)

CreateAnswers(i) ==
    /\ Answered(ui, i, "create")
    /\ LET u == [ui EXCEPT !.creating = FALSE]
       IN  ui' = IF Failed(i) THEN Fails(u, i) ELSE fetchInstitutions([u EXCEPT !.modal = FALSE], i)

\* The row is patched in the list on screen.
RoleAnswers(i) ==
    /\ Answered(ui, i, "role")
    /\ LET u == [ui EXCEPT !.updating = None]
       IN  ui' = IF Failed(i) THEN Fails(u, i) ELSE fetchInstitutions([u EXCEPT !.fresh = TRUE], i)

\* Asked from the opened institution: whichever is open by now gets the state
\* asked for, and its members are fetched again.
ActiveAnswers(i) ==
    /\ Answered(ui, i, "active") /\ CanSend(ui, 1)
    /\ LET u == fetchInstitutions(ui, i)
       IN  ui' = IF Failed(i) THEN Fails(ui, i)
                 ELSE IF ui.calls[i].mine /\ ui.tenant # None
                 THEN Race(fetchMembers([u EXCEPT !.copy = Asked(ui.calls[i])]),
                           ui.tenant # ui.calls[i].id[1])
                 ELSE u

\* Asked from a card: no institution was open, and one opened since stays open.
DeleteAnswers(i) ==
    /\ Answered(ui, i, "delete")
    /\ ui' = IF Failed(i) THEN Fails(ui, i) ELSE fetchInstitutions(ui, i)

Answers ==
    \E i \in DOMAIN ui.calls :
        \/ Serve(i) \/ ListAnswers(i) \/ MembersAnswer(i) \/ CreateAnswers(i) \/ RoleAnswers(i)
        \/ ActiveAnswers(i) \/ DeleteAnswers(i)

\* The dialog covers the page.
User ==
    \/ handleCreateInstitution
    \/ \E b \in BOOLEAN : setShowCreateModal(b)
    \/ /\ ~ui.modal
       /\ \/ refreshButton \/ back
          \/ \E q \in Queries : setMemberFilter(q)
          \/ \E m \in Members : handleRoleChange(m)
          \/ \E t \in Tenants :
                \/ setSelectedTenant(t) \/ handleToggleActive(t) \/ handleDeleteInstitution(t)

\* A bound: after a failure, or calls in an unordered race, the page is followed
\* until they have ended, and is then opened anew.
Reopen == ui.raced /\ Quiet(ui) /\ ui' = Mounted(ui.server)

Next == Answers \/ Reopen \/ (~ui.raced /\ User)

--------------------------------------------------------------------------------
\* The spinners, the disabled create button and the row being updated wait for a
\* call that is under way; a second fetch of a list may end the spinner early.
NothingLocked ==
    /\ ui.loading => Under(ui, "list") # {}
    /\ ui.membersLoading => Under(ui, "members") # {}
    /\ ui.creating <=> Under(ui, "create") # {}
    /\ ui.updating # None => Under(ui, "role") # {}

OneSubmission == Cardinality(Under(ui, "create")) <= 1

\* With nothing under way the list is that of the backend, and the institution
\* that is open has its state, its members and their roles on screen, unless a
\* call failed or calls overlapped that the page does not order.
ShownIsTrue ==
    Quiet(ui) /\ ~ui.raced =>
        /\ ui.shown = ui.server
        /\ ui.tenant # None => /\ ui.members = <<ui.tenant, ui.query>> /\ ui.fresh
                               /\ ui.copy = ui.server[ui.tenant]
================================================================================
