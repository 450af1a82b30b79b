----------------------------- MODULE AdminAccounts -----------------------------
(* The control centre of a root admin. Everything is fetched by one refresh, of *)
(* which at most one is under way; whoever asks for another waits for that one. *)
(* A handler refreshes with the filter it was rendered with. The accounts (Init,*)
(* Next) and the groups with the auto-approval setting (InitGroups, NextGroups) *)
(* are two parts of the page that meet only in the refresh: each is followed on *)
(* its own.                                                                     *)
EXTENDS PageCalls

CONSTANTS
    Normal, Group,      \* the values of the filter: no group, the group
    Users

VARIABLE ui

Filters == {Normal, Group}
NoUser == "none"

\* A refresh loads the parts of the page side by side. What it has got of a part:
\* that the backend has answered (Due) or that this is over (In), and the part
\* itself as long as the answer under way is as the backend has it.
Parts == {"rows", "groups", "auto"}
Due == [rows |-> "rowsDue", groups |-> "groupsDue", auto |-> "autoDue"]
In == [rows |-> "rowsIn", groups |-> "groupsIn", auto |-> "autoIn"]
Gots == Parts \cup {Due[p] : p \in Parts} \cup {In[p] : p \in Parts}

\* current: the parts on screen that are as the backend has them; rowsFor: the
\* filter of the rows on screen; clicked: the filter a handler under way was
\* rendered with; raced: since the last refresh began a call failed, another
\* refresh was asked for, or it was for a filter that had been left. What is on
\* screen is then not followed until the next refresh begins, which brings every
\* part anew.
Race(u, b) ==
    IF b THEN [u EXCEPT !.raced = TRUE, !.current = {}, !.rowsFor = "none"] ELSE u

Refreshing(u) == Under(u, "refresh") # {}

\* Who finds a refresh under way gets its answers.
refreshDashboard(u, f) ==
    IF Refreshing(u) THEN Race(u, TRUE)
    ELSE Send(Race([u EXCEPT !.raced = FALSE], f # u.filter), call("refresh", f))

\* The answer that the admin is not signed in, or not one: the dialogs close and
\* the page is left.
resetToVerifyStage(u) == [u EXCEPT !.modal = NoUser, !.detail = NoUser, !.left = TRUE]

\* On opening and whenever the filter or the level of the admin changes: the
\* page is a spinner until the refresh is over.
bootstrapAdmin(u) == refreshDashboard([u EXCEPT !.bootstrapping = TRUE], u.filter)

\* One slot stays free for the refresh.
Room(u) == Cardinality({i \in DOMAIN u.calls : u.calls[i].op \notin {"idle", "refresh"}}) < MaxCalls - 1

Clicked(u, h) == [u EXCEPT !.clicked[h] = u.filter]
Done(u, h) == [u EXCEPT !.clicked[h] = Normal]

\* A change makes what it changes out of date wherever it is held.
Outdate(u, p) ==
    [u EXCEPT !.current = @ \ p,
              !.calls = [i \in DOMAIN u.calls |-> [u.calls[i] EXCEPT !.got = @ \ p]]]

Failed(i) == ui.calls[i].at = "err"
Fails(u, i) == End(Race(u, TRUE), i)

\* The parts of an answer replace those on the page.
Apply(u, i, parts) ==
    IF u.raced THEN u
    ELSE [u EXCEPT !.current = (@ \ parts) \cup (u.calls[i].got \cap parts),
              !.rowsFor = IF "rows" \in parts THEN u.calls[i].id ELSE @]

setFilters(f) ==
    /\ ~ui.left /\ ~ui.bootstrapping /\ f # ui.filter /\ (f = Group => ui.root)
    /\ ui' = bootstrapAdmin([ui EXCEPT !.filter = f])

refreshButton == ~ui.left /\ ~ui.bootstrapping /\ ui' = refreshDashboard(ui, ui.filter)

\* Each part is read and comes in on its own, or fails.
ServePart(i, p) ==
    /\ i \in Under(ui, "refresh") /\ ui.calls[i].got \cap {Due[p], In[p]} = {}
    /\ ui' = [ui EXCEPT !.calls[i].got = @ \cup {p, Due[p]}]

Over(u, i, p) == [u EXCEPT !.calls[i].got = (@ \ {p, Due[p]}) \cup {In[p]}]

PartArrives(i, p) ==
    /\ i \in Under(ui, "refresh") /\ Due[p] \in ui.calls[i].got
    /\ ui' = Over(Apply(ui, i, {p}), i, p)

PartFails(i, p) ==
    /\ i \in Under(ui, "refresh") /\ In[p] \notin ui.calls[i].got
    /\ ui' = [Over(Race(ui, TRUE), i, p) EXCEPT !.calls[i].at = "err"]

\* The first figures tell that the admin is root, which is a reason to refresh: the
\* refresh under way will do.
LevelArrives ==
    /\ Refreshing(ui) /\ ~ui.root /\ ~ui.left
    /\ ui' = [ui EXCEPT !.root = TRUE, !.bootstrapping = TRUE]

\* When all parts are over everyone who waits goes on. The level may come last,
\* and then there is another refresh; and a part may have been denied.
RefreshAnswers(i, parts) ==
    /\ i \in Under(ui, "refresh") /\ {In[p] : p \in parts} \subseteq ui.calls[i].got
    /\ LET u == [ui EXCEPT !.bootstrapping = FALSE,
                    !.calls = [j \in DOMAIN ui.calls |->
                        IF j = i THEN Idle
                        ELSE IF ui.calls[j].op = "join" THEN [ui.calls[j] EXCEPT !.at = "ok"]
                        ELSE ui.calls[j]]]
       IN  \/ (ui.root \/ ui.left \/ Failed(i)) /\ ui' = u
           \/ ~ui.root /\ ~ui.left /\ ui' = bootstrapAdmin([u EXCEPT !.root = TRUE])
           \/ Failed(i) /\ ui' = resetToVerifyStage(u)

RefreshGoesOn(parts) ==
    \/ LevelArrives
    \/ \E i \in DOMAIN ui.calls :
         \/ RefreshAnswers(i, parts)
         \/ \E p \in parts : ServePart(i, p) \/ PartArrives(i, p) \/ PartFails(i, p)

\* Handler h waits for the refresh.
Await(u, i, h) == refreshDashboard([u EXCEPT !.calls[i] = call("join", h)], u.clicked[h])

\* A handler that waits for the refresh of another is let go by it.
Refreshed ==
    (ui.bootstrapping \/ \E i \in Under(ui, "join") : ui.calls[i].at = "sent") => Refreshing(ui)

CallsOf(ops, h) ==
    {i \in DOMAIN ui.calls :
        ui.calls[i].op \in ops \/ (ui.calls[i].op = "join" /\ ui.calls[i].id = h)}

\* The panel shows the accounts of the applied filter, the groups and the setting
\* as they are.
Faithful(parts) == ui.current = parts /\ ui.rowsFor = ui.filter

--------------------------------------------------------------------------------
(* The accounts: the list that passes the applied filter and the dialog of one *)
(* account, whose detail is fetched on its own.                                *)
UserActions == {"change", "delete"}
Ops == UserActions \cup {"inline", "refresh", "detail", "after", "join"}
Handlers == {"act", "del"}

TypeOK ==
    /\ CallsOK(ui.calls, Ops, Users \cup Filters \cup Handlers, Gots)
    /\ ui \in [current : SUBSET Parts, filter : Filters, rowsFor : Filters \cup {"none"},
               bootstrapping : BOOLEAN, root : BOOLEAN, clicked : [Handlers -> Filters],
               modal : Users \cup {NoUser}, detail : Users \cup {NoUser},
               acting : Users \cup {NoUser}, raced : BOOLEAN, mixed : BOOLEAN,
               left : BOOLEAN, calls : {ui.calls}]

--------------------------------------------------------------------------------
Mounted ==
    bootstrapAdmin(
        [current |-> {}, filter |-> Normal, rowsFor |-> "none", bootstrapping |-> TRUE,
         root |-> FALSE, clicked |-> [h \in Handlers |-> Normal], modal |-> NoUser,
         detail |-> NoUser, acting |-> NoUser, raced |-> FALSE, mixed |-> FALSE,
         left |-> FALSE, calls |-> NoCalls])

Init == ui = Mounted

Rendered == ~ui.left /\ ~ui.bootstrapping /\ ui.modal = NoUser

\* The detail that is shown stays until the new one is here.
openManageModal(x) ==
    /\ Rendered /\ Room(ui)
    /\ ui' = Send([ui EXCEPT !.modal = x], call("detail", x))
closed(u) == [u EXCEPT !.modal = NoUser, !.detail = NoUser, !.mixed = FALSE]
closeManageModal == ~ui.left /\ ~ui.bootstrapping /\ ui.modal # NoUser /\ ui' = closed(ui)

\* Approve, reactivate, deactivate, set the duration or the role, sign out,
\* delete: one at a time.
runUserAction(op) ==
    /\ ~ui.left /\ ~ui.bootstrapping /\ ui.modal # NoUser /\ ui.acting = NoUser /\ Room(ui)
    /\ ui' = Send(Clicked([ui EXCEPT !.acting = ui.modal], "act"), call(op, ui.modal))

\* The button of a row marks nothing as busy (here: one such call at a time).
deleteInline(x) ==
    /\ Rendered /\ Room(ui) /\ CallsOf({"inline"}, "del") = {}
    /\ ui' = Send(Clicked(ui, "del"), call("inline", x))

--------------------------------------------------------------------------------
\* Any call may fail.
Possible(u, c) == TRUE
Effect(u, c) == IF c.op \in UserActions \cup {"inline"} THEN Outdate(u, {"rows"}) ELSE u
Got(u, c) == {}
Serve(i) == ui.calls[i].op \notin {"join", "refresh"} /\ ui' \in Outcomes(ui, i, Possible, Effect, Got)

ActionFails(i) == Fails(Done([ui EXCEPT !.acting = NoUser], "act"), i)

ActionAnswers(i, op) ==
    /\ Answered(ui, i, op)
    /\ \/ Failed(i) /\ ui' = ActionFails(i)
       \/ Failed(i) /\ ui' = resetToVerifyStage(ActionFails(i))
       \/ ~Failed(i) /\ ui' = Await(IF op = "delete" THEN closed(ui) ELSE ui, i, "act")

InlineAnswers(i) ==
    /\ Answered(ui, i, "inline")
    /\ LET u == Fails(Done(ui, "del"), i)
       IN  \/ Failed(i) /\ (ui' = u \/ ui' = resetToVerifyStage(u))
           \/ ~Failed(i) /\ ui' = Await(ui, i, "del")

\* After the refresh the detail of the account is fetched again, also of one
\* that was deleted and whose dialog was closed.
JoinAnswers(i) ==
    /\ Answered(ui, i, "join")
    /\ ui' = IF ui.calls[i].id = "act" THEN [ui EXCEPT !.calls[i] = call("after", ui.acting)]
             ELSE End(Done(ui, "del"), i)

\* Whoever the dialog is about by now.
setDetail(u, i) ==
    IF Failed(i) THEN End(u, i)
    ELSE End([u EXCEPT !.detail = ui.calls[i].id, !.mixed = ui.calls[i].id # u.modal], i)

DetailAnswers(i) ==
    /\ Answered(ui, i, "detail")
    /\ \/ ui' = setDetail(ui, i)
       \/ Failed(i) /\ ~ui.left /\ ui' = resetToVerifyStage(setDetail(ui, i))

AfterAnswers(i) ==
    /\ Answered(ui, i, "after")
    /\ LET u == setDetail(Done([ui EXCEPT !.acting = NoUser], "act"), i)
       IN  ui' = u \/ (Failed(i) /\ ui' = resetToVerifyStage(u))

Answers ==
    \/ RefreshGoesOn({"rows"})
    \/ \E i \in DOMAIN ui.calls :
        \/ Serve(i) \/ InlineAnswers(i) \/ JoinAnswers(i) \/ DetailAnswers(i) \/ AfterAnswers(i)
        \/ \E op \in UserActions : ActionAnswers(i, op)

User ==
    \/ closeManageModal
    \/ Rendered /\ (refreshButton \/ \E f \in Filters : setFilters(f))
    \/ \E x \in Users : openManageModal(x) \/ deleteInline(x)
    \/ \E op \in UserActions : runUserAction(op)

\* A page that was left is opened again (a bound: once its calls have ended).
Reopen == ui.left /\ Quiet(ui) /\ ui' = Mounted

Next == Answers \/ Reopen \/ User

--------------------------------------------------------------------------------
\* No spinner and no disabled button outlives the calls it stands for.
NothingLocked ==
    Refreshed /\ (ui.acting # NoUser => CallsOf(UserActions \cup {"after"}, "act") # {})

\* One refresh and one action of the dialog are under way.
OneSubmission ==
    /\ Cardinality(Under(ui, "refresh")) <= 1
    /\ Cardinality(CallsOf(UserActions \cup {"after"}, "act")) <= 1

\* With nothing under way the list is that of the applied filter and up to date,
\* unless a call failed, a refresh was asked for during another, or an answer came
\* for a filter that had been left: and after any of these the next refresh that
\* comes through alone makes it good. The detail is that of the account the dialog
\* is open for, until an answer crosses the change to another.
ShownIsTrue ==
    Quiet(ui) /\ ~ui.left =>
        /\ ~ui.raced => Faithful({"rows"})
        /\ ~ui.mixed => ui.detail \in {NoUser, ui.modal}

--------------------------------------------------------------------------------
(* The groups, whose handlers share one mark, and the auto-approval setting,   *)
(* which a refresh and its own switch both write.                              *)
GroupActions == {"create", "remove", "move", "toggle", "link"}
GroupOps == GroupActions \cup {"refresh", "groups", "auto", "join"}
GroupHandlers == {"grp"}

GroupsOK ==
    /\ CallsOK(ui.calls, GroupOps, Filters \cup GroupActions \cup GroupHandlers, Gots)
    /\ ui \in [current : SUBSET Parts, filter : Filters, rowsFor : Filters \cup {"none"},
               bootstrapping : BOOLEAN, root : BOOLEAN, clicked : [GroupHandlers -> Filters],
               grouping : BOOLEAN, saving : BOOLEAN, modal : {NoUser}, detail : {NoUser},
               raced : BOOLEAN, left : BOOLEAN, calls : {ui.calls}]

--------------------------------------------------------------------------------
GroupsMounted ==
    bootstrapAdmin(
        [current |-> {}, filter |-> Normal, rowsFor |-> "none", bootstrapping |-> TRUE,
         root |-> FALSE, clicked |-> [h \in GroupHandlers |-> Normal], grouping |-> FALSE,
         saving |-> FALSE, modal |-> NoUser, detail |-> NoUser, raced |-> FALSE,
         left |-> FALSE, calls |-> NoCalls])

InitGroups == ui = GroupsMounted

GroupsRendered == ~ui.left /\ ~ui.bootstrapping /\ ui.root /\ Room(ui)

\* Create, rename or delete a group, move a user to it, switch its auto-approval
\* (of the applied group), make its link: one at a time.
handleGroup(op) ==
    /\ GroupsRendered /\ ~ui.grouping /\ (op = "toggle" => ui.filter = Group)
    /\ ui' = Send(Clicked([ui EXCEPT !.grouping = TRUE], "grp"), call(op, Group))

\* The switch of the header is disabled during a refresh, the other is not.
handleToggleAutoApproval ==
    /\ GroupsRendered /\ ~ui.saving
    /\ ui' = Send(Race([ui EXCEPT !.saving = TRUE], Refreshing(ui)), call("auto", Normal))

--------------------------------------------------------------------------------
Changes(op) ==
    CASE op = "move" -> {"rows"}
      [] op \in {"create", "remove"} -> {"rows", "groups"}
      [] op = "toggle" -> {"groups"}
      [] op = "auto" -> {"auto"}
      [] OTHER -> {}

GroupPossible(u, c) == TRUE
GroupEffect(u, c) == Outdate(u, Changes(c.op))
GroupGot(u, c) ==
    IF c.op \in {"groups", "auto"} THEN {c.op} ELSE {}
GroupServe(i) == ui.calls[i].op \notin {"join", "refresh"} /\ ui' \in Outcomes(ui, i, GroupPossible, GroupEffect, GroupGot)

Ungroup(u) == Done([u EXCEPT !.grouping = FALSE], "grp")

\* The groups are fetched again, then everything. A deleted group is no longer
\* the applied one, for which the page refreshes too, with the new filter.
GroupAnswers(i, op) ==
    /\ Answered(ui, i, op)
    /\ LET u == [ui EXCEPT !.calls[i] = call("groups", op)]
       IN  ui' = CASE Failed(i) -> Fails(Ungroup(ui), i)
                   [] ~Failed(i) /\ op = "remove" /\ ui.filter # Normal ->
                        bootstrapAdmin([u EXCEPT !.filter = Normal])
                   [] OTHER -> u

\* A link that could not be made, or copied, ends the handler.
LinkAnswers(i) ==
    /\ Answered(ui, i, "link")
    /\ \/ Failed(i) /\ ui' = Fails(Ungroup(ui), i)
       \/ ~Failed(i) /\ ui' = End(Ungroup(ui), i)
       \/ ~Failed(i) /\ ui' = [ui EXCEPT !.calls[i] = call("groups", "link")]

MoveAnswers(i) ==
    /\ Answered(ui, i, "move")
    /\ ui' = IF Failed(i) THEN Fails(Ungroup(ui), i) ELSE Await(ui, i, "grp")

\* A failure here is reported and the handler goes on. The handler of a link
\* ends here; the others refresh.
GroupsAnswers(i) ==
    /\ Answered(ui, i, "groups")
    /\ LET u == IF Failed(i) THEN Race(ui, TRUE) ELSE Apply(ui, i, {"groups"})
       IN  ui' = IF ui.calls[i].id = "link" THEN End(Ungroup(u), i) ELSE Await(u, i, "grp")

GroupJoinAnswers(i) == Answered(ui, i, "join") /\ ui' = End(Ungroup(ui), i)

AutoAnswers(i) ==
    /\ Answered(ui, i, "auto")
    /\ LET u == [ui EXCEPT !.saving = FALSE]
       IN  \/ Failed(i) /\ ui' = Fails(u, i)
           \/ Failed(i) /\ ui' = resetToVerifyStage(Fails(u, i))
           \/ ~Failed(i) /\ ui' = End(Race(Apply(u, i, {"auto"}), Refreshing(ui)), i)

GroupCallsAnswer ==
    \/ RefreshGoesOn(Parts)
    \/ \E i \in DOMAIN ui.calls :
        \/ GroupServe(i) \/ GroupsAnswers(i) \/ GroupJoinAnswers(i) \/ AutoAnswers(i)
        \/ LinkAnswers(i) \/ MoveAnswers(i)
        \/ \E op \in {"create", "remove", "toggle"} : GroupAnswers(i, op)

GroupsReopen == ui.left /\ Quiet(ui) /\ ui' = GroupsMounted

NextGroups ==
    \/ GroupCallsAnswer \/ GroupsReopen \/ refreshButton \/ handleToggleAutoApproval
    \/ \E f \in Filters : setFilters(f)
    \/ \E op \in GroupActions : handleGroup(op)

--------------------------------------------------------------------------------
\* No spinner and no disabled button outlives the calls it stands for.
GroupsNotLocked ==
    /\ Refreshed
    /\ ui.grouping => CallsOf(GroupActions \cup {"groups"}, "grp") # {}
    /\ ui.saving => Under(ui, "auto") # {}

\* One refresh and one action on the groups are under way.
OneGroupSubmission ==
    /\ Cardinality(Under(ui, "refresh")) <= 1
    /\ Cardinality(CallsOf(GroupActions \cup {"groups"}, "grp")) <= 1

\* With nothing under way groups, setting and accounts are shown as they are,
\* unless since the last refresh began a call failed, another was asked for, or it
\* was made with a filter that had been left.
GroupsAreTrue == Quiet(ui) /\ ~ui.left /\ ~ui.raced => Faithful(Parts)
================================================================================
