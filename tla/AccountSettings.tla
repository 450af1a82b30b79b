---------------------------- MODULE AccountSettings ----------------------------
(* The settings page: the cards that change the portfolio, and the preferences, *)
(* which share nothing with them and are a specification of their own.          *)
EXTENDS PageCalls

VARIABLE ui

(* Capital (add, set, reset; one busy mark for the three buttons, each disabled *)
(* by its own value only; the balance fetched again whenever the mark changes)  *)
(* and the account (reset, delete). A change of capital flips the balance       *)
(* between two values.                                                          *)

Balances == {0, 1}
Changes == {"add", "set", "reset"}
Ops == Changes \cup {"portfolio", "resetAccount", "deleteAccount", "logout"}

TypeOK ==
    /\ CallsOK(ui.calls, Ops, {"none"}, Balances)
    /\ ui \in [server : Balances, shown : Balances \cup {2}, loading : Changes \cup {""},
               resetting : BOOLEAN, deleting : BOOLEAN, leaving : {"no", "reload", "login"},
               signedIn : BOOLEAN, mixed : BOOLEAN, raced : BOOLEAN, calls : {ui.calls}]

--------------------------------------------------------------------------------
\* The effect of the busy mark: fetch the balance, no matter what is under way.
fetched(u) ==
    Send([u EXCEPT !.raced = @ \/ Under(u, "portfolio") # {}], call("portfolio", "none"))

setLoading(u, x) == IF u.loading = x THEN u ELSE fetched([u EXCEPT !.loading = x])

Init ==
    ui = fetched([server |-> 0, shown |-> 2, loading |-> "", resetting |-> FALSE,
                  deleting |-> FALSE, leaving |-> "no", signedIn |-> TRUE, mixed |-> FALSE,
                  raced |-> FALSE, calls |-> NoCalls])

ChangeCalls(u) == UNION {Under(u, op) : op \in Changes}

\* An amount that is not one is reported; a reset of the capital asks first.
handleCapital(op) ==
    /\ ui.loading # op /\ CanSend(ui, 2)
    /\ ui' = setLoading(Send([ui EXCEPT !.mixed = @ \/ ChangeCalls(ui) \ Under(ui, op) # {}], call(op, "none")), op)

\* Both ask twice; the two buttons do not disable each other.
handleResetAccount ==
    /\ ~ui.resetting /\ CanSend(ui, 1)
    /\ ui' = Send([ui EXCEPT !.resetting = TRUE], call("resetAccount", "none"))

handleDeleteAccount ==
    /\ ~ui.deleting /\ CanSend(ui, 1)
    /\ ui' = Send([ui EXCEPT !.deleting = TRUE], call("deleteAccount", "none"))

--------------------------------------------------------------------------------
Possible(u, c) == c.op = "deleteAccount" => u.signedIn
Effect(u, c) == IF c.op \in Changes \cup {"resetAccount"} THEN [u EXCEPT !.server = 1 - @] ELSE u
Got(u, c) == IF c.op = "portfolio" THEN {u.server} ELSE {}
Serve(i) == ui' \in Outcomes(ui, i, Possible, Effect, Got)

PortfolioAnswers(i) ==
    /\ Answered(ui, i, "portfolio")
    /\ ui' = End(IF ui.calls[i].at = "ok" THEN [ui EXCEPT !.shown = Reply(ui, i)]
                 ELSE [ui EXCEPT !.raced = TRUE], i)

\* The mark is cleared after success and failure alike.
CapitalAnswers(i, op) == Answered(ui, i, op) /\ ui' = setLoading(End(ui, i), "")

\* The page is loaded anew a second later, with the button enabled until then.
ResetAccountAnswers(i) ==
    /\ Answered(ui, i, "resetAccount")
    /\ ui' = End([ui EXCEPT !.resetting = FALSE, !.raced = TRUE,
                            !.leaving = IF ui.calls[i].at = "ok" THEN "reload" ELSE @], i)

DeleteAccountAnswers(i) ==
    /\ Answered(ui, i, "deleteAccount")
    /\ ui' = IF ui.calls[i].at = "ok" THEN Follow(ui, i, call("logout", "none"))
             ELSE End([ui EXCEPT !.deleting = FALSE], i)

\* The session is cleared whether or not the backend knew of it.
LogoutAnswers(i) ==
    /\ Answered(ui, i, "logout")
    /\ ui' = End([ui EXCEPT !.signedIn = FALSE, !.deleting = FALSE, !.leaving = "login"], i)

\* The browser loads the page anew, of the next account after a delete: nothing
\* of the old page remains.
Leaves ==
    /\ ui.leaving # "no"
    /\ ui' = fetched([ui EXCEPT !.shown = 2, !.loading = "", !.resetting = FALSE,
                                !.deleting = FALSE, !.leaving = "no", !.signedIn = TRUE,
                                !.mixed = FALSE, !.raced = FALSE, !.calls = NoCalls])

Answers ==
    \/ Leaves
    \/ \E i \in DOMAIN ui.calls :
         \/ Serve(i) \/ PortfolioAnswers(i) \/ ResetAccountAnswers(i)
         \/ DeleteAccountAnswers(i) \/ LogoutAnswers(i)
         \/ \E op \in Changes : CapitalAnswers(i, op)

Next ==
    \/ Answers
    \/ ui.signedIn /\ (handleResetAccount \/ handleDeleteAccount \/ \E op \in Changes : handleCapital(op))

--------------------------------------------------------------------------------
\* A disabled button has a call under way that enables it again, although the
\* three capital handlers clear each other's mark.
NothingLocked ==
    /\ ui.loading # "" => Under(ui, ui.loading) # {}
    /\ ui.resetting => Under(ui, "resetAccount") # {}
    /\ ui.deleting => Under(ui, "deleteAccount") \cup Under(ui, "logout") # {}

\* No capital change and no account operation is sent twice at once; two capital
\* changes of different kinds that overlap clear each other's mark and are the
\* exception.
OneSubmission ==
    /\ \A op \in Changes : ui.mixed \/ Cardinality(Under(ui, op)) <= 1
    /\ \A op \in {"resetAccount", "deleteAccount"} : Cardinality(Under(ui, op)) <= 1

\* With nothing under way the balance shown is the backend's, also after a change
\* whose answer was lost, unless a fetch failed or two fetches overlapped. When two
\* changes overlap the second to end finds the mark cleared and fetches nothing.
ShownIsTrue ==
    Quiet(ui) /\ ui.signedIn /\ ~ui.raced /\ ~ui.mixed => ui.shown = ui.server

--------------------------------------------------------------------------------
(* The preferences. A group of them (theme, display and trading, notifications) *)
(* lives in memory and is written to the browser's storage by an effect of its  *)
(* changes; the storage can be cleared.                                         *)

Groups == {"theme", "prefs", "notif"}
Values == {"default", "other"}

PrefsOK ==
    ui \in [memory : [Groups -> Values], stored : [Groups -> Values \cup {"absent"}],
            asking : BOOLEAN, permission : {"unknown", "granted", "denied"},
            cleared : SUBSET Groups]

--------------------------------------------------------------------------------
\* What a group is read as: defaults where nothing is stored.
loadPrefs(stored) == [g \in Groups |-> IF stored[g] = "absent" THEN "default" ELSE stored[g]]

\* Mounting reads every group, and the effects write it.
Mounted(stored) ==
    LET m == loadPrefs(stored)
    IN  [memory |-> m, stored |-> m, asking |-> FALSE, permission |-> "unknown", cleared |-> {}]

InitPrefs == \E s \in [Groups -> Values \cup {"absent"}] : ui = Mounted(s)

\* The effect writes a group whose value is a new object (for the theme, a
\* string: another value).
Set(u, g, v) ==
    IF g = "theme" /\ u.memory[g] = v THEN u
    ELSE [u EXCEPT !.memory[g] = v, !.stored[g] = v, !.cleared = @ \ {g}]

setTheme(v) == ui' = Set(ui, "theme", v)
updatePrefs(v) == ui' = Set(ui, "prefs", v)
resetPrefs == ui' = Set(ui, "prefs", "default")

\* Switching browser notifications on asks for the permission first.
updateNotif(v) ==
    /\ ~(v = "other" /\ ui.permission # "granted")
    /\ ui' = Set(ui, "notif", v)

requestPermission ==
    /\ ui.permission # "granted" /\ ~ui.asking
    /\ ui' = [ui EXCEPT !.asking = TRUE]

PermissionAnswers ==
    /\ ui.asking
    /\ \E p \in {"granted", "denied"} :
         ui' = Set([ui EXCEPT !.asking = FALSE, !.permission = p], "notif",
                   IF p = "granted" THEN "other" ELSE "default")

\* Every stored group goes, what is in memory stays.
ClearCache == ui' = [ui EXCEPT !.stored = [g \in Groups |-> "absent"], !.cleared = Groups]

Reload == ui' = Mounted(ui.stored)

NextPrefs ==
    \/ PermissionAnswers \/ resetPrefs \/ requestPermission \/ ClearCache \/ Reload
    \/ \E v \in Values : setTheme(v) \/ updatePrefs(v) \/ updateNotif(v)

--------------------------------------------------------------------------------
\* A reload brings back every group as it is shown, unless the storage has been
\* cleared since the group last changed.
PrefsAreTrue == \A g \in Groups : g \in ui.cleared \/ loadPrefs(ui.stored)[g] = ui.memory[g]
================================================================================
