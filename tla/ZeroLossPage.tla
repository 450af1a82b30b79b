------------------------------ MODULE ZeroLossPage ------------------------------
(* Alpha Auto: a strategy that is toggled, never set, by the user and, when the *)
(* page sees the market close, by the page itself once; its state is polled and *)
(* its trades are pushed. The page and the backend each have their own view of  *)
(* the session.                                                                 *)
EXTENDS PageCalls, Sequences

VARIABLE ui

\* on, held: of the backend, the strategy and its position; enabled, shown: of
\* the store; pushed: trade messages not yet delivered.
TypeOK ==
    /\ CallsOK(ui.calls, {"status", "toggle", "autostop"}, {"none"}, BOOLEAN \X BOOLEAN)
    /\ ui \in [on : BOOLEAN, held : BOOLEAN, enabled : BOOLEAN, shown : BOOLEAN,
               loading : BOOLEAN, toggling : BOOLEAN, autoStop : BOOLEAN, open : BOOLEAN,
               marketOpen : BOOLEAN, pushed : UNION {[1..n -> {"ENTRY", "EXIT"}] : n \in 0..2},
               stale : BOOLEAN, calls : {ui.calls}]

--------------------------------------------------------------------------------
\* Kept: whether the page may show something else than the state, because calls
\* overlapped, one failed, or the backend halted the strategy. A status asked for
\* alone makes up for it.
Sent(u, op) ==
    Send([u EXCEPT !.stale = IF Quiet(u) THEN @ /\ op # "status" ELSE TRUE], call(op, "none"))

\* The effect of the session and of the strategy's state: once per closing, the
\* page toggles a strategy that is on.
autoStopEffect(u) ==
    IF u.marketOpen THEN [u EXCEPT !.autoStop = FALSE]
    ELSE IF ~u.enabled \/ u.autoStop \/ ~CanSend(u, 1) THEN u
    ELSE Sent([u EXCEPT !.autoStop = TRUE], "autostop")

\* A status or a toggle is applied, and the effect runs if it changed anything.
setEnabled(u, on) ==
    IF u.enabled = on THEN u ELSE autoStopEffect([u EXCEPT !.enabled = on])

Init ==
    \E on, open \in BOOLEAN :
        ui = Sent([on |-> on, held |-> FALSE, enabled |-> FALSE, shown |-> FALSE,
                   loading |-> TRUE, toggling |-> FALSE, autoStop |-> FALSE, open |-> open,
                   marketOpen |-> open, pushed |-> <<>>, stale |-> FALSE,
                   calls |-> NoCalls], "status")

\* On opening and every 15 s.
fetchAll == CanSend(ui, 2) /\ ui' = Sent(ui, "status")

handleToggle ==
    /\ ~ui.loading /\ ~ui.toggling /\ (ui.enabled \/ ui.marketOpen) /\ CanSend(ui, 2)
    /\ ui' = Sent([ui EXCEPT !.toggling = TRUE], "toggle")

\* The session changes for the backend and, sooner or later, for the page; the
\* market is closed for longer than a call takes.
SessionTurns == ui' = [ui EXCEPT !.open = ~@]
PageSeesSession ==
    /\ ui.marketOpen # ui.open /\ CanSend(ui, 1) /\ (ui.marketOpen \/ Quiet(ui))
    /\ ui' = autoStopEffect([ui EXCEPT !.marketOpen = ui.open])

\* Closed in another way (the day over, a holiday): the effect runs again, and makes
\* up for a stop that failed.
stateLabelChanges == ~ui.marketOpen /\ CanSend(ui, 1) /\ ui' = autoStopEffect(ui)

Trades ==
    /\ ui.on /\ ui.pushed = <<>>
    /\ ui' = [ui EXCEPT !.held = ~@, !.pushed = IF ui.held THEN <<"EXIT">> ELSE <<"ENTRY">>]

handleWsMessage ==
    /\ ui.pushed # <<>>
    /\ ui' = [ui EXCEPT !.shown = Head(ui.pushed) = "ENTRY", !.pushed = Tail(@),
                        !.stale = @ \/ ~Quiet(ui)]

--------------------------------------------------------------------------------
\* Outside the session the worker halts the strategy, and so does the first request
\* that finds it running; its position stays.
Halted(u) == IF u.open THEN u ELSE [u EXCEPT !.on = FALSE]
WorkerHalts == ui.on /\ ~ui.open /\ ui' = [Halted(ui) EXCEPT !.stale = TRUE]

\* A toggle outside the session is therefore refused, whatever it was meant for;
\* within it, stopping closes the position.
Refused(i) ==
    /\ ui.calls[i].at = "sent" /\ ui.calls[i].op # "status" /\ ~ui.open
    /\ ui' = [Halted(ui) EXCEPT !.calls[i].at = "err"]
Possible(u, c) == c.op = "status" \/ u.open
Effect(u, c) ==
    IF c.op = "status" THEN Halted(u)
    ELSE IF ~u.on THEN [u EXCEPT !.on = TRUE]
    ELSE [u EXCEPT !.on = FALSE, !.held = FALSE,
                   !.pushed = IF u.held THEN Append(@, "EXIT") ELSE @]
Got(u, c) == {<<Effect(u, c).on, Effect(u, c).held>>}
Serve(i) == Refused(i) \/ ui' \in Outcomes(ui, i, Possible, Effect, Got)

StatusAnswers(i) ==
    /\ Answered(ui, i, "status")
    /\ LET u == End([ui EXCEPT !.loading = FALSE], i)
       IN  ui' = IF ui.calls[i].at = "err" THEN [u EXCEPT !.stale = TRUE]
                 ELSE setEnabled([u EXCEPT !.shown = Reply(ui, i)[2]], Reply(ui, i)[1])

\* A strategy that is off shows no position.
Toggled(u, i) ==
    setEnabled([u EXCEPT !.shown = @ /\ Reply(ui, i)[1]], Reply(ui, i)[1])

ToggleAnswers(i) ==
    /\ Answered(ui, i, "toggle")
    /\ LET u == End([ui EXCEPT !.toggling = FALSE], i)
       IN  ui' = IF ui.calls[i].at = "err" THEN [u EXCEPT !.stale = TRUE] ELSE Toggled(u, i)

\* A failure allows another attempt, which waits for the next run of the effect.
AutoStopAnswers(i) ==
    /\ Answered(ui, i, "autostop")
    /\ ui' = IF ui.calls[i].at = "err" THEN End([ui EXCEPT !.autoStop = FALSE, !.stale = TRUE], i)
             ELSE Toggled(End(ui, i), i)

Answers ==
    \/ handleWsMessage
    \/ \E i \in DOMAIN ui.calls :
         Serve(i) \/ StatusAnswers(i) \/ ToggleAnswers(i) \/ AutoStopAnswers(i)

Next == Answers \/ fetchAll \/ handleToggle \/ SessionTurns \/ PageSeesSession
        \/ stateLabelChanges \/ Trades \/ WorkerHalts

--------------------------------------------------------------------------------
NothingLocked ==
    /\ ui.loading => Under(ui, "status") # {}
    /\ ui.toggling => Under(ui, "toggle") # {}

\* The page stops the strategy once, also when statuses served before the stop
\* report it as running.
OneSubmission ==
    Cardinality(Under(ui, "autostop")) <= 1 /\ Cardinality(Under(ui, "toggle")) <= 1

\* With nothing under way, the strategy and its position are shown as they are, unless
\* calls overlapped (a stop of the user and the page's own make a start), one failed
\* or the backend halted the strategy, and no status was asked for alone since.
ShownIsTrue ==
    Quiet(ui) /\ ui.pushed = <<>> /\ ~ui.stale =>
        /\ ui.enabled = ui.on
        /\ ui.on => ui.shown = ui.held
================================================================================
