------------------------------ MODULE FuturesPage ------------------------------
(* The futures terminal: choice of an underlying and of a contract, the chart   *)
(* history, the order panel with its margin estimate, and the kill switch. Every *)
(* underlying has one contract, named like it; a call is its purpose and the    *)
(* contract (for a margin: and the lots) it was made for.                       *)
EXTENDS Naturals, FiniteSets

CONSTANTS
    Underlyings,
    First,          \* the underlying selected when the page opens
    MaxCalls,
    MaxPosts        \* orders, and kills, under way at the same time

VARIABLE ui

Selectable == Underlyings \cup {"none"}
Lots == {1, 2}
NoMargin == <<"none", 0>>
Margins == (Underlyings \X Lots) \cup {NoMargin}
\* "first" selects the first contract of its answer, "list" does not.
Ops == {"first", "list", "history"}
\* Orders and kills under way: posted, and followed by a refetch.
Posts == {"place", "placed", "kill", "killed"}

State ==
    [underlying : Underlyings, contract : Selectable, listed : SUBSET Underlyings,
     listing : BOOLEAN, charting : BOOLEAN, panel : BOOLEAN,
     lots : Lots, margin : Margins, estimated : BOOLEAN, submitting : BOOLEAN,
     killing : BOOLEAN, held : BOOLEAN, posts : [Posts -> Nat],
     calls : SUBSET (Ops \X Underlyings), estimates : SUBSET Margins]

TypeOK ==
    /\ ui \in State
    /\ \A p \in Posts : ui.posts[p] <= MaxPosts
    /\ Cardinality(ui.calls) <= MaxCalls + 1

--------------------------------------------------------------------------------
Under(op) == {c \in ui.calls : c[1] = op}
Free(u) == Cardinality(u.calls) < MaxCalls
Send(u, op, c) == [u EXCEPT !.calls = @ \cup {<<op, c>>}]
End(u, c) == [u EXCEPT !.calls = @ \ {c}]

\* The effect of another contract or quantity: the estimate under way is
\* cancelled and a new one asked for after a pause.
askMargin(u) ==
    IF u.panel /\ u.contract # "none"
    THEN [u EXCEPT !.estimates = {<<u.contract, u.lots>>}, !.estimated = FALSE]
    ELSE [u EXCEPT !.estimates = {}, !.estimated = FALSE]

\* Cached candles are shown while the new ones are fetched.
fetchHistory(u, cached) ==
    Send([u EXCEPT !.charting = ~cached], "history", u.contract)

\* Another contract: the chart and the margin follow.
selectContract(u, c, cached) ==
    IF u.contract = c THEN u
    ELSE askMargin(fetchHistory([u EXCEPT !.contract = c], cached))

Posted(u, p) == [u EXCEPT !.posts[p] = @ + 1]
Done(u, p) == [u EXCEPT !.posts[p] = @ - 1]

--------------------------------------------------------------------------------
Init ==
    \E held \in BOOLEAN :
        ui = [underlying |-> First, contract |-> "none", listed |-> {}, listing |-> TRUE,
              charting |-> FALSE, panel |-> FALSE, lots |-> 1,
              margin |-> NoMargin, estimated |-> FALSE, submitting |-> FALSE, killing |-> FALSE,
              held |-> held, posts |-> [p \in Posts |-> 0], calls |-> {<<"first", First>>}, estimates |-> {}]

handleSelectUnderlying(x) ==
    /\ Free(ui)
    /\ ui' = Send([ui EXCEPT !.underlying = x, !.listing = TRUE], "first", x)

\* A contract of the watchlist or of the expiry panel.
handleSelectContract(x) ==
    /\ Free(ui)
    /\ \E cached \in BOOLEAN :
         LET u == [selectContract(ui, x, cached) EXCEPT !.underlying = x]
         IN  ui' = IF x \in ui.listed THEN u ELSE Send([u EXCEPT !.listing = TRUE], "list", x)

handleIntervalChange ==
    /\ Free(ui) /\ ui.contract # "none"
    /\ \E cached \in BOOLEAN : ui' = fetchHistory(ui, cached)

\* A new panel; an order of the one before goes on unseen.
openOrderPanel ==
    /\ ~ui.panel
    /\ ui' = askMargin([ui EXCEPT !.panel = TRUE, !.lots = 1, !.submitting = FALSE,
                                  !.margin = NoMargin, !.posts["place"] = 0, !.posts["placed"] = 0])

closeOrderPanel == ui.panel /\ ui' = askMargin([ui EXCEPT !.panel = FALSE])

setLots(n) == ui.panel /\ n # ui.lots /\ ui' = askMargin([ui EXCEPT !.lots = n])

\* A tick changes the price the margin is estimated for.
PriceChanges == ui.panel /\ ui.contract # "none" /\ ui' = askMargin(ui)

placeOrderTwice ==
    /\ ui.panel /\ ui.contract # "none" /\ ui.posts["place"] < MaxPosts
    /\ ui' = Posted([ui EXCEPT !.submitting = TRUE], "place")

\* Not while an order is under way, without a contract or with the market closed.
placeOrder ==
    /\ ui.panel /\ ~ui.submitting /\ ui.contract # "none"
    /\ ui' = Posted([ui EXCEPT !.submitting = TRUE], "place")

\* Confirmed by the user; the button shows while there are positions.
handleKillSwitch ==
    /\ ui.held /\ ~ui.killing
    /\ ui' = Posted([ui EXCEPT !.killing = TRUE], "kill")

--------------------------------------------------------------------------------
(* Answers, in any order; each may be a failure. *)

\* The contracts of the underlying, the first of which is selected even if the
\* user has gone on to another.
UnderlyingAnswers(c) ==
    /\ c \in Under("first")
    /\ LET u == [End(ui, c) EXCEPT !.listing = FALSE]
       IN  \/ ui' = u
           \/ \E cached \in BOOLEAN :
                ui' = selectContract([u EXCEPT !.listed = @ \cup {c[2]}], c[2], cached)

ListAnswers(c) ==
    /\ c \in Under("list")
    /\ LET u == [End(ui, c) EXCEPT !.listing = FALSE]
       IN  ui' \in {u, [u EXCEPT !.listed = @ \cup {c[2]}]}

\* The candles are shown whatever contract is selected by now.
HistoryAnswers(c) == c \in Under("history") /\ ui' = [End(ui, c) EXCEPT !.charting = FALSE]

MarginAnswers(k) ==
    /\ k \in ui.estimates
    /\ LET u == [ui EXCEPT !.estimates = @ \ {k}]
       IN  ui' \in {u, [u EXCEPT !.margin = k, !.estimated = TRUE]}

\* Orders and positions are fetched before the button is free again.
PlaceAnswers ==
    /\ ui.posts["place"] > 0
    /\ LET u == Done(ui, "place") IN ui' \in {[u EXCEPT !.submitting = FALSE], Posted(u, "placed")}

AfterPlace ==
    /\ ui.posts["placed"] > 0
    /\ \E held \in BOOLEAN :
         ui' = [Done(ui, "placed") EXCEPT !.submitting = FALSE, !.held = held]

KillAnswersStuck ==
    /\ ui.posts["kill"] > 0
    /\ LET u == Done(ui, "kill") IN ui' \in {u, Posted(u, "killed")}

KillAnswers ==
    /\ ui.posts["kill"] > 0
    /\ LET u == Done(ui, "kill") IN ui' \in {[u EXCEPT !.killing = FALSE], Posted(u, "killed")}

AfterKill ==
    /\ ui.posts["killed"] > 0
    /\ \E held \in BOOLEAN :
         ui' = [Done(ui, "killed") EXCEPT !.killing = FALSE, !.held = held]

Answers ==
    \/ \E c \in ui.calls : UnderlyingAnswers(c) \/ ListAnswers(c) \/ HistoryAnswers(c)
    \/ \E k \in ui.estimates : MarginAnswers(k)
    \/ PlaceAnswers \/ AfterPlace \/ KillAnswers \/ AfterKill

Next ==
    \/ \E x \in Underlyings : handleSelectUnderlying(x) \/ handleSelectContract(x)
    \/ \E n \in Lots : setLots(n)
    \/ handleIntervalChange \/ openOrderPanel \/ closeOrderPanel \/ PriceChanges
    \/ placeOrder \/ handleKillSwitch \/ Answers

Spec == Init /\ [][Next]_ui

--------------------------------------------------------------------------------
\* Spinners and disabled buttons end with the call that began them, on every path.
NothingLocked ==
    /\ ui.submitting /\ ui.panel => ui.posts["place"] + ui.posts["placed"] > 0
    /\ ui.killing => ui.posts["kill"] + ui.posts["killed"] > 0
    /\ ui.listing => Under("first") \cup Under("list") # {}
    /\ ui.charting => Under("history") # {}

\* One order of the open panel and one kill at a time.
OneSubmission ==
    /\ ui.panel => ui.posts["place"] + ui.posts["placed"] <= 1
    /\ ui.posts["kill"] + ui.posts["killed"] <= 1

\* An estimate that has arrived for what the panel shows is not replaced by a late
\* one for another contract or quantity.
ShownIsTrue == ui.estimated => ui.margin = <<ui.contract, ui.lots>>
================================================================================
