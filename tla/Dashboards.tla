------------------------------ MODULE Dashboards ------------------------------
(* The home pages and the market overview. The trader's home shows the portfolio *)
(* and the chart of one view, an index with a timeframe; the student's shows     *)
(* course data in one language of the glossary, and a chat with the mentor.      *)
EXTENDS PageCalls

CONSTANTS
    Views,          \* for a student, the languages of the glossary
    MaxQuestions,   \* of the chat
    Symbols, Frames, First      \* of the market overview

VARIABLE ui

None == "none"

\* shown: the view whose data is on screen; replies: answers in the chat. The
\* effect whose call is still `mine` is the last one.
TypeOK ==
    /\ CallsOK(ui.calls, {"portfolio", "history", "load", "ask"}, Views \cup {None}, {None})
    /\ ui \in [student : BOOLEAN, view : Views, shown : Views \cup {None}, loading : BOOLEAN,
               historyLoading : BOOLEAN, questions : 0..MaxQuestions, replies : 0..MaxQuestions,
               sending : BOOLEAN, calls : {ui.calls}]

-------------------------------------------------------------------------------
\* The effect of another view: the one before is cancelled and the chart emptied.
fetchHistory(u) ==
    Send([Orphan(u, {"history"}) EXCEPT !.shown = None, !.historyLoading = TRUE],
         dialogCall("history", u.view))

\* Seven calls, of which the glossary depends on the language.
loadAllDashboardData(u) == Send([u EXCEPT !.loading = TRUE], call("load", u.view))

\* The spinner of the portfolio shows while the store is empty.
refreshPortfolio(u, first) == Send([u EXCEPT !.loading = first], call("portfolio", None))

Mounted(student, v, first) ==
    LET u == [student |-> student, view |-> v, shown |-> None, loading |-> FALSE, historyLoading |-> FALSE,
              questions |-> 0, replies |-> 0, sending |-> FALSE, calls |-> NoCalls]
    IN  IF student THEN loadAllDashboardData(u) ELSE fetchHistory(refreshPortfolio(u, first))

Init == \E student, first \in BOOLEAN, v \in Views : ui = Mounted(student, v, first)

\* Another index or another timeframe; not while the overlay covers the page.
setView(v) ==
    /\ ~ui.student /\ ~ui.loading /\ v # ui.view /\ CanSend(ui, 1)
    /\ ui' = fetchHistory([ui EXCEPT !.view = v])

\* The language buttons, like the chat, are there when the skeleton is not.
setGlossaryLang(v) ==
    /\ ui.student /\ ~ui.loading /\ v # ui.view /\ CanSend(ui, 1)
    /\ ui' = loadAllDashboardData([ui EXCEPT !.view = v])

handleSendMentorPrompt ==
    /\ ui.student /\ ~ui.loading /\ ~ui.sending /\ ui.questions < MaxQuestions /\ CanSend(ui, 1)
    /\ ui' = Send([ui EXCEPT !.questions = @ + 1, !.sending = TRUE], call("ask", None))

-------------------------------------------------------------------------------
PortfolioAnswers(i) ==
    /\ Answered(ui, i, "portfolio")
    /\ ui' = End([ui EXCEPT !.loading = FALSE], i)

\* A cancelled effect changes nothing.
HistoryAnswers(i) ==
    LET c == ui.calls[i]
    IN  /\ Answered(ui, i, "history")
        /\ ui' = End(IF c.mine THEN [ui EXCEPT !.shown = IF c.at = "ok" THEN c.id ELSE None,
                                               !.historyLoading = FALSE]
                     ELSE ui, i)

\* Each of the seven may fail; without its answer the glossary is empty.
LoadAnswers(i) ==
    LET c == ui.calls[i]
    IN  /\ Answered(ui, i, "load")
        /\ ui' = End([ui EXCEPT !.shown = IF c.at = "ok" THEN c.id ELSE None, !.loading = FALSE], i)

\* The reply, or a fixed text in its place.
MentorAnswers(i) ==
    /\ Answered(ui, i, "ask")
    /\ ui' = End([ui EXCEPT !.replies = @ + 1, !.sending = FALSE], i)

Answers(i) == PortfolioAnswers(i) \/ HistoryAnswers(i) \/ LoadAnswers(i) \/ MentorAnswers(i)

Serve(i) == ui.calls[i].at = "sent" /\ \E at \in {"ok", "err"} : ui' = [ui EXCEPT !.calls[i].at = at]

Next ==
    \/ handleSendMentorPrompt
    \/ \E v \in Views : setView(v) \/ setGlossaryLang(v)
    \/ \E i \in 1..MaxCalls : Serve(i) \/ Answers(i)

-------------------------------------------------------------------------------
\* The skeleton, the spinner of the chart and the disabled button of the chat end
\* with the call they wait for; the chart waits for the last one it asked for.
NothingLocked ==
    /\ ui.loading => Under(ui, "load") \cup Under(ui, "portfolio") # {}
    /\ ui.historyLoading => \E i \in Under(ui, "history") : ui.calls[i].mine
    /\ ui.sending => Under(ui, "ask") # {}

\* The chart is that of the index and timeframe selected and the glossary that of
\* the language selected, whatever came late; and every question of the chat has
\* its reply, but the last one while it is under way.
ShownIsTrue ==
    /\ ui.shown # None /\ ~(ui.student /\ ui.loading) => ui.shown = ui.view
    /\ ui.questions = ui.replies + (IF ui.sending THEN 1 ELSE 0)
-------------------------------------------------------------------------------
(* The market overview: indices, sectors and movers fetched every 20 s, and the *)
(* chart of an index over a time frame, fetched by an effect whose cleanup makes *)
(* it deaf. The candles held are drawn by a second effect.                       *)

NoSeries == <<"none", "none">>
Series == (Symbols \X Frames) \cup {NoSeries}

\* fetches counts the calls of the effect in force: those of an earlier one have
\* no effect any more. drawn is what the chart holds, ticked the symbol whose
\* price was last put at its end.
MarketOK ==
    ui \in [overview : BOOLEAN, symbol : Symbols, frame : Frames, candles : Series,
            drawn : Series, ticked : Symbols \cup {"none"}, loading : BOOLEAN,
            fetches : 0..MaxCalls, open : BOOLEAN]

--------------------------------------------------------------------------------
selected(u) == <<u.symbol, u.frame>>

\* The effect of another symbol or time frame: the candles held stay.
fetchCandles(u) == [u EXCEPT !.loading = TRUE, !.fetches = 1]

\* The chart exists once the overview is there. An empty list is not drawn.
draw(u) ==
    IF u.overview /\ u.candles # NoSeries THEN [u EXCEPT !.drawn = u.candles, !.ticked = "none"] ELSE u

MarketInit ==
    \E f \in Frames, open \in BOOLEAN :
        ui = fetchCandles([overview |-> FALSE, symbol |-> First, frame |-> f, candles |-> NoSeries,
                           drawn |-> NoSeries, ticked |-> "none", loading |-> FALSE, fetches |-> 0,
                           open |-> open])

\* A failed fetch of the overview leaves the page as it is.
fetchOverview == ui' = draw([ui EXCEPT !.overview = TRUE])

setSelectedSymbol(s) ==
    ui.overview /\ s # ui.symbol /\ ui' = fetchCandles([ui EXCEPT !.symbol = s])

setTimeframe(f) ==
    ui.overview /\ f # ui.frame /\ ui' = fetchCandles([ui EXCEPT !.frame = f])

\* Every 15 s, for the intraday frame of an open market.
pollCandles ==
    /\ ui.open /\ ui.frame = "1D" /\ ui.fetches < MaxCalls
    /\ ui' = [ui EXCEPT !.loading = TRUE, !.fetches = @ + 1]

\* A tick moves the end of the chart, of whatever it holds.
LivePrice ==
    /\ ui.overview /\ ui.candles # NoSeries /\ ui.frame = "1D"
    /\ ui' = [ui EXCEPT !.ticked = ui.symbol]

\* Candles, or none after a failure; the first of two answers ends the spinner.
CandlesAnswer ==
    /\ ui.fetches > 0
    /\ \E c \in {selected(ui), NoSeries} :
         ui' = draw([ui EXCEPT !.candles = c, !.loading = FALSE, !.fetches = @ - 1])

MarketNext ==
    \/ CandlesAnswer \/ fetchOverview \/ pollCandles \/ LivePrice
    \/ \E s \in Symbols : setSelectedSymbol(s)
    \/ \E f \in Frames : setTimeframe(f)

--------------------------------------------------------------------------------
\* The spinner over the chart lasts only while a fetch that is heard is under way.
MarketNotLocked == ui.loading => ui.fetches > 0

\* Without the spinner, the candles held are those of the selected symbol and time
\* frame, and they are what is drawn, with no price of another symbol at their end.
\* (With an empty answer the chart goes on showing the previous symbol.)
MarketIsTrue ==
    ~ui.loading /\ ui.candles # NoSeries =>
        /\ ui.candles = selected(ui)
        /\ ui.overview => ui.drawn = ui.candles /\ ui.ticked \in {"none", ui.symbol}
===============================================================================
