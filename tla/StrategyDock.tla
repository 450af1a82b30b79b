----------------------------- MODULE StrategyDock -----------------------------
(* The strategies of the trading workspace. Each reads indicators of the candles *)
(* on the chart and is bullish (1), bearish (-1) or neutral (0) with some        *)
(* confidence; an engine weighs the opinions of the enabled ones; the dock shows *)
(* the bias, and the chart a badge that takes it from a store. A reading is what *)
(* a strategy takes from its indicators: the RSI and the position in the         *)
(* Bollinger bands in percent, a distance from an average in hundredths of a     *)
(* percent, the ADX (-1: not available), and the sign of whatever only has its   *)
(* sign compared. Candles, closes and averages themselves are left out.          *)
EXTENDS Integers, FiniteSets, FiniteSetsExt

VARIABLE ui

weight ==       \* in percent
    [id \in {"ema-cross", "rsi-momentum", "vwap-bias", "golden-rsi", "trend-detector"} |->
        CASE id = "ema-cross" -> 25 [] id = "vwap-bias" -> 15 [] OTHER -> 20]
Ids == DOMAIN weight

Abs(n) == IF n < 0 THEN -n ELSE n
Sign(n) == IF n > 0 THEN 1 ELSE IF n < 0 THEN -1 ELSE 0
Capped(n, most) == IF n > most THEN most ELSE n
Round(n, d) == (2 * n + d) \div (2 * d)

Opinion(side, confidence) == [side |-> side, confidence |-> confidence]
Neutral == Opinion(0, 0)

-------------------------------------------------------------------------------
\* before: which average was above; spread: of the fast over the slow one now.
emaCross(r) ==
    LET size == Abs(r.spread)
        crossUp == r.before <= 0 /\ r.spread > 0
        crossDown == r.before >= 0 /\ r.spread < 0
        strongTrend == r.adx > 20
        side == IF r.spread > 0 THEN 1 ELSE -1
    IN  CASE crossUp -> Opinion(1, IF strongTrend THEN 88 ELSE 72)
          [] crossDown -> Opinion(-1, IF strongTrend THEN 88 ELSE 72)
          [] ~crossUp /\ ~crossDown /\ size > 15 /\ strongTrend ->
                 Opinion(side, IF r.adx > 30 THEN Capped(Round(6000 + 4 * size, 100), 82)
                               ELSE Capped(Round(5500 + 3 * size, 100), 72))
          [] ~crossUp /\ ~crossDown /\ size > 15 /\ ~strongTrend ->
                 Opinion(side, Capped(Round(4500 + 2 * size, 100), 55))
          [] OTHER -> Neutral

\* run: the direction of the last three values, if they have one.
rsiMomentum(r) ==
    CASE r.rsi >= 75 -> Opinion(-1, Capped(70 + (r.rsi - 75) * 2, 92))
      [] r.rsi \in 70..74 -> Opinion(-1, IF r.run = -1 THEN 72 ELSE 58)
      [] r.rsi <= 25 -> Opinion(1, Capped(70 + (25 - r.rsi) * 2, 92))
      [] r.rsi \in 26..30 -> Opinion(1, IF r.run = 1 THEN 72 ELSE 58)
      [] r.rsi \in 56..69 -> Opinion(1, IF r.rsi > 58 /\ r.run = 1 THEN 60 ELSE 45)
      [] r.rsi \in 31..44 -> Opinion(-1, IF r.rsi < 42 /\ r.run = -1 THEN 60 ELSE 45)
      [] OTHER -> Neutral

\* Without a VWAP the distance from it is 0. The price may be outside the bands.
vwapStrategy(r) ==
    LET bullish == r.away > 50 /\ r.bb > 60
        bearish == r.away < -50 /\ r.bb < 40
        far == Capped(Round(6500 + 3 * Abs(r.away), 100), 85)
    IN  CASE bullish -> Opinion(1, IF r.bb > 80 THEN far ELSE 62)
          [] bearish -> Opinion(-1, IF r.bb < 20 THEN far ELSE 62)
          [] ~bullish /\ ~bearish /\ r.bb > 90 -> Opinion(-1, 52)
          [] ~bullish /\ ~bearish /\ r.bb < 10 -> Opinion(1, 52)
          [] OTHER -> Neutral

\* away: from the average of 50; slope: of the average of 9.
goldenRsi(r) ==
    LET bullish == r.away > 20 /\ r.rsi > 53
        bearish == r.away < -20 /\ r.rsi < 47
    IN  CASE bullish /\ r.run = 1 /\ r.slope = 1 -> Opinion(1, IF r.rsi > 60 THEN 82 ELSE 70)
          [] bearish /\ r.run = -1 /\ r.slope = -1 -> Opinion(-1, IF r.rsi < 40 THEN 82 ELSE 70)
          [] bullish /\ (r.run = 1) # (r.slope = 1) -> Opinion(1, 58)
          [] bearish /\ (r.run = -1) # (r.slope = -1) -> Opinion(-1, 58)
          [] OTHER -> Neutral

\* away: from the average of 21; growing: the histogram, for three bars.
trendDetector(r) ==
    LET agree(s) == Cardinality({x \in {<<"ema", IF Abs(r.away) > 10 THEN Sign(r.away) ELSE 0>>,
                                        <<"macd", r.macd>>, <<"di", r.di>>} : x[2] = s})
        whole == IF r.adx > 25 /\ r.growing THEN 88 ELSE IF r.adx > 25 \/ r.growing THEN 75 ELSE 65
    IN  CASE r.adx > 15 /\ agree(1) = 3 -> Opinion(1, whole)
          [] r.adx > 15 /\ agree(-1) = 3 -> Opinion(-1, whole)
          [] r.adx > 15 /\ agree(1) = 2 -> Opinion(1, 55)
          [] r.adx > 15 /\ agree(-1) = 2 -> Opinion(-1, 55)
          [] OTHER -> Neutral

Signs == {-1, 0, 1}
\* On both sides of every threshold of the strategies.
Readings(id) ==
    CASE id = "ema-cross" ->
             [before : Signs, spread : {-900, -16, -15, 0, 15, 16, 900}, adx : {-1, 20, 21, 31}]
      [] id = "rsi-momentum" ->
             [rsi : {0, 25, 26, 30, 31, 41, 42, 44, 45, 50, 55, 56, 58, 59, 69, 70, 74, 75, 100}, run : Signs]
      [] id = "vwap-bias" ->
             [away : {-900, -51, -50, 0, 50, 51, 900},
              bb : {-9, 9, 10, 19, 20, 39, 40, 60, 61, 80, 81, 90, 91, 109}]
      [] id = "golden-rsi" ->
             [away : {-21, -20, 20, 21}, rsi : {39, 40, 46, 47, 53, 54, 60, 61}, run : Signs, slope : Signs]
      [] id = "trend-detector" ->
             [away : {-11, -10, 10, 11}, macd : Signs, growing : BOOLEAN, adx : {-1, 15, 16, 26}, di : Signs]

runStrategy(id, r) ==
    CASE id = "ema-cross" -> emaCross(r) [] id = "rsi-momentum" -> rsiMomentum(r)
      [] id = "vwap-bias" -> vwapStrategy(r) [] id = "golden-rsi" -> goldenRsi(r)
      [] id = "trend-detector" -> trendDetector(r)

\* What the market looks like upside down.
UpsideDown(r) ==
    [f \in DOMAIN r |->
        CASE f \in {"rsi", "bb"} -> 100 - r[f] [] f \in {"adx", "growing"} -> r[f] [] OTHER -> -r[f]]

\* A weak reading of each strategy, and of two of them a strong one.
Bullish(id) ==
    CASE id = "ema-cross" ->
             {[before |-> 1, spread |-> 16, adx |-> -1], [before |-> 0, spread |-> 16, adx |-> 21]}
      [] id = "rsi-momentum" -> {[rsi |-> 56, run |-> 0], [rsi |-> 0, run |-> 0]}
      [] id = "vwap-bias" -> {[away |-> 0, bb |-> 9]}
      [] id = "golden-rsi" -> {[away |-> 21, rsi |-> 54, run |-> 0, slope |-> 1]}
      [] id = "trend-detector" -> {[away |-> 11, macd |-> 1, growing |-> FALSE, adx |-> 16, di |-> 0]}

\* Of every strategy here: no opinion (too few candles, or an error), and what it
\* makes of those readings and of their mirror images.
Outcomes ==
    [id \in Ids |->
        {Neutral} \cup UNION {{runStrategy(id, r), runStrategy(id, UpsideDown(r))} : r \in Bullish(id)}]

-------------------------------------------------------------------------------
Total(signals, side, amount) ==
    MapThenSumSet(LAMBDA id : amount[id], {id \in DOMAIN signals : signals[id].side = side})
Count(signals, side) == Cardinality({id \in DOMAIN signals : signals[id].side = side})

\* A bias needs a score beyond 15 percent of the weight of those who have an
\* opinion. Floating point puts a score of just that on either side, and rounds a
\* confidence of so many and a half either way: edge says which.
runEngine(signals, edge) ==
    LET conf == [id \in DOMAIN signals |-> weight[id] * signals[id].confidence]
        score == Total(signals, 1, conf) - Total(signals, -1, conf)
        activeWeight == Total(signals, 1, weight) + Total(signals, -1, weight)
        active == Count(signals, 1) + Count(signals, -1)
        Beyond(s) == s > 15 * activeWeight \/ (edge /\ s = 15 * activeWeight)
        Near(n, d) == (2 * n + d - (IF edge THEN 0 ELSE 1)) \div (2 * d)
        average(side) == Near(Total(signals, side, conf), Total(signals, side, weight))
        penalised(c) == CASE active = 1 -> Near(70 * c, 100) [] active = 2 -> Near(85 * c, 100) [] OTHER -> c
        biased(side) == [overall |-> side, confidence |-> Capped(penalised(average(side)), 92)]
    IN  CASE active >= 1 /\ Beyond(score) /\ Count(signals, 1) >= Count(signals, -1) -> biased(1)
          [] active >= 1 /\ Beyond(-score) /\ Count(signals, -1) >= Count(signals, 1) -> biased(-1)
          [] OTHER -> [overall |-> 0, confidence |-> 0]

NoSignals == [id \in {} |-> Neutral]
Unbiased == [overall |-> 0, confidence |-> 0]
Result == [overall : Signs, confidence : 0..92]
None == [overall |-> 0, confidence |-> -1]      \* nothing in the store

TypeOK ==
    /\ ui \in [loaded : BOOLEAN, enabled : SUBSET Ids, signals : {ui.signals}, engine : Result,
               engineOutput : Result \cup {None}]
    /\ \A id \in DOMAIN ui.signals : ui.signals[id] \in Outcomes[id]

-------------------------------------------------------------------------------
\* No strategy enabled: all of them run.
Running(enabled) == IF enabled = {} THEN Ids ELSE enabled

\* The dock is always mounted: it runs the engine on every change and stores what
\* comes out, unless there are no candles and so no signals.
Evaluate(u, signals) ==
    \E edge \in BOOLEAN :
        LET result == runEngine(signals, edge)
        IN  ui' = [u EXCEPT !.signals = signals, !.engine = result, !.engineOutput = result]

Init ==     \* Enabled as stored; the first time, all are.
    \E enabled \in SUBSET Ids :
        ui = [loaded |-> FALSE, enabled |-> enabled, signals |-> NoSignals, engine |-> Unbiased,
              engineOutput |-> None]

\* Another symbol, or back from another page: no candles until they are fetched.
\* The store keeps what it has.
selectSymbol == ui.loaded /\ ui' = [ui EXCEPT !.loaded = FALSE, !.signals = NoSignals, !.engine = Unbiased]

\* Here they are too few at first for anyone to have an opinion.
CandlesArrive ==
    ~ui.loaded /\ Evaluate([ui EXCEPT !.loaded = TRUE], [id \in Running(ui.enabled) |-> Neutral])

\* A refresh of the candles: here it changes one opinion, several change several.
CandlesChange(id) ==
    /\ ui.loaded /\ id \in DOMAIN ui.signals
    /\ \E o \in Outcomes[id] \ {ui.signals[id]} : Evaluate(ui, [ui.signals EXCEPT ![id] = o])

toggleStrategy(id) ==
    LET enabled == IF id \in ui.enabled THEN ui.enabled \ {id} ELSE ui.enabled \cup {id}
        u == [ui EXCEPT !.enabled = enabled]
        kept == DOMAIN ui.signals \cap Running(enabled)
        begun == Running(enabled) \ kept
    IN  IF ~ui.loaded THEN ui' = u
        ELSE \E o \in {Neutral} \cup UNION {Outcomes[x] : x \in begun} :
                 Evaluate(u, [x \in Running(enabled) |-> IF x \in kept THEN ui.signals[x]
                                                          ELSE IF o \in Outcomes[x] THEN o ELSE Neutral])

Next ==
    \/ selectSymbol \/ CandlesArrive
    \/ \E id \in Ids : CandlesChange(id) \/ toggleStrategy(id)

Spec == Init /\ [][Next]_ui

-------------------------------------------------------------------------------
\* The badge of the chart. While nothing is stored there are no candles either, and
\* no badge: an effect of the dock stores a result of the first ones, and what the
\* badge makes of them itself, of all strategies, is gone with that effect.
trendData == ui.engineOutput

Against(o) == [o EXCEPT !.side = -@]

\* Every strategy is as ready to be bearish in a market as to be bullish in its
\* mirror image.
EvenHanded ==
    \A id \in Ids : \A r \in Readings(id) : runStrategy(id, UpsideDown(r)) = Against(runStrategy(id, r))

\* With candles on the chart its badge shows the bias of the dock, which has the
\* more numerous and the weightier opinions behind it and is no more confident than
\* they are; it would be the opposite one in the mirror image; and one more
\* strategy coming over to it does not end it.
ShownIsTrue ==
    LET side == ui.engine.overall
        turned(id, o) == runEngine([ui.signals EXCEPT ![id] = o], FALSE).overall
        conf == [id \in DOMAIN ui.signals |-> weight[id] * ui.signals[id].confidence]
        agreeing == {id \in DOMAIN ui.signals : ui.signals[id].side = side}
    IN  /\ ui.loaded => trendData = ui.engine
        /\ ui.engineOutput = None => EvenHanded
        /\ \A edge \in BOOLEAN :
               LET against == runEngine([id \in DOMAIN ui.signals |-> Against(ui.signals[id])], edge)
               IN  [against EXCEPT !.overall = -@] = runEngine(ui.signals, edge)
        /\ side # 0 =>
               /\ Count(ui.signals, side) >= Count(ui.signals, -side)
               /\ Total(ui.signals, side, conf) > Total(ui.signals, -side, conf)
               /\ ui.engine.confidence \in 1..Max({ui.signals[id].confidence : id \in agreeing})
               /\ \A id \in DOMAIN ui.signals : \A o \in Outcomes[id] :
                      o.side = side /\ id \notin agreeing => turned(id, o) = side

\* The badge of the chart and the dock always show the same result.
BadgeIsTheDock == trendData \in {ui.engine, None}
===============================================================================
