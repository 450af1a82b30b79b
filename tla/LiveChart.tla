------------------------------ MODULE LiveChart ------------------------------
(* The candle chart: the candles a page passes, brought to one bar per bucket, *)
(* and the quotes that move the last bar once per animation frame. The chart   *)
(* is a mutable object beside the component; every commit of the component     *)
(* runs the effects whose inputs changed, in the order they are written.       *)
(* Prices are in hundredths, as the code rounds them.                          *)
EXTENDS Integers, Sequences, SequencesExt

CONSTANTS
    Periods,        \* of "1m", "2m" and "1d"
    Indicators,     \* that can be switched on, "rsi14" has a pane of its own
    MaxForwardGap,  \* the longest gap between two ticks of one session
    MaxBars, MaxPrice

VARIABLE ui

Interval == [p \in {"1m", "2m", "1d"} |-> CASE p = "1m" -> 1 [] p = "2m" -> 2 [] p = "1d" -> 4]

Row(t, o, h, l, c, v) == [time |-> t, open |-> o, high |-> h, low |-> l, close |-> c, volume |-> v]

\* Candles as they come: out of order, twice, with the extremes swapped, with
\* no price or no time.
Histories ==
    {<<>>,
     <<Row(2, 2, 1, 3, 3, 1), Row(1, 3, 3, 2, 2, 0), Row(2, 3, 3, 3, 3, 2)>>,
     <<Row(2, 0, 3, 3, 3, 1), Row(0, 3, 3, 3, 3, 1), Row(3, 5, 6, 5, 5, 1)>>}

\* Quotes of the store: cumulativeVolume is -1 when the quote has none.
Quote(p, t, v, r) == [ltp |-> p, quoteTs |-> t, cumulativeVolume |-> v, sessionRollover |-> r]
Quotes == {Quote(2, 3, 2, TRUE), Quote(5, 9, 1, FALSE), Quote(5, 9, -1, FALSE)}

-----------------------------------------------------------------------------
\* The candles brought to bars.
Highest(S) == CHOOSE x \in S : \A y \in S : y <= x
Lowest(S) == CHOOSE x \in S : \A y \in S : x <= y
ByTime(S) ==
    [i \in 1..Cardinality(S) |-> CHOOSE r \in S : Cardinality({x \in S : x.time < r.time}) = i - 1]

Plausible(r) ==
    LET prices == {r.open, r.high, r.low, r.close}
    IN  /\ r.time > 0
        /\ \A x \in prices : x > 0
        /\ Highest(prices) <= 3 * (r.open + r.close)
        /\ 12 * Lowest(prices) >= r.open + r.close

\* A later candle of the same time replaces an earlier one.
normalizeChartCandles(rows) ==
    LET good == {i \in DOMAIN rows : Plausible(rows[i])}
        kept == {i \in good : \A j \in good : rows[j].time = rows[i].time => j <= i}
        widened(r) == [r EXCEPT !.high = Highest({r.open, r.high, r.low, r.close}),
                                !.low = Lowest({r.open, r.high, r.low, r.close})]
    IN  ByTime({widened(rows[i]) : i \in kept})

\* Intraday buckets start at multiples of the interval, days at midnight in India.
alignBucketTime(t, p) ==
    LET offset == IF p = "1d" THEN 1 ELSE 0
    IN  ((t + offset) \div Interval[p]) * Interval[p] - offset

alignCandlesToPeriodBuckets(rows, p) ==
    LET inside(b) == {i \in DOMAIN rows : alignBucketTime(rows[i].time, p) = b}
        merged(b) == Row(b, rows[Lowest(inside(b))].open,
                         Highest({rows[i].high : i \in inside(b)}), Lowest({rows[i].low : i \in inside(b)}),
                         rows[Highest(inside(b))].close,
                         MapThenSumSet(LAMBDA i : rows[i].volume, inside(b)))
    IN  IF p = "1m" THEN rows ELSE ByTime({merged(alignBucketTime(rows[i].time, p)) : i \in DOMAIN rows})

\* A quote more than half off the last close moves the whole history.
shouldRebaseFromQuote(close, quote) ==
    close > 0 /\ quote > 0 /\ 2 * (IF quote > close THEN quote - close ELSE close - quote) > close

rebaseCandlesToTargetClose(rows, target) ==
    LET last == Last(rows).close
        scaled(x) == (2 * x * target + last) \div (2 * last)
        rescaled(r) == LET four == {scaled(r.open), scaled(r.high), scaled(r.low), scaled(r.close)}
                       IN  [r EXCEPT !.open = scaled(r.open), !.high = Highest(four),
                                     !.low = Lowest(four), !.close = scaled(r.close)]
    IN  IF last <= 0 \/ 20 * target < last \/ target > 20 * last THEN rows
        ELSE [i \in DOMAIN rows |-> rescaled(rows[i])]

alignCandlesToLiveQuote(rows, price) ==
    IF rows # <<>> /\ shouldRebaseFromQuote(Last(rows).close, price)
    THEN rebaseCandlesToTargetClose(rows, price) ELSE rows

BarsOf(c, p) == alignCandlesToPeriodBuckets(normalizeChartCandles(c), p)

-----------------------------------------------------------------------------
\* The effects, each on the state u of the component and its chart.
Price(u) == IF u.quote = {} THEN 0 ELSE (CHOOSE q \in u.quote : TRUE).ltp
Shown(u) == u.active \ u.hidden

RsiPane(u) == [u EXCEPT !.rsi = IF "rsi14" \in Shown(u) THEN "empty" ELSE "off"]

\* Written before the effect that takes the new candles: after new candles it
\* still draws the previous ones.
RsiData(u, candlesChanged) ==
    IF "rsi14" \in Shown(u) /\ u.bars # <<>>
    THEN [u EXCEPT !.rsi = IF candlesChanged THEN "previous" ELSE "current"]
    ELSE u

SetCandleData(u) ==
    LET rows == BarsOf(u.candles, u.period)
        aligned == alignCandlesToLiveQuote(rows, Price(u))
    IN  IF rows = <<>> THEN [u EXCEPT !.bars = <<>>, !.series = <<>>]
        ELSE [u EXCEPT !.bars = aligned, !.series = aligned, !.vol = {}]

RebaseOnQuote(u) ==
    LET rebased == alignCandlesToLiveQuote(u.bars, Price(u))
    IN  IF u.live /\ u.bars # <<>> /\ shouldRebaseFromQuote(Last(u.bars).close, Price(u))
        THEN [u EXCEPT !.bars = rebased, !.series = rebased] ELSE u

ClearStaleRefs(u) == [u EXCEPT !.bars = <<>>, !.vol = {}, !.line = "none", !.overlays = {}]

\* One animation frame at a time; it draws the last quote noted for it.
LivePrice(u) ==
    IF u.live /\ u.quote # {}
    THEN [u EXCEPT !.pending = {[quote |-> CHOOSE q \in u.quote : TRUE, period |-> u.period]},
                   !.frame = IF @ = "none" THEN "current" ELSE @]
    ELSE u

Overlays(u) == IF u.bars = <<>> THEN u ELSE [u EXCEPT !.overlays = Shown(u) \ {"rsi14"}]

-----------------------------------------------------------------------------
\* A page mounts the chart anew for every symbol, with the candles it has then.
\* raced: the chart and the bars went apart, until candles come.
Mounted(candles, quote, live, period, active, hidden) ==
    LET fresh == [candles |-> candles, quote |-> quote, live |-> live, period |-> period,
                  active |-> active, hidden |-> hidden, bars |-> <<>>, series |-> <<>>, vol |-> {},
                  pending |-> {}, frame |-> "none", line |-> "none", overlays |-> {}, rsi |-> "off",
                  raced |-> candles # <<>>]
    IN  Overlays(LivePrice(ClearStaleRefs(RebaseOnQuote(SetCandleData(RsiPane(fresh))))))

Init == \E c \in Histories, p \in Periods : ui = Mounted(c, {}, TRUE, p, {}, {})

Remount ==
    \E c \in {<<>>, ui.candles}, q \in {{}, ui.quote} :
        ui' = Mounted(c, q, ui.live, ui.period, ui.active, ui.hidden)

setCandles ==
    \E c \in Histories \ {ui.candles} :
        ui' = Overlays(SetCandleData([RsiData([ui EXCEPT !.candles = c], TRUE) EXCEPT !.raced = FALSE]))

onPeriodChange ==
    \E p \in Periods \ {ui.period} : ui' = LivePrice(SetCandleData([ui EXCEPT !.period = p]))

\* The chart is created anew; an animation frame under way keeps the old one.
setTheme ==
    LET bare == [ui EXCEPT !.series = <<>>, !.overlays = {},
                           !.frame = IF @ = "current" THEN "removed" ELSE @,
                           !.line = IF @ = "shown" THEN "removed" ELSE @]
    IN  ui' = Overlays(SetCandleData(RsiData(RsiPane(bare), FALSE)))

marketSession == ui' = LivePrice(RebaseOnQuote([ui EXCEPT !.live = ~@]))

Tick ==
    \E q \in Quotes :
        /\ ui' = LET noted == [ui EXCEPT !.quote = {q}]
                 IN  LivePrice(IF Price(noted) # Price(ui) THEN RebaseOnQuote(noted) ELSE noted)
        /\ \A i \in DOMAIN ui'.bars : ui'.bars[i].high <= MaxPrice

toggleIndicator ==
    \E id \in Indicators :
        LET was == id \in ui.active
            next == [ui EXCEPT !.active = IF was THEN @ \ {id} ELSE @ \cup {id},
                               !.hidden = IF was THEN @ \ {id} ELSE @]
            pane == IF id = "rsi14" THEN RsiData(RsiPane(next), FALSE) ELSE next
        IN  ui' = Overlays(pane)

\* The legend with its buttons is there when there are candles.
toggleHideIndicator ==
    \E id \in ui.active :
        LET next == [ui EXCEPT !.hidden = IF id \in @ THEN @ \ {id} ELSE @ \cup {id}]
        IN  /\ ui.candles # <<>>
            /\ ui' = Overlays(IF id = "rsi14" THEN RsiData(RsiPane(next), FALSE) ELSE next)

-----------------------------------------------------------------------------
\* The animation frame.
\* The volume of a bar: what the day's volume grew by since the bar began.
NewBarVolume(u, q, bucket) ==
    LET base == IF u.vol = {} THEN q.cumulativeVolume ELSE (CHOOSE v \in u.vol : TRUE).last
    IN  IF q.cumulativeVolume < 0 THEN [volume |-> 0, vol |-> {}]
        ELSE [volume |-> Highest({0, q.cumulativeVolume - base}),
              vol |-> {[bucket |-> bucket, base |-> base, last |-> q.cumulativeVolume]}]

SameBarVolume(u, q, bucket, prior) ==
    LET known == {v \in u.vol : v.bucket = bucket}
        first == IF known = {} THEN Highest({0, q.cumulativeVolume - prior})
                 ELSE (CHOOSE v \in known : TRUE).base
        base == Lowest({first, q.cumulativeVolume})
    IN  IF q.cumulativeVolume < 0 THEN [volume |-> prior, vol |-> u.vol]
        ELSE [volume |-> q.cumulativeVolume - base,
              vol |-> {[bucket |-> bucket, base |-> base, last |-> q.cumulativeVolume]}]

\* series.update: the last bar is replaced, a later one is appended.
Update(series, bar) ==
    IF series # <<>> /\ Last(series).time = bar.time
    THEN [series EXCEPT ![Len(series)] = bar] ELSE Append(series, bar)

\* The quote in the last bar, or in a new one when its bucket is over.
Drawn(u, q, period) ==
    LET rows == alignCandlesToLiveQuote(u.bars, q.ltp)
        last == Last(rows)
        bucket == alignBucketTime(q.quoteTs, period)
        rollover == q.sessionRollover \/ bucket - last.time > MaxForwardGap
        open == IF rollover THEN q.ltp ELSE last.close
        new == NewBarVolume(u, q, bucket)
        same == SameBarVolume(u, q, bucket, last.volume)
        bar == IF bucket > last.time
               THEN Row(bucket, open, Highest({open, q.ltp}), Lowest({open, q.ltp}), q.ltp, new.volume)
               ELSE [last EXCEPT !.close = q.ltp, !.high = Highest({@, q.ltp}),
                                 !.low = Lowest({@, q.ltp}), !.volume = same.volume]
        drawn == IF shouldRebaseFromQuote(Last(u.bars).close, q.ltp) THEN rows ELSE u.series
    IN  [u EXCEPT !.bars = Update(rows, bar),
                  !.vol = IF bucket > last.time THEN new.vol ELSE same.vol,
                  !.series = IF u.frame = "current" THEN Update(drawn, bar) ELSE @,
                  !.line = IF u.frame = "current" THEN "shown" ELSE "removed",
                  !.raced = @ \/ u.frame = "removed" \/ period # u.period]

Frame ==
    \E p \in ui.pending :
        LET next == IF ui.bars = <<>> THEN ui ELSE Drawn(ui, p.quote, p.period)
        IN  /\ ui' = [next EXCEPT !.pending = {}, !.frame = "none"]
            /\ Len(ui'.bars) <= MaxBars
            /\ \A i \in DOMAIN ui'.bars : ui'.bars[i].high <= MaxPrice

Next ==
    \/ Remount \/ setCandles \/ onPeriodChange \/ setTheme \/ marketSession
    \/ Tick \/ Frame \/ toggleIndicator \/ toggleHideIndicator

-----------------------------------------------------------------------------
Bars == [time : Int, open : Int, high : Int, low : Int, close : Int, volume : Int]

TypeOK ==
    /\ ui.candles \in Histories /\ ui.period \in Periods /\ ui.live \in BOOLEAN
    /\ ui.quote \subseteq Quotes /\ ui.raced \in BOOLEAN
    /\ \A s \in {ui.bars, ui.series} : DOMAIN s = 1..Len(s) /\ \A i \in DOMAIN s : s[i] \in Bars
    /\ ui.pending \subseteq [quote : Quotes, period : Periods]
    /\ ui.frame \in {"none", "current", "removed"} /\ ui.line \in {"none", "shown", "removed"}
    /\ ui.active \subseteq Indicators /\ ui.hidden \subseteq Indicators /\ ui.overlays \subseteq Indicators
    /\ ui.rsi \in {"off", "empty", "previous", "current"}

\* A quote that was noted is drawn: the frame that draws it is requested.
NothingLocked == ui.pending # {} => ui.frame # "none"

Rising(s) == \A i, j \in DOMAIN s : i < j => s[i].time < s[j].time

\* Whatever candles and ticks come, the bars are in order and well formed, on
\* the grid of the period, and they are what the chart shows, with the
\* indicators that are switched on.
ShownIsTrue ==
    /\ Rising(ui.bars) /\ Rising(ui.series)
    /\ \A i \in DOMAIN ui.bars :
           LET b == ui.bars[i]
           IN  {b.open, b.close} \subseteq b.low .. b.high /\ b.volume >= 0
    /\ ui.hidden \subseteq ui.active
    /\ (ui.rsi = "off") <=> ("rsi14" \notin Shown(ui))
    /\ ~ui.raced /\ ui.bars # <<>> => /\ ui.series = ui.bars
                                      /\ ui.overlays = Shown(ui) \ {"rsi14"}
    /\ ~ui.raced /\ ui.period # "1m" =>
           \A i \in DOMAIN ui.bars : alignBucketTime(ui.bars[i].time, ui.period) = ui.bars[i].time
================================================================================
