----------------------------- MODULE Strategies -----------------------------
(***************************************************************************)
(* The built-in strategies of shared/strategies.  A strategy is shown the  *)
(* bars of a symbol up to now and answers with a signal: BUY or SELL with  *)
(* a stop and a target, HOLD, or nothing.  A backtest makes one instance   *)
(* and asks it at every bar; the trading engine makes a new one for each   *)
(* turn, asks it as often as turns come, and sizes an order of the answer. *)
(*                                                                         *)
(* Bars, indicators and what they say of each other are readings; a        *)
(* strategy's settings are part of its setup.  Multiples are in tenths.    *)
(* Strengths, confidences and reports are left out.                        *)
(***************************************************************************)
EXTENDS Integers, FiniteSets

CONSTANTS
    Setups,       \* bound: strategies with their host and settings
    Prices,       \* bound: what a share may cost
    Atrs,         \* bound: average true ranges, 0 for none
    Levels,       \* bound: values of an average or of the RSI
    Candles,      \* bound: shapes of a bar, [open, high, low, close]
    Times,        \* bound: minutes of the day, by the clock of the data
    MaxEntries,   \* max_entries_per_day of orb
    Sizings,      \* bound: how an order is sized
    Accounts,     \* bound: [total, available] of the funds, or Unread
    Existing      \* bound: what the position is worth already

VARIABLES
    setup,     \* the strategy, who asks it, its settings
    day,       \* what the day's opening settled
    before,    \* what the strategy looks at in the bar before the last
    bar,       \* the last bar
    entries,   \* the breakouts this instance has signalled on the day
    answer,    \* what it answered for the last bar
    last       \* history: the last BUY or SELL of one that looks for crossings

vars == <<setup, day, before, bar, entries, answer, last>>

NoBar == [time |-> 0]
Unread == [total |-> -1]
Nothing == [type |-> "NOTHING"]
Raised == [type |-> "RAISED"]
Unasked == [type |-> "UNASKED"]
Hold(price) == [type |-> "HOLD", price |-> price, stop |-> 0]

\* 9:15, and the end of orb's opening range.
MarketOpen == 555
RangeEnd == MarketOpen + 15

Distance(a, b) == IF a >= b THEN a - b ELSE b - a
Lesser(a, b) == IF a <= b THEN a ELSE b

-----------------------------------------------------------------------------
(* Stops and targets of the base class *)

\* On the losing side of a price.
\* In the variant always below.
BehindBelow(price, side, distance) == price - distance
Behind(price, side, distance) == IF side = "BUY" THEN price - distance ELSE price + distance

\* calculate_stop_loss: a multiple of the range, or 2% where there is none.
StopOf(price, side, atr) ==
    Behind(price, side, IF atr # 0 THEN (atr * setup.multiplier) \div 10 ELSE price \div 50)

TargetOf(price, stop, side) ==
    LET reward == (Distance(price, stop) * setup.ratio) \div 10
    IN  IF side = "BUY" THEN price + reward ELSE price - reward

Signal(side, price, stop, target) ==
    [type |-> side, price |-> price, stop |-> stop, target |-> target]

WithStop(side, price, stop) == Signal(side, price, stop, TargetOf(price, stop, side))
Standard(side) == WithStop(side, bar.close, StopOf(bar.close, side, bar.atr))

\* BUY on one condition, SELL on another, and HOLD on every other bar.
Either(buy, sell) ==
    IF buy THEN Standard("BUY") ELSE IF sell THEN Standard("SELL") ELSE Hold(bar.close)

-----------------------------------------------------------------------------
(* The indicator strategies *)

\* A touch of the averages is on neither side.  In the variant a crossing
\* has to come from strictly below.
GoldenFromBelow(b) == b.fast < b.slow /\ bar.fast > bar.slow
Golden(b) == b.fast <= b.slow /\ bar.fast > bar.slow
Death(b) == b.fast >= b.slow /\ bar.fast < bar.slow

MovingAverage == Either(Golden(before), Death(before))

\* The strength of a HOLD divides by the distance of the thresholds.
Rsi ==
    IF bar.rsi = setup.low /\ setup.low = setup.high THEN Raised
    ELSE Either(bar.rsi < setup.low, bar.rsi > setup.high)

\* A histogram of exactly 0 belongs to neither side, and a crossing that
\* passes through it is not one.
Macd ==
    Either(before.histogram < 0 /\ bar.histogram > 0, before.histogram > 0 /\ bar.histogram < 0)

Bollinger == Either(bar.close <= bar.lower, bar.close >= bar.upper)

\* One point for each factor.
Factors == {"above vwap", "fast ema", "medium ema", "rsi", "volume"}
VwapMomentum == LET score == Cardinality(bar.factors) IN Either(score >= 4, score <= 1)

Body(c) == Distance(c.open, c.close)
LowerWick(c) == Lesser(c.open, c.close) - c.low
UpperWick(c) == c.high - (c.open + c.close - Lesser(c.open, c.close))

BullishEngulfing(p, c) == p.close < p.open /\ c.close > c.open /\ c.close > p.open /\ c.open < p.close
BearishEngulfing(p, c) == p.close > p.open /\ c.close < c.open /\ c.open > p.close /\ c.close < p.open
BullishPin(c) == c.high > c.low /\ LowerWick(c) >= 2 * Body(c) /\ UpperWick(c) < Body(c)
BearishPin(c) == c.high > c.low /\ UpperWick(c) >= 2 * Body(c) /\ LowerWick(c) < Body(c)

\* The first pattern that fits.
Pattern(p, c) ==
    IF BullishEngulfing(p, c) THEN "bullish"
    ELSE IF BearishEngulfing(p, c) THEN "bearish"
    ELSE IF BullishPin(c) THEN "bullish"
    ELSE IF BearishPin(c) THEN "bearish" ELSE "none"

PriceAction ==
    LET pattern == Pattern(before.candle, bar.candle)
    IN  Either(pattern = "bullish" /\ bar.volume /\ bar.trend = "up",
               pattern = "bearish" /\ bar.volume /\ bar.trend = "down")

\* Half points; 3 of 5 suffice, and there is no HOLD.  Backtests give it
\* columns whose names begin with capitals, and it knows no such columns.
ShortFactors == {"below ema", "ema", "macd", "adx"}
MomentumShort ==
    LET rsi == CASE bar.rsi = "over" -> 2 [] bar.rsi = "low" -> 1 [] bar.rsi = "middle" -> 0
    IN  IF setup.host = "backtest" THEN Raised
        ELSE IF 2 * Cardinality(bar.factors) + rsi < 6 THEN Nothing
        ELSE WithStop("SELL", bar.close, bar.close + (bar.atr * setup.multiplier) \div 10)

-----------------------------------------------------------------------------
(* The intraday strategies *)

Within(until) == MarketOpen <= bar.time /\ bar.time <= until

\* Pullbacks to the VWAP in a trend, within 2% and with a band touched.
VwapReversion ==
    LET near(side) == IF side = "BUY" THEN 1000 * bar.close <= 1003 * bar.vwap
                      ELSE 1000 * bar.close >= 997 * bar.vwap
        turns(side) == IF side = "BUY" THEN bar.close > before.close ELSE bar.close < before.close
        side == IF bar.trend = "up" THEN "BUY" ELSE "SELL"
        gap == Distance(bar.close, bar.vwap)
        stop == IF bar.atr # 0 THEN (bar.atr * setup.multiplier) \div 10 ELSE (gap * 15) \div 10
    IN  IF /\ Within(14 * 60 + 30)
           /\ bar.trend # "neutral"
           /\ 100 * gap <= 2 * bar.vwap
           /\ near(side) /\ turns(side) /\ bar.touched
        THEN WithStop(side, bar.close, Behind(bar.close, side, stop))
        ELSE Nothing

\* The range of the day's first quarter of an hour is compared by naive
\* clocks, which fails where the data knows its time zone.  Breakouts are
\* those of the close, or of the bar's high and low; the strength divides by
\* the size of the range.
OpensUp == LET c == IF setup.closes THEN bar.close ELSE bar.high
           IN  1000 * (c - day.high) > day.high - day.low
OpensDown == LET c == IF setup.closes THEN bar.close ELSE bar.low
             IN  1000 * (day.low - c) > day.high - day.low

OrbStop(side) ==
    CASE setup.stop = "range" -> IF side = "BUY" THEN day.low ELSE day.high
      [] setup.stop = "atr" /\ bar.atr # 0 -> Behind(bar.close, side, (bar.atr * 15) \div 10)
      [] OTHER -> Behind(bar.close, side, bar.close \div 200)

Orb ==
    LET side == IF OpensUp THEN "BUY" ELSE "SELL"
        count == IF setup.host = "backtest" THEN entries ELSE 0
    IN  IF ~Within(14 * 60) THEN Nothing
        ELSE IF day.aware THEN Raised
        ELSE IF ~day.ranged \/ bar.time < RangeEnd \/ count >= MaxEntries THEN Nothing
        ELSE IF ~OpensUp /\ ~OpensDown THEN Nothing
        ELSE IF day.high = day.low THEN Raised
        ELSE WithStop(side, bar.close, OrbStop(side))

\* An opening 1% to 8% away from the close before, confirmed by the first
\* bar of the day.  The stop stays at a level of the gap wherever the price
\* has gone since.
Gap == Distance(day.open, day.previous)
GapStop(side) ==
    CASE setup.stop = "prev_close" -> day.previous
      [] setup.stop = "atr" /\ bar.atr # 0 -> Behind(bar.close, side, (bar.atr * 15) \div 10)
      [] OTHER -> (day.open + day.previous) \div 2

GapGo ==
    LET side == IF day.open > day.previous THEN "BUY" ELSE "SELL"
        confirmed == IF side = "BUY" THEN day.first >= day.open ELSE day.first <= day.open
        stop == GapStop(side)
    IN  IF /\ Within(11 * 60)
           /\ 100 * Gap >= day.previous /\ 100 * Gap <= 8 * day.previous
           /\ confirmed
        THEN IF setup.fills
             THEN Signal(side, bar.close, stop, Behind(bar.close, side, -Gap))
             ELSE WithStop(side, bar.close, stop)
        ELSE Nothing

\* generate_signals.
Answer ==
    CASE setup.kind = "ma_crossover" -> MovingAverage
      [] setup.kind = "rsi" -> Rsi
      [] setup.kind = "macd" -> Macd
      [] setup.kind = "bollinger" -> Bollinger
      [] setup.kind = "vwap_momentum" -> VwapMomentum
      [] setup.kind = "price_action_volume_swing" -> PriceAction
      [] setup.kind = "momentum_short" -> MomentumShort
      [] setup.kind = "vwap_reversion" -> VwapReversion
      [] setup.kind = "orb" -> Orb
      [] setup.kind = "gap_go" -> GapGo

-----------------------------------------------------------------------------
(* The size of an order: _calculate_position_size of the executor *)

AtLeastOne(q) == IF q < 1 THEN 1 ELSE q

\* _cap_qty_by_max_position_value; no cap is 0.  In the variant the position
\* there is does not count.
CappedAlone(z, q, existing) ==
    IF z.cap = 0 \/ bar.close * q <= z.cap THEN q ELSE z.cap \div bar.close
Capped(z, q, existing) ==
    IF z.cap = 0 \/ existing + bar.close * q <= z.cap THEN q
    ELSE IF z.cap <= existing THEN 0 ELSE (z.cap - existing) \div bar.close

HasStop == answer.type \in {"BUY", "SELL"} /\ answer.stop # 0 /\ bar.close > answer.stop

\* Where the funds cannot be read, or no stop is below the price, the size is
\* a fixed or a percentage of the portfolio, and nothing caps it.
FallsBack(z, account) ==
    \/ z.method \in {"PERCENT_OF_PORTFOLIO", "RISK_BASED"} /\ account = Unread
    \/ z.method = "RISK_BASED" /\ ~HasStop

Affordable(z, account, q) ==
    IF z.intraday THEN Lesser(q, (4 * account.available) \div bar.close) ELSE q

Quantity(z, account, existing) ==
    LET share(percent) == (account.total * percent) \div 100
        sized(q) == IF q <= 0 THEN 0 ELSE Capped(z, q, existing)
    IN  CASE z.method = "FIXED_QUANTITY" -> Capped(z, z.quantity, existing)
          [] z.method = "FIXED_AMOUNT" ->
                Capped(z, AtLeastOne(z.amount \div bar.close), existing)
          [] FallsBack(z, account) ->
                AtLeastOne((IF account = Unread THEN z.amount ELSE share(z.percent)) \div bar.close)
          [] z.method = "PERCENT_OF_PORTFOLIO" ->
                sized(Affordable(z, account, share(z.percent) \div bar.close))
          [] OTHER ->
                sized(Affordable(z, account, share(z.risk) \div (bar.close - answer.stop)))

-----------------------------------------------------------------------------
(* The bars *)

\* Those that look at the day's opening, and those that look for a crossing.
FromOpening == {"orb", "gap_go"}
Crossing == {"ma_crossover", "macd"}

Readings ==
    CASE setup.kind = "ma_crossover" ->
            [time : {0}, atr : Atrs, close : Prices, fast : Levels, slow : Levels]
      [] setup.kind = "rsi" ->
            [time : {0}, atr : Atrs, close : Prices, rsi : Levels]
      [] setup.kind = "macd" ->
            [time : {0}, atr : Atrs, close : Prices, histogram : -1..1]
      [] setup.kind = "bollinger" ->
            [time : {0}, atr : Atrs, close : Prices, lower : Prices, upper : Prices]
      [] setup.kind = "vwap_momentum" ->
            [time : {0}, atr : Atrs, close : Prices, factors : SUBSET Factors]
      [] setup.kind = "momentum_short" ->
            [time : {0}, atr : Atrs, close : Prices,
             factors : SUBSET ShortFactors, rsi : {"over", "middle", "low"}]
      [] setup.kind = "price_action_volume_swing" ->
            {[time |-> 0, atr |-> a, close |-> c.close, candle |-> c,
              volume |-> v, trend |-> t] :
                a \in Atrs, c \in Candles, v \in BOOLEAN, t \in {"up", "down", "none"}}
      [] setup.kind = "vwap_reversion" ->
            [time : Times, atr : Atrs, close : Prices, vwap : Prices,
             trend : {"up", "down", "neutral"}, touched : BOOLEAN]
      [] setup.kind = "orb" ->
            {[time |-> t, atr |-> a, close |-> c.close, high |-> c.high, low |-> c.low] :
                t \in Times, a \in Atrs, c \in Candles}
      [] setup.kind = "gap_go" ->
            [time : Times, atr : Atrs, close : Prices]

\* What a day's first bars settle.
Openings ==
    CASE setup.kind = "orb" ->
            [aware : BOOLEAN, ranged : BOOLEAN, low : Prices, high : Prices]
      [] setup.kind = "gap_go" -> [previous : Prices, open : Prices, first : Prices]
      [] OTHER -> {NoBar}

\* What a strategy looks at in the bar before the last.
Kept ==
    CASE setup.kind = "ma_crossover" -> [fast |-> bar.fast, slow |-> bar.slow]
      [] setup.kind = "macd" -> [histogram |-> bar.histogram]
      [] setup.kind = "price_action_volume_swing" -> [candle |-> bar.candle]
      [] setup.kind = "vwap_reversion" -> [close |-> bar.close]
      [] OTHER -> NoBar

Days == {d \in Openings :
            setup.kind = "orb" => d.low = d.high \/ (d.ranged /\ ~d.aware /\ d.low < d.high)}

\* The last bar before there are enough to ask for; those of the day's opening
\* are followed from its first.
Init ==
    /\ setup \in Setups
    /\ day \in Days
    /\ bar \in IF setup.kind \in FromOpening THEN {NoBar} ELSE Readings
    /\ before = NoBar /\ entries = 0
    /\ answer = Nothing /\ last = "NONE"

\* A backtest asks at every bar.
Arrive(r) ==
    /\ setup.host = "backtest" => answer # Unasked
    /\ setup.kind \in FromOpening => r.time > bar.time
    /\ bar' = r /\ before' = Kept
    /\ answer' = Unasked
    /\ UNCHANGED <<setup, day, entries, last>>

NextDay ==
    /\ setup.kind \in FromOpening /\ bar # NoBar
    /\ setup.host = "backtest" => answer # Unasked
    /\ day' \in Days
    /\ bar' = NoBar /\ before' = NoBar /\ entries' = 0 /\ answer' = Nothing
    /\ UNCHANGED <<setup, last>>

Ask ==
    /\ answer = Unasked
    /\ answer' = Answer
    /\ LET signals == answer'.type \in {"BUY", "SELL"}
       IN  /\ entries' = IF setup.kind = "orb" /\ signals THEN entries + 1 ELSE entries
           /\ last' = IF setup.kind \in Crossing /\ signals THEN answer'.type ELSE last
    /\ UNCHANGED <<setup, day, before, bar>>

Next == Ask \/ NextDay \/ \E r \in Readings : Arrive(r)

Spec == Init /\ [][Next]_vars

-----------------------------------------------------------------------------
(* Properties *)

Types == {"BUY", "SELL", "HOLD", "NOTHING", "RAISED", "UNASKED"}

\* Types; only a signal of orb counts as an entry.
TypeOK ==
    /\ setup \in Setups
    /\ bar = NoBar \/ bar.close > 0
    /\ answer.type \in Types /\ last \in {"NONE", "BUY", "SELL"}
    /\ entries \in Nat /\ (setup.kind # "orb" => entries = 0)

\* A stop is never on the winning side of the price, nor a target on the
\* losing one.
Protects ==
    answer.type \in {"BUY", "SELL"} =>
        IF answer.type = "BUY" THEN answer.stop <= answer.price /\ answer.price <= answer.target
        ELSE answer.target <= answer.price /\ answer.price <= answer.stop

\* Whether a stop stands at a level of the day, which the price may have
\* passed when the signal is given.
AtLevel ==
    \/ setup.kind = "gap_go" /\ setup.stop # "atr"
    \/ setup.kind = "gap_go" /\ bar.atr = 0
    \/ setup.kind = "orb" /\ ~setup.closes

\* Every signal of a strategy protects what it opens: whatever the indicators
\* read, its stop is behind the price and its target ahead.  Signals whose
\* stop is a level of the day are left to LevelsProtect.
SignalsProtect == answer.type \in {"BUY", "SELL"} => AtLevel \/ Protects

\* Theirs do, too: orb's "range: Stop at opposite side of range" and the
\* midpoint of gap_go.  They do not: gap_go confirms a gap by its first bar
\* and buys below the midpoint later on.
LevelsProtect == Protects

\* In a backtest the last signal of the moving averages agrees with them: no
\* crossing is lost between two bars, not even through a touch.
CrossingsAreSignalled ==
    setup.kind = "ma_crossover" /\ setup.host = "backtest"
        /\ answer # Unasked /\ last # "NONE" =>
            /\ bar.fast > bar.slow => last = "BUY"
            /\ bar.fast < bar.slow => last = "SELL"

\* Those of the MACD do, too.  They do not: see Macd.
MacdIsSignalled ==
    setup.kind = "macd" /\ setup.host = "backtest"
        /\ answer # Unasked /\ last # "NONE" =>
            /\ bar.histogram > 0 => last = "BUY"
            /\ bar.histogram < 0 => last = "SELL"

Sized == setup.host = "engine" /\ answer.type \in {"BUY", "SELL", "HOLD"}

\* The size of an order keeps the position within max_position_value, and by
\* risk also what is lost at its stop within the risk per trade, unless it
\* falls back to a size of another kind.
SizesWithinLimits ==
    Sized =>
        \A z \in Sizings, account \in Accounts, existing \in Existing :
            LET q == Quantity(z, account, existing)
            IN  FallsBack(z, account) \/
                /\ z.cap # 0 /\ q > 0 => existing + q * bar.close <= z.cap
                /\ z.method = "RISK_BASED" =>
                       q * (bar.close - answer.stop) <= (account.total * z.risk) \div 100

\* "max_position_value as TOTAL cap on per-symbol notional" (a comment of the
\* executor).  It is not where the size falls back.
CapIsTotal ==
    Sized =>
        \A z \in Sizings, account \in Accounts, existing \in Existing :
            LET q == Quantity(z, account, existing)
            IN  z.cap # 0 /\ q > 0 => existing + q * bar.close <= z.cap

=============================================================================
