----------------------------- MODULE Screening -----------------------------
\* The screener of the backend: filters over a year of daily bars, presets and
\* their strictness, a shared cache of answers, a user's saved screener, and
\* the strategy that is inferred from its filters.
\*
\* A universe may be edited, or refreshed, at any mark; users have their quotes
\* from providers that differ.  A symbol's bars are a reading: what the filters
\* compute of them, with no bars where they could not be fetched.  Volume ratios
\* are in hundredths, the way over a range's high in tenths of a percent, clock
\* times in minutes of a day in UTC.
EXTENDS Integers, Sequences, FiniteSets, FiniteSetsExt, SequencesExt

CONSTANTS Providers,    \* where a user may have set his quotes to come from
          Default,      \* where those of automatic runs and of the index come from
          Clock,        \* the times at which something happens, in order
          Histories,    \* at each mark, the symbols of the one universe that is
                        \* named, in its order, and the quotes of each provider
          Weekdays,     \* whether it is a weekday
          Questions,    \* what is asked of the screener, with the asker's provider
          Saved,        \* filters a user saves
          Callers, MaxMoves

VARIABLES past,         \* the history of this day, and whether it is a weekday
          mark,         \* where the clock is in Clock
          cache,        \* the answers in Redis
          task,         \* what each caller has in progress
          given,        \* the last answer each caller got
          screener,     \* the saved screener
          moves

vars == <<past, mark, cache, task, given, screener, moves>>

Now == Clock[mark]
Symbols == past.history[mark].symbols
Market(provider) == past.history[mark].quotes[provider]

-----------------------------------------------------------------------------
\* Filters

Filter(type, params) == [type |-> type, params |-> params]
Of(f, name, default) == IF name \in DOMAIN f.params THEN f.params[name] ELSE default
Failed == [passed |-> FALSE, score |-> 0]
Passed(score) == [passed |-> TRUE, score |-> Min({100, score})]
Points(n, earned) == IF earned THEN n ELSE 0
Requires(f, name) == Of(f, name, FALSE)

Volume(f, r) ==
    LET least == Of(f, "min_avg_volume", 100000)
        spike == r.ratio >= Of(f, "volume_spike_threshold", 150)
    IN  IF r.bars < 20 \/ r.volume < least \/ (Requires(f, "require_spike") /\ ~spike) THEN Failed
        ELSE Passed(Min({100, (r.volume * 50) \div least})
                    + Points(Min({50, (r.ratio * 25) \div 100}), spike))

\* At least one of the checks that are asked for; two of a short one.
Bullish(f, r) ==
    LET near == r.fromHigh <= Of(f, "near_52w_high_pct", 25)
        roc == Of(f, "min_roc", 0) > 0 /\ r.roc >= Of(f, "min_roc", 0)
        low == Of(f, "min_pct_above_52w_low", 0) > 0
               /\ r.aboveLow >= Of(f, "min_pct_above_52w_low", 0)
    IN  IF near \/ roc \/ low
        THEN Passed(50 + Points(15, roc) + Points(15, near) + Points(10, low) + Points(10, r.rsi > 50))
        ELSE Failed
Oversold(f, r) == IF r.rsi < Of(f, "rsi_oversold", 30) THEN Passed(80) ELSE Failed
Weak(f, r) ==
    LET falls == Of(f, "min_roc", 0) # 0 /\ r.roc < 0
        high == r.rsi > Of(f, "rsi_overbought", 70)
        low == r.aboveLow < 30
    IN  IF (falls /\ (high \/ low)) \/ (high /\ low)
        THEN Passed(50 + Points(15, falls) + Points(20, high) + Points(15, low))
        ELSE Failed
Momentum(f, r) ==
    LET mode == Of(f, "momentum_mode", "bullish")
    IN  CASE r.bars < 200 -> Failed
          [] r.bars >= 200 /\ mode = "bullish" -> Bullish(f, r)
          [] r.bars >= 200 /\ mode = "bearish" -> Oversold(f, r)
          [] r.bars >= 200 /\ mode = "bearish_short" -> Weak(f, r)
          [] OTHER -> Passed(50)

Average(f, r) ==
    LET trend == Of(f, "trend_ma", 200)
        above == trend \in r.above
        fromAbove == Of(f, "require_above_trend", TRUE)
        fromBelow == Requires(f, "require_below_trend")
        stacked == Requires(f, "require_stacked_ma")
        up == Requires(f, "require_trend_up")
        crossed == Requires(f, "require_ma_crossover")
    IN  IF \/ r.bars < Max({trend, 150}) + 27
           \/ (fromAbove /\ ~above) \/ (fromBelow /\ above)
           \/ (stacked /\ ~r.stacked) \/ (up /\ ~r.up) \/ (crossed /\ ~r.crossed)
        THEN Failed
        ELSE Passed(50 + Points(15, fromAbove) + Points(20, fromBelow) + Points(20, stacked)
                    + Points(15, up) + Points(10, {50, 150, trend} \subseteq r.above)
                    + Points(10, r.crossed))

Breakout(f, r) ==
    IF r.bars < 25 \/ r.over < Of(f, "breakout_pct", 20) THEN Failed
    ELSE Passed(60 + IF r.ratio >= Of(f, "volume_confirmation", 150) THEN 30 ELSE 10)

Consolidation(f, r) ==
    IF r.bars < 20 \/ r.range > Of(f, "max_range_pct", 10) THEN Failed
    ELSE Passed(60 + Points(20, Of(f, "declining_volume", TRUE) /\ r.declining)
                   + Points(15, r.nearTop))

Performance(f, r) ==
    IF r.bars < Of(f, "lookback_period", 20) \/ r.roc <= 0 THEN Failed
    ELSE Passed(50 + Min({30, 3 * r.roc}) + Points(15, r.nearTop) + Points(5, r.roc > 5))

Apply(f, r) ==
    CASE f.type = "volume" -> Volume(f, r)
      [] f.type = "momentum" -> Momentum(f, r)
      [] f.type = "moving_average" -> Average(f, r)
      [] f.type = "breakout" -> Breakout(f, r)
      [] f.type = "consolidation" -> Consolidation(f, r)
      [] f.type = "price_action" -> Performance(f, r)

\* Without a filter every symbol that has bars passes with the highest score.
Fits(filters, r) == r.bars > 0 /\ \A i \in DOMAIN filters : Apply(filters[i], r).passed
Total(filters, r) == FoldSeq(LAMBDA f, sum : Apply(f, r).score + sum, 0, filters)
AtLeast(filters, r, score) == filters = <<>> \/ Total(filters, r) >= score * Len(filters)

Position(s, symbols) == CHOOSE i \in DOMAIN symbols : symbols[i] = s
ListOf(filters, least, most, symbols, quotes) ==
    LET fit == {s \in ToSet(symbols) : Fits(filters, quotes[s]) /\ AtLeast(filters, quotes[s], least)}
        Better(s, t) == LET a == Total(filters, quotes[s])
                            b == Total(filters, quotes[t])
                        IN  a > b \/ (a = b /\ Position(s, symbols) < Position(t, symbols))
        ranked == SetToSortSeq(fit, Better)
    IN  SubSeq(ranked, 1, Min({most, Len(ranked)}))

-----------------------------------------------------------------------------
\* Presets and strictness

\* In thousandths, at each of the levels.
Multiplier ==
    [near_52w_high_pct |-> <<1000, 1500, 2000, 3000>>,
     min_pct_above_52w_low |-> <<1000, 700, 500, 0>>,
     min_roc |-> <<1000, 500, 250, 0>>,
     min_avg_volume |-> <<1000, 500, 200, 20>>,
     volume_spike_threshold |-> <<1000, 750, 625, 500>>,
     max_range_pct |-> <<1000, 1500, 2000, 3000>>,
     breakout_pct |-> <<1000, 500, 250, 0>>]
Switches == {"require_stacked_ma", "require_trend_up", "require_spike"}

\* A whole number is cut towards zero.
Scaled(n, by) == IF n < 0 THEN -((-n * by) \div 1000) ELSE (n * by) \div 1000
RelaxedSwitched(f, level) ==
    Filter(f.type, [p \in DOMAIN f.params |->
        IF p \in DOMAIN Multiplier THEN Scaled(f.params[p], Multiplier[p][level])
        ELSE IF p \in Switches THEN level # 2
        ELSE f.params[p]])
Relaxed(f, level) ==
    Filter(f.type, [p \in DOMAIN f.params |->
        IF p \in DOMAIN Multiplier THEN Scaled(f.params[p], Multiplier[p][level])
        ELSE IF p \in Switches THEN level = 2
        ELSE f.params[p]])
ApplyStrictness(filters, level) ==
    IF level = 1 THEN filters ELSE [i \in DOMAIN filters |-> Relaxed(filters[i], level)]

Liquid == Filter("volume", [min_avg_volume |-> 50000])
Above(ma) == Filter("moving_average", [require_above_trend |-> TRUE, trend_ma |-> ma])
Below(ma) == Filter("moving_average", [require_below_trend |-> TRUE, trend_ma |-> ma])
Preset ==
    [minervini |->
        <<Liquid,
          Filter("moving_average", [trend_ma |-> 200, require_above_trend |-> TRUE,
                                    require_stacked_ma |-> TRUE, require_trend_up |-> TRUE]),
          Filter("momentum", [momentum_mode |-> "bullish", near_52w_high_pct |-> 25,
                              min_pct_above_52w_low |-> 30])>>,
     momentum |->
        <<Liquid, Filter("momentum", [momentum_mode |-> "bullish", min_roc |-> 2,
                                      near_52w_high_pct |-> 25]), Above(200)>>,
     breakout |->
        <<Filter("volume", [min_avg_volume |-> 50000, require_spike |-> TRUE,
                            volume_spike_threshold |-> 200]),
          Filter("breakout", [breakout_pct |-> 20]), Above(200)>>,
     consolidation |->
        <<Liquid, Filter("consolidation", [max_range_pct |-> 15, declining_volume |-> TRUE]), Above(200)>>,
     value |->
        <<Liquid, Filter("momentum", [momentum_mode |-> "bearish", rsi_oversold |-> 30]), Above(200)>>,
     sector_rotation |->
        <<Liquid, Filter("price_action", [lookback_period |-> 50]), Above(200)>>,
     bearish_short |->
        <<Liquid, Filter("momentum", [momentum_mode |-> "bearish_short", rsi_overbought |-> 60,
                                      min_roc |-> -2]), Below(50)>>,
     adaptive |-> <<Liquid, Filter("momentum", [momentum_mode |-> "bullish"]), Above(50)>>]

\* The regime of the index: three scores in hundredths of a percent of weight;
\* breadth is always 0, and what cannot be fetched counts 0.
TrendScore(n) ==
    IF n.bars < 50 THEN 0
    ELSE 30 * n.over50 + 30 * n.over200 + 20 * n.aligned + 20 * n.placed
MomentumScore(n) ==
    IF n.bars < 20 THEN 0
    ELSE (CASE n.rsi > 70 -> 30 [] n.rsi > 55 /\ n.rsi <= 70 -> 50 [] n.rsi < 30 -> -30
            [] n.rsi >= 30 /\ n.rsi < 45 -> -50 [] OTHER -> 0)
         + (CASE n.roc > 5 -> 50 [] n.roc \in 1..5 -> 25 [] n.roc < -5 -> -50
              [] n.roc \in -5..-1 -> -25 [] OTHER -> 0)
VolatilityScore(n) ==
    CASE n.vix = 0 -> 0 [] n.vix \in 1..11 -> 50 [] n.vix \in 12..17 -> 25
      [] n.vix > 35 -> -75 [] n.vix \in 26..35 -> -50 [] OTHER -> -25
Composite(n) == 35 * TrendScore(n) + 25 * MomentumScore(n) + 15 * VolatilityScore(n)
Regime(n) == CASE Composite(n) >= 2000 -> "bullish"
               [] Composite(n) <= -2000 -> "bearish"
               [] OTHER -> "neutral"

AdaptiveFilters(regime) ==
    CASE regime = "bullish" ->
           <<Liquid, Filter("momentum", [momentum_mode |-> "bullish", min_roc |-> 5,
                                         near_52w_high_pct |-> 25]),
             Above(50), Filter("breakout", [volume_surge |-> 150])>>
      [] regime = "bearish" ->
           <<Liquid, Filter("momentum", [momentum_mode |-> "bearish_short"]), Below(50)>>
      [] regime = "neutral" ->
           <<Filter("volume", [min_avg_volume |-> 100000]),
             Filter("momentum", [momentum_mode |-> "bullish", min_roc |-> 8, near_52w_high_pct |-> 10]),
             Filter("consolidation", [max_range_pct |-> 8]), Above(20)>>

-----------------------------------------------------------------------------
\* Direction and strategy of a list of filters

Short(f) == \/ f.type = "momentum" /\ Of(f, "momentum_mode", "bullish") = "bearish_short"
            \/ f.type = "moving_average" /\ Requires(f, "require_below_trend")
Direction(filters) == IF \E i \in DOMAIN filters : Short(filters[i]) THEN "SHORT" ELSE "LONG"

\* Of several filters of a type the last one speaks; a bearish one always does.
Has(filters, type) == \E i \in DOMAIN filters : filters[i].type = type
Says(filters, type, name, default) ==
    LET of == SelectSeq(filters, LAMBDA f : f.type = type)
    IN  IF of = <<>> THEN default ELSE Of(Last(of), name, default)
ShortIntentOfMomentum(filters) ==
    \E i \in DOMAIN filters : filters[i].type = "momentum" /\ Short(filters[i])
ShortIntent(filters) == \E i \in DOMAIN filters : Short(filters[i])
Inferred(filters) ==
    LET spikes == Says(filters, "volume", "require_spike", FALSE)
        stacked == Says(filters, "moving_average", "require_stacked_ma", FALSE)
        up == Says(filters, "moving_average", "require_trend_up", FALSE)
    IN  CASE ShortIntent(filters) -> "momentum_short"
          [] ~ShortIntent(filters) /\ Has(filters, "breakout") /\ spikes -> "vwap_momentum"
          [] ~ShortIntent(filters) /\ ~(Has(filters, "breakout") /\ spikes) ->
               (IF Says(filters, "momentum", "momentum_mode", "bullish") = "bearish" THEN "rsi"
                ELSE IF stacked THEN "ma_crossover"
                ELSE IF ~up /\ Has(filters, "consolidation") THEN "bollinger"
                ELSE "vwap_momentum")

-----------------------------------------------------------------------------
\* Answers and the cache

Idle == [stage |-> "idle"]
NoAnswer == [kind |-> "none"]
NoScreener == [saved |-> FALSE]

InMarketHours == past.weekday /\ Now >= 225 /\ Now <= 600
Lifetime == IF InMarketHours THEN 5 ELSE 60

\* A request as run_screener gets it: with the symbols the universe has now.
Plain(filters, least, most, provider) ==
    [filters |-> filters, least |-> least, most |-> most, symbols |-> Symbols, provider |-> provider]
Asked(q) ==
    Plain(IF q.preset = "none" THEN q.filters ELSE ApplyStrictness(Preset[q.preset], q.level),
          q.least, q.most, q.provider)

\* The key names the universe, which is always the same one here.  It has neither
\* the symbols nor the provider.
KeyWithoutSize(request) == <<request.filters, request.least>>
Key(request) == <<request.filters, request.least, request.most>>
Cached(request) == {e \in cache : e.key = Key(request) /\ Now < e.until}

Init ==
    /\ past \in [history : Histories, weekday : Weekdays]
    /\ mark = 1
    /\ cache = {}
    /\ task = [c \in Callers |-> Idle]
    /\ given = [c \in Callers |-> NoAnswer]
    /\ screener = NoScreener
    /\ moves = 0

Move == moves < MaxMoves /\ moves' = moves + 1

\* A cached answer is given as it is, whoever's run it is from; an error of Redis
\* passes for a miss.  No symbols, no answer.
Begin(c, request) ==
    /\ task[c] = Idle
    /\ request.symbols # <<>>
    /\ \/ \E e \in Cached(request) :
             /\ given' = [given EXCEPT ![c] = [kind |-> "screen", asked |-> request, list |-> e.list,
                                direction |-> e.direction, run |-> e.run, at |-> e.at, served |-> Now,
                                cached |-> TRUE]]
             /\ UNCHANGED task
       \/ /\ task' = [task EXCEPT ![c] = [stage |-> "asked", kind |-> "screen", request |-> request]]
          /\ UNCHANGED given
    /\ Move
    /\ UNCHANGED <<past, mark, cache, screener>>

Run(c) == \E q \in Questions : Begin(c, Asked(q))

\* The filters of the row, whatever its preset.
RunSaved(c) == screener.saved /\ \E p \in Providers : Begin(c, Plain(screener.filters, 50, 50, p))

\* The row is read, and the session given back, before the long run.
RunAutoTrade(c) ==
    /\ task[c] = Idle
    /\ screener.saved /\ screener.auto
    /\ task' = [task EXCEPT ![c] = [stage |-> "asked", kind |-> "auto", row |-> screener]]
    /\ Move
    /\ UNCHANGED <<past, mark, cache, given, screener>>

\* The filters of an auto-trade run, and its direction: a preset stands in for
\* filters a row has not, the adaptive one by the regime of the moment.
FiltersOf(row) ==
    IF row.preset = "none" \/ row.filters # <<>> THEN row.filters
    ELSE IF row.preset = "adaptive"
         THEN ApplyStrictness(AdaptiveFilters(Regime(past.history[mark].nifty)), row.level)
    ELSE ApplyStrictness(Preset[row.preset], row.level)
DirectionOf(row) ==
    IF row.preset = "adaptive" /\ row.filters = <<>>
    THEN IF Regime(past.history[mark].nifty) = "bearish" THEN "SHORT" ELSE "LONG"
    ELSE Direction(FiltersOf(row))

Screen(c) ==
    /\ task[c].stage = "asked"
    /\ LET request == IF task[c].kind = "screen" THEN task[c].request
                      ELSE Plain(FiltersOf(task[c].row), 50, 50, Default)
       IN  /\ request.symbols # <<>>
           /\ task' = [task EXCEPT ![c] =
               [stage |-> "screened", kind |-> task[c].kind, request |-> request,
                run |-> [seen |-> mark, symbols |-> request.symbols, provider |-> request.provider],
                list |-> ListOf(request.filters, request.least, request.most, request.symbols,
                                Market(request.provider)),
                direction |-> IF task[c].kind = "screen" THEN Direction(request.filters)
                              ELSE DirectionOf(task[c].row),
                row |-> IF task[c].kind = "screen" THEN NoScreener ELSE task[c].row]]
    /\ UNCHANGED <<past, mark, cache, given, screener, moves>>

\* The answer is cached before the route commits: a failed commit loses the
\* answer, and leaves it in the cache.
Respond(c) ==
    /\ task[c].stage = "screened" /\ task[c].kind = "screen"
    /\ LET t == task[c]
           entry == [key |-> Key(t.request), list |-> t.list, direction |-> t.direction,
                     run |-> t.run, at |-> Now, until |-> Now + Lifetime]
       IN  /\ cache' \in {cache, {e \in cache : e.key # entry.key} \cup {entry}}
           /\ given' \in {given, [given EXCEPT ![c] =
                 [kind |-> "screen", asked |-> t.request, list |-> t.list, direction |-> t.direction,
                  run |-> t.run, at |-> Now, served |-> Now, cached |-> FALSE]]}
    /\ task' = [task EXCEPT ![c] = Idle]
    /\ UNCHANGED <<past, mark, screener, moves>>

\* The results go to the auto-trade queue with the strategy of the row.
Recommend(c) ==
    /\ task[c].stage = "screened" /\ task[c].kind = "auto"
    /\ given' = [given EXCEPT ![c] =
         [kind |-> "auto", row |-> task[c].row, list |-> task[c].list, direction |-> task[c].direction,
          strategy |-> IF task[c].row.inferred = "none" THEN "momentum" ELSE task[c].row.inferred]]
    /\ task' = [task EXCEPT ![c] = Idle]
    /\ UNCHANGED <<past, mark, cache, screener, moves>>

\* An error on the way leaves nothing behind.
Fail(c) ==
    /\ task[c] # Idle
    /\ task' = [task EXCEPT ![c] = Idle]
    /\ UNCHANGED <<past, mark, cache, given, screener, moves>>

-----------------------------------------------------------------------------
\* The saved screener

CreateScreener ==
    /\ ~screener.saved
    /\ \E row \in Saved :
         screener' = [saved |-> TRUE, filters |-> row.filters, preset |-> row.preset, level |-> row.level,
                      auto |-> row.auto, inferred |-> "none", edited |-> FALSE]
    /\ UNCHANGED <<past, mark, cache, task, given, moves>>

\* The strategy inferred before stays.
UpdateScreener ==
    /\ screener.saved
    /\ \E row \in Saved :
         screener' = [screener EXCEPT !.filters = row.filters, !.auto = row.auto, !.edited = TRUE]
    /\ Move
    /\ UNCHANGED <<past, mark, cache, task, given>>

DeleteScreener ==
    /\ screener.saved
    /\ screener' = NoScreener
    /\ Move
    /\ UNCHANGED <<past, mark, cache, task, given>>

LinkAutoTrade ==
    /\ screener.saved
    /\ screener' = [screener EXCEPT !.auto = TRUE, !.inferred = Inferred(screener.filters), !.edited = FALSE]
    /\ Move
    /\ UNCHANGED <<past, mark, cache, task, given>>

UnlinkAutoTrade ==
    /\ screener.saved
    /\ screener' = [screener EXCEPT !.auto = FALSE]
    /\ Move
    /\ UNCHANGED <<past, mark, cache, task, given>>

Tick ==
    /\ mark < Len(Clock)
    /\ mark' = mark + 1
    /\ UNCHANGED <<past, cache, task, given, screener, moves>>

Next ==
    \/ \E c \in Callers : Run(c) \/ RunSaved(c) \/ RunAutoTrade(c) \/ Screen(c) \/ Respond(c)
                          \/ Recommend(c) \/ Fail(c)
    \/ CreateScreener \/ UpdateScreener \/ DeleteScreener \/ LinkAutoTrade \/ UnlinkAutoTrade \/ Tick

Spec == Init /\ [][Next]_vars

-----------------------------------------------------------------------------
TypeOK ==
    /\ mark \in DOMAIN Clock /\ moves \in 0..MaxMoves
    /\ \A e \in cache : e.until - e.at \in {5, 60} /\ ToSet(e.list) \subseteq ToSet(e.run.symbols)
    /\ \A c \in Callers : /\ task[c].stage \in {"idle", "asked", "screened"}
                          /\ given[c].kind \in {"none", "screen", "auto"}
    /\ screener.saved \in BOOLEAN

\* An answer, cached or not, is what the filters, the least score and the size of
\* its request ask of the symbols and the quotes of one run, and in its direction;
\* it was made within the hour before it was served.  Only a cached one may be of
\* a run for other symbols or of another provider's quotes.
AnswersFit ==
    \A c \in Callers : given[c].kind = "screen" =>
        LET a == given[c] IN
        /\ a.list = ListOf(a.asked.filters, a.asked.least, a.asked.most, a.run.symbols,
                           past.history[a.run.seen].quotes[a.run.provider])
        /\ a.direction = Direction(a.asked.filters)
        /\ a.served - a.at <= 60
        /\ ~a.cached => a.run.symbols = a.asked.symbols /\ a.run.provider = a.asked.provider

\* Not so: an answer is for the symbols and from the provider that run_screener
\* is given.  Another user's quotes, and the symbols from before an edit, are
\* served from the cache, since its key has neither.
OwnAnswers ==
    \A c \in Callers : given[c].kind = "screen" =>
        LET a == given[c] IN a.run.symbols = a.asked.symbols /\ a.run.provider = a.asked.provider

\* A laxer level loses no symbol a stricter one passes, at any preset's filter
\* but the momentum one, of which a single check of those asked for is enough:
\* there a level that switches a check off asks more.  Nothing that is asked
\* changes this, so it is looked at before anything is.
RelaxingKeeps ==
    moves = 0 =>
        \A p \in DOMAIN Preset : \A i \in DOMAIN Preset[p] : \A lax \in 2..4 : \A strict \in 1..(lax - 1) :
            \A s \in ToSet(Symbols) : \A by \in Providers :
                /\ Preset[p][i].type # "momentum"
                /\ Apply(ApplyStrictness(Preset[p], strict)[i], Market(by)[s]).passed
                => Apply(ApplyStrictness(Preset[p], lax)[i], Market(by)[s]).passed

\* What is recommended for trading is to be sold short exactly when the strategy
\* linked to it sells short, for a screener with filters of its own that were not
\* edited since it was linked.
DirectionsAgree ==
    \A c \in Callers :
        given[c].kind = "auto" /\ given[c].row.filters # <<>> /\ ~given[c].row.edited
            /\ given[c].strategy # "momentum"
        => (given[c].direction = "SHORT" <=> given[c].strategy = "momentum_short")

\* Not so: the same for every screener.  One of a preset has no filters of its
\* own to infer from, and one that is edited keeps what was inferred before.
LinkedStrategiesFit ==
    \A c \in Callers :
        given[c].kind = "auto"
        => (given[c].direction = "SHORT" <=> given[c].strategy = "momentum_short")

\* Not so: every preset can be passed.  A short one asks for a price above its
\* average, as every moving average filter does unless it is told not to, and
\* for one below it.
ShortsCanPass ==
    \E s \in ToSet(Symbols) : Fits(Preset["bearish_short"], Market(Default)[s])

=============================================================================
