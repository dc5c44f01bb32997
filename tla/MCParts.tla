------------------------------- MODULE MCParts -------------------------------
\* Components that run alone, one in each behaviour, checked in one run: the
\* others stay as they began.
EXTENDS Standalone

CONSTANTS Alphabets, MaxTokens, Conditions, MaxRules, Functions, Required, Variables, Markets,
          Base, Custom, Names, Rows, Definitions, Ballots

VARIABLES part,
          alphabet, text, definition, created, outcome,
          rows, backend, engine, signal

D == INSTANCE Dsl
C == INSTANCE Composites

Parts == {"backtest", "dsl", "schedules", "ledger", "composites", "strategies",
          "screening", "profits", "recommendations", "universes", "own universes"}

SomeBars == {[low |-> 95, close |-> 100, high |-> 105], [low |-> 80, close |-> 95, high |-> 100],
             [low |-> 100, close |-> 120, high |-> 130]}

SomeFunctions == [rsi |-> <<"NUMBER">>, sma |-> <<"IDENTIFIER", "NUMBER">>]
SomeRequired == [rsi |-> 0, sma |-> 1]
\* Tokens, as Dsl writes them.
Digit(n) == [type |-> "NUMBER", number |-> n]
Word(s) == [type |-> "IDENTIFIER", name |-> s]
Token(s) == [type |-> s]
Price == Word("close")
SomeAlphabets ==
    {{}, {Price, Digit(0), Token("GT"), Token("AND"), Token("OR"), Token("NOT")},
     {Price, Token("MINUS"), Token("DIV"), Token("LTE"), Token("LPAREN"), Token("RPAREN")},
     {Price, Word("sma"), Word("rsi"), Digit(0), Token("DIV"), Token("COMMA"),
      Token("LPAREN"), Token("RPAREN")}}
SomeConditions ==
    {<<Price>>, <<Digit(0)>>, <<Price, Token("DIV"), Digit(0)>>, <<Word("nosuch")>>,
     <<Word("sma"), Token("LPAREN"), Price, Token("RPAREN")>>}
SomeVariables == {"close"}
SomeMarkets == {[variable |-> [close |-> c], function |-> [rsi |-> 1, sma |-> 1], bars |-> b] :
                   c \in {0, 2}, b \in {1, 2}}

\* Friday to Tuesday; around the opening and the close.
SomeMarks == {0, 225, 595, 600}
Late == [start |-> 585, end |-> 915, offset |-> 330, days |-> 0..4]
SomeWindows == {[days |-> {}], Late}
SomeTypes == {"MARKET_OPEN", "MARKET_CLOSE", "INTERVAL"}

\* Composites that know each other, that need what the engine lacks, and at
\* the bounds of what is enough.
With(s, weight) == [strategy |-> s, weight |-> weight]
Made(logic, pct, components) == [logic |-> logic, pct |-> pct, components |-> components]
SomeDefinitions ==
    [a |-> {Made("AND", 50, <<With("dsl", 100), With("rsi", 100)>>),
            Made("MAJORITY", 0, <<With("rsi", 100), With("b", 100), With("macd", 100)>>)},
     b |-> {Made("WEIGHTED", 50, <<With("rsi", 200), With("macd", 100)>>),
            Made("MAJORITY", 100, <<With("rsi", 100), With("macd", 100)>>),
            Made("OR", 50, <<With("a", 100), With("macd", 100)>>)}]
Votes(rsi, macd) == [rsi |-> rsi, macd |-> macd]
Buys == [side |-> "BUY", strength |-> 60]
Sells == [side |-> "SELL", strength |-> 60]
Silent == [side |-> "NONE", strength |-> 0]
SomeBallots ==
    {Votes(Buys, m) : m \in {Buys, Sells, Silent}} \cup {Votes(Sells, m) : m \in {Sells, Silent}}
    \cup {Votes([Buys EXCEPT !.strength = 30], m) : m \in {Buys, Sells}}

\* A gap of 2% and an opening too far away; bars that engulf, pins, flat ones.
SomePrices == {20000, 20400, 24000}
Candle(o, h, l, c) == [open |-> o, high |-> h, low |-> l, close |-> c]
SomeCandles ==
    {Candle(20200, 20200, 20000, 20000), Candle(20000, 20400, 20000, 20200),
     Candle(20000, 24000, 19000, 24000), Candle(24000, 24000, 18000, 19000),
     Candle(20200, 20200, 19000, 20100), Candle(20000, 24000, 20000, 20200),
     Candle(20000, 20000, 20000, 20000)}
Asked(kind, host) ==
    [kind |-> kind, host |-> host, multiplier |-> 20, ratio |-> 20, low |-> 2, high |-> 3,
     stop |-> "range", closes |-> TRUE, fills |-> TRUE]
SomeSetups ==
    {Asked(k, "engine") : k \in {"rsi", "bollinger", "vwap_momentum", "price_action_volume_swing",
                                "vwap_reversion", "gap_go", "ma_crossover"}}
    \cup {Asked(k, h) : k \in {"macd", "momentum_short", "orb"}, h \in {"engine", "backtest"}}
    \cup {[Asked("orb", "engine") EXCEPT !.stop = "pct", !.closes = FALSE],
          [Asked("gap_go", "engine") EXCEPT !.stop = "atr", !.fills = FALSE],
          [Asked("rsi", "engine") EXCEPT !.high = 2]}
SomeSizings ==
    [method : {"FIXED_QUANTITY", "FIXED_AMOUNT", "PERCENT_OF_PORTFOLIO", "RISK_BASED"},
     cap : {90000}, intraday : BOOLEAN, quantity : {3}, amount : {50000}, percent : {30}, risk : {2}]
SomeAccounts == {[total |-> -1], [total |-> 300000, available |-> 10000],
                 [total |-> 300000, available |-> -500]}

\* Symbols that rise, surge, rest, fall, fade and are new; an index that falls,
\* turns and rises; one provider without bars of the second; a universe whose order
\* is changed, then one symbol taken out; before the opening, after it, and an hour after the first.
Reading(bars, volume, ratio, rsi, roc, fromHigh, aboveLow, above) ==
    [bars |-> bars, volume |-> volume, ratio |-> ratio, rsi |-> rsi, roc |-> roc, fromHigh |-> fromHigh,
     aboveLow |-> aboveLow, above |-> above, stacked |-> above = {20, 50, 150, 200}, up |-> roc > 0,
     crossed |-> roc > 8, over |-> 4 * roc, range |-> IF roc > 5 THEN 20 ELSE 12, declining |-> roc <= 1,
     nearTop |-> fromHigh < 10]
Strong == Reading(260, 60000, 160, 60, 6, 5, 80, {20, 50, 150, 200})
Surging == Reading(260, 200000, 210, 75, 9, 1, 80, {20, 50, 150, 200})
Quiet == Reading(260, 30000, 90, 52, 1, 20, 40, {50, 150, 200})
Falling == Reading(260, 60000, 160, 25, -6, 40, 10, {})
Faded == Reading(260, 60000, 90, 65, -1, 24, 25, {150, 200})
Young == Reading(60, 3000, 160, 60, 6, 30, 80, {20, 50})
Nifty(over, aligned, rsi, roc, vix) ==
    [bars |-> 260, over50 |-> over, over200 |-> over, aligned |-> aligned, placed |-> over, rsi |-> rsi,
     roc |-> roc, vix |-> vix]
SomeClock == <<170, 226, 240>>
Shown(s, t) == [yahoo |-> [s |-> s, t |-> t], fyers |-> [s |-> s, t |-> [t EXCEPT !.bars = 0]]]
SomeHistories ==
    {<<[symbols |-> <<"s", "t">>, quotes |-> Shown(Faded, Strong), nifty |-> Nifty(-1, -1, 40, -6, 30)],
       [symbols |-> <<"t", "s">>, quotes |-> Shown(Falling, Quiet), nifty |-> Nifty(0, 0, 50, 1, 0)],
       [symbols |-> <<"t">>, quotes |-> Shown(Surging, Young), nifty |-> Nifty(1, 1, 60, 4, 11)]>>}
Asks(type, params) == [type |-> type, params |-> params]
SomeLiquid == Asks("volume", [min_avg_volume |-> 50000])
OnAverage(asks) == Asks("moving_average", [p \in {asks, "trend_ma"} |-> IF p = asks THEN TRUE ELSE 50])
OfPreset(most, from) ==
    [preset |-> "momentum", level |-> 3, filters |-> <<>>, least |-> 0, most |-> most, provider |-> from]
SomeQuestions == {OfPreset(50, "yahoo"), OfPreset(1, "fyers")}
Kept(filters, preset, level, auto) == [filters |-> filters, preset |-> preset, level |-> level, auto |-> auto]
SomeSaved == {Kept(<<SomeLiquid, OnAverage("require_below_trend")>>, "none", 2, FALSE),
              Kept(<<Asks("momentum", [momentum_mode |-> "bearish_short"]), Asks("momentum", [min_roc |-> 1])>>, "none", 2, FALSE),
              Kept(<<>>, "adaptive", 2, TRUE),
              Kept(<<OnAverage("require_above_trend")>>, "none", 1, TRUE)}

\* One strategy that buys and one that sells short.
SomeConfigured == <<[direction |-> "LONG"], [direction |-> "SHORT"]>>

\* A clear case, and one led by a single score; neutral is what cannot be had.
Scores(t, f, s) == [technical |-> t, fundamental |-> f, sentiment |-> s]
SomeReadings == {Scores(95, 90, 40), Scores(0, 100, 0)}
SomeCategories == <<"momentum", "pullback">>
BankNifty == <<"bank">>
Nifty500 == <<"nifty500">>
AllStocks == <<"all">>

dsl == <<alphabet, text, definition, created, outcome>>
schedules == <<now, polled, up, strategy, turn, ran, steady>>
funds == <<cash, ledger, writer, request, clock, silent>>
composites == <<rows, backend, engine, signal>>
strategies == <<setup, day, before, bar, entries, answer, last>>
screening == <<past, mark, cache, task, given, screener, moves>>
profits == <<held, live, today, reader, report, earned>>
recommendations == <<date, board, made, job, store, queued, peak>>
catalogue == <<listed, seeding, crowd>>
owned == <<universes, issued, followers, asking, paired>>
first == <<vars, dsl, schedules, funds, composites, strategies, screening>>
added == <<profits, recommendations, catalogue, owned>>

PartsInit ==
    /\ part \in Parts
    /\ Init /\ D!Init /\ S!Init /\ L!Init /\ C!Init
    /\ P!Init /\ N!Init /\ Y!Init /\ O!Init
    /\ IF part = "strategies" THEN T!Init
       ELSE setup = Asked("rsi", "engine") /\ day = 0 /\ before = 0 /\ bar = 0 /\ entries = 0
            /\ answer = [type |-> "UNASKED"] /\ last = "NONE"
    /\ part # "dsl" => alphabet = {}
    \* One that has moved as often as it may is not asked for what holds of moves.
    /\ IF part = "screening" THEN R!Init
       ELSE /\ past = CHOOSE p \in [history : Histories, weekday : {TRUE}] : TRUE
            /\ mark = 1 /\ cache = {} /\ task = [c \in Callers |-> R!Idle]
            /\ given = [c \in Callers |-> R!NoAnswer] /\ screener = R!NoScreener /\ moves = MaxMoves
    /\ part # "schedules" => strategy = S!NewRow("INTERVAL", S!NoWindow)

PartsNext ==
    \/ part = "backtest" /\ Next
       /\ UNCHANGED <<part, dsl, schedules, funds, composites, strategies, screening, added>>
    \/ part = "dsl" /\ D!Next
       /\ UNCHANGED <<part, vars, schedules, funds, composites, strategies, screening, added>>
    \/ part = "schedules" /\ S!Next
       /\ UNCHANGED <<part, vars, dsl, funds, composites, strategies, screening, added>>
    \/ part = "ledger" /\ L!Next
       /\ UNCHANGED <<part, vars, dsl, schedules, composites, strategies, screening, added>>
    \/ part = "composites" /\ C!Next
       /\ UNCHANGED <<part, vars, dsl, schedules, funds, strategies, screening, added>>
    \/ part = "strategies" /\ T!Next
       /\ UNCHANGED <<part, vars, dsl, schedules, funds, composites, screening, added>>
    \/ part = "screening" /\ R!Next
       /\ UNCHANGED <<part, vars, dsl, schedules, funds, composites, strategies, added>>
    \/ part = "profits" /\ P!Next
       /\ UNCHANGED <<part, first, recommendations, catalogue, owned>>
    \/ part = "recommendations" /\ N!Next
       /\ UNCHANGED <<part, first, profits, catalogue, owned>>
    \/ part = "universes" /\ Y!Next
       /\ UNCHANGED <<part, first, profits, recommendations, owned>>
    \/ part = "own universes" /\ O!Next
       /\ UNCHANGED <<part, first, profits, recommendations, catalogue>>

PartsSpec == PartsInit /\ [][PartsNext]_<<part, first, added>>

\* Each component has the types of its module.
EveryTypeOK ==
    CASE part = "backtest" -> TypeOK
      [] part = "dsl" -> D!TypeOK
      [] part = "schedules" -> S!TypeOK
      [] part = "ledger" -> L!TypeOK
      [] part = "composites" -> C!TypeOK
      [] part = "strategies" -> T!TypeOK
      [] part = "screening" -> R!TypeOK
      [] part = "profits" -> P!TypeOK
      [] part = "recommendations" -> N!TypeOK
      [] part = "universes" -> Y!TypeOK
      [] part = "own universes" -> O!TypeOK

\* A condition means what the grammar says, and one that is accepted can be
\* evaluated (DSLParser, DSLValidator, DSLExecutor).
ConditionsMean == part = "dsl" => D!ParsesTheGrammar /\ D!AcceptedEvaluates

\* The composite's signal is what enough of its components say (CompositeStrategy).
VotesCarry == part = "composites" => C!VotesCarry

=============================================================================
