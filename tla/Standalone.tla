----------------------------- MODULE Standalone -----------------------------
(***************************************************************************)
(* Components that share no state with the others, each under a name of    *)
(* its own, with what is assumed of their constants.                       *)
(***************************************************************************)
EXTENDS Backtest, FiniteSets

CONSTANTS Marks, FirstDay, LastDay, StrategyTypes, MaxTurn, Windows, Interval,
          Requests, Sums, Opening, Settled, MaxBegun,
          Setups, Prices, Atrs, Levels, Candles, Times, MaxEntries, Sizings, Accounts, Existing,
          Providers, Default, Clock, Histories, Weekdays, Questions, Saved, Callers, MaxMoves,
          NStrategies, NRows, Configured, Stocks, Tape, Lots, MaxHeld, LastDate, Spans,
          Categories, Found, RawScores, Stores, Week, Month, EndDate, MaxLists,
          Predefined, Indices, Tables, Seeders, MaxListed,
          Askers, MaxIssued, MaxFollowers

VARIABLES now, polled, up, strategy, turn, ran, steady,
          cash, ledger, writer, request, clock, silent,
          setup, day, before, bar, entries, answer, last,
          past, mark, cache, task, given, screener, moves,
          held, live, today, reader, report, earned,
          date, board, made, job, store, queued, peak,
          listed, seeding, crowd,
          universes, issued, followers, asking, paired

S == INSTANCE Schedules
L == INSTANCE Ledger
T == INSTANCE Strategies
R == INSTANCE Screening
P == INSTANCE Profits
N == INSTANCE Recommendations
Y == INSTANCE Universes
O == INSTANCE OwnUniverses

\* The schema has amounts positive; a settlement is refused that the cash does
\* not cover; and no request is called like the absence of one.
ASSUME Moneys ==
    /\ Sums \subseteq Nat \ {0} /\ Opening \in Nat /\ Settled \subseteq Nat
    /\ L!Nobody \notin Requests

\* The clock stops on the days it has, at midnight, and when the market has
\* closed.
ASSUME Calendar ==
    /\ FirstDay \in Nat /\ LastDay \in Nat /\ FirstDay <= LastDay
    /\ Marks \subseteq 0..(S!Day - 1) /\ 0 \in Marks /\ \E m \in Marks : m >= S!Close
    /\ Interval \in Nat /\ StrategyTypes \subseteq S!Types

\* The strategies are those of the registry.  Prices are positive, and the
\* multiples of a range or a risk are not negative; nor are a user's risk and
\* what he owns.
ASSUME Trading ==
    /\ \A s \in Setups :
          /\ s.kind \in T!Crossing \cup T!FromOpening \cup
                        {"rsi", "bollinger", "vwap_momentum", "price_action_volume_swing",
                         "momentum_short", "vwap_reversion"}
          /\ s.multiplier \in Nat /\ s.ratio \in Nat
    /\ Prices \subseteq Nat \ {0} /\ Atrs \subseteq Nat /\ Levels \subseteq Int
    /\ \A c \in Candles : c.close \in Nat \ {0}
ASSUME Means ==
    /\ \A z \in Sizings :
          /\ z.method \in {"FIXED_QUANTITY", "FIXED_AMOUNT", "PERCENT_OF_PORTFOLIO", "RISK_BASED"}
          /\ z.risk \in Nat /\ {z.cap, z.quantity, z.amount, z.percent} \subseteq Int
    /\ \A a \in Accounts : a = T!Unread \/ (a.total \in Nat /\ a.available \in Int)
    /\ Existing \subseteq Int

\* What the screener reads of a symbol at each time, from each provider, is a
\* number for each indicator.
ASSUME Quotes ==
    /\ Clock \in Seq(Nat) /\ Clock # <<>>
    /\ \A history \in Histories : \A i \in DOMAIN Clock : \A p \in Providers :
       \A s \in R!ToSet(history[i].symbols) :
          LET r == history[i].quotes[p][s]
          IN  {r.bars, r.volume, r.ratio, r.roc, r.over, r.range} \subseteq Int

\* Prices and quantities are positive, and there is no list without days.
ASSUME Reports ==
    /\ NStrategies \in Nat /\ NRows \in Nat /\ MaxHeld \in Nat
    /\ Tape \subseteq Nat \ {0} /\ Lots \subseteq Nat \ {0}
    /\ LastDate \in Nat \ {0} /\ Spans \subseteq Nat \ {0}
    /\ Configured \in [1..NStrategies -> [direction : P!Directions]]

\* A category has one preset, and every list has a day to be measured on.
ASSUME Lists ==
    /\ Categories \in Seq(STRING) /\ Categories # <<>>
    /\ \A n, m \in DOMAIN Categories : Categories[n] = Categories[m] => n = m
    /\ Week \in Nat \ {0} /\ Month \in Nat \ {0} /\ EndDate \in Nat \ {0} /\ MaxLists \in Nat
    /\ IsFiniteSet(Stores)
    /\ \A x \in RawScores : /\ x.technical \in 0..100 /\ x.fundamental \in 0..100
                           /\ x.sentiment \in -100..100

\* No category is called like the strategies for selling short.
ASSUME Presets == \A n \in DOMAIN Categories : Categories[n] # "bearish_momentum"

\* No two of the system's universes have one name.
ASSUME Catalogue ==
    LET names == Predefined \o Indices \o Tables
    IN  /\ Predefined \in Seq(STRING) /\ Indices \in Seq(STRING) /\ Tables \in Seq(STRING)
        /\ \A n, m \in DOMAIN names : names[n] = names[m] => n = m
        /\ IsFiniteSet(Seeders)

\* Positions of a backtest follow one another, and its capital is what they made
\* of it (run_backtest).
BacktestHolds == TradesInOrder /\ CapitalExplained

\* However requests overlap, an account statement closes with the cash there is
\* (record_transaction, get_statement).
StatementsClose == L!StatementsClose

\* A strategy has one scheduled run for an opening (calculate_next_run).
OneRunPerOpening == S!OneRunPerOpening

\* And has it, on every working day (get_next_market_open).
EveryOpeningIsTaken == S!EveryOpeningIsTaken

\* A stop is behind the price and a target ahead (generate_signals).
SignalsProtect == T!SignalsProtect

\* The size of an order respects the cap and the risk (_calculate_position_size).
SizesWithinLimits == T!SizesWithinLimits

\* An answer fits what its request filters, and one run of the last hour (run_screener).
AnswersFit == R!AnswersFit

\* Screener and strategy agree on selling short (link_auto_trade).
DirectionsAgree == R!DirectionsAgree

\* A laxer level passes what a stricter one does (apply_strictness).
RelaxingKeeps == R!RelaxingKeeps

\* Every report accounts for all gains (get_pnl_summary, get_pnl_history).
ReportsAccount == P!ReportsAccount

\* A day shows one list a category, which its auto-trades find (store_recommendations).
ListsKept == N!ListsKept

\* A return is measured once and kept (update_recommendation_returns).
MeasurementsStay == N!MeasurementsStay

\* Direction, confidence, size and strategy of a score agree (score_symbol).
ScoresAgree == N!ScoresAgree

\* A name of the system's has one row, an index is not emptied, and a
\* strategy's universe comes with it (UniverseService, create_smart_strategy).
UniversesKept == Y!OneRowEach /\ Y!IndicesKeepSymbols /\ O!ComeWithStrategies

=============================================================================
