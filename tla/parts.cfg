SPECIFICATION PartsSpec
CONSTANTS
  Initial = 10000
  Size = 10
  Fee = 1
  Slip = 1
  StopLoss = 10
  TakeProfit = 20
  Bars <- SomeBars
  WarmUp = 1
  MaxBars = 5
  Alphabets <- SomeAlphabets
  MaxTokens = 5
  Conditions <- SomeConditions
  MaxRules = 2
  Functions <- SomeFunctions
  Required <- SomeRequired
  Variables <- SomeVariables
  Markets <- SomeMarkets
  Marks <- SomeMarks
  FirstDay = 4
  LastDay = 8
  StrategyTypes <- SomeTypes
  MaxTurn = 5
  Windows <- SomeWindows
  Interval = 60
  Requests = {"r1", "r2"}
  Sums = {1, 2}
  Opening = 3
  Settled = {1, 4}
  MaxBegun = 5
  Base = {"rsi", "macd"}
  Custom = {"dsl"}
  Names = {"a", "b"}
  Rows = {"r1", "r2"}
  Definitions <- SomeDefinitions
  Ballots <- SomeBallots
  Setups <- SomeSetups
  Prices <- SomePrices
  Atrs = {0, 100}
  Levels = {1, 2, 3, 4}
  Candles <- SomeCandles
  Times = {560, 665, 880}
  MaxEntries = 2
  Sizings <- SomeSizings
  Accounts <- SomeAccounts
  Existing = {50000, 100000}
  Providers = {"yahoo", "fyers"}
  Default = "yahoo"
  Clock <- SomeClock
  Histories <- SomeHistories
  Weekdays = {TRUE}
  Questions <- SomeQuestions
  Saved <- SomeSaved
  Callers = {"c1", "c2"}
  MaxMoves = 2
  NStrategies = 2
  NRows = 2
  Configured <- SomeConfigured
  Stocks = {"x"}
  Tape = {1, 2}
  Lots = {1}
  MaxHeld = 2
  LastDate = 2
  Spans = {1, 2}
  Categories <- SomeCategories
  Found = {"x"}
  RawScores <- SomeReadings
  Stores = {"s1", "s2"}
  Week = 1
  Month = 2
  EndDate = 3
  MaxLists = 2
  Predefined <- BankNifty
  Indices <- Nifty500
  Tables <- AllStocks
  Seeders = {"q1", "q2"}
  MaxListed = 4
  Askers = {"u1", "u2"}
  MaxIssued = 2
  MaxFollowers = 2
INVARIANTS EveryTypeOK BacktestHolds ConditionsMean StatementsClose VotesCarry SignalsProtect SizesWithinLimits AnswersFit RelaxingKeeps DirectionsAgree ReportsAccount ListsKept ScoresAgree UniversesKept
PROPERTIES MeasurementsStay OneRunPerOpening EveryOpeningIsTaken
CHECK_DEADLOCK FALSE
