--------------------------- MODULE Recommendations ---------------------------
(***************************************************************************)
(* The daily recommendations: the worker's task that screens the market    *)
(* with each preset and has the backend score and store what was found     *)
(* (worker/tasks/screener.py, screener/router.py), the scores themselves   *)
(* (algo/multi_factor_scorer.py), the returns that are measured later, and *)
(* the auto-trades that are queued for each category.                      *)
(*                                                                         *)
(* The task may be begun again on its day, after it was killed or by hand, *)
(* and what it asked the backend to store goes on without it.  A request   *)
(* to store deletes the lists that it sees and adds its own in one         *)
(* transaction, so requests that overlap do not see each other's; that one *)
(* may wait for another's deletions is left out, as is a new list's effect *)
(* on the ranks within it.                                                 *)
(***************************************************************************)
EXTENDS Integers, Sequences, FiniteSets

CONSTANTS
    Categories,          \* the presets' categories, in the order of the task
    Found, RawScores,    \* symbols that a preset may find, and what is read of them
    Stores,              \* requests to store that may be under way together
    Week, Month,         \* after how many days returns are measured: 7 and 30
    EndDate, MaxLists    \* bounds: days, and lists stored

VARIABLES
    date,
    board,      \* daily_recommendations: a function from the ids of lists
    made,       \* lists stored so far
    job,        \* generate_daily_recommendations
    store,      \* the requests to store
    queued,     \* tasks process_auto_trades
    peak        \* history: how many requests for a list were ever under way together

vars == <<date, board, made, job, store, queued, peak>>

Resting == [pc |-> "resting"]
Idle == [pc |-> "idle"]
At(pc) == job.pc = pc
Lists == DOMAIN board

Init ==
    /\ date = 1 /\ board = [i \in {} |-> Idle] /\ made = 0 /\ job = Resting
    /\ store = [r \in Stores |-> Idle] /\ queued = {} /\ peak = 0

-----------------------------------------------------------------------------
(* Scores.  A reading has a technical and a fundamental score of 0 to 100  *)
(* and a sentiment of -100 to 100, each a neutral one where it cannot be   *)
(* had.  Combined scores are in tenths, biases in thousandths, and sizes   *)
(* in hundred-thousandths of the whole.                                    *)

Neutral == [technical |-> 50, fundamental |-> 50, sentiment |-> 0]
Read(x, had) == [score \in DOMAIN Neutral |-> IF score \in had THEN x[score] ELSE Neutral[score]]

Combined(x) == 4 * x.technical + 4 * x.fundamental + x.sentiment + 100

Bias(category, x) ==
    LET t == x.technical - 50  f == x.fundamental - 50
        weights == CASE category \in {"momentum", "breakout"} -> [t |-> 10, f |-> 6]
                     [] category = "value" -> [t |-> 5, f |-> 11]
                     [] OTHER -> [t |-> 8, f |-> 8]
    IN  weights.t * t + weights.f * f + 2 * x.sentiment

\* A screener of falling stocks decides; no other does.
Direction(category, x, screened) ==
    IF screened = "short" \/ Bias(category, x) < -200 THEN "short"
    ELSE IF Bias(category, x) > 200 THEN "long" ELSE "neutral"

Signals(above, low, mood) == (IF above THEN 1 ELSE 0) + (IF low THEN 1 ELSE 0) + (IF mood THEN 1 ELSE 0)
Bullish(x) == Signals(x.technical > 55, x.fundamental > 55, x.sentiment > 10)
Bearish(x) == Signals(x.technical < 45, x.fundamental < 45, x.sentiment < -10)

\* Variant, for seeing that the scores notice it: conflicts are not looked for.
Aligned(direction, x) == FALSE

Conflicting(direction, x) ==
    \/ direction = "long" /\ Bearish(x) >= 2
    \/ direction = "short" /\ Bullish(x) >= 2
    \/ direction = "neutral" /\ Combined(x) < 500

Confidence(direction, x) ==
    IF Conflicting(direction, x) \/ Combined(x) < 400 THEN "skip"
    ELSE IF Combined(x) >= 800 THEN "high"
    ELSE IF Combined(x) >= 600 THEN "medium" ELSE "low"

AtMost(a, b) == IF a <= b THEN a ELSE b
AtLeast(a, b) == IF a >= b THEN a ELSE b

SizeOf(confidence, x) ==
    CASE confidence = "high" -> AtMost(100000, 100000 + 50 * (Combined(x) - 800))
      [] confidence = "medium" -> AtLeast(60000, AtMost(75000, 60000 + 75 * (Combined(x) - 600)))
      [] confidence = "low" -> AtLeast(25000, AtMost(50000, 25000 + 125 * (Combined(x) - 400)))
      [] confidence = "skip" -> 0

\* Not all of these are strategies that the registry has.
Tiers(high, medium, low) == [high |-> high, medium |-> medium, low |-> low]
StrategyMap ==
    [momentum |-> Tiers("vwap_momentum", "ma_crossover", "rsi"),
     breakout |-> Tiers("breakout_swing", "bollinger", "range_breakout"),
     value |-> Tiers("value_momentum", "rsi", "bollinger"),
     sector |-> Tiers("sector_rotation", "ma_crossover", "trend_following"),
     bearish_momentum |-> Tiers("momentum_short", "momentum_short", "momentum_short")]
StrategyOf(category, direction, confidence) ==
    LET key == IF direction = "short" THEN "bearish_momentum"
               ELSE IF category \in DOMAIN StrategyMap THEN category ELSE "momentum"
    IN  IF confidence = "skip" THEN "none" ELSE StrategyMap[key][confidence]

Scored(category, x, screened) ==
    LET direction == Direction(category, x, screened)
        confidence == Confidence(direction, x)
    IN  [direction |-> direction, confidence |-> confidence, size |-> SizeOf(confidence, x),
         strategy |-> StrategyOf(category, direction, confidence)]

-----------------------------------------------------------------------------
(* generate_daily_recommendations *)

Goto(state) == job' = state

StartJob ==
    /\ At("resting")
    /\ Goto([pc |-> "screening", next |-> 1, stored |-> {}])
    /\ UNCHANGED <<date, board, made, store, queued, peak>>

\* On to the next category, or to the queue after the last.
Onwards(stored) ==
    Goto([pc |-> IF job.next = Len(Categories) THEN "queueing" ELSE "screening",
          next |-> job.next + 1, stored |-> stored])

\* The screener answers nothing, or not in time.
FindNothing ==
    /\ At("screening")
    /\ Onwards(job.stored)
    /\ UNCHANGED <<date, board, made, store, queued, peak>>

OfDay(day, category) == {i \in Lists : board[i].date = day /\ board[i].category = category}
Asking(day, category) ==
    {r \in Stores : store[r] # Idle /\ store[r].date = day /\ store[r].category = category}

\* Variants, for seeing that the lists notice it: nothing is replaced; the day
\* is not looked at.
Nothing(day, category) == {}
OfAnyDay(day, category) == {i \in Lists : board[i].category = category}

Replaced(day, category) == OfDay(day, category)

\* What was found is sent to be stored; the request deletes what it sees.
Store(r) ==
    LET category == Categories[job.next]
    IN  /\ At("screening") /\ store[r] = Idle
        /\ \E symbols \in (SUBSET Found) \ {{}} :
              /\ Goto([pc |-> "storing", next |-> job.next, stored |-> job.stored,
                       request |-> r, symbols |-> symbols])
              /\ store' = [store EXCEPT ![r] = [pc |-> "storing", date |-> date, category |-> category,
                                               symbols |-> symbols, seen |-> Replaced(date, category)]]
        /\ peak' = AtLeast(peak, Cardinality(Asking(date, category)) + 1)
        /\ UNCHANGED <<date, board, made, queued>>

\* The task waits for this request.
Awaits(r) == At("storing") /\ job.request = r
\* A row without a price at first has no returns ever.
Pick(priced) == [priced |-> priced, day |-> 0, week |-> 0, month |-> 0]

CommitStore(r) ==
    LET q == store[r]
    IN  /\ q # Idle /\ made < MaxLists
        /\ \E priced \in [q.symbols -> BOOLEAN] :
              board' = [i \in (Lists \ q.seen) \cup {made + 1} |->
                  IF i \in Lists THEN board[i]
                  ELSE [date |-> q.date, category |-> q.category,
                        picks |-> [s \in q.symbols |-> Pick(priced[s])]]]
        /\ made' = made + 1 /\ store' = [store EXCEPT ![r] = Idle]
        /\ IF Awaits(r) THEN Onwards(job.stored \cup {[category |-> q.category, symbols |-> q.symbols]})
           ELSE job' = job
        /\ UNCHANGED <<date, queued, peak>>

\* Its transaction is rolled back.
FailStore(r) ==
    /\ store[r] # Idle
    /\ store' = [store EXCEPT ![r] = Idle]
    /\ IF Awaits(r) THEN Onwards(job.stored) ELSE job' = job
    /\ UNCHANGED <<date, board, made, queued, peak>>

\* The task waits a minute for the answer; the request goes on.
TimeOut ==
    /\ At("storing")
    /\ Onwards(job.stored)
    /\ UNCHANGED <<date, board, made, store, queued, peak>>

Queue ==
    /\ At("queueing")
    /\ IF job.stored = {} THEN job' = Resting /\ queued' = queued
       ELSE \E s \in job.stored :
               /\ Goto([job EXCEPT !.stored = @ \ {s}])
               /\ queued' = queued \cup {[date |-> date, category |-> s.category, symbols |-> s.symbols]}
    /\ UNCHANGED <<date, board, made, store, peak>>

\* The worker kills a task after five minutes, and may die itself.
Kill ==
    /\ ~At("resting")
    /\ job' = Resting
    /\ UNCHANGED <<date, board, made, store, queued, peak>>

\* process_recommendations makes nothing of them: it compares the confidence,
\* a number, with that of the configuration, a word, which raises.
Process ==
    /\ \E q \in queued : queued' = queued \ {q}
    /\ UNCHANGED <<date, board, made, job, store, peak>>

-----------------------------------------------------------------------------
(* update_recommendation_returns, which only changes lists of earlier days *)

\* The day's return is measured on the next day alone, the others until they
\* are.
DueForDay(list, pick) == list.date = date - 1 /\ pick.day = 0
DueForWeek(list, pick) == list.date <= date - Week /\ pick.week = 0
DueForMonth(list, pick) == list.date <= date - Month /\ pick.month = 0

\* Prices that cannot be had now are asked for again the next time.
Measured(list, s, had) ==
    LET pick == list.picks[s]
        now(due, was) == IF s \in had /\ pick.priced /\ due THEN date ELSE was
    IN  [pick EXCEPT !.day = now(DueForDay(list, pick), @),
                     !.week = now(DueForWeek(list, pick), @),
                     !.month = now(DueForMonth(list, pick), @)]

\* Read and written at one time: updates that overlap measure on the same day, and
\* one whose list is deleted before it is written fails and leaves nothing.
UpdateReturns ==
    /\ \E had \in SUBSET Found :
          board' = [i \in Lists |->
              [board[i] EXCEPT !.picks = [s \in DOMAIN @ |-> Measured(board[i], s, had)]]]
    /\ UNCHANGED <<date, made, job, store, queued, peak>>

\* Tasks and requests of a day are over long before midnight.
NextDay ==
    /\ date < EndDate /\ At("resting") /\ \A r \in Stores : store[r] = Idle
    /\ date' = date + 1
    /\ UNCHANGED <<board, made, job, store, queued, peak>>

Next ==
    \/ StartJob \/ FindNothing \/ TimeOut \/ Queue \/ Kill \/ Process \/ UpdateReturns \/ NextDay
    \/ \E r \in Stores : Store(r) \/ CommitStore(r) \/ FailStore(r)

Spec == Init /\ [][Next]_vars

-----------------------------------------------------------------------------
(* Properties *)

TypeOK ==
    /\ date \in 1..EndDate /\ made \in 0..MaxLists /\ Lists \subseteq 1..made /\ peak \in Nat
    /\ \A i \in Lists :
          /\ board[i].date \in 1..date /\ DOMAIN board[i].picks \subseteq Found
          /\ \A s \in DOMAIN board[i].picks :
                board[i].picks[s] \in [priced : BOOLEAN, day : 0..EndDate, week : 0..EndDate,
                                       month : 0..EndDate]
    /\ job.pc \in {"resting", "screening", "storing", "queueing"}
    /\ At("screening") => job.next \in 1..Len(Categories)
    /\ \A r \in Stores : store[r] # Idle => store[r].seen \subseteq 1..made

\* What is shown for a day: the lists of the newest day up to it that has any
\* (get_recommendations).
Shown(day) ==
    {i \in Lists : /\ board[i].date <= day
                   /\ \A j \in Lists : board[j].date <= day => board[j].date <= board[i].date}

\* However often the task is begun, killed and left by its requests, a category
\* is shown with one list for a day; where requests to store it overlapped, with
\* no more than were ever under way together (store_recommendations replaces on
\* a re-run).
OneListShown ==
    \A day \in 1..EndDate, n \in 1..Len(Categories) :
        Cardinality({i \in Shown(day) : board[i].category = Categories[n]}) <= peak

\* An auto-trade that is queued finds recommendations of its day and category:
\* a list is replaced but never lost, whatever fails or is killed between
\* storing and queueing (generate_daily_recommendations).
QueuedFinds == \A q \in queued : OfDay(q.date, q.category) # {}

ListsKept == OneListShown /\ QueuedFinds

\* A return is measured once, on a later day, and neither measured anew nor
\* lost with its list (update_recommendation_returns, store_recommendations).
MeasuredOnce(list, now, s) ==
    \A span \in {"day", "week", "month"} :
        LET was == list.picks[s][span]  is == now.picks[s][span]
        IN  IF was # 0 THEN is = was ELSE is # 0 => is = date /\ list.date < date
MeasurementsStay ==
    [][\A i \in Lists : \A s \in DOMAIN board[i].picks :
          IF i \in DOMAIN board' THEN MeasuredOnce(board[i], board'[i], s)
          ELSE \A span \in {"day", "week", "month"} : board[i].picks[s][span] = 0]_vars

\* Whatever is read of the symbols of a list that is stored, in its category and
\* with any direction of a screener: a recommendation of high confidence is to
\* buy and has two of the three scores behind it; one that is not skipped has a
\* size; its strategy sells short exactly if it is to; and only the screener, or a
\* category led by one kind of score, has it do so (score_symbol).
ScoreHolds(category, x, screened) ==
    LET s == Scored(category, x, screened)
        sells == s.direction = "short" /\ s.confidence # "skip"
    IN  /\ s.confidence = "high" => s.direction = "long" /\ Bullish(x) >= 2
        /\ IF s.confidence = "skip" THEN s.size = 0 ELSE 25000 <= s.size /\ s.size <= 100000
        /\ s.strategy = "momentum_short" <=> sells
        /\ sells => screened = "short" \/ category \in {"momentum", "breakout", "value"}
ScoresAgree ==
    At("storing") =>
        \A screened \in {"long", "short"}, x \in RawScores, had \in SUBSET DOMAIN Neutral :
            ScoreHolds(Categories[job.next], Read(x, had), screened)

=============================================================================
