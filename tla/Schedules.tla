------------------------------ MODULE Schedules ------------------------------
(***************************************************************************)
(* When a strategy runs: the next run its schedule gives it, the poll that  *)
(* runs what is due, the market's hours and the strategy's own trading      *)
(* window.  One strategy, over some days; ScheduledRuns has many of them,   *)
(* and no clock.                                                            *)
(*                                                                         *)
(* Time is counted in minutes of UTC from the midnight that begins a        *)
(* Monday.  The clock moves from mark to mark, and the worker polls between *)
(* two moves unless the engine is down or still at work.                    *)
(***************************************************************************)
EXTENDS Integers, FiniteSets

CONSTANTS
    Marks,       \* bound: minutes of a day the clock stops at; has 0
    FirstDay, LastDay,  \* bound: the days the clock shows
    StrategyTypes,      \* bound: schedule types in use
    MaxTurn,     \* bound: minutes a turn takes
    Windows,     \* [start, end : minute of the local day, offset : minutes from
                 \*  UTC, days : set of weekdays], or NoWindow
    Interval     \* interval_seconds, in minutes

VARIABLES
    now,         \* the clock
    polled,      \* the worker has polled since the clock last moved
    up,          \* the engine answers
    strategy,    \* the row of user_strategies
    turn,        \* the turn at work
    ran,         \* the turn that the schedule last began today
    steady       \* nothing but the schedule has moved the strategy today,
                 \* and nothing has kept it from its turn

vars == <<now, polled, up, strategy, turn, ran, steady>>

Day == 1440
Open == 225        \* MARKET_OPEN_UTC
Close == 600       \* MARKET_CLOSE_UTC
Never == -1        \* no time
NoWindow == [days |-> {}]
Types == {"INTERVAL", "CRON", "MARKET_OPEN", "MARKET_CLOSE", "CONTINUOUS"}

NoTurn == [kind |-> "none", begun |-> Never, trades |-> FALSE]

Minute(t) == t % Day
Midnight(t) == t - Minute(t)
Weekday(t) == (t \div Day) % 7          \* 0 is Monday
Working(t) == Weekday(t) < 5

-----------------------------------------------------------------------------
(* The schedule *)

MarketHours(t) == Working(t) /\ Open <= Minute(t) /\ Minute(t) <= Close

\* The next time the market opens, or closes, after t.  In the variant Friday
\* is a day like the others.
NextAtDaily(minute, t) ==
    IF Minute(t) < minute /\ Working(t) THEN Midnight(t) + minute
    ELSE Midnight(t) + (IF Weekday(t) = 5 THEN 2 ELSE 1) * Day + minute
NextAt(minute, t) ==
    LET ahead == CASE Weekday(t) = 4 -> 3 [] Weekday(t) = 5 -> 2 [] OTHER -> 1
    IN  IF Minute(t) < minute /\ Working(t) THEN Midnight(t) + minute
        ELSE Midnight(t) + ahead * Day + minute

\* The variant takes the opening of the day it is, even when it has passed.
NextRunToday(s, t) ==
    CASE s.type = "MARKET_OPEN" -> IF Working(t) THEN Midnight(t) + Open ELSE NextAt(Open, t)
      [] s.type = "MARKET_CLOSE" -> NextAt(Close, t) - 5
      [] s.type = "INTERVAL" -> IF s.last = Never THEN t ELSE s.last + Interval
      [] s.type = "CONTINUOUS" -> IF MarketHours(t) THEN t ELSE NextAt(Open, t)
      [] s.type = "CRON" -> t + 1
NextRun(s, t) ==
    CASE s.type = "MARKET_OPEN" -> NextAt(Open, t)
      [] s.type = "MARKET_CLOSE" -> NextAt(Close, t) - 5
      [] s.type = "INTERVAL" -> IF s.last = Never THEN t ELSE s.last + Interval
      [] s.type = "CONTINUOUS" -> IF MarketHours(t) THEN t ELSE NextAt(Open, t)
      [] s.type = "CRON" -> t + 1      \* the expression is not looked at

Due(s, t) == s.status = "ACTIVE" /\ s.next # Never /\ s.next <= t

Ran(s, t) ==
    LET at == [s EXCEPT !.last = t]
    IN  [at EXCEPT !.next = NextRun(at, t)]

\* The trading window, in its own time zone: its days are those of the zone.
Within(w, t) ==
    LET local == t + w.offset
    IN  /\ Weekday(local) \in w.days
        /\ w.start <= Minute(local) /\ Minute(local) <= w.end
MayTrade(s, t) == s.window = NoWindow \/ Within(s.window, t)

-----------------------------------------------------------------------------

NewRow(type, window) == [type |-> type, window |-> window, status |-> "DISABLED",
                         next |-> Never, last |-> Never]

Init ==
    /\ now = FirstDay * Day /\ polled = FALSE /\ up = TRUE
    /\ strategy \in {NewRow(type, window) : type \in StrategyTypes, window \in Windows}
    /\ turn = NoTurn /\ ran = NoTurn /\ steady = FALSE

NextMark(t) ==
    LET later == {m \in Marks : m > Minute(t)}
    IN  IF later = {} THEN Midnight(t) + Day
        ELSE Midnight(t) + CHOOSE m \in later : \A n \in later : m <= n

\* A day that begins with the strategy enabled, and nothing overdue, is
\* steady so far.
Tick ==
    LET then == NextMark(now)
    IN  /\ polled \/ ~up
        /\ then < (LastDay + 1) * Day
        /\ turn.kind # "none" => then <= turn.begun + MaxTurn
        /\ now' = then /\ polled' = FALSE
        /\ steady' = IF Minute(then) = 0
                     THEN /\ up /\ strategy.status = "ACTIVE" /\ turn.kind = "none"
                          /\ strategy.next >= then
                     ELSE steady
        /\ ran' = IF Minute(then) = 0 THEN NoTurn ELSE ran
        /\ UNCHANGED <<up, strategy, turn>>

\* Beyond the market's hours only these types run.
Runs(s) == MarketHours(now) \/ s.type \in {"CRON", "MARKET_OPEN", "MARKET_CLOSE"}

\* Nothing is due; or another run holds the lock; or the market is closed.
PollNothing ==
    /\ up /\ ~polled /\ polled' = TRUE
    /\ turn.kind # "none" \/ ~Due(strategy, now) \/ ~Runs(strategy)
    /\ UNCHANGED <<now, up, strategy, turn, ran, steady>>

\* The strategy is due, and a guardrail, its cooldown or its lock forbids it.
PollBlocked ==
    /\ up /\ ~polled /\ polled' = TRUE
    /\ turn.kind = "none" /\ Due(strategy, now)
    /\ steady' = FALSE
    /\ UNCHANGED <<now, up, strategy, turn, ran>>

\* A turn outside the trading window is skipped as soon as it has begun.
Turn(kind) == [kind |-> kind, begun |-> now, trades |-> MayTrade(strategy, now)]

PollRuns ==
    /\ up /\ ~polled /\ polled' = TRUE
    /\ turn.kind = "none" /\ Due(strategy, now) /\ Runs(strategy)
    /\ turn' = Turn(strategy.type) /\ ran' = turn'
    /\ UNCHANGED <<now, up, strategy, steady>>

\* The user asks for a run, due or not.
Manual ==
    /\ up /\ turn.kind = "none"
    /\ turn' = Turn("manual") /\ steady' = FALSE
    /\ UNCHANGED <<now, polled, up, strategy, ran>>

\* A skipped turn, too, gets its next run.
EndTurn ==
    /\ turn.kind # "none"
    /\ strategy' = Ran(strategy, now) /\ turn' = NoTurn
    /\ UNCHANGED <<now, polled, up, ran, steady>>

\* An error rolls back what the turn wrote.
FailTurn ==
    /\ turn.kind # "none"
    /\ turn' = NoTurn /\ steady' = FALSE
    /\ UNCHANGED <<now, polled, up, strategy, ran>>

Enable ==
    /\ strategy' = [strategy EXCEPT !.status = "ACTIVE", !.next = NextRun(strategy, now)]
    /\ steady' = FALSE /\ UNCHANGED <<now, polled, up, turn, ran>>

Disable ==
    /\ strategy' = [strategy EXCEPT !.status = "DISABLED", !.next = Never]
    /\ steady' = FALSE /\ UNCHANGED <<now, polled, up, turn, ran>>

\* The engine goes down, with the turn it is at, and comes back.
Crash ==
    /\ up /\ up' = FALSE /\ turn' = NoTurn /\ steady' = FALSE
    /\ UNCHANGED <<now, polled, strategy, ran>>
Restart ==
    /\ ~up /\ up' = TRUE
    /\ UNCHANGED <<now, polled, strategy, turn, ran, steady>>

Next == \/ Tick \/ PollNothing \/ PollBlocked \/ PollRuns \/ Manual
        \/ EndTurn \/ FailTurn \/ Enable \/ Disable \/ Crash \/ Restart

Spec == Init /\ [][Next]_vars

-----------------------------------------------------------------------------
(* Properties *)

\* Types.
TypeOK ==
    /\ now \in (FirstDay * Day)..((LastDay + 1) * Day - 1) /\ Minute(now) \in Marks
    /\ strategy.status \in {"ACTIVE", "DISABLED"} /\ strategy.type \in Types
    /\ {strategy.next, strategy.last} \subseteq Int
    /\ strategy.last <= now
    /\ {polled, up, steady, turn.trades, ran.trades} \subseteq BOOLEAN
    /\ turn.kind # "none" => up /\ turn.begun <= now

Opened(from, to) == \E d \in FirstDay..LastDay : Working(d * Day) /\ from < d * Day + Open /\ d * Day + Open <= to

\* Whatever is retried, overdue, triggered by hand or lost in a crash, the
\* schedule runs a MARKET_OPEN strategy at most once for an opening of the
\* market, unless the turn failed, or the user enables it again
\* (calculate_next_run, get_due_strategies).
OneRunPerOpening ==
    [][turn.kind = "none" /\ turn'.kind = "MARKET_OPEN" /\ strategy.last # Never =>
          Opened(strategy.last, now)]_vars

\* On a working day on which the engine is up, the strategy enabled and
\* nothing forbids its turn, a strategy of the opening or the closing has its
\* run, and on no other day: not after a weekend either (get_next_market_open,
\* get_next_market_close).
EveryOpeningIsTaken ==
    [][Midnight(now') # Midnight(now) /\ steady /\ strategy.type \in {"MARKET_OPEN", "MARKET_CLOSE"} =>
          (ran.kind # "none") = Working(now)]_vars

\* A strategy that is restricted to some hours runs in these hours, as the
\* README has it ("Restrict execution to specific hours").
WindowedStrategyTrades ==
    [][/\ Midnight(now') # Midnight(now) /\ steady /\ Working(now)
       /\ strategy.type = "MARKET_OPEN" /\ strategy.window # NoWindow
       /\ Weekday(now) \in strategy.window.days
       => ran.trades]_vars

=============================================================================
