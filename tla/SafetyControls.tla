--------------------------- MODULE SafetyControls ---------------------------
(***************************************************************************)
(* The controls of trading-engine/engine/algo/safety.py around one         *)
(* strategy: its circuit breaker, its cooldown and its count of the day's  *)
(* trades, all kept in Redis, and the row that persists the breaker.  The  *)
(* user's kill switch is in ScheduledRuns; here a turn passed it.          *)
(*                                                                         *)
(* Four requests use them at the same time, each a sequence of Redis and   *)
(* database calls: the scheduled turn of the strategy ("run", one at a     *)
(* time: ScheduledRuns), an execution its user asked for ("manual"), the   *)
(* stop monitors ("monitor") and the task that saves breakers ("sync").    *)
(* The breaker is read, evaluated and written back: two calls, with no     *)
(* lock around them.                                                       *)
(*                                                                         *)
(* Of the limits the loss of the day is kept in the model.  Consecutive    *)
(* losses, profits reached and unrealized losses may trigger the breaker   *)
(* at any check, a reached profit among them as a cutoff.                  *)
(***************************************************************************)
EXTENDS Integers, FiniteSets

CONSTANTS
    MaxLoss,        \* max_daily_loss
    MaxTrades,      \* max_daily_trades
    MaxFills,       \* bound: orders an execution fills
    MaxLost,        \* bound: what an execution loses
    Stake,          \* bound: what a day's executions can lose together
    MaxFaults,      \* bound: failures, losses and repairs
    Cases           \* bound: which requests may be under way together, and
                    \*   whether the strategy has a cooldown and MaxTrades

ASSUME Limits ==
    /\ {MaxLoss, MaxTrades, MaxFills, MaxLost, Stake} \subseteq Nat \ {0} /\ MaxFaults \in Nat
    /\ Cases \subseteq [requests : SUBSET {"run", "manual", "monitor", "sync"}, limited : BOOLEAN]

VARIABLES
    breaker,    \* algo:circuit_breaker:<id>, or NoKey
    trades,     \* algo:daily_trades:<id>, and whether the key expires at midnight
    cooling,    \* whether algo:cooldown:<id> exists
    stored,     \* the circuit_breaker_states row, or NoRow
    status,     \* the strategy's status
    limited,    \* whether it has a cooldown and a limit of trades; without them
                \*   nothing reads their keys, and they are left out
    request,    \* request -> where it is, the breaker it read, what its execution
                \*   reported, the verdict it reached
    booked,     \* history: the day's losses of runs, and trades
    forgotten,  \* history: whether some of the day's state was lost
    faults      \* how many faults there were (bounded by MaxFaults)

redis == <<breaker, trades, cooling>>
database == <<stored, status, limited>>
history == <<booked, forgotten, faults>>
vars == <<redis, database, request, history>>

Requests == {"run", "manual", "monitor", "sync"}
Places == {"idle", "circuit_breaker", "cooldown", "max_trades", "executing", "recording",
           "expiring", "reading", "writing", "saving", "committing", "stopping"}

\* A verdict; a cutoff says that a profit was reached, whatever else was.
Verdict == [trip : BOOLEAN, cutoff : BOOLEAN]
Quiet == [trip |-> FALSE, cutoff |-> FALSE]

\* What of the breaker's JSON is read again; a missing key reads as Fresh.
Breakers == [loss : Nat, trip : BOOLEAN]
Fresh == [loss |-> 0, trip |-> FALSE]
NoKey == [loss |-> -1]
KeyRead == IF breaker = NoKey THEN Fresh ELSE breaker
NoRow == [breaker |-> NoKey, today |-> FALSE]

NoTrades == [n |-> 0, expires |-> FALSE]

\* What an execution reports: orders filled, and the loss of trades closed.
Reports == [fills : 0..MaxFills, lost : 0..MaxLost]
NoReport == [fills |-> 0, lost |-> 0]

Idle == [pc |-> "idle", read |-> Fresh, report |-> NoReport, verdict |-> Quiet]
At(r, place) == request[r].pc = place
Goto(r, place) == request' = [request EXCEPT ![r].pc = place]
Done(r) == request' = [request EXCEPT ![r] = Idle]

Init ==
    /\ breaker = NoKey /\ trades = NoTrades /\ cooling = FALSE
    /\ stored = NoRow /\ status = "ACTIVE"
    /\ \E case \in Cases :
          limited = case.limited /\ request = [r \in case.requests |-> Idle]
    /\ booked = [loss |-> 0, trades |-> 0] /\ forgotten = FALSE /\ faults = 0

-----------------------------------------------------------------------------
(* PreExecutionChecker.check_all: reads one after the other *)

Checks == <<"circuit_breaker", "cooldown", "max_trades", "executing">>

\* Whether a check lets the strategy pass.
\* In the variant an execution is let in once more when the limit is reached.
PassesOneMore(check) ==
    CASE check = "circuit_breaker" -> ~KeyRead.trip
      [] check = "cooldown" -> ~cooling
      [] check = "max_trades" -> limited => trades.n <= MaxTrades
Passes(check) ==
    CASE check = "circuit_breaker" -> ~KeyRead.trip
      [] check = "cooldown" -> ~cooling
      [] check = "max_trades" -> limited => trades.n < MaxTrades

\* A run takes up strategies that are due, so active; a user may execute any.
Begin(r) ==
    /\ At(r, "idle") /\ (r = "run" => status = "ACTIVE")
    /\ Goto(r, "circuit_breaker")
    /\ UNCHANGED <<redis, database, history>>

Check(r) ==
    \E i \in 1..3 :
        /\ At(r, Checks[i])
        /\ Goto(r, IF Passes(Checks[i]) THEN Checks[i + 1] ELSE "idle")
        /\ UNCHANGED <<redis, database, history>>

\* The breaker comes next for a run; an execution its user asked for is done.
Counts(r) == IF r = "run" THEN Goto(r, "reading") ELSE Done(r)

\* The executor trades and saves its result in sessions of its own.  Only
\* what a run reports of closed trades is looked at again.
Execute(r) ==
    /\ At(r, "executing")
    /\ \E result \in Reports :
          /\ result.lost > 0 => r = "run" /\ result.fills > 0
          /\ booked.loss + result.lost <= Stake
          /\ booked' = [loss |-> booked.loss + result.lost,
                        trades |-> booked.trades + IF limited THEN result.fills ELSE 0]
          /\ IF result.fills = 0 THEN Counts(r)
             ELSE request' = [request EXCEPT ![r].pc = "recording", ![r].report = result]
    /\ UNCHANGED <<redis, database, forgotten, faults>>

\* record_trade starts the cooldown and counts the fills; the key is given its
\* expiry in a further call, and only where the count is now 1.
Record(r) ==
    /\ At(r, "recording")
    /\ cooling' = limited
    /\ trades' = IF limited THEN [trades EXCEPT !.n = @ + request[r].report.fills] ELSE trades
    /\ IF trades'.n = 1 THEN Goto(r, "expiring") ELSE Counts(r)
    /\ UNCHANGED <<breaker, database, history>>

Expiring(count) == [count EXCEPT !.expires = count.n > 0]

Expire(r) ==
    /\ At(r, "expiring")
    /\ trades' = Expiring(trades)
    /\ Counts(r)
    /\ UNCHANGED <<breaker, cooling, database, history>>

-----------------------------------------------------------------------------
(* CircuitBreaker.check_and_update, by a run and by the stop monitors *)

\* The monitors turn to every active strategy.
Watch(r) ==
    /\ At(r, "idle") /\ status = "ACTIVE"
    /\ Goto(r, "reading")
    /\ UNCHANGED <<redis, database, history>>

Read(r) ==
    /\ At(r, "reading")
    /\ request' = [request EXCEPT ![r].pc = "writing", ![r].read.loss = KeyRead.loss]
    /\ UNCHANGED <<redis, database, history>>

\* What the limits say of a day's loss; other says what they say of the rest.
\* In the variant a loss is only compared once the limit is passed.
JudgedLate(loss, other) == [trip |-> loss > MaxLoss \/ other.trip, cutoff |-> other.cutoff]
Judged(loss, other) == [trip |-> loss >= MaxLoss \/ other.trip, cutoff |-> other.cutoff]

\* Losses that are in the breaker and not in what replaces it are forgotten.
Replacing(new) ==
    /\ breaker' = new
    /\ forgotten' = (forgotten \/ KeyRead.loss > new.loss)

Write(r) ==
    LET loss == request[r].read.loss + request[r].report.lost
    IN  /\ At(r, "writing")
        /\ \E other \in Verdict :
              LET verdict == Judged(loss, other)
              IN  /\ other.cutoff => other.trip
                  /\ Replacing([loss |-> loss, trip |-> verdict.trip])
                  /\ request' = [request EXCEPT ![r] =
                        IF verdict.trip THEN [Idle EXCEPT !.pc = "saving", !.verdict = verdict]
                        ELSE Idle]
        /\ UNCHANGED <<trades, cooling, database, booked, faults>>

\* On a trigger the event is recorded, the breaker saved, and the strategy
\* stopped: paused where a profit was reached, whatever else was.
\* In the variant only a reached profit stops it.
StoppingOnProfit(verdict) == IF verdict.cutoff THEN "PAUSED" ELSE status
Stopping(verdict) == IF verdict.cutoff THEN "PAUSED" ELSE "DISABLED"

Stop(r) ==
    /\ At(r, "stopping") /\ Done(r)
    /\ status' = Stopping(request[r].verdict)
    /\ UNCHANGED <<redis, stored, limited, history>>

-----------------------------------------------------------------------------
(* CircuitBreakerPersistence *)

\* sync-all saves the breakers of active and paused strategies.
BeginSync(r) ==
    /\ At(r, "idle") /\ status \in {"ACTIVE", "PAUSED"}
    /\ Goto(r, "saving")
    /\ UNCHANGED <<redis, database, history>>

Saved(r) == IF r = "sync" THEN Done(r) ELSE request' = [request EXCEPT ![r].pc = "stopping", ![r].read = Fresh]

\* sync_to_db: the key is read, where there is one,
ReadToSave(r) ==
    /\ At(r, "saving")
    /\ IF breaker = NoKey THEN Saved(r)
       ELSE request' = [request EXCEPT ![r].pc = "committing", ![r].read = breaker]
    /\ UNCHANGED <<redis, database, history>>

\* and the row written and committed.
Save(r) ==
    /\ At(r, "committing") /\ Saved(r)
    /\ stored' = [breaker |-> request[r].read, today |-> TRUE]
    /\ UNCHANGED <<redis, status, limited, history>>

\* load_from_db_to_redis: nothing of the day is taken from the row of an
\* earlier day.
Restored == IF stored.today THEN stored.breaker ELSE Fresh

Load ==
    /\ faults < MaxFaults /\ faults' = faults + 1
    /\ stored # NoRow
    /\ Replacing(Restored)
    /\ UNCHANGED <<trades, cooling, database, request, booked>>

-----------------------------------------------------------------------------
(* What happens meanwhile *)

\* A request fails or dies: of what its execution did, only that is counted
\* which reached Redis.
Fail(r) ==
    /\ faults < MaxFaults /\ faults' = faults + 1
    /\ ~At(r, "idle") /\ Done(r)
    /\ forgotten' = (forgotten \/ request[r].report # NoReport)
    /\ UNCHANGED <<redis, database, booked>>

\* Redis restarts empty.
LoseRedis ==
    /\ faults < MaxFaults /\ faults' = faults + 1
    /\ breaker' = NoKey /\ trades' = NoTrades /\ cooling' = FALSE
    /\ forgotten' = TRUE
    /\ UNCHANGED <<database, request, booked>>

\* The user resets the breaker.
Reset ==
    /\ faults < MaxFaults /\ faults' = faults + 1
    /\ breaker' = NoKey
    /\ forgotten' = TRUE
    /\ UNCHANGED <<trades, cooling, database, request, booked>>

\* The user enables and disables the strategy.
SetStatus ==
    /\ status' \in {"ACTIVE", "DISABLED"}
    /\ UNCHANGED <<redis, stored, limited, request, history>>

CooldownEnds ==
    /\ cooling /\ cooling' = FALSE
    /\ UNCHANGED <<breaker, trades, database, request, history>>

\* Midnight (UTC): keys expire that were given that expiry.  What was read
\* before may be written after, which counts as a fault.
Midnight ==
    /\ breaker' = NoKey
    /\ trades' = IF trades.expires THEN NoTrades ELSE trades
    /\ stored' = [stored EXCEPT !.today = FALSE]
    /\ booked' = [loss |-> 0, trades |-> 0] /\ forgotten' = FALSE
    /\ IF \E r \in DOMAIN request : request[r].read # Fresh
          THEN faults < MaxFaults /\ faults' = faults + 1
          ELSE UNCHANGED faults
    /\ UNCHANGED <<cooling, status, limited, request>>

Executes(r) == Begin(r) \/ Check(r) \/ Execute(r) \/ Record(r) \/ Expire(r)
Judges(r) == Read(r) \/ Write(r) \/ Stop(r)
Saves(r) == ReadToSave(r) \/ Save(r)

Step(r) ==
    \/ r \in {"run", "manual"} /\ Executes(r)
    \/ r = "monitor" /\ Watch(r)
    \/ r = "sync" /\ BeginSync(r)
    \/ r \in {"run", "monitor"} /\ Judges(r)
    \/ Saves(r)

Next ==
    \/ \E r \in DOMAIN request : Step(r) \/ Fail(r)
    \/ Load \/ LoseRedis \/ Reset \/ SetStatus \/ CooldownEnds \/ Midnight

Spec == Init /\ [][Next]_vars

\* The stop monitors come round again, and their requests go on.  Nothing else
\* has to happen.
FairSpec == Spec /\ WF_vars("monitor" \in DOMAIN request /\ Step("monitor"))

-----------------------------------------------------------------------------
(* Properties *)

\* Types; and a request that is not going on knows nothing (check_and_update,
\* check_all).
TypeOK ==
    /\ breaker \in Breakers \cup {NoKey}
    /\ trades \in [n : Nat, expires : BOOLEAN] /\ (trades.expires => trades.n > 0)
    /\ cooling \in BOOLEAN
    /\ stored \in [breaker : Breakers, today : BOOLEAN] \cup {NoRow}
    /\ status \in {"ACTIVE", "PAUSED", "DISABLED"}
    /\ [requests |-> DOMAIN request, limited |-> limited] \in Cases
    /\ \A r \in DOMAIN request :
          /\ request[r].pc \in Places /\ request[r].read \in Breakers
          /\ request[r].report \in Reports /\ request[r].verdict \in Verdict
          /\ At(r, "idle") => request[r] = Idle
    /\ booked \in [loss : Nat, trades : Nat]
    /\ forgotten \in BOOLEAN /\ faults \in 0..MaxFaults

\* The losses that the day's scheduled turns report pass the limit by at most
\* what one turn loses, unless some of the day's state was lost: written over
\* by a check that had read it earlier or by a load, reset, or gone with Redis
\* or with a failed turn (check_and_update).
LossesBounded == ~forgotten => booked.loss <= MaxLoss - 1 + MaxLost

\* The same of the day's trades, which a scheduled turn and its user's own
\* execution may both find below the limit (check_all, record_trade).
TradesBounded == ~forgotten => booked.trades <= MaxTrades - 1 + 2 * MaxFills

\* A strategy whose breaker holds a loss over the limit is stopped, though the
\* turn that found it fails before it stops it, and a stale check may write
\* over the breaker meanwhile (check_stop_monitors).
Breached == breaker # NoKey /\ breaker.loss >= MaxLoss
BreachedIsStopped ==
    Breached /\ "monitor" \in DOMAIN request ~> ~Breached \/ status # "ACTIVE"

\* "Set expiry at midnight if this is the first trade" (the comment in
\* DailyTradeCounter): the count of an earlier day is gone.  It is not when
\* the first execution filled more than one order.
CountIsDaily == [][Midnight => trades' = NoTrades]_vars

=============================================================================
