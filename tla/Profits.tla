------------------------------- MODULE Profits -------------------------------
(***************************************************************************)
(* What the backend answers on the profits of a user's strategies: in all, *)
(* by strategy, day by day and of what is open.  Nothing of it is stored:  *)
(* each request adds up algo_positions anew, after it has asked for prices *)
(* without a transaction, while positions are opened, enlarged, sold in    *)
(* parts and closed and strategies come and go.                            *)
(*                                                                         *)
(* Requests only read, so one at a time stands for any number.  Fills that *)
(* overlap each other are not shown here but in Guardrail.                 *)
(***************************************************************************)
EXTENDS AlgoPosition, Sequences

CONSTANTS
    NStrategies, NRows,     \* bounds: strategies, and rows of algo_positions
    Configured,             \* the signal_direction of each strategy
    Stocks, Tape, Lots,     \* symbols, their prices, quantities of orders
    MaxHeld, LastDate,      \* bounds: the shares of a row, and days
    Spans                   \* for how many days a history is asked

VARIABLES
    held,       \* algo_positions; dated is the day of exit_at, until then of updated_at
    live,       \* the strategies there are
    today,
    reader,     \* what the request is at
    report,     \* what was answered last, until something else happens
    earned      \* history: the gains of each strategy's exits, until it is deleted

vars == <<held, live, today, reader, report, earned>>

NoPosition ==
    [strategy |-> 0, symbol |-> "NONE", side |-> "LONG", status |-> "NONE", entryQty |-> 0,
     remaining |-> 0, exitQty |-> 0, entry |-> 0, realized |-> 0, dated |-> 0]
Position(s, symbol, side, q, p) ==
    [strategy |-> s, symbol |-> symbol, side |-> side, status |-> "OPEN", entryQty |-> q,
     remaining |-> q, exitQty |-> 0, entry |-> p, realized |-> 0, dated |-> today]

Idle == [pc |-> "idle"]
Answer(realized, unrealized, due) == [realized |-> realized, unrealized |-> unrealized, due |-> due]
NoAnswer == Answer(0, 0, [realized |-> 0, unrealized |-> 0])

Init ==
    /\ held = [i \in 1..NRows |-> NoPosition] /\ live = {} /\ today = 1
    /\ reader = Idle /\ report = NoAnswer /\ earned = [s \in 1..NStrategies |-> 0]

\* The sum of a sequence of amounts.
Total(amounts) ==
    LET sum[k \in 0..Len(amounts)] == IF k = 0 THEN 0 ELSE sum[k - 1] + amounts[k]
    IN  sum[Len(amounts)]

-----------------------------------------------------------------------------
(* Strategies and their positions *)

CreateStrategy ==
    /\ \E s \in (1..NStrategies) \ live : live' = live \cup {s}
    /\ UNCHANGED <<held, today, reader, earned>>

\* The rows of algo_positions go with their strategy.
DeleteStrategy ==
    \E s \in live :
        /\ live' = live \ {s}
        /\ held' = [i \in 1..NRows |-> IF held[i].strategy = s THEN NoPosition ELSE held[i]]
        /\ earned' = [earned EXCEPT ![s] = 0]
        /\ UNCHANGED <<today, reader>>

OpenPosition ==
    \E s \in live, symbol \in Stocks, side \in Sides, q \in Lots, p \in Tape, i \in 1..NRows :
        /\ Allowed(Configured[s], side)
        /\ held[i] = NoPosition /\ \A j \in 1..(i - 1) : held[j] # NoPosition
        /\ ~\E j \in 1..NRows : held[j].strategy = s /\ held[j].symbol = symbol /\ IsOpen(held[j])
        /\ held' = [held EXCEPT ![i] = Position(s, symbol, side, q, p)]
        /\ UNCHANGED <<live, today, reader, earned>>

\* A row that was sold in part stays PARTIAL when it grows.
Enlarge ==
    \E i \in 1..NRows, q \in Lots, p \in Tape :
        LET r == held[i]
            qty == r.remaining + q
        IN  /\ IsOpen(r) /\ r.exitQty + qty <= MaxHeld
            /\ held' = [held EXCEPT ![i] =
                   [r EXCEPT !.entryQty = qty, !.remaining = qty, !.dated = today,
                             !.entry = RoundDiv(r.entry * r.remaining + p * q, qty)]]
            /\ UNCHANGED <<live, today, reader, earned>>

\* A fill, a stop, a target, a booking rule or the user sells some or all.
Exit ==
    \E i \in 1..NRows, q \in Lots, p \in Tape :
        LET r == held[i]
            gain == Gain(r.side, r.entry, p) * LeastOf(q, r.remaining)
        IN  /\ IsOpen(r)
            /\ held' = [held EXCEPT ![i] = [Reduced(r, q, p) EXCEPT !.dated = today]]
            /\ earned' = [earned EXCEPT ![r.strategy] = @ + gain]
            /\ UNCHANGED <<live, today, reader>>

\* All that is open of a strategy is sold in one transaction; a row for whose
\* symbol there is no price, at what it cost.
SquaredOff(r, prices) ==
    LET price == IF r.symbol \in DOMAIN prices THEN prices[r.symbol] ELSE r.entry
    IN  [Reduced(r, r.remaining, price) EXCEPT !.dated = today]
SquareOff ==
    \E s \in live, prices \in UNION {[had -> Tape] : had \in SUBSET Stocks} :
        LET out == {i \in 1..NRows : held[i].strategy = s /\ IsOpen(held[i])}
            after == [i \in 1..NRows |-> IF i \in out THEN SquaredOff(held[i], prices) ELSE held[i]]
            gain == [i \in 1..NRows |-> after[i].realized - held[i].realized]
        IN  /\ out # {}
            /\ held' = after /\ earned' = [earned EXCEPT ![s] = @ + Total(gain)]
            /\ UNCHANGED <<live, today, reader>>

\* A stop that follows the price, a target that is marked as booked, an edit.
Touch ==
    \E i \in 1..NRows :
        /\ IsOpen(held[i])
        /\ held' = [held EXCEPT ![i].dated = today]
        /\ UNCHANGED <<live, today, reader, earned>>

NextDay ==
    /\ today < LastDate /\ today' = today + 1
    /\ UNCHANGED <<held, live, reader, earned>>

-----------------------------------------------------------------------------
(* Sums *)

\* Variants, each for seeing that the accounts notice it: what a position
\* sold in part has earned is left out; the first day counts twice.
RealizesClosed(r) == r.status = "CLOSED"
BeforeOrOn(date, start) == date <= start

Realizes(r) == r.status \in {"CLOSED", "PARTIAL"}
Before(date, start) == date < start

RealizedOf(r) == IF Realizes(r) THEN r.realized ELSE 0
\* An open position without a price is worth what it cost.
WorthOf(r, prices) ==
    IF IsOpen(r) /\ r.symbol \in DOMAIN prices
    THEN Gain(r.side, r.entry, prices[r.symbol]) * r.remaining ELSE 0

Realized == Total([i \in 1..NRows |-> RealizedOf(held[i])])
Worth(prices) == Total([i \in 1..NRows |-> WorthOf(held[i], prices)])

RealizedBy(s) == Total([i \in 1..NRows |-> IF held[i].strategy = s THEN RealizedOf(held[i]) ELSE 0])
WorthBy(s, prices) ==
    Total([i \in 1..NRows |-> IF held[i].strategy = s THEN WorthOf(held[i], prices) ELSE 0])
Listing(those, amount) == Total([s \in 1..NStrategies |-> IF s \in those THEN amount[s] ELSE 0])

\* A position sold in part has its day when it was last changed, whatever
\* changed, and with it go its earlier gains.
RealizedOn(date) ==
    Total([i \in 1..NRows |-> IF held[i].dated = date THEN RealizedOf(held[i]) ELSE 0])
RealizedBefore(start) ==
    Total([i \in 1..NRows |-> IF Before(held[i].dated, start) THEN RealizedOf(held[i]) ELSE 0])
\* The cumulative profit on the last of so many days.
Cumulative(span) ==
    LET start == today - span + 1
    IN  RealizedBefore(start) + Total([k \in 1..span |-> RealizedOn(start + k - 1)])

-----------------------------------------------------------------------------
(* Requests *)

\* What has been earned, by the strategies in question.
Owed(those, worth) == [realized |-> Listing(those, earned), unrealized |-> worth]
\* What the rows add up to with these prices.
Added(prices) == Answer(Realized, Worth(prices), Owed(live, Worth(prices)))

OpenSymbols == {held[i].symbol : i \in {j \in 1..NRows : IsOpen(held[j])}}

\* Not every price can be had.
Quoted(symbols) == UNION {[had -> Tape] : had \in SUBSET symbols}

\* The rows are read a first time, for the symbols to ask prices of.
Ask ==
    /\ reader = Idle
    /\ reader' = [pc |-> "asked", symbols |-> OpenSymbols, those |-> {}] /\ report' = NoAnswer
    /\ UNCHANGED <<held, live, today, earned>>

\* A list of positions none of which has a price is what was read first.
ListUnpriced ==
    /\ reader = Idle /\ report' = Added(<<>>)
    /\ UNCHANGED <<held, live, today, reader, earned>>

\* The rows are read anew, for a list, a summary, or what is open alone.
AddUp ==
    /\ reader # Idle /\ reader.pc = "asked"
    /\ \E prices \in Quoted(reader.symbols) :
          \/ report' = Added(prices)
          \/ reader.symbols # {} /\ report' = Answer(0, Worth(prices), Owed({}, Worth(prices)))
    /\ reader' = Idle
    /\ UNCHANGED <<held, live, today, earned>>

\* Or the strategies are, and then their positions, by a statement of its own.
ListStrategies ==
    /\ reader # Idle /\ reader.pc = "asked"
    /\ reader' = [reader EXCEPT !.pc = "listed", !.those = live] /\ report' = NoAnswer
    /\ UNCHANGED <<held, live, today, earned>>

ByStrategy ==
    /\ reader # Idle /\ reader.pc = "listed"
    /\ \E prices \in Quoted(reader.symbols) :
          LET those == reader.those
              worths == [i \in 1..NRows |-> IF held[i].strategy \in those THEN WorthOf(held[i], prices) ELSE 0]
          IN  report' = Answer(Listing(those, [s \in 1..NStrategies |-> RealizedBy(s)]),
                               Listing(those, [s \in 1..NStrategies |-> WorthBy(s, prices)]),
                               Owed(those, Total(worths)))
    /\ reader' = Idle
    /\ UNCHANGED <<held, live, today, earned>>

History ==
    /\ reader = Idle
    /\ \E span \in Spans : report' = Answer(Cumulative(span), 0, Owed(live, 0))
    /\ UNCHANGED <<held, live, today, reader, earned>>

\* What makes a report out of date.
Trade == CreateStrategy \/ DeleteStrategy \/ OpenPosition \/ Enlarge \/ Exit \/ SquareOff
         \/ Touch \/ NextDay

Next ==
    \/ Trade /\ report' = NoAnswer
    \/ Ask \/ ListUnpriced \/ AddUp \/ ListStrategies \/ ByStrategy \/ History

Spec == Init /\ [][Next]_vars

-----------------------------------------------------------------------------
(* Properties *)

TypeOK ==
    /\ held \in [1..NRows -> [strategy : 0..NStrategies, symbol : Stocks \cup {"NONE"}, side : Sides,
                              status : Statuses, entryQty : Nat, remaining : Nat, exitQty : Nat,
                              entry : Nat, realized : Int, dated : 0..LastDate]]
    /\ live \subseteq 1..NStrategies /\ today \in 1..LastDate
    /\ earned \in [1..NStrategies -> Int]
    /\ reader # Idle => /\ reader.pc \in {"asked", "listed"} /\ reader.symbols \subseteq Stocks
                        /\ reader.those \subseteq 1..NStrategies

\* Every answer accounts for each gain of the strategies it is about once:
\* whatever was sold in parts, enlarged or deleted before or while it was put
\* together, and for however many days a history is asked; and what the
\* strategies' open positions are worth adds up to what all of theirs are
\* (get_pnl_summary, get_pnl_by_strategy, get_pnl_history).
ReportsAccount ==
    /\ report.realized = report.due.realized
    /\ report.unrealized = report.due.unrealized

=============================================================================
