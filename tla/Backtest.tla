------------------------------- MODULE Backtest -------------------------------
(***************************************************************************)
(* A backtest: the runner that trades a strategy's signals over past bars, *)
(* and the record of the backtest that a request creates, marks RUNNING,   *)
(* fills with the result, or marks FAILED.                                 *)
(*                                                                         *)
(* A bar is what its period traded at, with the signal of the strategy on  *)
(* the bars up to it; the environment gives one more bar, or no more.      *)
(* Prices and money are whole numbers, and percentages of them rounded     *)
(* down.                                                                   *)
(***************************************************************************)
EXTENDS Integers, Sequences

CONSTANTS
    Initial,       \* initial_capital
    Size,          \* position_size_pct
    Fee, Slip,     \* commission_pct, slippage_pct
    StopLoss, TakeProfit,  \* stop_loss_pct, take_profit_pct; 0 for none
    Bars,          \* bound: what a bar may be
    WarmUp,        \* bars before the strategy gives its first signal
    MaxBars        \* bound: bars of a backtest

ASSUME Amounts ==
    /\ Initial \in Nat \ {0} /\ {Size, Fee, Slip, StopLoss, TakeProfit} \subseteq 0..99
    /\ WarmUp \in Nat /\ MaxBars \in Nat
ASSUME BarsAreTraded ==
    \A b \in Bars : /\ b \in [low : Nat \ {0}, close : Nat \ {0}, high : Nat \ {0}]
                    /\ b.low <= b.close /\ b.close <= b.high

VARIABLES
    record,    \* the committed row of backtest_results with its trades
    runner,    \* the BacktestRunner, in memory
    pc         \* how far the request is

vars == <<record, runner, pc>>

Reasons == {"STOP_LOSS", "TAKE_PROFIT", "SIGNAL", "END_OF_BACKTEST"}
Signals == {"NONE", "BUY", "SELL"}
NoTrade == [side |-> "NONE", entry |-> 0, quantity |-> 0, from |-> 0, to |-> 0,
            exit |-> 0, pnl |-> 0, reason |-> "NONE"]
NewRunner == [bar |-> 0, capital |-> Initial, position |-> NoTrade, trades |-> <<>>,
              equity |-> <<>>, close |-> 0]
NoRecord == [status |-> "NONE", capital |-> 0, trades |-> <<>>, equity |-> <<>>]

Part(x, pct) == (x * pct) \div 100

-----------------------------------------------------------------------------
(* The runner *)

\* What a fill at a price costs who buys, or brings who sells.
Slipped(price, buys) == IF buys THEN price + Part(price, Slip) ELSE price - Part(price, Slip)

Open(r) == r.position # NoTrade

Entered(r, price, signal) ==
    LET entry    == Slipped(price, signal = "BUY")
        quantity == Part(r.capital, Size) \div entry
    IN  IF quantity <= 0 THEN r
        ELSE [r EXCEPT !.capital = @ - Part(entry * quantity, Fee),
                       !.position = [NoTrade EXCEPT
                           !.side = IF signal = "BUY" THEN "LONG" ELSE "SHORT",
                           !.entry = entry, !.quantity = quantity, !.from = r.bar]]

\* What a position has gained when a share is worth a price.
Gain(position, price) ==
    position.quantity * (IF position.side = "LONG" THEN price - position.entry
                                                   ELSE position.entry - price)

\* In the variant the commission is taken from the capital and from the gain.
ExitedTwiceCharged(r, price, reason) ==
    LET exit == Slipped(price, r.position.side = "SHORT")
        fee  == Part(exit * r.position.quantity, Fee)
        pnl  == Gain(r.position, exit) - fee
        done == [r.position EXCEPT !.to = r.bar, !.exit = exit, !.pnl = pnl, !.reason = reason]
    IN  [r EXCEPT !.capital = @ + pnl - fee, !.position = NoTrade, !.trades = Append(@, done)]
Exited(r, price, reason) ==
    LET exit == Slipped(price, r.position.side = "SHORT")
        pnl  == Gain(r.position, exit) - Part(exit * r.position.quantity, Fee)
        done == [r.position EXCEPT !.to = r.bar, !.exit = exit, !.pnl = pnl, !.reason = reason]
    IN  [r EXCEPT !.capital = @ + pnl, !.position = NoTrade, !.trades = Append(@, done)]

\* The price at which a position has lost, or gained, a percentage.
Level(position, pct, worse) ==
    IF (position.side = "LONG") = worse THEN position.entry - Part(position.entry, pct)
                                        ELSE position.entry + Part(position.entry, pct)
StopPrice(position) == Level(position, StopLoss, TRUE)
TargetPrice(position) == Level(position, TakeProfit, FALSE)
StopHit(position, b) ==
    /\ StopLoss # 0
    /\ IF position.side = "LONG" THEN b.low <= StopPrice(position) ELSE b.high >= StopPrice(position)
TargetHit(position, b) ==
    /\ TakeProfit # 0
    /\ IF position.side = "LONG" THEN b.high >= TargetPrice(position)
                                 ELSE b.low <= TargetPrice(position)

\* Where a bar touches both, the stop is taken to have come first.
Checked(r, b) ==
    IF ~Open(r) THEN r
    ELSE IF StopHit(r.position, b) THEN Exited(r, StopPrice(r.position), "STOP_LOSS")
    ELSE IF TargetHit(r.position, b) THEN Exited(r, TargetPrice(r.position), "TAKE_PROFIT")
    ELSE r

\* A position that was stopped leaves room for one that this bar signals.
Followed(r, b, signal) ==
    IF ~Open(r)
    THEN IF signal = "NONE" THEN r ELSE Entered(r, b.close, signal)
    ELSE IF signal = (IF r.position.side = "LONG" THEN "SELL" ELSE "BUY")
         THEN Exited(r, b.close, "SIGNAL") ELSE r

Equity(r, b) == r.capital + (IF Open(r) THEN Gain(r.position, b.close) ELSE 0)

\* One turn of the loop.
Traded(r, b, signal) ==
    LET now  == [r EXCEPT !.bar = @ + 1]
        then == Followed(Checked(now, b), b, signal)
    IN  [then EXCEPT !.equity = Append(@, Equity(then, b)), !.close = b.close]

\* The last close ends what is open; the equity curve does not show it.
\* In the variant nothing is closed.
EndedOpen(r) == r
Ended(r) == IF Open(r) THEN Exited(r, r.close, "END_OF_BACKTEST") ELSE r

-----------------------------------------------------------------------------
(* The request and the record *)

Init == record = NoRecord /\ runner = NewRunner /\ pc = "idle"

Create ==
    /\ pc = "idle" /\ record.status = "NONE"
    /\ record' = [record EXCEPT !.status = "PENDING"]
    /\ runner' = NewRunner /\ pc' = "created"

\* A request whose record has been deleted ends.
Start ==
    /\ pc = "created"
    /\ IF record.status = "NONE" THEN UNCHANGED record /\ pc' = "idle"
       ELSE record' = [record EXCEPT !.status = "RUNNING"] /\ pc' = "running"
    /\ UNCHANGED runner

Bar ==
    /\ pc = "running" /\ runner.bar < MaxBars
    /\ \E b \in Bars, signal \in Signals :
          /\ runner.bar < WarmUp => signal = "NONE"
          /\ runner' = Traded(runner, b, signal)
    /\ UNCHANGED <<record, pc>>

Finish ==
    /\ pc = "running" /\ runner.bar > 0
    /\ runner' = Ended(runner) /\ pc' = "finished"
    /\ UNCHANGED record

\* No such strategy, no data, or what the strategy raises.
Fail ==
    /\ pc = "running" /\ record.status = "RUNNING"
    /\ record' = [record EXCEPT !.status = "FAILED"]
    /\ pc' = "idle" /\ UNCHANGED runner

Save ==
    /\ pc = "finished" /\ record.status = "RUNNING"
    /\ record' = [status |-> "COMPLETED", capital |-> runner.capital,
                  trades |-> runner.trades, equity |-> runner.equity]
    /\ pc' = "idle" /\ UNCHANGED runner

\* The process ends; or the result cannot be stored, and neither can the
\* failure: the session that failed to write is used for both.
Stop ==
    /\ pc # "idle" /\ pc' = "idle"
    /\ UNCHANGED <<record, runner>>

\* The user deletes the record at any time, and its trades with it.  In the
\* variant they stay.
DeleteRow ==
    /\ record.status # "NONE" /\ record' = [record EXCEPT !.status = "NONE"]
    /\ UNCHANGED <<runner, pc>>
Delete ==
    /\ record.status # "NONE" /\ record' = NoRecord
    /\ UNCHANGED <<runner, pc>>

Next == Create \/ Start \/ Bar \/ Finish \/ Fail \/ Save \/ Stop \/ Delete

Spec == Init /\ [][Next]_vars

-----------------------------------------------------------------------------
(* Properties *)

Trades == [side : {"LONG", "SHORT"}, entry : Int, quantity : Nat \ {0}, from : 1..MaxBars,
           to : 0..MaxBars, exit : Int, pnl : Int, reason : Reasons \cup {"NONE"}]

\* Types: the runner trades only while its request is at work, and what is
\* stored is a result or nothing (BacktestRunner, BacktestResult).
TypeOK ==
    /\ pc \in {"idle", "created", "running", "finished"}
    /\ record.status \in {"NONE", "PENDING", "RUNNING", "COMPLETED", "FAILED"}
    /\ record.status = "NONE" => record = NoRecord
    /\ record.trades \in Seq(Trades) /\ runner.trades \in Seq(Trades)
    /\ runner.bar \in 0..MaxBars /\ Len(runner.equity) = runner.bar
    /\ runner.capital \in Int /\ runner.position \in Trades \cup {NoTrade}

\* The trades of a runner, whether stored or not, follow one another.
InOrder(trades) ==
    /\ \A k \in DOMAIN trades :
          /\ trades[k].reason \in Reasons
          /\ trades[k].from <= trades[k].to
          /\ trades[k].reason # "END_OF_BACKTEST" => trades[k].from < trades[k].to
          /\ trades[k].reason = "END_OF_BACKTEST" => k = Len(trades)
    /\ \A k \in DOMAIN trades : k > 1 => trades[k - 1].to <= trades[k].from

\* However stops, targets and signals fall on the same bar, one position is
\* held at a time, none is closed on the bar that opened it but by the end,
\* none is opened before the warm-up is over, and a backtest is only
\* COMPLETED with every trade closed (run, _check_exit_conditions).
TradesInOrder ==
    /\ InOrder(runner.trades) /\ InOrder(record.trades)
    /\ Open(runner) =>
          /\ runner.position.from > WarmUp /\ pc # "finished"
          /\ runner.trades # <<>> => runner.trades[Len(runner.trades)].to <= runner.position.from
    /\ record.status # "COMPLETED" => record.trades = <<>>
    /\ pc = "finished" => ~Open(runner)

EntryFee(trade) == Part(trade.entry * trade.quantity, Fee)
EntryFees(trades) == [k \in DOMAIN trades |-> EntryFee(trades[k])]
Pnls(trades) == [k \in DOMAIN trades |-> trades[k].pnl]

\* The sum of a sequence of amounts.
Total(amounts) ==
    LET sum[k \in 0..Len(amounts)] == IF k = 0 THEN 0 ELSE sum[k - 1] + amounts[k]
    IN  sum[Len(amounts)]

\* What the trades of a runner leave of its capital.
Explained(trades) == Initial + Total(Pnls(trades)) - Total(EntryFees(trades))

\* The capital a backtest ends with is what it began with, the gains of its
\* trades and less the commissions of their entries: nothing is paid or
\* gained twice over a series of trades (_enter_position, _exit_position).
CapitalExplained ==
    /\ runner.capital = Explained(runner.trades)
                            - (IF Open(runner) THEN EntryFee(runner.position) ELSE 0)
    /\ record.status = "COMPLETED" => record.capital = Explained(record.trades)

=============================================================================
