--------------------------- MODULE ExecutionCycle ---------------------------
(***************************************************************************)
(* One strategy's turn in trading-engine/engine/algo/executor.py, for a    *)
(* DELIVERY strategy with fixed quantity on the paper broker.              *)
(*                                                                         *)
(* Two kinds of database session take part.  The request's own session     *)
(* writes the exits its route checks, and every paper fill writes the      *)
(* user's funds through it; it commits after the turn, and until then the  *)
(* rows it wrote stay locked.  The executor opens short sessions beside    *)
(* it, to check exits and to persist the result, which write the same      *)
(* positions and funds.  A write that waits for the request's session      *)
(* waits for its own caller, until the statement times out.                *)
(*                                                                         *)
(* A position is its quantity, negative when short, 0 when there is none.  *)
(* One price stands for all, so values are counted in shares.              *)
(***************************************************************************)
EXTENDS Integers, Sequences, FiniteSets

CONSTANTS
    Symbols,     \* the symbols a strategy may look at
    ExitOnly,    \* those of them it may only sell
    Direction,   \* signal_direction
    Configs,     \* bound: the symbols the strategy looks at together with its
                 \*   max_open_positions
    Lot,         \* fixed_quantity
    Shares,      \* max_position_value
    Others,      \* whether stop monitors and users close positions meanwhile
    MaxHeld,     \* bound: what the user's cash buys of one symbol
    MaxFaults    \* bound: lost connections, failed reads and restarts

ASSUME Sizes == /\ Configs \subseteq [symbols : SUBSET Symbols, open : Nat \ {0}]
                /\ {Lot, Shares} \subseteq Nat \ {0} /\ {MaxHeld, MaxFaults} \subseteq Nat
ASSUME Universe == IsFiniteSet(Symbols) /\ ExitOnly \subseteq Symbols
ASSUME Settings == Direction \in {"LONG", "BOTH"} /\ Others \in BOOLEAN

VARIABLES
    config,   \* the strategy's symbols and max_open_positions
    row,      \* symbol -> the committed quantity of its algo_positions row
    held,     \* symbol -> shares in the paper broker's memory
    pc,       \* where the turn is
    writes,   \* the quantities the request's session wrote and has not committed
    funds,    \* whether it has written the user's funds
    broken,   \* whether its connection was lost
    signals,  \* the signals still to process
    order,    \* the order about to be placed
    opened,   \* positions_opened_this_cycle
    placed,   \* the filled orders of result.orders_data
    exited,   \* history: what the executor's check left of the rows it reduced
    faults,   \* how many faults there were (bounded by MaxFaults)
    blind     \* history: how many of them were failed reads of a position

session == <<writes, funds, broken>>
result == <<signals, order, opened, placed, exited>>
count == <<faults, blind>>
vars == <<config, row, held, pc, session, result, count>>

\* A strategy answers BUY, SELL or HOLD for a symbol, or nothing.
Signals == [symbol : config.symbols, side : {"BUY", "SELL", "HOLD"}]
NoOrder == [symbol |-> "none"]
NoWrites == [s \in {} |-> 0]

Magnitude(q) == IF q < 0 THEN -q ELSE q
Least(a, b) == IF a <= b THEN a ELSE b
OpenRows == {s \in Symbols : row[s] # 0}

\* What a check or a close may leave of a position: all of it when only a
\* stop has moved.
Leaves(q) == IF q >= 0 THEN 0..q ELSE q..0

\* get_position_quantity in the request's session.  It means to negate what is
\* short, but compares the printed form of the enum: "PositionSide.SHORT".
View(s) == IF s \in DOMAIN writes THEN writes[s] ELSE row[s]
Seen(s) == Magnitude(View(s))

Init ==
    /\ config \in Configs
    /\ row \in [Symbols -> {0, Least(Lot, Shares)}]
    /\ OpenRows \subseteq config.symbols /\ Cardinality(OpenRows) <= config.open
    /\ held = row
    /\ pc = "idle"
    /\ writes = NoWrites /\ funds = FALSE /\ broken = FALSE
    /\ signals = {} /\ order = NoOrder /\ opened = 0
    /\ placed = <<>> /\ exited = {}
    /\ faults = 0 /\ blind = 0

-----------------------------------------------------------------------------
(* The turn of a strategy *)

\* The route checks the exits of at most one position first, in the request's
\* session, or none: outside the time window, or on a user's request.
Start ==
    /\ pc = "idle" /\ pc' = "analyzing"
    /\ \/ writes' = NoWrites
       \/ \E s \in OpenRows : \E left \in Leaves(row[s]) : writes' = [x \in {s} |-> left]
    /\ funds' = \E s \in DOMAIN writes' : writes'[s] # row[s]
    /\ UNCHANGED <<config, row, held, broken, result, count>>

\* Exit-only symbols may be sold and not bought.
\* In the variant the filter is missing.
EligibleAll(generated) == generated
Eligible(generated) == {g \in generated : g.symbol \in ExitOnly => g.side = "SELL"}

Analyze ==
    /\ pc = "analyzing" /\ pc' = "checking"
    /\ \E asked \in SUBSET config.symbols :
       \E side \in [asked -> {"BUY", "SELL", "HOLD"}] :
          signals' = Eligible({[symbol |-> s, side |-> side[s]] : s \in asked})
    /\ UNCHANGED <<config, row, held, session, order, opened, placed, exited, count>>

OrderFor(s, side, q, exit) == [symbol |-> s, side |-> side, qty |-> q, exit |-> exit]

\* _check_exit_conditions finds at most one exit.  Its order is put among the
\* results as filled before the session commits, and nothing is sent to the
\* broker.  A position the request's session wrote cannot be reduced; where
\* that session wrote the funds, the reduction is lost but the order stays.
CheckExits ==
    /\ pc = "checking"
    /\ pc' = IF signals = {} THEN "done" ELSE "trading"
    /\ \/ UNCHANGED <<row, placed, exited>>
       \/ \E s \in OpenRows \ DOMAIN writes : \E left \in Leaves(row[s]) \ {row[s]} :
             LET side == IF row[s] > 0 THEN "SELL" ELSE "BUY"
             IN  /\ placed' = Append(placed, OrderFor(s, side, Magnitude(row[s] - left), TRUE))
                 /\ row' = IF funds THEN row ELSE [row EXCEPT ![s] = left]
                 /\ exited' = IF funds THEN exited
                              ELSE exited \cup {[symbol |-> s, left |-> left]}
    /\ UNCHANGED <<config, held, session, signals, order, opened, count>>

\* _derive_effective_intent and the direction guard, for signals that leave
\* their intent open.  A HOLD has none, and none is allowed.
Intent(side, known) ==
    CASE side = "HOLD" -> "NONE"
      [] side = "BUY"  -> IF known < 0 THEN "CLOSE_SHORT" ELSE "OPEN_LONG"
      [] side = "SELL" -> IF known > 0 THEN "CLOSE_LONG" ELSE "OPEN_SHORT"

DirectionAllows(intent) == Direction = "LONG" => intent \notin {"OPEN_SHORT", "CLOSE_SHORT"}

\* max_open_positions counts what this cycle filled on top of the open rows.
\* In the variant it counts the rows alone.
RoomUncounted(known) == known = 0 => Cardinality(OpenRows) < config.open
Room(known) == known = 0 => Cardinality(OpenRows) + opened < config.open

\* max_position_value caps the position, and with it every order, a closing
\* one too.
\* In the variant only the order is capped.
SizedAlone(known) == Least(Lot, Shares)
Sized(known) == Least(Lot, Shares - Magnitude(known))

\* What is not a BUY is sold.
Ordered(side) == IF side = "BUY" THEN "BUY" ELSE "SELL"

\* _process_signal up to the order, with what it found of the position.
Decide(g, known) ==
    /\ pc = "trading" /\ g \in signals
    /\ DirectionAllows(Intent(g.side, known))
    /\ Room(known)
    /\ Sized(known) > 0
    /\ signals' = signals \ {g}
    /\ order' = OrderFor(g.symbol, Ordered(g.side), Sized(known), FALSE)
    /\ pc' = "placing"
    /\ UNCHANGED <<config, row, held, session, opened, placed, exited>>

Admit(g) == Decide(g, row[g.symbol]) /\ UNCHANGED count

\* A failed read of the position passes for no position.
AdmitBlind(g) ==
    /\ faults < MaxFaults /\ faults' = faults + 1
    /\ blind' = blind + 1
    /\ row[g.symbol] # 0
    /\ Decide(g, 0)

\* The guards above, or funds, safety limits and the entry cut-off.
Refuse(g) ==
    /\ pc = "trading" /\ g \in signals
    /\ signals' = signals \ {g}
    /\ UNCHANGED <<config, row, held, pc, session, order, opened, placed, exited, count>>

\* PaperBroker.place_order: shares are sold only when the broker holds them
\* and the request's session sees them.  The funds are written in that session.
Fill ==
    LET s == order.symbol
    IN  /\ pc = "placing" /\ ~broken
        /\ order.side = "BUY" => held[s] + order.qty <= MaxHeld
        /\ order.side = "SELL" => held[s] >= order.qty /\ Seen(s) >= order.qty
        /\ held' = [held EXCEPT ![s] = IF order.side = "BUY" THEN @ + order.qty
                                       ELSE @ - order.qty]
        /\ funds' = TRUE
        /\ opened' = opened + 1
        /\ placed' = Append(placed, order)
        /\ order' = NoOrder
        /\ pc' = "trading"
        /\ UNCHANGED <<config, row, writes, broken, signals, exited, count>>

Reject ==
    /\ pc = "placing" /\ pc' = "trading"
    /\ order' = NoOrder
    /\ UNCHANGED <<config, row, held, session, signals, opened, placed, exited, count>>

-----------------------------------------------------------------------------
(* _persist_execution books every filled order of the result, exits included *)

\* open_position refuses a side the strategy does not trade.
\* In the variant it relies on the direction guard of the executor.
MayOpenAny(side) == TRUE
MayOpen(side) == side = "SELL" => Direction = "BOTH"

\* process_order_fill: an order against the position closes at most all of it.
Book(rows, o) ==
    LET q == rows[o.symbol]
    IN  [rows EXCEPT ![o.symbol] =
            IF o.side = "BUY" /\ q < 0 THEN q + Least(o.qty, -q)
            ELSE IF o.side = "SELL" /\ q > 0 THEN q - Least(o.qty, q)
            ELSE IF q = 0 /\ ~MayOpen(o.side) THEN q
            ELSE IF o.side = "BUY" THEN q + o.qty
            ELSE q - o.qty]

\* The rows after the first n orders.
After[n \in 0..Len(placed)] == IF n = 0 THEN row ELSE Book(After[n - 1], placed[n])

\* Some order's write has to wait for the request's session.
MustWait ==
    \E n \in DOMAIN placed :
        /\ After[n] # After[n - 1]
        /\ funds \/ placed[n].symbol \in DOMAIN writes

Persist ==
    /\ pc = "trading" /\ signals = {} /\ ~MustWait
    /\ row' = After[Len(placed)]
    /\ pc' = "done"
    /\ UNCHANGED <<config, held, session, result, count>>

\* The statement times out, and the whole of the result is lost with it.
\* In the variant statements have no timeout and it waits on.
PersistWaits == pc = "trading" /\ signals = {} /\ MustWait /\ UNCHANGED vars
PersistTimesOut ==
    /\ pc = "trading" /\ signals = {} /\ MustWait
    /\ pc' = "done"
    /\ UNCHANGED <<config, row, held, session, result, count>>

\* The request's session gives back what it held.
LettingGo == writes' = NoWrites /\ funds' = FALSE /\ broken' = FALSE

Forget ==
    /\ pc' = "idle" /\ LettingGo
    /\ signals' = {} /\ order' = NoOrder /\ opened' = 0
    /\ placed' = <<>> /\ exited' = {}

\* The commit after the turn.
Commit ==
    /\ pc = "done" /\ Forget
    /\ row' = [s \in Symbols |-> View(s)]
    /\ UNCHANGED <<config, held, count>>

Advance ==
    \/ Analyze \/ CheckExits
    \/ \E g \in signals : Admit(g) \/ Refuse(g)
    \/ Fill \/ Reject \/ Persist \/ PersistTimesOut \/ Commit

-----------------------------------------------------------------------------
(* What happens meanwhile *)

\* The connection of the request's session is dropped, as the comments on long
\* data fetches expect.  The server rolls back and unlocks.
LoseConnection ==
    /\ faults < MaxFaults /\ faults' = faults + 1
    /\ pc # "idle"
    /\ writes' = NoWrites /\ funds' = FALSE /\ broken' = TRUE
    /\ UNCHANGED <<config, row, held, pc, result, blind>>

\* The engine restarts: the paper broker's holdings were in its memory.
Restart ==
    /\ faults < MaxFaults /\ faults' = faults + 1
    /\ Forget
    /\ held' = [s \in Symbols |-> 0]
    /\ UNCHANGED <<config, row, blind>>

\* A stop monitor or a user reduces a position in a session of its own, which
\* recalculates the funds as well and so waits for the request's session.
CloseElsewhere ==
    /\ Others /\ ~funds
    /\ \E s \in OpenRows \ DOMAIN writes : \E left \in Leaves(row[s]) \ {row[s]} :
          /\ row' = [row EXCEPT ![s] = left]
          /\ exited' = {x \in exited : x.symbol # s}
    /\ UNCHANGED <<config, held, pc, session, signals, order, opened, placed, count>>

Next ==
    \/ Start \/ Advance
    \/ \E g \in signals : AdmitBlind(g)
    \/ LoseConnection \/ Restart \/ CloseElsewhere

Spec == Init /\ [][Next]_vars

\* A turn that began goes on: the request is served whether or not anyone
\* still waits for its answer.  Nothing else has to happen.
FairSpec == Spec /\ WF_vars(Advance)

-----------------------------------------------------------------------------
(* Properties *)

Orders == [symbol : Symbols, side : {"BUY", "SELL"}, qty : Nat, exit : BOOLEAN]

\* Types; and between turns the request's session holds nothing (get_db).
TypeOK ==
    /\ config \in Configs /\ row \in [Symbols -> Int] /\ held \in [Symbols -> Nat]
    /\ pc \in {"idle", "analyzing", "checking", "trading", "placing", "done"}
    /\ DOMAIN writes \subseteq Symbols /\ \A s \in DOMAIN writes : writes[s] \in Int
    /\ funds \in BOOLEAN /\ broken \in BOOLEAN
    /\ signals \subseteq Signals /\ order \in Orders \cup {NoOrder}
    /\ opened \in 0..Len(placed) /\ placed \in Seq(Orders)
    /\ exited \subseteq [symbol : Symbols, left : Int]
    /\ faults \in 0..MaxFaults /\ blind \in 0..faults
    /\ pc = "idle" => writes = NoWrites /\ ~funds /\ ~broken /\ placed = <<>>

\* A strategy that only buys never has more open positions than
\* max_open_positions, though every signal of a cycle counts the rows before
\* any of the cycle's orders is booked, and others close positions meanwhile
\* (_process_signal).  One that also sells short may: an exit booked a second
\* time opens a position that nothing counted.
WithinMaxOpen == Direction = "LONG" => Cardinality(OpenRows) <= config.open

\* A position of such a strategy outgrows max_position_value by no more than a
\* lot for each read of it that failed (_cap_qty_by_max_position_value).
WithinCap ==
    Direction = "LONG" => \A s \in Symbols : row[s] <= Shares + blind * Lot

\* A strategy that only buys never has a short position, though its exits are
\* booked a second time and positions it sells are closed by others
\* (DirectionViolationError).
LongOnlyStaysLong == Direction = "LONG" => \A s \in Symbols : row[s] >= 0

\* No position of a strategy that only buys grows in an exit-only symbol (the
\* filter of execute).  Of others a short one may, as selling is let through.
ExitOnlyNeverGrows == [][Direction = "LONG" => \A s \in ExitOnly : row'[s] <= row[s]]_row

\* A turn ends, although what it persists may wait for locks that only its own
\* end releases (statement_timeout).
EveryTurnEnds == pc # "idle" ~> pc = "idle"

\* "tracks positions with P&L calculation" (the comment on _persist_execution):
\* when the turn is over and nothing failed, shares bought by the only order on
\* a symbol are in its row.  They are not: the fill locked the funds.
FillsAreTracked ==
    pc = "done" /\ faults = 0 =>
        \A n \in DOMAIN placed :
            placed[n].side = "BUY"
                /\ (\A m \in DOMAIN placed : placed[m].symbol = placed[n].symbol => m = n)
            => row[placed[n].symbol] >= placed[n].qty

\* "HOLD (neutral zone to reduce churn)" (vwap_momentum): no order is made of a
\* signal to hold.  One is: whatever is not a BUY is sold.
HoldTradesNothing ==
    [][order' # order /\ order' # NoOrder =>
          \A g \in signals : g.symbol = order'.symbol => g.side # "HOLD"]_order

\* "Should have triggered partial exit ... 25% of 100 = 25 shares" (a test of
\* the booking rules): where the broker filled nothing, a position is as the
\* exit left it.  It is not: the exit's order is booked once more.
ExitAppliedOnce ==
    pc = "done" =>
        \A x \in exited :
            (\A n \in DOMAIN placed : placed[n].symbol = x.symbol => placed[n].exit)
            => row[x.symbol] = x.left

=============================================================================
