------------------------------ MODULE OrderDesk ------------------------------
(***************************************************************************)
(* The order service of the backend (TradingService, its router and its    *)
(* validator) with the paper broker and the funds provider it trades       *)
(* through: manual and template orders, after-market orders (AMO) and      *)
(* cancellations of one user in one symbol.                                *)
(*                                                                         *)
(* A request has a database session of its own and works on the objects    *)
(* that session loaded first: SQLAlchemy does not refresh them, so a       *)
(* balance or a position read before a wait is written back as it was.     *)
(* What a session flushes holds the row until it ends, and is visible to   *)
(* the others only then.  The broker is one object of the process: its     *)
(* holdings change at once, are not rolled back, and are gone after a      *)
(* restart, and it settles a fill in the session of the request that came  *)
(* to it last, whoever that is.                                            *)
(***************************************************************************)
EXTENDS TradeFunds, FiniteSets

\* The session of a request that has ended, which the broker's provider still
\* has: a statement begins a transaction in it that nobody will end.
Closed == "closed"

CONSTANTS
    Requests,       \* requests that may be served at the same time
    MaxOrders,      \* bound: orders a user makes
    Quantities,     \* quantities an order may have: whole, which int() leaves as they are
    Choices,        \* products a user chooses from
    Prices,         \* market prices, as the data provider quotes them
    PaperPrice,     \* what the paper broker fills at: the backend sets no price fetcher
    Balances,       \* opening balances
    MaxFaults       \* bound: failed quotes, failed commits and restarts

ASSUME DeskAssumption ==
    /\ MaxOrders \in Nat /\ MaxFaults \in Nat /\ Closed \notin Requests
    /\ Quantities \subseteq Nat \ {0} /\ Choices \subseteq Products
    /\ Prices \subseteq Nat \ {0} /\ PaperPrice \in Nat \ {0}
    /\ Balances \subseteq Nat

VARIABLES
    order,      \* committed rows of orders, by number
    funds,      \* committed row of user_funds
    position,   \* committed row of positions, or NoPosition
    holding,    \* shares the broker has in memory
    provider,   \* the session the broker's funds provider is bound to
    market,     \* whether the market is open, and the price
    session,    \* session[r]: what request r is doing
    made,       \* numbers given to orders
    faults      \* faults so far

vars == <<order, funds, position, holding, provider, market, session, made, faults>>

Ids == 1..MaxOrders
Statuses == {"PENDING", "AMO_PENDING", "FILLED", "CANCELLED", "REJECTED"}

\* trades counts the trade rows of the order; in a session, those it adds
NoOrder == [status |-> "none", side |-> "BUY", kind |-> "MARKET", qty |-> 0,
            product |-> "DELIVERY", trades |-> 0]
Orders == [status: Statuses, side: Sides, kind: {"MARKET", "LIMIT"},
           qty: Quantities, product: Products, trades: Nat] \cup {NoOrder}

\* id tells a row from one made later for the same symbol
NoPosition == [qty |-> 0, cost |-> 0, id |-> 0]
Unread == [qty |-> 0, cost |-> 0, id |-> -1]

Sessions == Requests \cup {Closed}

\* mine and pos are the session's funds and position objects, once loaded;
\* ownsFunds and ownsPos say that it has flushed them, wrote what it has
\* flushed of orders; bound, that the request has given its provider to the
\* broker, held, the quantity the broker has read, and guest, that the fill of
\* another request was settled here.
Idle == [step |-> "idle", task |-> "none", id |-> 0, todo |-> {}, rejected |-> FALSE,
         bound |-> FALSE, held |-> 0, guest |-> FALSE,
         loaded |-> FALSE, mine |-> [cash |-> 0, margin |-> 0], ownsFunds |-> FALSE,
         pos |-> Unread, ownsPos |-> FALSE, wrote |-> [o \in Ids |-> NoOrder]]

Value(o, price) == o.qty * price
Fees(value) == (value + 500) \div 1000

-----------------------------------------------------------------------------
\* What a session sees: its own writes; an object it loaded earlier, if the
\* row still exists; otherwise the row as committed.
SeenPosition(s) ==
    IF s.ownsPos THEN s.pos
    ELSE IF position # NoPosition /\ s.pos.id = position.id THEN s.pos
    ELSE position
SeenFunds(s) == IF s.loaded THEN s.mine ELSE funds

OrderFree(r, o) == \A q \in Sessions \ {r} : session[q].wrote[o] = NoOrder
FundsFree(r) == \A q \in Sessions \ {r} : ~session[q].ownsFunds
PositionFree(r) == \A q \in Sessions \ {r} : ~session[q].ownsPos

\* In the variant every product may be sold short.
BookedShort(p, side, q, price, product, id) ==
    LET n == IF side = "BUY" THEN p.qty + q ELSE p.qty - q
    IN  IF n = 0 THEN NoPosition
        ELSE [qty |-> n, cost |-> IF n > 0 THEN p.cost ELSE price, id |-> id]

\* _update_position_after_trade and update_position: the row after a trade
Booked(p, side, q, price, product, id) ==
    LET n == IF side = "BUY" THEN p.qty + q ELSE p.qty - q
        row(cost) == IF n = 0 THEN NoPosition ELSE [p EXCEPT !.qty = n, !.cost = cost]
        fresh == [qty |-> n, cost |-> price, id |-> id]
    IN  CASE p = NoPosition /\ side = "BUY" -> fresh
          [] p = NoPosition /\ side = "SELL" ->
                IF AllowsShort(product) THEN fresh ELSE NoPosition
          [] p # NoPosition /\ side = "BUY" /\ p.qty < 0 ->
                row(IF n > 0 THEN price ELSE p.cost)
          [] p # NoPosition /\ side = "BUY" /\ p.qty >= 0 ->
                row((p.qty * p.cost + q * price + n \div 2) \div n)
          [] p # NoPosition /\ side = "SELL" ->
                IF n >= 0 THEN row(p.cost)
                ELSE IF AllowsShort(product) THEN row(price)
                ELSE NoPosition

-----------------------------------------------------------------------------
Init ==
    /\ order = [o \in Ids |-> NoOrder]
    /\ funds \in {[cash |-> b, margin |-> 0] : b \in Balances}
    /\ position = NoPosition
    /\ holding = 0
    /\ provider = Closed
    /\ market \in [open: BOOLEAN, price: Prices]
    /\ session = [r \in Sessions |-> Idle]
    /\ made = 0
    /\ faults = 0

\* OrderValidator.validate and validate_sell_quantity: a BUY at market needs
\* the cash at the quoted price, a SELL of any kind the shares.
Valid(o) ==
    /\ (o.side = "BUY" /\ o.kind = "MARKET") =>
            LET v == Value(o, market.price) IN Available(funds) >= v + Fees(v)
    /\ o.side = "SELL" => position.qty >= o.qty

\* create_order, called by the route or by execute_template, up to the broker.
\* The validation loads the funds or the position; an order that waits for the
\* market, or for a price, is written at once.
Create(r) ==
    /\ session[r] = Idle
    /\ made < MaxOrders
    /\ \E side \in Sides, kind \in {"MARKET", "LIMIT"}, q \in Quantities,
          product \in Choices \cup {"DELIVERY"}, amo \in BOOLEAN, task \in {"route", "template"} :
        /\ task = "template" => ~amo /\ product = "DELIVERY"
        /\ ~amo => market.open
        /\ LET o == [status |-> IF amo /\ ~market.open THEN "AMO_PENDING" ELSE "PENDING",
                     side |-> side, kind |-> kind, qty |-> q, product |-> product,
                     trades |-> 0]
               waits == o.status = "AMO_PENDING" \/ kind = "LIMIT"
           IN /\ Valid(o)
              /\ made' = made + 1
              /\ IF waits
                 THEN order' = [order EXCEPT ![made + 1] = o] /\ UNCHANGED session
                 ELSE /\ session' = [session EXCEPT ![r] =
                            [Idle EXCEPT !.step = "checked", !.task = task, !.id = made + 1,
                                         !.loaded = (side = "BUY"),
                                         !.mine = IF side = "BUY" THEN funds ELSE @,
                                         !.pos = IF side = "SELL" THEN position ELSE @,
                                         !.wrote[made + 1] = o]]
                      /\ UNCHANGED order
    /\ UNCHANGED <<funds, position, holding, provider, market, faults>>

\* process_all_amo_orders, for whoever calls its route: the waiting orders are
\* read once.  The worker's beat is not such a caller: it posts to
\* /api/v1/trading/process-amo-orders, and the router is mounted at /orders.
StartAmo(r) ==
    /\ session[r] = Idle
    /\ market.open
    /\ \E o \in Ids : order[o].status = "AMO_PENDING"
    /\ session' = [session EXCEPT ![r] = [Idle EXCEPT
            !.step = "next", !.task = "amo",
            !.todo = {o \in Ids : order[o].status = "AMO_PENDING"}]]
    /\ UNCHANGED <<order, funds, position, holding, provider, market, made, faults>>

\* An AMO order as it is executed: PENDING, whatever has happened to its row
\* since the list was read, and of no product, which orders do not keep.
Released(o) == [order[o] EXCEPT !.status = "PENDING", !.product = "DELIVERY", !.trades = 0]

Working(s) == IF s.task = "amo" THEN Released(s.id) ELSE s.wrote[s.id]

\* process_amo_order for the oldest order left: only a market order goes to the
\* broker, a limit order is left PENDING.
NextAmo(r) ==
    LET s == session[r]
        o == CHOOSE x \in s.todo : \A y \in s.todo : x <= y
        taken == [s EXCEPT !.id = o, !.todo = @ \ {o}]
    IN
    /\ s.step = "next"
    /\ \/ /\ s.todo = {}
          /\ session' = [session EXCEPT ![r].step = "written"]
       \/ /\ s.todo # {} /\ order[o].kind = "MARKET"
          /\ session' = [session EXCEPT ![r] = [taken EXCEPT !.step = "checked"]]
       \/ /\ s.todo # {} /\ order[o].kind = "LIMIT"
          /\ OrderFree(r, o)
          /\ session' = [session EXCEPT ![r] = [taken EXCEPT !.wrote[o] = Released(o)]]
    /\ UNCHANGED <<order, funds, position, holding, provider, market, made, faults>>

\* The session ends; when the request has raised, get_db rolls it back.  The
\* broker keeps the provider bound to it.
Ended(r) ==
    /\ session' = [session EXCEPT ![r] = Idle]
    /\ provider' = IF provider = r THEN Closed ELSE provider

\* What _execute_via_broker raises ends the request, except that
\* process_amo_order catches it: the order is rejected and what has been
\* flushed stays.
Raised(r, o) ==
    IF session[r].task = "amo"
    THEN /\ session' = [session EXCEPT ![r] =
                [session[r] EXCEPT !.step = "next",
                                   !.wrote[session[r].id] = [o EXCEPT !.status = "REJECTED"]]]
         /\ UNCHANGED provider
    ELSE Ended(r)

\* PaperBroker.place_order up to the fill.  The first order of a request gives
\* the broker the request's provider; the one it had before goes, and with it
\* what was done in a session that had ended.  No product is handed over, so
\* that the broker takes every order for DELIVERY: a BUY needs the whole value
\* in cash, a SELL the shares in the broker's memory.  Then the provider reads
\* how much of the symbol the user has.
AtBroker(r) ==
    LET s == session[r]
        o == Working(s)
        v == Value(o, PaperPrice)
        p == IF s.bound THEN provider ELSE r
        seen == session[p]
    IN /\ s.step = "checked" /\ s.task # "cancel"
       /\ provider' = p
       /\ session' =
            [q \in Sessions |->
                LET t == IF q = Closed /\ q # p THEN Idle
                         ELSE IF q # p THEN session[q]
                         ELSE [seen EXCEPT !.loaded = TRUE, !.mine = SeenFunds(seen),
                                           !.pos = SeenPosition(seen)]
                IN  IF q # r THEN t
                    ELSE [t EXCEPT !.step = "placed", !.bound = TRUE,
                                   !.held = SeenPosition(seen).qty,
                                   !.rejected = IF o.side = "BUY"
                                                THEN v + Fees(v) > Available(SeenFunds(seen))
                                                ELSE holding < o.qty]]
       /\ UNCHANGED <<order, funds, position, holding, market, made, faults>>

\* In the variant the trade row is added only when all has gone well.
TradedLater(o) == IF o.status = "PENDING" THEN o ELSE [o EXCEPT !.trades = @ + 1]
\* A trade row is added for the order
Traded(o) == [o EXCEPT !.trades = @ + 1]

\* create_order has returned, the route executes a market order once more with
\* execute_market_order, whatever has become of it, for a second trade at the
\* quoted price; a template and an AMO order are not executed again.
Written(r, o, f, settled, p) ==
    LET s == session[r]
        again == s.task = "route"
        o2 == IF again THEN [Traded(o) EXCEPT !.status = "FILLED"] ELSE o
        p2 == IF again THEN Booked(p, o.side, o.qty, market.price, "DELIVERY", s.id) ELSE p
    IN session' = [session EXCEPT ![r] = [s EXCEPT
            !.step = IF s.task = "amo" THEN "next" ELSE "written",
            !.mine = f, !.ownsFunds = @ \/ settled,
            !.pos = p2, !.ownsPos = @ \/ settled \/ again,
            !.wrote[s.id] = o2]]

\* _execute_order: the provider of the moment settles the fill as DELIVERY in
\* its session, the broker adds it to its memory, and the call is logged, which
\* flushes the order.  Two requests at work in one session at once is an error.
Fill(r) ==
    LET s == session[r]
        o == Working(s)
        v == Value(o, PaperPrice)
        p == provider
        f == SeenFunds(session[p])
        refused == Refused(f, o.side, o.qty, v, Fees(v), "DELIVERY", s.held)
    IN
    /\ s.step = "placed" /\ ~s.rejected
    /\ OrderFree(r, s.id)
    /\ \/ /\ refused \/ p \in Requests \ {r}
          /\ Raised(r, o)
          /\ UNCHANGED holding
       \/ /\ ~refused
          /\ FundsFree(p)
          /\ holding' = IF o.side = "BUY" THEN holding + o.qty
                        ELSE IF holding > o.qty THEN holding - o.qty ELSE 0
          /\ session' =
                [q \in Sessions |->
                    LET t == IF q # p THEN session[q]
                             ELSE [session[p] EXCEPT
                                    !.loaded = TRUE, !.ownsFunds = TRUE, !.guest = @ \/ p # r,
                                    !.mine = Settled(f, o.side, o.qty, v, Fees(v), "DELIVERY",
                                                     s.held, 0)]
                    IN  IF q # r THEN t ELSE [t EXCEPT !.step = "filled", !.wrote[s.id] = o]]
          /\ UNCHANGED provider
    /\ UNCHANGED <<order, funds, position, market, made, faults>>

\* The broker has rejected the order: it is written so
Reject(r) ==
    LET s == session[r] IN
    /\ s.step = "placed" /\ s.rejected
    /\ OrderFree(r, s.id)
    /\ s.task = "route" => PositionFree(r)
    /\ Written(r, [Working(s) EXCEPT !.status = "REJECTED"], s.mine, FALSE, SeenPosition(s))
    /\ UNCHANGED <<order, funds, position, holding, provider, market, made, faults>>

\* The rest of _execute_via_broker: the service records the trade, settles it
\* again by the order's product in its own session, and books the position.
Settle(r) ==
    LET s == session[r]
        o == s.wrote[s.id]
        v == Value(o, PaperPrice)
        p == SeenPosition(s)
        f == SeenFunds(s)
    IN
    /\ s.step = "filled"
    /\ FundsFree(r) /\ PositionFree(r)
    /\ IF Refused(f, o.side, o.qty, v, Fees(v), o.product, p.qty)
       THEN Raised(r, Traded(o))
       ELSE /\ Written(r, [Traded(o) EXCEPT !.status = "FILLED"],
                       Settled(f, o.side, o.qty, v, Fees(v), o.product, p.qty, p.cost), TRUE,
                       Booked(p, o.side, o.qty, PaperPrice, o.product, s.id))
            /\ UNCHANGED provider
    /\ UNCHANGED <<order, funds, position, holding, market, made, faults>>

\* cancel_order: the row is selected by its status, and written when its lock is free
AskCancel(r) ==
    /\ session[r] = Idle
    /\ \E o \in Ids :
        /\ order[o].status \in {"PENDING", "AMO_PENDING"}
        /\ session' = [session EXCEPT ![r] =
                [Idle EXCEPT !.step = "checked", !.task = "cancel", !.id = o]]
    /\ UNCHANGED <<order, funds, position, holding, provider, market, made, faults>>

Cancel(r) ==
    LET s == session[r] IN
    /\ s.step = "checked" /\ s.task = "cancel"
    /\ OrderFree(r, s.id)
    /\ order' = [order EXCEPT ![s.id].status = "CANCELLED"]
    /\ Ended(r)
    /\ UNCHANGED <<funds, position, holding, market, made, faults>>

\* get_db commits when the handler has returned
Commit(r) ==
    LET s == session[r] IN
    /\ s.step = "written"
    /\ order' = [o \in Ids |->
            IF s.wrote[o] = NoOrder THEN order[o]
            ELSE [s.wrote[o] EXCEPT !.trades = @ + order[o].trades]]
    /\ funds' = IF s.ownsFunds THEN s.mine ELSE funds
    /\ position' = IF s.ownsPos THEN s.pos ELSE position
    /\ Ended(r)
    /\ UNCHANGED <<holding, market, made, faults>>

\* The quote of the route is missing, a query or the commit fails
Fail(r) ==
    /\ faults < MaxFaults
    /\ faults' = faults + 1
    /\ session[r] # Idle
    /\ Ended(r)
    /\ UNCHANGED <<order, funds, position, holding, market, made>>

\* The process restarts: sessions end and the broker's memory is empty
Restart ==
    /\ faults < MaxFaults
    /\ faults' = faults + 1
    /\ session' = [r \in Sessions |-> Idle]
    /\ holding' = 0
    /\ provider' = Closed
    /\ UNCHANGED <<order, funds, position, market, made>>

\* The market opens, closes and moves
Market ==
    /\ market' \in [open: BOOLEAN, price: Prices]
    /\ UNCHANGED <<order, funds, position, holding, provider, session, made, faults>>

Serve(r) ==
    \/ NextAmo(r) \/ AtBroker(r) \/ Fill(r) \/ Reject(r) \/ Settle(r)
    \/ Cancel(r) \/ Commit(r)

Next ==
    \/ \E r \in Requests :
        Create(r) \/ StartAmo(r) \/ AskCancel(r) \/ Serve(r) \/ Fail(r)
    \/ Restart
    \/ Market

Spec == Init /\ [][Next]_vars

\* The server gets on with what it has been asked for and the market opens again
\* and again.  Users need not ask for anything, and nobody else does.
FairSpec ==
    /\ Spec
    /\ \A r \in Requests : WF_vars(Serve(r))
    /\ WF_vars(Market /\ market'.open)

-----------------------------------------------------------------------------
\* Types of the rows; one session at a time has flushed the funds.
TypeOK ==
    /\ order \in [Ids -> Orders]
    /\ funds \in Funds /\ funds.margin >= 0
    /\ position \in [qty: Int, cost: Nat, id: {0} \cup Ids]
    /\ holding \in Nat
    /\ provider \in Sessions
    /\ \A r \in Sessions : session[r].ownsFunds => session[r].loaded
    /\ \A q, r \in Sessions : q # r => ~(session[q].ownsFunds /\ session[r].ownsFunds)

\* Orders need the shares they sell (validate_sell_quantity), so that no row of
\* positions is left short, whatever is sold twice, booked twice, or sold from
\* a position another request has closed since it was checked.
NeverShort == position.qty >= 0

\* As long as every order was for DELIVERY, what is bought is paid from cash
\* the user has and no margin is blocked, whatever balance a session read.
DeliveryIsPaid ==
    (\A o \in Ids : order[o].product = "DELIVERY") => funds.cash >= 0 /\ funds.margin = 0

\* No request, failed AMO orders included, leaves a change of the funds without
\* a trade row that accounts for it, unless another's fill was settled in it.
FundsMoveWithTrades ==
    [][funds' # funds => \/ \E o \in Ids : order'[o].trades > order[o].trades
                        \/ \E r \in Requests : session[r].guest]_vars

\* create_order is said to execute a market order (service.py:107), which is
\* one trade.
OneTradePerOrder == \A o \in Ids : order[o].trades <= 1

\* An AMO order is said to be executed at the next market open (router.py:63).
AmoIsReleased ==
    \A o \in Ids : order[o].status = "AMO_PENDING" ~> order[o].status # "AMO_PENDING"

=============================================================================
