------------------------------ MODULE Guardrail ------------------------------
(***************************************************************************)
(* What closes a user's algo positions in bulk, and the funds that follow. *)
(*                                                                         *)
(* Four requests write the same rows, each in one database session:        *)
(* "monitor"    check_stop_monitors: the portfolio guardrail, which may    *)
(*              set the kill switch, stop the strategies and square off,   *)
(*              else the exits of each active strategy;                    *)
(* "squareoff"  square_off_intraday_positions, before the market closes;   *)
(* "estop"      emergency_stop of the backend;                             *)
(* "turn"       a strategy's execution that opens a position.              *)
(* Each recalculates the user's funds from all of the user's rows.         *)
(*                                                                         *)
(* A row that was written is locked until its session commits; a second    *)
(* writer waits and then puts its own columns over the first one's.  Sums  *)
(* are taken of what is committed and of the session's own writes.         *)
(*                                                                         *)
(* There is one user, and one long position per strategy, which opens at   *)
(* most once.  All have the same price, given as what a share has gained   *)
(* over its entry.                                                         *)
(***************************************************************************)
EXTENDS Integers, FiniteSets, Functions

CONSTANTS
    Strategies,
    Intraday,    \* those that trade INTRADAY; the others DELIVERY
    Lot,         \* shares of a new position
    Gains,       \* bound: what a share may have gained, negative for a loss
    StopAt,      \* the loss of a share at which its stop is hit
    BookAt,      \* the gain of a share at which half of the position is sold
    Starting,    \* starting_balance
    Guards,      \* bound: the user's portfolio_safety_config
    Cases,       \* bound: the requests that may be under way together
    MaxFaults    \* bound: failed requests, missing quotes, and what the user does

ASSUME Sizes == {Lot, StopAt, BookAt, Starting} \subseteq Nat \ {0} /\ MaxFaults \in Nat
ASSUME Universe ==
    /\ IsFiniteSet(Strategies) /\ Intraday \subseteq Strategies /\ Gains \subseteq Int
    /\ Cases \subseteq SUBSET {"monitor", "squareoff", "estop", "turn"}
    /\ Guards \subseteq [kind : {"PERCENT", "AMOUNT"}, value : Nat \ {0}, squares : BOOLEAN]

VARIABLES
    row,       \* strategy -> its committed row of algo_positions
    funds,     \* the committed row of user_funds
    active,    \* strategies with status ACTIVE
    killed,    \* the user's kill switch, in Redis
    gain,      \* what a share has gained at the present price
    guard,     \* the user's portfolio_safety_config
    request,   \* request -> where it is, what it has loaded and in hand
    session,   \* request -> what it wrote and has not committed
    mixed,     \* history: whether sums missed what another session had closed
    faults     \* how many of them there were

db == <<row, funds, active>>
world == <<gain, guard>>
history == <<mixed, faults>>
vars == <<db, killed, world, request, session, history>>

NoRow == [status |-> "NONE", left |-> 0, realized |-> 0, today |-> FALSE]
NewRow == [NoRow EXCEPT !.status = "OPEN", !.left = Lot]
IsOpen(r) == r.status \in {"OPEN", "PARTIAL"}

\* What a share blocks, in quarters of its entry price.
Rate(s) == IF s \in Intraday THEN 1 ELSE 4

\* close_position on the row as it was loaded.
Closing(r, q, g) ==
    [status |-> IF r.left <= q THEN "CLOSED" ELSE "PARTIAL",
     left |-> IF r.left <= q THEN 0 ELSE r.left - q,
     realized |-> r.realized + g * (IF r.left <= q THEN r.left ELSE q),
     today |-> TRUE]

\* An UPDATE sets the columns that changed since they were loaded.
Updated(stored, loaded, new) ==
    [f \in DOMAIN new |-> IF new[f] # loaded[f] THEN new[f] ELSE stored[f]]

NoWrites == [rows |-> [s \in {} |-> NoRow], funds |-> {}, stopped |-> {}]
View(r) == [s \in Strategies |-> IF s \in DOMAIN session[r].rows THEN session[r].rows[s] ELSE row[s]]
FundsSeen(r) == IF session[r].funds = {} THEN funds ELSE CHOOSE f \in session[r].funds : TRUE

\* recalculate_funds: what the rows say.
Blocks(s, r) == IF IsOpen(r) THEN Rate(s) * r.left ELSE 0
Gained(r) == IF r.status \in {"CLOSED", "PARTIAL"} THEN r.realized ELSE 0
\* In the variant partly closed rows are left out.
DerivedOpen(rows) ==
    [margin |-> SumFunction([s \in Strategies |->
                                IF rows[s].status = "OPEN" THEN Blocks(s, rows[s]) ELSE 0]),
     realized |-> SumFunction([s \in Strategies |-> Gained(rows[s])]),
     daily |-> SumFunction([s \in Strategies |-> IF rows[s].today THEN Gained(rows[s]) ELSE 0])]
Derived(rows) ==
    [margin |-> SumFunction([s \in Strategies |-> Blocks(s, rows[s])]),
     realized |-> SumFunction([s \in Strategies |-> Gained(rows[s])]),
     daily |-> SumFunction([s \in Strategies |-> IF rows[s].today THEN Gained(rows[s]) ELSE 0])]

Unrealized(rows) ==
    SumFunction([s \in Strategies |-> IF IsOpen(rows[s]) THEN gain * rows[s].left ELSE 0])

None == "none"
Empty == Derived([s \in Strategies |-> NoRow])
Idle == [pc |-> "idle", todo |-> {}, aim |-> {}, held |-> [s \in Strategies |-> NoRow],
         cur |-> None, qty |-> 0, gained |-> 0, sums |-> Empty, read |-> Empty]
\* The rows a square-off sets out to close, as it read them.
Closes(r) == request[r].aim # {}
Holding(S) == [s \in Strategies |-> IF s \in S THEN row[s] ELSE NoRow]
At(r, place) == r \in DOMAIN request /\ request[r].pc = place
Goto(r, place) == request' = [request EXCEPT ![r].pc = place]
Done(r) == /\ request' = [request EXCEPT ![r] = Idle]
           /\ session' = [session EXCEPT ![r] = NoWrites]

Init ==
    /\ row \in [Strategies -> {NoRow, NewRow}] /\ funds = Derived(row)
    /\ active = Strategies /\ killed = FALSE
    /\ gain = 0 /\ guard \in Guards
    /\ \E case \in Cases : /\ request = [r \in case |-> Idle]
                           /\ session = [r \in case |-> NoWrites]
    /\ mixed = FALSE /\ faults = 0

-----------------------------------------------------------------------------
(* What every session does *)

\* Whoever else wrote a row, or the funds, has it locked.
RowFree(r, s) == \A q \in DOMAIN session \ {r} : s \notin DOMAIN session[q].rows
FundsFree(r) == \A q \in DOMAIN session \ {r} : session[q].funds = {}
With(rows, s, new) == [x \in DOMAIN rows \cup {s} |-> IF x = s THEN new ELSE rows[x]]
RowWrite(r, s, new) == session' = [session EXCEPT ![r].rows = With(@, s, new)]

\* The next of the rows a square-off found open, if it still is; the price is
\* the one fetched at its start, or the entry price.
\* In the variant a partly closed row is passed over.
StillWhole(r, s) == View(r)[s].status = "OPEN"
StillOpen(r, s) == IsOpen(View(r)[s])

Take(r) ==
    /\ At(r, "closing")
    /\ \E s \in request[r].todo :
          request' = [request EXCEPT ![r] =
              IF StillOpen(r, s)
              THEN [request[r] EXCEPT !.pc = "writing", !.todo = @ \ {s}, !.cur = s,
                                      !.qty = Lot, !.gained = gain]
              ELSE [request[r] EXCEPT !.todo = @ \ {s}]]
    /\ UNCHANGED <<db, killed, world, session, history>>

\* The guardrail's square-off recalculates the funds once, at its end.
AfterWrite(r) == IF r = "monitor" /\ Closes(r) THEN "closing" ELSE "summing"

Write(r) ==
    LET s   == request[r].cur
        new == IF r = "turn" THEN NewRow
               ELSE Closing(request[r].held[s], request[r].qty, request[r].gained)
    IN  /\ At(r, "writing") /\ RowFree(r, s)
        /\ RowWrite(r, s, Updated(View(r)[s], request[r].held[s], new))
        /\ request' = [request EXCEPT ![r].pc = AfterWrite(r), ![r].cur = None, ![r].qty = 0,
                                      ![r].gained = 0, ![r].held[s] = NoRow]
        /\ UNCHANGED <<db, killed, world, history>>

\* The sums of recalculate_funds, and the funds they are compared with.
SumUp(r) ==
    /\ \/ At(r, "summing")
       \/ At(r, "closing") /\ request[r].todo = {} /\ AfterWrite(r) = "closing"
    /\ request' = [request EXCEPT ![r].pc = "funding", ![r].sums = Derived(View(r)),
                                  ![r].read = FundsSeen(r)]
    /\ mixed' = (mixed \/ \E q \in DOMAIN session \ {r} : DOMAIN session[q].rows # {})
    /\ UNCHANGED <<db, killed, world, session, faults>>

AfterFunds(r) ==
    IF r = "turn" \/ (Closes(r) /\ request[r].todo = {}) THEN "committing"
    ELSE IF Closes(r) THEN "closing" ELSE "checking"

WriteFunds(r) ==
    LET same == request[r].sums = request[r].read
    IN  /\ At(r, "funding") /\ (same \/ FundsFree(r))
        /\ session' = IF same THEN session
                      ELSE [session EXCEPT ![r].funds =
                              {Updated(FundsSeen(r), request[r].read, request[r].sums)}]
        /\ request' = [request EXCEPT ![r].pc = AfterFunds(r), ![r].sums = Empty,
                                      ![r].read = Empty]
        /\ UNCHANGED <<db, killed, world, history>>

Commit(r) ==
    /\ \/ At(r, "committing")
       \/ At(r, "checking") /\ request[r].todo = {}
       \/ At(r, "closing") /\ request[r].todo = {} /\ AfterWrite(r) # "closing"
    /\ row' = View(r) /\ funds' = FundsSeen(r)
    /\ active' = active \ session[r].stopped
    /\ Done(r)
    /\ UNCHANGED <<killed, world, history>>

\* A statement fails.  The errors are caught one by one, but the session is
\* of no more use, and is rolled back in the end.
Fail(r) ==
    /\ faults < MaxFaults /\ faults' = faults + 1
    /\ ~At(r, "idle") /\ Done(r)
    /\ UNCHANGED <<db, killed, world, mixed>>

\* Two sessions wait for each other's rows: the database fails one of them.
WaitsFor(r, q) ==
    \/ At(r, "writing") /\ request[r].cur \in DOMAIN session[q].rows
    \/ At(r, "funding") /\ request[r].sums # request[r].read /\ session[q].funds # {}

Deadlock(r) ==
    /\ \E q \in DOMAIN request \ {r} : WaitsFor(r, q) /\ WaitsFor(q, r)
    /\ Done(r)
    /\ UNCHANGED <<db, killed, world, history>>

-----------------------------------------------------------------------------
(* check_stop_monitors *)

\* Only active strategies are looked at: without one, nothing is.
Begin(r) ==
    /\ At(r, "idle") /\ active # {}
    /\ request' = [request EXCEPT ![r].pc = "judging", ![r].todo = active]
    /\ UNCHANGED <<db, killed, world, session, history>>

\* _evaluate_portfolio_safety.  daily_start_value is the present value: the
\* task that would set it at 9:15 fails, as its route reads a setting that
\* does not exist.
Breached(daily, open, value) ==
    /\ daily + open < 0
    /\ IF guard.kind = "AMOUNT" THEN -(daily + open) >= guard.value
       ELSE value > 0 /\ -(daily + open) * 100 >= guard.value * value

PresentValue == Starting + funds.realized + funds.margin
\* In the variant the losses of open positions are left out.
BreachRealized == Breached(funds.daily, 0, PresentValue)
Breach == Breached(funds.daily, Unrealized(row), PresentValue)

\* Where the switch is on already, the strategies are passed over.
Judge(r) ==
    /\ At(r, "judging")
    /\ \/ ~Breach /\ Goto(r, "checking") /\ UNCHANGED <<killed, session>>
       \/ Breach /\ killed /\ Done(r) /\ UNCHANGED killed
       \/ Breach /\ ~killed /\ killed' = TRUE /\ Goto(r, "stopping") /\ UNCHANGED session
    /\ UNCHANGED <<db, world, history>>

\* The strategies are stopped, and what is open is read.
OpenRows == {s \in Strategies : IsOpen(row[s])}
StopAll(r, squares) ==
    /\ session' = [session EXCEPT ![r].stopped = active]
    /\ request' = [request EXCEPT ![r] =
          IF squares /\ OpenRows # {}
          THEN [request[r] EXCEPT !.pc = "closing", !.todo = OpenRows, !.aim = OpenRows,
                                  !.held = Holding(OpenRows)]
          ELSE [request[r] EXCEPT !.pc = "committing", !.todo = {}]]

Stop(r) ==
    /\ At(r, "stopping") /\ StopAll(r, guard.squares)
    /\ UNCHANGED <<db, killed, world, history>>

\* What the exit rules sell of a position at its present price.
ExitOf(r, g) ==
    IF ~IsOpen(r) THEN 0
    ELSE IF g <= -StopAt THEN r.left
    ELSE IF g >= BookAt /\ r.status = "OPEN" THEN r.left \div 2
    ELSE 0

Look(r) ==
    /\ At(r, "checking")
    /\ \E s \in request[r].todo :
          LET seen == View(r)[s]
              q    == ExitOf(seen, gain)
          IN  request' = [request EXCEPT ![r] =
                  IF q = 0 THEN [request[r] EXCEPT !.todo = @ \ {s}]
                  ELSE [request[r] EXCEPT !.pc = "writing", !.todo = @ \ {s}, !.cur = s,
                                          !.qty = q, !.gained = gain, !.held[s] = seen]]
    /\ UNCHANGED <<db, killed, world, session, history>>

-----------------------------------------------------------------------------
(* The other requests *)

\* square_off_intraday_positions: rows without a price are left, all of them
\* when a quote raises.
SquareOff(r) ==
    /\ At(r, "idle")
    /\ \E priced \in SUBSET (OpenRows \cap Intraday) :
          /\ priced # {}
          /\ IF priced = OpenRows \cap Intraday THEN UNCHANGED faults
             ELSE faults < MaxFaults /\ faults' = faults + 1
          /\ request' = [request EXCEPT ![r].pc = "closing", ![r].todo = priced,
                                        ![r].aim = priced, ![r].held = Holding(priced)]
    /\ UNCHANGED <<db, killed, world, session, mixed>>

\* emergency_stop, which may be asked to square off.
EmergencyStop(r) ==
    /\ faults < MaxFaults /\ faults' = faults + 1
    /\ At(r, "idle") /\ killed' = TRUE
    /\ \E squares \in BOOLEAN : StopAll(r, squares)
    /\ UNCHANGED <<db, world, mixed>>

\* A turn looks at the kill switch before it trades.
Turn(r) ==
    /\ At(r, "idle") /\ ~killed
    /\ \E s \in active :
          /\ row[s] = NoRow
          /\ request' = [request EXCEPT ![r].pc = "writing", ![r].cur = s]
    /\ UNCHANGED <<db, killed, world, session, history>>

\* The user clears the kill switch and enables the strategies.
Resume ==
    /\ faults < MaxFaults /\ faults' = faults + 1
    /\ killed' = FALSE /\ active' = Strategies
    /\ UNCHANGED <<row, funds, world, request, session, mixed>>

Market ==
    /\ gain' \in Gains
    /\ UNCHANGED <<db, killed, guard, request, session, history>>

\* Midnight, with no request under way.
Midnight ==
    /\ \A r \in DOMAIN request : request[r] = Idle
    /\ row' = [s \in Strategies |-> [row[s] EXCEPT !.today = FALSE]]
    /\ UNCHANGED <<funds, active, killed, world, request, session, history>>

Step(r) ==
    \/ r = "monitor" /\ (Begin(r) \/ Judge(r) \/ Stop(r) \/ Look(r))
    \/ Take(r) \/ Write(r) \/ SumUp(r) \/ WriteFunds(r) \/ Commit(r) \/ Deadlock(r)

Next ==
    \/ \E r \in DOMAIN request : Step(r) \/ Fail(r)
    \/ \E r \in DOMAIN request \cap {"squareoff"} : SquareOff(r)
    \/ \E r \in DOMAIN request \cap {"estop"} : EmergencyStop(r)
    \/ \E r \in DOMAIN request \cap {"turn"} : Turn(r)
    \/ Resume \/ Market \/ Midnight

Spec == Init /\ [][Next]_vars

\* Requests under way go on, and the monitors come round every minute; who has
\* waited for a row gets it before a later request does.  The other requests
\* need not be made.
Fairness ==
    /\ SF_vars("monitor" \in DOMAIN request /\ Step("monitor"))
    /\ \A r \in {"squareoff", "estop", "turn"} :
          WF_vars(r \in DOMAIN request /\ Step(r))

FairSpec == Spec /\ Fairness

-----------------------------------------------------------------------------
(* Properties *)

\* Types; and whatever sessions write over each other, a row never holds less
\* than nothing and the kept sums are those of some rows (close_position).
TypeOK ==
    /\ row \in [Strategies -> [status : {"NONE", "OPEN", "PARTIAL", "CLOSED"}, left : 0..Lot,
                              realized : Int, today : BOOLEAN]]
    /\ funds \in [margin : Nat, realized : Int, daily : Int]
    /\ active \subseteq Strategies /\ killed \in BOOLEAN
    /\ gain \in Int /\ guard \in Guards
    /\ DOMAIN request \in Cases /\ DOMAIN session = DOMAIN request
    /\ \A r \in DOMAIN request :
          /\ request[r].todo \cup request[r].aim \subseteq Strategies
          /\ request[r].cur \in Strategies \cup {None}
          /\ request[r].cur # None <=> At(r, "writing")
          /\ session[r].stopped \subseteq Strategies /\ Cardinality(session[r].funds) <= 1
          /\ At(r, "idle") => request[r] = Idle /\ session[r] = NoWrites
    /\ mixed \in BOOLEAN /\ faults \in 0..MaxFaults

\* Between requests the user's funds are what the rows say, whatever failed
\* and was rolled back, unless two requests closed positions at the same time:
\* each then sums without the other's closes, and the one that waited for the
\* funds writes its own sums over the better ones (recalculate_funds).
FundsFollowRows ==
    /\ ~mixed
    /\ \A r \in DOMAIN request : request[r] = Idle
    => /\ funds.margin = SumFunction([s \in Strategies |-> Rate(s) * row[s].left])
       /\ funds.realized = SumFunction([s \in Strategies |-> row[s].realized])

\* A row a square-off finds closed when it comes to it, it passes over.  Where
\* the other square-off had closed it, and the monitors had it in hand, they may
\* put their half of it over the close.
AllThree == {"monitor", "squareoff", "estop"} \subseteq DOMAIN request
PassedOver(r, s) == AllThree /\ r # "monitor" /\ s \notin DOMAIN session[r].rows

\* A square-off that commits leaves nothing open of what it set out to close,
\* though others close and book at the same time and rows are locked - except a
\* row it passed over while the monitors and both square-offs, which no lock
\* keeps apart, were under way (square_off_intraday_positions,
\* _square_off_all_user_positions).
SquareOffIsComplete ==
    [][\A r \in DOMAIN request :
          Commit(r) => \A s \in request[r].aim : IsOpen(row'[s]) => PassedOver(r, s)]_vars

\* A breach that persists while strategies are active trips the kill switch,
\* in whatever order requests end, fail and deadlock
\* (_evaluate_portfolio_safety, check_stop_monitors).
GuardrailTrips ==
    []<>(\/ killed \/ active = {} \/ "monitor" \notin DOMAIN request
         \/ ~Breached(funds.daily, Unrealized(row), PresentValue))

\* "stop monitors must always enforce exits" (the comment in
\* check_stop_monitors): a position beyond its stop does not stay so.  It does
\* once the guardrail has tripped without squaring off.
StopsAreEnforced ==
    \A s \in Strategies :
        []<>(~IsOpen(row[s]) \/ gain > -StopAt \/ "monitor" \notin DOMAIN request)

\* "Uses DAILY P&L from day start, not cumulative" (_evaluate_portfolio_safety):
\* the kill switch is set for a loss of this day.  It is not when the sum kept
\* of the day is yesterday's.
TripsOnTodaysLoss ==
    [][At("monitor", "judging") /\ request'["monitor"].pc = "stopping" =>
          Breached(Derived(row).daily, Unrealized(row), PresentValue)]_vars

=============================================================================
