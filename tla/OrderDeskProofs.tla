----------------------------- MODULE OrderDeskProofs -----------------------------
(***************************************************************************)
(* What OrderDesk guarantees for any number of requests, orders and        *)
(* prices, whatever balances and positions requests read before others     *)
(* changed them, and whichever session a fill is settled in.               *)
(***************************************************************************)
EXTENDS OrderDesk, FiniteSetTheorems, WellFoundedInduction, NaturalsInduction, TLAPS

-----------------------------------------------------------------------------
(* The inductive invariant *)

Positions == [qty : Nat, cost : Nat, id : {0} \cup Ids]
Purses == [cash : Int, margin : Nat]

Steps == {"idle", "checked", "next", "placed", "filled", "written"}
Tasks == {"none", "route", "template", "amo", "cancel"}
Works == [step : Steps, task : Tasks, id : {0} \cup Ids, todo : SUBSET Ids, rejected : BOOLEAN,
          bound : BOOLEAN, held : Nat, guest : BOOLEAN, loaded : BOOLEAN, mine : Purses,
          ownsFunds : BOOLEAN, pos : Positions \cup {Unread}, ownsPos : BOOLEAN,
          wrote : [Ids -> Orders]]

TypeInv ==
    /\ order \in [Ids -> Orders] /\ funds \in Purses /\ position \in Positions
    /\ holding \in Nat /\ provider \in Sessions
    /\ market \in [open : BOOLEAN, price : Prices]
    /\ session \in [Sessions -> Works] /\ made \in 0..MaxOrders

\* A request at work on an order, and one that makes its order.
AtWork(s) == s.step \in {"checked", "placed", "filled"}
Makes(s) == s.task \in {"route", "template"}

\* The committed order is one that was settled by another product.
Other(o) == o.product # "DELIVERY" /\ o.status = "FILLED"

\* The orders a request has read, and writes or may write.
Refers(s, o) == o \in s.todo \/ o = s.id \/ s.wrote[o] # NoOrder

\* A session has loaded the funds it has written, and the position it has.
SessionInv(s) ==
    /\ s.ownsFunds \/ s.bound => s.loaded
    /\ s.ownsPos => s.pos \in Positions
    /\ s.step \in {"placed", "filled"} => s.bound
    /\ AtWork(s) => s.id \in Ids /\ s.task # "none"
    /\ s.id \notin s.todo
    /\ s.step = "next" => s.task = "amo"
    /\ Makes(s) => s.id \in Ids
    /\ AtWork(s) /\ s.task = "cancel" => s.step = "checked"

\* What a request has written of orders: its own, or some of those it read,
\* and of another product than DELIVERY only the one its route makes.
WroteInv(s) ==
    /\ Makes(s) => /\ \A o \in Ids : s.wrote[o] # NoOrder <=> o = s.id
                   /\ s.step \in {"checked", "placed", "filled"} => s.wrote[s.id].trades = 0
                   /\ s.task = "route" /\ s.step = "written" => s.wrote[s.id].status = "FILLED"
    /\ \A o \in Ids : s.wrote[o].product # "DELIVERY" => s.task = "route" /\ o = s.id
    /\ s.task = "amo" /\ s.step = "filled" => s.wrote[s.id] # NoOrder
    /\ s.task \in {"none", "cancel"} => \A o \in Ids : s.wrote[o] = NoOrder

\* An order is made by one request and others know of it when it is committed,
\* and no request that has read orders has read one that is settled by
\* another product.
OrdersInv ==
    /\ \A o \in Ids : order[o] # NoOrder => o <= made
    /\ \A r \in Sessions : Makes(session[r]) =>
          /\ session[r].id <= made /\ order[session[r].id] = NoOrder
          /\ \A q \in Sessions \ {r} : Makes(session[q]) => session[q].id # session[r].id
    /\ \A r \in Sessions : session[r].task \in {"amo", "cancel"} =>
          \A o \in Ids : Refers(session[r], o) => order[o] # NoOrder /\ ~Other(order[o])

\* Unless an order was settled by another product, or a request has just done
\* so, all funds are cash.
Clean(f) == f.cash >= 0 /\ f.margin = 0
AnyOther == \E o \in Ids : Other(order[o])
Spoilt(s) == s.task = "route" /\ s.step = "written" /\ s.wrote[s.id].product # "DELIVERY"
CleanInv ==
    ~AnyOther =>
        /\ Clean(funds)
        /\ \A r \in Sessions : session[r].loaded /\ ~Spoilt(session[r]) => Clean(session[r].mine)

\* One session at a time has flushed the funds.
OwnerInv == \A q, r \in Sessions : session[q].ownsFunds /\ session[r].ownsFunds => q = r

\* A request that has flushed the funds has a trade to show for it.
Shows(s) ==
    \/ s.step = "filled"
    \/ \E o \in Ids : /\ s.wrote[o].trades > 0 /\ o \notin s.todo
                      /\ s.step \in {"checked", "placed"} => o # s.id
TradesInv == \A r \in Requests : session[r].ownsFunds /\ ~session[r].guest => Shows(session[r])

Private(s) == SessionInv(s) /\ WroteInv(s)

IInv ==
    /\ TypeInv
    /\ \A r \in Sessions : Private(session[r])
    /\ OrdersInv /\ CleanInv /\ OwnerInv /\ TradesInv

-----------------------------------------------------------------------------
(* Orders *)

\* A made order stays one when its status or its count of trades changes.
LEMMA OrderChanges ==
    ASSUME NEW o \in Orders, o # NoOrder, NEW st \in Statuses, NEW n \in Nat
    PROVE  /\ [o EXCEPT !.status = st] \in Orders \ {NoOrder}
           /\ [o EXCEPT !.trades = n] \in Orders \ {NoOrder}
           /\ [o EXCEPT !.status = st].product = o.product
           /\ [o EXCEPT !.status = st].trades = o.trades
           /\ [o EXCEPT !.status = st].status = st
           /\ [o EXCEPT !.trades = n].status = o.status
           /\ [o EXCEPT !.trades = n].product = o.product
           /\ [o EXCEPT !.trades = n].trades = n
BY DEF Orders, NoOrder, Statuses

LEMMA OrderFields ==
    ASSUME NEW o \in Orders
    PROVE  /\ o.trades \in Nat /\ o.product \in Products /\ o.side \in Sides /\ o.qty \in Nat
           /\ o # NoOrder => o.status \in Statuses /\ o.qty \in Nat \ {0}
           /\ o.status \in Statuses => o # NoOrder
           /\ o = NoOrder => o.trades = 0 /\ o.product = "DELIVERY"
<1>1. CASE o = NoOrder
  BY <1>1 DEF NoOrder, Statuses, Products, Sides
<1>2. CASE o # NoOrder
  <2>1. /\ o.status \in Statuses /\ o.side \in Sides /\ o.qty \in Quantities
        /\ o.product \in Products /\ o.trades \in Nat
    BY <1>2 DEF Orders
  <2>2. o.qty \in Nat \ {0}
    BY <2>1, DeskAssumption
  <2> QED
    BY <1>2, <2>1, <2>2
<1> QED
  BY <1>1, <1>2

LEMMA TradedIsOrder ==
    ASSUME NEW o \in Orders, o # NoOrder
    PROVE  /\ Traded(o) \in Orders \ {NoOrder} /\ Traded(o).trades > 0
           /\ Traded(o).status = o.status /\ Traded(o).product = o.product
<1>1. o.trades \in Nat /\ o.trades + 1 \in Nat
  BY OrderFields
<1>2. Traded(o) = [o EXCEPT !.trades = o.trades + 1]
  BY DEF Traded
<1>3. Traded(o) \in Orders \ {NoOrder} /\ Traded(o).trades = o.trades + 1
      /\ Traded(o).status = o.status /\ Traded(o).product = o.product
  <2> DEFINE n == o.trades + 1
  <2>1. n \in Nat /\ "PENDING" \in Statuses
    BY <1>1 DEF Statuses
  <2> HIDE DEF n
  <2>2. [o EXCEPT !.trades = n] \in Orders \ {NoOrder} /\ [o EXCEPT !.trades = n].trades = n
        /\ [o EXCEPT !.trades = n].status = o.status /\ [o EXCEPT !.trades = n].product = o.product
    BY <2>1 DEF Orders, NoOrder, Statuses
  <2> QED
    BY <1>2, <2>2 DEF n
<1> QED
  BY <1>1, <1>3

\* An order that has been made is executed as a PENDING one for DELIVERY.
LEMMA ReleasedIsOrder ==
    ASSUME TypeInv, NEW o \in Ids, order[o] # NoOrder
    PROVE  /\ Released(o) \in Orders \ {NoOrder} /\ Released(o).trades = 0
           /\ Released(o).product = "DELIVERY" /\ Released(o).status = "PENDING"
<1>1. order[o] \in Orders
  BY DEF TypeInv
<1> QED
  BY <1>1 DEF Released, Orders, NoOrder, Statuses, Products

-----------------------------------------------------------------------------
(* Funds and positions *)

LEMMA ValueIsNat ==
    ASSUME NEW o \in Orders, NEW price \in Nat
    PROVE  /\ Value(o, price) \in Nat /\ Fees(Value(o, price)) \in Nat
           /\ Fees(Value(o, price)) <= Value(o, price)
<1>1. o.qty \in Nat
  BY OrderFields
<1>2. o.qty * price \in Nat
  BY <1>1
<1> DEFINE v == Value(o, price)
<1>3. v \in Nat
  BY <1>2 DEF Value
<1> HIDE DEF v
<1>4. Fees(v) \in Nat /\ Fees(v) <= v
  BY <1>3 DEF Fees
<1> QED
  BY <1>3, <1>4 DEF v

LEMMA PartIsNat ==
    ASSUME NEW v \in Nat, NEW product \in Products
    PROVE  Part(v, product) \in Nat /\ Part(v, "DELIVERY") = v
<1>1. MarginPct[product] \in Nat /\ MarginPct["DELIVERY"] = 100
  BY DEF MarginPct, Products
<1>2. v * MarginPct[product] \in Nat
  BY <1>1
<1>3. Part(v, product) \in Nat
  <2> DEFINE w == v * MarginPct[product]
  <2>1. w \in Nat
    BY <1>2
  <2> HIDE DEF w
  <2>2. (w + 50) \div 100 \in Nat
    BY <2>1
  <2> QED
    BY <2>2 DEF Part, w
<1>4. (v * 100 + 50) \div 100 = v
  OBVIOUS
<1>5. Part(v, "DELIVERY") = v
  BY <1>1, <1>4 DEF Part
<1> QED
  BY <1>3, <1>5

\* Funds stay what they are when a position is closed.
LEMMA ClosesIsPurse ==
    ASSUME NEW f \in Purses, NEW basis \in Nat, NEW gain \in Int, NEW product \in Products
    PROVE  Closes(f, basis, gain, product) \in Purses
<1>1. Part(basis, product) \in Nat /\ f.cash \in Int /\ f.margin \in Nat
  BY PartIsNat DEF Purses
<1>2. f.margin - Lesser(f.margin, Part(basis, product)) \in Nat
  BY <1>1 DEF Lesser
<1> QED
  BY <1>1, <1>2 DEF Closes, Purses

LEMMA BasisIsNat ==
    ASSUME NEW q \in Nat, NEW v \in Nat, NEW entry \in Nat
    PROVE  Basis(q, v, entry) \in Nat
<1>1. q * entry \in Nat
  OBVIOUS
<1> QED
  BY <1>1 DEF Basis

\* A trade keeps the margin from going below zero.
LEMMA SettledIsPurse ==
    ASSUME NEW f \in Purses, NEW side \in Sides, NEW q \in Nat, NEW v \in Nat, NEW fees \in Nat,
           NEW product \in Products, NEW held \in Nat, NEW entry \in Nat
    PROVE  Settled(f, side, q, v, fees, product, held, entry) \in Purses
<1> DEFINE x == Settled(f, side, q, v, fees, product, held, entry)
<1>1. f.cash \in Int /\ f.margin \in Nat /\ f.cash - v - fees \in Int /\ f.cash + v - fees \in Int
  BY DEF Purses
<1>2. [f EXCEPT !.cash = @ - v - fees] \in Purses /\ [f EXCEPT !.cash = @ + v - fees] \in Purses
  BY <1>1 DEF Purses
<1>3. Blocks(f, v, fees, product) \in Purses
  <2>1. f.margin + Part(v, product) + fees \in Nat
    BY <1>1, PartIsNat
  <2> QED
    BY <1>1, <2>1 DEF Blocks, Purses
<1>4. SellsOff(f, q, v, fees, product, entry) \in Purses
  <2>1. Basis(q, v, entry) \in Nat
    BY BasisIsNat
  <2>2. v - Basis(q, v, entry) - fees \in Int
    BY <2>1
  <2> QED
    BY <2>1, <2>2, ClosesIsPurse DEF SellsOff
<1>5. ~(held < 0)
  OBVIOUS
<1> QED
  BY <1>2, <1>3, <1>4, <1>5 DEF Settled

\* A trade for DELIVERY that is not refused is paid from cash there is.
LEMMA DeliveryStaysClean ==
    ASSUME NEW f \in Purses, Clean(f), NEW side \in Sides, NEW q \in Nat, NEW v \in Nat,
           NEW held \in Nat, NEW entry \in Nat,
           ~Refused(f, side, q, v, Fees(v), "DELIVERY", held)
    PROVE  Clean(Settled(f, side, q, v, Fees(v), "DELIVERY", held, entry))
<1>1. f.cash \in Nat /\ f.margin = 0 /\ Fees(v) \in Nat /\ Fees(v) <= v
  BY DEF Purses, Clean, Fees
<1>2. CASE side = "BUY"
  <2>1. ~AllowsShort("DELIVERY")
    BY DEF AllowsShort
  <2>2. ~(Available(f) < Part(v, "DELIVERY") + Fees(v))
    BY <1>2, <2>1 DEF Refused
  <2>3. Part(v, "DELIVERY") = v
    BY PartIsNat DEF Products
  <2>4. f.cash - v - Fees(v) >= 0
    BY <1>1, <2>2, <2>3 DEF Available
  <2>5. Settled(f, side, q, v, Fees(v), "DELIVERY", held, entry) = [f EXCEPT !.cash = @ - v - Fees(v)]
    BY <1>2 DEF Settled
  <2> QED
    BY <1>1, <2>4, <2>5 DEF Clean, Purses
<1>3. CASE side = "SELL"
  <2>1. f.cash + v - Fees(v) >= 0
    BY <1>1
  <2>2. Settled(f, side, q, v, Fees(v), "DELIVERY", held, entry) = [f EXCEPT !.cash = @ + v - Fees(v)]
    <3>1. Settled(f, "SELL", q, v, Fees(v), "DELIVERY", held, entry)
            = [f EXCEPT !.cash = @ + v - Fees(v)]
      BY DEF Settled, AllowsShort, SellsOff, Closes, Blocks, Covers
    <3> QED
      BY <1>3, <3>1
  <2> QED
    BY <1>1, <2>1, <2>2 DEF Clean, Purses
<1> QED
  BY <1>2, <1>3 DEF Sides

LEMMA RowChanges ==
    ASSUME NEW p \in Positions, NEW n \in Int, NEW c \in Nat
    PROVE  /\ [p EXCEPT !.qty = n, !.cost = c] \in [qty : Int, cost : Nat, id : {0} \cup Ids]
           /\ [p EXCEPT !.qty = n, !.cost = c].qty = n
           /\ n >= 0 => [p EXCEPT !.qty = n, !.cost = c] \in Positions
<1> DEFINE Wide == [qty : Int, cost : Nat, id : {0} \cup Ids]
<1>1. p \in Wide
  BY DEF Positions
<1>2. [p EXCEPT !.qty = n, !.cost = c] \in Wide /\ [p EXCEPT !.qty = n, !.cost = c].qty = n
  BY <1>1
<1>3. ASSUME n >= 0 PROVE [p EXCEPT !.qty = n, !.cost = c] \in Positions
  <2>1. n \in Nat
    BY <1>3
  <2> QED
    BY <2>1 DEF Positions
<1> QED
  BY <1>2, <1>3

LEMMA MeanIsNat ==
    ASSUME NEW a \in Nat, NEW b \in Nat, NEW c \in Nat, NEW d \in Nat, NEW n \in Nat \ {0}
    PROVE  (a * b + c * d + n \div 2) \div n \in Nat
<1>1. a * b \in Nat /\ c * d \in Nat
  OBVIOUS
<1> DEFINE x == a * b + c * d + n \div 2
<1>2. x \in Nat
  BY <1>1
<1> HIDE DEF x
<1>3. x \div n \in Nat
  BY <1>2
<1> QED
  BY <1>3 DEF x

\* A purchase leaves no position short.
LEMMA BookedBuy ==
    ASSUME NEW p \in Positions, NEW q \in Nat \ {0}, NEW price \in Nat, NEW product,
           NEW id \in Ids
    PROVE  Booked(p, "BUY", q, price, product, id) \in Positions
<1> DEFINE n == p.qty + q
           mean == (p.qty * p.cost + q * price + n \div 2) \div n
<1>1. p.qty \in Nat /\ p.cost \in Nat /\ n \in Nat \ {0} /\ ~(p.qty < 0)
  BY DEF Positions
<1>2. mean \in Nat
  BY <1>1, MeanIsNat
<1>3. CASE p = NoPosition
  <2>1. Booked(p, "BUY", q, price, product, id) = [qty |-> n, cost |-> price, id |-> id]
    BY <1>3 DEF Booked
  <2> QED
    BY <1>1, <2>1 DEF Positions
<1>4. CASE p # NoPosition
  <2> HIDE DEF mean
  <2>1. Booked(p, "BUY", q, price, product, id) = [p EXCEPT !.qty = n, !.cost = mean]
    BY <1>1, <1>4 DEF Booked, mean
  <2> QED
    BY <1>1, <1>2, <2>1 DEF Positions
<1> QED
  BY <1>3, <1>4

Shorts == {p \in [qty : Int, cost : Nat, id : {0} \cup Ids] : p.qty < 0}

\* Of a product that may not be sold short, no sale leaves a position short.
LEMMA BookedSell ==
    ASSUME NEW p \in Positions, NEW q \in Nat \ {0}, NEW price \in Nat, NEW product,
           NEW id \in Ids
    PROVE  /\ Booked(p, "SELL", q, price, product, id) \in Positions \cup Shorts
           /\ ~AllowsShort(product) => Booked(p, "SELL", q, price, product, id) \in Positions
<1> DEFINE n == p.qty - q
           b == Booked(p, "SELL", q, price, product, id)
<1>1. p.qty \in Nat /\ p.cost \in Nat /\ n \in Int /\ NoPosition \in Positions
  BY DEF Positions, NoPosition
<1>2. CASE p = NoPosition
  <2>1. n < 0
    BY <1>1, <1>2 DEF NoPosition
  <2>2. b = IF AllowsShort(product) THEN [qty |-> n, cost |-> price, id |-> id] ELSE NoPosition
    BY <1>2 DEF Booked
  <2>3. [qty |-> n, cost |-> price, id |-> id] \in Shorts
    BY <1>1, <2>1 DEF Shorts
  <2> QED
    BY <1>1, <2>2, <2>3
<1>3. CASE p # NoPosition
  <2>1. CASE n >= 0
    <3>1. b = IF n = 0 THEN NoPosition ELSE [p EXCEPT !.qty = n, !.cost = p.cost]
      BY <1>3, <2>1 DEF Booked
    <3>2. [p EXCEPT !.qty = n, !.cost = p.cost] \in Positions
      BY <1>1, <2>1, RowChanges
    <3> QED
      BY <1>1, <3>1, <3>2
  <2>2. CASE ~(n >= 0)
    <3>1. n # 0 /\ n < 0
      BY <1>1, <2>2
    <3>2. b = IF AllowsShort(product) THEN [p EXCEPT !.qty = n, !.cost = price] ELSE NoPosition
      BY <1>3, <2>2, <3>1 DEF Booked
    <3>3. [p EXCEPT !.qty = n, !.cost = price] \in Shorts
      BY <1>1, <3>1, RowChanges DEF Shorts
    <3> QED
      BY <1>1, <3>2, <3>3
  <2> QED
    BY <2>1, <2>2
<1> QED
  BY <1>2, <1>3

\* Sold once more, and for DELIVERY, what is short is no position any more.
LEMMA ShortIsDropped ==
    ASSUME NEW p \in Shorts, NEW q \in Nat \ {0}, NEW price \in Nat, NEW id \in Ids
    PROVE  Booked(p, "SELL", q, price, "DELIVERY", id) = NoPosition
<1>1. p # NoPosition /\ ~(p.qty - q >= 0) /\ ~AllowsShort("DELIVERY")
  BY DEF Shorts, NoPosition, AllowsShort
<1> QED
  BY <1>1 DEF Booked

\* An order for DELIVERY leaves no position short, and one of any product,
\* booked once more as if for DELIVERY, does not either.
LEMMA BookedIsPosition ==
    ASSUME NEW p \in Positions, NEW side \in Sides, NEW q \in Nat \ {0}, NEW price \in Nat,
           NEW again \in Nat, NEW product, NEW id \in Ids
    PROVE  /\ Booked(p, side, q, price, "DELIVERY", id) \in Positions
           /\ Booked(Booked(p, side, q, price, product, id), side, q, again, "DELIVERY", id)
                \in Positions
<1>1. CASE side = "BUY"
  <2>1. Booked(p, "BUY", q, price, product, id) \in Positions
        /\ Booked(p, "BUY", q, price, "DELIVERY", id) \in Positions
    BY BookedBuy
  <2>2. Booked(Booked(p, "BUY", q, price, product, id), "BUY", q, again, "DELIVERY", id) \in Positions
    BY <2>1, BookedBuy
  <2> QED
    BY <1>1, <2>1, <2>2
<1>2. CASE side = "SELL"
  <2>1. /\ ~AllowsShort("DELIVERY") /\ NoPosition \in Positions
    BY DEF AllowsShort, NoPosition, Positions
  <2>2. /\ Booked(p, "SELL", q, price, product, id) \in Positions \cup Shorts
        /\ Booked(p, "SELL", q, price, "DELIVERY", id) \in Positions
    BY <2>1, BookedSell
  <2> DEFINE b == Booked(p, "SELL", q, price, product, id)
  <2> HIDE DEF b
  <2>3. b \in Positions => Booked(b, "SELL", q, again, "DELIVERY", id) \in Positions
    BY <2>1, BookedSell
  <2>4. b \in Shorts => Booked(b, "SELL", q, again, "DELIVERY", id) \in Positions
    BY <2>1, ShortIsDropped
  <2>5. Booked(b, "SELL", q, again, "DELIVERY", id) \in Positions
    BY <2>2, <2>3, <2>4 DEF b
  <2> QED
    BY <1>2, <2>2, <2>5 DEF b
<1> QED
  BY <1>1, <1>2 DEF Sides

\* What a session sees of the rows.
LEMMA SeenIsTyped ==
    ASSUME TypeInv, NEW s \in Works, s.ownsPos => s.pos \in Positions
    PROVE  SeenFunds(s) \in Purses /\ SeenPosition(s) \in Positions
<1>1. s.mine \in Purses /\ funds \in Purses /\ position \in Positions
      /\ s.pos \in Positions \cup {Unread}
  BY DEF Works, TypeInv
<1>2. SeenFunds(s) \in Purses
  BY <1>1 DEF SeenFunds
<1>3. s.pos.id = position.id => s.pos \in Positions
  <2>1. position.id # -1
    BY <1>1 DEF Positions, Ids
  <2>2. Unread.id = -1
    BY DEF Unread
  <2> QED
    BY <1>1, <2>1, <2>2
<1>4. SeenPosition(s) \in Positions
  BY <1>1, <1>3 DEF SeenPosition
<1> QED
  BY <1>2, <1>4

-----------------------------------------------------------------------------
(* What a request may do to the invariant *)

LEMMA IdleIsPrivate ==
    /\ Idle \in Works /\ Private(Idle)
    /\ ~Makes(Idle) /\ Idle.task = "none" /\ ~Idle.loaded /\ ~Idle.ownsFunds
<1>1. Idle \in Works
  BY DEF Works, Idle, Orders, NoOrder, Purses, Steps, Tasks, Sides, Products
<1>2. \A o \in Ids : Idle.wrote[o] = NoOrder
  BY DEF Idle
<1>3. Idle.step = "idle" /\ Idle.task = "none" /\ Idle.id = 0 /\ Idle.todo = {} /\ ~Idle.bound
      /\ ~Idle.loaded /\ ~Idle.ownsFunds /\ ~Idle.ownsPos
  BY DEF Idle
<1>4. SessionInv(Idle)
  BY <1>3 DEF SessionInv, AtWork, Makes
<1>5. WroteInv(Idle)
  BY <1>2, <1>3 DEF WroteInv, Makes, NoOrder
<1> QED
  BY <1>1, <1>3, <1>4, <1>5 DEF Private, Makes

\* The rows a request does not touch are of their types.
RestTyped ==
    /\ funds \in Purses /\ position \in Positions
    /\ holding \in Nat /\ provider \in Sessions
    /\ market \in [open : BOOLEAN, price : Prices] /\ made \in 0..MaxOrders

\* A request goes on without writing a row: what its session becomes fits
\* with the rows and the other sessions.
Joins(r, x) ==
    /\ Makes(x) => /\ order[x.id] = NoOrder
                   /\ \A q \in Sessions \ {r} : Makes(session[q]) => session[q].id # x.id
    /\ x.task \in {"amo", "cancel"} =>
          \A o \in Ids : Refers(x, o) => order[o] # NoOrder /\ ~Other(order[o])
    /\ ~AnyOther /\ x.loaded /\ ~Spoilt(x) => Clean(x.mine)
    /\ x.ownsFunds => \A q \in Sessions \ {r} : ~session[q].ownsFunds
    /\ r \in Requests /\ x.ownsFunds /\ ~x.guest => Shows(x)

LEMMA OneSession ==
    ASSUME IInv, NEW r \in Sessions, NEW x \in Works, Private(x), Joins(r, x),
           session' = [session EXCEPT ![r] = x], UNCHANGED <<order, funds>>,
           RestTyped', made <= made', Makes(x) => x.id <= made'
    PROVE  IInv'
<1>1. /\ session \in [Sessions -> Works] /\ order \in [Ids -> Orders] /\ made \in Nat
      /\ \A o \in Ids : o \in Nat
  BY DeskAssumption DEF IInv, TypeInv, Ids
<1>2. /\ session' \in [Sessions -> Works] /\ session'[r] = x
      /\ \A q \in Sessions \ {r} : session'[q] = session[q]
  BY <1>1
<1>3. TypeInv'
  BY <1>1, <1>2 DEF TypeInv, RestTyped
<1>4. \A q \in Sessions : Private(session'[q])
  BY <1>2 DEF IInv
<1>5. OrdersInv'
  <2>1. \A o \in Ids : order'[o] # NoOrder => o <= made'
    <3>1. made' \in Nat
      BY DeskAssumption DEF RestTyped
    <3> QED
      BY <1>1, <3>1 DEF IInv, OrdersInv
  <2>2. ASSUME NEW q \in Sessions, Makes(session'[q])
        PROVE  /\ session'[q].id <= made' /\ order'[session'[q].id] = NoOrder
               /\ \A p \in Sessions \ {q} : Makes(session'[p]) => session'[p].id # session'[q].id
    <3>1. CASE q = r
      BY <1>2, <2>2, <3>1 DEF Joins
    <3>2. CASE q # r
      <4>1. session'[q] = session[q]
        BY <1>2, <3>2
      <4>2. /\ session[q].id <= made /\ order[session[q].id] = NoOrder
            /\ \A p \in Sessions \ {q} : Makes(session[p]) => session[p].id # session[q].id
        BY <2>2, <4>1 DEF IInv, OrdersInv
      <4>3. session[q].id \in Nat /\ made' \in Nat
        BY <1>1, DeskAssumption DEF Works, RestTyped, Ids
      <4>4. session[q].id <= made'
        BY <1>1, <4>2, <4>3
      <4>5. Makes(x) => x.id # session[q].id
        BY <2>2, <3>2, <4>1 DEF Joins
      <4> QED
        BY <1>2, <4>1, <4>2, <4>4, <4>5
    <3> QED
      BY <3>1, <3>2
  <2>3. ASSUME NEW q \in Sessions, session'[q].task \in {"amo", "cancel"}, NEW o \in Ids,
               Refers(session'[q], o)
        PROVE  order'[o] # NoOrder /\ ~Other(order'[o])
    <3>1. CASE q = r
      BY <1>2, <2>3, <3>1 DEF Joins
    <3>2. CASE q # r
      BY <1>2, <2>3, <3>2 DEF IInv, OrdersInv
    <3> QED
      BY <3>1, <3>2
  <2> QED
    BY <2>1, <2>2, <2>3 DEF OrdersInv
<1>6. CleanInv'
  <2> SUFFICES ASSUME ~AnyOther
               PROVE  /\ Clean(funds)
                      /\ \A q \in Sessions :
                            session'[q].loaded /\ ~Spoilt(session'[q]) => Clean(session'[q].mine)
    BY DEF CleanInv, AnyOther
  <2>1. /\ Clean(funds)
        /\ \A q \in Sessions : session[q].loaded /\ ~Spoilt(session[q]) => Clean(session[q].mine)
    BY DEF IInv, CleanInv
  <2>2. x.loaded /\ ~Spoilt(x) => Clean(x.mine)
    BY DEF Joins
  <2> QED
    BY <1>2, <2>1, <2>2
<1>7. OwnerInv'
  BY <1>2 DEF IInv, OwnerInv, Joins
<1>8. TradesInv'
  BY <1>2 DEF IInv, TradesInv, Joins, Sessions
<1> QED
  BY <1>3, <1>4, <1>5, <1>6, <1>7, <1>8 DEF IInv

\* A request ends, and what it leaves of the rows fits with the other sessions.
LEMMA OneEnds ==
    ASSUME IInv, NEW r \in Sessions, session' = [session EXCEPT ![r] = Idle],
           order' \in [Ids -> Orders], RestTyped', made <= made',
           \A o \in Ids : order[o] # NoOrder =>
               order'[o] # NoOrder /\ (Other(order[o]) <=> Other(order'[o])),
           \A o \in Ids : order'[o] # NoOrder => o <= made',
           \A q \in Sessions \ {r} : Makes(session[q]) => order'[session[q].id] = NoOrder,
           ~AnyOther /\ ~AnyOther' => Clean(funds')
    PROVE  IInv'
<1>1. session \in [Sessions -> Works] /\ order \in [Ids -> Orders] /\ made \in Nat
  BY DeskAssumption DEF IInv, TypeInv
<1>2. /\ session' \in [Sessions -> Works] /\ session'[r] = Idle
      /\ \A q \in Sessions \ {r} : session'[q] = session[q]
  BY <1>1, IdleIsPrivate
<1>3. TypeInv'
  BY <1>1, <1>2 DEF TypeInv, RestTyped
<1>4. \A q \in Sessions : Private(session'[q])
  BY <1>2, IdleIsPrivate DEF IInv
<1>5. OrdersInv'
  <2>2. ASSUME NEW q \in Sessions, Makes(session'[q])
        PROVE  /\ session'[q].id <= made' /\ order'[session'[q].id] = NoOrder
               /\ \A p \in Sessions \ {q} : Makes(session'[p]) => session'[p].id # session'[q].id
    <3>1. q # r /\ session'[q] = session[q]
      BY <1>2, <2>2, IdleIsPrivate
    <3>2. /\ session[q].id <= made
          /\ \A p \in Sessions \ {q} : Makes(session[p]) => session[p].id # session[q].id
      BY <2>2, <3>1 DEF IInv, OrdersInv
    <3>3. session[q].id \in Nat /\ made' \in Nat
      BY <1>1, DeskAssumption DEF Works, RestTyped, Ids
    <3>4. session[q].id <= made'
      BY <1>1, <3>2, <3>3
    <3> QED
      BY <1>2, <2>2, <3>1, <3>2, <3>4, IdleIsPrivate
  <2>3. ASSUME NEW q \in Sessions, session'[q].task \in {"amo", "cancel"}, NEW o \in Ids,
               Refers(session'[q], o)
        PROVE  order'[o] # NoOrder /\ ~Other(order'[o])
    <3>1. q # r /\ session'[q] = session[q]
      BY <1>2, <2>3, IdleIsPrivate
    <3>2. order[o] # NoOrder /\ ~Other(order[o])
      BY <2>3, <3>1 DEF IInv, OrdersInv
    <3> QED
      BY <3>2
  <2> QED
    BY <2>2, <2>3 DEF OrdersInv
<1>6. CleanInv'
  <2> SUFFICES ASSUME ~AnyOther'
               PROVE  /\ Clean(funds')
                      /\ \A q \in Sessions :
                            session'[q].loaded /\ ~Spoilt(session'[q]) => Clean(session'[q].mine)
    BY DEF CleanInv
  <2>1. ~AnyOther
    <3> SUFFICES ASSUME NEW o \in Ids, Other(order[o]) PROVE FALSE
      BY DEF AnyOther
    <3>1. order[o] # NoOrder
      BY DEF Other, NoOrder
    <3> QED
      BY <3>1 DEF AnyOther
  <2>2. \A q \in Sessions : session[q].loaded /\ ~Spoilt(session[q]) => Clean(session[q].mine)
    BY <2>1 DEF IInv, CleanInv
  <2> QED
    BY <1>2, <2>1, <2>2, IdleIsPrivate
<1>7. OwnerInv'
  BY <1>2, IdleIsPrivate DEF IInv, OwnerInv
<1>8. TradesInv'
  BY <1>2, IdleIsPrivate DEF IInv, TradesInv, Sessions
<1> QED
  BY <1>3, <1>4, <1>5, <1>6, <1>7, <1>8 DEF IInv

LEMMA RestIsTyped == IInv => RestTyped
BY DEF IInv, TypeInv, RestTyped

\* Ended leaves the rows as they are typed.
LEMMA RequestEnds ==
    ASSUME IInv, NEW r \in Requests, Ended(r)
    PROVE  /\ r \in Sessions /\ session' = [session EXCEPT ![r] = Idle] /\ provider' \in Sessions
BY DEF Ended, Sessions, IInv, TypeInv


THEOREM Starts == Init => IInv
<1> SUFFICES ASSUME Init PROVE IInv
  OBVIOUS
<1>1. \A r \in Sessions : session[r] = Idle
  BY DEF Init
<1>2. TypeInv
  <2>1. session \in [Sessions -> Works]
    BY IdleIsPrivate DEF Init
  <2>2. NoOrder \in Orders /\ NoPosition \in Positions
    BY DEF Orders, NoPosition, Positions
  <2>3. funds \in Purses
    BY DeskAssumption DEF Init, Purses
  <2> QED
    BY <2>1, <2>2, <2>3, DeskAssumption DEF Init, TypeInv, Sessions
<1>3. \A o \in Ids : order[o] = NoOrder
  BY DEF Init
<1>4. OrdersInv /\ OwnerInv /\ TradesInv
  BY <1>1, <1>3, IdleIsPrivate DEF OrdersInv, OwnerInv, TradesInv, Sessions
<1>5. CleanInv
  <2>1. Clean(funds)
    BY DeskAssumption DEF Init, Clean
  <2> QED
    BY <1>1, <2>1, IdleIsPrivate DEF CleanInv
<1> QED
  BY <1>1, <1>2, <1>4, <1>5, IdleIsPrivate DEF IInv

LEMMA MarketKeeps == IInv /\ Market => IInv'
<1> SUFFICES ASSUME IInv, Market PROVE IInv'
  OBVIOUS
<1>1. UNCHANGED <<order, funds, position, holding, provider, session, made>>
      /\ market' \in [open : BOOLEAN, price : Prices]
  BY DEF Market
<1> QED
  BY <1>1 DEF IInv, TypeInv, OrdersInv, CleanInv, AnyOther, OwnerInv, TradesInv

LEMMA RestartKeeps == IInv /\ Restart => IInv'
<1> SUFFICES ASSUME IInv, Restart PROVE IInv'
  OBVIOUS
<1>1. \A r \in Sessions : session'[r] = Idle
  BY DEF Restart
<1>2. UNCHANGED <<order, funds, position, market, made>> /\ holding' = 0 /\ provider' = Closed
  BY DEF Restart
<1>3. TypeInv'
  <2>1. session' \in [Sessions -> Works]
    BY IdleIsPrivate DEF Restart
  <2> QED
    BY <1>2, <2>1 DEF IInv, TypeInv, Sessions
<1>4. OrdersInv'
  BY <1>1, <1>2, IdleIsPrivate DEF IInv, OrdersInv
<1>5. CleanInv' /\ OwnerInv' /\ TradesInv'
  BY <1>1, <1>2, IdleIsPrivate DEF IInv, CleanInv, AnyOther, OwnerInv, TradesInv, Sessions
<1> QED
  BY <1>1, <1>3, <1>4, <1>5, IdleIsPrivate DEF IInv

\* A request that ends without writing leaves the rest as it is.
LEMMA EndedKeeps ==
    ASSUME IInv, NEW r \in Requests, Ended(r),
           UNCHANGED <<order, funds, position, holding, market, made>>
    PROVE  IInv'
<1>1. UNCHANGED <<order, funds, position, holding, market, made>> /\ Ended(r)
  OBVIOUS
<1>2. r \in Sessions /\ session' = [session EXCEPT ![r] = Idle] /\ provider' \in Sessions
  BY <1>1, RequestEnds
<1>3. RestTyped' /\ made <= made' /\ order' \in [Ids -> Orders]
  BY <1>1, <1>2, DeskAssumption DEF IInv, TypeInv, RestTyped
<1>4. \A o \in Ids : order'[o] # NoOrder => o <= made'
  BY <1>1 DEF IInv, OrdersInv
<1>5. \A q \in Sessions \ {r} : Makes(session[q]) => order'[session[q].id] = NoOrder
  BY <1>1 DEF IInv, OrdersInv
<1>6. ~AnyOther => Clean(funds')
  BY <1>1 DEF IInv, CleanInv
<1> QED
  BY <1>1, <1>2, <1>3, <1>4, <1>5, <1>6, OneEnds

LEMMA FailKeeps == ASSUME IInv, NEW r \in Requests, Fail(r) PROVE IInv'
BY EndedKeeps DEF Fail

LEMMA CancelKeeps == ASSUME IInv, NEW r \in Requests, Cancel(r) PROVE IInv'
<1> DEFINE i == session[r].id
<1>1. UNCHANGED <<funds, position, holding, market, made>> /\ Ended(r)
      /\ order' = [order EXCEPT ![i].status = "CANCELLED"]
      /\ session[r].step = "checked" /\ session[r].task = "cancel"
  BY DEF Cancel
<1>2. r \in Sessions /\ session' = [session EXCEPT ![r] = Idle] /\ provider' \in Sessions
  BY <1>1, RequestEnds
<1>3. i \in Ids
  BY <1>1, <1>2 DEF IInv, Private, SessionInv, AtWork
<1>4. order[i] # NoOrder /\ ~Other(order[i]) /\ order \in [Ids -> Orders]
  BY <1>1, <1>2, <1>3 DEF IInv, TypeInv, OrdersInv, Refers
<1>5. [order[i] EXCEPT !.status = "CANCELLED"] \in Orders \ {NoOrder}
      /\ [order[i] EXCEPT !.status = "CANCELLED"].status = "CANCELLED"
  BY <1>3, <1>4 DEF Orders, NoOrder, Statuses
<1> HIDE DEF i
<1>6. order' = [order EXCEPT ![i] = [order[i] EXCEPT !.status = "CANCELLED"]]
  BY <1>1
<1>7. /\ order' \in [Ids -> Orders] /\ order'[i] # NoOrder /\ ~Other(order'[i])
      /\ \A o \in Ids \ {i} : order'[o] = order[o]
  BY <1>3, <1>4, <1>5, <1>6 DEF Other
<1>8. RestTyped' /\ made <= made'
  BY <1>1, <1>2, DeskAssumption DEF IInv, TypeInv, RestTyped
<1>9. \A o \in Ids : order[o] # NoOrder => order'[o] # NoOrder /\ (Other(order[o]) <=> Other(order'[o]))
  BY <1>4, <1>7
<1>10. \A o \in Ids : order'[o] # NoOrder => o <= made'
  BY <1>1, <1>4, <1>7 DEF IInv, OrdersInv
<1>11. \A q \in Sessions \ {r} : Makes(session[q]) => order'[session[q].id] = NoOrder
  <2> SUFFICES ASSUME NEW q \in Sessions \ {r}, Makes(session[q])
               PROVE  order'[session[q].id] = NoOrder
    OBVIOUS
  <2>1. order[session[q].id] = NoOrder /\ session[q].id \in Ids
    BY DEF IInv, OrdersInv, Private, SessionInv
  <2> QED
    BY <1>4, <1>7, <2>1
<1>12. ~AnyOther => Clean(funds')
  BY <1>1 DEF IInv, CleanInv
<1> QED
  BY <1>2, <1>7, <1>8, <1>9, <1>10, <1>11, <1>12, OneEnds

\* What a request that is about to commit has written.
LEMMA CommitWrites ==
    ASSUME IInv, NEW r \in Requests, Commit(r)
    PROVE  LET s == session[r] IN
           \A o \in Ids :
              /\ order'[o] \in Orders
              /\ s.wrote[o] = NoOrder => order'[o] = order[o]
              /\ s.wrote[o] # NoOrder =>
                    /\ order'[o] # NoOrder /\ order'[o].status = s.wrote[o].status
                    /\ order'[o].product = s.wrote[o].product
                    /\ order'[o].trades = s.wrote[o].trades + order[o].trades
                    /\ \/ Makes(s) /\ o = s.id /\ order[o] = NoOrder /\ o <= made
                       \/ /\ s.task = "amo" /\ order[o] # NoOrder /\ ~Other(order[o])
                          /\ s.wrote[o].product = "DELIVERY"
<1> DEFINE s == session[r]
<1>1. r \in Sessions /\ s \in Works /\ SessionInv(s) /\ WroteInv(s)
  BY DEF Sessions, IInv, TypeInv, Private
<1> SUFFICES ASSUME NEW o \in Ids
             PROVE  /\ order'[o] \in Orders
                    /\ s.wrote[o] = NoOrder => order'[o] = order[o]
                    /\ s.wrote[o] # NoOrder =>
                          /\ order'[o] # NoOrder /\ order'[o].status = s.wrote[o].status
                          /\ order'[o].product = s.wrote[o].product
                          /\ order'[o].trades = s.wrote[o].trades + order[o].trades
                          /\ \/ Makes(s) /\ o = s.id /\ order[o] = NoOrder /\ o <= made
                             \/ /\ s.task = "amo" /\ order[o] # NoOrder /\ ~Other(order[o])
                                /\ s.wrote[o].product = "DELIVERY"
  OBVIOUS
<1>2. order[o] \in Orders /\ s.wrote[o] \in Orders
  BY <1>1 DEF IInv, TypeInv, Works
<1>3. order'[o] = IF s.wrote[o] = NoOrder THEN order[o]
                  ELSE [s.wrote[o] EXCEPT !.trades = s.wrote[o].trades + order[o].trades]
  BY DEF Commit
<1> HIDE DEF s
<1>4. ASSUME s.wrote[o] # NoOrder
      PROVE  /\ order'[o] \in Orders \ {NoOrder} /\ order'[o].status = s.wrote[o].status
             /\ order'[o].product = s.wrote[o].product
             /\ order'[o].trades = s.wrote[o].trades + order[o].trades
  <2> DEFINE n == s.wrote[o].trades + order[o].trades
             w == s.wrote[o]
  <2>1. n \in Nat
    BY <1>2, OrderFields
  <2>2. order'[o] = [w EXCEPT !.trades = n] /\ w \in Orders /\ w # NoOrder
    BY <1>2, <1>3, <1>4
  <2> HIDE DEF n, w
  <2>3. [w EXCEPT !.trades = n] \in Orders \ {NoOrder} /\ [w EXCEPT !.trades = n].status = w.status
        /\ [w EXCEPT !.trades = n].product = w.product /\ [w EXCEPT !.trades = n].trades = n
    BY <2>1, <2>2 DEF Orders, NoOrder, Statuses
  <2> QED
    BY <2>2, <2>3 DEF n, w
<1>5. ASSUME s.wrote[o] # NoOrder
      PROVE  \/ Makes(s) /\ o = s.id /\ order[o] = NoOrder /\ o <= made
             \/ /\ s.task = "amo" /\ order[o] # NoOrder /\ ~Other(order[o])
                /\ s.wrote[o].product = "DELIVERY"
  <2>1. Makes(s) \/ s.task = "amo"
    BY <1>1, <1>5 DEF WroteInv, Makes, Works, Tasks
  <2>2. ASSUME Makes(s) PROVE o = s.id /\ order[o] = NoOrder /\ o <= made
    <3>1. o = s.id
      BY <1>1, <1>5, <2>2 DEF WroteInv
    <3> QED
      BY <1>1, <2>2, <3>1 DEF IInv, OrdersInv, s
  <2>3. ASSUME s.task = "amo" PROVE order[o] # NoOrder /\ ~Other(order[o]) /\ s.wrote[o].product = "DELIVERY"
    <3>1. order[o] # NoOrder /\ ~Other(order[o])
      BY <1>1, <1>5, <2>3 DEF IInv, OrdersInv, Refers, s
    <3> QED
      BY <1>1, <2>3, <3>1 DEF WroteInv
  <2> QED
    BY <2>1, <2>2, <2>3
<1> QED
  BY <1>2, <1>3, <1>4, <1>5

LEMMA CommitKeeps == ASSUME IInv, NEW r \in Requests, Commit(r) PROVE IInv'
<1> DEFINE s == session[r]
<1>1. /\ s.step = "written" /\ Ended(r) /\ UNCHANGED <<holding, market, made>>
      /\ order' = [o \in Ids |-> order'[o]]
      /\ funds' = (IF s.ownsFunds THEN s.mine ELSE funds)
      /\ position' = (IF s.ownsPos THEN s.pos ELSE position)
  BY DEF Commit
<1>2. r \in Sessions /\ session' = [session EXCEPT ![r] = Idle] /\ provider' \in Sessions
  BY <1>1, RequestEnds
<1>3. s \in Works /\ SessionInv(s) /\ WroteInv(s)
  BY <1>2 DEF IInv, TypeInv, Private
<1>4. \A o \in Ids :
          /\ order'[o] \in Orders
          /\ s.wrote[o] = NoOrder => order'[o] = order[o]
          /\ s.wrote[o] # NoOrder =>
                /\ order'[o] # NoOrder /\ order'[o].status = s.wrote[o].status
                /\ order'[o].product = s.wrote[o].product
                /\ order'[o].trades = s.wrote[o].trades + order[o].trades
                /\ \/ Makes(s) /\ o = s.id /\ order[o] = NoOrder /\ o <= made
                   \/ /\ s.task = "amo" /\ order[o] # NoOrder /\ ~Other(order[o])
                      /\ s.wrote[o].product = "DELIVERY"
  BY CommitWrites
<1> HIDE DEF s
<1>5. order' \in [Ids -> Orders]
  BY <1>1, <1>4
<1>6. RestTyped' /\ made <= made'
  <2>1. funds' \in Purses
    BY <1>1, <1>3 DEF Works, IInv, TypeInv
  <2>2. position' \in Positions
    BY <1>1, <1>3 DEF SessionInv, IInv, TypeInv
  <2> QED
    BY <1>1, <1>2, <2>1, <2>2, DeskAssumption DEF IInv, TypeInv, RestTyped
<1>7. \A o \in Ids : order[o] # NoOrder => order'[o] # NoOrder /\ (Other(order[o]) <=> Other(order'[o]))
  BY <1>4 DEF Other
<1>8. \A o \in Ids : order'[o] # NoOrder => o <= made'
  BY <1>1, <1>4 DEF IInv, OrdersInv
<1>9. ASSUME NEW q \in Sessions \ {r}, Makes(session[q]) PROVE order'[session[q].id] = NoOrder
  <2>1. order[session[q].id] = NoOrder /\ session[q].id \in Ids
    BY <1>9 DEF IInv, OrdersInv, Private, SessionInv
  <2>2. Makes(s) => session[q].id # s.id
    BY <1>2, <1>9 DEF IInv, OrdersInv, s
  <2> QED
    BY <1>4, <2>1, <2>2
<1>10. ASSUME ~AnyOther, ~AnyOther' PROVE Clean(funds')
  <2>1. Clean(funds) /\ (s.loaded /\ ~Spoilt(s) => Clean(s.mine))
    BY <1>2, <1>10 DEF IInv, CleanInv, s
  <2>2. ~Spoilt(s)
    <3> SUFFICES ASSUME Spoilt(s) PROVE FALSE
      OBVIOUS
    <3>1. s.task = "route" /\ s.wrote[s.id].product # "DELIVERY" /\ s.id \in Ids
          /\ s.wrote[s.id].status = "FILLED"
      BY <1>1, <1>3 DEF Spoilt, SessionInv, WroteInv, Makes
    <3>2. s.wrote[s.id] # NoOrder
      BY <3>1 DEF NoOrder
    <3>3. Other(order'[s.id])
      BY <1>4, <3>1, <3>2 DEF Other
    <3> QED
      BY <1>10, <3>1, <3>3 DEF AnyOther
  <2>3. s.ownsFunds => s.loaded
    BY <1>3 DEF SessionInv
  <2> QED
    BY <1>1, <2>1, <2>2, <2>3
<1> QED
  BY <1>2, <1>5, <1>6, <1>7, <1>8, <1>9, <1>10, OneEnds

-----------------------------------------------------------------------------
(* Requests that begin *)

LEMMA AskCancelKeeps == ASSUME IInv, NEW r \in Requests, AskCancel(r) PROVE IInv'
<1>1. PICK i \in Ids :
          /\ order[i].status \in {"PENDING", "AMO_PENDING"}
          /\ session' = [session EXCEPT ![r] =
                [Idle EXCEPT !.step = "checked", !.task = "cancel", !.id = i]]
          /\ UNCHANGED <<order, funds, position, holding, provider, market, made, faults>>
  BY DEF AskCancel
<1> DEFINE x == [Idle EXCEPT !.step = "checked", !.task = "cancel", !.id = i]
<1>2. x \in Works /\ x.step = "checked" /\ x.task = "cancel" /\ x.id = i /\ x.todo = {}
      /\ ~x.bound /\ ~x.loaded /\ ~x.ownsFunds /\ ~x.ownsPos /\ x.wrote = Idle.wrote
  <2>1. Idle \in Works /\ "checked" \in Steps /\ "cancel" \in Tasks
    BY IdleIsPrivate DEF Steps, Tasks
  <2>2. x \in Works
    BY <2>1 DEF Works
  <2> QED
    BY <2>2 DEF Idle
<1>3. \A o \in Ids : x.wrote[o] = NoOrder
  BY <1>2 DEF Idle
<1> HIDE DEF x
<1>4. Private(x)
  BY <1>2, <1>3 DEF Private, SessionInv, WroteInv, Makes, AtWork, NoOrder
<1>5. order[i] # NoOrder /\ ~Other(order[i])
  BY <1>1 DEF NoOrder, Other
<1>6. Joins(r, x)
  BY <1>2, <1>3, <1>5 DEF Joins, Refers, Makes
<1>7. RestTyped' /\ made <= made' /\ ~Makes(x)
  BY <1>1, <1>2, DeskAssumption DEF IInv, TypeInv, RestTyped, Makes
<1> QED
  BY <1>1, <1>2, <1>4, <1>6, <1>7, OneSession DEF x, Sessions

LEMMA StartAmoKeeps == ASSUME IInv, NEW r \in Requests, StartAmo(r) PROVE IInv'
<1> DEFINE waiting == {o \in Ids : order[o].status = "AMO_PENDING"}
           x == [Idle EXCEPT !.step = "next", !.task = "amo", !.todo = waiting]
<1>1. /\ session' = [session EXCEPT ![r] = x]
      /\ UNCHANGED <<order, funds, position, holding, provider, market, made, faults>>
  BY DEF StartAmo
<1>2. \A o \in waiting : order[o] # NoOrder /\ ~Other(order[o])
  BY DEF NoOrder, Other
<1>3. waiting \subseteq Ids
  OBVIOUS
<1> HIDE DEF waiting
<1>4. x \in Works /\ x.step = "next" /\ x.task = "amo" /\ x.id = 0 /\ x.todo = waiting
      /\ ~x.bound /\ ~x.loaded /\ ~x.ownsFunds /\ ~x.ownsPos /\ x.wrote = Idle.wrote
  <2>1. Idle \in Works /\ "next" \in Steps /\ "amo" \in Tasks
    BY IdleIsPrivate DEF Steps, Tasks
  <2>2. x \in Works
    BY <1>3, <2>1 DEF Works
  <2> QED
    BY <2>2 DEF Idle
<1>5. \A o \in Ids : x.wrote[o] = NoOrder
  BY <1>4 DEF Idle
<1> HIDE DEF x
<1>6. 0 \notin Ids
  BY DEF Ids
<1>7. Private(x)
  BY <1>3, <1>4, <1>5, <1>6 DEF Private, SessionInv, WroteInv, Makes, AtWork, NoOrder
<1>8. Joins(r, x)
  BY <1>2, <1>4, <1>5, <1>6 DEF Joins, Refers, Makes
<1>9. RestTyped' /\ made <= made' /\ ~Makes(x)
  BY <1>1, <1>4, DeskAssumption DEF IInv, TypeInv, RestTyped, Makes
<1> QED
  BY <1>1, <1>4, <1>7, <1>8, <1>9, OneSession DEF Sessions

LEMMA CreateKeeps == ASSUME IInv, NEW r \in Requests, Create(r) PROVE IInv'
<1>1. PICK side \in Sides, kind \in {"MARKET", "LIMIT"}, q \in Quantities,
           product \in Choices \cup {"DELIVERY"}, amo \in BOOLEAN, task \in {"route", "template"} :
        /\ task = "template" => ~amo /\ product = "DELIVERY"
        /\ ~amo => market.open
        /\ LET o == [status |-> IF amo /\ ~market.open THEN "AMO_PENDING" ELSE "PENDING",
                     side |-> side, kind |-> kind, qty |-> q, product |-> product,
                     trades |-> 0]
               waits == o.status = "AMO_PENDING" \/ kind = "LIMIT"
           IN /\ Valid(o)
              /\ made' = made + 1
              /\ IF waits
                 THEN order' = [order EXCEPT ![made + 1] = o] /\ UNCHANGED session
                 ELSE /\ session' = [session EXCEPT ![r] =
                            [Idle EXCEPT !.step = "checked", !.task = task, !.id = made + 1,
                                         !.loaded = (side = "BUY"),
                                         !.mine = IF side = "BUY" THEN funds ELSE @,
                                         !.pos = IF side = "SELL" THEN position ELSE @,
                                         !.wrote[made + 1] = o]]
                      /\ UNCHANGED order
  BY DEF Create
<1> DEFINE status == IF amo /\ ~market.open THEN "AMO_PENDING" ELSE "PENDING"
           o == [status |-> status, side |-> side, kind |-> kind, qty |-> q,
                 product |-> product, trades |-> 0]
           i == made + 1
<1>2. /\ session[r] = Idle /\ made < MaxOrders /\ made' = i
      /\ UNCHANGED <<funds, position, holding, provider, market>>
  BY <1>1 DEF Create
<1>3. /\ r \in Sessions /\ i \in Ids /\ made \in Nat /\ i > made /\ \A j \in Ids : j \in Nat
      /\ session \in [Sessions -> Works] /\ order \in [Ids -> Orders]
  BY <1>2, DeskAssumption DEF IInv, TypeInv, Sessions, Ids
<1>4. /\ o \in Orders \ {NoOrder} /\ ~Other(o) /\ o.product = product /\ o.trades = 0
      /\ o.status = status
  <2>1. /\ status \in {"AMO_PENDING", "PENDING"} /\ status \in Statuses /\ product \in Products
        /\ q \in Quantities
    BY DeskAssumption DEF Statuses, Products
  <2> HIDE DEF status
  <2>2. o \in Orders /\ o.status = status
    BY <2>1 DEF Orders
  <2> QED
    BY <2>1, <2>2 DEF NoOrder, Other
<1>5. order[i] = NoOrder /\ \A s \in Sessions : Makes(session[s]) => session[s].id <= made
  BY <1>3 DEF IInv, OrdersInv
<1>6. RestTyped' /\ made <= made'
  BY <1>2, <1>3, DeskAssumption DEF IInv, TypeInv, RestTyped, Ids
<1>7. ASSUME order' = [order EXCEPT ![i] = o], UNCHANGED session PROVE IInv'
  <2> HIDE DEF o, i
  <2>1. session' = [session EXCEPT ![r] = Idle]
    BY <1>2, <1>3, <1>7
  <2>2. order' \in [Ids -> Orders] /\ order'[i] = o /\ \A j \in Ids \ {i} : order'[j] = order[j]
    BY <1>3, <1>4, <1>7
  <2>3. \A j \in Ids : order[j] # NoOrder => order'[j] # NoOrder /\ (Other(order[j]) <=> Other(order'[j]))
    BY <1>5, <2>2
  <2>4. ASSUME NEW j \in Ids, order'[j] # NoOrder PROVE j <= made'
    <3>1. CASE j = i
      BY <1>2, <1>3, <3>1
    <3>2. CASE j # i
      <4>1. order[j] # NoOrder
        BY <2>2, <2>4, <3>2
      <4>2. j <= made
        BY <4>1 DEF IInv, OrdersInv
      <4> QED
        BY <1>2, <1>3, <4>2
    <3> QED
      BY <3>1, <3>2
  <2>5. ASSUME NEW s \in Sessions \ {r}, Makes(session[s]) PROVE order'[session[s].id] = NoOrder
    <3>1. order[session[s].id] = NoOrder /\ session[s].id \in Ids
      BY <2>5 DEF IInv, OrdersInv, Private, SessionInv
    <3>2. session[s].id # i
      BY <1>3, <1>5, <2>5, <3>1
    <3> QED
      BY <2>2, <3>1, <3>2
  <2>6. ~AnyOther => Clean(funds')
    BY <1>2 DEF IInv, CleanInv
  <2> QED
    BY <1>3, <1>6, <2>1, <2>2, <2>3, <2>4, <2>5, <2>6, OneEnds
<1> DEFINE f == IF side = "BUY" THEN funds ELSE Idle.mine
           p == IF side = "SELL" THEN position ELSE Idle.pos
           b == side = "BUY"
           w == [Idle.wrote EXCEPT ![i] = o]
           x == [Idle EXCEPT !.step = "checked", !.task = task, !.id = i, !.loaded = b,
                             !.mine = f, !.pos = p, !.wrote = w]
<1>8. ASSUME session' = [session EXCEPT ![r] = x], UNCHANGED order PROVE IInv'
  <2>1. f \in Purses /\ p \in Positions \cup {Unread} /\ b \in BOOLEAN /\ (b => f = funds)
    BY IdleIsPrivate DEF IInv, TypeInv, Works
  <2>2. /\ w \in [Ids -> Orders] /\ w[i] = o /\ \A j \in Ids \ {i} : w[j] = NoOrder
    BY <1>3, <1>4, IdleIsPrivate DEF Works, Idle
  <2> HIDE DEF f, p, b, w, o, i, status
  <2>3. /\ x \in Works /\ x.step = "checked" /\ x.task = task /\ x.id = i /\ x.todo = {}
        /\ ~x.bound /\ x.loaded = b /\ ~x.ownsFunds /\ ~x.ownsPos /\ x.wrote = w /\ x.mine = f
    <3>1. Idle \in Works /\ "checked" \in Steps /\ task \in Tasks
      BY IdleIsPrivate DEF Steps, Tasks
    <3>2. x \in Works
      BY <1>3, <2>1, <2>2, <3>1 DEF Works
    <3> QED
      BY <3>2 DEF Idle
  <2> HIDE DEF x
  <2>4. SessionInv(x)
    BY <1>3, <2>3 DEF SessionInv, AtWork, Makes
  <2>5. WroteInv(x)
    <3>1. product # "DELIVERY" => task = "route"
      BY <1>1
    <3>2. \A j \in Ids : w[j] # NoOrder <=> j = i
      BY <1>4, <2>2
    <3>3. \A j \in Ids : w[j].product # "DELIVERY" => j = i
      BY <2>2 DEF NoOrder
    <3>4. \A j \in Ids : w[j].product # "DELIVERY" => task = "route" /\ j = i
      BY <1>4, <2>2, <3>1, <3>3
    <3> QED
      BY <1>4, <2>2, <2>3, <3>2, <3>4 DEF WroteInv, Makes
  <2>6. Joins(r, x)
    <3>1. \A s \in Sessions \ {r} : Makes(session[s]) => session[s].id # i
      BY <1>3, <1>5
    <3>2. ~AnyOther => Clean(funds)
      BY DEF IInv, CleanInv
    <3> QED
      BY <1>5, <2>1, <2>3, <3>1, <3>2 DEF Joins
  <2>7. x.id <= made'
    BY <1>2, <1>3, <2>3
  <2> QED
    BY <1>2, <1>3, <1>6, <1>8, <2>3, <2>4, <2>5, <2>6, <2>7, OneSession DEF Private
<1>9. \/ order' = [order EXCEPT ![i] = o] /\ UNCHANGED session
      \/ session' = [session EXCEPT ![r] = x] /\ UNCHANGED order
  <2>1. [Idle EXCEPT !.step = "checked", !.task = task, !.id = i, !.loaded = (side = "BUY"),
                     !.mine = IF side = "BUY" THEN funds ELSE @,
                     !.pos = IF side = "SELL" THEN position ELSE @, !.wrote[i] = o] = x
    BY DEF Idle
  <2> QED
    BY <1>1, <2>1
<1> QED
  BY <1>7, <1>8, <1>9

-----------------------------------------------------------------------------
(* After-market orders *)

LEMMA OldestIsLeft ==
    ASSUME NEW T \in SUBSET Ids, T # {}
    PROVE  (CHOOSE x \in T : \A y \in T : x <= y) \in T
<1>1. T \subseteq Nat
  BY DEF Ids
<1>2. PICK x \in T : \A y \in T : <<y, x>> \notin OpToRel(<, Nat)
  BY <1>1, WFMin, NatLessThanWellFounded
<1>3. \A y \in T : x <= y
  <2> SUFFICES ASSUME NEW y \in T, ~(x <= y) PROVE FALSE
    OBVIOUS
  <2>1. x \in Nat /\ y \in Nat
    BY <1>1
  <2>2. y < x
    BY <2>1
  <2>3. <<y, x>> \in OpToRel(<, Nat)
    BY <2>1, <2>2 DEF OpToRel
  <2> QED
    BY <1>2, <2>3
<1> QED
  BY <1>3

\* A session that holds no more than it held joins as it did.
LEMMA AmoGoesOn ==
    ASSUME IInv, NEW r \in Requests, session[r].task = "amo", NEW x \in Works, x.task = "amo",
           \A o \in Ids : Refers(x, o) => Refers(session[r], o),
           x.loaded = session[r].loaded, x.mine = session[r].mine,
           x.ownsFunds = session[r].ownsFunds, x.guest = session[r].guest,
           Shows(session[r]) => Shows(x)
    PROVE  Joins(r, x) /\ ~Makes(x)
<1>1. r \in Sessions
  BY DEF Sessions
<1>2. ~Makes(x) /\ ~Spoilt(x) /\ ~Spoilt(session[r])
  BY DEF Makes, Spoilt
<1>3. \A o \in Ids : Refers(x, o) => order[o] # NoOrder /\ ~Other(order[o])
  BY <1>1 DEF IInv, OrdersInv
<1>4. ~AnyOther /\ x.loaded => Clean(x.mine)
  BY <1>1, <1>2 DEF IInv, CleanInv
<1>5. x.ownsFunds => \A q \in Sessions \ {r} : ~session[q].ownsFunds
  BY <1>1 DEF IInv, OwnerInv
<1>6. x.ownsFunds /\ ~x.guest => Shows(x)
  BY DEF IInv, TradesInv
<1> QED
  BY <1>2, <1>3, <1>4, <1>5, <1>6 DEF Joins

LEMMA NextAmoKeeps == ASSUME IInv, NEW r \in Requests, NextAmo(r) PROVE IInv'
<1> DEFINE s == session[r]
           o == CHOOSE x \in s.todo : \A y \in s.todo : x <= y
<1>1. /\ s.step = "next"
      /\ UNCHANGED <<order, funds, position, holding, provider, market, made>>
  BY DEF NextAmo
<1>2. r \in Sessions /\ s \in Works /\ SessionInv(s) /\ WroteInv(s)
  BY DEF Sessions, IInv, TypeInv, Private
<1>3. s.task = "amo" /\ s.todo \subseteq Ids
  BY <1>1, <1>2 DEF SessionInv, Works
<1>4. RestTyped' /\ made <= made'
  BY <1>1, DeskAssumption DEF IInv, TypeInv, RestTyped
<1>5. CASE s.todo = {} /\ session' = [session EXCEPT ![r].step = "written"]
  <2> DEFINE x == [s EXCEPT !.step = "written"]
  <2>1. session' = [session EXCEPT ![r] = x]
    BY <1>5
  <2> HIDE DEF s
  <2>2. x \in Works /\ x.step = "written" /\ x.task = "amo" /\ x.id = s.id /\ x.todo = s.todo
        /\ x.bound = s.bound /\ x.loaded = s.loaded /\ x.mine = s.mine /\ x.guest = s.guest
        /\ x.ownsFunds = s.ownsFunds /\ x.pos = s.pos /\ x.ownsPos = s.ownsPos /\ x.wrote = s.wrote
    BY <1>2, <1>3 DEF Works, Steps
  <2> HIDE DEF x
  <2>3. SessionInv(x)
    BY <1>2, <1>3, <2>2 DEF SessionInv, AtWork, Makes
  <2>4. WroteInv(x)
    BY <1>2, <1>3, <2>2 DEF WroteInv, Makes
  <2>5. Shows(s) => Shows(x)
    BY <1>1, <2>2 DEF Shows
  <2>6. Joins(r, x) /\ ~Makes(x)
    BY <1>3, <2>2, <2>5, AmoGoesOn DEF Refers, s
  <2> QED
    BY <1>1, <1>2, <1>4, <2>1, <2>2, <2>3, <2>4, <2>6, OneSession DEF Private
<1>6. ASSUME s.todo # {} PROVE o \in s.todo /\ o \in Ids
  BY <1>3, <1>6, OldestIsLeft
<1>7. CASE s.todo # {} /\ session' = [session EXCEPT ![r] =
                [[s EXCEPT !.id = o, !.todo = @ \ {o}] EXCEPT !.step = "checked"]]
  <2> DEFINE x == [[s EXCEPT !.id = o, !.todo = @ \ {o}] EXCEPT !.step = "checked"]
  <2>0. o \in s.todo /\ o \in Ids
    BY <1>6, <1>7
  <2> HIDE DEF s, o
  <2>2. x \in Works /\ x.step = "checked" /\ x.task = "amo" /\ x.id = o /\ x.todo = s.todo \ {o}
        /\ x.bound = s.bound /\ x.loaded = s.loaded /\ x.mine = s.mine /\ x.guest = s.guest
        /\ x.ownsFunds = s.ownsFunds /\ x.pos = s.pos /\ x.ownsPos = s.ownsPos /\ x.wrote = s.wrote
    BY <1>2, <1>3, <2>0 DEF Works, Steps
  <2> HIDE DEF x
  <2>3. SessionInv(x)
    BY <1>2, <1>3, <2>0, <2>2 DEF SessionInv, AtWork, Makes
  <2>4. WroteInv(x)
    BY <1>2, <1>3, <2>2 DEF WroteInv, Makes
  <2>5. Shows(s) => Shows(x)
    BY <1>1, <2>0, <2>2 DEF Shows
  <2>6. Joins(r, x) /\ ~Makes(x)
    <3>1. \A j \in Ids : Refers(x, j) => Refers(s, j)
      BY <2>0, <2>2 DEF Refers
    <3> QED
      BY <1>3, <2>2, <2>5, <3>1, AmoGoesOn DEF s
  <2>7. session' = [session EXCEPT ![r] = x]
    BY <1>7 DEF x
  <2> QED
    BY <1>1, <1>2, <1>4, <2>7, <2>2, <2>3, <2>4, <2>6, OneSession DEF Private
<1>8. CASE s.todo # {} /\ session' = [session EXCEPT ![r] =
                [[s EXCEPT !.id = o, !.todo = @ \ {o}] EXCEPT !.wrote[o] = Released(o)]]
  <2> DEFINE w == [s.wrote EXCEPT ![o] = Released(o)]
             x == [[s EXCEPT !.id = o, !.todo = @ \ {o}] EXCEPT !.wrote = w]
  <2>0. o \in s.todo /\ o \in Ids
    BY <1>6, <1>8
  <2>1. Released(o) \in Orders \ {NoOrder} /\ Released(o).trades = 0
        /\ Released(o).product = "DELIVERY"
    <3>1. order[o] # NoOrder
      BY <1>2, <1>3, <2>0 DEF IInv, OrdersInv, Refers
    <3> QED
      BY <2>0, <3>1, ReleasedIsOrder DEF IInv
  <2> HIDE DEF s, o
  <2>7. session' = [session EXCEPT ![r] = x]
    BY <1>2, <1>8 DEF Works
  <2>8. /\ w \in [Ids -> Orders] /\ w[o] = Released(o) /\ \A j \in Ids \ {o} : w[j] = s.wrote[j]
    BY <1>2, <2>0, <2>1 DEF Works
  <2> HIDE DEF w
  <2>2. x \in Works /\ x.step = "next" /\ x.task = "amo" /\ x.id = o /\ x.todo = s.todo \ {o}
        /\ x.bound = s.bound /\ x.loaded = s.loaded /\ x.mine = s.mine /\ x.guest = s.guest
        /\ x.ownsFunds = s.ownsFunds /\ x.pos = s.pos /\ x.ownsPos = s.ownsPos /\ x.wrote = w
    BY <1>1, <1>2, <1>3, <2>0, <2>8 DEF Works, Steps
  <2> HIDE DEF x
  <2>3. SessionInv(x)
    BY <1>2, <1>3, <2>0, <2>2 DEF SessionInv, AtWork, Makes
  <2>4. WroteInv(x)
    BY <1>2, <1>3, <2>1, <2>2, <2>8 DEF WroteInv, Makes
  <2>5. Shows(s) => Shows(x)
    BY <1>1, <2>0, <2>2, <2>8 DEF Shows
  <2>6. Joins(r, x) /\ ~Makes(x)
    <3>1. \A j \in Ids : Refers(x, j) => Refers(s, j)
      BY <2>0, <2>2, <2>8 DEF Refers
    <3> QED
      BY <1>3, <2>2, <2>5, <3>1, AmoGoesOn DEF s
  <2> QED
    BY <1>1, <1>2, <1>4, <2>7, <2>2, <2>3, <2>4, <2>6, OneSession DEF Private
<1> QED
  BY <1>5, <1>7, <1>8 DEF NextAmo

-----------------------------------------------------------------------------
(* Orders that are executed *)

\* The order of a request, as it goes to the broker.
LEMMA WorkingIsOrder ==
    ASSUME IInv, NEW r \in Requests, AtWork(session[r]), session[r].task # "cancel"
    PROVE  LET o == Working(session[r]) IN
           /\ o \in Orders \ {NoOrder}
           /\ o.product # "DELIVERY" => session[r].task = "route"
           /\ Makes(session[r]) => o = session[r].wrote[session[r].id]
           /\ session[r].task = "amo" => o.trades = 0
<1> DEFINE s == session[r]
<1>1. r \in Sessions /\ s \in Works /\ SessionInv(s) /\ WroteInv(s)
  BY DEF Sessions, IInv, TypeInv, Private
<1>2. s.id \in Ids /\ (Makes(s) \/ s.task = "amo")
  BY <1>1 DEF SessionInv, Works, Tasks, Makes
<1>3. CASE s.task = "amo"
  <2>1. order[s.id] # NoOrder
    BY <1>1, <1>2, <1>3 DEF IInv, OrdersInv, Refers
  <2>2. Released(s.id) \in Orders \ {NoOrder} /\ Released(s.id).trades = 0
        /\ Released(s.id).product = "DELIVERY"
    BY <1>2, <2>1, ReleasedIsOrder DEF IInv
  <2> QED
    BY <1>3, <2>2 DEF Working, Makes
<1>4. CASE Makes(s)
  <2>1. s.wrote[s.id] # NoOrder /\ s.wrote[s.id] \in Orders
    BY <1>1, <1>2, <1>4 DEF WroteInv, Works
  <2>2. s.wrote[s.id].product # "DELIVERY" => s.task = "route"
    BY <1>1, <1>2 DEF WroteInv
  <2>3. Working(s) = s.wrote[s.id] /\ s.task # "amo"
    BY <1>4 DEF Working, Makes
  <2> QED
    BY <2>1, <2>2, <2>3
<1> QED
  BY <1>2, <1>3, <1>4

LEMMA WrittenKeeps ==
    ASSUME IInv, NEW r \in Requests, session[r].step \in {"placed", "filled"},
           NEW o \in Orders, o # NoOrder, o.product # "DELIVERY" => session[r].task = "route",
           NEW f \in Purses, NEW settled \in BOOLEAN, NEW p,
           p \in Positions \/ session[r].task = "route",
           session[r].task = "route" =>
              Booked(p, o.side, o.qty, market.price, "DELIVERY", session[r].id) \in Positions,
           Written(r, o, f, settled, p),
           UNCHANGED <<order, funds, made>>, RestTyped',
           ~AnyOther /\ o.product = "DELIVERY" => Clean(f),
           IF settled THEN FundsFree(r) /\ o.trades > 0 ELSE session[r].step = "placed"
    PROVE  IInv'
<1> DEFINE s == session[r]
           again == s.task = "route"
           o2 == IF again THEN [Traded(o) EXCEPT !.status = "FILLED"] ELSE o
           p2 == IF again THEN Booked(p, o.side, o.qty, market.price, "DELIVERY", s.id) ELSE p
           st == IF s.task = "amo" THEN "next" ELSE "written"
           x == [s EXCEPT !.step = st, !.mine = f, !.ownsFunds = @ \/ settled,
                          !.pos = p2, !.ownsPos = @ \/ settled \/ again, !.wrote[s.id] = o2]
           y == [s EXCEPT !.step = st, !.mine = f, !.ownsFunds = @ \/ settled,
                          !.pos = p2, !.ownsPos = @ \/ (settled \/ again), !.wrote[s.id] = o2]
<1>1. session' = [session EXCEPT ![r] = x]
  BY DEF Written
<1>2. x = y
  OBVIOUS
<1>3. r \in Sessions /\ s \in Works /\ SessionInv(s) /\ WroteInv(s)
  BY DEF Sessions, IInv, TypeInv, Private
<1>4. s.id \in Ids /\ s.task \in {"route", "template", "amo"} /\ s.loaded /\ s.id \notin s.todo
      /\ s.bound
  BY <1>3 DEF SessionInv, AtWork, Works, Tasks
<1>5. /\ o2 \in Orders \ {NoOrder} /\ o2.product = o.product
      /\ again => o2.status = "FILLED"
      /\ settled => o2.trades > 0
  <2>1. Traded(o) \in Orders \ {NoOrder} /\ Traded(o).trades > 0 /\ Traded(o).product = o.product
    BY TradedIsOrder
  <2>2. [Traded(o) EXCEPT !.status = "FILLED"] \in Orders \ {NoOrder}
        /\ [Traded(o) EXCEPT !.status = "FILLED"].product = o.product
        /\ [Traded(o) EXCEPT !.status = "FILLED"].status = "FILLED"
        /\ [Traded(o) EXCEPT !.status = "FILLED"].trades > 0
    <3> DEFINE t == Traded(o)
    <3> HIDE DEF t
    <3>1. "FILLED" \in Statuses /\ t \in Orders /\ t # NoOrder
      BY <2>1 DEF Statuses, t
    <3>2. [t EXCEPT !.status = "FILLED"] \in Orders \ {NoOrder}
          /\ [t EXCEPT !.status = "FILLED"].product = t.product
          /\ [t EXCEPT !.status = "FILLED"].status = "FILLED"
          /\ [t EXCEPT !.status = "FILLED"].trades = t.trades
      BY <3>1 DEF Orders, NoOrder, Statuses
    <3> QED
      BY <2>1, <3>2 DEF t
  <2> QED
    BY <2>2
<1>6. p2 \in Positions /\ st \in Steps /\ st \in {"next", "written"} /\ (settled \/ again) \in BOOLEAN
      /\ (st = "next" <=> s.task = "amo")
  BY DEF Steps
<1> HIDE DEF s, o2, p2, st, x
<1>7. /\ x \in Works /\ x.step = st /\ x.task = s.task /\ x.id = s.id /\ x.todo = s.todo
      /\ x.bound = s.bound /\ x.loaded = s.loaded /\ x.mine = f /\ x.guest = s.guest
      /\ x.ownsFunds = (s.ownsFunds \/ settled) /\ x.pos = p2
      /\ x.wrote = [s.wrote EXCEPT ![s.id] = o2]
  <2> DEFINE w == [s.wrote EXCEPT ![s.id] = o2]
             fb == s.ownsFunds \/ settled
             pc == s.ownsPos \/ (settled \/ again)
             z == [s EXCEPT !.step = st, !.mine = f, !.ownsFunds = fb, !.pos = p2,
                            !.ownsPos = pc, !.wrote = w]
  <2>1. w \in [Ids -> Orders] /\ fb \in BOOLEAN /\ pc \in BOOLEAN
    BY <1>3, <1>4, <1>5 DEF Works
  <2>2. x = z
    BY <1>2
  <2> HIDE DEF w, fb, pc
  <2>3. /\ z \in Works /\ z.step = st /\ z.task = s.task /\ z.id = s.id /\ z.todo = s.todo
        /\ z.bound = s.bound /\ z.loaded = s.loaded /\ z.mine = f /\ z.guest = s.guest
        /\ z.ownsFunds = fb /\ z.pos = p2 /\ z.wrote = w
    BY <1>3, <1>6, <2>1 DEF Works
  <2> QED
    BY <2>2, <2>3 DEF w, fb
<1>8. x.wrote[s.id] = o2 /\ \A j \in Ids \ {s.id} : x.wrote[j] = s.wrote[j]
  BY <1>3, <1>4, <1>7 DEF Works
<1>9. SessionInv(x)
  BY <1>3, <1>4, <1>6, <1>7 DEF SessionInv, AtWork, Makes
<1>10. WroteInv(x)
  <2>1. Makes(x) => \A j \in Ids : x.wrote[j] # NoOrder <=> j = x.id
    BY <1>3, <1>4, <1>5, <1>7, <1>8 DEF WroteInv, Makes
  <2>2. \A j \in Ids : x.wrote[j].product # "DELIVERY" => x.task = "route" /\ j = x.id
    BY <1>3, <1>4, <1>5, <1>7, <1>8 DEF WroteInv, s
  <2>3. x.task = "route" => x.wrote[x.id].status = "FILLED"
    BY <1>5, <1>7, <1>8
  <2> QED
    BY <1>4, <1>6, <1>7, <2>1, <2>2, <2>3 DEF WroteInv, Makes
<1>11. Joins(r, x)
  <2>1. Makes(x) => /\ order[x.id] = NoOrder
                    /\ \A q \in Sessions \ {r} : Makes(session[q]) => session[q].id # x.id
    BY <1>3, <1>7 DEF IInv, OrdersInv, Makes, s
  <2>2. x.task \in {"amo", "cancel"} =>
          \A j \in Ids : Refers(x, j) => order[j] # NoOrder /\ ~Other(order[j])
    <3>1. \A j \in Ids : Refers(x, j) => Refers(s, j)
      BY <1>7, <1>8 DEF Refers
    <3> QED
      BY <1>3, <1>7, <3>1 DEF IInv, OrdersInv, s
  <2>3. ~AnyOther /\ x.loaded /\ ~Spoilt(x) => Clean(x.mine)
    <3> SUFFICES ASSUME ~AnyOther, ~Spoilt(x) PROVE Clean(f)
      BY <1>7
    <3>1. o.product = "DELIVERY"
      BY <1>4, <1>5, <1>6, <1>7, <1>8 DEF Spoilt, s
    <3> QED
      BY <3>1
  <2>4. x.ownsFunds => \A q \in Sessions \ {r} : ~session[q].ownsFunds
    <3>1. s.ownsFunds => \A q \in Sessions \ {r} : ~session[q].ownsFunds
      BY <1>3 DEF IInv, OwnerInv, s
    <3>2. settled => \A q \in Sessions \ {r} : ~session[q].ownsFunds
      BY DEF FundsFree
    <3> QED
      BY <1>7, <3>1, <3>2
  <2>5. x.ownsFunds /\ ~x.guest => Shows(x)
    <3>1. CASE settled
      <4>1. x.wrote[s.id].trades > 0 /\ s.id \notin x.todo /\ x.step \notin {"checked", "placed"}
        BY <1>4, <1>5, <1>6, <1>7, <1>8, <3>1
      <4> QED
        BY <1>4, <4>1 DEF Shows
    <3>2. CASE ~settled
      <4> SUFFICES ASSUME s.ownsFunds, ~s.guest PROVE Shows(x)
        BY <1>7, <3>2
      <4>1. s.step = "placed" /\ Shows(s)
        BY <3>2 DEF IInv, TradesInv, s
      <4>2. PICK j \in Ids : s.wrote[j].trades > 0 /\ j \notin s.todo /\ j # s.id
        BY <4>1 DEF Shows
      <4> QED
        BY <1>6, <1>7, <1>8, <4>2 DEF Shows
    <3> QED
      BY <3>1, <3>2
  <2> QED
    BY <2>1, <2>2, <2>3, <2>4, <2>5 DEF Joins
<1>12. made <= made' /\ (Makes(x) => x.id <= made')
  <2>1. made \in Nat
    BY DeskAssumption DEF IInv, TypeInv
  <2> QED
    BY <1>3, <1>7, <2>1 DEF IInv, OrdersInv, Makes, s
<1> QED
  BY <1>1, <1>3, <1>7, <1>9, <1>10, <1>11, <1>12, OneSession DEF Private

\* What the broker or the service raises keeps the invariant.
LEMMA RaisedKeeps ==
    ASSUME IInv, NEW r \in Requests, session[r].step \in {"placed", "filled"},
           NEW o \in Orders, o # NoOrder, session[r].task = "amo" => o.product = "DELIVERY",
           session[r].step = "filled" => o.trades > 0, Raised(r, o),
           UNCHANGED <<order, funds, position, holding, market, made>>
    PROVE  IInv'
<1> DEFINE s == session[r]
<1>1. CASE s.task # "amo"
  BY <1>1, EndedKeeps DEF Raised
<1>2. CASE s.task = "amo"
  <2> DEFINE o2 == [o EXCEPT !.status = "REJECTED"]
             w == [s.wrote EXCEPT ![s.id] = o2]
             x == [s EXCEPT !.step = "next", !.wrote = w]
  <2>1. r \in Sessions /\ s \in Works /\ SessionInv(s) /\ WroteInv(s)
    BY DEF Sessions, IInv, TypeInv, Private
  <2>2. s.id \in Ids /\ s.id \notin s.todo
    BY <2>1 DEF SessionInv, AtWork
  <2>3. session' = [session EXCEPT ![r] = x] /\ UNCHANGED provider
    <3>1. session' = [session EXCEPT ![r] = [s EXCEPT !.step = "next", !.wrote[s.id] = o2]]
          /\ UNCHANGED provider
      BY <1>2 DEF Raised
    <3> QED
      BY <3>1
  <2>4. o2 \in Orders \ {NoOrder} /\ o2.product = o.product /\ o2.trades = o.trades
    BY DEF Orders, NoOrder, Statuses
  <2> HIDE DEF s, o2
  <2>5. w \in [Ids -> Orders] /\ w[s.id] = o2 /\ \A j \in Ids \ {s.id} : w[j] = s.wrote[j]
    BY <2>1, <2>2, <2>4 DEF Works
  <2> HIDE DEF w
  <2>6. /\ x \in Works /\ x.step = "next" /\ x.task = "amo" /\ x.id = s.id /\ x.todo = s.todo
        /\ x.bound = s.bound /\ x.loaded = s.loaded /\ x.mine = s.mine /\ x.guest = s.guest
        /\ x.ownsFunds = s.ownsFunds /\ x.pos = s.pos /\ x.ownsPos = s.ownsPos /\ x.wrote = w
    BY <1>2, <2>1, <2>5 DEF Works, Steps
  <2> HIDE DEF x
  <2>7. SessionInv(x)
    BY <2>1, <2>2, <2>6 DEF SessionInv, AtWork, Makes
  <2>8. WroteInv(x)
    BY <1>2, <2>1, <2>2, <2>4, <2>5, <2>6 DEF WroteInv, Makes, s
  <2>9. Shows(s) => Shows(x)
    <3> SUFFICES ASSUME Shows(s) PROVE Shows(x)
      OBVIOUS
    <3>1. CASE s.step = "filled"
      <4>1. x.wrote[s.id].trades > 0 /\ s.id \notin x.todo /\ x.step \notin {"checked", "placed"}
        BY <2>2, <2>4, <2>5, <2>6, <3>1 DEF s
      <4> QED
        BY <2>2, <4>1 DEF Shows
    <3>2. CASE s.step = "placed"
      <4>1. PICK j \in Ids : s.wrote[j].trades > 0 /\ j \notin s.todo /\ j # s.id
        BY <3>2 DEF Shows
      <4> QED
        BY <2>5, <2>6, <4>1 DEF Shows
    <3> QED
      BY <3>1, <3>2 DEF s
  <2>10. Joins(r, x) /\ ~Makes(x)
    <3>1. \A j \in Ids : Refers(x, j) => Refers(s, j)
      BY <2>5, <2>6 DEF Refers
    <3> QED
      BY <1>2, <2>6, <2>9, <3>1, AmoGoesOn DEF s
  <2>11. RestTyped' /\ made <= made'
    BY <2>3, DeskAssumption DEF IInv, TypeInv, RestTyped
  <2> QED
    BY <2>1, <2>3, <2>6, <2>7, <2>8, <2>10, <2>11, OneSession DEF Private
<1> QED
  BY <1>1, <1>2

\* What a request at the broker sees of its session.
LEMMA SeenAtBroker ==
    ASSUME IInv, NEW r \in Requests, session[r].step \in {"placed", "filled"}
    PROVE  /\ r \in Sessions /\ session[r] \in Works /\ session[r].id \in Ids
           /\ session[r].task \in {"route", "template", "amo"} /\ AtWork(session[r])
           /\ session[r].mine \in Purses /\ SeenFunds(session[r]) = session[r].mine
           /\ SeenPosition(session[r]) \in Positions
           /\ ~AnyOther => Clean(session[r].mine)
<1> DEFINE s == session[r]
<1>1. r \in Sessions /\ s \in Works /\ SessionInv(s)
  BY DEF Sessions, IInv, TypeInv, Private
<1>2. s.id \in Ids /\ s.task \in {"route", "template", "amo"} /\ AtWork(s) /\ s.loaded
      /\ ~Spoilt(s) /\ s.mine \in Purses
  BY <1>1 DEF SessionInv, AtWork, Works, Tasks, Spoilt
<1>3. SeenPosition(s) \in Positions
  BY <1>1, SeenIsTyped DEF IInv, SessionInv
<1>4. ~AnyOther => Clean(s.mine)
  BY <1>1, <1>2 DEF IInv, CleanInv
<1> QED
  BY <1>1, <1>2, <1>3, <1>4 DEF SeenFunds

LEMMA RejectKeeps == ASSUME IInv, NEW r \in Requests, Reject(r) PROVE IInv'
<1> DEFINE s == session[r]
           w == Working(s)
           o == [w EXCEPT !.status = "REJECTED"]
           p == SeenPosition(s)
<1>1. /\ s.step = "placed" /\ Written(r, o, s.mine, FALSE, p)
      /\ UNCHANGED <<order, funds, position, holding, provider, market, made>>
  BY DEF Reject
<1>2. /\ r \in Sessions /\ s.id \in Ids /\ s.task \in {"route", "template", "amo"} /\ AtWork(s)
      /\ s.mine \in Purses /\ p \in Positions /\ (~AnyOther => Clean(s.mine))
  BY <1>1, SeenAtBroker
<1>3. w \in Orders \ {NoOrder} /\ (w.product # "DELIVERY" => s.task = "route")
  BY <1>2, WorkingIsOrder
<1> HIDE DEF w, p
<1>4. o \in Orders \ {NoOrder} /\ o.product = w.product
  BY <1>3 DEF Orders, NoOrder, Statuses
<1>5. o.side \in Sides /\ o.qty \in Nat \ {0}
  BY <1>4, OrderFields
<1>6. market.price \in Nat /\ RestTyped'
  BY <1>1, DeskAssumption DEF IInv, TypeInv, RestTyped
<1> HIDE DEF o
<1>7. Booked(p, o.side, o.qty, market.price, "DELIVERY", s.id) \in Positions
  BY <1>2, <1>5, <1>6, BookedIsPosition
<1> QED
  BY <1>1, <1>2, <1>3, <1>4, <1>6, <1>7, WrittenKeeps

LEMMA SettleKeeps == ASSUME IInv, NEW r \in Requests, Settle(r) PROVE IInv'
<1> DEFINE s == session[r]
           o == s.wrote[s.id]
           v == Value(o, PaperPrice)
           p == SeenPosition(s)
           f == SeenFunds(s)
           g == Settled(f, o.side, o.qty, v, Fees(v), o.product, p.qty, p.cost)
           b == Booked(p, o.side, o.qty, PaperPrice, o.product, s.id)
           t == [Traded(o) EXCEPT !.status = "FILLED"]
           refused == Refused(f, o.side, o.qty, v, Fees(v), o.product, p.qty)
<1>1. /\ s.step = "filled" /\ FundsFree(r) /\ PositionFree(r)
      /\ UNCHANGED <<order, funds, position, holding, market, made>>
      /\ IF refused THEN Raised(r, Traded(o)) ELSE Written(r, t, g, TRUE, b) /\ UNCHANGED provider
  BY DEF Settle
<1>2. /\ r \in Sessions /\ s.id \in Ids /\ s.task \in {"route", "template", "amo"} /\ AtWork(s)
      /\ s \in Works /\ f \in Purses /\ p \in Positions /\ (~AnyOther => Clean(f))
  BY <1>1, SeenAtBroker
<1>3. o \in Orders \ {NoOrder} /\ (o.product # "DELIVERY" => s.task = "route")
  <2>1. WroteInv(s) /\ o \in Orders
    BY <1>2 DEF IInv, Private, Works
  <2>2. o # NoOrder
    BY <1>1, <1>2, <2>1 DEF WroteInv, Makes
  <2> QED
    BY <1>2, <2>1, <2>2 DEF WroteInv
<1> HIDE DEF o, p, f, v
<1>4. o.side \in Sides /\ o.qty \in Nat \ {0} /\ o.product \in Products
  BY <1>3, OrderFields
<1>5. v \in Nat /\ Fees(v) \in Nat
  BY <1>3, DeskAssumption, ValueIsNat DEF v
<1>6. Traded(o) \in Orders \ {NoOrder} /\ Traded(o).trades > 0 /\ Traded(o).product = o.product
  BY <1>3, TradedIsOrder
<1>7. CASE refused
  BY <1>1, <1>3, <1>6, <1>7, RaisedKeeps
<1>8. CASE ~refused
  <2>1. p.qty \in Nat /\ p.cost \in Nat
    BY <1>2 DEF Positions
  <2>2. g \in Purses
    BY <1>2, <1>4, <1>5, <2>1, SettledIsPurse
  <2>3. ~AnyOther /\ o.product = "DELIVERY" => Clean(g)
    BY <1>2, <1>4, <1>5, <1>8, <2>1, DeliveryStaysClean
  <2>4. /\ t \in Orders /\ t # NoOrder /\ t.product = o.product /\ t.trades > 0
        /\ t.side = o.side /\ t.qty = o.qty
    <3> DEFINE u == Traded(o)
    <3>1. u.side = o.side /\ u.qty = o.qty
      BY <1>3 DEF Traded, Orders
    <3>2. u \in Orders \ {NoOrder} /\ u.product = o.product /\ u.trades > 0
      BY <1>6
    <3> HIDE DEF u
    <3>3. [u EXCEPT !.status = "FILLED"] \in Orders \ {NoOrder}
          /\ [u EXCEPT !.status = "FILLED"].product = u.product
          /\ [u EXCEPT !.status = "FILLED"].trades = u.trades
          /\ [u EXCEPT !.status = "FILLED"].side = u.side
          /\ [u EXCEPT !.status = "FILLED"].qty = u.qty
      BY <3>2 DEF Orders, NoOrder, Statuses
    <3> QED
      BY <3>1, <3>2, <3>3 DEF u
  <2>5. market.price \in Nat /\ PaperPrice \in Nat
    BY DeskAssumption DEF IInv, TypeInv
  <2>6. o.product = "DELIVERY" => b \in Positions
    BY <1>2, <1>4, <2>5, BookedIsPosition
  <2>7. Booked(b, o.side, o.qty, market.price, "DELIVERY", s.id) \in Positions
    BY <1>2, <1>4, <2>5, BookedIsPosition
  <2>8. provider' = provider /\ RestTyped'
    BY <1>1, <1>8 DEF IInv, TypeInv, RestTyped
  <2> HIDE DEF g, b, t, refused
  <2>9. Written(r, t, g, TRUE, b)
    BY <1>1, <1>8
  <2> QED
    BY <1>1, <1>3, <2>2, <2>3, <2>4, <2>6, <2>7, <2>8, <2>9, WrittenKeeps
<1> QED
  BY <1>7, <1>8

-----------------------------------------------------------------------------
(* Steps in the session of another request *)

\* Sessions that refer to no more orders than they did.
LEMMA OrdersKept ==
    ASSUME OrdersInv, UNCHANGED <<order, made>>,
           \A q \in Sessions :
              \/ session'[q].task = "none"
              \/ /\ session'[q].task = session[q].task /\ session'[q].id = session[q].id
                 /\ \A o \in Ids : Refers(session'[q], o) => Refers(session[q], o)
    PROVE  OrdersInv'
<1>1. ASSUME NEW q \in Sessions, Makes(session'[q])
      PROVE  Makes(session[q]) /\ session'[q].id = session[q].id
  BY <1>1 DEF Makes
<1>2. ASSUME NEW q \in Sessions, Makes(session'[q])
      PROVE  /\ session'[q].id <= made' /\ order'[session'[q].id] = NoOrder
             /\ \A p \in Sessions \ {q} : Makes(session'[p]) => session'[p].id # session'[q].id
  <2>1. Makes(session[q]) /\ session'[q].id = session[q].id
    BY <1>1, <1>2
  <2> QED
    BY <1>1, <2>1 DEF OrdersInv
<1>3. ASSUME NEW q \in Sessions, session'[q].task \in {"amo", "cancel"}, NEW o \in Ids,
             Refers(session'[q], o)
      PROVE  order'[o] # NoOrder /\ ~Other(order'[o])
  <2>1. session[q].task \in {"amo", "cancel"} /\ Refers(session[q], o)
    BY <1>3
  <2> QED
    BY <2>1 DEF OrdersInv
<1> QED
  BY <1>2, <1>3 DEF OrdersInv

\* The session of the provider, as it has read the funds and the position.
Reads(s) == [s EXCEPT !.loaded = TRUE, !.mine = SeenFunds(s), !.pos = SeenPosition(s)]

LEMMA ReadsKeeps ==
    ASSUME IInv, NEW q \in Sessions
    PROVE  LET s == session[q]
               x == Reads(s)
           IN /\ x \in Works /\ Private(x) /\ x.step = s.step /\ x.task = s.task /\ x.id = s.id
              /\ x.todo = s.todo /\ x.bound = s.bound /\ x.guest = s.guest
              /\ x.ownsFunds = s.ownsFunds /\ x.ownsPos = s.ownsPos /\ x.wrote = s.wrote
              /\ x.loaded /\ SeenPosition(s).qty \in Nat
              /\ ~AnyOther /\ ~Spoilt(x) => Clean(x.mine)
<1> DEFINE s == session[q]
           x == Reads(s)
           f == SeenFunds(s)
           p == SeenPosition(s)
<1>1. s \in Works /\ SessionInv(s) /\ WroteInv(s)
  BY DEF IInv, TypeInv, Private
<1>2. f \in Purses /\ p \in Positions
  BY <1>1, SeenIsTyped DEF IInv, SessionInv
<1>3. ~AnyOther /\ ~Spoilt(s) => Clean(f)
  BY DEF IInv, CleanInv, SeenFunds
<1>4. x = [s EXCEPT !.loaded = TRUE, !.mine = f, !.pos = p]
  BY DEF Reads
<1> HIDE DEF s, f, p, x
<1>5. /\ x \in Works /\ x.step = s.step /\ x.task = s.task /\ x.id = s.id
      /\ x.todo = s.todo /\ x.bound = s.bound /\ x.guest = s.guest
      /\ x.ownsFunds = s.ownsFunds /\ x.ownsPos = s.ownsPos /\ x.wrote = s.wrote
      /\ x.loaded /\ x.mine = f /\ x.pos = p
  BY <1>1, <1>2, <1>4 DEF Works
<1>6. SessionInv(x)
  BY <1>1, <1>2, <1>5 DEF SessionInv, AtWork, Makes
<1>7. WroteInv(x)
  BY <1>1, <1>5 DEF WroteInv, Makes
<1>8. ~AnyOther /\ ~Spoilt(x) => Clean(x.mine)
  BY <1>3, <1>5 DEF Spoilt
<1>9. p.qty \in Nat
  BY <1>2 DEF Positions
<1> QED
  BY <1>5, <1>6, <1>7, <1>8, <1>9 DEF Private, s, x, p

LEMMA AtBrokerKeeps == ASSUME IInv, NEW r \in Requests, AtBroker(r) PROVE IInv'
<1> DEFINE s == session[r]
           o == Working(s)
           v == Value(o, PaperPrice)
           p == IF s.bound THEN provider ELSE r
           seen == session[p]
           h == SeenPosition(seen).qty
           j == IF o.side = "BUY" THEN v + Fees(v) > Available(SeenFunds(seen))
                ELSE holding < o.qty
           T(q) == IF q = Closed /\ q # p THEN Idle ELSE IF q # p THEN session[q] ELSE Reads(seen)
           y == [T(r) EXCEPT !.step = "placed", !.bound = TRUE, !.held = h, !.rejected = j]
<1>1. /\ s.step = "checked" /\ s.task # "cancel" /\ provider' = p
      /\ session' = [q \in Sessions |-> IF q # r THEN T(q) ELSE y]
      /\ UNCHANGED <<order, funds, position, holding, market, made>>
  BY DEF AtBroker, Reads
<1>2. r \in Sessions /\ s \in Works /\ SessionInv(s) /\ WroteInv(s)
  BY DEF Sessions, IInv, TypeInv, Private
<1>3. r # Closed /\ p \in Sessions
  BY <1>2, DeskAssumption DEF IInv, TypeInv
<1>4. ASSUME NEW q \in Sessions
      PROVE  /\ T(q) \in Works /\ Private(T(q))
             /\ \/ T(q) = Idle /\ q # r
                \/ LET z == session[q]
                       x == T(q)
                   IN /\ x.step = z.step /\ x.task = z.task /\ x.id = z.id
                      /\ x.todo = z.todo /\ x.bound = z.bound /\ x.guest = z.guest
                      /\ x.ownsFunds = z.ownsFunds /\ x.ownsPos = z.ownsPos /\ x.wrote = z.wrote
                      /\ (z.loaded => x.loaded) /\ (q = p => x.loaded)
                      /\ (~AnyOther /\ x.loaded /\ ~Spoilt(x) => Clean(x.mine))
  <2>1. CASE q = Closed /\ q # p
    BY <1>3, <2>1, IdleIsPrivate
  <2>2. CASE q # Closed /\ q # p
    BY <1>4, <2>2 DEF IInv, TypeInv, CleanInv
  <2>3. CASE q = p
    <3>1. T(q) = Reads(session[q])
      BY <2>3
    <3> HIDE DEF T
    <3> QED
      BY <1>4, <3>1, ReadsKeeps
  <2> QED
    BY <2>1, <2>2, <2>3
<1>5. h \in Nat /\ j \in BOOLEAN
  <2>1. h \in Nat
    <3> HIDE DEF p
    <3> QED
      BY <1>3, ReadsKeeps
  <2>2. j \in BOOLEAN
    <3>1. o \in Orders
      BY <1>1, WorkingIsOrder DEF AtWork
    <3>2. v \in Nat /\ Fees(v) \in Nat /\ o.qty \in Nat
      BY <3>1, DeskAssumption, ValueIsNat, OrderFields
    <3>3. SeenFunds(seen) \in Purses
      <4> HIDE DEF p
      <4> QED
        BY <1>3, SeenIsTyped DEF IInv, TypeInv, Private, SessionInv
    <3> DEFINE a == v + Fees(v)
               c == Available(SeenFunds(seen))
    <3>4. a \in Int /\ c \in Int /\ holding \in Int
      BY <3>2, <3>3 DEF Available, Purses, IInv, TypeInv
    <3> HIDE DEF o, v, p, a, c
    <3>5. (a > c) \in BOOLEAN /\ (holding < o.qty) \in BOOLEAN
      BY <3>2, <3>4
    <3> QED
      BY <3>5, Zenon DEF a, c
  <2> QED
    BY <2>1, <2>2
<1> DEFINE z == T(r)
<1>6. /\ z \in Works /\ SessionInv(z) /\ WroteInv(z) /\ z.step = "checked" /\ z.task = s.task
      /\ z.id = s.id /\ z.todo = s.todo /\ z.bound = s.bound /\ z.guest = s.guest
      /\ z.ownsFunds = s.ownsFunds /\ z.ownsPos = s.ownsPos /\ z.wrote = s.wrote
      /\ (s.loaded => z.loaded) /\ (r = p => z.loaded)
      /\ (~AnyOther /\ z.loaded /\ ~Spoilt(z) => Clean(z.mine))
  <2> HIDE DEF T, p
  <2> QED
    BY <1>1, <1>2, <1>4 DEF Private
<1>7. z.loaded
  BY <1>2, <1>6 DEF SessionInv
<1> HIDE DEF h, j, z, s
<1>8. /\ y \in Works /\ y.step = "placed" /\ y.task = s.task /\ y.id = s.id /\ y.todo = s.todo
      /\ y.bound /\ y.loaded /\ y.mine = z.mine /\ y.guest = s.guest /\ y.pos = z.pos
      /\ y.ownsFunds = s.ownsFunds /\ y.ownsPos = s.ownsPos /\ y.wrote = s.wrote
  <2>1. y = [z EXCEPT !.step = "placed", !.bound = TRUE, !.held = h, !.rejected = j]
    BY DEF z
  <2> HIDE DEF y
  <2>2. /\ y \in Works /\ y.step = "placed" /\ y.task = z.task /\ y.id = z.id /\ y.todo = z.todo
        /\ y.bound /\ y.loaded = z.loaded /\ y.mine = z.mine /\ y.guest = z.guest /\ y.pos = z.pos
        /\ y.ownsFunds = z.ownsFunds /\ y.ownsPos = z.ownsPos /\ y.wrote = z.wrote
    BY <1>5, <1>6, <2>1 DEF Works, Steps
  <2> QED
    BY <1>6, <1>7, <2>2
<1> HIDE DEF y, T
<1>9. SessionInv(y)
  BY <1>1, <1>2, <1>6, <1>8 DEF SessionInv, AtWork, Makes, s
<1>10. WroteInv(y)
  BY <1>1, <1>2, <1>8 DEF WroteInv, Makes, s
<1>11. session'[r] = y /\ \A q \in Sessions \ {r} : session'[q] = T(q)
  BY <1>1, <1>2
<1>12. TypeInv'
  <2>1. session' \in [Sessions -> Works]
    BY <1>1, <1>4, <1>8
  <2>2. provider' \in Sessions
    BY <1>1, <1>3
  <2> QED
    BY <1>1, <2>1, <2>2 DEF IInv, TypeInv
<1>13. \A q \in Sessions : Private(session'[q])
  BY <1>4, <1>9, <1>10, <1>11 DEF Private
<1>14. OrdersInv'
  <2>1. \A q \in Sessions :
              \/ session'[q].task = "none"
              \/ /\ session'[q].task = session[q].task /\ session'[q].id = session[q].id
                 /\ session'[q].todo = session[q].todo /\ session'[q].wrote = session[q].wrote
    BY <1>4, <1>8, <1>11, IdleIsPrivate DEF s
  <2>2. \A q \in Sessions :
              \/ session'[q].task = "none"
              \/ /\ session'[q].task = session[q].task /\ session'[q].id = session[q].id
                 /\ \A i \in Ids : Refers(session'[q], i) => Refers(session[q], i)
    BY <2>1 DEF Refers
  <2> QED
    BY <1>1, <2>2, OrdersKept DEF IInv
<1>15. CleanInv'
  <2> SUFFICES ASSUME ~AnyOther
               PROVE  /\ Clean(funds)
                      /\ \A q \in Sessions :
                            session'[q].loaded /\ ~Spoilt(session'[q]) => Clean(session'[q].mine)
    BY <1>1 DEF CleanInv, AnyOther
  <2>1. Clean(funds)
    BY DEF IInv, CleanInv
  <2>2. ~Spoilt(z)
    BY <1>6 DEF Spoilt
  <2>3. ~Spoilt(y) => Clean(y.mine)
    BY <1>6, <1>7, <1>8, <2>2
  <2>4. \A q \in Sessions : T(q).loaded /\ ~Spoilt(T(q)) => Clean(T(q).mine)
    BY <1>4, IdleIsPrivate
  <2> QED
    BY <1>11, <2>1, <2>3, <2>4
<1>16. OwnerInv'
  <2>1. \A q \in Sessions : session'[q].ownsFunds => session[q].ownsFunds
    BY <1>4, <1>8, <1>11, IdleIsPrivate DEF s
  <2> QED
    BY <2>1 DEF IInv, OwnerInv
<1>17. TradesInv'
  <2>1. ASSUME NEW q \in Requests, session'[q].ownsFunds, ~session'[q].guest
        PROVE  Shows(session'[q])
    <3>1. CASE q = r
      <4>1. Shows(s) /\ s.step = "checked"
        BY <1>1, <1>8, <1>11, <2>1, <3>1 DEF IInv, TradesInv, s
      <4> QED
        BY <1>8, <1>11, <3>1, <4>1 DEF Shows
    <3>2. CASE q # r
      <4>1. q \in Sessions /\ session'[q] = T(q) /\ session'[q] # Idle
        BY <1>11, <2>1, <3>2, IdleIsPrivate DEF Sessions
      <4>2. LET x == session'[q]
                k == session[q]
            IN x.step = k.step /\ x.id = k.id /\ x.todo = k.todo /\ x.wrote = k.wrote
               /\ x.ownsFunds = k.ownsFunds /\ x.guest = k.guest
        BY <1>4, <4>1
      <4>3. Shows(session[q])
        BY <2>1, <4>2 DEF IInv, TradesInv
      <4> QED
        BY <4>2, <4>3 DEF Shows
    <3> QED
      BY <3>1, <3>2
  <2> QED
    BY <2>1 DEF TradesInv
<1> QED
  BY <1>12, <1>13, <1>14, <1>15, <1>16, <1>17 DEF IInv

LEMMA FillKeeps == ASSUME IInv, NEW r \in Requests, Fill(r) PROVE IInv'
<1> DEFINE s == session[r]
           o == Working(s)
           v == Value(o, PaperPrice)
           p == provider
           f == SeenFunds(session[p])
           g == Settled(f, o.side, o.qty, v, Fees(v), "DELIVERY", s.held, 0)
           refused == Refused(f, o.side, o.qty, v, Fees(v), "DELIVERY", s.held)
           T(q) == IF q # p THEN session[q]
                   ELSE [session[p] EXCEPT !.loaded = TRUE, !.ownsFunds = TRUE,
                                           !.guest = @ \/ p # r, !.mine = g]
           Y(q) == [T(q) EXCEPT !.step = "filled", !.wrote[s.id] = o]
           y == Y(r)
<1>1. /\ s.step = "placed" /\ UNCHANGED <<order, funds, position, market, made>>
      /\ \/ /\ refused \/ p \in Requests \ {r}
            /\ Raised(r, o) /\ UNCHANGED holding
         \/ /\ ~refused /\ FundsFree(p) /\ UNCHANGED provider
            /\ holding' = IF o.side = "BUY" THEN holding + o.qty
                          ELSE IF holding > o.qty THEN holding - o.qty ELSE 0
            /\ session' = [q \in Sessions |-> IF q # r THEN T(q) ELSE Y(q)]
  BY DEF Fill
<1>2. /\ r \in Sessions /\ s \in Works /\ s.id \in Ids /\ s.task \in {"route", "template", "amo"}
      /\ AtWork(s)
  BY <1>1, SeenAtBroker
<1>3. /\ o \in Orders \ {NoOrder} /\ (o.product # "DELIVERY" => s.task = "route")
      /\ (Makes(s) => o = s.wrote[s.id])
  BY <1>2, WorkingIsOrder
<1>4. ASSUME Raised(r, o), UNCHANGED holding PROVE IInv'
  <2> HIDE DEF o
  <2> QED
    BY <1>1, <1>3, <1>4, RaisedKeeps
<1>5. ASSUME ~refused, FundsFree(p), UNCHANGED provider,
             holding' = IF o.side = "BUY" THEN holding + o.qty
                        ELSE IF holding > o.qty THEN holding - o.qty ELSE 0,
             session' = [q \in Sessions |-> IF q # r THEN T(q) ELSE Y(q)]
      PROVE  IInv'
  <2>0. session' = [q \in Sessions |-> IF q # r THEN T(q) ELSE y]
    <3> HIDE DEF T, Y
    <3> QED
      BY <1>5
  <2>1. SessionInv(s) /\ WroteInv(s) /\ s.held \in Nat /\ p \in Sessions
    BY <1>2 DEF IInv, TypeInv, Private, Works
  <2>2. o.side \in Sides /\ o.qty \in Nat /\ v \in Nat /\ Fees(v) \in Nat
    <3> HIDE DEF o
    <3> QED
      BY <1>3, DeskAssumption, ValueIsNat, OrderFields
  <2> DEFINE k == session[p]
  <2>3. k \in Works /\ SessionInv(k) /\ WroteInv(k) /\ f \in Purses
    <3>1. k \in Works /\ SessionInv(k) /\ WroteInv(k)
      BY <2>1 DEF IInv, TypeInv, Private
    <3> HIDE DEF p, k
    <3> QED
      BY <3>1, SeenIsTyped DEF IInv, SessionInv, k
  <2>4. ~AnyOther /\ ~Spoilt(k) => Clean(f)
    BY <2>1 DEF IInv, CleanInv, SeenFunds
  <2>5. holding' \in Nat
    <3>1. holding \in Nat
      BY DEF IInv, TypeInv
    <3> HIDE DEF o, T, Y
    <3> QED
      BY <1>5, <2>2, <3>1
  <2> HIDE DEF o, v, f
  <2>6. g \in Purses
    BY <2>1, <2>2, <2>3, SettledIsPurse DEF Products
  <2>7. ~AnyOther /\ ~Spoilt(k) => Clean(g)
    BY <1>5, <2>1, <2>2, <2>3, <2>4, DeliveryStaysClean
  <2> DEFINE b == k.guest \/ p # r
             t == [k EXCEPT !.loaded = TRUE, !.ownsFunds = TRUE, !.guest = b, !.mine = g]
  <2>8. T(p) = t
    OBVIOUS
  <2> HIDE DEF g, k, refused
  <2>9. b \in BOOLEAN
    BY <2>3 DEF Works
  <2>10. /\ t \in Works /\ t.step = k.step /\ t.task = k.task /\ t.id = k.id /\ t.todo = k.todo
         /\ t.bound = k.bound /\ t.loaded /\ t.mine = g /\ t.guest = b /\ t.ownsFunds
         /\ t.pos = k.pos /\ t.ownsPos = k.ownsPos /\ t.wrote = k.wrote
    <3> HIDE DEF b
    <3> QED
      BY <2>3, <2>6, <2>9 DEF Works
  <2> HIDE DEF t
  <2>11. SessionInv(t) /\ WroteInv(t)
    <3>1. SessionInv(t)
      BY <2>3, <2>10 DEF SessionInv, AtWork, Makes
    <3>2. WroteInv(t)
      BY <2>3, <2>10 DEF WroteInv, Makes
    <3> QED
      BY <3>1, <3>2
  <2>12. ASSUME NEW q \in Sessions
         PROVE  LET x == T(q)
                    z == session[q]
                IN /\ x \in Works /\ SessionInv(x) /\ WroteInv(x)
                   /\ x.step = z.step /\ x.task = z.task /\ x.id = z.id /\ x.todo = z.todo
                   /\ x.bound = z.bound /\ x.ownsPos = z.ownsPos /\ x.wrote = z.wrote
                   /\ (~AnyOther /\ x.loaded /\ ~Spoilt(x) => Clean(x.mine))
                   /\ (q # p => x = z)
    <3>1. CASE q = p
      <4>1. T(q) = t /\ session[q] = k
        BY <2>8, <3>1 DEF k
      <4>2. ~AnyOther /\ ~Spoilt(t) => Clean(t.mine)
        BY <2>7, <2>10 DEF Spoilt
      <4> HIDE DEF T
      <4> QED
        BY <2>10, <2>11, <3>1, <4>1, <4>2
    <3>2. CASE q # p
      BY <3>2 DEF IInv, TypeInv, CleanInv, Private
    <3> QED
      BY <3>1, <3>2
  <2> DEFINE z == T(r)
             w == [s.wrote EXCEPT ![s.id] = o]
  <2>13. /\ z \in Works /\ SessionInv(z) /\ WroteInv(z)
         /\ z.step = "placed" /\ z.task = s.task /\ z.id = s.id /\ z.todo = s.todo
         /\ z.bound = s.bound /\ z.wrote = s.wrote
         /\ (~AnyOther /\ z.loaded /\ ~Spoilt(z) => Clean(z.mine))
    <3> HIDE DEF T
    <3> QED
      BY <1>1, <1>2, <2>12
  <2>14. /\ w \in [Ids -> Orders] /\ w[s.id] = o /\ \A i \in Ids \ {s.id} : w[i] = s.wrote[i]
    BY <1>2, <1>3 DEF Works
  <2>15. y = [z EXCEPT !.step = "filled", !.wrote = w]
    <3>1. y = [z EXCEPT !.step = "filled", !.wrote[s.id] = o]
      OBVIOUS
    <3> HIDE DEF z, y, s
    <3> QED
      BY <2>13, <3>1 DEF Works
  <2> HIDE DEF z, w, s, y, T
  <2>16. /\ y \in Works /\ y.step = "filled" /\ y.task = s.task /\ y.id = s.id /\ y.todo = s.todo
         /\ y.bound = s.bound /\ y.loaded = z.loaded /\ y.mine = z.mine /\ y.guest = z.guest
         /\ y.ownsFunds = z.ownsFunds /\ y.pos = z.pos /\ y.ownsPos = z.ownsPos /\ y.wrote = w
    BY <2>13, <2>14, <2>15 DEF Works, Steps
  <2>17. SessionInv(y)
    BY <1>2, <2>1, <2>13, <2>16 DEF SessionInv, AtWork, Makes, s
  <2>18. WroteInv(y)
    <3>1. Makes(y) => w = s.wrote
      <4>1. Makes(y) => w[s.id] = s.wrote[s.id]
        BY <1>3, <2>14, <2>16 DEF Makes, s
      <4> QED
        BY <1>2, <2>14, <4>1 DEF Works, s
    <3>2. Makes(y) => /\ \A i \in Ids : y.wrote[i] # NoOrder <=> i = y.id
                      /\ y.wrote[y.id].trades = 0
      BY <1>1, <2>1, <2>16, <3>1 DEF WroteInv, Makes, s
    <3>3. \A i \in Ids : y.wrote[i].product # "DELIVERY" => y.task = "route" /\ i = y.id
      BY <1>3, <2>1, <2>14, <2>16 DEF WroteInv, s
    <3>4. y.wrote[y.id] # NoOrder
      BY <1>3, <2>14, <2>16
    <3> QED
      BY <1>2, <2>16, <3>2, <3>3, <3>4 DEF WroteInv, Makes, s
  <2>19. session'[r] = y /\ \A q \in Sessions \ {r} : session'[q] = T(q)
    BY <1>2, <2>0
  <2>20. TypeInv'
    <3>1. session' \in [Sessions -> Works]
      BY <2>0, <2>12, <2>16
    <3> QED
      BY <1>1, <1>5, <2>5, <3>1 DEF IInv, TypeInv
  <2>21. \A q \in Sessions : Private(session'[q])
    BY <2>12, <2>17, <2>18, <2>19 DEF Private
  <2>22. OrdersInv'
    <3>1. \A i \in Ids : Refers(y, i) => Refers(s, i)
      BY <2>14, <2>16 DEF Refers
    <3>2. \A q \in Sessions :
                /\ session'[q].task = session[q].task /\ session'[q].id = session[q].id
                /\ \A i \in Ids : Refers(session'[q], i) => Refers(session[q], i)
      BY <2>12, <2>16, <2>19, <3>1 DEF Refers, s
    <3> QED
      BY <1>1, <3>2, OrdersKept DEF IInv
  <2>23. CleanInv'
    <3> SUFFICES ASSUME ~AnyOther
                 PROVE  /\ Clean(funds)
                        /\ \A q \in Sessions :
                              session'[q].loaded /\ ~Spoilt(session'[q]) => Clean(session'[q].mine)
      BY <1>1 DEF CleanInv, AnyOther
    <3>1. Clean(funds)
      BY DEF IInv, CleanInv
    <3>2. y.loaded => Clean(y.mine)
      BY <2>13, <2>16 DEF Spoilt
    <3>3. \A q \in Sessions : T(q).loaded /\ ~Spoilt(T(q)) => Clean(T(q).mine)
      BY <2>12
    <3> QED
      BY <2>19, <3>1, <3>2, <3>3
  <2>24. OwnerInv'
    <3>1. \A q \in Sessions \ {p} : ~session[q].ownsFunds
      BY <1>5 DEF FundsFree
    <3>2. \A q \in Sessions \ {p} : ~T(q).ownsFunds
      BY <2>12, <3>1
    <3>3. \A q \in Sessions \ {p} : ~session'[q].ownsFunds
      BY <2>16, <2>19, <3>2 DEF z
    <3> QED
      BY <3>3 DEF OwnerInv
  <2>25. TradesInv'
    <3>1. ASSUME NEW q \in Requests, session'[q].ownsFunds, ~session'[q].guest
          PROVE  Shows(session'[q])
      <4>1. CASE q = r
        BY <2>16, <2>19, <4>1 DEF Shows
      <4>2. CASE q # r
        <5>1. q # p /\ q \in Sessions
          BY <2>8, <2>10, <2>19, <3>1, <4>2 DEF Sessions
        <5>2. session'[q] = session[q]
          BY <2>12, <2>19, <4>2, <5>1
        <5> QED
          BY <3>1, <5>2 DEF IInv, TradesInv
      <4> QED
        BY <4>1, <4>2
    <3> QED
      BY <3>1 DEF TradesInv
  <2> QED
    BY <2>20, <2>21, <2>22, <2>23, <2>24, <2>25 DEF IInv
<1> QED
  BY <1>1, <1>4, <1>5

-----------------------------------------------------------------------------
(* The theorems *)

LEMMA StepKeeps == IInv /\ [Next]_vars => IInv'
<1> SUFFICES ASSUME IInv, [Next]_vars PROVE IInv'
  OBVIOUS
<1>1. CASE UNCHANGED vars
  BY <1>1 DEF vars, IInv, TypeInv, OrdersInv, CleanInv, AnyOther, OwnerInv, TradesInv
<1>2. ASSUME NEW r \in Requests, Create(r) \/ StartAmo(r) \/ AskCancel(r) \/ Serve(r) \/ Fail(r)
      PROVE  IInv'
  BY <1>2, CreateKeeps, StartAmoKeeps, AskCancelKeeps, NextAmoKeeps, AtBrokerKeeps, FillKeeps,
     RejectKeeps, SettleKeeps, CancelKeeps, CommitKeeps, FailKeeps DEF Serve
<1>3. CASE Restart
  BY <1>3, RestartKeeps
<1>4. CASE Market
  BY <1>4, MarketKeeps
<1> QED
  BY <1>1, <1>2, <1>3, <1>4 DEF Next

\* Whatever requests read before others changed it, what they hold fits with
\* the rows and with one another.
THEOREM SessionsFit == Spec => []IInv
BY Starts, StepKeeps, PTL DEF Spec

\* Rows keep their types, the margin never falls below zero, and one session
\* at a time has flushed the funds it has loaded.
THEOREM TypeCorrect == Spec => []TypeOK
<1>1. IInv => TypeOK
  <2> SUFFICES ASSUME IInv PROVE TypeOK
    OBVIOUS
  <2>1. funds \in Funds /\ funds.margin >= 0
    BY DEF IInv, TypeInv, Purses, Funds
  <2>2. position \in [qty : Int, cost : Nat, id : {0} \cup Ids]
    BY DEF IInv, TypeInv, Positions
  <2> QED
    BY <2>1, <2>2 DEF IInv, TypeInv, OwnerInv, Private, SessionInv, TypeOK
<1> QED
  BY <1>1, SessionsFit, PTL

\* No row of positions is left short, whatever the products of the orders are
\* (validate_sell_quantity; update_position; execute_market_order).
THEOREM PositionsStayLong == Spec => []NeverShort
<1>1. IInv => NeverShort
  BY DEF IInv, TypeInv, Positions, NeverShort
<1> QED
  BY <1>1, SessionsFit, PTL

\* As long as all orders are for DELIVERY, the cash does not fall below zero
\* and no margin is blocked (DatabaseFundsProvider._handle_buy).
THEOREM DeliveryStaysPaid == Spec => []DeliveryIsPaid
<1>1. IInv => DeliveryIsPaid
  BY DEF IInv, CleanInv, AnyOther, Other, Clean, DeliveryIsPaid
<1> QED
  BY <1>1, SessionsFit, PTL

\* A commit that changes the funds adds a trade row for them, unless the fill
\* of another request was settled in the session (_execute_via_broker).
THEOREM FundsFollowTrades == Spec => FundsMoveWithTrades
<1>1. IInv /\ [Next]_vars =>
         [funds' # funds => \/ \E o \in Ids : order'[o].trades > order[o].trades
                            \/ \E r \in Requests : session[r].guest]_vars
  <2> SUFFICES ASSUME IInv, Next, funds' # funds, \A r \in Requests : ~session[r].guest
               PROVE  \E o \in Ids : order'[o].trades > order[o].trades
    BY DEF vars
  <2>1. PICK r \in Requests : Commit(r)
    BY ZenonT(60) DEF Next, Serve, Create, StartAmo, AskCancel, NextAmo, AtBroker, Fill, Reject, Settle,
           Cancel, Fail, Restart, Market
  <2> DEFINE s == session[r]
  <2>2. s.ownsFunds /\ s.step = "written" /\ ~s.guest
    BY <2>1 DEF Commit
  <2>3. PICK o \in Ids : s.wrote[o].trades > 0
    BY <2>2 DEF IInv, TradesInv, Shows
  <2>4. s.wrote[o] # NoOrder
    BY <2>3 DEF NoOrder
  <2>5. order'[o].trades = s.wrote[o].trades + order[o].trades
    BY <2>1, <2>4, CommitWrites
  <2>6. s.wrote[o].trades \in Nat /\ order[o].trades \in Nat
    <3>1. s.wrote[o] \in Orders /\ order[o] \in Orders
      BY DEF IInv, TypeInv, Works, Sessions
    <3> QED
      BY <3>1, OrderFields
  <2> HIDE DEF s
  <2>7. order'[o].trades > order[o].trades
    BY <2>3, <2>5, <2>6
  <2> QED
    BY <2>7
<1> QED
  BY <1>1, SessionsFit, PTL DEF Spec, FundsMoveWithTrades

=============================================================================
