----------------------------- MODULE TradeFunds -----------------------------
(***************************************************************************)
(* What a trade does to a user's funds, by product type: the functions     *)
(* _handle_buy and _handle_sell of DatabaseFundsProvider.  Funds are cash  *)
(* and the margin blocked in it; realized_pnl, which nothing here reads,   *)
(* and the collateral, which nothing sets, are left out.  Amounts are      *)
(* integers in a unit small enough for the fees.                           *)
(***************************************************************************)
EXTENDS Integers

Products == {"DELIVERY", "INTRADAY", "MARGIN", "SLB"}
Sides == {"BUY", "SELL"}

Funds == [cash: Int, margin: Int]

\* Margin of a product in hundredths of the value
MarginPct == [p \in Products |-> CASE p = "DELIVERY" -> 100
                                   [] p = "INTRADAY" -> 25
                                   [] p = "MARGIN" -> 50
                                   [] p = "SLB" -> 30]

AllowsShort(product) == product \in {"INTRADAY", "SLB"}

Available(f) == f.cash - f.margin

Lesser(a, b) == IF a < b THEN a ELSE b

Part(value, product) == (value * MarginPct[product] + 50) \div 100

Size(n) == IF n < 0 THEN -n ELSE n

\* A trade: q shares worth value, fees beside them, of a product, by a user
\* who holds held shares (negative: short) bought at entry, 0 when unknown.
Blocks(f, value, fees, product) ==
    [f EXCEPT !.margin = @ + Part(value, product) + fees]

\* What the margin of a closed position was blocked on: its entry value, or
\* what it is worth now when the entry price is unknown.
Basis(q, value, entry) == IF entry # 0 THEN q * entry ELSE value

\* In the variant what is released is not limited to what is blocked.
ClosesAll(f, basis, gain, product) ==
    [cash |-> f.cash + gain, margin |-> f.margin - Part(basis, product)]

\* A position is closed with a gain: no more margin is released than is blocked.
Closes(f, basis, gain, product) ==
    [cash |-> f.cash + gain,
     margin |-> f.margin - Lesser(f.margin, Part(basis, product))]

\* A short is bought back: its gain is credited on all that was short, and
\* without an entry price the whole cost is taken from the cash.
Covers(f, value, fees, product, held, entry) ==
    Closes(f, Basis(Size(held), value, entry),
           IF entry # 0 THEN entry * Size(held) - value - fees ELSE -(value + fees),
           product)

\* Shares are sold that the user holds
SellsOff(f, q, value, fees, product, entry) ==
    Closes(f, Basis(q, value, entry), value - Basis(q, value, entry) - fees, product)

\* In the variant a purchase for DELIVERY is not checked against the cash.
RefusedUnpaid(f, side, q, value, fees, product, held) ==
    /\ ~(side = "BUY" /\ product = "DELIVERY")
    /\ side = "SELL" => held < q

\* The trade would be refused with a ValueError
Refused(f, side, q, value, fees, product, held) ==
    LET covering == side = "BUY" /\ AllowsShort(product) /\ held < 0
        selling == side = "SELL" /\ AllowsShort(product) /\ held > 0
        owned == side = "SELL" /\ ~AllowsShort(product)
    IN  IF owned
        THEN held < q
        ELSE /\ ~covering /\ ~selling
             /\ Available(f) < Part(value, product) + fees

\* update_funds_for_trade, for a trade that is not refused
Settled(f, side, q, value, fees, product, held, entry) ==
    CASE side = "BUY" /\ product = "DELIVERY" -> [f EXCEPT !.cash = @ - value - fees]
      [] side = "SELL" /\ product = "DELIVERY" -> [f EXCEPT !.cash = @ + value - fees]
      [] side = "BUY" /\ AllowsShort(product) /\ held < 0 ->
            Covers(f, value, fees, product, held, entry)
      [] side = "SELL" /\ (product = "MARGIN" \/ (AllowsShort(product) /\ held > 0)) ->
            SellsOff(f, q, value, fees, product, entry)
      [] OTHER -> Blocks(f, value, fees, product)
=============================================================================
