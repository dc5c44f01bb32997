------------------------------ MODULE Composites ------------------------------
(***************************************************************************)
(* Strategies made of strategies: a request creates one in the backend,    *)
(* which registers it in its own memory and stores a row; the trading      *)
(* engine registers what rows it finds when it starts, and asks a          *)
(* composite for its signal by asking its components.                      *)
(*                                                                         *)
(* Strategies that come with the program are registered in both processes  *)
(* from the start; each votes once for a symbol.  Strengths, weights and   *)
(* percentages are in hundredths, quotients rounded down.                  *)
(***************************************************************************)
EXTENDS Integers, Sequences, FiniteSets

CONSTANTS
    Base,          \* strategies that come with the program
    Custom,        \* strategies in the DSL: the engine never registers one
    Names,         \* names of composites; users may choose the same
    Rows,          \* bound: rows of user_strategies
    Definitions,   \* bound: for a name what it may be, [components, logic, pct]
    Ballots        \* bound: the votes, for each of Base a Vote

VARIABLES
    rows,          \* the committed rows: a name and a definition, or NoRow
    backend,       \* the names of Custom and Names the backend has registered
    engine,        \* the composites the engine has registered, by name
    signal         \* the last signal of the engine: the row, votes, definition

vars == <<rows, backend, engine, signal>>

NoRow == [name |-> "none"]
Unknown == [logic |-> "none"]
Vote(side, strength) == [side |-> side, strength |-> strength]
Nothing == Vote("NONE", 0)
Raised == Vote("RAISED", 0)
Hold == Vote("HOLD", 50)
NoSignal == [row |-> "none"]
Least == 50     \* min_combined_strength

-----------------------------------------------------------------------------
(* The combination; ballots are pairs of a component and its vote *)

RECURSIVE Total(_)
Total(S) == IF S = {} THEN 0 ELSE LET x == CHOOSE y \in S : TRUE IN x[2] + Total(S \ {x})

\* What ballots there are for a side, by position.
For(ballots, side) == {k \in DOMAIN ballots : ballots[k].vote.side = side}
Average(ballots, S) ==
    IF S = {} THEN 50 ELSE Total({<<k, ballots[k].vote.strength>> : k \in S}) \div Cardinality(S)
Strongest(ballots, S) ==
    LET Best(k) == \A j \in S : ballots[j].vote.strength <= ballots[k].vote.strength
    IN  ballots[CHOOSE k \in S : Best(k)].vote.strength
Weight(ballots, S) == Total({<<k, ballots[k].component.weight * ballots[k].vote.strength>> : k \in S})

\* The first side that enough are for.
Agreed(ballots, enough) ==
    LET For1(side) == For(ballots, side)
    IN  IF Cardinality(For1("BUY")) >= enough THEN Vote("BUY", Average(ballots, For1("BUY")))
        ELSE IF Cardinality(For1("SELL")) >= enough THEN Vote("SELL", Average(ballots, For1("SELL")))
        ELSE Hold

Stronger(ballots) ==
    LET buys  == For(ballots, "BUY")
        sells == For(ballots, "SELL")
    IN  IF buys = {} /\ sells = {} THEN Hold
        ELSE IF sells = {} \/ (buys # {} /\ Strongest(ballots, buys) >= Strongest(ballots, sells))
        THEN Vote("BUY", Strongest(ballots, buys))
        ELSE Vote("SELL", Strongest(ballots, sells))

Heavier(ballots) ==
    LET buy  == Weight(ballots, For(ballots, "BUY"))
        sell == Weight(ballots, For(ballots, "SELL"))
    IN  IF buy > sell /\ buy >= Least * 100 THEN Vote("BUY", (100 * buy) \div (buy + sell))
        ELSE IF sell > buy /\ sell >= Least * 100 THEN Vote("SELL", (100 * sell) \div (buy + sell))
        ELSE Hold

\* More than the percentage.  In the variant it is enough to reach it.
NeededAtLeast(total, pct) == (total * pct) \div 100
Needed(total, pct) == (total * pct) \div 100 + 1

Combined(d, ballots) ==
    CASE d.logic = "AND"      -> Agreed(ballots, Len(ballots))
      [] d.logic = "OR"       -> Stronger(ballots)
      [] d.logic = "MAJORITY" -> Agreed(ballots, Needed(Len(ballots), d.pct))
      [] d.logic = "WEIGHTED" -> Heavier(ballots)

Known(registry, s) == s \in Base \/ (s \in Names /\ registry[s] # Unknown)

\* The signal of a strategy.  Components that are not registered are left
\* out, and those that are take the places of the first: the weights stay
\* where they are.  One that is its own component never ends, which raises.
RECURSIVE Ask(_, _, _, _)
Ask(registry, s, votes, asked) ==
    IF s \in Base THEN votes[s]
    ELSE IF s \in asked THEN Raised
    ELSE LET d == registry[s]
             found == SelectSeq(d.components, LAMBDA c : Known(registry, c.strategy))
             ballots == [k \in DOMAIN found |->
                 [component |-> d.components[k],
                  vote |-> Ask(registry, found[k].strategy, votes, asked \cup {s})]]
         IN  IF found = <<>> THEN Nothing
             ELSE IF For(ballots, "RAISED") # {} THEN Raised
             ELSE Combined(d, ballots)

-----------------------------------------------------------------------------

Init ==
    /\ rows = [r \in Rows |-> NoRow] /\ backend = {}
    /\ engine = [n \in Names |-> Unknown] /\ signal = NoSignal

Strategies(d) == {d.components[k].strategy : k \in DOMAIN d.components}

\* Registered before the row is stored, which may fail.
Create(r) ==
    /\ rows[r] = NoRow
    /\ \E name \in Names, stored \in BOOLEAN : \E d \in Definitions[name] :
          /\ Strategies(d) \subseteq Base \cup backend
          /\ backend' = backend \cup {name}
          /\ rows' = IF stored THEN [rows EXCEPT ![r] = [name |-> name, definition |-> d]] ELSE rows
    /\ signal' = NoSignal /\ UNCHANGED engine

CreateCustom ==
    /\ \E name \in Custom : backend' = backend \cup {name}
    /\ signal' = NoSignal /\ UNCHANGED <<rows, engine>>

\* Components only have to be named; or all is taken away.
Update(r) ==
    /\ rows[r] # NoRow
    /\ \E d \in Definitions[rows[r].name] \cup {Unknown} : rows' = [rows EXCEPT ![r].definition = d]
    /\ signal' = NoSignal /\ UNCHANGED <<backend, engine>>

Delete(r) ==
    /\ rows[r] # NoRow /\ rows' = [rows EXCEPT ![r] = NoRow]
    /\ signal' = NoSignal /\ UNCHANGED <<backend, engine>>

RestartBackend == backend' = {} /\ signal' = NoSignal /\ UNCHANGED <<rows, engine>>

\* Of the rows with a name the first that has components is registered, in
\* no particular order.
RestartEngine ==
    LET found(n) == {rows[r].definition : r \in {r \in Rows : rows[r].name = n}} \ {Unknown}
    IN  \E load \in [Names -> UNION {found(n) : n \in Names} \cup {Unknown}] :
           /\ \A n \in Names : IF found(n) = {} THEN load[n] = Unknown ELSE load[n] \in found(n)
           /\ engine' = load /\ signal' = NoSignal
           /\ UNCHANGED <<rows, backend>>

\* A strategy that is not registered is an error of the turn.
Execute(r) ==
    /\ rows[r] # NoRow /\ engine[rows[r].name] # Unknown
    /\ \E votes \in Ballots :
          signal' = [row |-> r, votes |-> votes, of |-> engine[rows[r].name],
                     is |-> Ask(engine, rows[r].name, votes, {})]
    /\ UNCHANGED <<rows, backend, engine>>

Next == \/ CreateCustom \/ RestartBackend \/ RestartEngine
        \/ \E r \in Rows : Create(r) \/ Update(r) \/ Delete(r) \/ Execute(r)

Spec == Init /\ [][Next]_vars

-----------------------------------------------------------------------------
(* Properties *)

Sides == {"BUY", "SELL", "HOLD", "NONE"}

\* Types: what a composite signals is a signal, of a strength that is one.
TypeOK ==
    /\ \A r \in Rows : rows[r] # NoRow => rows[r].name \in Names
    /\ backend \subseteq Custom \cup Names
    /\ \A n \in Names : engine[n] \in Definitions[n] \cup {Unknown}
    /\ signal # NoSignal => signal.is.side \in Sides \cup {"RAISED"} /\ signal.is.strength \in 0..100

RECURSIVE Leaves(_, _)
Leaves(s, asked) ==
    IF s \in Base THEN {s}
    ELSE IF s \in asked \/ ~Known(engine, s) THEN {}
    ELSE UNION {Leaves(c, asked \cup {s}) : c \in Strategies(engine[s])}

\* Of each composite in the engine all components are there, none counts for
\* less than one, and a majority need not be more than all.
Complete == \A n \in Names : engine[n] # Unknown =>
    LET d == engine[n]
    IN  /\ d.pct < 100
        /\ \A k \in DOMAIN d.components :
              d.components[k].weight >= 100 /\ Known(engine, d.components[k].strategy)

\* The votes of S for a side, with strength enough.
Unanimous(S, side, votes) == \A s \in S : votes[s].side = side /\ votes[s].strength >= Least

\* Others may come round to a purchase; those for it stay as strong.
MoreForBuy(votes, other) ==
    \A s \in Base : \/ other[s] = votes[s]
                    \/ /\ other[s].side = "BUY"
                       /\ votes[s].side = "BUY" => other[s].strength >= votes[s].strength

\* Whatever of a composite is registered in the engine, deleted, changed or
\* made twice, it signals a side only if one of the program's strategies it
\* rests on does.  While all of it is there it signals the side that all of
\* them are for; and if it is made of them alone, none that comes round to a
\* purchase prevents the purchase (CompositeStrategy).
VotesCarry ==
    signal # NoSignal =>
        LET name   == rows[signal.row].name
            leaves == Leaves(name, {})
        IN  /\ \A side \in {"BUY", "SELL"} :
                  /\ signal.is.side = side => \E s \in leaves : signal.votes[s].side = side
                  /\ Complete /\ signal.is # Raised /\ Unanimous(leaves, side, signal.votes)
                     => signal.is.side = side
            /\ signal.is.side = "BUY" /\ Strategies(signal.of) \subseteq Base =>
                  \A other \in Ballots : MoreForBuy(signal.votes, other)
                                         => Ask(engine, name, other, {}).side = "BUY"

\* All must agree for a signal of AND, whether they are registered or not
\* (CombineLogic: "All strategies must agree").
AllAgree ==
    signal # NoSignal /\ signal.of.logic = "AND" =>
        \A side \in {"BUY", "SELL"} : signal.is.side = side => Strategies(signal.of) \subseteq Base \cup Names

\* All being for a side is agreement enough, whatever the least agreement a
\* request may ask for (min_agreement_pct, at most 1).
UnanimityCarries ==
    signal # NoSignal /\ Strategies(signal.of) \subseteq Base =>
        \A side \in {"BUY", "SELL"} :
            (\A s \in Strategies(signal.of) : signal.votes[s].side = side /\ signal.votes[s].strength >= Least)
            => signal.is.side = side

=============================================================================
