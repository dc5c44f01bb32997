--------------------------------- MODULE Dsl ---------------------------------
(***************************************************************************)
(* The language of custom strategies: conditions are parsed, validated when *)
(* a strategy is created, and evaluated against market data whenever the   *)
(* strategy is asked for signals.                                          *)
(*                                                                         *)
(* A condition is a sequence of tokens; the tokenizer is left out.  What an *)
(* indicator computes is the market's: a number for each function.  Numbers *)
(* are fractions, as the language divides.                                 *)
(***************************************************************************)
EXTENDS Integers, Sequences, FiniteSets

CONSTANTS
    Alphabets,    \* bound: sets of tokens a condition is written from; with
                  \* the empty one whole conditions make a definition
    MaxTokens,    \* bound: tokens of a condition
    Conditions,   \* bound: conditions that become rules or filters
    MaxRules,     \* bound: entry rules, and filters, of a definition
    Functions,    \* DSL_FUNCTIONS: for each name the types of its parameters
    Required,     \* how many of them a call must give
    Variables,    \* DSL_VARIABLES
    Markets       \* bound: [variable, function : name -> number, bars : Nat]

VARIABLES
    alphabet,     \* the tokens in use; never changes
    text,         \* the condition being written
    definition,   \* the conditions of the definition, in order
    created,      \* the strategy has passed the validator
    outcome       \* what generate_signals last did, and on which market

vars == <<alphabet, text, definition, created, outcome>>

Num(n) == [type |-> "NUMBER", number |-> n]
Name(s) == [type |-> "IDENTIFIER", name |-> s]
Sign(s) == [type |-> s]

Comparisons == {"GT", "LT", "GTE", "LTE", "EQ", "NEQ"}
\* The token types that join two operands at a level of the grammar.
Joins == [or |-> {"OR"}, and |-> {"AND"}, compare |-> Comparisons,
          add |-> {"PLUS", "MINUS"}, multiply |-> {"MUL", "DIV"}]
\* The level below, from loose to tight.
Below == [or |-> "and", and |-> "not", not |-> "compare", compare |-> "add",
          add |-> "multiply", multiply |-> "unary", unary |-> "primary"]

-----------------------------------------------------------------------------
(* The nodes of a syntax tree *)

Joined(op, left, right) == [node |-> IF op \in {"AND", "OR"} THEN "LOGICAL_OP" ELSE "BINARY_OP",
                            operator |-> op, left |-> left, right |-> right]
Literal(n) == [node |-> "LITERAL", number |-> n]
Variable(s) == [node |-> "VARIABLE", name |-> s]
Call(s, args) == [node |-> "FUNCTION_CALL", name |-> s, args |-> args]
Not(operand) == [node |-> "UNARY_OP", left |-> operand]
Negated(operand) == Joined("MUL", Literal(-1), operand)

-----------------------------------------------------------------------------
(* The parser: what it has read of ts from position i on *)

At(ts, i) == IF i <= Len(ts) THEN ts[i].type ELSE "END"
Read(tree, next) == [ok |-> TRUE, tree |-> tree, next |-> next]
Error == [ok |-> FALSE]
Mapped(f(_), read) == IF read.ok THEN Read(f(read.tree), read.next) ELSE read

RECURSIVE Args(_, _, _)
Args(ts, i, args) ==
    IF At(ts, i) \notin {"NUMBER", "IDENTIFIER"} THEN Error
    ELSE LET more == Append(args, ts[i])
         IN  IF At(ts, i + 1) = "COMMA" THEN Args(ts, i + 2, more)
             ELSE IF At(ts, i + 1) = "RPAREN" THEN Read(more, i + 2) ELSE Error

ParseCall(ts, i) ==
    LET args == IF At(ts, i + 2) = "RPAREN" THEN Read(<<>>, i + 3) ELSE Args(ts, i + 2, <<>>)
        call(a) == Call(ts[i].name, a)
    IN  Mapped(call, args)

RECURSIVE Parse(_, _, _), Chain(_, _, _)

\* In the variant what follows an operator is again a chain: it groups from
\* the right.
ChainRight(ts, left, level) ==
    IF ~left.ok \/ At(ts, left.next) \notin Joins[level] THEN left
    ELSE LET node(right) == Joined(At(ts, left.next), left.tree, right)
         IN  Mapped(node, Parse(ts, left.next + 1, level))
Chain(ts, left, level) ==
    IF ~left.ok \/ At(ts, left.next) \notin Joins[level] THEN left
    ELSE LET node(right) == Joined(At(ts, left.next), left.tree, right)
         IN  Chain(ts, Mapped(node, Parse(ts, left.next + 1, Below[level])), level)

ParseCompare(ts, left) ==
    IF ~left.ok \/ At(ts, left.next) \notin Comparisons THEN left
    ELSE LET node(right) == Joined(At(ts, left.next), left.tree, right)
         IN  Mapped(node, Parse(ts, left.next + 1, "add"))

ParsePrimary(ts, i) ==
    CASE At(ts, i) = "LPAREN" ->
            LET inner == Parse(ts, i + 1, "or")
            IN  IF inner.ok /\ At(ts, inner.next) = "RPAREN"
                THEN [inner EXCEPT !.next = @ + 1] ELSE Error
      [] At(ts, i) = "NUMBER" -> Read(Literal(ts[i].number), i + 1)
      [] At(ts, i) = "IDENTIFIER" ->
            IF At(ts, i + 1) = "LPAREN" THEN ParseCall(ts, i)
            ELSE Read(Variable(ts[i].name), i + 1)
      [] OTHER -> Error

Parse(ts, i, level) ==
    CASE level \in {"or", "and", "add", "multiply"} -> Chain(ts, Parse(ts, i, Below[level]), level)
      [] level = "compare" -> ParseCompare(ts, Parse(ts, i, "add"))
      [] level = "not" /\ At(ts, i) = "NOT" -> Mapped(Not, Parse(ts, i + 1, "not"))
      [] level = "unary" /\ At(ts, i) = "MINUS" -> Mapped(Negated, Parse(ts, i + 1, "unary"))
      [] level = "primary" -> ParsePrimary(ts, i)
      [] OTHER -> Parse(ts, i, Below[level])

\* The tree of a condition, if it has one: nothing may be left over.
Condition(ts) ==
    LET read == Parse(ts, 1, "or")
    IN  IF read.ok /\ read.next > Len(ts) THEN read ELSE Error

-----------------------------------------------------------------------------
(* The validator *)

\* A call gives what is required, and of the right types; more is no error.
ValidArgs(name, args) ==
    /\ Len(args) >= Required[name]
    /\ \A k \in DOMAIN args \cap DOMAIN Functions[name] : args[k].type = Functions[name][k]

\* In the variant only the left operand is looked at.
RECURSIVE ValidLeft(_)
ValidLeft(tree) ==
    CASE tree.node = "VARIABLE" -> tree.name \in Variables
      [] tree.node = "FUNCTION_CALL" ->
            tree.name \in DOMAIN Functions /\ ValidArgs(tree.name, tree.args)
      [] tree.node \in {"LOGICAL_OP", "BINARY_OP", "UNARY_OP"} -> ValidLeft(tree.left)
      [] OTHER -> TRUE
RECURSIVE ValidTree(_)
ValidTree(tree) ==
    CASE tree.node = "VARIABLE" -> tree.name \in Variables
      [] tree.node = "FUNCTION_CALL" ->
            tree.name \in DOMAIN Functions /\ ValidArgs(tree.name, tree.args)
      [] tree.node \in {"LOGICAL_OP", "BINARY_OP"} -> ValidTree(tree.left) /\ ValidTree(tree.right)
      [] tree.node = "UNARY_OP" -> ValidTree(tree.left)
      [] OTHER -> TRUE

ValidCondition(ts) == LET read == Condition(ts) IN read.ok /\ ValidTree(read.tree)
Valid(d) == \A part \in {"entry", "filters"} :
               /\ Len(d[part]) <= MaxRules
               /\ \A k \in DOMAIN d[part] : ValidCondition(d[part][k])

-----------------------------------------------------------------------------
(* The executor *)

Value(n, d) == [ok |-> TRUE, n |-> n, d |-> d]
Raise(error) == [ok |-> FALSE, error |-> error]
Truth(p) == IF p THEN Value(1, 1) ELSE Value(0, 1)
Holds(v) == v.ok /\ v.n # 0

Less(l, r) == l.n * r.d < r.n * l.d
Same(l, r) == l.n * r.d = r.n * l.d

\* Denominators stay positive.
Divided(l, r) == IF r.n > 0 THEN Value(l.n * r.d, l.d * r.n) ELSE Value((-l.n) * r.d, l.d * (-r.n))

Apply(op, l, r) ==
    CASE op = "AND" -> Truth(l.n # 0 /\ r.n # 0)
      [] op = "OR" -> Truth(l.n # 0 \/ r.n # 0)
      [] op = "GT" -> Truth(Less(r, l))
      [] op = "LT" -> Truth(Less(l, r))
      [] op = "GTE" -> Truth(~Less(l, r))
      [] op = "LTE" -> Truth(~Less(r, l))
      [] op = "EQ" -> Truth(Same(l, r))
      [] op = "NEQ" -> Truth(~Same(l, r))
      [] op = "PLUS" -> Value(l.n * r.d + r.n * l.d, l.d * r.d)
      [] op = "MINUS" -> Value(l.n * r.d - r.n * l.d, l.d * r.d)
      [] op = "MUL" -> Value(l.n * r.n, l.d * r.d)
      [] op = "DIV" -> IF r.n = 0 THEN Raise("DSLExecutionError") ELSE Divided(l, r)

\* A moving average takes its last argument for the period, the other
\* indicators take a number wherever they have a parameter.
Computed(name, args, market) ==
    LET average == name \in {"sma", "ema"}
        numbers == IF average THEN {Len(args)} \ {0} ELSE DOMAIN args \cap DOMAIN Functions[name]
    IN  IF \E k \in numbers : args[k].type # "NUMBER" THEN Raise("ValueError")
        ELSE Value(market.function[name], 1)

\* Both operands are evaluated, whatever the first one is.
RECURSIVE Evaluate(_, _)
Evaluate(tree, market) ==
    CASE tree.node = "LITERAL" -> Value(tree.number, 1)
      [] tree.node = "VARIABLE" -> IF tree.name \in Variables
                                   THEN Value(market.variable[tree.name], 1)
                                   ELSE Raise("DSLExecutionError")
      [] tree.node = "FUNCTION_CALL" -> IF tree.name \in DOMAIN Functions
                                        THEN Computed(tree.name, tree.args, market)
                                        ELSE Raise("DSLExecutionError")
      [] tree.node = "UNARY_OP" -> LET v == Evaluate(tree.left, market)
                                   IN  IF v.ok THEN Truth(v.n = 0) ELSE v
      [] OTHER -> LET l == Evaluate(tree.left, market)
                      r == Evaluate(tree.right, market)
                  IN  IF ~l.ok THEN l ELSE IF ~r.ok THEN r ELSE Apply(tree.operator, l, r)

-----------------------------------------------------------------------------
(* The strategy *)

None == [kind |-> "none"]
Raised == [kind |-> "raised", rules |-> {}]
Signals(rules) == [kind |-> "signals", rules |-> rules]

First(S) == CHOOSE k \in S : \A j \in S : k <= j
Trees(conditions) == [k \in DOMAIN conditions |-> Condition(conditions[k]).tree]

\* A filter that does not hold, or fails, ends the evaluation; a rule that
\* fails is passed over.  Only an error of another kind reaches the caller.
\* In the variant a rule that fails ends it too.
SignalsUntilError(entry, filters) ==
    LET stops == {k \in DOMAIN filters : ~Holds(filters[k])}
        other(v) == ~v.ok /\ v.error # "DSLExecutionError"
        fails == {k \in DOMAIN entry : ~entry[k].ok}
    IN  IF stops # {} THEN IF other(filters[First(stops)]) THEN Raised ELSE Signals({})
        ELSE IF \E k \in DOMAIN entry : other(entry[k]) THEN Raised
        ELSE Signals({k \in DOMAIN entry : Holds(entry[k]) /\ \A j \in fails : k < j})
SignalsOf(entry, filters) ==
    LET stops == {k \in DOMAIN filters : ~Holds(filters[k])}
        other(v) == ~v.ok /\ v.error # "DSLExecutionError"
    IN  IF stops # {} THEN IF other(filters[First(stops)]) THEN Raised ELSE Signals({})
        ELSE IF \E k \in DOMAIN entry : other(entry[k]) THEN Raised
        ELSE Signals({k \in DOMAIN entry : Holds(entry[k])})

Generated(d, market) ==
    LET value(tree) == Evaluate(tree, market)
        values(conditions) == [k \in DOMAIN conditions |-> value(Trees(conditions)[k])]
    IN  IF market.bars < 2 THEN Signals({})
        ELSE SignalsOf(values(d.entry), values(d.filters))

-----------------------------------------------------------------------------

Init ==
    /\ alphabet \in Alphabets
    /\ text = <<>> /\ definition = [entry |-> <<>>, filters |-> <<>>]
    /\ created = FALSE /\ outcome = None

Write ==
    /\ ~created /\ Len(text) < MaxTokens
    /\ \E token \in alphabet : text' = Append(text, token)
    /\ UNCHANGED <<alphabet, definition, created, outcome>>

\* A condition becomes a rule or a filter.
Add ==
    /\ ~created /\ alphabet = {}
    /\ \E part \in {"entry", "filters"}, condition \in Conditions :
          /\ Len(definition[part]) <= MaxRules
          /\ definition' = [definition EXCEPT ![part] = Append(@, condition)]
    /\ UNCHANGED <<alphabet, text, created, outcome>>

Create ==
    /\ ~created /\ alphabet = {} /\ Valid(definition)
    /\ created' = TRUE /\ UNCHANGED <<alphabet, text, definition, outcome>>

Generate ==
    /\ created
    /\ \E market \in Markets :
          LET done == Generated(definition, market)
          IN  outcome' = [kind |-> done.kind, rules |-> done.rules, market |-> market]
    /\ UNCHANGED <<alphabet, text, definition, created>>

Next == Write \/ Add \/ Create \/ Generate

Spec == Init /\ [][Next]_vars

-----------------------------------------------------------------------------
(* Properties *)

\* Types: only a valid definition is ever evaluated (create_dsl_strategy).
TypeOK ==
    /\ text \in Seq(alphabet) /\ Len(text) <= MaxTokens
    /\ \A part \in DOMAIN definition : Len(definition[part]) <= MaxRules + 1
    /\ created => Valid(definition)
    /\ outcome.kind \in {"none", "raised", "signals"}
    /\ outcome.kind = "signals" => outcome.rules \subseteq DOMAIN definition.entry

\* The grammar, by what the tokens from i to j are: an operator of a level
\* has a phrase of the same level before it and one of the next level behind
\* it, so that chains group from the left.
ArgList(ts, i, j) ==
    /\ i <= j => (j - i) % 2 = 0
    /\ \A k \in i..j : ts[k].type \in (IF (k - i) % 2 = 0 THEN {"NUMBER", "IDENTIFIER"} ELSE {"COMMA"})
RECURSIVE Phrases(_, _, _, _)
Phrases(ts, i, j, level) ==
    LET joined(before) ==
            UNION {{Joined(ts[k].type, l, r) : l \in Phrases(ts, i, k - 1, before),
                                               r \in Phrases(ts, k + 1, j, Below[level])} :
                   k \in {k \in i..j : ts[k].type \in Joins[level]}}
        inner == IF level # "primary" THEN Phrases(ts, i, j, Below[level]) ELSE {}
    IN  IF i > j THEN {}
        ELSE CASE level \in {"or", "and", "add", "multiply"} -> inner \cup joined(level)
               [] level = "compare" -> inner \cup joined("add")
               [] level = "not" -> inner \cup (IF ts[i].type # "NOT" THEN {}
                                               ELSE {Not(t) : t \in Phrases(ts, i + 1, j, level)})
               [] level = "unary" -> inner \cup (IF ts[i].type # "MINUS" THEN {}
                                                 ELSE {Negated(t) : t \in Phrases(ts, i + 1, j, level)})
               [] level = "primary" ->
                     CASE i = j /\ ts[i].type = "NUMBER" -> {Literal(ts[i].number)}
                       [] i = j /\ ts[i].type = "IDENTIFIER" -> {Variable(ts[i].name)}
                       [] j > i /\ ts[j].type = "RPAREN" /\ ts[i].type = "LPAREN" ->
                             Phrases(ts, i + 1, j - 1, "or")
                       [] j > i + 1 /\ ts[j].type = "RPAREN" /\ ts[i].type = "IDENTIFIER"
                             /\ ts[i + 1].type = "LPAREN" /\ ArgList(ts, i + 2, j - 1) ->
                             {Call(ts[i].name, [n \in 1..((j - i - 1) \div 2) |-> ts[i + 2 * n]])}
                       [] OTHER -> {}

\* The parser accepts the sentences of the grammar and no others, and gives
\* each the one tree the grammar gives it: precedence, grouping, brackets and
\* signs are as written (DSLParser).
ParsesTheGrammar ==
    LET read == Condition(text)
    IN  Phrases(text, 1, Len(text), "or") = IF read.ok THEN {read.tree} ELSE {}

RECURSIVE Nodes(_)
Nodes(tree) ==
    CASE tree.node \in {"LOGICAL_OP", "BINARY_OP"} -> {tree} \cup Nodes(tree.left) \cup Nodes(tree.right)
      [] tree.node = "UNARY_OP" -> {tree} \cup Nodes(tree.left)
      [] OTHER -> {tree}

\* An average whose last argument names a series.
NamesItsPeriod(node) ==
    /\ node.node = "FUNCTION_CALL" /\ node.name \in {"sma", "ema"}
    /\ node.args # <<>> /\ node.args[Len(node.args)].type = "IDENTIFIER"

DividesByZero(node, market) ==
    /\ node.node = "BINARY_OP" /\ node.operator = "DIV"
    /\ LET v == Evaluate(node.right, market) IN v.ok /\ v.n = 0

\* What the validator accepts, the executor can evaluate on every market,
\* but for a division by what is zero there, which is caught, and an average
\* that names its period, which is not (DSLValidator, DSLExecutor).
AcceptedEvaluates ==
    ValidCondition(text) =>
        LET tree == Condition(text).tree
        IN  \A market \in Markets : LET v == Evaluate(tree, market) IN
               ~v.ok => \E node \in Nodes(tree) :
                           IF v.error = "DSLExecutionError"
                           THEN DividesByZero(node, market) ELSE NamesItsPeriod(node)

RECURSIVE Conjoined(_, _)
Conjoined(filters, tree) ==
    IF filters = <<>> THEN tree ELSE Conjoined(Tail(filters), Joined("AND", Head(filters), tree))

\* A filter means what it means as one more condition of every rule, also
\* where a filter or a rule fails: no rule is lost to the failure of another,
\* none is let through by the failure of a filter (generate_signals).
FiltersAreConditions ==
    outcome.kind = "signals" =>
        outcome.rules = {k \in DOMAIN definition.entry :
            /\ outcome.market.bars >= 2
            /\ Holds(Evaluate(Conjoined(Trees(definition.filters), Trees(definition.entry)[k]),
                              outcome.market))}

\* No function is called with parameters it cannot take once the validator
\* has accepted the definition (the validator's promise that all referenced
\* functions "have valid parameters").
ParametersAreValid == outcome.kind # "raised"

=============================================================================
