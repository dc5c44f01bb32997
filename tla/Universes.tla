------------------------------ MODULE Universes ------------------------------
(***************************************************************************)
(* The system's universes: lists of symbols that everybody's strategies    *)
(* may trade (algo/universe_service.py).  They are known by their names:   *)
(* requests to seed or to refresh look for a row of the name, and change   *)
(* it or add one, name after name in one transaction, with calls to the    *)
(* exchange in between.  Nothing in the database keeps two of them from    *)
(* adding the same name, and a name with two rows can no longer be looked  *)
(* up.  Rows are never deleted.  The definitions in the code stay as they  *)
(* are, so that a predefined universe that is found is not changed.        *)
(***************************************************************************)
EXTENDS Integers, Sequences, FiniteSets

CONSTANTS
    Predefined, Indices,    \* names: PREDEFINED_UNIVERSES, DYNAMIC_UNIVERSES
    Tables,                 \* those made of the instruments: all of NSE, and F&O
    Stocks,                 \* symbols
    Seeders,                \* requests that may be under way together
    MaxListed               \* bound: rows

VARIABLES
    listed,         \* the rows, in the order they were committed
    seeding,        \* the requests
    crowd            \* history: how many were ever under way together

vars == <<listed, seeding, crowd>>

UniverseRow(name, symbols) == [name |-> name, symbols |-> symbols]
Idle == [pc |-> "idle"]

Init == listed = <<>> /\ seeding = [r \in Seeders |-> Idle] /\ crowd = 0

-----------------------------------------------------------------------------
(* seed-all, refresh-all and refresh *)

IsIn(name, names) == \E i \in DOMAIN names : names[i] = name

\* One of a single index fails where the others pass the index over.
Work(todo, alone) ==
    [pc |-> "looking", todo |-> todo, alone |-> alone, row |-> 0, symbols |-> {},
     added |-> <<>>, changed |-> [row \in {} |-> {}]]
Jobs ==
    {Work(Predefined \o Indices \o Tables, FALSE), Work(Indices \o Tables, FALSE)}
        \cup {Work(<<Indices[i]>>, TRUE) : i \in DOMAIN Indices}

AtLeast(a, b) == IF a >= b THEN a ELSE b
Busy == {r \in Seeders : seeding[r] # Idle}

Begin(r) ==
    /\ seeding[r] = Idle
    /\ \E job \in Jobs : seeding' = [seeding EXCEPT ![r] = job]
    /\ crowd' = AtLeast(crowd, Cardinality(Busy) + 1)
    /\ UNCHANGED listed

Name(r) == Head(seeding[r].todo)
Looking(r) == r \in Busy /\ seeding[r].pc = "looking" /\ seeding[r].todo # <<>>
Becomes(r, q) == seeding' = [seeding EXCEPT ![r] = q] /\ UNCHANGED <<listed, crowd>>
Onwards(q) == [q EXCEPT !.pc = "looking", !.todo = Tail(@)]

\* What a name stands for now: the definition's symbols; what the exchange
\* answers, where none is no answer; what the instruments table has.
Answers(name) ==
    IF IsIn(name, Predefined) THEN {Stocks}
    ELSE IF IsIn(name, Indices) THEN (SUBSET Stocks) \ {{}} ELSE SUBSET Stocks

\* Variant, for seeing that the names notice it: a row is added without a look.
NotLooked(name) == {}

RowsOf(name) == {row \in DOMAIN listed : listed[row].name = name}

\* No row of the name: one is added, that nobody sees before the commit.
Add(r) ==
    /\ Looking(r) /\ RowsOf(Name(r)) = {}
    /\ \E symbols \in Answers(Name(r)) :
          Becomes(r, Onwards([seeding[r] EXCEPT !.added = Append(@, UniverseRow(Name(r), symbols))]))

\* One row: its symbols are going to change.
Find(r) ==
    /\ Looking(r) /\ Cardinality(RowsOf(Name(r))) = 1
    /\ IF IsIn(Name(r), Predefined) THEN Becomes(r, Onwards(seeding[r]))
       ELSE \E row \in RowsOf(Name(r)), symbols \in Answers(Name(r)) :
               Becomes(r, [seeding[r] EXCEPT !.pc = "changing", !.row = row, !.symbols = symbols])

\* They do when no other request has changed it and not committed.
RowFree(r, row) == \A s \in Busy \ {r} : row \notin DOMAIN seeding[s].changed
Change(r) ==
    /\ r \in Busy /\ seeding[r].pc = "changing" /\ RowFree(r, seeding[r].row)
    /\ LET q == seeding[r]
       IN  Becomes(r, Onwards([q EXCEPT !.changed =
               [row \in DOMAIN @ \cup {q.row} |-> IF row = q.row THEN q.symbols ELSE @[row]]]))

\* No answer for an index, an error, or more rows than one: on to the next.
PassOver(r) ==
    /\ Looking(r) /\ IsIn(Name(r), Indices) /\ ~seeding[r].alone
    /\ Becomes(r, Onwards(seeding[r]))

\* Everything is written at once.
Commit(r) ==
    /\ r \in Busy /\ seeding[r].todo = <<>> /\ Len(listed) + Len(seeding[r].added) <= MaxListed
    /\ LET q == seeding[r]
       IN  listed' = [row \in DOMAIN listed |->
                         IF row \in DOMAIN q.changed
                         THEN [listed[row] EXCEPT !.symbols = q.changed[row]] ELSE listed[row]]
                     \o q.added
    /\ seeding' = [seeding EXCEPT ![r] = Idle] /\ UNCHANGED crowd

\* More rows than one of a name that is no index, an index alone without an
\* answer, a database that fails: everything is rolled back.
Fail(r) == r \in Busy /\ Becomes(r, Idle)

Next ==
    \E r \in Seeders : \/ Begin(r) \/ Add(r) \/ Find(r) \/ Change(r) \/ PassOver(r)
                       \/ Commit(r) \/ Fail(r)

Spec == Init /\ [][Next]_vars

-----------------------------------------------------------------------------
(* Properties *)

TypeOK ==
    /\ listed \in Seq([name : STRING, symbols : SUBSET Stocks]) /\ Len(listed) <= MaxListed
    /\ crowd \in 0..Cardinality(Seeders)
    /\ \A r \in Busy : /\ seeding[r].pc \in {"looking", "changing"}
                       /\ DOMAIN seeding[r].changed \subseteq DOMAIN listed

\* However often they are seeded and refreshed and whatever fails, a name has
\* one row; where requests overlapped, no more than were ever under way
\* together, since a name that is seen is not added
\* (seed_predefined_universes, create_or_update_dynamic_universe).
OneRowEach ==
    \A row \in DOMAIN listed :
        Cardinality({other \in DOMAIN listed : listed[other].name = listed[row].name}) <= crowd

\* An index that was listed once is not left without symbols when the exchange
\* does not answer (create_or_update_dynamic_universe).
IndicesKeepSymbols ==
    \A row \in DOMAIN listed : IsIn(listed[row].name, Indices) => listed[row].symbols # {}

=============================================================================
