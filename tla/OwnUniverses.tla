----------------------------- MODULE OwnUniverses -----------------------------
(***************************************************************************)
(* Users' own universes and the strategies that trade them: made as such,  *)
(* from a screener's answer or with a strategy, edited and deleted         *)
(* (algo/universe_service.py, screener/router.py).  A universe is never    *)
(* refreshed: refresh-universe has the screener run without the name of a  *)
(* universe that it needs, which raises before anything is written.  The   *)
(* system's universes are in Universes.                                    *)
(***************************************************************************)
EXTENDS Integers, FiniteSets

CONSTANTS
    Stocks,                 \* symbols
    Askers,                 \* requests for both that may be under way together
    MaxIssued, MaxFollowers \* bounds: universes made, and strategies

VARIABLES
    universes,      \* a function from the ids of rows
    issued,         \* rows made so far, deleted ones included
    followers,      \* strategies, each with the universe it trades
    asking,         \* the requests
    paired          \* history: the universes that were committed with a strategy

vars == <<universes, issued, followers, asking, paired>>

Ids == DOMAIN universes
UniverseRow(purpose, symbols) == [purpose |-> purpose, symbols |-> symbols]
With(id, universe) == [i \in Ids \cup {id} |-> IF i = id THEN universe ELSE universes[i]]

\* Universe 0 is none, or one of the system's.
Strategy(number, universe) == [number |-> number, universe |-> universe]
Numbers == (1..MaxFollowers) \ {s.number : s \in followers}

Idle == [pc |-> "idle"]

Init ==
    /\ universes = [id \in {} |-> Idle] /\ issued = 0 /\ followers = {} /\ paired = {}
    /\ asking = [u \in Askers |-> Idle]

-----------------------------------------------------------------------------
(* Requests that read and write at once *)

\* As such, or of what a screener found.
CreateUniverse ==
    /\ issued < MaxIssued
    /\ \E symbols \in SUBSET Stocks : universes' = With(issued + 1, UniverseRow("itself", symbols))
    /\ issued' = issued + 1
    /\ UNCHANGED <<followers, asking, paired>>

UpdateUniverse ==
    /\ \E id \in Ids, symbols \in SUBSET Stocks : universes' = [universes EXCEPT ![id].symbols = symbols]
    /\ UNCHANGED <<issued, followers, asking, paired>>

\* Strategies that trade it are left without.
DeleteUniverse ==
    /\ \E id \in Ids :
          /\ universes' = [i \in Ids \ {id} |-> universes[i]]
          /\ followers' = {[s EXCEPT !.universe = IF @ = id THEN 0 ELSE @] : s \in followers}
    /\ UNCHANGED <<issued, asking, paired>>

CreateStrategy ==
    /\ \E n \in Numbers, id \in Ids \cup {0} : followers' = followers \cup {Strategy(n, id)}
    /\ UNCHANGED <<universes, issued, asking, paired>>

UpdateStrategy ==
    /\ \E s \in followers, id \in Ids \cup {0} :
          followers' = (followers \ {s}) \cup {[s EXCEPT !.universe = id]}
    /\ UNCHANGED <<universes, issued, asking, paired>>

\* Its universe stays.
DeleteStrategy ==
    /\ \E s \in followers : followers' = followers \ {s}
    /\ UNCHANGED <<universes, issued, asking, paired>>

-----------------------------------------------------------------------------
(* A strategy with its universe: create-strategy and create-smart-strategy *)

Asks(u, q) == asking' = [asking EXCEPT ![u] = q]

\* Variant, for seeing that the strategies notice it: the universe is committed.
CommitUniverse(u) ==
    /\ asking[u] = Idle /\ issued < MaxIssued
    /\ \E smart \in BOOLEAN : Asks(u, [pc |-> "flushed", smart |-> smart])
    /\ universes' = With(issued + 1, UniverseRow("strategy", Stocks)) /\ issued' = issued + 1
    /\ UNCHANGED <<followers, paired>>

FlushUniverse(u) ==
    /\ asking[u] = Idle
    /\ \E smart \in BOOLEAN : Asks(u, [pc |-> "flushed", smart |-> smart])
    /\ UNCHANGED <<universes, issued, followers, paired>>

\* One transaction has both.
CommitStrategy(u) ==
    /\ asking[u] # Idle /\ asking[u].smart /\ issued < MaxIssued
    /\ universes' = With(issued + 1, UniverseRow("strategy", Stocks)) /\ issued' = issued + 1
    /\ \E n \in Numbers : followers' = followers \cup {Strategy(n, issued + 1)}
    /\ paired' = paired \cup {issued + 1}
    /\ Asks(u, Idle)

\* create-strategy always raises: it gives the strategy columns that there are
\* not.  The other may.  The universe is rolled back.
RaiseStrategy(u) ==
    /\ asking[u] # Idle /\ Asks(u, Idle)
    /\ UNCHANGED <<universes, issued, followers, paired>>

Next ==
    \/ CreateUniverse \/ UpdateUniverse \/ DeleteUniverse
    \/ CreateStrategy \/ UpdateStrategy \/ DeleteStrategy
    \/ \E u \in Askers : FlushUniverse(u) \/ CommitStrategy(u) \/ RaiseStrategy(u)

Spec == Init /\ [][Next]_vars

-----------------------------------------------------------------------------
(* Properties *)

TypeOK ==
    /\ issued \in 0..MaxIssued /\ Ids \subseteq 1..issued /\ paired \subseteq 1..issued
    /\ \A id \in Ids : universes[id] \in [purpose : {"itself", "strategy"}, symbols : SUBSET Stocks]
    /\ followers \subseteq [number : 1..MaxFollowers, universe : Ids \cup {0}]
    /\ \A u \in Askers : asking[u] # Idle => asking[u].pc = "flushed" /\ asking[u].smart \in BOOLEAN

\* A universe that was made for a strategy was committed with it, whichever of
\* the two requests made it and whatever failed between the universe and the
\* strategy (create_strategy_from_screener, create_smart_strategy).
ComeWithStrategies == \A id \in Ids : universes[id].purpose = "strategy" => id \in paired

=============================================================================
