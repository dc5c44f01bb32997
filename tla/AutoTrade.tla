------------------------------ MODULE AutoTrade ------------------------------
(***************************************************************************)
(* From a custom screener to a strategy that trades its symbols: the runs  *)
(* of the screener (backend/app/modules/screener/service.py), the queue of *)
(* trades that wait for the user (algo/auto_trade_service.py) and the      *)
(* strategies made of them, beside the engine's executions and the user's  *)
(* own edits.                                                              *)
(*                                                                         *)
(* Requests read rows, decide, and commit what they decided: nothing is    *)
(* locked between, so a request may act on what another has changed since. *)
(* History remembers when one did (overtaken), as most of what the queue   *)
(* promises holds only where none does.                                    *)
(*                                                                         *)
(* There is one user, one screener and the auto-trade configuration that   *)
(* refers to it.  Scores, sizes and schedules of strategies are left out.  *)
(***************************************************************************)
EXTENDS Integers, FiniteSets

CONSTANTS
    Symbols,     \* what the screener may find
    Requests,    \* requests about waiting trades that may be under way together
    MaxTrades,   \* bound: trades put into the queue
    MaxEdits     \* bound: the user's edits of a strategy or a configuration, and failures

ASSUME Bounds == MaxTrades \in Nat \ {0} /\ MaxEdits \in Nat
ASSUME Served == IsFiniteSet(Requests) /\ Requests # {}

VARIABLES
    screener,    \* whether it feeds auto-trade, whether a run is under way, trades made
    config,      \* the configuration: what is done with what the screener found
    trades,      \* the pending_auto_trades rows, a function from their ids
    strategies,  \* the strategies linked to the screener, a function from the id of the
                 \*   trade they were made of; 0 is one that was there before
    held,        \* strategy -> symbols it has an open position in
    turn,        \* strategy -> the symbol that an execution of it is about to buy, or NoTurn
    request,     \* request -> where it is, and what it has read
    overtaken,   \* history: some request or execution acted on what had changed
    byUser,      \* history: strategies the user enabled, and symbols the user took off them
    edits        \* edits and failures so far

queue == <<screener, config, trades>>
book == <<strategies, held, turn>>
history == <<overtaken, byUser>>
vars == <<queue, book, request, history, edits>>

Ids == 1..MaxTrades
Made == DOMAIN strategies

\* confirmation_mode and enabled in one; any mode but "auto" asks the user.
Configs == {"none", "off", "auto", "notify"}
Statuses == {"PENDING", "APPROVED", "REJECTED", "EXPIRED"}

\* A trade may be past its time at any moment: time is left out.
Trades == [status : Statuses, symbols : (SUBSET Symbols) \ {{}}]

\* A strategy's settings are the user's own or those of the configuration;
\* unlinking it from the screener keeps the link and ends the syncing.
Strategies == [status : {"ACTIVE", "DISABLED"}, symbols : SUBSET Symbols,
               exitOnly : SUBSET Symbols, synced : BOOLEAN, settings : {"user", "config"}]
NoTurn == "none"
Nobody == [enabled |-> {}, dropped |-> {}]

Idle == [pc |-> "idle"]
At(r, place) == request[r].pc = place
Goto(r, state) == request' = [request EXCEPT ![r] = state]
Edit == edits < MaxEdits /\ edits' = edits + 1

Init ==
    /\ screener = [on |-> TRUE, running |-> FALSE, made |-> 0]
    /\ config = "notify"
    /\ trades = [t \in {} |-> Idle]
    /\ \E synced \in BOOLEAN :
          strategies \in {[s \in {} |-> Idle],
              [s \in {0} |-> [status |-> "ACTIVE", symbols |-> Symbols, exitOnly |-> {},
                              synced |-> synced, settings |-> "user"]]}
    /\ held = [s \in Made |-> {}] /\ turn = [s \in Made |-> NoTurn]
    /\ request = [r \in Requests |-> Idle]
    /\ overtaken = FALSE /\ byUser = [Nobody EXCEPT !.enabled = Made] /\ edits = 0

-----------------------------------------------------------------------------
(* run_custom_screener_for_auto_trade *)

\* Whether the screener feeds auto-trade is read before the long run alone.
StartRun ==
    /\ screener.on /\ ~screener.running /\ screener.made < MaxTrades
    /\ screener' = [screener EXCEPT !.running = TRUE]
    /\ UNCHANGED <<config, trades, book, request, history, edits>>

\* create_pending_trade, for the symbols that pass the configuration's
\* confidence and number.  In mode "auto" the call that should make
\* strategies raises, as its arguments are not those of the callee.
EndRun ==
    /\ screener.running
    /\ \/ /\ screener' = [screener EXCEPT !.running = FALSE]
          /\ UNCHANGED trades
       \/ \E symbols \in (SUBSET Symbols) \ {{}} :
             LET t == screener.made + 1
             IN  /\ config = "notify"
                 /\ screener' = [screener EXCEPT !.running = FALSE, !.made = t]
                 /\ trades' = [i \in DOMAIN trades \cup {t} |->
                                 IF i # t THEN trades[i]
                                 ELSE [status |-> "PENDING", symbols |-> symbols]]
    /\ UNCHANGED <<config, book, request, history, edits>>

\* link_auto_trade, unlink_auto_trade
LinkScreener ==
    /\ Edit
    /\ screener' = [screener EXCEPT !.on = ~@]
    /\ UNCHANGED <<config, trades, book, request, history>>

\* Creating, updating and deleting the configuration; its trades go with it.
SetConfig ==
    /\ Edit
    /\ config' \in Configs \ {config}
    /\ trades' = IF config' = "none" THEN [t \in {} |-> Idle] ELSE trades
    /\ UNCHANGED <<screener, book, request, history>>

-----------------------------------------------------------------------------
(* The user's answer to a waiting trade, and the hourly expiry *)

Waiting(t) == t \in DOMAIN trades /\ trades[t].status = "PENDING"

AskApproval(r, t) ==
    /\ At(r, "idle") /\ Waiting(t)
    /\ Goto(r, [pc |-> "looking", trade |-> t])
    /\ UNCHANGED <<queue, book, history, edits>>

\* A rejection; the expiry of a trade by the hourly task, or by an approval that
\* comes too late.
AskVerdict(r, t) ==
    /\ At(r, "idle") /\ Waiting(t)
    /\ \E verdict \in {"REJECTED", "EXPIRED"} :
          Goto(r, [pc |-> "closing", trade |-> t, verdict |-> verdict])
    /\ UNCHANGED <<queue, book, history, edits>>

\* The row may have gone with its configuration, which fails the request.
CloseTrade(r) ==
    /\ At(r, "closing") /\ Goto(r, Idle)
    /\ LET t == request[r].trade
       IN  IF t \in DOMAIN trades
              THEN /\ trades' = [trades EXCEPT ![t].status = request[r].verdict]
                   /\ overtaken' = (overtaken \/ ~Waiting(t))
              ELSE UNCHANGED <<trades, overtaken>>
    /\ UNCHANGED <<screener, config, book, byUser, edits>>

\* approve_pending_trade looks for the strategy linked to the screener, and
\* raises where there are several, and for the strategy's open positions.
\* In the variant it finds none that was unlinked.
FoundSynced == {s \in Made : strategies[s].synced}
Found == Made

Look(r) ==
    /\ At(r, "looking")
    /\ Goto(r, IF Cardinality(Found) > 1 THEN Idle
               ELSE [pc |-> "approving", trade |-> request[r].trade,
                     was |-> [s \in Found |-> strategies[s]],
                     open |-> [s \in Found |-> held[s]]])
    /\ UNCHANGED <<queue, book, history, edits>>

\* Symbols that are taken off the strategy and have an open position may only
\* be sold from now on, as those before that still have one.
\* In the variant those before are forgotten.
ExitOnlyOnce(was, symbols, open) == (was.symbols \ symbols) \cap open
ExitOnly(was, symbols, open) == ((was.symbols \ symbols) \cup was.exitOnly) \cap open

\* The settings follow the configuration where the user has left it so.
\* In the variant they always do.
SettledAlways(was, now) == "config"
Settled(was, now) == IF was.synced THEN "config" ELSE now

\* What the approval has read of a strategy decides, whatever it is now.
Update(s, read, symbols) ==
    strategies' = [strategies EXCEPT ![s] =
        [status   |-> strategies[s].status,
         symbols  |-> symbols,
         exitOnly |-> ExitOnly(read.was[s], symbols, read.open[s]),
         synced   |-> strategies[s].synced,
         settings |-> Settled(read.was[s], strategies[s].settings)]]

\* In the variant a new strategy starts to trade by itself.
NewActive(symbols) ==
    [status |-> "ACTIVE", symbols |-> symbols, exitOnly |-> {},
     synced |-> TRUE, settings |-> "config"]
New(symbols) ==
    [status |-> "DISABLED", symbols |-> symbols, exitOnly |-> {},
     synced |-> TRUE, settings |-> "config"]

Create(s, symbols) ==
    /\ strategies' = [i \in Made \cup {s} |-> IF i = s THEN New(symbols) ELSE strategies[i]]
    /\ held' = [i \in Made \cup {s} |-> IF i = s THEN {} ELSE held[i]]
    /\ turn' = [i \in Made \cup {s} |-> IF i = s THEN NoTurn ELSE turn[i]]

\* What is now differs from what the approval has read.
Overtaken(read) ==
    \/ ~Waiting(read.trade) \/ Made # DOMAIN read.was
    \/ \E s \in Made : strategies[s] # read.was[s] \/ held[s] # read.open[s]
                       \/ turn[s] # NoTurn

\* Two approvals of one trade may both come here, and make two strategies.
Approve(r) ==
    LET read == request[r]  t == read.trade
    IN  /\ At(r, "approving") /\ Goto(r, Idle)
        /\ t \in DOMAIN trades /\ DOMAIN read.was \subseteq Made
        /\ trades' = [trades EXCEPT ![t].status = "APPROVED"]
        /\ IF read.was = [s \in {} |-> Idle]
              THEN Create(IF t \in Made THEN MaxTrades + t ELSE t, trades[t].symbols)
              ELSE /\ \E s \in DOMAIN read.was : Update(s, read, trades[t].symbols)
                   /\ UNCHANGED <<held, turn>>
        /\ overtaken' = (overtaken \/ Overtaken(read))
        /\ UNCHANGED <<screener, config, byUser, edits>>

\* A row it has to write is gone, or the request dies; nothing is committed.
Fail(r) ==
    /\ ~At(r, "idle") /\ Goto(r, Idle)
    /\ \/ /\ At(r, "approving") /\ UNCHANGED edits
          /\ \/ request[r].trade \notin DOMAIN trades
             \/ ~(DOMAIN request[r].was \subseteq Made)
       \/ Edit
    /\ UNCHANGED <<queue, book, history>>

-----------------------------------------------------------------------------
(* The engine's executions of the strategies, and the user's edits *)

\* An execution reads the strategy when it begins and buys what it has read.
Tradable(s) == strategies[s].symbols \ strategies[s].exitOnly

Signal(s, x) ==
    /\ strategies[s].status = "ACTIVE" /\ turn[s] = NoTurn
    /\ x \in Tradable(s) \ held[s]
    /\ turn' = [turn EXCEPT ![s] = x]
    /\ UNCHANGED <<queue, strategies, held, request, history, edits>>

\* The order may be refused.
Buy(s) ==
    /\ turn[s] # NoTurn
    /\ turn' = [turn EXCEPT ![s] = NoTurn]
    /\ \/ UNCHANGED <<held, overtaken>>
       \/ /\ held' = [held EXCEPT ![s] = @ \cup {turn[s]}]
          /\ overtaken' = (overtaken \/ turn[s] \notin Tradable(s))
    /\ UNCHANGED <<queue, strategies, request, byUser, edits>>

\* The tracker closes a position and the symbol need not be exit-only any more;
\* a close by the user leaves it so.
Close(s, x) ==
    /\ x \in held[s]
    /\ held' = [held EXCEPT ![s] = @ \ {x}]
    /\ strategies' \in {strategies, [strategies EXCEPT ![s].exitOnly = @ \ {x}]}
    /\ UNCHANGED <<queue, turn, request, history, edits>>

SetStatus(s) ==
    /\ Edit
    /\ LET active == strategies[s].status = "ACTIVE"
       IN  /\ strategies' = [strategies EXCEPT ![s].status = IF active THEN "DISABLED" ELSE "ACTIVE"]
           /\ byUser' = IF active THEN byUser ELSE [byUser EXCEPT !.enabled = @ \cup {s}]
    /\ UNCHANGED <<queue, held, turn, request, overtaken>>

\* unlink_strategy_from_screener, relink_strategy_to_screener
SetSynced(s) ==
    /\ Edit
    /\ strategies' = [strategies EXCEPT ![s].synced = ~@]
    /\ UNCHANGED <<queue, held, turn, request, history>>

\* update_strategy does not look at positions: the user may drop a symbol
\* that has one.
UpdateStrategy(s) ==
    /\ Edit
    /\ \E symbols \in SUBSET Symbols :
          /\ strategies' = [strategies EXCEPT ![s].symbols = symbols, ![s].settings = "user"]
          /\ byUser' = [byUser EXCEPT !.dropped =
                           @ \cup {<<s, x>> : x \in strategies[s].symbols \ symbols}]
    /\ UNCHANGED <<queue, held, turn, request, overtaken>>

DeleteStrategy(s) ==
    /\ Edit
    /\ strategies' = [i \in Made \ {s} |-> strategies[i]]
    /\ held' = [i \in Made \ {s} |-> held[i]]
    /\ turn' = [i \in Made \ {s} |-> turn[i]]
    /\ byUser' = [byUser EXCEPT !.enabled = @ \ {s}]
    /\ UNCHANGED <<queue, request, overtaken>>

Answer(r) == CloseTrade(r) \/ Look(r) \/ Approve(r) \/ Fail(r)
Trade(s) ==
    \/ Buy(s)
    \/ \E x \in Symbols : Signal(s, x) \/ Close(s, x)

Next ==
    \/ StartRun \/ EndRun \/ LinkScreener \/ SetConfig
    \/ \E r \in Requests, t \in DOMAIN trades : AskApproval(r, t) \/ AskVerdict(r, t)
    \/ \E r \in Requests : Answer(r)
    \/ \E s \in Made : \/ Trade(s) \/ SetStatus(s) \/ SetSynced(s)
                       \/ UpdateStrategy(s) \/ DeleteStrategy(s)

Spec == Init /\ [][Next]_vars

-----------------------------------------------------------------------------
(* Properties *)

\* Every variable has its type, and executions are of strategies that exist.
TypeOK ==
    /\ screener \in [on : BOOLEAN, running : BOOLEAN, made : 0..MaxTrades]
    /\ config \in Configs /\ edits \in 0..MaxEdits /\ overtaken \in BOOLEAN
    /\ DOMAIN trades \subseteq 1..screener.made
    /\ \A t \in DOMAIN trades : trades[t] \in Trades
    /\ \A s \in Made : strategies[s] \in Strategies /\ held[s] \subseteq Symbols
    /\ DOMAIN held = Made /\ DOMAIN turn = Made
    /\ \A s \in Made : turn[s] \in Symbols \cup {NoTurn}

\* However often its trades are approved, and whatever the user does to the
\* strategy between, a screener keeps one strategy (approve_pending_trade finds
\* the one that exists) unless requests overtake one another, and then it has
\* no more than were under way together: with two, every later approval fails.
OneStrategy ==
    Cardinality(Made) <= IF overtaken THEN Cardinality(Requests) ELSE 1

\* A position is of a symbol that the strategy still trades or may at least
\* sell, or that the user took off it: no list of the screener orphans one.
PositionsCovered ==
    overtaken \/ \A s \in Made : \A x \in held[s] :
        \/ x \in strategies[s].symbols \cup strategies[s].exitOnly
        \/ <<s, x>> \in byUser.dropped

\* A strategy that was made of a recommendation trades, or holds anything, only
\* after its user enabled it.
OnlyUserEnables ==
    \A s \in Made : s \notin byUser.enabled =>
        strategies[s].status = "DISABLED" /\ turn[s] = NoTurn /\ held[s] = {}

\* Approvals leave the settings of an unlinked strategy to the user, unless it
\* is unlinked while one is under way.
UnlinkedKeepsSettings ==
    [][\A s \in Made \cap Made' :
          ~strategies[s].synced /\ strategies[s].settings = "user" /\ ~overtaken'
          => strategies'[s].settings = "user"]_vars

=============================================================================
