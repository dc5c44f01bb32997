-------------------------------- MODULE Ledger --------------------------------
(***************************************************************************)
(* A user's cash and the ledger of its movements: deposits, withdrawals    *)
(* and resets that requests make at the same time, each in a session of    *)
(* its own that reads the funds, writes back what it computed of them and   *)
(* adds an entry with the balance it leaves.  Settlements of orders write  *)
(* the cash as well, without an entry: OrderDesk has them.                 *)
(***************************************************************************)
EXTENDS Integers, FiniteSets

CONSTANTS
    Requests,    \* bound: requests under way at a time
    Sums,     \* bound: what is deposited or withdrawn
    Opening,     \* PAPER_TRADING_INITIAL_BALANCE, which a reset restores
    Settled,     \* bound: what a settlement leaves for cash
    MaxBegun     \* bound: requests and settlements

VARIABLES
    cash,        \* the committed row of user_funds, or NoFunds
    ledger,      \* the committed entries of transaction_ledger
    writer,      \* the request that has written the row and not ended, or Nobody
    request,     \* what each request is at
    clock,       \* the time, as dates of entries have it
    silent       \* history: the cash was last written without an entry

vars == <<cash, ledger, writer, request, clock, silent>>

NoFunds == -1
Nobody == "nobody"
Kinds == {"deposit", "withdraw", "reset", "look"}
Entry(date, amount, balance) == [date |-> date, amount |-> amount, balance |-> balance]

\* read is the cash as the session loaded it; left what it leaves of it;
\* entries what it adds to the ledger.
Idle == [pc |-> "idle", kind |-> "look", amount |-> 0, begun |-> 0, read |-> NoFunds,
         left |-> NoFunds, entries |-> {}]
Free(r) == writer \in {r, Nobody}

Init ==
    /\ cash = NoFunds /\ ledger = {} /\ writer = Nobody
    /\ request = [r \in Requests |-> Idle] /\ clock = 0 /\ silent = FALSE

Begin(r) ==
    /\ request[r] = Idle /\ clock < MaxBegun
    /\ \E kind \in Kinds, amount \in Sums :
          request' = [request EXCEPT ![r] = [Idle EXCEPT
              !.pc = IF cash = NoFunds THEN "creating" ELSE "writing",
              !.kind = kind, !.amount = amount, !.begun = clock, !.read = cash, !.left = cash]]
    /\ clock' = clock + 1
    /\ UNCHANGED <<cash, ledger, writer, silent>>

\* The date of an entry is taken once the row is written.  In the variant it
\* is that of the request.
DatedAtBegin(r) == request[r].begun
Dated(r) == clock

\* The first request of a user creates the row, with an entry; a request that
\* meanwhile finds it created fails.  The error of an entry is swallowed, but the
\* database has given up the transaction with it, row and all: that is Fail.
CreateFunds(r) ==
    /\ request[r].pc = "creating" /\ Free(r)
    /\ IF cash = NoFunds
       THEN /\ request' = [request EXCEPT ![r].pc = "writing", ![r].read = Opening, ![r].left = Opening,
                                          ![r].entries = {Entry(Dated(r), Opening, Opening)}]
            /\ writer' = r /\ clock' = clock + 1
       ELSE request' = [request EXCEPT ![r] = Idle] /\ UNCHANGED <<writer, clock>>
    /\ UNCHANGED <<cash, ledger, silent>>

\* A withdrawal that is not covered ends the request, and with it what it did.
Refuse(r) ==
    /\ request[r].pc = "writing" /\ request[r].kind = "withdraw"
    /\ request[r].read < request[r].amount
    /\ request' = [request EXCEPT ![r] = Idle]
    /\ writer' = IF writer = r THEN Nobody ELSE writer
    /\ UNCHANGED <<cash, ledger, clock, silent>>

\* What the request leaves is computed of what it read, however long ago.
Moved(q) == CASE q.kind = "deposit"  -> q.read + q.amount
              [] q.kind = "withdraw" -> q.read - q.amount
              [] q.kind = "reset"    -> Opening

Write(r) ==
    LET q == request[r]
        left == Moved(q)
    IN  /\ q.pc = "writing" /\ q.kind # "look" /\ Free(r)
        /\ q.kind = "withdraw" => q.read >= q.amount
        /\ request' = [request EXCEPT ![r].pc = "written", ![r].left = left,
               ![r].entries = IF q.kind = "reset" THEN @
                              ELSE @ \cup {Entry(Dated(r), left - q.read, left)}]
        \* A value that has not changed is not written.
        /\ writer' = IF left = q.read THEN writer ELSE r
        /\ clock' = clock + 1
        /\ UNCHANGED <<cash, ledger, silent>>

Commit(r) ==
    /\ \/ request[r].pc = "written"
       \/ request[r].pc = "writing" /\ request[r].kind = "look"
    /\ ledger' = ledger \cup request[r].entries
    /\ IF writer = r
       THEN /\ cash' = request[r].left /\ writer' = Nobody
            /\ silent' = (request[r].kind = "reset" /\ request[r].left # request[r].read)
       ELSE UNCHANGED <<cash, writer, silent>>
    /\ request' = [request EXCEPT ![r] = Idle]
    /\ UNCHANGED clock

\* The client leaves, or a statement fails: the session is rolled back.
Fail(r) ==
    /\ request[r] # Idle /\ request' = [request EXCEPT ![r] = Idle]
    /\ writer' = IF writer = r THEN Nobody ELSE writer
    /\ UNCHANGED <<cash, ledger, clock, silent>>

\* An order, or a recalculation, writes the row in a session of its own.
Settle ==
    /\ writer = Nobody /\ cash # NoFunds /\ clock < MaxBegun
    /\ cash' \in Settled /\ silent' = TRUE /\ clock' = clock + 1
    /\ UNCHANGED <<ledger, writer, request>>

Next == \/ Settle
        \/ \E r \in Requests : \/ Begin(r) \/ CreateFunds(r) \/ Refuse(r)
                               \/ Write(r) \/ Commit(r) \/ Fail(r)

Spec == Init /\ [][Next]_vars

-----------------------------------------------------------------------------
(* Properties *)

\* Types: a row that was created stays; its writer is at work on it.
TypeOK ==
    /\ cash \in Int /\ silent \in BOOLEAN
    /\ \A e \in ledger : e.date \in 0..clock /\ {e.amount, e.balance} \subseteq Int
    /\ ledger # {} => cash # NoFunds
    /\ writer # Nobody => writer \in Requests /\ request[writer].pc \in {"writing", "written"}
    /\ \A r \in Requests : request[r].pc \in {"idle", "creating", "writing", "written"}

Newest == CHOOSE e \in ledger : \A f \in ledger : f.date <= e.date
\* The balance an account statement up to now closes with.
Closing == IF ledger = {} THEN 0 ELSE Newest.balance

\* Whatever requests of the user overlap, an account statement closes with the
\* cash there is, unless a reset or a settlement wrote it last; no two entries
\* have one date; and no withdrawal leaves less than nothing, though another
\* request may write over it (record_transaction, get_statement, deduct_cash).
StatementsClose ==
    /\ cash # NoFunds => cash >= 0 /\ (~silent => Closing = cash)
    /\ \A e, f \in ledger : e.date = f.date => e = f
    /\ \A e \in ledger : e.balance >= 0

=============================================================================
