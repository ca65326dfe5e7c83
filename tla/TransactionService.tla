------------------------- MODULE TransactionService -------------------------
(***************************************************************************)
(* transaction-service with its Postgres repository, in front of the       *)
(* ledger: deposits, withdrawals and transfers.                            *)
(*                                                                         *)
(* A client request is known by its idempotency key and may be attempted   *)
(* several times, also while an earlier attempt still runs; the service    *)
(* has several replicas, so attempts interleave freely.  An attempt is one *)
(* run of the handler, one step per call it makes: replay, ensureFunds,    *)
(* OpenAccount, ledger.Post, and the statements of repo.Create.  The       *)
(* transaction id an attempt mints is fresh, so the attempt itself stands  *)
(* for it, and for the row it records: that row's own amount, rounded to   *)
(* cents by its column, is not read again.  The ledger is the atomic one   *)
(* of module Ledger, whose balances round.                                 *)
(***************************************************************************)
EXTENDS Integers, Sequences, FiniteSets, Decimals

CONSTANTS
    Accounts,       \* ledger accounts
    Cash,           \* the system cash account of the one currency modelled
    Requests,       \* client requests: [key, type, from, to, amount]
    Unit,           \* amount units in a cent, which is what a balance keeps
    MaxAmount,      \* the largest amount of a request, in whole cents
    InitiallyOpen,  \* accounts open in the ledger at the start
    MaxAttempts,    \* attempts a client makes at one request
    MaxInFlight,    \* attempts running at the same time
    MaxFaults,      \* crashes and failed calls in a behaviour
    NoAttempt       \* "no transaction"

Keys == { r.key : r \in Requests }

Attempts == [req : Requests, n : 1..MaxAttempts]

Type == {"DEPOSIT", "WITHDRAWAL", "TRANSFER"}

\* from and to are the debited and the credited account: a deposit is debited to
\* Cash, a withdrawal credited to it.
ASSUME RequestsAssumption ==
    /\ Cash \in Accounts
    /\ Requests \subseteq [key : Keys, type : Type,
                           from : Accounts, to : Accounts, amount : Int]
    /\ \A r \in Requests : /\ r.type = "DEPOSIT" => r.from = Cash
                           /\ r.type = "WITHDRAWAL" => r.to = Cash
ASSUME AmountsAssumption ==
    /\ Unit \in Nat \ {0}
    /\ MaxAmount \in Nat /\ Whole(MaxAmount, Unit)
    /\ \A r \in Requests : r.amount <= MaxAmount
ASSUME BoundsAssumption ==
    /\ InitiallyOpen \subseteq Accounts
    /\ MaxAttempts \in Nat /\ MaxInFlight \in Nat \ {0} /\ MaxFaults \in Nat
    /\ NoAttempt \notin Attempts

VARIABLES
    open, balance, applied,     \* the ledger
    records,    \* committed rows of transaction_transactions, by the attempt that made them
    outbox,     \* committed rows of outbox_events
    newRecords, newEvents,      \* rows of both that a transaction has yet to commit
    pc,         \* the call each attempt is about to make
    outcome,    \* its answer
    body,       \* the transaction it answered with
    faults      \* faults so far

ledger == <<open, balance, applied>>
database == <<records, outbox, newRecords, newEvents>>
attempt == <<pc, outcome, body>>
vars == <<ledger, database, attempt, faults>>

Entries(r) ==
    << [account |-> r.from, direction |-> "DEBIT", amount |-> r.amount],
       [account |-> r.to, direction |-> "CREDIT", amount |-> r.amount] >>

\* Bug variant of Posting: the key is minted with the id, a retry has another one.
PostingKeyedById(a) == [id |-> a, key |-> a, entries |-> Entries(a.req)]

Posting(a) == [id |-> a, key |-> a.req.key, entries |-> Entries(a.req)]

L == INSTANCE Ledger WITH Postings <- { Posting(a) : a \in Attempts }

\* primaryAccount: the customer account an event is keyed by.
PrimaryAccount(r) == IF r.type = "DEPOSIT" THEN r.to ELSE r.from

EventOf(a) == [txn |-> a, key |-> PrimaryAccount(a.req)]

RecordOf(k) == { r \in records : r.req.key = k }

InFlight == { a \in Attempts : pc[a] \notin {"unsent", "answered", "dead"} }

-----------------------------------------------------------------------------
Init ==
    /\ open = InitiallyOpen
    /\ balance = [x \in Accounts |-> 0]
    /\ applied = {}
    /\ records = {}
    /\ outbox = {}
    /\ newRecords = {}
    /\ newEvents = {}
    /\ pc = [a \in Attempts |-> "unsent"]
    /\ outcome = [a \in Attempts |-> "none"]
    /\ body = [a \in Attempts |-> NoAttempt]
    /\ faults = 0

Goto(a, call) ==
    /\ pc' = [pc EXCEPT ![a] = call]
    /\ UNCHANGED <<outcome, body>>

Answer(a, answer, txn) ==
    /\ pc' = [pc EXCEPT ![a] = "answered"]
    /\ outcome' = [outcome EXCEPT ![a] = answer]
    /\ body' = [body EXCEPT ![a] = txn]

\* Bug variant of Refuse: the half-made transaction is returned with the error.
RefuseWithTxn(a, answer) == Answer(a, answer, a)

Refuse(a, answer) == Answer(a, answer, NoAttempt)

\* account-service opens the ledger account of a new bank account.
OpenCustomerAccount(x) ==
    /\ L!OpenAccount(x)
    /\ UNCHANGED <<database, attempt, faults>>

Acceptable(r) == r.amount > 0 /\ (r.type = "TRANSFER" => r.from # r.to)

\* The client sends the request, or sends it again, whatever became of the
\* attempts before: it cannot tell a slow service from a dead one.
Send(a) ==
    /\ pc[a] = "unsent"
    /\ \A m \in 1..(a.n - 1) : pc[[a EXCEPT !.n = m]] # "unsent"
    /\ Cardinality(InFlight) < MaxInFlight
    /\ IF Acceptable(a.req) THEN Goto(a, "replay") ELSE Refuse(a, "bad_request")
    /\ UNCHANGED <<ledger, database, faults>>

AfterReplay(a) == IF a.req.type = "DEPOSIT" THEN "system" ELSE "funds"

\* replay: a recorded key is answered with its record.
Replay(a) ==
    /\ pc[a] = "replay"
    /\ IF RecordOf(a.req.key) = {}
       THEN Goto(a, AfterReplay(a))
       ELSE \E r \in RecordOf(a.req.key) : Answer(a, "created", r)
    /\ UNCHANGED <<ledger, database, faults>>

\* Bug variant of Sufficient: the comparison is the wrong way round.
SufficientReversed(a) == balance[a.req.from] <= a.req.amount

Sufficient(a) == balance[a.req.from] >= a.req.amount

\* ensureFunds: reads the balance; nothing is reserved.
CheckFunds(a) ==
    /\ pc[a] = "funds"
    /\ CASE a.req.from \notin open -> Refuse(a, "ledger_unavailable")
         [] a.req.from \in open /\ ~Sufficient(a) -> Refuse(a, "insufficient_funds")
         [] OTHER -> Goto(a, IF a.req.type = "WITHDRAWAL" THEN "system" ELSE "post")
    /\ UNCHANGED <<ledger, database, faults>>

OpenSystemAccount(a) ==
    /\ pc[a] = "system"
    /\ L!OpenAccount(Cash)
    /\ Goto(a, "post")
    /\ UNCHANGED <<database, faults>>

\* Bug variants of PostToLedger: its error is dropped, and a duplicate is an error.
PostIgnoringError(a) ==
    /\ pc[a] = "post"
    /\ L!Post(Posting(a))
    /\ Goto(a, "record")
    /\ UNCHANGED <<database, faults>>

PostRefusingDuplicate(a) ==
    /\ pc[a] = "post"
    /\ L!Post(Posting(a))
    /\ IF L!PostOutcome(Posting(a)) = "applied"
       THEN Goto(a, "record")
       ELSE Refuse(a, "ledger_unavailable")
    /\ UNCHANGED <<database, faults>>

\* The ledger's answer that the key was a duplicate is not looked at.
PostToLedger(a) ==
    /\ pc[a] = "post"
    /\ L!Post(Posting(a))
    /\ IF L!PostOutcome(Posting(a)) \in {"applied", "duplicate"}
       THEN Goto(a, "record")
       ELSE Refuse(a, "ledger_unavailable")
    /\ UNCHANGED <<database, faults>>

\* A Post whose caller has gone takes effect all the same, or never.
OrphanedPost(a) ==
    /\ pc[a] = "orphaned"
    /\ L!Post(Posting(a)) \/ UNCHANGED ledger
    /\ Goto(a, "answered")
    /\ UNCHANGED <<database, faults>>

-----------------------------------------------------------------------------
(* repo.Create: the record and its event, in one transaction.  An INSERT     *)
(* waits for the uncommitted row of another transaction under its key.       *)

KeyPending(k) == \E b \in newRecords : b.req.key = k

\* Bug variant of InsertRecord: the key carries no unique constraint.
InsertRecordAgain(a) ==
    /\ pc[a] = "record"
    /\ newRecords' = newRecords \cup {a}
    /\ Goto(a, "event")
    /\ UNCHANGED <<ledger, records, outbox, newEvents, faults>>

InsertRecord(a) ==
    /\ pc[a] = "record"
    /\ RecordOf(a.req.key) = {}
    /\ ~KeyPending(a.req.key)
    /\ newRecords' = newRecords \cup {a}
    /\ Goto(a, "event")
    /\ UNCHANGED <<ledger, records, outbox, newEvents, faults>>

\* The key is recorded already: the unique constraint turns Create into an error.
RecordRefused(a) ==
    /\ pc[a] = "record"
    /\ RecordOf(a.req.key) # {}
    /\ Refuse(a, "error")
    /\ UNCHANGED <<ledger, database, faults>>

\* Bug variant of InsertEvent: the INSERT goes through the pool, not the transaction.
InsertEventThroughPool(a) ==
    /\ pc[a] = "event"
    /\ outbox' = outbox \cup {EventOf(a)}
    /\ Goto(a, "commit")
    /\ UNCHANGED <<ledger, records, newRecords, newEvents, faults>>

InsertEvent(a) ==
    /\ pc[a] = "event"
    /\ newEvents' = newEvents \cup {EventOf(a)}
    /\ Goto(a, "commit")
    /\ UNCHANGED <<ledger, records, outbox, newRecords, faults>>

\* The transaction of attempt a is over, with or without its rows.
Discard(a) ==
    /\ newRecords' = newRecords \ {a}
    /\ newEvents' = newEvents \ {EventOf(a)}

Rollback(a) == Discard(a) /\ UNCHANGED <<records, outbox>>

Commit(a) ==
    /\ records' = records \cup (newRecords \cap {a})
    /\ outbox' = outbox \cup (newEvents \cap {EventOf(a)})
    /\ Discard(a)

Record(a) ==
    /\ pc[a] = "commit"
    /\ Commit(a)
    /\ Answer(a, "created", a)
    /\ UNCHANGED <<ledger, faults>>

-----------------------------------------------------------------------------
(* Faults, MaxFaults of them. *)

Fault == faults < MaxFaults /\ faults' = faults + 1

\* Any error of the lookup counts as "not recorded".
ReplayFails(a) ==
    /\ Fault
    /\ pc[a] = "replay"
    /\ Goto(a, AfterReplay(a))
    /\ UNCHANGED <<ledger, database>>

\* A call does not reach the ledger.
LedgerUnreachable(a) ==
    /\ Fault
    /\ pc[a] \in {"funds", "system", "post"}
    /\ Refuse(a, "ledger_unavailable")
    /\ UNCHANGED <<ledger, database>>

\* The caller gives up on a Post that the ledger is still working on: timeout,
\* cancelled request, dead replica.
AbandonPost(a) ==
    /\ Fault
    /\ pc[a] = "post"
    /\ pc' = [pc EXCEPT ![a] = "orphaned"]
    /\ outcome' = [outcome EXCEPT ![a] = "ledger_unavailable"]
    /\ UNCHANGED <<ledger, database, body>>

\* A statement of Create fails, or the commit does: the transaction is rolled back.
RecordFails(a) ==
    /\ Fault
    /\ pc[a] \in {"record", "event", "commit"}
    /\ Rollback(a)
    /\ Refuse(a, "error")
    /\ UNCHANGED ledger

\* The commit takes effect and its acknowledgement is lost.
RecordAnswerLost(a) ==
    /\ Fault
    /\ pc[a] = "commit"
    /\ Commit(a)
    /\ Refuse(a, "error")
    /\ UNCHANGED ledger

\* The replica dies, or the client is gone and the request's context cancelled; Postgres
\* rolls back.
Crash(a) ==
    /\ Fault
    /\ a \in InFlight
    /\ pc[a] # "orphaned"
    /\ Rollback(a)
    /\ Goto(a, "dead")
    /\ UNCHANGED ledger

-----------------------------------------------------------------------------
Step(a) ==
    \/ Replay(a)
    \/ CheckFunds(a)
    \/ OpenSystemAccount(a)
    \/ PostToLedger(a)
    \/ OrphanedPost(a)
    \/ InsertRecord(a)
    \/ RecordRefused(a)
    \/ InsertEvent(a)
    \/ Record(a)

FaultOf(a) ==
    \/ ReplayFails(a)
    \/ LedgerUnreachable(a)
    \/ AbandonPost(a)
    \/ RecordFails(a)
    \/ RecordAnswerLost(a)
    \/ Crash(a)

Next ==
    \/ \E x \in Accounts \ {Cash} : OpenCustomerAccount(x)
    \/ \E a \in Attempts : Send(a) \/ Step(a) \/ FaultOf(a)

Spec == Init /\ [][Next]_vars

\* A handler that is not interrupted runs to its end, and clients retry.
FairSpec ==
    Spec /\ \A a \in Attempts : WF_vars(Step(a)) /\ WF_vars(Send(a))

-----------------------------------------------------------------------------
\* What a client must not do for an idempotency key to mean anything.
OneRequestPerKey == \A q, r \in Requests : q.key = r.key => q = r

ServiceTypeOK ==
    /\ applied \subseteq { Posting(a) : a \in Attempts }
    /\ records \subseteq Attempts
    /\ outbox \subseteq { EventOf(a) : a \in Attempts }
    /\ newRecords \subseteq Attempts
    /\ newEvents \subseteq { EventOf(a) : a \in Attempts }
    /\ pc \in [Attempts -> {"unsent", "replay", "funds", "system", "post", "orphaned", "record",
                            "event", "commit", "answered", "dead"}]
    /\ outcome \in [Attempts -> {"none", "created", "bad_request", "insufficient_funds",
                                 "ledger_unavailable", "error"}]
    /\ body \in [Attempts -> Attempts \cup {NoAttempt}]
    /\ faults \in 0..MaxFaults
    /\ \A a \in Attempts : outcome[a] = "created" <=> body[a] # NoAttempt
    /\ \A a \in Attempts : pc[a] \notin {"answered", "orphaned"} => outcome[a] = "none"

TypeOK ==
    /\ open \subseteq Accounts
    /\ balance \in [Accounts -> Int]
    /\ ServiceTypeOK

\* A record never claims a movement that did not happen: the ledger has applied a
\* posting under the record's key, with the record's accounts and amount.
RecordedIsPosted ==
    \A r \in records :
        \E p \in applied : p.key = r.req.key /\ p.entries = Entries(r.req)

\* The transactional outbox: wherever Create fails, is cut off or loses its answer, what is
\* committed is one event for each record and none without.
EventPerRecord == outbox = { EventOf(r) : r \in records }

\* Every successful answer to a key, first or replayed, carries one and the same
\* transaction, and that transaction is recorded.
SuccessesAgree ==
    \A a, b \in Attempts :
        outcome[a] = "created" /\ outcome[b] = "created" /\ a.req.key = b.req.key =>
            body[a] = body[b] /\ body[a] \in records

\* Retried or not, a key moves money once and is recorded once, after the move.
MovedOf(p) == [key |-> p.id.req.key, by |-> p.id]
RecordedOf(r) == [key |-> r.req.key, by |-> r]

M == INSTANCE MoneyMovement
        WITH moved <- { MovedOf(p) : p \in applied },
             recorded <- { RecordedOf(r) : r \in records }

ImplementsMoneyMovement == M!Spec

\* Withdraw and Transfer are "after an overdraft check", which reserves nothing: each of
\* the attempts in flight may have found the same money.  All the others together can
\* overdraw an account, and no more than that, late calls and rounding included.
OverdraftBounded ==
    \A x \in Accounts \ {Cash} : balance[x] >= -((MaxInFlight - 1) * MaxAmount)

\* README, "Idempotency keys": "Safe retries - the same key replays the original
\* result".  A key that has moved its money is not answered "insufficient funds".
SafeRetries ==
    [][\A a \in Attempts :
         outcome'[a] = "insufficient_funds" /\ outcome[a] = "none" =>
             ~\E p \in applied : p.key = a.req.key]_vars

\* A deposit that has reached the ledger gets its record and its event, as long
\* as the client keeps retrying.
DepositsComplete ==
    \A r \in Requests :
        r.type = "DEPOSIT" =>
            ((\E p \in applied : p.key = r.key) ~> (RecordOf(r.key) # {}))
=============================================================================
