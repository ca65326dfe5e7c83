--------------------------- MODULE LedgerPostgres ---------------------------
(***************************************************************************)
(* The Postgres repository of ledger-service: Post as the sequence of SQL  *)
(* statements it sends, run by concurrent sessions at READ COMMITTED.      *)
(*                                                                         *)
(* What a transaction has written but not committed is kept with its       *)
(* session: the uncommitted header row, and the new balances of the        *)
(* account rows it has updated, which are the rows it holds locked.        *)
(* Uncommitted writes are invisible to the others; a statement that meets  *)
(* another transaction's uncommitted row waits for that transaction to     *)
(* end.  Losing a connection rolls back, and so does Postgres' deadlock    *)
(* detector.                                                               *)
(***************************************************************************)
EXTENDS Integers, Sequences, FiniteSets, Summation, Decimals

CONSTANTS
    Accounts,
    Postings,   \* what callers submit: [id, canonical, key, entries]; canonical when the
                \* caller spells the id the way Postgres prints a UUID
    Sessions,   \* pooled connections, each serves one Post at a time
    NoPosting,  \* the request of a connection that has served none yet
    MaxSubmit,  \* how often one posting, id included, can be submitted
    Unit        \* amount units in a cent, which is all the columns keep

ASSUME UnitAssumption == Unit \in Nat \ {0}
ASSUME NoPostingAssumption == NoPosting \notin Postings
ASSUME MaxSubmitAssumption == MaxSubmit \in Nat
ASSUME FiniteAssumption == IsFiniteSet(Accounts) /\ IsFiniteSet(Postings)

VARIABLES
    \* committed rows
    open,       \* account ids in ledger_accounts
    balance,    \* their balance column
    headers,    \* [id, key] rows of ledger_transactions
    rows,       \* rows[p][i]: ledger_entries rows written for entry i of p
    \* one Post call per session
    pc,         \* statement the call has reached
    req,        \* posting being applied, or the last one
    next,       \* the entry to apply next
    inserted,   \* the call holds an uncommitted header row
    written,    \* new balances of the rows the call has locked
    reply,      \* answer to the last call
    submitted   \* how often each posting has been submitted

committed == <<open, balance, headers, rows>>
session == <<pc, req, next, inserted, written, reply>>
vars == <<committed, session, submitted>>

AppliedPostings == { p \in Postings : \E i \in DOMAIN p.entries : rows[p][i] > 0 }

\* The ledger this repository promises to be.
L == INSTANCE Ledger WITH applied <- AppliedPostings

ASSUME PostingsAssumption ==
    \A p \in Postings : p.entries \in Seq(L!Entry) /\ p.canonical \in BOOLEAN

HeaderOf(p) == [id |-> p.id, key |-> p.key]

NoLocks == [a \in {} |-> 0]

-----------------------------------------------------------------------------
Init ==
    /\ open = {}
    /\ balance = [a \in Accounts |-> 0]
    /\ headers = {}
    /\ rows = [p \in Postings |-> [i \in DOMAIN p.entries |-> 0]]
    /\ pc = [s \in Sessions |-> "idle"]
    /\ req = [s \in Sessions |-> NoPosting]
    /\ next = [s \in Sessions |-> 1]
    /\ inserted = [s \in Sessions |-> FALSE]
    /\ written = [s \in Sessions |-> NoLocks]
    /\ reply = [s \in Sessions |-> "none"]
    /\ submitted = [p \in Postings |-> 0]

\* OpenAccount is one autocommitted INSERT ... ON CONFLICT DO NOTHING.
OpenAccount(a) ==
    /\ open' = open \cup {a}
    /\ UNCHANGED <<balance, headers, rows, session, submitted>>

\* service.Post: validation, then the repository's Begin.
Submit(s, p) ==
    /\ pc[s] = "idle"
    /\ submitted[p] < MaxSubmit
    /\ submitted' = [submitted EXCEPT ![p] = @ + 1]
    /\ req' = [req EXCEPT ![s] = p]
    /\ IF L!Valid(p)
       THEN /\ pc' = [pc EXCEPT ![s] = "header"]
            /\ next' = [next EXCEPT ![s] = 1]
            /\ reply' = [reply EXCEPT ![s] = "none"]
       ELSE /\ reply' = [reply EXCEPT ![s] = "bad_request"]
            /\ UNCHANGED <<pc, next>>
    /\ UNCHANGED <<committed, inserted, written>>

\* The call answers, and the transaction of session s is over: its locks and its
\* uncommitted rows are gone.
Finish(s, answer) ==
    /\ pc' = [pc EXCEPT ![s] = "idle"]
    /\ inserted' = [inserted EXCEPT ![s] = FALSE]
    /\ written' = [written EXCEPT ![s] = NoLocks]
    /\ reply' = [reply EXCEPT ![s] = answer]
    /\ UNCHANGED <<req, next, submitted>>

\* Bug variant of Rollback: the deferred tx.Rollback is missing, the connection
\* goes back to the pool inside its transaction.
RollbackForgotten(s) ==
    /\ pc' = [pc EXCEPT ![s] = "idle"]
    /\ reply' = [reply EXCEPT ![s] = "failed"]
    /\ UNCHANGED <<committed, inserted, written, req, next, submitted>>

Rollback(s) == Finish(s, "failed") /\ UNCHANGED committed

-----------------------------------------------------------------------------
(* INSERT the header ON CONFLICT (idempotency_key) DO NOTHING, then SELECT   *)
(* the id stored under the key: rows are never deleted, so the SELECT finds  *)
(* the row the INSERT wrote or collided with.  The column is a UUID, so what *)
(* comes back is the canonical spelling of the id, and it is compared with   *)
(* the caller's text: an id spelled otherwise never equals its own row.      *)

\* Bug variant of StoredIds: rows other sessions have not committed are seen.
StoredIdsDirty(p) ==
    { h.id : h \in { g \in headers : g.key = p.key } }
      \cup { req[t].id : t \in { u \in Sessions : inserted[u] /\ req[u].key = p.key } }

\* Bug variant of StoredIds: the key column carries no unique constraint.
StoredIdsById(p) == { h.id : h \in { g \in headers : g.id = p.id } }

\* The ids committed under the key of p.
StoredIds(p) == { h.id : h \in { g \in headers : g.key = p.key } }

KeyCommitted(p) == StoredIds(p) # {}

IdCommitted(p) == \E h \in headers : h.id = p.id

\* t's uncommitted header collides with p on one of the two unique columns.
HoldsHeader(t, p) == inserted[t] /\ (req[t].key = p.key \/ req[t].id = p.id)

HeaderWaitsFor(s, t) ==
    t # s /\ ~KeyCommitted(req[s]) /\ HoldsHeader(t, req[s])

InsertHeader(s) ==
    /\ pc[s] = "header"
    /\ ~KeyCommitted(req[s])
    /\ ~IdCommitted(req[s])
    /\ \A t \in Sessions : ~HeaderWaitsFor(s, t)
    /\ inserted' = [inserted EXCEPT ![s] = TRUE]
    /\ pc' = [pc EXCEPT ![s] = IF req[s].canonical THEN "entries" ELSE "header_only"]
    /\ UNCHANGED <<committed, req, next, written, reply, submitted>>

\* The id is taken by a posting with another key: the primary key refuses it.
HeaderIdTaken(s) ==
    /\ pc[s] = "header"
    /\ ~KeyCommitted(req[s])
    /\ IdCommitted(req[s])
    /\ \A t \in Sessions : ~HeaderWaitsFor(s, t)
    /\ Rollback(s)

\* storedID # t.ID: a no-op that reports a duplicate.
HeaderDuplicate(s) ==
    /\ pc[s] = "header"
    /\ \E id \in StoredIds(req[s]) : id # req[s].id \/ ~req[s].canonical
    /\ Finish(s, "duplicate")
    /\ UNCHANGED committed

\* storedID = t.ID although the row was there before: taken for a new posting.
HeaderTakenForNew(s) ==
    /\ pc[s] = "header"
    /\ req[s].canonical
    /\ req[s].id \in StoredIds(req[s])
    /\ pc' = [pc EXCEPT ![s] = "entries"]
    /\ UNCHANGED <<committed, req, next, inserted, written, reply, submitted>>

-----------------------------------------------------------------------------
(* Entry by entry: UPDATE the balance under the row lock, INSERT the entry.  *)

HasEntry(s) == pc[s] = "entries" /\ next[s] <= Len(req[s].entries)

CurrentEntry(s) == req[s].entries[next[s]]

\* Bug variant of AccountExists: RowsAffected is not looked at.
AccountUnchecked(s) == TRUE

AccountExists(s) == CurrentEntry(s).account \in open

RowWaitsFor(s, t) ==
    /\ HasEntry(s)
    /\ AccountExists(s)
    /\ t # s
    /\ CurrentEntry(s).account \in DOMAIN written[t]

\* The balance session s reads for an UPDATE: its own write, or the last commit.
BalanceSeen(s, a) == IF a \in DOMAIN written[s] THEN written[s][a] ELSE balance[a]

\* Bug variant of ApplyEntry: the balance is read by a SELECT and the sum written back,
\* not added to by the UPDATE.
ApplyEntryToSelected(s) ==
    /\ HasEntry(s)
    /\ AccountExists(s)
    /\ LET a == CurrentEntry(s).account
           new == Stored(BalanceSeen(s, a) + L!Signed(CurrentEntry(s)), Unit)
       IN  written' = [written EXCEPT ![s] =
               [b \in DOMAIN written[s] \cup {a} |-> IF b = a THEN new ELSE written[s][b]]]
    /\ next' = [next EXCEPT ![s] = @ + 1]
    /\ UNCHANGED <<committed, pc, req, inserted, reply, submitted>>

ApplyEntry(s) ==
    /\ HasEntry(s)
    /\ AccountExists(s)
    /\ \A t \in Sessions : ~RowWaitsFor(s, t)
    /\ LET a == CurrentEntry(s).account
           new == Stored(BalanceSeen(s, a) + L!Signed(CurrentEntry(s)), Unit)
       IN  written' = [written EXCEPT ![s] =
               [b \in DOMAIN written[s] \cup {a} |-> IF b = a THEN new ELSE written[s][b]]]
    /\ next' = [next EXCEPT ![s] = @ + 1]
    /\ UNCHANGED <<committed, pc, req, inserted, reply, submitted>>

\* Writes of session s become visible, all at once.
Publish(s) ==
    /\ balance' = [a \in Accounts |-> BalanceSeen(s, a)]
    /\ headers' = IF inserted[s] THEN headers \cup {HeaderOf(req[s])} ELSE headers
    /\ rows' = [rows EXCEPT ![req[s]] =
                  [i \in DOMAIN req[s].entries |-> @[i] + (IF i < next[s] THEN 1 ELSE 0)]]
    /\ UNCHANGED open

\* Bug variant of AccountNotFound: the entries already applied are committed.
AccountNotFoundKeeps(s) ==
    /\ HasEntry(s)
    /\ ~AccountExists(s)
    /\ Publish(s)
    /\ Finish(s, "failed")

\* RowsAffected() = 0: the error rolls back the entries applied so far.
AccountNotFound(s) ==
    /\ HasEntry(s)
    /\ ~AccountExists(s)
    /\ Rollback(s)

Commit(s) ==
    /\ pc[s] = "entries"
    /\ ~HasEntry(s)
    /\ Publish(s)
    /\ Finish(s, "applied")

\* The row just inserted does not carry the caller's text: it is committed without
\* entries, and reported as a duplicate of itself.
CommitHeaderOnly(s) ==
    /\ pc[s] = "header_only"
    /\ Publish(s)
    /\ Finish(s, "duplicate")

\* The commit takes effect and its acknowledgement is lost: Post answers an error.
CommitUnacknowledged(s) ==
    /\ pc[s] \in {"entries", "header_only"}
    /\ ~HasEntry(s)
    /\ Publish(s)
    /\ Finish(s, "failed")

-----------------------------------------------------------------------------
(* Failures. *)

WaitsFor(s, t) ==
    \/ pc[s] = "header" /\ HeaderWaitsFor(s, t)
    \/ RowWaitsFor(s, t)

\* Sessions that wait for one another in a cycle: each member of D waits for a
\* member of D and is waited for by one.
Deadlocked(s) ==
    \E D \in SUBSET Sessions :
        /\ s \in D
        /\ \A t \in D : (\E u \in D : WaitsFor(t, u)) /\ (\E u \in D : WaitsFor(u, t))

\* Postgres aborts one of the transactions of a cycle.
DeadlockVictim(s) == Deadlocked(s) /\ Rollback(s)

\* Request cancelled, connection lost or service killed inside the transaction.
ConnectionLost(s) == pc[s] # "idle" /\ Rollback(s)

-----------------------------------------------------------------------------
Step(s) ==
    \/ InsertHeader(s)
    \/ HeaderIdTaken(s)
    \/ HeaderDuplicate(s)
    \/ HeaderTakenForNew(s)
    \/ ApplyEntry(s)
    \/ AccountNotFound(s)
    \/ Commit(s)
    \/ CommitHeaderOnly(s)
    \/ DeadlockVictim(s)

Next ==
    \/ \E a \in Accounts : OpenAccount(a)
    \/ \E s \in Sessions, p \in Postings : Submit(s, p)
    \/ \E s \in Sessions : Step(s) \/ CommitUnacknowledged(s) \/ ConnectionLost(s)

Spec == Init /\ [][Next]_vars

\* Postgres executes the statements it is sent and its detector breaks deadlocks;
\* nothing makes a caller submit, or a connection fail.
FairSpec == Spec /\ \A s \in Sessions : WF_vars(Step(s))

\* Callers that take a fresh id per call: service.Post mints one with uuid.NewString
\* when the caller brings none, and so do transaction-, payment- and loan-service for
\* each attempt.
FreshIds ==
    /\ MaxSubmit = 1
    /\ \A p \in Postings : p.canonical
    /\ \A p, q \in Postings : p.id = q.id => p = q

-----------------------------------------------------------------------------
TypeOK ==
    /\ open \subseteq Accounts
    /\ balance \in [Accounts -> Int]
    /\ headers \subseteq { HeaderOf(p) : p \in Postings }
    /\ DOMAIN rows = Postings
    /\ \A p \in Postings : rows[p] \in [DOMAIN p.entries -> Nat]
    /\ pc \in [Sessions -> {"idle", "header", "entries", "header_only"}]
    /\ req \in [Sessions -> Postings \cup {NoPosting}]
    /\ next \in [Sessions -> Nat \ {0}]
    /\ inserted \in [Sessions -> BOOLEAN]
    /\ DOMAIN written = Sessions
    /\ \A s \in Sessions : written[s] \in [DOMAIN written[s] -> Int]
    /\ \A s \in Sessions : DOMAIN written[s] \subseteq open
    /\ reply \in [Sessions -> {"none", "bad_request", "duplicate", "applied", "failed"}]
    /\ submitted \in [Postings -> 0..MaxSubmit]

\* A posting is all there or not there at all: its header is committed exactly
\* when each of its entries is, once, and no key has two headers.  Whatever the
\* interleaving of calls, rollbacks and lost acknowledgements.
AppliedOnce ==
    /\ \A p \in Postings : \A i \in DOMAIN p.entries :
           rows[p][i] = IF HeaderOf(p) \in headers THEN 1 ELSE 0
    /\ \A g, h \in headers : g.key = h.key => g = h

\* What the committed entries of p add to account a, as posted (the amount column of
\* ledger_entries keeps each rounded to cents, as the balance was), and how many of them
\* are not whole cents, so that the balance was rounded when they were added.
Booked(p, a) ==
    Sum([i \in DOMAIN p.entries |-> rows[p][i] * L!Signed(p.entries[i])],
        { i \in DOMAIN p.entries : p.entries[i].account = a })

Fraction(e) == IF Whole(e.amount, Unit) THEN 0 ELSE 1

Roundings(p, a) ==
    Sum([i \in DOMAIN p.entries |-> rows[p][i] * Fraction(p.entries[i])],
        { i \in DOMAIN p.entries : p.entries[i].account = a })

\* "balance = sum of CREDIT - sum of DEBIT" (domain/ledger.go): a balance is what the
\* committed entries add up to, exactly when they are whole cents, and otherwise within
\* half a cent for each one that is not.  No UPDATE is lost.
BalanceDerived ==
    \A a \in Accounts :
        Within(balance[a],
               Sum([p \in Postings |-> Booked(p, a)], Postings),
               Sum([p \in Postings |-> Roundings(p, a)], Postings), Unit)

RoundingsOf(p) ==
    Sum([i \in DOMAIN p.entries |-> rows[p][i] * Fraction(p.entries[i])], DOMAIN p.entries)

\* Double entry: committed balances sum to zero at every moment, whatever is under way,
\* has been refused or was rolled back, but for half a cent at most for each committed
\* entry that is not whole cents: service.Post compares exact debits with exact credits
\* and has no rule about the scale.
MoneyConserved ==
    Within(Sum(balance, Accounts), 0,
           Sum([p \in Postings |-> RoundingsOf(p)], Postings), Unit)

\* Callers record money as moved on the strength of "applied" and "duplicate".  Applied
\* means that this posting is committed with all its entries; duplicate, that a posting
\* under the key is, unless its id was spelled in a way of the caller's own.
RepliesTruthful ==
    \A s \in Sessions :
        /\ reply[s] = "applied" =>
               /\ HeaderOf(req[s]) \in headers
               /\ \A i \in DOMAIN req[s].entries : rows[req[s]][i] > 0
        /\ reply[s] = "duplicate" =>
               \E p \in Postings :
                   /\ p.key = req[s].key
                   /\ HeaderOf(p) \in headers
                   /\ p.canonical => \A i \in DOMAIN p.entries : rows[p][i] > 0

\* Concurrent sessions behave as the atomic ledger.
ImplementsLedger == L!Spec

\* Every call is answered, those that wait for each other's rows included.
EveryPostAnswered == \A s \in Sessions : pc[s] # "idle" ~> pc[s] = "idle"
=============================================================================
