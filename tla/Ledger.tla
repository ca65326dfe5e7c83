------------------------------- MODULE Ledger -------------------------------
(***************************************************************************)
(* The ledger of services/ledger-service as one atomic object: accounts    *)
(* that are opened, and balanced postings that are applied at most once    *)
(* per idempotency key.  This is the in-memory repository (one mutex       *)
(* around each call) behind the validation of service.Post; it is also the *)
(* abstract specification that LedgerPostgres implements and that the      *)
(* services that move money are built on.                                  *)
(*                                                                         *)
(* Amounts are integers, Unit of them to the cent.  The in-memory ledger   *)
(* computes exactly, which is Unit = 1; over Postgres every entry rounds   *)
(* the balance it is added to.  A call that answers an error or            *)
(* "duplicate" leaves the ledger as it was, so it is a stuttering step.    *)
(***************************************************************************)
EXTENDS Integers, Sequences, Summation, Decimals

CONSTANTS
    Accounts,   \* account ids a caller can name
    Postings,   \* the postings callers submit: [id, key, entries], entries \in Seq(Entry)
    Unit        \* amount units in one step of the balance column

VARIABLES
    open,       \* accounts that have been opened
    balance,    \* balance of every account, 0 while it is not open
    applied     \* the postings that took effect (appliedKeys is their keys)

vars == <<open, balance, applied>>

Direction == {"DEBIT", "CREDIT"}

Entry == [account : Accounts, direction : Direction, amount : Int]

-----------------------------------------------------------------------------
(* Helpers on postings. *)

AccountsOf(p) == { p.entries[i].account : i \in DOMAIN p.entries }

\* What an entry adds to the balance of its account.
Signed(e) == IF e.direction = "DEBIT" THEN -e.amount ELSE e.amount

\* The sum of the amounts of the entries of p in one direction.
Total(p, direction) ==
    Sum([i \in DOMAIN p.entries |-> p.entries[i].amount],
        { i \in DOMAIN p.entries : p.entries[i].direction = direction })

\* The balance of account a, b before p, after the first n entries of p.
After(p, a, b) ==
    LET after[n \in 0..Len(p.entries)] ==
            IF n = 0 THEN b
            ELSE IF p.entries[n].account = a
                 THEN Stored(after[n - 1] + Signed(p.entries[n]), Unit)
                 ELSE after[n - 1]
    IN  after

\* Bug variant of Valid: the debits are never compared with the credits.
ValidUnbalanced(p) ==
    /\ Len(p.entries) >= 2
    /\ \A i \in DOMAIN p.entries : p.entries[i].amount > 0

\* service.Post refuses everything else with 400 before the repository.
Valid(p) ==
    /\ Len(p.entries) >= 2
    /\ \A i \in DOMAIN p.entries : p.entries[i].amount > 0
    /\ Total(p, "DEBIT") = Total(p, "CREDIT")

-----------------------------------------------------------------------------
Init ==
    /\ open = {}
    /\ balance = [a \in Accounts |-> 0]
    /\ applied = {}

OpenAccount(a) ==
    /\ open' = open \cup {a}
    /\ UNCHANGED <<balance, applied>>

KeyApplied(p) == \E q \in applied : q.key = p.key

\* What Post answers in the present state.
PostOutcome(p) ==
    CASE ~Valid(p)                  -> "bad_request"
      [] Valid(p) /\ KeyApplied(p)  -> "duplicate"
      [] OTHER -> IF AccountsOf(p) \subseteq open THEN "applied"
                                                  ELSE "account_not_found"

Apply(p) ==
    /\ balance' = [a \in Accounts |-> After(p, a, balance[a])[Len(p.entries)]]
    /\ applied' = applied \cup {p}
    /\ UNCHANGED open

Post(p) ==
    IF PostOutcome(p) = "applied" THEN Apply(p) ELSE UNCHANGED vars

Next ==
    \/ \E a \in Accounts : OpenAccount(a)
    \/ \E p \in Postings : Post(p)

Spec == Init /\ [][Next]_vars

-----------------------------------------------------------------------------
TypeOK ==
    /\ open \subseteq Accounts
    /\ balance \in [Accounts -> Int]
    /\ applied \subseteq Postings
=============================================================================
