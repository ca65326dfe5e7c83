---------------------------- MODULE WalletService ----------------------------
(* wallet-service over Postgres: a balance per user, and the transactions that  *)
(* made it, keyed by the caller's idempotency key.  A transaction's amount is   *)
(* what was asked for, a spend's negative; its column keeps Recorded(t).        *)
(* outside is the outbox: the key of every event.  Ids stand for keys, which    *)
(* are unique over all users.                                                   *)
EXTENDS Rows, Decimals, FiniteSetsExt

Wallets == [owner : Customers, balance : Int, txns : SUBSET [key : Ids, amount : Int]]

Request(r) ==
    \E u \in Customers :
        \/ \E op \in {"balance", "history"} : Receive(r, op, u, u, None)
        \/ \E k \in Ids, n \in Asked :
              \/ Receive(r, "topup", u, u, [key |-> k, amount |-> n])
              \/ Receive(r, "replay", u, u, [key |-> k, amount |-> -n])

\* INSERT ... ON CONFLICT (user_id) DO NOTHING
Ensure(r) ==
    /\ At(r, "topup")
    /\ rows' = IF Exists(Key(r)) THEN rows
               ELSE Put(Key(r), [owner |-> User(r), balance |-> 0, txns |-> {}])
    /\ Goto(r, "replay", Row(r))
    /\ OnlyRows

Txns == UNION {rows[u].txns : u \in DOMAIN rows}
UsedKeys == {t.key : t \in Txns}

\* TxnByKey; its error counts as no transaction.
Replay(r) ==
    /\ At(r, "replay")
    /\ \/ Row(r).key \in UsedKeys /\ Goto(r, "balance", None)
       \/ Goto(r, "apply", Row(r))
    /\ Same

\* Bug variant of Sufficient: the balance is compared with zero, not with the amount.
SufficientIfPositive(r) == rows[Key(r)].balance >= 0

Sufficient(r) == rows[Key(r)].balance + Row(r).amount >= 0

\* One transaction: the guarded UPDATE, the INSERT of the transaction and its event.
\* The condition is on the exact sum; the column rounds it.
Apply(r) ==
    /\ At(r, "apply")
    /\ IF Exists(Key(r)) /\ Sufficient(r) /\ Row(r).key \notin UsedKeys
       THEN /\ rows' = [rows EXCEPT ![Key(r)].balance = Stored(@ + Row(r).amount, Unit),
                                    ![Key(r)].txns = @ \cup {Row(r)}]
            /\ outside' = outside \cup {Row(r).key}
            /\ Answer(r, {rows'[Key(r)]})
       ELSE UNCHANGED <<rows, outside>> /\ Refuse(r)
    /\ UNCHANGED service

\* Every call of the repository.
Repository(r) ==
    \/ Ensure(r) \/ Replay(r) \/ Apply(r)
    \/ At(r, "balance") /\ GetOwn(r)
    \/ At(r, "history") /\ SelectOwn(r)

Next(r) == Request(r) \/ Repository(r)

Recorded(t) == Stored(t.amount, Unit)

\* Halves are rounded away from zero: the balance up, the amount of a spend up as well.
HalfSpend(t) == t.amount < 0 /\ (2 * t.amount) % (2 * Unit) = Unit

Credited(t) == Recorded(t) + IF HalfSpend(t) THEN Unit ELSE 0

\* Every balance is what its recorded transactions add up to, and one step more for each
\* spend that ended in half a step; the outbox has the event of every transaction.
BalancesAddUp ==
    /\ \A u \in DOMAIN rows :
          /\ rows[u].balance >= 0
          /\ rows[u].balance = MapThenSumSet(Credited, rows[u].txns)
    /\ UsedKeys = outside
    /\ Cardinality(Txns) = Cardinality(UsedKeys)
=============================================================================
