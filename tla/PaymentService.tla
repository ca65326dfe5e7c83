--------------------------- MODULE PaymentService ---------------------------
(* payment-service: payments from one account, executed in the ledger under    *)
(* the client's idempotency key and recorded with an event.  outside is the    *)
(* set of the ledger's postings from that account; transaction-service posts   *)
(* there too.  Ids stand for keys.                                             *)
EXTENDS Rows, Integers, FiniteSetsExt

Amounts == 1..MaxCount
Opening == MaxCount

Payments == [owner : Customers, amount : Amounts]

Request(r) ==
    \E u \in Customers :
        \/ \E k \in Ids, n \in Amounts : Receive(r, "replay", u, k, [owner |-> u, amount |-> n])
        \/ \E k \in Ids : Receive(r, "get", u, k, None)
        \/ Receive(r, "list", u, None, None)

\* GetByIdempotencyKey; its error counts as no payment.
Replay(r) ==
    /\ At(r, "replay")
    /\ \/ Exists(Key(r)) /\ Answer(r, {rows[Key(r)]})
       \/ Goto(r, "balance", Row(r))
    /\ Same

Balance == Opening - MapThenSumSet(LAMBDA p : p.amount, outside)

\* Read from the ledger before the posting.
OverdraftCheck(r) ==
    /\ At(r, "balance")
    /\ IF Balance < Row(r).amount THEN Refuse(r) ELSE Goto(r, "post", Row(r))
    /\ Same

\* Bug variant of Post: the error of the ledger is dropped.
PostIgnoringError(r) ==
    /\ At(r, "post")
    /\ \/ outside' = outside \cup {[key |-> Key(r), amount |-> Row(r).amount]}
       \/ UNCHANGED outside
    /\ Goto(r, "create", Row(r))
    /\ UNCHANGED <<service, rows>>

Posted(k) == \E p \in outside : p.key = k

\* Post of the ledger: nothing, and no error, when the key has been posted.
Post(r) ==
    /\ At(r, "post")
    /\ outside' = IF Posted(Key(r)) THEN outside
                  ELSE outside \cup {[key |-> Key(r), amount |-> Row(r).amount]}
    /\ Goto(r, "create", Row(r))
    /\ UNCHANGED <<service, rows>>

\* The row and its event in one transaction; the key is unique.
Create(r) ==
    /\ At(r, "create")
    /\ IF Exists(Key(r)) THEN Refuse(r) /\ UNCHANGED rows
       ELSE rows' = Put(Key(r), Row(r)) /\ Answer(r, {Row(r)})
    /\ OnlyRows

\* transaction-service posts a withdrawal under a key of its own client.
OtherPosting ==
    /\ \E k \in Ids, n \in Amounts :
          ~Posted(k) /\ outside' = outside \cup {[key |-> k, amount |-> n]}
    /\ UNCHANGED <<service, rows, call>>

\* Every call of the repository.
Repository(r) ==
    \/ Replay(r) \/ Create(r)
    \/ At(r, "get") /\ Get(r, Anyone)
    \/ At(r, "list") /\ Select(r, Anyone)

Next(r) == Request(r) \/ Repository(r) \/ OverdraftCheck(r) \/ Post(r) \/ OtherPosting
=============================================================================
