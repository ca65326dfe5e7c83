--------------------------- MODULE MessageService ---------------------------
(* email-service and sms-service: messages, which are stored and not sent.     *)
EXTENDS Rows

Messages == [to : Customers, at : Nat]

\* The query parameter limit, which is 0 when it is absent.
Limits == 0..Cardinality(Ids)

Request(r) ==
    \/ Routes(r, {"send"}, {})
    \/ \E u \in Customers, limit \in Limits : Receive(r, "list", u, None, [limit |-> limit])

Send(r) ==
    /\ At(r, "send")
    /\ \E to \in Customers : Insert(r, [to |-> to, at |-> Cardinality(DOMAIN rows)])

\* The newest messages; without a limit, the newest 100.
List(r) ==
    LET newer(m) == {k \in DOMAIN rows : rows[k].at > m.at}
    IN  /\ At(r, "list")
        /\ Select(r, LAMBDA m : Row(r).limit = 0 \/ Cardinality(newer(m)) < Row(r).limit)

\* Every call of the repository.
Repository(r) == Send(r) \/ List(r)

Next(r) == Request(r) \/ Repository(r)
=============================================================================
