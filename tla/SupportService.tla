--------------------------- MODULE SupportService ---------------------------
(* support-service: tickets, whose status staff changes.                       *)
EXTENDS Rows

Tickets == [owner : Customers, status : {"OPEN", "RESOLVED"}, at : Nat]

\* The query parameter limit, which is 0 when it is absent.
Limits == 0..Cardinality(Ids)

Request(r) ==
    \/ Routes(r, {"open", "list"}, {"get"})
    \/ StaffRoutes(r, {}, {"get", "resolve", "reopen"})
    \/ \E limit \in Limits : Receive(r, "list all", Staff, None, [limit |-> limit])

Open(r) ==
    /\ At(r, "open")
    /\ Insert(r, [owner |-> User(r), status |-> "OPEN", at |-> Cardinality(DOMAIN rows)])

GetOwned(r) == At(r, "get") /\ GetOwnOrAsStaff(r)

\* LIMIT of the statement, which is 0 where no limit was asked for.
ListAll(r) ==
    /\ At(r, "list all")
    /\ Select(r, LAMBDA t : Cardinality({k \in DOMAIN rows : rows[k].at > t.at}) < Row(r).limit)

\* Any status may follow any other; the whole row is written back.
UpdateStatus(r) ==
    \/ \E op \in {"resolve", "reopen"} :
          /\ At(r, op)
          /\ Load(r, Anyone, LAMBDA t : [t EXCEPT !.status =
                                IF op = "resolve" THEN "RESOLVED" ELSE "OPEN"], "update")
    \/ At(r, "update") /\ Save(r)

\* Every call of the repository.
Repository(r) ==
    \/ Open(r) \/ GetOwned(r) \/ ListAll(r) \/ UpdateStatus(r)
    \/ At(r, "list") /\ SelectOwn(r)

Next(r) == Request(r) \/ Repository(r)
=============================================================================
