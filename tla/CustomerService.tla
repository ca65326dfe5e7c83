-------------------------- MODULE CustomerService --------------------------
(* customer-service: one record per login identity.  fields is the set of     *)
(* the optional fields that have been given a value.                          *)
EXTENDS Rows

Fields == {"name", "phone"}

Records == [owner : Customers, fields : SUBSET Fields]

Request(r) ==
    \/ Routes(r, {"create", "me"}, {})
    \/ StaffRoutes(r, {"list"}, {"get"})
    \/ \E u \in Customers, given \in SUBSET Fields : Receive(r, "update", u, None, [given |-> given])

RecordsOf(user) == {k \in DOMAIN rows : rows[k].owner = user}

Create(r) ==
    /\ At(r, "create")
    /\ \/ RecordsOf(User(r)) # {} /\ Refuse(r) /\ Same
       \/ RecordsOf(User(r)) = {} /\ Insert(r, [owner |-> User(r), fields |-> {}])

GetByUserID(r) ==
    /\ At(r, "me")
    /\ IF RecordsOf(User(r)) = {} THEN Refuse(r)
       ELSE Answer(r, {rows[k] : k \in RecordsOf(User(r))})
    /\ Same

\* The fields that are given replace those of the record that was read.
UpdateByUserID(r) ==
    \/ /\ At(r, "update")
       /\ IF RecordsOf(User(r)) = {} THEN Refuse(r)
          ELSE \E k \in RecordsOf(User(r)) :
                  call' = [call EXCEPT ![r].pc = "save", ![r].key = k,
                                       ![r].row = [rows[k] EXCEPT !.fields = @ \cup Row(r).given]]
       /\ Same
    \/ At(r, "save") /\ Save(r)

GetByID(r) == At(r, "get") /\ Get(r, Anyone)

\* A page of the records, the newest first.
ListPage(r) ==
    /\ At(r, "list")
    /\ \E page \in SUBSET {rows[k] : k \in DOMAIN rows} : Answer(r, page)
    /\ Same

\* Every call of the repository.
Repository(r) == Create(r) \/ GetByUserID(r) \/ UpdateByUserID(r) \/ GetByID(r) \/ ListPage(r)

Next(r) == Request(r) \/ Repository(r)
=============================================================================
