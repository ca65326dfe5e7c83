--------------------------- MODULE AccountService ---------------------------
(* account-service: an account is opened in the ledger first, under the id     *)
(* that its row then gets.  outside is the set of the ledger's accounts.       *)
EXTENDS Rows

Accounts == [owner : Customers]

Request(r) ==
    \/ Routes(r, {"open", "list"}, {"get", "balance"})
    \/ StaffRoutes(r, {}, {"get", "balance"})

\* Bug variant of OpenInLedger: the row is written although the ledger failed.
OpenIgnoringLedger(r) ==
    /\ At(r, "open")
    /\ \E i \in FreshIds \ outside :
          /\ outside' \in {outside, outside \cup {i}}
          /\ call' = [call EXCEPT ![r].pc = "create", ![r].key = i]
    /\ UNCHANGED <<service, rows>>

OpenInLedger(r) ==
    /\ At(r, "open")
    /\ \E i \in FreshIds \ outside :
          /\ outside' = outside \cup {i}
          /\ call' = [call EXCEPT ![r].pc = "create", ![r].key = i]
    /\ UNCHANGED <<service, rows>>

Create(r) ==
    /\ At(r, "create")
    /\ rows' = Put(Key(r), [owner |-> User(r)])
    /\ Answer(r, {[owner |-> User(r)]})
    /\ OnlyRows

\* ownedAccount of the handler, and the check of Balance, which reads the row again.
OwnedAccount(r) ==
    \/ /\ At(r, "balance")
       /\ Load(r, LAMBDA acc : Own(r, acc) \/ User(r) = Staff, Unchanged, "check")
    \/ At(r, "check") /\ Load(r, Anyone, Unchanged, "ask ledger")

Balance(r) ==
    /\ At(r, "ask ledger")
    /\ IF Key(r) \in outside THEN Answer(r, {Row(r)}) ELSE Refuse(r)
    /\ Same

\* Every call of the repository.
Repository(r) ==
    \/ Create(r) \/ OwnedAccount(r)
    \/ At(r, "get") /\ GetOwnOrAsStaff(r)
    \/ At(r, "list") /\ SelectOwn(r)

Next(r) == Request(r) \/ OpenInLedger(r) \/ Repository(r) \/ Balance(r)
=============================================================================
