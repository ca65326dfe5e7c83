------------------------ MODULE FixedDepositService ------------------------
(* fixed-deposit-service: deposits, which their owner may close.              *)
EXTENDS Rows

Deposits == [owner : Customers, status : {"ACTIVE", "CLOSED"}]

Request(r) == Routes(r, {"create", "list"}, {"get", "close"})

Create(r) ==
    /\ At(r, "create")
    /\ Insert(r, [owner |-> User(r), status |-> "ACTIVE"])

\* Bug variant of GetOwned: the owner is not compared.
GetAny(r) == At(r, "get") /\ Get(r, Anyone)

GetOwned(r) == At(r, "get") /\ GetOwn(r)

\* A deposit that is closed already, or has not matured, is closed like any other.
Close(r) ==
    \/ /\ At(r, "close")
       /\ LoadOwn(r, Anyone, LAMBDA fd : [fd EXCEPT !.status = "CLOSED"], "update")
    \/ At(r, "update") /\ Save(r)

\* Every call of the repository.
Repository(r) ==
    \/ Create(r) \/ GetOwned(r) \/ Close(r)
    \/ At(r, "list") /\ SelectOwn(r)

Next(r) == Request(r) \/ Repository(r)
=============================================================================
