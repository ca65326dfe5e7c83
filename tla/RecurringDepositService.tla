---------------------- MODULE RecurringDepositService ----------------------
(* recurring-deposit-service: deposits paid in instalments; the last one      *)
(* matures the deposit.                                                       *)
EXTENDS Rows

Tenure == MaxCount

Deposits == [owner : Customers, paid : 0..Tenure, status : {"ACTIVE", "MATURED"}]

Request(r) == Routes(r, {"create", "list"}, {"get", "deposit"})

Create(r) ==
    /\ At(r, "create")
    /\ Insert(r, [owner |-> User(r), paid |-> 0, status |-> "ACTIVE"])

\* Bug variant of Paid: the status is set when the tenure is exceeded.
PaidLate(d) ==
    [d EXCEPT !.paid = @ + 1, !.status = IF d.paid + 1 > Tenure THEN "MATURED" ELSE @]

Paid(d) ==
    [d EXCEPT !.paid = @ + 1, !.status = IF d.paid + 1 = Tenure THEN "MATURED" ELSE @]

Deposit(r) ==
    \/ At(r, "deposit") /\ LoadOwn(r, LAMBDA d : d.paid < Tenure, Paid, "update")
    \/ At(r, "update") /\ Save(r)

GetOwned(r) == At(r, "get") /\ GetOwn(r)

\* Every call of the repository.
Repository(r) ==
    \/ Create(r) \/ Deposit(r) \/ GetOwned(r)
    \/ At(r, "list") /\ SelectOwn(r)

Next(r) == Request(r) \/ Repository(r)
=============================================================================
