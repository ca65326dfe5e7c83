------------------------- MODULE BeneficiaryService -------------------------
(* beneficiary-service: payees of an owner.                                    *)
EXTENDS Rows

Beneficiaries == [owner : Customers]

Request(r) == Routes(r, {"add", "list"}, {"get", "delete"})

Add(r) == At(r, "add") /\ Insert(r, [owner |-> User(r)])

GetOwned(r) == At(r, "get") /\ GetOwn(r)

\* The check of Get, then DELETE, which does not mind that the row is gone.
DeleteOwned(r) ==
    \/ At(r, "delete") /\ LoadOwn(r, Anyone, Unchanged, "remove")
    \/ At(r, "remove") /\ Delete(r)

\* Every call of the repository.
Repository(r) ==
    \/ Add(r) \/ GetOwned(r) \/ DeleteOwned(r)
    \/ At(r, "list") /\ SelectOwn(r)

Next(r) == Request(r) \/ Repository(r)
=============================================================================
