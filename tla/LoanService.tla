---------------------------- MODULE LoanService ----------------------------
(* loan-service: applications, their review by staff, and disbursement, which *)
(* posts to the ledger under a key made of the loan's id.  outside is the     *)
(* set of postings the ledger has applied.                                    *)
EXTENDS Rows

Loans == [borrower : Customers, status : {"PENDING", "APPROVED", "DISBURSED", "REJECTED"}]

Request(r) ==
    \/ Routes(r, {"apply", "list"}, {"get"})
    \/ StaffRoutes(r, {}, {"approve", "reject", "disburse"})

Apply(r) ==
    /\ At(r, "apply")
    /\ Insert(r, [borrower |-> User(r), status |-> "PENDING"])

Approve(r) ==
    \E op \in {"approve", "reject"} :
        /\ At(r, op)
        /\ Load(r, LAMBDA loan : loan.status = "PENDING",
                LAMBDA loan : [loan EXCEPT !.status =
                    IF op = "approve" THEN "APPROVED" ELSE "REJECTED"],
                "update")

Approved(loan) == loan.status = "APPROVED"

Disburse(r) == At(r, "disburse") /\ Load(r, Approved, Unchanged, "post")

\* Bug variant of DisburseKey: a key of its own for every posting.
NewKey(r) == Cardinality(outside)

DisburseKey(r) == Key(r)

\* OpenAccount of the funding account, and Post, which applies a key once.
Post(r) ==
    LET posting == [key |-> DisburseKey(r), loan |-> Key(r)]
    IN  /\ At(r, "post")
        /\ outside' = IF \E p \in outside : p.key = posting.key THEN outside
                      ELSE outside \cup {posting}
        /\ Goto(r, "update", [Row(r) EXCEPT !.status = "DISBURSED"])
        /\ UNCHANGED <<service, rows>>

\* Every call of the repository.
Repository(r) ==
    \/ Apply(r) \/ Approve(r) \/ Disburse(r)
    \/ At(r, "update") /\ Save(r)
    \/ At(r, "get") /\ Get(r, Anyone)
    \/ At(r, "list") /\ Select(r, LAMBDA loan : loan.borrower = User(r))

Next(r) == Request(r) \/ Repository(r) \/ Post(r)
=============================================================================
