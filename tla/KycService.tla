----------------------------- MODULE KycService -----------------------------
(* kyc-service: submissions, and their review by staff.                       *)
EXTENDS Rows

Verifications == [owner : Customers, status : {"PENDING", "VERIFIED", "REJECTED"}, at : Nat]

Request(r) ==
    \/ Routes(r, {"submit", "latest"}, {})
    \/ StaffRoutes(r, {"pending"}, {"approve", "reject"})

Submit(r) ==
    /\ At(r, "submit")
    /\ Insert(r, [owner |-> User(r), status |-> "PENDING", at |-> Cardinality(DOMAIN rows)])

LatestForUser(r) ==
    LET mine == {k \in DOMAIN rows : Own(r, rows[k])}
    IN  /\ At(r, "latest")
        /\ IF mine = {} THEN Refuse(r)
           ELSE \E k \in mine :
                    /\ \A j \in mine : rows[j].at <= rows[k].at
                    /\ Answer(r, {rows[k]})
        /\ Same

Pending(r) == At(r, "pending") /\ Select(r, LAMBDA v : v.status = "PENDING")

\* Bug variant of Reviewed: only an approval sets the status.
ReviewedIfApproved(v, verdict) ==
    [v EXCEPT !.status = IF verdict = "VERIFIED" THEN verdict ELSE @]

Reviewed(v, verdict) == [v EXCEPT !.status = verdict]

Review(r) ==
    \/ \E op \in {"approve", "reject"} :
          /\ At(r, op)
          /\ Load(r, LAMBDA v : v.status = "PENDING",
                  LAMBDA v : Reviewed(v, IF op = "approve" THEN "VERIFIED" ELSE "REJECTED"),
                  "update")
    \/ At(r, "update") /\ Save(r)

\* Every call of the repository.
Repository(r) == Submit(r) \/ LatestForUser(r) \/ Pending(r) \/ Review(r)

Next(r) == Request(r) \/ Repository(r)
=============================================================================
