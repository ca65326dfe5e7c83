---------------------------- MODULE CardService ----------------------------
(* card-service: cards, which their owner blocks and unblocks.                *)
EXTENDS Rows

Cards == [owner : Customers, status : {"ACTIVE", "BLOCKED"}]

Request(r) == Routes(r, {"issue", "list"}, {"block", "unblock"})

Issue(r) ==
    /\ At(r, "issue")
    /\ Insert(r, [owner |-> User(r), status |-> "ACTIVE"])

\* Any status may follow any other; the whole row is written back.
SetStatus(r) ==
    \/ \E op \in {"block", "unblock"} :
          /\ At(r, op)
          /\ LoadOwn(r, Anyone, LAMBDA card : [card EXCEPT !.status =
                                    IF op = "block" THEN "BLOCKED" ELSE "ACTIVE"], "update")
    \/ At(r, "update") /\ Save(r)

\* Every call of the repository.
Repository(r) ==
    \/ Issue(r) \/ SetStatus(r)
    \/ At(r, "list") /\ SelectOwn(r)

Next(r) == Request(r) \/ Repository(r)
=============================================================================
