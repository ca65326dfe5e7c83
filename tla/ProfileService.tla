--------------------------- MODULE ProfileService ---------------------------
(* profile-service: one profile per user, written as a whole.                  *)
EXTENDS Rows

Versions == 1..MaxCount

Profiles == [owner : Customers, version : Versions]

Request(r) ==
    \E u \in Customers :
        \/ Receive(r, "me", u, u, None)
        \/ \E v \in Versions : Receive(r, "put", u, u, [owner |-> u, version |-> v])

\* Every call of the repository, keyed by the user.
Repository(r) ==
    \/ At(r, "me") /\ GetOwn(r)
    \/ At(r, "put") /\ Upsert(r)

Next(r) == Request(r) \/ Repository(r)
=============================================================================
