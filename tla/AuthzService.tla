---------------------------- MODULE AuthzService ----------------------------
(* authz-service over Postgres: the roles of every subject, the permissions of *)
(* every role (which only Seed writes), and the pool's connections, one of     *)
(* which a request keeps between two of its calls while it lists the roles.    *)
EXTENDS Rows

Roles == {"teller", "admin"}
Permissions == {"account:write", "setting:write"}
Grants(role) == IF role = "admin" THEN {"*"} ELSE {"account:write"}

Assignments == [owner : Customers, roles : SUBSET Roles]

MaxConns == MaxCount
FreeConn == Cardinality({r \in Requests : At(r, "next role")}) < MaxConns

RolesOf(subject) == IF Exists(subject) THEN rows[subject].roles ELSE {}

Request(r) ==
    \/ Routes(r, {"list roles"}, {})
    \/ \E u \in Customers, role \in Roles : Receive(r, "assign", Staff, u, [role |-> role])
    \/ \E u \in Customers : Receive(r, "roles", u, u, None)
    \/ \E u \in Customers, p \in Permissions : Receive(r, "check", u, u, [permission |-> p])

\* INSERT ... ON CONFLICT DO NOTHING
AssignRole(r) ==
    /\ At(r, "assign")
    /\ FreeConn
    /\ rows' = Put(Key(r), [owner |-> Key(r), roles |-> RolesOf(Key(r)) \cup {Row(r).role}])
    /\ Answer(r, {})
    /\ OnlyRows

GetRoles(r) ==
    /\ At(r, "roles")
    /\ FreeConn
    /\ Answer(r, RolesOf(Key(r)))
    /\ Same

\* Check: the roles, then what they grant.
Check(r) ==
    \/ /\ At(r, "check")
       /\ FreeConn
       /\ Goto(r, "permissions", [permission |-> Row(r).permission, roles |-> RolesOf(Key(r))])
       /\ Same
    \/ /\ At(r, "permissions")
       /\ FreeConn
       /\ IF \E role \in Row(r).roles : Grants(role) \cap {"*", Row(r).permission} # {}
          THEN Answer(r, {Row(r).permission})
          ELSE Refuse(r)
       /\ Same

\* ListRoles keeps the connection of its rows while it asks, over another one, for the
\* permissions of each of them.
ListRoles(r) ==
    \/ /\ At(r, "list roles")
       /\ FreeConn
       /\ Goto(r, "next role", [roles |-> Roles])
       /\ Same
    \/ /\ At(r, "next role")
       /\ \/ /\ FreeConn
             /\ \E role \in Row(r).roles :
                   Goto(r, "next role", [roles |-> Row(r).roles \ {role}])
          \/ Row(r).roles = {} /\ Answer(r, Roles)
       /\ Same

\* Every call of the repository.
Repository(r) == AssignRole(r) \/ GetRoles(r) \/ Check(r) \/ ListRoles(r)

Next(r) == Request(r) \/ Repository(r)
=============================================================================
