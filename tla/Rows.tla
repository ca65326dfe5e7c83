-------------------------------- MODULE Rows --------------------------------
(***************************************************************************)
(* What the services that keep rows have in common.  A request runs on a   *)
(* goroutine of its own; it reaches the rows only through its repository,  *)
(* one SQL statement, or one section under the in-memory mutex, at a time. *)
(* Between two calls other requests run, any call may fail, and a crash of *)
(* the process fails all requests, one after the other.  A service's       *)
(* module says which calls each of its functions makes.                    *)
(***************************************************************************)
EXTENDS Naturals, FiniteSets, TLC

CONSTANTS
    Requests,       \* requests that run at the same time
    Customers,      \* subjects of access tokens,
    Staff,          \* and the one with a staff role
    Ids,            \* what uuid.NewString returns: as many rows as there can be
    MaxCount,       \* bound of every quantity
    Unit,           \* fractions of an amount that make one step of its NUMERIC column
    Asked,          \* amounts that requests name: positive, of whatever scale
    None

ASSUME MaxCountAssumption == MaxCount \in Nat \ {0}
ASSUME AmountAssumption == Unit \in Nat \ {0} /\ Asked \subseteq Nat \ {0}

VARIABLES
    service,        \* the service whose requests these are
    rows,           \* its table: a row for each key in DOMAIN rows
    outside,        \* what another system keeps because of them
    call            \* the next call of every request, and what it holds

vars == <<service, rows, outside, call>>

Idle == [pc |-> "idle", op |-> "none", user |-> None, key |-> None, row |-> None,
         answer |-> {}]

NoRows == [k \in {} |-> None]

Start(s) ==
    /\ service = s
    /\ rows = NoRows
    /\ outside = {}
    /\ call = [r \in Requests |-> Idle]

At(r, pc) == call[r].pc = pc
User(r) == call[r].user
Key(r) == call[r].key
Row(r) == call[r].row

\* A request: the first call has the name of the operation.
Receive(r, op, user, key, row) ==
    /\ At(r, "idle")
    /\ call' = [call EXCEPT ![r] =
            [pc |-> op, op |-> op, user |-> user, key |-> key, row |-> row, answer |-> {}]]
    /\ UNCHANGED <<service, rows, outside>>

Goto(r, pc, row) == call' = [call EXCEPT ![r].pc = pc, ![r].row = row]

\* What a request asks for: ops of the caller's own, idOps of the row with an id.
Ask(r, user, ops, idOps) ==
    \E q \in (ops \X {None}) \cup (idOps \X Ids) : Receive(r, q[1], user, q[2], None)

\* The routes of every customer, and those behind staffMW.
Routes(r, ops, idOps) == \E u \in Customers : Ask(r, u, ops, idOps)
StaffRoutes(r, ops, idOps) == Ask(r, Staff, ops, idOps)

Answered == {"answered", "refused", "failed"}

Answer(r, found) == call' = [call EXCEPT ![r].pc = "answered", ![r].answer = found]

\* not_found, forbidden, conflict
Refuse(r) == call' = [call EXCEPT ![r].pc = "refused"]

\* The error of a call is the answer.  Where the call took effect before it failed,
\* this is the same error after the call.
Fail(r) ==
    /\ call[r].pc \notin Answered \cup {"idle"}
    /\ call' = [call EXCEPT ![r].pc = "failed"]
    /\ UNCHANGED <<service, rows, outside>>

Reply(r) ==
    /\ call[r].pc \in Answered
    /\ call' = [call EXCEPT ![r] = Idle]
    /\ UNCHANGED <<service, rows, outside>>

-----------------------------------------------------------------------------
(* The statements of the repositories. *)

Exists(k) == k \in DOMAIN rows

\* The rows after k has been given the value row.
Put(k, row) == [j \in DOMAIN rows \cup {k} |-> IF j = k THEN row ELSE rows[j]]

FreshIds == {i \in Ids : ~Exists(i) /\ \A r \in Requests : Key(r) # i}

Same == UNCHANGED <<service, rows, outside>>
OnlyRows == UNCHANGED <<service, outside>>

\* INSERT of a row with a new id.
Insert(r, row) ==
    /\ \E i \in FreshIds : rows' = Put(i, row)
    /\ Answer(r, {row})
    /\ OnlyRows

\* GetByID, and the checks that follow it: the request goes on with the copy changed.
Load(r, allowed(_), change(_), next) ==
    /\ IF Exists(Key(r)) /\ allowed(rows[Key(r)])
       THEN Goto(r, next, change(rows[Key(r)]))
       ELSE Refuse(r)
    /\ Same

\* UPDATE ... WHERE id: the whole copy, whatever the row is by now.
Save(r) ==
    /\ IF Exists(Key(r))
       THEN rows' = Put(Key(r), Row(r)) /\ Answer(r, {Row(r)})
       ELSE UNCHANGED rows /\ Refuse(r)
    /\ OnlyRows

\* INSERT ... ON CONFLICT (key) DO UPDATE.
Upsert(r) ==
    /\ rows' = Put(Key(r), Row(r))
    /\ Answer(r, {Row(r)})
    /\ OnlyRows

Delete(r) ==
    /\ rows' = [k \in DOMAIN rows \ {Key(r)} |-> rows[k]]
    /\ Answer(r, {})
    /\ OnlyRows

\* GetByID, answered as it is.
Get(r, allowed(_)) ==
    /\ IF Exists(Key(r)) /\ allowed(rows[Key(r)])
       THEN Answer(r, {rows[Key(r)]})
       ELSE Refuse(r)
    /\ Same

\* SELECT ... WHERE the condition holds.
Select(r, condition(_)) ==
    /\ Answer(r, {row \in {rows[k] : k \in DOMAIN rows} : condition(row)})
    /\ Same

Anyone(row) == TRUE
Unchanged(row) == row

\* The rows of the caller, in the tables that have an owner.
Own(r, row) == row.owner = User(r)
GetOwn(r) == Get(r, LAMBDA row : Own(r, row))
SelectOwn(r) == Select(r, LAMBDA row : Own(r, row))
GetOwnOrAsStaff(r) == Get(r, LAMBDA row : Own(r, row) \/ User(r) = Staff)
LoadOwn(r, allowed(_), change(_), next) ==
    Load(r, LAMBDA row : Own(r, row) /\ allowed(row), change, next)
=============================================================================
