----------------------------- MODULE EmiService -----------------------------
(* emi-service: instalment plans of a loan.  A row is a plan: the instalments  *)
(* that one GenerateSchedule made and SaveSchedule inserted in one             *)
(* transaction, numbered from 1 to the tenure, with the set of those paid.     *)
(* Customers stand for loans.                                                  *)
EXTENDS Rows

Tenure == MaxCount

Plans == [loan : Customers, paid : SUBSET (1..Tenure)]

Request(r) == Routes(r, {"plan", "schedule", "pay"}, {})

PlansOf(loan) == {k \in DOMAIN rows : rows[k].loan = loan}

\* HasSchedule; its error counts as no schedule.
CreatePlan(r) ==
    /\ At(r, "plan")
    /\ \/ PlansOf(User(r)) # {} /\ Refuse(r)
       \/ PlansOf(User(r)) = {} /\ Goto(r, "save", None)
       \/ Goto(r, "save", None)
    /\ Same

SaveSchedule(r) ==
    /\ At(r, "save")
    /\ Insert(r, [loan |-> User(r), paid |-> {}])

Unpaid(loan) == {i \in PlansOf(loan) \X (1..Tenure) : i[2] \notin rows[i[1]].paid}

\* Bug variant of Earliest: the rows as they come, without ORDER BY number.
AnyUnpaid(loan) == Unpaid(loan)

\* The first unpaid row of ListByLoan, which orders by number only.
Earliest(loan) == {i \in Unpaid(loan) : \A j \in Unpaid(loan) : i[2] <= j[2]}

PayNext(r) ==
    /\ At(r, "pay")
    /\ IF Unpaid(User(r)) = {} THEN Refuse(r)
       ELSE \E i \in Earliest(User(r)) : Goto(r, "mark", i)
    /\ Same

\* UPDATE ... SET paid=true WHERE id: the instalment may have been paid meanwhile.
MarkPaid(r) ==
    LET k == Row(r)[1]
    IN  /\ At(r, "mark")
        /\ rows' = [rows EXCEPT ![k].paid = @ \cup {Row(r)[2]}]
        /\ Answer(r, {Row(r)})
        /\ OnlyRows

Schedule(r) == At(r, "schedule") /\ Select(r, LAMBDA plan : plan.loan = User(r))

\* Every call of the repository.
Repository(r) == CreatePlan(r) \/ SaveSchedule(r) \/ PayNext(r) \/ MarkPaid(r) \/ Schedule(r)

Next(r) == Request(r) \/ Repository(r)
=============================================================================
