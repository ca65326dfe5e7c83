------------------------- MODULE RowServicesProofs -------------------------
EXTENDS RowServices, SumLemmas

Fields == {"pc", "op", "user", "key", "row", "answer"}

\* Every call is a record of these fields.
Shape == DOMAIN call = Requests /\ \A r \in Requests : DOMAIN call[r] = Fields

\* Every row is one of the table T, and so is every copy a request holds before the
\* calls pcs.
Holds(T, pcs) ==
    /\ \A k \in DOMAIN rows : rows[k] \in T
    /\ \A r \in Requests : call[r].pc \in pcs => Row(r) \in T

\* Who can ask for ops: customers, or staff only.
AskedBy(users, ops) == \A r \in Requests : call[r].pc \in ops => User(r) \in users

\* What a customer holds before the calls pcs is theirs.
CopiesAreOwn(pcs) == \A r \in Requests : call[r].pc \in pcs => Row(r).owner = User(r)

AnswersOwn ==
    \A r \in Requests : At(r, "answered") /\ User(r) # Staff =>
        \A row \in call[r].answer : Own(r, row)

-----------------------------------------------------------------------------
(* The invariant of each service: what its rows are, and what a request that *)
(* is between two calls holds.                                               *)

LoanInv ==
    /\ Shape
    /\ Holds(Loan!Loans, {"post", "update"})
    /\ AskedBy(Customers, {"apply"})
    /\ \A r \in Requests : At(r, "post") => Row(r).status = "APPROVED"
    /\ \A r \in Requests : At(r, "update") =>
          /\ Row(r).status # "PENDING"
          /\ Row(r).status = "DISBURSED" => \E p \in outside : p.loan = Key(r)
    /\ \A i \in DOMAIN rows : rows[i].status = "DISBURSED" => \E p \in outside : p.loan = i
    /\ \A p \in outside : p = [key |-> p.loan, loan |-> p.loan]

EmiInv ==
    /\ Shape
    /\ Holds(Emi!Plans, {})
    /\ AskedBy(Customers, {"plan", "save", "pay"})
    /\ \A r \in Requests : At(r, "mark") =>
          /\ Row(r)[1] \in DOMAIN rows
          /\ Row(r)[2] \in 1..Emi!Tenure
          /\ 1..(Row(r)[2] - 1) \subseteq rows[Row(r)[1]].paid
    /\ \A i \in DOMAIN rows : \A n \in rows[i].paid : 1..n \subseteq rows[i].paid

FixedDepositInv ==
    /\ Shape
    /\ Holds(FixedDeposit!Deposits, {"update"})
    /\ AskedBy(Customers, {"create"})
    /\ CopiesAreOwn({"update"})
    /\ AnswersOwn
    /\ \A r \in Requests : At(r, "update") => Row(r).status = "CLOSED"

MaturedIffPaid(d) == d.status = "MATURED" <=> d.paid = RecurringDeposit!Tenure

RecurringDepositInv ==
    /\ Shape
    /\ Holds(RecurringDeposit!Deposits, {"update"})
    /\ AskedBy(Customers, {"create"})
    /\ CopiesAreOwn({"update"})
    /\ AnswersOwn
    /\ \A i \in DOMAIN rows : MaturedIffPaid(rows[i])
    /\ \A r \in Requests : At(r, "update") => MaturedIffPaid(Row(r))

InvestmentInv ==
    /\ Shape
    /\ Holds(Investment!Holdings, {})
    /\ AskedBy(Customers, {"buy", "sell"})
    /\ \A r \in Requests :
          /\ call[r].pc \in {"buy", "sell"} => Row(r).units \in Nat
          /\ At(r, "upsert") => Row(r) \in [owner : Customers, units : Nat]
    /\ CopiesAreOwn({"upsert"})
    /\ AnswersOwn

KycInv ==
    /\ Shape
    /\ IsFiniteSet(DOMAIN rows)
    /\ Holds(Kyc!Verifications, {"update"})
    /\ AskedBy(Customers, {"submit"})
    /\ AskedBy({Staff}, {"approve", "reject", "update", "pending"})
    /\ AnswersOwn
    /\ \A r \in Requests : At(r, "update") => Row(r).status # "PENDING"

\* A request that is to write the row of an account has opened it in the ledger, and
\* no other has.
Opened ==
    /\ \A r \in Requests : At(r, "create") => Key(r) \in outside /\ Key(r) \notin DOMAIN rows
    /\ \A q, r \in Requests : At(q, "create") /\ At(r, "create") /\ Key(q) = Key(r) => q = r

\* The owner was compared: rows of accounts neither change nor go.
Checked ==
    /\ \A r \in Requests : At(r, "check") /\ User(r) # Staff =>
          Key(r) \in DOMAIN rows /\ Own(r, rows[Key(r)])
    /\ \A r \in Requests : At(r, "ask ledger") /\ User(r) # Staff => Own(r, Row(r))

AccountInv ==
    /\ Shape
    /\ Holds(Account!Accounts, {"ask ledger"})
    /\ AskedBy(Customers, {"open", "create"})
    /\ AnswersOwn
    /\ DOMAIN rows \subseteq outside
    /\ Opened
    /\ Checked

CustomerInv ==
    /\ Shape
    /\ Holds(Customer!Records, {"save"})
    /\ AskedBy(Customers, {"create"})
    /\ AskedBy({Staff}, {"list", "get"})
    /\ \A r \in Requests : At(r, "update") => Row(r).given \subseteq Customer!Fields
    /\ \A r \in Requests : At(r, "save") =>
          Key(r) \in DOMAIN rows /\ rows[Key(r)].owner = Row(r).owner
    /\ CopiesAreOwn({"save"})
    /\ AnswersOwn

CardInv ==
    /\ Shape
    /\ Holds(Card!Cards, {"update"})
    /\ AskedBy(Customers, {"issue"})
    /\ CopiesAreOwn({"update"})
    /\ AnswersOwn

SupportInv ==
    /\ Shape
    /\ IsFiniteSet(DOMAIN rows)
    /\ Holds(Support!Tickets, {"update"})
    /\ AskedBy(Customers, {"open"})
    /\ AskedBy({Staff}, {"list all", "resolve", "reopen", "update"})
    /\ AnswersOwn

BeneficiaryInv ==
    /\ Shape
    /\ Holds(Beneficiary!Beneficiaries, {})
    /\ AskedBy(Customers, {"add"})
    /\ AnswersOwn

ProfileInv ==
    /\ Shape
    /\ Holds(Profile!Profiles, {"put"})
    /\ CopiesAreOwn({"put"})
    /\ AnswersOwn

AdminInv == Shape /\ Holds(Admin!Settings, {"set"})

AuthInv ==
    /\ Shape
    /\ Holds(Auth!AuthUsers, {})
    /\ AskedBy(Customers, {"register"})

AuthzInv ==
    /\ Shape
    /\ Holds(Authz!Assignments, {})
    /\ \A r \in Requests : At(r, "assign") => Key(r) \in Customers /\ Row(r).role \in Authz!Roles

\* Objects have rows, and before the row of a document is deleted its object is gone.
Referred == \A i \in Ids : Document!Of("object", i) \in outside => Exists(i)
Removed ==
    \A r \in Requests : At(r, "remove row") => Document!Of("object", Key(r)) \notin outside

DocumentInv ==
    /\ Shape
    /\ Holds(Document!Documents, {})
    /\ AskedBy(Customers, {"upload"})
    /\ AnswersOwn
    /\ Referred
    /\ Removed

PaymentInv ==
    /\ Shape
    /\ Holds(Payment!Payments, {"replay", "balance", "post", "create"})
    /\ \A k \in DOMAIN rows : Payment!Posted(k)
    /\ \A r \in Requests : At(r, "create") => Payment!Posted(Key(r))

MessageInv ==
    /\ Shape
    /\ IsFiniteSet(DOMAIN rows)
    /\ Holds(Message!Messages, {})

\* What the transactions T have added to the balance.
Total(T) == Wallet!MapThenSumSet(Wallet!Credited, T)

\* The balance is one that its column keeps, too: each rounding starts from it.
Balanced(w) ==
    /\ IsFiniteSet(w.txns)
    /\ w.balance >= 0 /\ Wallet!Whole(w.balance, Unit)
    /\ w.balance = Total(w.txns)

\* Every transaction has a key of its own, and its event.
Keyed ==
    /\ IsFiniteSet(Wallet!Txns) /\ IsFiniteSet(outside)
    /\ Wallet!UsedKeys = outside
    /\ Cardinality(Wallet!Txns) = Cardinality(outside)

WalletInv ==
    /\ Shape
    /\ Holds(Wallet!Wallets, {})
    /\ \A r \in Requests : call[r].pc \in {"topup", "replay", "apply"} =>
          /\ Key(r) = User(r) /\ User(r) \in Customers
          /\ Row(r) \in [key : Ids, amount : Int]
    /\ AnswersOwn
    /\ \A u \in DOMAIN rows : rows[u].owner = u /\ Balanced(rows[u])
    /\ Keyed

ExchangeInv == Shape /\ Holds(Exchange!Rates, {})

-----------------------------------------------------------------------------
(* What the operators of Rows do to the calls, field by field. *)

\* Request r moves and the others stay where they are.
Moves(r) == Shape' /\ \A q \in Requests \ {r} : call'[q] = call[q]

\* Request r begins a call, and the others stay where they are.
LEMMA ReceiveMoves ==
    ASSUME Shape, NEW r \in Requests, NEW op, NEW user, NEW key, NEW row,
           Receive(r, op, user, key, row)
    PROVE  /\ Moves(r) /\ UNCHANGED <<service, rows, outside>>
           /\ call'[r].pc = op
           /\ User(r)' = user /\ Key(r)' = key /\ Row(r)' = row
BY DEF Shape, Fields, Receive, Moves, User, Key, Row

\* Request r goes on to its next call with a row it has read.
LEMMA GotoMoves ==
    ASSUME Shape, NEW r \in Requests, NEW pc, NEW row, Goto(r, pc, row)
    PROVE  /\ Moves(r)
           /\ call'[r].pc = pc /\ call'[r].row = row
           /\ User(r)' = User(r) /\ Key(r)' = Key(r)
BY DEF Shape, Fields, Goto, Moves, User, Key

\* Request r is answered with the rows found.
LEMMA AnswerMoves ==
    ASSUME Shape, NEW r \in Requests, NEW found, Answer(r, found)
    PROVE  /\ Moves(r)
           /\ call'[r].pc = "answered" /\ call'[r].answer = found
           /\ User(r)' = User(r) /\ Key(r)' = Key(r)
BY DEF Shape, Fields, Answer, Moves, User, Key

\* A request that is over: refused, failed, or replied to.
LEMMA OverMoves ==
    ASSUME Shape, NEW r \in Requests, Refuse(r) \/ Fail(r) \/ Reply(r)
    PROVE  Moves(r) /\ call'[r].pc \in {"refused", "failed", "idle"}
<1>1. CASE Refuse(r)
  BY <1>1 DEF Shape, Fields, Refuse, Moves
<1>2. CASE Fail(r)
  BY <1>2 DEF Shape, Fields, Fail, Moves
<1>3. CASE Reply(r)
  BY <1>3 DEF Shape, Fields, Reply, Idle, Moves
<1>4. QED
  BY <1>1, <1>2, <1>3

\* The parts of the invariants, when one request moves.
LEMMA HoldsMoves ==
    ASSUME NEW T, NEW pcs, Holds(T, pcs), NEW r \in Requests, Moves(r),
           \A k \in DOMAIN rows' : rows'[k] \in T,
           call'[r].pc \in pcs => Row(r)' \in T
    PROVE  Holds(T, pcs)'
BY DEF Holds, Moves, Row

\* Who asks for ops stays allowed to, when the request that moved is.
LEMMA AskedByMoves ==
    ASSUME NEW users, NEW ops, AskedBy(users, ops), NEW r \in Requests, Moves(r),
           call'[r].pc \in ops => User(r)' \in users
    PROVE  AskedBy(users, ops)'
BY DEF AskedBy, Moves, User

\* Answers stay their owner's, when the one just given is.
LEMMA AnswersMoves ==
    ASSUME AnswersOwn, NEW r \in Requests, Moves(r),
           call'[r].pc = "answered" /\ User(r)' # Staff =>
               \A row \in call'[r].answer : row.owner = User(r)'
    PROVE  AnswersOwn'
BY DEF AnswersOwn, Moves, User, At, Own

-----------------------------------------------------------------------------
(* One lemma per service: each of its steps keeps its invariant.             *)

\* Every call of loan-service keeps its invariant.
LEMMA LoanStep ==
    ASSUME LoanInv, NEW r \in Requests, Loan!Next(r) \/ Fail(r) \/ Reply(r)
    PROVE  LoanInv' /\ service' = service
<1> USE DEF LoanInv, Shape, Fields, Holds, AskedBy, At, User, Key, Row, Loan!At, Loan!Goto,
    Loan!Answer, Loan!Refuse, Loan!Same, Loan!OnlyRows, Loan!Receive, Loan!Exists,
    Loan!User, Loan!Key, Loan!Row, Loan!Put
<1>1. CASE Loan!Request(r)
  BY <1>1 DEF Loan!Request, Loan!Routes, Loan!StaffRoutes, Loan!Ask
<1>2. CASE Loan!Apply(r)
  BY <1>2 DEF Loan!Apply, Loan!Insert, Loan!FreshIds, Loan!Loans
<1>3. CASE Loan!Approve(r)
  BY <1>3 DEF Loan!Approve, Loan!Load, Loan!Loans
<1>4. CASE Loan!Disburse(r)
  BY <1>4 DEF Loan!Disburse, Loan!Load, Loan!Approved, Loan!Unchanged, Loan!Loans
<1>5. CASE Loan!At(r, "update") /\ Loan!Save(r)
  BY <1>5 DEF Loan!Save, Loan!Loans
<1>6. CASE Loan!At(r, "get") /\ Loan!Get(r, Loan!Anyone)
  BY <1>6 DEF Loan!Get
<1>7. CASE Loan!At(r, "list") /\ Loan!Select(r, LAMBDA loan : loan.borrower = Loan!User(r))
  BY <1>7 DEF Loan!Select
<1>8. CASE Loan!Post(r)
  BY <1>8 DEF Loan!Post, Loan!DisburseKey, Loan!Loans
<1>9. CASE Fail(r) \/ Reply(r)
  BY <1>9 DEF Fail, Reply, Idle, Answered
<1>10. QED
  BY <1>1, <1>2, <1>3, <1>4, <1>5, <1>6, <1>7, <1>8, <1>9 DEF Loan!Next, Loan!Repository

\* Every call of emi-service keeps its invariant.
LEMMA EmiStep ==
    ASSUME EmiInv, NEW r \in Requests, Emi!Next(r) \/ Fail(r) \/ Reply(r)
    PROVE  EmiInv' /\ service' = service
<1> USE DEF EmiInv, Shape, Fields, Holds, AskedBy, At, User, Key, Row, Emi!At, Emi!Goto,
    Emi!Answer, Emi!Refuse, Emi!Same, Emi!OnlyRows, Emi!Receive, Emi!Exists, Emi!User,
    Emi!Row, Emi!Plans, Emi!Tenure, Emi!PlansOf
<1>1. CASE Emi!Request(r)
  BY <1>1 DEF Emi!Request, Emi!Routes, Emi!Ask
<1>2. CASE Emi!CreatePlan(r)
  BY <1>2 DEF Emi!CreatePlan
<1>3. CASE Emi!SaveSchedule(r)
  BY <1>3 DEF Emi!SaveSchedule, Emi!Insert, Emi!FreshIds, Emi!Put, Emi!Key
<1>4. CASE Emi!PayNext(r)
  <2>1. CASE Emi!Unpaid(User(r)) = {}
    BY <1>4, <2>1 DEF Emi!PayNext
  <2>2. CASE Emi!Unpaid(User(r)) # {}
    <3>1. PICK i \in Emi!Earliest(User(r)) : Emi!Goto(r, "mark", i)
      BY <1>4, <2>2 DEF Emi!PayNext
    <3>2. i[1] \in DOMAIN rows /\ i[2] \in 1..Emi!Tenure /\ i[1] \in Emi!PlansOf(User(r))
      BY DEF Emi!Earliest, Emi!Unpaid
    <3>3. ASSUME NEW m \in 1..(i[2] - 1) PROVE m \in rows[i[1]].paid
      <4>1. m \in 1..Emi!Tenure /\ ~(i[2] <= m)
        BY <3>2, MaxCountAssumption
      <4>2. <<i[1], m>> \notin Emi!Unpaid(User(r))
        BY <4>1 DEF Emi!Earliest
      <4>3. QED
        BY <3>2, <4>1, <4>2 DEF Emi!Unpaid
    <3>4. UNCHANGED <<service, rows>> /\ call' = [call EXCEPT ![r].pc = "mark", ![r].row = i]
      BY <1>4, <3>1 DEF Emi!PayNext
    <3>5. /\ Shape' /\ Row(r)' = i
          /\ \A q \in Requests \ {r} : call'[q] = call[q]
          /\ User(r)' = User(r) /\ call'[r].pc = "mark"
      BY <3>4
    <3>6. \A q \in Requests : At(q, "mark")' =>
              /\ Row(q)'[1] \in DOMAIN rows /\ Row(q)'[2] \in 1..Emi!Tenure
              /\ 1..(Row(q)'[2] - 1) \subseteq rows[Row(q)'[1]].paid
      BY <3>2, <3>3, <3>5
    <3>7. QED
      BY <3>4, <3>5, <3>6
  <2>3. QED
    BY <2>1, <2>2
<1>5. CASE Emi!MarkPaid(r)
  <2> DEFINE k == Row(r)[1]
             n == Row(r)[2]
  <2>1. /\ k \in DOMAIN rows /\ n \in 1..Emi!Tenure
        /\ 1..(n - 1) \subseteq rows[k].paid
    BY <1>5 DEF Emi!MarkPaid
  <2>2. /\ rows' = [rows EXCEPT ![k].paid = @ \cup {n}]
        /\ Emi!Answer(r, {Row(r)}) /\ service' = service
    BY <1>5 DEF Emi!MarkPaid
  <2> HIDE DEF k, n
  <2>3. /\ DOMAIN rows' = DOMAIN rows
        /\ \A i \in DOMAIN rows : rows'[i].loan = rows[i].loan /\ rows[i].paid \subseteq rows'[i].paid
        /\ \A i \in DOMAIN rows : rows'[i].paid \subseteq rows[i].paid \cup (IF i = k THEN {n} ELSE {})
    BY <2>1, <2>2
  <2>4. \A i \in DOMAIN rows' : rows'[i] \in Emi!Plans
    BY <2>1, <2>2
  <2>5. ASSUME NEW i \in DOMAIN rows', NEW m \in rows'[i].paid
        PROVE  1..m \subseteq rows'[i].paid
    <3>1. CASE m \in rows[i].paid
      BY <2>3, <3>1
    <3>2. CASE m \notin rows[i].paid
      <4>1. i = k /\ m = n
        BY <2>3, <3>2
      <4>2. 1..n \subseteq (1..(n - 1)) \cup {n}
        BY <2>1, MaxCountAssumption
      <4>3. n \in rows'[k].paid
        BY <4>1
      <4>4. QED
        BY <2>1, <2>3, <4>1, <4>2, <4>3
    <3>3. QED
      BY <3>1, <3>2
  <2>6. Shape' /\ AskedBy(Customers, {"plan", "save", "pay"})'
    BY <2>2
  <2>7. ASSUME NEW q \in Requests, At(q, "mark")'
        PROVE  /\ Row(q)' = Row(q)
               /\ Row(q)[1] \in DOMAIN rows /\ Row(q)[2] \in 1..Emi!Tenure
               /\ 1..(Row(q)[2] - 1) \subseteq rows[Row(q)[1]].paid
    BY <2>2, <2>7
  <2>8. ASSUME NEW q \in Requests, At(q, "mark")'
        PROVE  /\ Row(q)'[1] \in DOMAIN rows' /\ Row(q)'[2] \in 1..Emi!Tenure
               /\ 1..(Row(q)'[2] - 1) \subseteq rows'[Row(q)'[1]].paid
    <3>1. /\ Row(q)' = Row(q)
          /\ Row(q)[1] \in DOMAIN rows /\ Row(q)[2] \in 1..Emi!Tenure
          /\ 1..(Row(q)[2] - 1) \subseteq rows[Row(q)[1]].paid
      BY <2>7, <2>8
    <3>2. QED
      BY <2>3, <3>1
  <2>9. QED
    BY <2>2, <2>4, <2>5, <2>6, <2>8
<1>6. CASE Emi!Schedule(r)
  BY <1>6 DEF Emi!Schedule, Emi!Select
<1>7. CASE Fail(r) \/ Reply(r)
  BY <1>7 DEF Fail, Reply, Idle, Answered
<1>8. QED
  BY <1>1, <1>2, <1>3, <1>4, <1>5, <1>6, <1>7 DEF Emi!Next, Emi!Repository

\* Every call of fixed-deposit-service keeps its invariant.
LEMMA FixedDepositStep ==
    ASSUME FixedDepositInv, NEW r \in Requests, FixedDeposit!Next(r) \/ Fail(r) \/ Reply(r)
    PROVE  FixedDepositInv' /\ service' = service
<1> USE DEF FixedDepositInv, Shape, Fields, Holds, AskedBy, At, User, Key, Row, AnswersOwn,
    Own, CopiesAreOwn, FixedDeposit!At, FixedDeposit!Goto, FixedDeposit!Answer,
    FixedDeposit!Refuse, FixedDeposit!Same, FixedDeposit!OnlyRows, FixedDeposit!Receive,
    FixedDeposit!Exists, FixedDeposit!User, FixedDeposit!Key, FixedDeposit!Row,
    FixedDeposit!Put, FixedDeposit!Own, FixedDeposit!Deposits
<1>1. CASE FixedDeposit!Request(r)
  BY <1>1 DEF FixedDeposit!Request, FixedDeposit!Routes, FixedDeposit!Ask
<1>2. CASE FixedDeposit!Create(r)
  BY <1>2 DEF FixedDeposit!Create, FixedDeposit!Insert, FixedDeposit!FreshIds
<1>3. CASE FixedDeposit!GetOwned(r)
  BY <1>3 DEF FixedDeposit!GetOwned, FixedDeposit!GetOwn, FixedDeposit!Get
<1>4. CASE FixedDeposit!Close(r)
  BY <1>4 DEF FixedDeposit!Close, FixedDeposit!LoadOwn, FixedDeposit!Load,
        FixedDeposit!Save, FixedDeposit!Anyone
<1>5. CASE FixedDeposit!At(r, "list") /\ FixedDeposit!SelectOwn(r)
  BY <1>5 DEF FixedDeposit!SelectOwn, FixedDeposit!Select
<1>6. CASE Fail(r) \/ Reply(r)
  BY <1>6 DEF Fail, Reply, Idle, Answered
<1>7. QED
  BY <1>1, <1>2, <1>3, <1>4, <1>5, <1>6 DEF FixedDeposit!Next, FixedDeposit!Repository

\* The next instalment: the last one, and only it, matures the deposit.
LEMMA PaidKeeps ==
    ASSUME NEW d \in RecurringDeposit!Deposits, d.paid < RecurringDeposit!Tenure, MaturedIffPaid(d)
    PROVE  /\ RecurringDeposit!Paid(d) \in RecurringDeposit!Deposits
           /\ RecurringDeposit!Paid(d).owner = d.owner
           /\ MaturedIffPaid(RecurringDeposit!Paid(d))
<1> DEFINE status == IF d.paid + 1 = RecurringDeposit!Tenure THEN "MATURED" ELSE d.status
<1>1. d.owner \in Customers /\ d.paid \in 0..MaxCount /\ d.status \in {"ACTIVE", "MATURED"}
  BY DEF RecurringDeposit!Deposits, RecurringDeposit!Tenure
<1>2. /\ RecurringDeposit!Paid(d).owner = d.owner
      /\ RecurringDeposit!Paid(d).paid = d.paid + 1
      /\ RecurringDeposit!Paid(d).status = status
  BY DEF RecurringDeposit!Deposits, RecurringDeposit!Paid
<1>3. d.paid + 1 \in 0..MaxCount /\ status \in {"ACTIVE", "MATURED"}
  BY <1>1, MaxCountAssumption DEF RecurringDeposit!Tenure
<1>4. status = "MATURED" <=> d.paid + 1 = RecurringDeposit!Tenure
  BY <1>1, MaxCountAssumption DEF MaturedIffPaid, RecurringDeposit!Tenure
<1>5. RecurringDeposit!Paid(d) \in RecurringDeposit!Deposits
  BY <1>1, <1>3 DEF RecurringDeposit!Deposits, RecurringDeposit!Tenure, RecurringDeposit!Paid
<1>6. QED
  BY <1>2, <1>4, <1>5 DEF MaturedIffPaid

\* Every call of recurring-deposit-service keeps its invariant.
LEMMA RecurringDepositStep ==
    ASSUME RecurringDepositInv, NEW r \in Requests, RecurringDeposit!Next(r) \/ Fail(r) \/ Reply(r)
    PROVE  RecurringDepositInv' /\ service' = service
<1> USE DEF RecurringDepositInv, Shape, Fields, Holds, AskedBy, At, User, Key, Row,
    AnswersOwn, Own, CopiesAreOwn, MaturedIffPaid, RecurringDeposit!At,
    RecurringDeposit!Goto, RecurringDeposit!Answer, RecurringDeposit!Refuse,
    RecurringDeposit!Same, RecurringDeposit!OnlyRows, RecurringDeposit!Receive,
    RecurringDeposit!Exists, RecurringDeposit!User, RecurringDeposit!Key,
    RecurringDeposit!Row, RecurringDeposit!Put, RecurringDeposit!Own,
    RecurringDeposit!Deposits, RecurringDeposit!Tenure
<1>1. CASE RecurringDeposit!Request(r)
  BY <1>1 DEF RecurringDeposit!Request, RecurringDeposit!Routes, RecurringDeposit!Ask
<1>2. CASE RecurringDeposit!Create(r)
  BY <1>2, MaxCountAssumption
     DEF RecurringDeposit!Create, RecurringDeposit!Insert, RecurringDeposit!FreshIds
<1>3. CASE RecurringDeposit!Deposit(r)
  <2> DEFINE d == rows[Key(r)]
  <2>1. CASE /\ At(r, "deposit") /\ RecurringDeposit!Same
             /\ ~(Exists(Key(r)) /\ Own(r, d) /\ d.paid < RecurringDeposit!Tenure)
             /\ RecurringDeposit!Refuse(r)
    BY <2>1
  <2>2. CASE /\ At(r, "deposit") /\ RecurringDeposit!Same
             /\ Exists(Key(r)) /\ Own(r, d) /\ d.paid < RecurringDeposit!Tenure
             /\ RecurringDeposit!Goto(r, "update", RecurringDeposit!Paid(d))
    <3>1. /\ RecurringDeposit!Paid(d) \in RecurringDeposit!Deposits
          /\ RecurringDeposit!Paid(d).owner = User(r)
          /\ MaturedIffPaid(RecurringDeposit!Paid(d))
      BY <2>2, PaidKeeps DEF Exists
    <3> HIDE DEF RecurringDeposit!Deposits, MaturedIffPaid, d
    <3>2. QED
      BY <2>2, <3>1
  <2>3. CASE At(r, "update") /\ RecurringDeposit!Save(r)
    BY <2>3 DEF RecurringDeposit!Save
  <2>4. QED
    BY <1>3, <2>1, <2>2, <2>3
       DEF RecurringDeposit!Deposit, RecurringDeposit!LoadOwn, RecurringDeposit!Load, Exists
<1>4. CASE RecurringDeposit!GetOwned(r)
  BY <1>4 DEF RecurringDeposit!GetOwned, RecurringDeposit!GetOwn, RecurringDeposit!Get
<1>5. CASE RecurringDeposit!At(r, "list") /\ RecurringDeposit!SelectOwn(r)
  BY <1>5 DEF RecurringDeposit!SelectOwn, RecurringDeposit!Select
<1>6. CASE Fail(r) \/ Reply(r)
  BY <1>6 DEF Fail, Reply, Idle, Answered
<1>7. QED
  BY <1>1, <1>2, <1>3, <1>4, <1>5, <1>6 DEF RecurringDeposit!Next, RecurringDeposit!Repository

\* What the column of the units stores is one of its values.
LEMMA StoredIsHolding ==
    \A x \in Nat : /\ Investment!Stored(x, Unit) \in Nat
                   /\ Investment!Whole(Investment!Stored(x, Unit), Unit)
<1>1. Unit \in Nat \ {0}
  BY AmountAssumption
<1>2. SUFFICES ASSUME NEW x \in Nat
               PROVE  Stored(x, Unit) \in Nat /\ Whole(Stored(x, Unit), Unit)
  BY DEF Investment!Stored, Investment!Whole, Stored, Whole
<1>3. PICK z \in Int : z = Stored(x, Unit) /\ Whole(z, Unit)
  BY <1>1, StoredNear
<1>4. Whole(0, Unit)
  BY <1>1 DEF Whole
<1>5. 0 <= z
  BY <1>1, <1>3, <1>4, StoredAbove
<1>6. QED
  BY <1>3, <1>5

\* Every call of investment-service keeps its invariant.
LEMMA InvestmentStep ==
    ASSUME InvestmentInv, NEW r \in Requests, Investment!Next(r) \/ Fail(r) \/ Reply(r)
    PROVE  InvestmentInv' /\ service' = service
<1> USE DEF InvestmentInv, Shape, Fields, Holds, AskedBy, At, User, Key, Row, AnswersOwn,
    Own, CopiesAreOwn, Investment!At, Investment!Goto, Investment!Answer, Investment!Refuse,
    Investment!Same, Investment!OnlyRows, Investment!Receive, Investment!Exists,
    Investment!User, Investment!Key, Investment!Row, Investment!Put, Investment!Own,
    Investment!Holdings
<1>0. Asked \subseteq Nat
  BY AmountAssumption
<1>1. CASE Investment!Request(r)
  BY <1>0, <1>1 DEF Investment!Request
<1>2. CASE Investment!Buy(r)
  BY <1>2 DEF Investment!Buy, Investment!Holding
<1>3. CASE Investment!Sell(r)
  BY <1>3 DEF Investment!Sell, Investment!Enough, Investment!Left, Investment!Holding
<1>4. CASE Investment!UpsertHolding(r)
  <2>1. PICK n \in Nat : /\ n = Investment!Stored(Row(r).units, Unit)
                         /\ Investment!Whole(n, Unit)
    BY <1>4, StoredIsHolding DEF Investment!UpsertHolding
  <2>2. rows' = Investment!Put(Key(r), [owner |-> User(r), units |-> n])
    BY <1>4, <2>1 DEF Investment!UpsertHolding, Investment!Holding
  <2>3. Investment!Answer(r, {Row(r)}) /\ At(r, "upsert") /\ UNCHANGED <<service, outside>>
    BY <1>4 DEF Investment!UpsertHolding
  <2>4. User(r) \in Customers
    BY <2>3
  <2>5. QED
    BY <2>1, <2>2, <2>3, <2>4
<1>5. CASE Investment!At(r, "delete") /\ Investment!Delete(r)
  BY <1>5 DEF Investment!Delete
<1>6. CASE Investment!At(r, "portfolio") /\ Investment!SelectOwn(r)
  BY <1>6 DEF Investment!SelectOwn, Investment!Select
<1>7. CASE Fail(r) \/ Reply(r)
  BY <1>7 DEF Fail, Reply, Idle, Answered
<1>8. QED
  BY <1>1, <1>2, <1>3, <1>4, <1>5, <1>6, <1>7 DEF Investment!Next, Investment!Repository

\* The instance's cardinality is that of FiniteSets.
LEMMA KycCardinality == Kyc!Cardinality(DOMAIN rows) = Cardinality(DOMAIN rows)
BY DEF Kyc!Cardinality, Cardinality

\* Every call of kyc-service keeps its invariant.
LEMMA KycStep ==
    ASSUME KycInv, NEW r \in Requests, Kyc!Next(r) \/ Fail(r) \/ Reply(r)
    PROVE  KycInv' /\ service' = service
<1> USE DEF KycInv, Shape, Fields, Holds, AskedBy, At, User, Key, Row, AnswersOwn, Own,
    Kyc!At, Kyc!Goto, Kyc!Answer, Kyc!Refuse, Kyc!Same, Kyc!OnlyRows, Kyc!Receive,
    Kyc!Exists, Kyc!User, Kyc!Key, Kyc!Row, Kyc!Put, Kyc!Own, Kyc!Verifications
<1>1. CASE Kyc!Request(r)
  BY <1>1 DEF Kyc!Request, Kyc!Routes, Kyc!StaffRoutes, Kyc!Ask
<1>2. CASE Kyc!Submit(r)
  <2> DEFINE v == [owner |-> User(r), status |-> "PENDING", at |-> Kyc!Cardinality(DOMAIN rows)]
  <2>1. PICK i \in Kyc!FreshIds : rows' = Kyc!Put(i, v)
    BY <1>2 DEF Kyc!Submit, Kyc!Insert
  <2>2. Kyc!Answer(r, {v}) /\ At(r, "submit") /\ UNCHANGED <<service, outside>>
    BY <1>2 DEF Kyc!Submit, Kyc!Insert
  <2>3. v \in Kyc!Verifications /\ v.owner = User(r)
    BY <2>2, FS_CardinalityType, KycCardinality
  <2> HIDE DEF v
  <2>4. IsFiniteSet(DOMAIN rows')
    BY <2>1, FS_AddElement
  <2>5. Holds(Kyc!Verifications, {"update"})'
    BY <2>1, <2>2, <2>3
  <2>6. QED
    BY <2>2, <2>3, <2>4, <2>5
<1>3. CASE Kyc!LatestForUser(r)
  BY <1>3 DEF Kyc!LatestForUser
<1>4. CASE Kyc!Pending(r)
  BY <1>4 DEF Kyc!Pending, Kyc!Select
<1>5. CASE Kyc!Review(r)
  <2>1. ASSUME NEW op \in {"approve", "reject"}, At(r, op), Kyc!Same,
               NEW v, v = Kyc!Reviewed(rows[Key(r)], IF op = "approve" THEN "VERIFIED" ELSE "REJECTED"),
               IF Exists(Key(r)) /\ rows[Key(r)].status = "PENDING"
               THEN Kyc!Goto(r, "update", v) ELSE Kyc!Refuse(r)
        PROVE  KycInv' /\ service' = service
    <3>1. Exists(Key(r)) => v \in Kyc!Verifications /\ v.status # "PENDING"
      BY <2>1 DEF Exists, Kyc!Reviewed
    <3> HIDE DEF Kyc!Verifications
    <3>2. QED
      BY <2>1, <3>1
  <2>2. CASE At(r, "update") /\ Kyc!Save(r)
    <3>1. IsFiniteSet(DOMAIN rows')
      BY <2>2, FS_AddElement DEF Kyc!Save
    <3>2. QED
      BY <2>2, <3>1 DEF Kyc!Save
  <2>3. QED
    BY <1>5, <2>1, <2>2 DEF Kyc!Review, Kyc!Load, Exists
<1>6. CASE Fail(r) \/ Reply(r)
  BY <1>6 DEF Fail, Reply, Idle, Answered
<1>7. QED
  BY <1>1, <1>2, <1>3, <1>4, <1>5, <1>6 DEF Kyc!Next, Kyc!Repository

\* Every call of account-service keeps its invariant.
LEMMA AccountStep ==
    ASSUME AccountInv, NEW r \in Requests, Account!Next(r) \/ Fail(r) \/ Reply(r)
    PROVE  AccountInv' /\ service' = service
<1> DEFINE Rest == UNCHANGED <<service, rows, outside>>
           Inv == AccountInv' /\ service' = service
<1> USE DEF Account!Same, Account!OnlyRows
<1>0. Shape
  BY DEF AccountInv
<1>1. ASSUME Moves(r), service' = service, Opened', Checked', DOMAIN rows' \subseteq outside',
             \A k \in DOMAIN rows' : rows'[k] \in Account!Accounts,
             call'[r].pc = "ask ledger" => Row(r)' \in Account!Accounts,
             call'[r].pc \in {"open", "create"} => User(r)' \in Customers,
             call'[r].pc = "answered" /\ User(r)' # Staff =>
                 \A row \in call'[r].answer : row.owner = User(r)'
      PROVE  Inv
  <2>1. Holds(Account!Accounts, {"ask ledger"})'
    BY <1>1, HoldsMoves DEF AccountInv
  <2>2. AskedBy(Customers, {"open", "create"})'
    BY <1>1, AskedByMoves DEF AccountInv
  <2>3. AnswersOwn'
    BY <1>1, AnswersMoves DEF AccountInv
  <2>4. QED
    BY <1>1, <2>1, <2>2, <2>3 DEF AccountInv, Moves
<1>2. ASSUME Moves(r), Rest, call'[r].pc \notin {"create", "check", "ask ledger"},
             call'[r].pc = "open" => User(r)' \in Customers,
             call'[r].pc = "answered" /\ User(r)' # Staff =>
                 \A row \in call'[r].answer : row.owner = User(r)'
      PROVE  Inv
  <2>1. Opened'
    BY <1>2 DEF AccountInv, Opened, Moves, At, Key
  <2>2. Checked'
    BY <1>2 DEF AccountInv, Checked, Moves, At, Key, Own, User, Row
  <2>3. QED
    BY <1>1, <1>2, <2>1, <2>2 DEF AccountInv, Holds
<1>3. ASSUME NEW found, Account!Answer(r, found), Rest,
             User(r) # Staff => \A row \in found : row.owner = User(r)
      PROVE  Inv
  BY <1>0, <1>2, <1>3, AnswerMoves DEF Account!Answer, Answer
<1>4. CASE Account!Refuse(r) /\ Rest
  BY <1>0, <1>2, <1>4, OverMoves DEF Account!Refuse, Refuse
<1>5. ASSUME NEW pc, NEW row, Account!Goto(r, pc, row)
      PROVE  /\ Moves(r) /\ call'[r].pc = pc /\ Row(r)' = row
             /\ User(r)' = User(r) /\ Key(r)' = Key(r)
  BY <1>0, <1>5, GotoMoves DEF Account!Goto, Goto, Row
<1>6. CASE Account!Request(r)
  <2>1. ASSUME NEW op, NEW user, NEW key, NEW row, Account!Receive(r, op, user, key, row)
        PROVE  Moves(r) /\ Rest /\ call'[r].pc = op /\ User(r)' = user
    <3>1. Receive(r, op, user, key, row)
      BY <2>1 DEF Account!Receive, Receive, Account!At, At
    <3>2. QED
      BY <1>0, <3>1, ReceiveMoves
  <2>2. CASE Account!Routes(r, {"open", "list"}, {"get", "balance"})
    BY <1>2, <2>1, <2>2 DEF Account!Routes, Account!Ask
  <2>3. CASE Account!StaffRoutes(r, {}, {"get", "balance"})
    BY <1>2, <2>1, <2>3 DEF Account!StaffRoutes, Account!Ask
  <2>4. QED
    BY <1>6, <2>2, <2>3 DEF Account!Request
<1>7. CASE Account!OpenInLedger(r)
  <2>1. PICK i \in Account!FreshIds \ outside :
            /\ outside' = outside \cup {i}
            /\ call' = [call EXCEPT ![r].pc = "create", ![r].key = i]
    BY <1>7 DEF Account!OpenInLedger
  <2>2. /\ At(r, "open") /\ rows' = rows /\ service' = service
        /\ i \notin DOMAIN rows /\ \A q \in Requests : Key(q) # i
    BY <1>7 DEF Account!OpenInLedger, Account!FreshIds, Account!Exists, Account!At, At,
          Account!Key, Key
  <2>3. Moves(r) /\ call'[r].pc = "create" /\ Key(r)' = i /\ User(r)' = User(r)
    BY <1>0, <2>1 DEF Shape, Fields, Moves, Key, User
  <2>4. User(r) \in Customers
    BY <2>2 DEF AccountInv, AskedBy, At
  <2>5. \A p, q \in Requests : (At(p, "create") /\ At(q, "create") /\ Key(p) = Key(q))' => p = q
    BY <2>2, <2>3 DEF AccountInv, Opened, Moves, At, Key
  <2>6. ASSUME NEW q \in Requests, At(q, "create")'
        PROVE  Key(q)' \in outside' /\ Key(q)' \notin DOMAIN rows'
    <3>1. CASE q = r
      BY <2>1, <2>2, <2>3, <3>1
    <3>2. CASE q # r
      <4>1. At(q, "create") /\ Key(q)' = Key(q)
        BY <2>3, <2>6, <3>2 DEF Moves, At, Key
      <4>2. QED
        BY <2>1, <2>2, <4>1 DEF AccountInv, Opened
    <3>3. QED
      BY <3>1, <3>2
  <2>7. Opened' /\ DOMAIN rows' \subseteq outside'
    BY <2>1, <2>2, <2>5, <2>6 DEF Opened, AccountInv
  <2>8. Checked'
    BY <2>2, <2>3 DEF AccountInv, Checked, Moves, At, Key, Own, User, Row
  <2>9. \A k \in DOMAIN rows' : rows'[k] \in Account!Accounts
    BY <2>2 DEF AccountInv, Holds
  <2>10. QED
    BY <1>1, <2>2, <2>3, <2>4, <2>7, <2>8, <2>9
<1>8. CASE Account!Create(r)
  <2> DEFINE a == [owner |-> User(r)]
  <2>1. /\ At(r, "create") /\ service' = service /\ outside' = outside
        /\ rows' = Put(Key(r), a) /\ Account!Answer(r, {a})
    BY <1>8 DEF Account!Create, Account!At, At, Account!Put, Put, Account!Key, Key,
          Account!User, User
  <2>2. a \in Account!Accounts /\ a.owner = User(r)
    BY <2>1 DEF AccountInv, AskedBy, At, Account!Accounts
  <2>3. Key(r) \in outside /\ Key(r) \notin DOMAIN rows
    BY <2>1 DEF AccountInv, Opened
  <2> HIDE DEF a
  <2>4. /\ DOMAIN rows' = DOMAIN rows \cup {Key(r)} /\ rows'[Key(r)] = a
        /\ \A k \in DOMAIN rows : rows'[k] = rows[k]
    BY <2>1, <2>3 DEF Put
  <2>5. /\ Moves(r) /\ call'[r].pc = "answered" /\ call'[r].answer = {a}
        /\ User(r)' = User(r)
    BY <1>0, <2>1, AnswerMoves DEF Account!Answer, Answer
  <2>6. \A k \in DOMAIN rows' : rows'[k] \in Account!Accounts
    BY <2>2, <2>4 DEF AccountInv, Holds
  <2>7. \A q \in Requests : At(q, "create")' => At(q, "create") /\ q # r /\ Key(q)' = Key(q)
    BY <2>5 DEF Moves, At, Key
  <2>8. Opened' /\ DOMAIN rows' \subseteq outside'
    BY <2>1, <2>3, <2>4, <2>7 DEF AccountInv, Opened
  <2>9. Checked'
    <3>1. ASSUME NEW q \in Requests \ {r}, User(q)' # Staff
          PROVE  /\ At(q, "check")' => Key(q)' \in DOMAIN rows' /\ rows'[Key(q)'].owner = User(q)'
                 /\ At(q, "ask ledger")' => Row(q)'.owner = User(q)'
      <4>1. call'[q] = call[q]
        BY <2>5, <3>1 DEF Moves
      <4>2. /\ At(q, "check") => Key(q) \in DOMAIN rows /\ rows[Key(q)].owner = User(q)
            /\ At(q, "ask ledger") => Row(q).owner = User(q)
        BY <3>1, <4>1 DEF AccountInv, Checked, Own, User
      <4>3. QED
        BY <2>4, <4>1, <4>2 DEF At, Key, User, Row
    <3>2. ~At(r, "check")' /\ ~At(r, "ask ledger")'
      BY <2>5 DEF At
    <3>3. QED
      BY <3>1, <3>2 DEF Checked, Own
  <2>10. QED
    BY <1>1, <2>1, <2>2, <2>5, <2>6, <2>8, <2>9
<1>9. CASE Account!OwnedAccount(r)
  <2>1. CASE Account!Refuse(r) /\ Rest
    BY <1>4, <2>1
  <2>2. CASE /\ Account!Goto(r, "check", rows[Key(r)]) /\ Rest
             /\ Exists(Key(r)) /\ (Own(r, rows[Key(r)]) \/ User(r) = Staff)
    <3>1. /\ Moves(r) /\ call'[r].pc = "check"
          /\ User(r)' = User(r) /\ Key(r)' = Key(r)
      BY <1>5, <2>2
    <3>2. Opened'
      BY <2>2, <3>1 DEF AccountInv, Opened, Moves, At, Key
    <3>3. Checked'
      BY <2>2, <3>1 DEF AccountInv, Checked, Moves, At, Key, Own, User, Row, Exists
    <3>4. QED
      BY <1>1, <2>2, <3>1, <3>2, <3>3 DEF AccountInv, Holds
  <2>3. CASE /\ Account!Goto(r, "ask ledger", rows[Key(r)]) /\ Rest
             /\ Exists(Key(r)) /\ At(r, "check")
    <3>1. /\ Moves(r) /\ call'[r].pc = "ask ledger" /\ Row(r)' = rows[Key(r)]
          /\ User(r)' = User(r)
      BY <1>5, <2>3
    <3>2. /\ rows[Key(r)] \in Account!Accounts
          /\ User(r) # Staff => rows[Key(r)].owner = User(r)
      BY <2>3 DEF AccountInv, Holds, Exists, Checked, Own
    <3>3. Opened'
      BY <2>3, <3>1 DEF AccountInv, Opened, Moves, At, Key
    <3>4. Checked'
      BY <2>3, <3>1, <3>2 DEF AccountInv, Checked, Moves, At, Key, Own, User, Row
    <3>5. QED
      BY <1>1, <2>3, <3>1, <3>2, <3>3, <3>4 DEF AccountInv, Holds
  <2>4. QED
    BY <1>9, <2>1, <2>2, <2>3
       DEF Account!OwnedAccount, Account!Load, Account!Anyone, Account!Unchanged,
           Account!Exists, Exists, Account!Key, Key, Account!At, At, Account!Own, Own,
           Account!User, User
<1>10. CASE Account!Balance(r)
  <2>1. User(r) # Staff => Row(r).owner = User(r)
    BY <1>10 DEF Account!Balance, Account!At, At, AccountInv, Checked, Own
  <2>2. CASE Account!Answer(r, {Row(r)})
    BY <1>3, <1>10, <2>1, <2>2 DEF Account!Balance
  <2>3. CASE Account!Refuse(r)
    BY <1>4, <1>10, <2>3 DEF Account!Balance
  <2>4. QED
    BY <1>10, <2>2, <2>3 DEF Account!Balance, Account!Row, Row
<1>11. CASE Account!GetOwnOrAsStaff(r)
  <2>1. CASE Account!Refuse(r)
    BY <1>4, <1>11, <2>1 DEF Account!GetOwnOrAsStaff, Account!Get
  <2>2. CASE Account!Answer(r, {rows[Key(r)]}) /\ (Own(r, rows[Key(r)]) \/ User(r) = Staff)
    BY <1>3, <1>11, <2>2 DEF Account!GetOwnOrAsStaff, Account!Get, Own
  <2>3. QED
    BY <1>11, <2>1, <2>2
       DEF Account!GetOwnOrAsStaff, Account!Get, Account!Key, Key, Account!Own, Own,
           Account!User, User
<1>12. CASE Account!SelectOwn(r)
  BY <1>3, <1>12 DEF Account!SelectOwn, Account!Select, Account!Own, Account!User, User
<1>13. CASE Fail(r) \/ Reply(r)
  BY <1>0, <1>2, <1>13, OverMoves DEF Fail, Reply
<1>14. QED
  BY <1>6, <1>7, <1>8, <1>9, <1>10, <1>11, <1>12, <1>13 DEF Account!Next, Account!Repository

\* Every call of customer-service keeps its invariant.
LEMMA CustomerStep ==
    ASSUME CustomerInv, NEW r \in Requests, Customer!Next(r) \/ Fail(r) \/ Reply(r)
    PROVE  CustomerInv' /\ service' = service
<1> USE DEF CustomerInv, Shape, Fields, Holds, AskedBy, At, User, Key, Row, AnswersOwn, Own,
    CopiesAreOwn, Customer!At, Customer!Goto, Customer!Answer, Customer!Refuse,
    Customer!Same, Customer!OnlyRows, Customer!Receive, Customer!Exists, Customer!User,
    Customer!Key, Customer!Row, Customer!Put, Customer!Own, Customer!Records,
    Customer!RecordsOf
<1>1. CASE Customer!Request(r)
  BY <1>1 DEF Customer!Request, Customer!Routes, Customer!StaffRoutes, Customer!Ask
<1>2. CASE Customer!Create(r)
  <2> DEFINE c == [owner |-> User(r), fields |-> {}]
  <2>1. CASE Customer!Refuse(r) /\ Customer!Same
    BY <2>1
  <2>2. CASE Customer!RecordsOf(User(r)) = {} /\ Customer!Insert(r, c)
    <3>1. PICK i \in Customer!FreshIds : rows' = Customer!Put(i, c)
      BY <2>2 DEF Customer!Insert
    <3>2. Customer!Answer(r, {c}) /\ At(r, "create") /\ UNCHANGED <<service, outside>>
      BY <1>2, <2>2 DEF Customer!Create, Customer!Insert
    <3>3. c \in Customer!Records /\ c.owner = User(r)
      BY <3>2
    <3> HIDE DEF c
    <3>4. /\ DOMAIN rows' = DOMAIN rows \cup {i} /\ i \notin DOMAIN rows /\ rows'[i] = c
          /\ \A k \in DOMAIN rows : rows'[k] = rows[k]
      BY <3>1 DEF Customer!FreshIds
    <3>5. Holds(Customer!Records, {"save"})'
      BY <3>2, <3>3, <3>4
    <3>6. QED
      BY <3>2, <3>3, <3>4, <3>5
  <2>3. QED
    BY <1>2, <2>1, <2>2 DEF Customer!Create
<1>3. CASE Customer!GetByUserID(r)
  BY <1>3 DEF Customer!GetByUserID
<1>4. CASE Customer!UpdateByUserID(r)
  <2>1. CASE At(r, "update") /\ Customer!RecordsOf(User(r)) = {}
    BY <1>4, <2>1 DEF Customer!UpdateByUserID
  <2>2. CASE At(r, "update") /\ Customer!RecordsOf(User(r)) # {}
    <3>1. PICK k \in Customer!RecordsOf(User(r)) :
              call' = [call EXCEPT ![r].pc = "save", ![r].key = k,
                                   ![r].row = [rows[k] EXCEPT !.fields = @ \cup Row(r).given]]
      BY <1>4, <2>2 DEF Customer!UpdateByUserID
    <3> DEFINE c == [rows[k] EXCEPT !.fields = @ \cup Row(r).given]
    <3>2. c \in Customer!Records /\ c.owner = User(r) /\ rows[k].owner = User(r)
      BY <2>2
    <3>3. Customer!Same /\ call' = [call EXCEPT ![r].pc = "save", ![r].key = k, ![r].row = c]
      BY <1>4, <2>2, <3>1 DEF Customer!UpdateByUserID
    <3> HIDE DEF Customer!Records, c
    <3>4. QED
      BY <2>2, <3>2, <3>3
  <2>3. CASE At(r, "save") /\ Customer!Save(r)
    BY <2>3 DEF Customer!Save
  <2>4. QED
    BY <1>4, <2>1, <2>2, <2>3 DEF Customer!UpdateByUserID
<1>5. CASE Customer!GetByID(r)
  BY <1>5 DEF Customer!GetByID, Customer!Get
<1>6. CASE Customer!ListPage(r)
  BY <1>6 DEF Customer!ListPage
<1>7. CASE Fail(r) \/ Reply(r)
  BY <1>7 DEF Fail, Reply, Idle, Answered
<1>8. QED
  BY <1>1, <1>2, <1>3, <1>4, <1>5, <1>6, <1>7 DEF Customer!Next, Customer!Repository

\* Every call of card-service keeps its invariant.
LEMMA CardStep ==
    ASSUME CardInv, NEW r \in Requests, Card!Next(r) \/ Fail(r) \/ Reply(r)
    PROVE  CardInv' /\ service' = service
<1> USE DEF CardInv, Shape, Fields, Holds, AskedBy, At, User, Key, Row, AnswersOwn, Own,
    CopiesAreOwn, Card!At, Card!Goto, Card!Answer, Card!Refuse, Card!Same, Card!OnlyRows,
    Card!Receive, Card!Exists, Card!User, Card!Key, Card!Row, Card!Put, Card!Own, Card!Cards
<1>1. CASE Card!Request(r)
  BY <1>1 DEF Card!Request, Card!Routes, Card!Ask
<1>2. CASE Card!Issue(r)
  BY <1>2 DEF Card!Issue, Card!Insert, Card!FreshIds
<1>3. CASE Card!SetStatus(r)
  BY <1>3 DEF Card!SetStatus, Card!LoadOwn, Card!Load, Card!Save, Card!Anyone
<1>4. CASE Card!At(r, "list") /\ Card!SelectOwn(r)
  BY <1>4 DEF Card!SelectOwn, Card!Select
<1>5. CASE Fail(r) \/ Reply(r)
  BY <1>5 DEF Fail, Reply, Idle, Answered
<1>6. QED
  BY <1>1, <1>2, <1>3, <1>4, <1>5 DEF Card!Next, Card!Repository

\* The instance's cardinality is that of FiniteSets.
LEMMA SupportCardinality == Support!Cardinality(DOMAIN rows) = Cardinality(DOMAIN rows)
BY DEF Support!Cardinality, Cardinality

\* Every call of support-service keeps its invariant.
LEMMA SupportStep ==
    ASSUME SupportInv, NEW r \in Requests, Support!Next(r) \/ Fail(r) \/ Reply(r)
    PROVE  SupportInv' /\ service' = service
<1> DEFINE Rest == UNCHANGED <<service, rows, outside>>
           Inv == SupportInv' /\ service' = service
<1> USE DEF Support!Same, Support!OnlyRows
<1>0. Shape
  BY DEF SupportInv
  \* What disturbs the invariant, in terms of the calls and the rows.
<1>1. ASSUME Moves(r), Rest, call'[r].pc \in {"refused", "failed", "idle", "list", "get"}
      PROVE  Inv
  BY <1>1 DEF SupportInv, Moves, Holds, AskedBy, AnswersOwn, At, Own, User, Row
<1>2. ASSUME Moves(r), Rest, call'[r].pc = "open", User(r)' \in Customers
      PROVE  Inv
  BY <1>2 DEF SupportInv, Moves, Holds, AskedBy, AnswersOwn, At, Own, User, Row
<1>3. ASSUME Moves(r), Rest, call'[r].pc \in {"get", "resolve", "reopen", "list all"},
             User(r)' = Staff
      PROVE  Inv
  BY <1>3 DEF SupportInv, Moves, Holds, AskedBy, AnswersOwn, At, Own, User, Row
<1>4. ASSUME Moves(r), Rest, call'[r].pc = "answered", User(r)' = User(r),
             User(r) # Staff => \A row \in call'[r].answer : Own(r, row)
      PROVE  Inv
  BY <1>4 DEF SupportInv, Moves, Holds, AskedBy, AnswersOwn, At, Own, User, Row
<1>5. ASSUME Moves(r), call'[r].pc = "answered", User(r)' = User(r),
             NEW k, NEW t \in Support!Tickets, call'[r].answer = {t},
             User(r) # Staff => Own(r, t),
             rows' = Put(k, t), service' = service
      PROVE  Inv
  <2>1. IsFiniteSet(DOMAIN rows')
    BY <1>5, FS_AddElement DEF SupportInv, Put
  <2>2. Holds(Support!Tickets, {"update"})'
    BY <1>5 DEF SupportInv, Moves, Holds, Row, Put
  <2>3. QED
    BY <1>5, <2>1, <2>2 DEF SupportInv, Moves, AskedBy, AnswersOwn, At, Own, User
  \* The steps.
<1>6. CASE Support!Request(r)
  <2>1. ASSUME NEW op, NEW user, NEW key, NEW row, Support!Receive(r, op, user, key, row)
        PROVE  Moves(r) /\ Rest /\ call'[r].pc = op /\ User(r)' = user
    <3>1. Receive(r, op, user, key, row)
      BY <2>1 DEF Support!Receive, Receive, Support!At, At
    <3>2. QED
      BY <1>0, <3>1, ReceiveMoves
  <2>2. CASE Support!Routes(r, {"open", "list"}, {"get"})
    BY <1>1, <1>2, <2>1, <2>2 DEF Support!Routes, Support!Ask
  <2>3. CASE Support!StaffRoutes(r, {}, {"get", "resolve", "reopen"})
    BY <1>3, <2>1, <2>3 DEF Support!StaffRoutes, Support!Ask
  <2>4. CASE \E limit \in Support!Limits :
                 Support!Receive(r, "list all", Staff, None, [limit |-> limit])
    BY <1>3, <2>1, <2>4
  <2>5. QED
    BY <1>6, <2>2, <2>3, <2>4 DEF Support!Request
<1>7. ASSUME NEW found, Support!Answer(r, found)
      PROVE  /\ Moves(r) /\ call'[r].pc = "answered" /\ call'[r].answer = found
             /\ User(r)' = User(r)
  BY <1>0, <1>7, AnswerMoves DEF Support!Answer, Answer
<1>8. CASE Support!Refuse(r) /\ Rest
  BY <1>0, <1>1, <1>8, OverMoves DEF Support!Refuse, Refuse
<1>9. CASE Support!Open(r)
  <2> DEFINE t == [owner |-> User(r), status |-> "OPEN", at |-> Support!Cardinality(DOMAIN rows)]
  <2>1. PICK i \in Support!FreshIds : rows' = Put(i, t)
    BY <1>9 DEF Support!Open, Support!Insert, Support!User, User, Support!Put, Put
  <2>2. Support!Answer(r, {t}) /\ At(r, "open") /\ service' = service
    BY <1>9 DEF Support!Open, Support!Insert, Support!User, User, Support!At, At
  <2>3. User(r) \in Customers /\ Support!Cardinality(DOMAIN rows) \in Nat
    BY <2>2, FS_CardinalityType, SupportCardinality DEF SupportInv, AskedBy, At
  <2>4. t \in Support!Tickets /\ Own(r, t)
    BY <2>3 DEF Support!Tickets, Own
  <2> HIDE DEF t
  <2>5. QED
    BY <1>5, <1>7, <2>1, <2>2, <2>4
<1>10. CASE Support!GetOwned(r)
  <2>1. CASE Support!Refuse(r)
    BY <1>8, <1>10, <2>1 DEF Support!GetOwned, Support!GetOwnOrAsStaff, Support!Get
  <2>2. CASE Support!Answer(r, {rows[Key(r)]}) /\ (Own(r, rows[Key(r)]) \/ User(r) = Staff)
    BY <1>4, <1>7, <1>10, <2>2 DEF Support!GetOwned, Support!GetOwnOrAsStaff, Support!Get
  <2>3. QED
    BY <1>10, <2>1, <2>2
       DEF Support!GetOwned, Support!GetOwnOrAsStaff, Support!Get, Support!Key, Key,
           Support!Own, Own, Support!User, User
<1>11. CASE Support!ListAll(r)
  <2>1. User(r) = Staff
    BY <1>11 DEF Support!ListAll, Support!At, SupportInv, AskedBy
  <2>2. QED
    BY <1>4, <1>7, <1>11, <2>1 DEF Support!ListAll, Support!Select
<1>12. CASE Support!At(r, "list") /\ Support!SelectOwn(r)
  BY <1>4, <1>7, <1>12
     DEF Support!SelectOwn, Support!Select, Support!Own, Own, Support!User, User
<1>13. CASE Support!UpdateStatus(r)
  <2>1. ASSUME NEW op \in {"resolve", "reopen"}, At(r, op), Rest, Exists(Key(r)),
               NEW status \in {"RESOLVED", "OPEN"},
               Goto(r, "update", [rows[Key(r)] EXCEPT !.status = status])
        PROVE  Inv
    <3> DEFINE t == [rows[Key(r)] EXCEPT !.status = status]
    <3>1. t \in Support!Tickets /\ User(r) = Staff
      BY <2>1 DEF SupportInv, Holds, AskedBy, Support!Tickets, Exists, At
    <3>2. Moves(r) /\ call'[r].pc = "update" /\ Row(r)' = t /\ User(r)' = User(r)
      BY <1>0, <2>1, GotoMoves DEF Row
    <3> HIDE DEF t
    <3>3. QED
      BY <2>1, <3>1, <3>2 DEF SupportInv, Moves, Holds, AskedBy, AnswersOwn, At, Own, User, Row
  <2>2. ASSUME NEW op \in {"resolve", "reopen"}, At(r, op), Rest, Exists(Key(r)),
               Support!Goto(r, "update", [rows[Key(r)] EXCEPT !.status =
                   IF op = "resolve" THEN "RESOLVED" ELSE "OPEN"])
        PROVE  Inv
    BY <2>1, <2>2 DEF Support!Goto, Goto
  <2>3. CASE Support!At(r, "update") /\ Support!Save(r)
    <3>1. Row(r) \in Support!Tickets /\ User(r) = Staff
      BY <2>3 DEF SupportInv, Holds, AskedBy, Support!At
    <3>2. CASE Support!Refuse(r) /\ rows' = rows
      BY <1>8, <2>3, <3>2 DEF Support!Save
    <3>3. CASE rows' = Put(Key(r), Row(r)) /\ Support!Answer(r, {Row(r)})
      BY <1>5, <1>7, <2>3, <3>1, <3>3 DEF Support!Save
    <3>4. QED
      BY <2>3, <3>2, <3>3
         DEF Support!Save, Support!Put, Put, Support!Key, Key, Support!Row, Row
  <2>4. CASE \E op \in {"resolve", "reopen"} : At(r, op) /\ Rest /\ Support!Refuse(r)
    BY <1>8, <2>4
  <2>5. QED
    BY <1>13, <2>2, <2>3, <2>4
       DEF Support!UpdateStatus, Support!Load, Support!Anyone, Support!Exists, Exists,
           Support!Key, Key, Support!At, At
<1>14. CASE Fail(r) \/ Reply(r)
  BY <1>0, <1>1, <1>14, OverMoves DEF Fail, Reply
<1>15. QED
  BY <1>6, <1>9, <1>10, <1>11, <1>12, <1>13, <1>14 DEF Support!Next, Support!Repository

\* Every call of beneficiary-service keeps its invariant.
LEMMA BeneficiaryStep ==
    ASSUME BeneficiaryInv, NEW r \in Requests, Beneficiary!Next(r) \/ Fail(r) \/ Reply(r)
    PROVE  BeneficiaryInv' /\ service' = service
<1> USE DEF BeneficiaryInv, Shape, Fields, Holds, AskedBy, At, User, Key, Row, AnswersOwn,
    Own, Beneficiary!At, Beneficiary!Goto, Beneficiary!Answer, Beneficiary!Refuse,
    Beneficiary!Same, Beneficiary!OnlyRows, Beneficiary!Receive, Beneficiary!Exists,
    Beneficiary!User, Beneficiary!Key, Beneficiary!Row, Beneficiary!Own,
    Beneficiary!Beneficiaries
<1>1. CASE Beneficiary!Request(r)
  BY <1>1 DEF Beneficiary!Request, Beneficiary!Routes, Beneficiary!Ask
<1>2. CASE Beneficiary!Add(r)
  BY <1>2 DEF Beneficiary!Add, Beneficiary!Insert, Beneficiary!FreshIds, Beneficiary!Put
<1>3. CASE Beneficiary!GetOwned(r)
  BY <1>3 DEF Beneficiary!GetOwned, Beneficiary!GetOwn, Beneficiary!Get
<1>4. CASE Beneficiary!DeleteOwned(r)
  BY <1>4 DEF Beneficiary!DeleteOwned, Beneficiary!LoadOwn, Beneficiary!Load,
        Beneficiary!Anyone, Beneficiary!Unchanged, Beneficiary!Delete
<1>5. CASE Beneficiary!At(r, "list") /\ Beneficiary!SelectOwn(r)
  BY <1>5 DEF Beneficiary!SelectOwn, Beneficiary!Select
<1>6. CASE Fail(r) \/ Reply(r)
  BY <1>6 DEF Fail, Reply, Idle, Answered
<1>7. QED
  BY <1>1, <1>2, <1>3, <1>4, <1>5, <1>6 DEF Beneficiary!Next, Beneficiary!Repository

\* Every call of profile-service keeps its invariant.
LEMMA ProfileStep ==
    ASSUME ProfileInv, NEW r \in Requests, Profile!Next(r) \/ Fail(r) \/ Reply(r)
    PROVE  ProfileInv' /\ service' = service
<1> USE DEF ProfileInv, Shape, Fields, Holds, AskedBy, At, User, Key, Row, AnswersOwn, Own,
    CopiesAreOwn, Profile!At, Profile!Goto, Profile!Answer, Profile!Refuse, Profile!Same,
    Profile!OnlyRows, Profile!Receive, Profile!Exists, Profile!User, Profile!Key,
    Profile!Row, Profile!Own, Profile!Profiles
<1>1. CASE Profile!Request(r)
  BY <1>1 DEF Profile!Request
<1>2. CASE Profile!At(r, "me") /\ Profile!GetOwn(r)
  BY <1>2 DEF Profile!GetOwn, Profile!Get
<1>3. CASE Profile!At(r, "put") /\ Profile!Upsert(r)
  BY <1>3 DEF Profile!Upsert, Profile!Put
<1>4. CASE Fail(r) \/ Reply(r)
  BY <1>4 DEF Fail, Reply, Idle, Answered
<1>5. QED
  BY <1>1, <1>2, <1>3, <1>4 DEF Profile!Next, Profile!Repository

\* Every call of admin-service keeps its invariant.
LEMMA AdminStep ==
    ASSUME AdminInv, NEW r \in Requests, Admin!Next(r) \/ Fail(r) \/ Reply(r)
    PROVE  AdminInv' /\ service' = service
<1> USE DEF AdminInv, Shape, Fields, Holds, AskedBy, At, User, Key, Row, Admin!At,
    Admin!Goto, Admin!Answer, Admin!Refuse, Admin!Same, Admin!OnlyRows, Admin!Receive,
    Admin!Exists, Admin!User, Admin!Key, Admin!Row, Admin!Settings, Admin!Values
<1>1. CASE Admin!Request(r)
  BY <1>1 DEF Admin!Request, Admin!Routes, Admin!Ask
<1>2. CASE Admin!Seed
  BY <1>2, MaxCountAssumption DEF Admin!Seed, Admin!Default, Admin!Put
<1>3. CASE Admin!Set(r)
  BY <1>3 DEF Admin!Set, Admin!Put, Admin!Get
<1>4. CASE Admin!At(r, "list") /\ Admin!Select(r, Admin!Anyone)
  BY <1>4 DEF Admin!Select
<1>5. CASE Fail(r) \/ Reply(r)
  BY <1>5 DEF Fail, Reply, Idle, Answered
<1>6. QED
  BY <1>1, <1>2, <1>3, <1>4, <1>5 DEF Admin!Next, Admin!Repository

\* Total is the sum of SumLemmas, of what each transaction has added.
LEMMA TotalIsSum ==
    ASSUME NEW T, IsFiniteSet(T)
    PROVE  Total(T) = Sum([t \in T |-> Wallet!Credited(t)], T)
<1> DEFINE h == [t \in T |-> Wallet!Credited(t)]
           P(j) == j = [s \in SUBSET T |->
                           IF s = {} THEN 0 ELSE Wallet!Credited(Pick(s)) + j[s \ {Pick(s)}]]
<1>1. ASSUME NEW j PROVE P(j) <=> Sums(h, T, j)
  <2>1. \A s \in SUBSET T : s # {} => h[Pick(s)] = Wallet!Credited(Pick(s))
    BY PickIn
  <2>2. [s \in SUBSET T |-> IF s = {} THEN 0 ELSE Wallet!Credited(Pick(s)) + j[s \ {Pick(s)}]]
        = [s \in SUBSET T |-> IF s = {} THEN 0 ELSE h[Pick(s)] + j[s \ {Pick(s)}]]
    BY <2>1
  <2>3. QED
    BY <2>2 DEF Sums
<1>2. Total(T) = (CHOOSE j : P(j))[T]
  BY DEF Total, Wallet!MapThenSumSet, Wallet!MapThenFoldSet, Pick
<1> HIDE DEF P, h
<1>3. PICK it : Sums(h, T, it) /\ Sum(h, T) = it[T]
  BY SumIs
<1>4. P(CHOOSE j : P(j))
  BY <1>1, <1>3
<1>5. (CHOOSE j : P(j))[T] = it[T]
  BY <1>1, <1>3, <1>4, SumsAgree
<1>6. QED
  BY <1>2, <1>3, <1>5 DEF h

\* No transaction, no balance.
LEMMA TotalNone == Total({}) = 0
BY TotalIsSum, SumEmpty, FS_EmptySet

\* A transaction of a new key adds what it is credited with.
LEMMA TotalAdd ==
    ASSUME NEW T, IsFiniteSet(T), NEW t, t \notin T, \A u \in T \cup {t} : Wallet!Credited(u) \in Int
    PROVE  Total(T \cup {t}) = Total(T) + Wallet!Credited(t)
<1> DEFINE h == [u \in T \cup {t} |-> Wallet!Credited(u)]
           k == [u \in T |-> Wallet!Credited(u)]
<1>1. IsFiniteSet(T \cup {t})
  BY FS_AddElement
<1>2. Total(T \cup {t}) = Sum(h, T \cup {t}) /\ Total(T) = Sum(k, T)
  BY <1>1, TotalIsSum
<1>3. /\ \A u \in T \cup {t} : h[u] \in Int
      /\ \A u \in T : h[u] = k[u]
      /\ h[t] = Wallet!Credited(t)
  OBVIOUS
<1> HIDE DEF h, k
<1>4. Sum(h, T \cup {t}) = Sum(h, T) + h[t]
  <2>1. \A u \in T \cup {t} : h[u] \in Int
    BY <1>3
  <2>2. QED
    BY <2>1, SumAdd
<1>5. Sum(h, T) = Sum(k, T)
  BY <1>3, SumAgree
<1>6. QED
  BY <1>2, <1>3, <1>4, <1>5

\* What the column of the balance stores is the balance before and what the transaction
\* is credited with.
LEMMA CreditedIs ==
    ASSUME NEW b \in Int, Wallet!Whole(b, Unit), NEW t, t.amount \in Int, b + t.amount >= 0
    PROVE  /\ Wallet!Stored(b + t.amount, Unit) = b + Wallet!Credited(t)
           /\ Wallet!Whole(b + Wallet!Credited(t), Unit)
           /\ b + Wallet!Credited(t) >= 0
<1>0. Unit \in Nat \ {0}
  BY AmountAssumption
<1>1. PICK d \in Int : d = t.amount
  OBVIOUS
<1>2. Wallet!Stored(d, Unit) = Stored(d, Unit) /\ Wallet!Stored(b + d, Unit) = Stored(b + d, Unit)
  BY DEF Wallet!Stored, Stored
<1>3. Wallet!Credited(t)
      = Stored(d, Unit) + IF d < 0 /\ (2 * d) % (2 * Unit) = Unit THEN Unit ELSE 0
  BY <1>1, <1>2 DEF Wallet!Credited, Wallet!Recorded, Wallet!HalfSpend
<1>4. Whole(b, Unit)
  BY DEF Wallet!Whole, Whole
<1>5. Stored(b + d, Unit)
      = b + (Stored(d, Unit) + IF d < 0 /\ (2 * d) % (2 * Unit) = Unit THEN Unit ELSE 0)
  BY <1>0, <1>1, <1>4, StoredSum
<1>6. PICK z \in Int : z = Stored(b + d, Unit) /\ Whole(z, Unit)
  BY <1>0, StoredNear
<1>7. 0 <= z
  <2>1. Whole(0, Unit) /\ 0 <= b + d
    BY <1>0, <1>1 DEF Whole
  <2>2. QED
    BY <1>0, <1>6, <2>1, StoredAbove
<1>8. z = b + Wallet!Credited(t)
  BY <1>3, <1>5, <1>6
<1>9. QED
  BY <1>1, <1>2, <1>6, <1>7, <1>8 DEF Wallet!Whole, Whole

LEMMA CreditedType ==
    ASSUME NEW t, t.amount \in Int
    PROVE  Wallet!Credited(t) \in Int
<1>1. Unit \in Nat \ {0}
  BY AmountAssumption
<1>2. PICK z \in Int : z = Stored(t.amount, Unit)
  BY <1>1, StoredNear
<1>3. Wallet!Credited(t) = z + IF Wallet!HalfSpend(t) THEN Unit ELSE 0
  BY <1>2 DEF Wallet!Credited, Wallet!Recorded, Wallet!Stored, Stored
<1>4. QED
  BY <1>1, <1>3

\* Every call of wallet-service keeps its invariant.
LEMMA WalletStep ==
    ASSUME WalletInv, NEW r \in Requests, Wallet!Next(r) \/ Fail(r) \/ Reply(r)
    PROVE  WalletInv' /\ service' = service
<1> DEFINE Inv == WalletInv' /\ service' = service
           Txn == [key : Ids, amount : Int]
           Asking == {"topup", "replay", "apply"}
<1> USE DEF Wallet!Same, Wallet!OnlyRows
<1>0. Shape
  BY DEF WalletInv
<1>1. ASSUME Moves(r), service' = service, Keyed',
             \A u \in DOMAIN rows' : /\ rows'[u] \in Wallet!Wallets
                                     /\ rows'[u].owner = u /\ Balanced(rows'[u]),
             call'[r].pc \in Asking =>
                 Key(r)' = User(r)' /\ User(r)' \in Customers /\ Row(r)' \in Txn,
             call'[r].pc = "answered" /\ User(r)' # Staff =>
                 \A row \in call'[r].answer : row.owner = User(r)'
      PROVE  Inv
  <2>1. Holds(Wallet!Wallets, {})'
    BY <1>1, HoldsMoves DEF WalletInv
  <2>2. AnswersOwn'
    BY <1>1, AnswersMoves DEF WalletInv
  <2>3. \A q \in Requests : call'[q].pc \in Asking =>
            Key(q)' = User(q)' /\ User(q)' \in Customers /\ Row(q)' \in Txn
    BY <1>1 DEF WalletInv, Moves, Key, User, Row
  <2>4. \A u \in DOMAIN rows' : rows'[u].owner = u /\ Balanced(rows'[u])
    BY <1>1
  <2>5. QED
    BY <1>1, <2>1, <2>2, <2>3, <2>4 DEF WalletInv, Moves, Balanced
<1> SUFFICES Inv
  OBVIOUS
<1> HIDE DEF Inv, Txn, Asking
<1>2. \A u \in DOMAIN rows : rows[u] \in Wallet!Wallets /\ rows[u].owner = u /\ Balanced(rows[u])
  BY DEF WalletInv, Holds
<1>3. ASSUME Moves(r), UNCHANGED <<service, rows, outside>>,
             call'[r].pc \in Asking =>
                 Key(r)' = User(r)' /\ User(r)' \in Customers /\ Row(r)' \in Txn,
             call'[r].pc = "answered" /\ User(r)' # Staff =>
                 \A row \in call'[r].answer : row.owner = User(r)'
      PROVE  Inv
  <2>1. Keyed'
    BY <1>3 DEF WalletInv, Keyed, Wallet!UsedKeys, Wallet!Txns
  <2>2. QED
    BY <1>1, <1>2, <1>3, <2>1
<1>4. CASE (Wallet!Refuse(r) \/ Fail(r) \/ Reply(r)) /\ UNCHANGED <<service, rows, outside>>
  <2>1. Moves(r) /\ call'[r].pc \in {"refused", "failed", "idle"}
    BY <1>0, <1>4, OverMoves DEF Wallet!Refuse, Refuse
  <2>2. QED
    BY <1>3, <1>4, <2>1 DEF Asking
<1>5. ASSUME NEW found, Wallet!Answer(r, found)
      PROVE  /\ Moves(r) /\ call'[r].pc = "answered" /\ call'[r].answer = found
             /\ User(r)' = User(r)
  BY <1>0, <1>5, AnswerMoves DEF Wallet!Answer, Answer
<1>6. ASSUME NEW found, Wallet!Answer(r, found), Wallet!Same,
             \A row \in found : row.owner = User(r)
      PROVE  Inv
  <2>1. /\ Moves(r) /\ call'[r].pc = "answered" /\ call'[r].answer = found
        /\ User(r)' = User(r)
    BY <1>5, <1>6
  <2>2. QED
    BY <1>3, <1>6, <2>1 DEF Asking
<1>7. ASSUME NEW pc, NEW row, Wallet!Goto(r, pc, row)
      PROVE  /\ Moves(r) /\ call'[r].pc = pc /\ Row(r)' = row
             /\ User(r)' = User(r) /\ Key(r)' = Key(r)
  BY <1>0, <1>7, GotoMoves DEF Wallet!Goto, Goto, Row
<1>8. ASSUME call[r].pc \in Asking
      PROVE  Key(r) = User(r) /\ User(r) \in Customers /\ Row(r) \in Txn
  BY <1>8 DEF WalletInv, Asking, Txn
<1>9. CASE Wallet!Request(r)
  <2>1. ASSUME NEW op, op # "answered", NEW user, NEW row,
               Wallet!Receive(r, op, user, user, row),
               op \in Asking => user \in Customers /\ row \in Txn
        PROVE  Inv
    <3>1. Receive(r, op, user, user, row)
      BY <2>1 DEF Wallet!Receive, Receive, Wallet!At, At
    <3>2. /\ Moves(r) /\ UNCHANGED <<service, rows, outside>> /\ call'[r].pc = op
          /\ User(r)' = user /\ Key(r)' = user /\ Row(r)' = row
      BY <1>0, <3>1, ReceiveMoves
    <3>3. QED
      BY <1>3, <2>1, <3>2
  <2>2. ASSUME NEW k \in Ids, NEW n \in Asked
        PROVE  [key |-> k, amount |-> n] \in Txn /\ [key |-> k, amount |-> -n] \in Txn
    BY <2>2, AmountAssumption DEF Txn
  <2>3. "topup" \in Asking /\ "replay" \in Asking
    BY DEF Asking
  <2>4. PICK u \in Customers :
            \/ \E op \in {"balance", "history"} : Wallet!Receive(r, op, u, u, None)
            \/ \E k \in Ids, n \in Asked :
                   \/ Wallet!Receive(r, "topup", u, u, [key |-> k, amount |-> n])
                   \/ Wallet!Receive(r, "replay", u, u, [key |-> k, amount |-> -n])
    BY <1>9 DEF Wallet!Request
  <2>5. CASE \E op \in {"balance", "history"} : Wallet!Receive(r, op, u, u, None)
    <3>1. PICK op \in {"balance", "history"} : Wallet!Receive(r, op, u, u, None)
      BY <2>5
    <3>2. op # "answered" /\ op \notin Asking
      BY DEF Asking
    <3>3. QED
      BY <2>1, <3>1, <3>2
  <2>6. CASE \E k \in Ids, n \in Asked :
                 \/ Wallet!Receive(r, "topup", u, u, [key |-> k, amount |-> n])
                 \/ Wallet!Receive(r, "replay", u, u, [key |-> k, amount |-> -n])
    <3>1. PICK op \in Asking, row \in Txn : Wallet!Receive(r, op, u, u, row)
      BY <2>2, <2>3, <2>6
    <3>2. op # "answered"
      BY DEF Asking
    <3>3. QED
      BY <2>1, <3>1, <3>2
  <2>7. QED
    BY <2>4, <2>5, <2>6
<1>10. CASE Wallet!Ensure(r)
  <2> DEFINE w == [owner |-> User(r), balance |-> 0, txns |-> {}]
  <2>1. /\ At(r, "topup") /\ UNCHANGED <<service, outside>>
        /\ rows' = IF Exists(Key(r)) THEN rows ELSE Put(Key(r), w)
        /\ Wallet!Goto(r, "replay", Row(r))
    BY <1>10 DEF Wallet!Ensure, Wallet!At, At, Wallet!Exists, Exists, Wallet!Put, Put,
          Wallet!Key, Key, Wallet!User, User, Wallet!Row, Row
  <2>2. Key(r) = User(r) /\ User(r) \in Customers /\ Row(r) \in Txn
    BY <1>8, <2>1 DEF At, Asking
  <2>3. w \in Wallet!Wallets /\ w.owner = Key(r) /\ w.txns = {} /\ Balanced(w)
    BY <2>2, TotalNone, FS_EmptySet, AmountAssumption DEF Balanced, Wallet!Wallets, Wallet!Whole
  <2> HIDE DEF w
  <2>4. /\ DOMAIN rows \subseteq DOMAIN rows'
        /\ \A u \in DOMAIN rows : rows'[u] = rows[u]
        /\ \A u \in DOMAIN rows' \ DOMAIN rows : u = Key(r) /\ rows'[u] = w
    BY <2>1 DEF Put, Exists
  <2>5. Wallet!Txns' = Wallet!Txns
    BY <2>3, <2>4 DEF Wallet!Txns
  <2>6. Keyed'
    BY <2>1, <2>5 DEF WalletInv, Keyed, Wallet!UsedKeys
  <2>7. \A u \in DOMAIN rows' : /\ rows'[u] \in Wallet!Wallets
                                /\ rows'[u].owner = u /\ Balanced(rows'[u])
    BY <1>2, <2>3, <2>4
  <2>8. /\ Moves(r) /\ call'[r].pc = "replay" /\ Row(r)' = Row(r)
        /\ User(r)' = User(r) /\ Key(r)' = Key(r)
    BY <1>7, <2>1
  <2>9. QED
    BY <1>1, <2>1, <2>2, <2>6, <2>7, <2>8
<1>11. CASE Wallet!Replay(r)
  <2>1. Key(r) = User(r) /\ User(r) \in Customers /\ Row(r) \in Txn
    BY <1>8, <1>11 DEF Wallet!Replay, Wallet!At, Asking
  <2>2. CASE Wallet!Goto(r, "balance", None)
    <3>1. Moves(r) /\ call'[r].pc = "balance"
      BY <1>7, <2>2
    <3>2. QED
      BY <1>3, <1>11, <3>1 DEF Wallet!Replay, Asking
  <2>3. CASE Wallet!Goto(r, "apply", Row(r))
    <3>1. /\ Moves(r) /\ call'[r].pc = "apply" /\ Row(r)' = Row(r)
          /\ User(r)' = User(r) /\ Key(r)' = Key(r)
      BY <1>7, <2>3
    <3>2. QED
      BY <1>3, <1>11, <2>1, <3>1 DEF Wallet!Replay
  <2>4. QED
    BY <1>11, <2>2, <2>3 DEF Wallet!Replay, Wallet!Row, Row
<1>12. CASE Wallet!Apply(r)
  <2> DEFINE u == Key(r)
             t == Row(r)
             old == rows[u]
             new == rows'[u]
  <2>1. u = User(r) /\ User(r) \in Customers /\ t \in Txn
    BY <1>8, <1>12 DEF Wallet!Apply, Wallet!At, Asking
  <2>2. CASE Wallet!Refuse(r) /\ UNCHANGED <<rows, outside>>
    BY <1>4, <1>12, <2>2 DEF Wallet!Apply
  <2>3. CASE /\ Exists(u) /\ old.balance + t.amount >= 0 /\ t.key \notin Wallet!UsedKeys
             /\ rows' = [rows EXCEPT ![u].balance = Wallet!Stored(@ + t.amount, Unit),
                                     ![u].txns = @ \cup {t}]
             /\ outside' = outside \cup {t.key}
             /\ Wallet!Answer(r, {new})
    <3>1. service' = service
      BY <1>12 DEF Wallet!Apply
    <3>2. /\ old \in Wallet!Wallets /\ old.owner = u /\ Balanced(old)
          /\ u \in DOMAIN rows
      BY <1>2, <2>3 DEF Exists
    <3>3. /\ DOMAIN rows' = DOMAIN rows
          /\ \A v \in DOMAIN rows \ {u} : rows'[v] = rows[v]
          /\ new = [old EXCEPT !.balance = Wallet!Stored(old.balance + t.amount, Unit),
                               !.txns = old.txns \cup {t}]
      BY <2>3, <3>2
    <3>c. PICK c \in Int : /\ c = Wallet!Credited(t)
                            /\ Wallet!Stored(old.balance + t.amount, Unit) = old.balance + c
                            /\ Wallet!Whole(old.balance + c, Unit) /\ old.balance + c >= 0
      <4>1. PICK b \in Int : b = old.balance /\ Wallet!Whole(b, Unit)
        BY <3>2 DEF Balanced, Wallet!Wallets
      <4>2. t.amount \in Int /\ b + t.amount >= 0
        BY <2>1, <2>3, <4>1 DEF Txn
      <4> HIDE DEF t, old
      <4>3. QED
        BY <4>1, <4>2, CreditedIs, CreditedType
    <3>4. /\ new \in Wallet!Wallets /\ new.owner = u
          /\ new.balance = old.balance + c /\ new.txns = old.txns \cup {t}
      <4>1. old.balance \in Int /\ old.txns \in SUBSET Txn /\ t \in Txn /\ t.amount \in Int
        BY <2>1, <3>2 DEF Wallet!Wallets, Txn
      <4>2. old \in [owner : Customers, balance : Int, txns : SUBSET Txn]
        BY <3>2 DEF Wallet!Wallets, Txn
      <4>3. /\ new \in [owner : Customers, balance : Int, txns : SUBSET Txn]
            /\ new.owner = old.owner
            /\ new.balance = old.balance + c /\ new.txns = old.txns \cup {t}
        <5> HIDE DEF new, old, t
        <5>1. new \in [owner : Customers, balance : Int, txns : SUBSET Txn]
          <6> DEFINE b == old.balance + c
                     x == old.txns \cup {t}
          <6>1. new = [old EXCEPT !.balance = b, !.txns = x]
            BY <3>3, <3>c
          <6>2. b \in Int /\ x \in SUBSET Txn
            BY <4>1
          <6> HIDE DEF b, x
          <6>3. QED
            BY <4>2, <6>1, <6>2
        <5>2. new.owner = old.owner
          BY <3>3, <4>2
        <5>3. new.balance = old.balance + c
          BY <3>3, <3>c, <4>2
        <5>4. new.txns = old.txns \cup {t}
          BY <3>3, <4>2
        <5>5. QED
          BY <5>1, <5>2, <5>3, <5>4
      <4>4. QED
        BY <3>2, <4>3 DEF Wallet!Wallets, Txn
    <3>5. t \notin Wallet!Txns /\ old.txns \subseteq Wallet!Txns
      BY <2>3, <3>2 DEF Wallet!UsedKeys, Wallet!Txns
    <3>6. /\ old.txns \subseteq Txn /\ IsFiniteSet(old.txns)
          /\ old.balance = Total(old.txns)
      BY <3>2 DEF Balanced, Wallet!Wallets, Txn
    <3>7. Total(new.txns) = Total(old.txns) + c
      <4>1. \A x \in old.txns \cup {t} : Wallet!Credited(x) \in Int
        BY <2>1, <3>6, CreditedType DEF Txn
      <4>2. t \notin old.txns
        BY <3>5
      <4> HIDE DEF t, old, new
      <4>3. QED
        BY <3>4, <3>6, <3>c, <4>1, <4>2, TotalAdd
    <3>8. IsFiniteSet(new.txns)
      BY <3>4, <3>6, FS_AddElement
    <3>9. Balanced(new)
      BY <3>4, <3>6, <3>7, <3>8, <3>c DEF Balanced
    <3>10. Wallet!Txns' = Wallet!Txns \cup {t}
      <4>1. \A x : x \in Wallet!Txns <=> \E v \in DOMAIN rows : x \in rows[v].txns
        BY DEF Wallet!Txns
      <4>2. \A x : x \in Wallet!Txns' <=> \E v \in DOMAIN rows' : x \in rows'[v].txns
        BY DEF Wallet!Txns
      <4>3. \A v \in DOMAIN rows : rows'[v].txns = rows[v].txns \cup (IF v = u THEN {t} ELSE {})
        BY <3>3, <3>4
      <4>4. \A x : x \in Wallet!Txns' <=> x \in Wallet!Txns \/ x = t
        BY <3>2, <3>3, <4>1, <4>2, <4>3
      <4>5. QED
        BY <4>4
    <3>11. Wallet!UsedKeys' = Wallet!UsedKeys \cup {t.key}
      BY <3>10 DEF Wallet!UsedKeys
    <3>12. Keyed'
      <4>1. /\ IsFiniteSet(Wallet!Txns) /\ IsFiniteSet(outside)
            /\ Wallet!UsedKeys = outside /\ Cardinality(Wallet!Txns) = Cardinality(outside)
        BY DEF WalletInv, Keyed
      <4>2. /\ IsFiniteSet(Wallet!Txns \cup {t})
            /\ Cardinality(Wallet!Txns \cup {t}) = Cardinality(Wallet!Txns) + 1
        BY <3>5, <4>1, FS_AddElement
      <4>3. /\ IsFiniteSet(outside \cup {t.key})
            /\ Cardinality(outside \cup {t.key}) = Cardinality(outside) + 1
        BY <2>3, <4>1, FS_AddElement
      <4>4. QED
        BY <2>3, <3>10, <3>11, <4>1, <4>2, <4>3 DEF Keyed
    <3>13. /\ Moves(r) /\ call'[r].pc = "answered" /\ call'[r].answer = {new}
           /\ User(r)' = User(r)
      BY <1>5, <2>3
    <3>14. \A v \in DOMAIN rows' : /\ rows'[v] \in Wallet!Wallets
                                   /\ rows'[v].owner = v /\ Balanced(rows'[v])
      BY <1>2, <3>3, <3>4, <3>9
    <3> HIDE DEF new
    <3>15. QED
      BY <1>1, <2>1, <3>1, <3>4, <3>12, <3>13, <3>14 DEF Asking
  <2>4. QED
    BY <1>12, <2>2, <2>3 DEF Wallet!Apply, Wallet!Exists, Exists, Wallet!Sufficient,
          Wallet!Key, Key, Wallet!Row, Row
<1>13. CASE Wallet!GetOwn(r)
  <2>1. CASE Wallet!Answer(r, {rows[Key(r)]}) /\ rows[Key(r)].owner = User(r)
    BY <1>6, <1>13, <2>1 DEF Wallet!GetOwn, Wallet!Get
  <2>2. QED
    BY <1>4, <1>13, <2>1
       DEF Wallet!GetOwn, Wallet!Get, Wallet!Own, Wallet!User, User, Wallet!Key, Key
<1>14. CASE Wallet!SelectOwn(r)
  BY <1>6, <1>14 DEF Wallet!SelectOwn, Wallet!Select, Wallet!Own, Wallet!User, User
<1>15. CASE Fail(r) \/ Reply(r)
  BY <1>4, <1>15 DEF Fail, Reply
<1>16. QED
  BY <1>9, <1>10, <1>11, <1>12, <1>13, <1>14, <1>15 DEF Wallet!Next, Wallet!Repository

\* Every call of auth-service keeps its invariant.
LEMMA AuthStep ==
    ASSUME AuthInv, NEW r \in Requests, Auth!Next(r) \/ Fail(r) \/ Reply(r)
    PROVE  AuthInv' /\ service' = service
<1> DEFINE Inv == AuthInv' /\ service' = service
<1> USE DEF Auth!Same, Auth!OnlyRows
<1>0. Shape
  BY DEF AuthInv
<1>1. ASSUME Moves(r), service' = service,
             \A k \in DOMAIN rows' : rows'[k] \in Auth!AuthUsers,
             call'[r].pc = "register" => User(r)' \in Customers
      PROVE  Inv
  <2>1. Holds(Auth!AuthUsers, {})'
    BY <1>1, HoldsMoves DEF AuthInv
  <2>2. AskedBy(Customers, {"register"})'
    BY <1>1, AskedByMoves DEF AuthInv
  <2>3. QED
    BY <1>1, <2>1, <2>2 DEF AuthInv, Moves
<1> SUFFICES Inv
  OBVIOUS
<1> HIDE DEF Inv
<1>2. ASSUME Moves(r), service' = service, rows' = rows, call'[r].pc # "register"
      PROVE  Inv
  BY <1>1, <1>2 DEF AuthInv, Holds
<1>3. ASSUME NEW pc, NEW row, Auth!Goto(r, pc, row)
      PROVE  Moves(r) /\ call'[r].pc = pc
  BY <1>0, <1>3, GotoMoves DEF Auth!Goto, Goto
<1>4. ASSUME NEW found, Auth!Answer(r, found)
      PROVE  Moves(r) /\ call'[r].pc = "answered"
  BY <1>0, <1>4, AnswerMoves DEF Auth!Answer, Answer
<1>5. ASSUME Auth!Refuse(r)
      PROVE  Moves(r) /\ call'[r].pc # "register"
  BY <1>0, <1>5, OverMoves DEF Auth!Refuse, Refuse
<1>6. CASE Auth!Request(r)
  <2>1. ASSUME NEW op, NEW user, NEW key, NEW row, Auth!Receive(r, op, user, key, row)
        PROVE  /\ Moves(r) /\ UNCHANGED <<service, rows, outside>>
               /\ call'[r].pc = op /\ User(r)' = user
    <3>1. Receive(r, op, user, key, row)
      BY <2>1 DEF Auth!Receive, Receive, Auth!At, At
    <3>2. QED
      BY <1>0, <3>1, ReceiveMoves
  <2>2. CASE Auth!Routes(r, {"register", "login"}, {})
    <3>1. PICK u \in Customers, q \in ({"register", "login"} \X {None}) \cup ({} \X Ids) :
                 Auth!Receive(r, q[1], u, q[2], None)
      BY <2>2 DEF Auth!Routes, Auth!Ask
    <3>2. QED
      BY <1>1, <2>1, <3>1 DEF AuthInv, Holds
  <2>3. CASE Auth!Present(r, "refresh") \/ Auth!Present(r, "logout")
    <3>1. PICK op \in {"refresh", "logout"} : \E t : Auth!Receive(r, op, t[1], t, None)
      BY <2>3 DEF Auth!Present
    <3>2. PICK t : Auth!Receive(r, op, t[1], t, None)
      BY <3>1
    <3>3. QED
      BY <1>2, <2>1, <3>1, <3>2
  <2>4. QED
    BY <1>6, <2>2, <2>3 DEF Auth!Request
<1>7. CASE Auth!Register(r)
  <2>1. CASE Auth!Refuse(r) /\ UNCHANGED rows
    BY <1>2, <1>5, <1>7, <2>1 DEF Auth!Register
  <2>2. CASE rows' = Put(User(r), [owner |-> User(r)]) /\ Auth!Goto(r, "issue", None)
    <3>1. User(r) \in Customers
      BY <1>7 DEF Auth!Register, Auth!At, At, AuthInv, AskedBy
    <3>2. \A k \in DOMAIN rows' : rows'[k] \in Auth!AuthUsers
      BY <2>2, <3>1 DEF AuthInv, Holds, Put, Auth!AuthUsers
    <3>3. QED
      BY <1>1, <1>3, <1>7, <2>2, <3>2 DEF Auth!Register
  <2>3. QED
    BY <1>7, <2>1, <2>2 DEF Auth!Register, Auth!Put, Put, Auth!User, User
<1>8. CASE Auth!Login(r)
  BY <1>2, <1>3, <1>5, <1>8 DEF Auth!Login
<1>9. CASE Auth!Refresh(r)
  BY <1>2, <1>3, <1>5, <1>9 DEF Auth!Refresh
<1>10. CASE Auth!Logout(r)
  BY <1>2, <1>4, <1>10 DEF Auth!Logout
<1>11. CASE Auth!Issue(r)
  BY <1>2, <1>4, <1>11 DEF Auth!Issue
<1>12. CASE Fail(r) \/ Reply(r)
  BY <1>0, <1>2, <1>12, OverMoves DEF Fail, Reply
<1>13. QED
  BY <1>6, <1>7, <1>8, <1>9, <1>10, <1>11, <1>12 DEF Auth!Next

\* Every call of authz-service keeps its invariant.
LEMMA AuthzStep ==
    ASSUME AuthzInv, NEW r \in Requests, Authz!Next(r) \/ Fail(r) \/ Reply(r)
    PROVE  AuthzInv' /\ service' = service
<1> DEFINE Inv == AuthzInv' /\ service' = service
<1> USE DEF Authz!Same, Authz!OnlyRows
<1>0. Shape
  BY DEF AuthzInv
<1>1. ASSUME Moves(r), service' = service,
             \A k \in DOMAIN rows' : rows'[k] \in Authz!Assignments,
             call'[r].pc = "assign" => Key(r)' \in Customers /\ Row(r)'.role \in Authz!Roles
      PROVE  Inv
  <2>1. Holds(Authz!Assignments, {})'
    BY <1>1, HoldsMoves DEF AuthzInv
  <2>2. \A q \in Requests : At(q, "assign")' => Key(q)' \in Customers /\ Row(q)'.role \in Authz!Roles
    BY <1>1 DEF AuthzInv, Moves, At, Key, Row
  <2>3. QED
    BY <1>1, <2>1, <2>2 DEF AuthzInv, Moves
<1> SUFFICES Inv
  OBVIOUS
<1> HIDE DEF Inv
<1>2. ASSUME Moves(r), UNCHANGED <<service, rows>>, call'[r].pc # "assign"
      PROVE  Inv
  BY <1>1, <1>2 DEF AuthzInv, Holds
<1>3. ASSUME NEW pc, NEW row, Authz!Goto(r, pc, row)
      PROVE  Moves(r) /\ call'[r].pc = pc
  BY <1>0, <1>3, GotoMoves DEF Authz!Goto, Goto
<1>4. ASSUME NEW found, Authz!Answer(r, found)
      PROVE  Moves(r) /\ call'[r].pc = "answered"
  BY <1>0, <1>4, AnswerMoves DEF Authz!Answer, Answer
<1>5. ASSUME Authz!Refuse(r)
      PROVE  Moves(r) /\ call'[r].pc # "assign"
  BY <1>0, <1>5, OverMoves DEF Authz!Refuse, Refuse
<1>6. ASSUME NEW op, NEW user, NEW key, NEW row, Authz!Receive(r, op, user, key, row)
      PROVE  /\ Moves(r) /\ UNCHANGED <<service, rows>> /\ call'[r].pc = op
             /\ Key(r)' = key /\ Row(r)' = row
  <2>1. Receive(r, op, user, key, row)
    BY <1>6 DEF Authz!Receive, Receive, Authz!At, At
  <2>2. QED
    BY <1>0, <2>1, ReceiveMoves
<1>7. CASE Authz!Request(r)
  <2>1. CASE Authz!Routes(r, {"list roles"}, {})
    BY <1>2, <1>6, <2>1 DEF Authz!Routes, Authz!Ask
  <2>2. CASE \E u \in Customers, role \in Authz!Roles :
                 Authz!Receive(r, "assign", Staff, u, [role |-> role])
    <3>1. PICK u \in Customers, role \in Authz!Roles :
                   Authz!Receive(r, "assign", Staff, u, [role |-> role])
      BY <2>2
    <3>2. \A k \in DOMAIN rows' : rows'[k] \in Authz!Assignments
      BY <1>6, <3>1 DEF AuthzInv, Holds
    <3>3. Key(r)' \in Customers /\ Row(r)'.role \in Authz!Roles
      BY <1>6, <3>1
    <3>4. QED
      BY <1>1, <1>6, <3>1, <3>2, <3>3
  <2>3. CASE \E op \in {"roles", "check"} : \E u, row : Authz!Receive(r, op, u, u, row)
    BY <1>2, <1>6, <2>3
  <2>4. QED
    BY <1>7, <2>1, <2>2, <2>3 DEF Authz!Request
<1>8. CASE Authz!AssignRole(r)
  <2>1. /\ Key(r) \in Customers /\ Row(r).role \in Authz!Roles
        /\ Authz!RolesOf(Key(r)) \subseteq Authz!Roles
    BY <1>8 DEF Authz!AssignRole, Authz!At, At, AuthzInv, Holds, Authz!RolesOf,
          Authz!Exists, Authz!Assignments
  <2>2. rows' = Put(Key(r), [owner |-> Key(r), roles |-> Authz!RolesOf(Key(r)) \cup {Row(r).role}])
    BY <1>8 DEF Authz!AssignRole, Authz!Put, Put, Authz!Key, Key, Authz!Row, Row
  <2>3. \A k \in DOMAIN rows' : rows'[k] \in Authz!Assignments
    BY <2>1, <2>2 DEF AuthzInv, Holds, Put, Authz!Assignments
  <2>4. QED
    BY <1>1, <1>4, <1>8, <2>3 DEF Authz!AssignRole
<1>9. CASE Authz!GetRoles(r)
  BY <1>2, <1>4, <1>9 DEF Authz!GetRoles
<1>10. CASE Authz!Check(r)
  BY <1>2, <1>3, <1>4, <1>5, <1>10 DEF Authz!Check
<1>11. CASE Authz!ListRoles(r)
  <2>1. ASSUME NEW row, Authz!Goto(r, "next role", row), Authz!Same
        PROVE  Inv
    <3>1. Moves(r) /\ call'[r].pc = "next role"
      BY <1>3, <2>1
    <3>2. QED
      BY <1>2, <2>1, <3>1
  <2>2. ASSUME NEW found, Authz!Answer(r, found), Authz!Same
        PROVE  Inv
    BY <1>2, <1>4, <2>2
  <2>3. QED
    BY <1>11, <2>1, <2>2 DEF Authz!ListRoles
<1>12. CASE Fail(r) \/ Reply(r)
  BY <1>0, <1>2, <1>12, OverMoves DEF Fail, Reply
<1>13. QED
  BY <1>7, <1>8, <1>9, <1>10, <1>11, <1>12 DEF Authz!Next, Authz!Repository

\* Every call of document-service keeps its invariant.
LEMMA DocumentStep ==
    ASSUME DocumentInv, NEW r \in Requests, Document!Next(r) \/ Fail(r) \/ Reply(r)
    PROVE  DocumentInv' /\ service' = service
<1> DEFINE Inv == DocumentInv' /\ service' = service
<1> USE DEF Document!Same, Document!OnlyRows
<1>0. Shape
  BY DEF DocumentInv
<1>1. ASSUME Moves(r), service' = service, Referred', Removed',
             \A k \in DOMAIN rows' : rows'[k] \in Document!Documents,
             call'[r].pc = "upload" => User(r)' \in Customers,
             call'[r].pc = "answered" /\ User(r)' # Staff =>
                 \A row \in call'[r].answer : row.owner = User(r)'
      PROVE  Inv
  <2>1. Holds(Document!Documents, {})'
    BY <1>1, HoldsMoves DEF DocumentInv
  <2>2. AskedBy(Customers, {"upload"})'
    BY <1>1, AskedByMoves DEF DocumentInv
  <2>3. AnswersOwn'
    BY <1>1, AnswersMoves DEF DocumentInv
  <2>4. QED
    BY <1>1, <2>1, <2>2, <2>3 DEF DocumentInv, Moves
<1> SUFFICES Inv
  OBVIOUS
<1> HIDE DEF Inv
<1>2. ASSUME Moves(r), service' = service, call'[r].pc # "remove row", outside' = outside,
             DOMAIN rows \subseteq DOMAIN rows',
             \A k \in DOMAIN rows' : rows'[k] \in Document!Documents,
             call'[r].pc = "upload" => User(r)' \in Customers,
             call'[r].pc = "answered" /\ User(r)' # Staff =>
                 \A row \in call'[r].answer : row.owner = User(r)'
      PROVE  Inv
  <2>1. Referred'
    BY <1>2 DEF DocumentInv, Referred, Exists
  <2>2. Removed'
    BY <1>2 DEF DocumentInv, Removed, Moves, At, Key
  <2>3. QED
    BY <1>1, <1>2, <2>1, <2>2
<1>3. ASSUME Moves(r), UNCHANGED <<service, rows, outside>>, call'[r].pc # "remove row",
             call'[r].pc = "upload" => User(r)' \in Customers,
             call'[r].pc = "answered" /\ User(r)' # Staff =>
                 \A row \in call'[r].answer : row.owner = User(r)'
      PROVE  Inv
  BY <1>2, <1>3 DEF DocumentInv, Holds
<1>4. ASSUME NEW found, Document!Answer(r, found)
      PROVE  /\ Moves(r) /\ call'[r].pc = "answered" /\ call'[r].answer = found
             /\ User(r)' = User(r) /\ Key(r)' = Key(r)
  BY <1>0, <1>4, AnswerMoves DEF Document!Answer, Answer
<1>5. ASSUME NEW pc, NEW row, Document!Goto(r, pc, row)
      PROVE  Moves(r) /\ call'[r].pc = pc /\ Key(r)' = Key(r)
  BY <1>0, <1>5, GotoMoves DEF Document!Goto, Goto
<1>6. CASE Document!Refuse(r) /\ Document!Same
  <2>1. Moves(r) /\ call'[r].pc \in {"refused", "failed", "idle"}
    BY <1>0, <1>6, OverMoves DEF Document!Refuse, Refuse
  <2>2. QED
    BY <1>3, <1>6, <2>1
<1>7. ASSUME NEW found, Document!Answer(r, found), Document!Same,
              \A row \in found : row.owner = User(r)
       PROVE  Inv
  <2>1. /\ Moves(r) /\ call'[r].pc = "answered" /\ call'[r].answer = found
        /\ User(r)' = User(r)
    BY <1>4, <1>7
  <2>2. QED
    BY <1>3, <1>7, <2>1
<1>8. CASE Document!Request(r)
  <2>1. PICK u \in Customers,
             q \in ({"upload", "list"} \X {None}) \cup ({"download", "delete"} \X Ids) :
                 Document!Receive(r, q[1], u, q[2], None)
    BY <1>8 DEF Document!Request, Document!Routes, Document!Ask
  <2>2. Receive(r, q[1], u, q[2], None)
    BY <2>1 DEF Document!Receive, Receive, Document!At, At
  <2>3. /\ Moves(r) /\ UNCHANGED <<service, rows, outside>>
        /\ call'[r].pc \in {"upload", "list", "download", "delete"} /\ User(r)' = u
    BY <1>0, <2>2, ReceiveMoves
  <2>4. QED
    BY <1>3, <2>3
<1>9. CASE Document!RequestUpload(r)
  <2>1. CASE Document!At(r, "upload")
    <3>1. PICK i \in Document!FreshIds :
              /\ rows' = Put(i, [owner |-> User(r)])
              /\ call' = [call EXCEPT ![r].pc = "presign", ![r].key = i]
              /\ service' = service /\ outside' = outside
      BY <1>9, <2>1 DEF Document!RequestUpload, Document!At, Document!Put, Put,
            Document!User, User
    <3>2. Moves(r) /\ call'[r].pc = "presign"
      BY <1>0, <3>1 DEF Shape, Fields, Moves
    <3>3. User(r) \in Customers
      BY <2>1 DEF DocumentInv, AskedBy, Document!At
    <3>4. /\ DOMAIN rows \subseteq DOMAIN rows'
          /\ \A k \in DOMAIN rows' : rows'[k] \in Document!Documents
      BY <3>1, <3>3 DEF DocumentInv, Holds, Put, Document!Documents
    <3>5. QED
      BY <1>2, <3>1, <3>2, <3>4
  <2>2. CASE Document!At(r, "presign")
    <3> DEFINE a == [owner |-> User(r)]
    <3>1. /\ outside' = outside \cup {<<"url", Key(r)>>}
          /\ Document!Answer(r, {a}) /\ UNCHANGED <<service, rows>>
      BY <1>9, <2>2 DEF Document!RequestUpload, Document!At, Document!Of, Document!Key, Key,
            Document!User, User
    <3>2. a.owner = User(r)
      OBVIOUS
    <3> HIDE DEF a
    <3>3. /\ Moves(r) /\ call'[r].pc = "answered" /\ User(r)' = User(r)
          /\ \A row \in call'[r].answer : row.owner = User(r)'
      BY <1>4, <3>1, <3>2
    <3>4. Referred'
      BY <3>1 DEF DocumentInv, Referred, Document!Of, Exists
    <3>5. Removed'
      BY <3>1, <3>3 DEF DocumentInv, Removed, Document!Of, Moves, At, Key
    <3>6. QED
      BY <1>1, <3>1, <3>3, <3>4, <3>5 DEF DocumentInv, Holds
  <2>3. QED
    BY <1>9, <2>1, <2>2 DEF Document!RequestUpload
<1>10. CASE Document!DownloadURL(r)
  <2>1. CASE Document!Answer(r, {rows[Key(r)]}) /\ rows[Key(r)].owner = User(r)
    BY <1>7, <1>10, <2>1 DEF Document!DownloadURL, Document!GetOwn, Document!Get
  <2>2. QED
    BY <1>6, <1>10, <2>1 DEF Document!DownloadURL, Document!GetOwn, Document!Get,
          Document!Own, Document!User, User, Document!Key, Key
<1>11. CASE Document!DeleteOwned(r)
  <2>1. CASE Document!At(r, "delete")
    <3>1. ASSUME NEW row, Document!Goto(r, "remove object", row), Document!Same
          PROVE  Inv
      <4>1. Moves(r) /\ call'[r].pc = "remove object"
        BY <1>5, <3>1
      <4>2. QED
        BY <1>3, <3>1, <4>1
    <3>2. QED
      BY <1>6, <1>11, <2>1, <3>1
         DEF Document!DeleteOwned, Document!At, Document!LoadOwn, Document!Load
  <2>2. CASE Document!At(r, "remove object")
    <3>1. /\ outside' = outside \ {Document!Of("object", Key(r)), Document!Of("late", Key(r))}
          /\ Document!Goto(r, "remove row", None) /\ UNCHANGED <<service, rows>>
      BY <1>11, <2>2 DEF Document!DeleteOwned, Document!At, Document!Objects, Document!Key, Key
    <3>2. Moves(r) /\ call'[r].pc = "remove row" /\ Key(r)' = Key(r)
      BY <1>5, <3>1
    <3>3. Referred'
      BY <3>1 DEF DocumentInv, Referred, Exists
    <3>4. Removed'
      BY <3>1, <3>2 DEF DocumentInv, Removed, Moves, At, Key
    <3>5. QED
      BY <1>1, <3>1, <3>2, <3>3, <3>4 DEF DocumentInv, Holds
  <2>3. CASE Document!At(r, "remove row") /\ Document!Delete(r)
    <3>1. /\ rows' = [k \in DOMAIN rows \ {Key(r)} |-> rows[k]]
          /\ Document!Answer(r, {}) /\ UNCHANGED <<service, outside>>
      BY <2>3 DEF Document!Delete, Document!Key, Key
    <3>2. Moves(r) /\ call'[r].pc = "answered" /\ call'[r].answer = {}
      BY <1>4, <3>1
    <3>3. Document!Of("object", Key(r)) \notin outside
      BY <2>3 DEF DocumentInv, Removed, Document!At, At
    <3>4. Referred'
      BY <3>1, <3>3 DEF DocumentInv, Referred, Exists
    <3>5. Removed'
      BY <3>1, <3>2 DEF DocumentInv, Removed, Moves, At, Key
    <3>6. \A k \in DOMAIN rows' : rows'[k] \in Document!Documents
      BY <3>1 DEF DocumentInv, Holds
    <3>7. QED
      BY <1>1, <3>1, <3>2, <3>4, <3>5, <3>6
  <2>4. QED
    BY <1>11, <2>1, <2>2, <2>3 DEF Document!DeleteOwned
<1>12. CASE Document!Client
  <2>1. UNCHANGED <<service, rows, call>>
    BY <1>12 DEF Document!Client
  <2>2. PICK i \in Ids :
            \/ outside' = outside \ {Document!Of("url", i)}
            \/ /\ Exists(i) /\ \A q \in Requests : ~(At(q, "remove row") /\ Key(q) = i)
               /\ outside' = outside \cup {Document!Of("object", i)}
            \/ outside' = outside \cup {Document!Of("late", i)}
    BY <1>12 DEF Document!Client, Document!Exists, Exists, Document!At, At, Document!Key, Key
  <2>3. Referred'
    <3>1. ASSUME NEW j \in Ids, <<"object", j>> \in outside'
          PROVE  j \in DOMAIN rows
      <4>1. CASE <<"object", j>> \in outside
        BY <4>1 DEF DocumentInv, Referred, Exists, Document!Of
      <4>2. CASE <<"object", j>> \notin outside
        <5>1. \/ <<"object", j>> = <<"object", i>> /\ i \in DOMAIN rows
              \/ <<"object", j>> = <<"late", i>>
          <6> DEFINE o == <<"object", j>>
                     p == <<"object", i>>
                     l == <<"late", i>>
                     u == <<"url", i>>
          <6>1. \/ outside' = outside \ {u}
                \/ outside' = outside \cup {p} /\ i \in DOMAIN rows
                \/ outside' = outside \cup {l}
            BY <2>2 DEF Exists, Document!Of
          <6>2. o \in outside' /\ o \notin outside
            BY <3>1, <4>2
          <6> HIDE DEF o, p, l, u
          <6>3. (o = p /\ i \in DOMAIN rows) \/ o = l
            BY <6>1, <6>2
          <6>4. QED
            BY <6>3 DEF o, p, l
        <5>2. QED
          BY <5>1
      <4>3. QED
        BY <4>1, <4>2
    <3>2. QED
      BY <2>1, <3>1 DEF Referred, Exists, Document!Of
  <2>4. Removed'
    BY <2>1, <2>2 DEF DocumentInv, Removed, At, Key, Document!Of
  <2>5. Shape' /\ AnswersOwn'
    BY <2>1 DEF DocumentInv, Shape, AnswersOwn, At, User, Own
  <2>6. Holds(Document!Documents, {})' /\ AskedBy(Customers, {"upload"})'
    BY <2>1 DEF DocumentInv, Holds, AskedBy, User, Row
  <2>7. QED
    BY <2>1, <2>3, <2>4, <2>5, <2>6 DEF DocumentInv, Inv
<1>13. CASE Document!SelectOwn(r)
  BY <1>7, <1>13 DEF Document!SelectOwn, Document!Select, Document!Own, Document!User, User
<1>14. CASE Fail(r) \/ Reply(r)
  <2>1. Moves(r) /\ call'[r].pc \in {"refused", "failed", "idle"}
    BY <1>0, <1>14, OverMoves
  <2>2. QED
    BY <1>3, <1>14, <2>1 DEF Fail, Reply
<1>15. QED
  BY <1>8, <1>9, <1>10, <1>11, <1>12, <1>13, <1>14 DEF Document!Next, Document!Repository

\* Every call of payment-service keeps its invariant.
LEMMA PaymentStep ==
    ASSUME PaymentInv, NEW r \in Requests, Payment!Next(r) \/ Fail(r) \/ Reply(r)
    PROVE  PaymentInv' /\ service' = service
<1> DEFINE Inv == PaymentInv' /\ service' = service
           Holding == {"replay", "balance", "post", "create"}
<1> USE DEF Payment!Same, Payment!OnlyRows
<1>0. Shape
  BY DEF PaymentInv
  \* Postings stay.
<1>1. ASSUME Moves(r), service' = service, outside \subseteq outside',
             \A k \in DOMAIN rows' : rows'[k] \in Payment!Payments,
             \A k \in DOMAIN rows' : k \in DOMAIN rows \/ Payment!Posted(k),
             call'[r].pc \in Holding => Row(r)' \in Payment!Payments,
             call'[r].pc = "create" => \E p \in outside' : p.key = Key(r)'
      PROVE  Inv
  <2>1. Holds(Payment!Payments, Holding)'
    BY <1>1, HoldsMoves DEF PaymentInv
  <2>2. ASSUME NEW k, Payment!Posted(k)
        PROVE  \E p \in outside' : p.key = k
    BY <1>1, <2>2 DEF Payment!Posted
  <2>3. \A k \in DOMAIN rows' : \E p \in outside' : p.key = k
    BY <1>1, <2>2 DEF PaymentInv
  <2>4. ASSUME NEW q \in Requests, At(q, "create")'
        PROVE  \E p \in outside' : p.key = Key(q)'
    <3>1. CASE q = r
      BY <1>1, <2>4, <3>1 DEF At
    <3>2. CASE q # r
      <4>1. At(q, "create") /\ Key(q)' = Key(q)
        BY <1>1, <2>4, <3>2 DEF Moves, At, Key
      <4>2. QED
        BY <2>2, <4>1 DEF PaymentInv
    <3>3. QED
      BY <3>1, <3>2
  <2>5. QED
    BY <1>1, <2>1, <2>3, <2>4 DEF PaymentInv, Moves, Payment!Posted
<1> SUFFICES Inv
  OBVIOUS
<1> HIDE DEF Inv
<1>2. ASSUME Moves(r), UNCHANGED <<service, rows, outside>>, call'[r].pc # "create",
             call'[r].pc \in Holding => Row(r)' \in Payment!Payments
      PROVE  Inv
  BY <1>1, <1>2 DEF PaymentInv, Holds
<1>3. ASSUME NEW pc, NEW row, Payment!Goto(r, pc, row)
      PROVE  Moves(r) /\ call'[r].pc = pc /\ Row(r)' = row /\ Key(r)' = Key(r)
  BY <1>0, <1>3, GotoMoves DEF Payment!Goto, Goto, Row
<1>4. ASSUME NEW found, Payment!Answer(r, found)
      PROVE  Moves(r) /\ call'[r].pc = "answered"
  BY <1>0, <1>4, AnswerMoves DEF Payment!Answer, Answer
<1>5. ASSUME Payment!Refuse(r) \/ Fail(r) \/ Reply(r)
      PROVE  Moves(r) /\ call'[r].pc \in {"refused", "failed", "idle"}
  BY <1>0, <1>5, OverMoves DEF Payment!Refuse, Refuse
<1>6. ASSUME Payment!Refuse(r), Payment!Same
      PROVE  Inv
  BY <1>2, <1>5, <1>6
<1>7. ASSUME NEW found, Payment!Answer(r, found), Payment!Same
      PROVE  Inv
  BY <1>2, <1>4, <1>7
<1>8. ASSUME NEW pc \in {"balance", "post"}, Payment!Goto(r, pc, Row(r)), Payment!Same,
             Row(r) \in Payment!Payments
      PROVE  Inv
  BY <1>2, <1>3, <1>8
<1>9. CASE Payment!Request(r)
  <2>1. ASSUME NEW op \in {"replay", "get", "list"}, NEW user, NEW key, NEW row,
               Payment!Receive(r, op, user, key, row),
               op = "replay" => row \in Payment!Payments
        PROVE  Inv
    <3>1. Receive(r, op, user, key, row)
      BY <2>1 DEF Payment!Receive, Receive, Payment!At, At
    <3>2. Moves(r) /\ UNCHANGED <<service, rows, outside>> /\ call'[r].pc = op /\ Row(r)' = row
      BY <1>0, <3>1, ReceiveMoves
    <3>3. QED
      BY <1>2, <2>1, <3>2
  <2>2. ASSUME NEW u \in Customers, NEW n \in Payment!Amounts
        PROVE  [owner |-> u, amount |-> n] \in Payment!Payments
    BY DEF Payment!Payments
  <2>3. PICK u \in Customers :
            \/ \E k \in Ids, n \in Payment!Amounts :
                   Payment!Receive(r, "replay", u, k, [owner |-> u, amount |-> n])
            \/ \E k \in Ids : Payment!Receive(r, "get", u, k, None)
            \/ Payment!Receive(r, "list", u, None, None)
    BY <1>9 DEF Payment!Request
  <2>4. QED
    BY <2>1, <2>2, <2>3
<1>10. CASE Payment!Replay(r)
  <2>1. Row(r) \in Payment!Payments
    BY <1>10 DEF Payment!Replay, Payment!At, PaymentInv, Holds
  <2>2. QED
    BY <1>7, <1>8, <1>10, <2>1 DEF Payment!Replay, Payment!Row, Row
<1>11. CASE Payment!OverdraftCheck(r)
  <2>1. Row(r) \in Payment!Payments
    BY <1>11 DEF Payment!OverdraftCheck, Payment!At, PaymentInv, Holds
  <2>2. QED
    BY <1>6, <1>8, <1>11, <2>1 DEF Payment!OverdraftCheck, Payment!Row, Row
<1>12. CASE Payment!Post(r)
  <2> DEFINE p == [key |-> Key(r), amount |-> Row(r).amount]
  <2>1. /\ outside' = IF Payment!Posted(Key(r)) THEN outside ELSE outside \cup {p}
        /\ Payment!Goto(r, "create", Row(r)) /\ UNCHANGED <<service, rows>>
    BY <1>12 DEF Payment!Post, Payment!Key, Key, Payment!Row, Row
  <2>2. Row(r) \in Payment!Payments
    BY <1>12 DEF Payment!Post, Payment!At, PaymentInv, Holds
  <2>3. p.key = Key(r)
    OBVIOUS
  <2> HIDE DEF p
  <2>4. \E y \in outside' : y.key = Key(r)
    BY <2>1, <2>3 DEF Payment!Posted
  <2>5. Moves(r) /\ call'[r].pc = "create" /\ Row(r)' = Row(r) /\ Key(r)' = Key(r)
    BY <1>3, <2>1
  <2>6. \E y \in outside' : y.key = Key(r)'
    BY <2>4, <2>5
  <2>7. outside \subseteq outside' /\ \A k \in DOMAIN rows' : rows'[k] \in Payment!Payments
    BY <2>1 DEF PaymentInv, Holds
  <2>8. QED
    BY <1>1, <2>1, <2>2, <2>5, <2>6, <2>7
<1>13. CASE Payment!Create(r)
  <2>1. CASE Payment!Refuse(r) /\ UNCHANGED rows
    BY <1>6, <1>13, <2>1 DEF Payment!Create
  <2>2. CASE rows' = Put(Key(r), Row(r)) /\ Payment!Answer(r, {Row(r)})
    <3>1. Row(r) \in Payment!Payments /\ Payment!Posted(Key(r))
      BY <1>13 DEF Payment!Create, Payment!At, At, PaymentInv, Holds
    <3>2. \A k \in DOMAIN rows' : rows'[k] \in Payment!Payments /\ (k \in DOMAIN rows \/ Payment!Posted(k))
      BY <2>2, <3>1 DEF PaymentInv, Holds, Put
    <3>3. Moves(r) /\ call'[r].pc = "answered" /\ UNCHANGED <<service, outside>>
      BY <1>4, <1>13, <2>2 DEF Payment!Create
    <3>4. QED
      BY <1>1, <3>2, <3>3
  <2>3. QED
    BY <1>13, <2>1, <2>2
       DEF Payment!Create, Payment!Put, Put, Payment!Key, Key, Payment!Row, Row
<1>14. CASE Payment!OtherPosting
  <2>1. outside \subseteq outside' /\ UNCHANGED <<service, rows, call>>
    BY <1>14 DEF Payment!OtherPosting
  <2>2. Shape' /\ Holds(Payment!Payments, Holding)'
    BY <2>1 DEF PaymentInv, Shape, Holds, Row
  <2>3. \A k : Payment!Posted(k) => \E p \in outside' : p.key = k
    BY <2>1 DEF Payment!Posted
  <2>4. /\ \A k \in DOMAIN rows' : \E p \in outside' : p.key = k
        /\ \A q \in Requests : At(q, "create")' => \E p \in outside' : p.key = Key(q)'
    BY <2>1, <2>3 DEF PaymentInv, At, Key
  <2>5. QED
    BY <2>1, <2>2, <2>4 DEF PaymentInv, Inv, Payment!Posted
<1>15. CASE Payment!Get(r, Payment!Anyone)
  BY <1>6, <1>7, <1>15 DEF Payment!Get
<1>16. CASE Payment!Select(r, Payment!Anyone)
  BY <1>7, <1>16 DEF Payment!Select
<1>17. CASE Fail(r) \/ Reply(r)
  BY <1>2, <1>5, <1>17 DEF Fail, Reply
<1>18. QED
  BY <1>9, <1>10, <1>11, <1>12, <1>13, <1>14, <1>15, <1>16, <1>17
     DEF Payment!Next, Payment!Repository

\* The instance's cardinality is that of FiniteSets.
LEMMA MessageCardinality == Message!Cardinality(DOMAIN rows) = Cardinality(DOMAIN rows)
BY DEF Message!Cardinality, Cardinality

\* Every call of email-service and sms-service keeps its invariant.
LEMMA MessageStep ==
    ASSUME MessageInv, NEW r \in Requests, Message!Next(r) \/ Fail(r) \/ Reply(r)
    PROVE  MessageInv' /\ service' = service
<1> DEFINE Inv == MessageInv' /\ service' = service
<1>0. Shape
  BY DEF MessageInv
<1>1. ASSUME Moves(r), UNCHANGED <<service, rows>>
      PROVE  Inv
  BY <1>1 DEF MessageInv, Moves, Holds
<1>2. ASSUME NEW found, Message!Answer(r, found)
      PROVE  Moves(r)
  BY <1>0, <1>2, AnswerMoves DEF Message!Answer, Answer
<1>3. CASE Message!Request(r)
  <2>1. ASSUME NEW op, NEW user, NEW key, NEW row, Message!Receive(r, op, user, key, row)
        PROVE  Inv
    <3>1. Receive(r, op, user, key, row)
      BY <2>1 DEF Message!Receive, Receive, Message!At, At
    <3>2. QED
      BY <1>0, <1>1, <3>1, ReceiveMoves
  <2>2. QED
    BY <1>3, <2>1 DEF Message!Request, Message!Routes, Message!Ask
<1>4. CASE Message!Send(r)
  <2>1. PICK to \in Customers :
            Message!Insert(r, [to |-> to, at |-> Message!Cardinality(DOMAIN rows)])
    BY <1>4 DEF Message!Send
  <2> DEFINE m == [to |-> to, at |-> Message!Cardinality(DOMAIN rows)]
  <2>2. PICK i \in Message!FreshIds : rows' = Put(i, m)
    BY <2>1 DEF Message!Insert, Message!Put, Put
  <2>3. Message!Answer(r, {m}) /\ service' = service
    BY <2>1 DEF Message!Insert, Message!OnlyRows
  <2>4. Message!Cardinality(DOMAIN rows) \in Nat
    BY FS_CardinalityType, MessageCardinality DEF MessageInv
  <2>5. m \in Message!Messages
    BY <2>4 DEF Message!Messages
  <2> HIDE DEF m
  <2>6. IsFiniteSet(DOMAIN rows')
    BY <2>2, FS_AddElement DEF MessageInv, Put
  <2>7. \A k \in DOMAIN rows' : rows'[k] \in Message!Messages
    BY <2>2, <2>5 DEF MessageInv, Holds, Put
  <2>8. Moves(r)
    BY <1>2, <2>3
  <2>9. QED
    BY <2>3, <2>6, <2>7, <2>8 DEF MessageInv, Moves, Holds
<1>5. CASE Message!List(r)
  BY <1>1, <1>2, <1>5 DEF Message!List, Message!Select, Message!Same
<1>6. CASE Fail(r) \/ Reply(r)
  BY <1>0, <1>1, <1>6, OverMoves DEF Fail, Reply
<1>7. QED
  BY <1>3, <1>4, <1>5, <1>6 DEF Message!Next, Message!Repository

\* Every call of currency-exchange-service keeps its invariant.
LEMMA ExchangeStep ==
    ASSUME ExchangeInv, NEW r \in Requests, Exchange!Next(r) \/ Fail(r) \/ Reply(r)
    PROVE  ExchangeInv' /\ service' = service
<1> USE DEF ExchangeInv, Shape, Fields, Holds, AskedBy, At, User, Key, Row, Exchange!At,
    Exchange!Goto, Exchange!Answer, Exchange!Refuse, Exchange!Same, Exchange!OnlyRows,
    Exchange!Receive, Exchange!Exists, Exchange!User, Exchange!Key, Exchange!Row,
    Exchange!Rates, Exchange!PerUSD
<1>1. CASE Exchange!Request(r)
  BY <1>1 DEF Exchange!Request, Exchange!Routes, Exchange!Ask
<1>2. CASE Exchange!Seed
  BY <1>2 DEF Exchange!Seed, Exchange!Put
<1>3. CASE Exchange!Convert(r)
  BY <1>3 DEF Exchange!Convert
<1>4. CASE Exchange!At(r, "list") /\ Exchange!Select(r, Exchange!Anyone)
  BY <1>4 DEF Exchange!Select
<1>5. CASE Fail(r) \/ Reply(r)
  BY <1>5 DEF Fail, Reply, Idle, Answered
<1>6. QED
  BY <1>1, <1>2, <1>3, <1>4, <1>5 DEF Exchange!Next, Exchange!Repository

-----------------------------------------------------------------------------
(* The inductive invariant: that of the service that runs. *)

RowInv ==
    /\ service \in Services
    /\ service = "loan" => LoanInv
    /\ service = "emi" => EmiInv
    /\ service = "fixed-deposit" => FixedDepositInv
    /\ service = "recurring-deposit" => RecurringDepositInv
    /\ service = "investment" => InvestmentInv
    /\ service = "kyc" => KycInv
    /\ service = "account" => AccountInv
    /\ service = "customer" => CustomerInv
    /\ service = "card" => CardInv
    /\ service = "support" => SupportInv
    /\ service = "beneficiary" => BeneficiaryInv
    /\ service = "profile" => ProfileInv
    /\ service = "admin" => AdminInv
    /\ service = "wallet" => WalletInv
    /\ service = "auth" => AuthInv
    /\ service = "authz" => AuthzInv
    /\ service = "document" => DocumentInv
    /\ service = "payment" => PaymentInv
    /\ service \in {"email", "sms"} => MessageInv
    /\ service = "currency-exchange" => ExchangeInv

\* Every service starts with the invariant.
LEMMA RowInit == Init => RowInv
<1> SUFFICES ASSUME Init PROVE RowInv
  OBVIOUS
<1>1. service \in Services /\ outside = {} /\ DOMAIN rows = {}
  BY DEF Init, Start, NoRows
<1>2. \A r \in Requests : call[r].pc = "idle"
  BY DEF Init, Start, Idle
<1>3. Shape
  BY DEF Init, Start, Idle, Shape, Fields
<1>4. AnswersOwn
  BY <1>2 DEF AnswersOwn, At
<1> USE <1>1, <1>2, <1>3, <1>4, FS_EmptySet DEF Holds, AskedBy, CopiesAreOwn, At
<1>5. LoanInv
  BY DEF LoanInv
<1>6. EmiInv
  BY DEF EmiInv
<1>7. FixedDepositInv
  BY DEF FixedDepositInv
<1>8. RecurringDepositInv
  BY DEF RecurringDepositInv
<1>9. InvestmentInv
  BY DEF InvestmentInv
<1>10. KycInv
  BY DEF KycInv
<1>11. AccountInv
  BY DEF AccountInv, Opened, Checked
<1>12. CustomerInv
  BY DEF CustomerInv
<1>13. CardInv
  BY DEF CardInv
<1>14. SupportInv
  BY DEF SupportInv
<1>15. BeneficiaryInv
  BY DEF BeneficiaryInv
<1>16. ProfileInv
  BY DEF ProfileInv
<1>17. AdminInv
  BY DEF AdminInv
<1>18. WalletInv
  BY DEF WalletInv, Keyed, Wallet!Txns, Wallet!UsedKeys
<1>19. AuthInv
  BY DEF AuthInv
<1>20. AuthzInv
  BY DEF AuthzInv
<1>21. DocumentInv
  BY DEF DocumentInv, Referred, Removed
<1>22. PaymentInv
  BY DEF PaymentInv
<1>23. MessageInv
  BY DEF MessageInv
<1>24. ExchangeInv
  BY DEF ExchangeInv
<1>25. QED
  BY <1>5, <1>6, <1>7, <1>8, <1>9, <1>10, <1>11, <1>12, <1>13, <1>14, <1>15, <1>16, <1>17, <1>18, <1>19, <1>20, <1>21, <1>22, <1>23, <1>24 DEF RowInv

\* What changes nothing keeps the invariant.
LEMMA RowStutter == RowInv /\ UNCHANGED vars => RowInv'
<1> SUFFICES ASSUME RowInv, UNCHANGED vars PROVE RowInv'
  OBVIOUS
<1>1. service' = service /\ rows' = rows /\ outside' = outside /\ call' = call
  BY DEF vars
<1>2. Shape => Shape'
  BY <1>1 DEF Shape
<1>3. AnswersOwn => AnswersOwn'
  BY <1>1 DEF AnswersOwn, At, User, Own
<1> USE <1>1, <1>2, <1>3 DEF Holds, AskedBy, CopiesAreOwn, At, User, Key, Row, Own
<1>4. LoanInv => LoanInv'
  BY DEF LoanInv
<1>5. EmiInv => EmiInv'
  BY DEF EmiInv
<1>6. FixedDepositInv => FixedDepositInv'
  BY DEF FixedDepositInv
<1>7. RecurringDepositInv => RecurringDepositInv'
  BY DEF RecurringDepositInv, MaturedIffPaid
<1>8. InvestmentInv => InvestmentInv'
  BY DEF InvestmentInv
<1>9. KycInv => KycInv'
  BY DEF KycInv
<1>10. AccountInv => AccountInv'
  BY DEF AccountInv, Opened, Checked
<1>11. CustomerInv => CustomerInv'
  BY DEF CustomerInv
<1>12. CardInv => CardInv'
  BY DEF CardInv
<1>13. SupportInv => SupportInv'
  BY DEF SupportInv
<1>14. BeneficiaryInv => BeneficiaryInv'
  BY DEF BeneficiaryInv
<1>15. ProfileInv => ProfileInv'
  BY DEF ProfileInv
<1>16. AdminInv => AdminInv'
  BY DEF AdminInv
<1>17. WalletInv => WalletInv'
  BY DEF WalletInv, Keyed, Wallet!Txns, Wallet!UsedKeys, Balanced
<1>18. AuthInv => AuthInv'
  BY DEF AuthInv
<1>19. AuthzInv => AuthzInv'
  BY DEF AuthzInv
<1>20. DocumentInv => DocumentInv'
  BY DEF DocumentInv, Referred, Removed, Exists
<1>21. PaymentInv => PaymentInv'
  BY DEF PaymentInv, Payment!Posted
<1>22. MessageInv => MessageInv'
  BY DEF MessageInv
<1>23. ExchangeInv => ExchangeInv'
  BY DEF ExchangeInv
<1>24. QED
  BY <1>4, <1>5, <1>6, <1>7, <1>8, <1>9, <1>10, <1>11, <1>12, <1>13, <1>14, <1>15, <1>16, <1>17, <1>18, <1>19, <1>20, <1>21, <1>22, <1>23 DEF RowInv

\* Every call of any service, any failure and any reply to a client keeps the invariant.
LEMMA RowStep == RowInv /\ [Next]_vars => RowInv'
<1> SUFFICES ASSUME RowInv, [Next]_vars PROVE RowInv'
  OBVIOUS
<1>1. CASE UNCHANGED vars
  BY <1>1, RowStutter
<1>2. CASE Next
  <2>1. PICK r \in Requests : Handle(r) \/ Fail(r) \/ Reply(r)
    BY <1>2 DEF Next
  <2>2. CASE service = "loan"
    <3>1. Loan!Next(r) \/ Fail(r) \/ Reply(r)
      BY <2>1, <2>2 DEF Handle
    <3>2. LoanInv' /\ service' = service
      BY <2>2, <3>1, LoanStep DEF RowInv
    <3>3. QED
      BY <2>2, <3>2 DEF RowInv
  <2>3. CASE service = "emi"
    <3>1. Emi!Next(r) \/ Fail(r) \/ Reply(r)
      BY <2>1, <2>3 DEF Handle
    <3>2. EmiInv' /\ service' = service
      BY <2>3, <3>1, EmiStep DEF RowInv
    <3>3. QED
      BY <2>3, <3>2 DEF RowInv
  <2>4. CASE service = "fixed-deposit"
    <3>1. FixedDeposit!Next(r) \/ Fail(r) \/ Reply(r)
      BY <2>1, <2>4 DEF Handle
    <3>2. FixedDepositInv' /\ service' = service
      BY <2>4, <3>1, FixedDepositStep DEF RowInv
    <3>3. QED
      BY <2>4, <3>2 DEF RowInv
  <2>5. CASE service = "recurring-deposit"
    <3>1. RecurringDeposit!Next(r) \/ Fail(r) \/ Reply(r)
      BY <2>1, <2>5 DEF Handle
    <3>2. RecurringDepositInv' /\ service' = service
      BY <2>5, <3>1, RecurringDepositStep DEF RowInv
    <3>3. QED
      BY <2>5, <3>2 DEF RowInv
  <2>6. CASE service = "investment"
    <3>1. Investment!Next(r) \/ Fail(r) \/ Reply(r)
      BY <2>1, <2>6 DEF Handle
    <3>2. InvestmentInv' /\ service' = service
      BY <2>6, <3>1, InvestmentStep DEF RowInv
    <3>3. QED
      BY <2>6, <3>2 DEF RowInv
  <2>7. CASE service = "kyc"
    <3>1. Kyc!Next(r) \/ Fail(r) \/ Reply(r)
      BY <2>1, <2>7 DEF Handle
    <3>2. KycInv' /\ service' = service
      BY <2>7, <3>1, KycStep DEF RowInv
    <3>3. QED
      BY <2>7, <3>2 DEF RowInv
  <2>8. CASE service = "account"
    <3>1. Account!Next(r) \/ Fail(r) \/ Reply(r)
      BY <2>1, <2>8 DEF Handle
    <3>2. AccountInv' /\ service' = service
      BY <2>8, <3>1, AccountStep DEF RowInv
    <3>3. QED
      BY <2>8, <3>2 DEF RowInv
  <2>9. CASE service = "customer"
    <3>1. Customer!Next(r) \/ Fail(r) \/ Reply(r)
      BY <2>1, <2>9 DEF Handle
    <3>2. CustomerInv' /\ service' = service
      BY <2>9, <3>1, CustomerStep DEF RowInv
    <3>3. QED
      BY <2>9, <3>2 DEF RowInv
  <2>10. CASE service = "card"
    <3>1. Card!Next(r) \/ Fail(r) \/ Reply(r)
      BY <2>1, <2>10 DEF Handle
    <3>2. CardInv' /\ service' = service
      BY <2>10, <3>1, CardStep DEF RowInv
    <3>3. QED
      BY <2>10, <3>2 DEF RowInv
  <2>11. CASE service = "support"
    <3>1. Support!Next(r) \/ Fail(r) \/ Reply(r)
      BY <2>1, <2>11 DEF Handle
    <3>2. SupportInv' /\ service' = service
      BY <2>11, <3>1, SupportStep DEF RowInv
    <3>3. QED
      BY <2>11, <3>2 DEF RowInv
  <2>12. CASE service = "beneficiary"
    <3>1. Beneficiary!Next(r) \/ Fail(r) \/ Reply(r)
      BY <2>1, <2>12 DEF Handle
    <3>2. BeneficiaryInv' /\ service' = service
      BY <2>12, <3>1, BeneficiaryStep DEF RowInv
    <3>3. QED
      BY <2>12, <3>2 DEF RowInv
  <2>13. CASE service = "profile"
    <3>1. Profile!Next(r) \/ Fail(r) \/ Reply(r)
      BY <2>1, <2>13 DEF Handle
    <3>2. ProfileInv' /\ service' = service
      BY <2>13, <3>1, ProfileStep DEF RowInv
    <3>3. QED
      BY <2>13, <3>2 DEF RowInv
  <2>14. CASE service = "admin"
    <3>1. Admin!Next(r) \/ Fail(r) \/ Reply(r)
      BY <2>1, <2>14 DEF Handle
    <3>2. AdminInv' /\ service' = service
      BY <2>14, <3>1, AdminStep DEF RowInv
    <3>3. QED
      BY <2>14, <3>2 DEF RowInv
  <2>15. CASE service = "wallet"
    <3>1. Wallet!Next(r) \/ Fail(r) \/ Reply(r)
      BY <2>1, <2>15 DEF Handle
    <3>2. WalletInv' /\ service' = service
      BY <2>15, <3>1, WalletStep DEF RowInv
    <3>3. QED
      BY <2>15, <3>2 DEF RowInv
  <2>16. CASE service = "auth"
    <3>1. Auth!Next(r) \/ Fail(r) \/ Reply(r)
      BY <2>1, <2>16 DEF Handle
    <3>2. AuthInv' /\ service' = service
      BY <2>16, <3>1, AuthStep DEF RowInv
    <3>3. QED
      BY <2>16, <3>2 DEF RowInv
  <2>17. CASE service = "authz"
    <3>1. Authz!Next(r) \/ Fail(r) \/ Reply(r)
      BY <2>1, <2>17 DEF Handle
    <3>2. AuthzInv' /\ service' = service
      BY <2>17, <3>1, AuthzStep DEF RowInv
    <3>3. QED
      BY <2>17, <3>2 DEF RowInv
  <2>18. CASE service = "document"
    <3>1. Document!Next(r) \/ Fail(r) \/ Reply(r)
      BY <2>1, <2>18 DEF Handle
    <3>2. DocumentInv' /\ service' = service
      BY <2>18, <3>1, DocumentStep DEF RowInv
    <3>3. QED
      BY <2>18, <3>2 DEF RowInv
  <2>19. CASE service = "payment"
    <3>1. Payment!Next(r) \/ Fail(r) \/ Reply(r)
      BY <2>1, <2>19 DEF Handle
    <3>2. PaymentInv' /\ service' = service
      BY <2>19, <3>1, PaymentStep DEF RowInv
    <3>3. QED
      BY <2>19, <3>2 DEF RowInv
  <2>20. CASE service \in {"email", "sms"}
    <3>1. Message!Next(r) \/ Fail(r) \/ Reply(r)
      BY <2>1, <2>20 DEF Handle
    <3>2. MessageInv' /\ service' = service
      BY <2>20, <3>1, MessageStep DEF RowInv
    <3>3. QED
      BY <2>20, <3>2 DEF RowInv
  <2>21. CASE service = "currency-exchange"
    <3>1. Exchange!Next(r) \/ Fail(r) \/ Reply(r)
      BY <2>1, <2>21 DEF Handle
    <3>2. ExchangeInv' /\ service' = service
      BY <2>21, <3>1, ExchangeStep DEF RowInv
    <3>3. QED
      BY <2>21, <3>2 DEF RowInv
  <2>22. QED
    BY <2>2, <2>3, <2>4, <2>5, <2>6, <2>7, <2>8, <2>9, <2>10, <2>11, <2>12, <2>13, <2>14, <2>15, <2>16, <2>17, <2>18, <2>19, <2>20, <2>21, ServicesAssumption DEF RowInv
<1>3. QED
  BY <1>1, <1>2


\* RowInv is inductive.
LEMMA RowInvariant == Spec => []RowInv
<1>1. Init => RowInv
  BY RowInit
<1>2. RowInv /\ [Next]_vars => RowInv'
  BY RowStep
<1>3. QED
  BY <1>1, <1>2, PTL DEF Spec

-----------------------------------------------------------------------------
(* What it means for each service. *)

\* Every row of every service is one of its table's, whatever requests run at the same
\* time and whichever of their calls fail.
THEOREM RowsAreTyped == Spec => []TypeOK
<1>1. RowInv => TypeOK
  <2> SUFFICES ASSUME RowInv PROVE TypeOK
    OBVIOUS
  <2> USE DEF TypeOK, Table
  <2>1. CASE service = "loan"
    BY <2>1 DEF RowInv, LoanInv, Holds
  <2>2. CASE service = "emi"
    BY <2>2 DEF RowInv, EmiInv, Holds
  <2>3. CASE service = "fixed-deposit"
    BY <2>3 DEF RowInv, FixedDepositInv, Holds
  <2>4. CASE service = "recurring-deposit"
    BY <2>4 DEF RowInv, RecurringDepositInv, Holds
  <2>5. CASE service = "investment"
    BY <2>5 DEF RowInv, InvestmentInv, Holds
  <2>6. CASE service = "kyc"
    BY <2>6 DEF RowInv, KycInv, Holds
  <2>7. CASE service = "account"
    BY <2>7 DEF RowInv, AccountInv, Holds
  <2>8. CASE service = "customer"
    BY <2>8 DEF RowInv, CustomerInv, Holds
  <2>9. CASE service = "card"
    BY <2>9 DEF RowInv, CardInv, Holds
  <2>10. CASE service = "support"
    BY <2>10 DEF RowInv, SupportInv, Holds
  <2>11. CASE service = "beneficiary"
    BY <2>11 DEF RowInv, BeneficiaryInv, Holds
  <2>12. CASE service = "profile"
    BY <2>12 DEF RowInv, ProfileInv, Holds
  <2>13. CASE service = "admin"
    BY <2>13 DEF RowInv, AdminInv, Holds
  <2>14. CASE service = "wallet"
    BY <2>14 DEF RowInv, WalletInv, Holds
  <2>15. CASE service = "auth"
    BY <2>15 DEF RowInv, AuthInv, Holds
  <2>16. CASE service = "authz"
    BY <2>16 DEF RowInv, AuthzInv, Holds
  <2>17. CASE service = "document"
    BY <2>17 DEF RowInv, DocumentInv, Holds
  <2>18. CASE service = "payment"
    BY <2>18 DEF RowInv, PaymentInv, Holds
  <2>19. CASE service \in {"email", "sms"}
    BY <2>19 DEF RowInv, MessageInv, Holds
  <2>20. CASE service = "currency-exchange"
    BY <2>20 DEF RowInv, ExchangeInv, Holds
  <2>21. service \in Services
    BY DEF RowInv
  <2>22. QED
    BY ServicesAssumption, <2>1, <2>2, <2>3, <2>4, <2>5, <2>6, <2>7, <2>8, <2>9, <2>10, <2>11, <2>12, <2>13, <2>14, <2>15, <2>16, <2>17, <2>18, <2>19, <2>20, <2>21
<1>2. QED
  BY <1>1, RowInvariant, PTL

\* No answer to a customer carries a row of somebody else, in any of the twelve services
\* that compare the owner in one call and use the row in another.
THEOREM NoForeignRows == Spec => []AnswersAreOwn
<1>1. RowInv => AnswersAreOwn
  <2>1. RowInv /\ service \in OwnersCompared => AnswersOwn
    BY DEF RowInv, OwnersCompared, FixedDepositInv, RecurringDepositInv, InvestmentInv,
           KycInv, AccountInv, CustomerInv, CardInv, SupportInv, BeneficiaryInv, ProfileInv,
           WalletInv, DocumentInv
  <2>2. QED
    BY <2>1 DEF AnswersAreOwn, AnswersOwn
<1>2. QED
  BY <1>1, RowInvariant, PTL

\* Of loan-service: a loan that is DISBURSED has its posting in the ledger, and no loan
\* has two, however often staff asks and whatever fails between posting and update.
THEOREM LoansArePostedOnce == Spec => []DisbursedIsPostedOnce
<1>1. RowInv => DisbursedIsPostedOnce
  BY DEF RowInv, LoanInv, DisbursedIsPostedOnce
<1>2. QED
  BY <1>1, RowInvariant, PTL

\* Of emi-service: the paid instalments of a plan have no gap, with payers who choose
\* the earliest one at the same time.
THEOREM InstalmentsAreInOrder == Spec => []PaidInOrder
<1>1. RowInv => PaidInOrder
  BY DEF RowInv, EmiInv, PaidInOrder
<1>2. QED
  BY <1>1, RowInvariant, PTL

\* Of recurring-deposit-service: MATURED and the number of paid instalments never
\* disagree, although one of two requests overwrites the row of the other.
THEOREM MaturesWhenPaid == Spec => []MaturedWhenPaid
<1>1. RowInv => MaturedWhenPaid
  BY DEF RowInv, RecurringDepositInv, MaturedWhenPaid, MaturedIffPaid
<1>2. QED
  BY <1>1, RowInvariant, PTL

\* Of account-service: every bank account has its account in the ledger.
THEOREM AccountsHaveLedger == Spec => []AccountsAreInLedger
<1>1. RowInv => AccountsAreInLedger
  BY DEF RowInv, AccountInv, AccountsAreInLedger
<1>2. QED
  BY <1>1, RowInvariant, PTL

\* Of wallet-service, for amounts of any scale: every balance is not negative and is the
\* sum of its recorded transactions, plus a cent for each spend that ended in half a cent;
\* no key is spent twice, and the outbox has one event for each transaction.
THEOREM WalletsAddUp == Spec => []BalancesAddUp
<1>1. Wallet!Cardinality(Wallet!Txns) = Cardinality(Wallet!Txns)
      /\ Wallet!Cardinality(Wallet!UsedKeys) = Cardinality(Wallet!UsedKeys)
  BY DEF Wallet!Cardinality, Cardinality
<1>2. WalletInv => Wallet!BalancesAddUp
  BY <1>1 DEF WalletInv, Balanced, Total, Keyed, Wallet!BalancesAddUp
<1>3. RowInv => BalancesAddUp
  BY <1>2 DEF RowInv, BalancesAddUp
<1>4. QED
  BY <1>3, RowInvariant, PTL

\* Of document-service: no object that was put in time is left without its row, whichever
\* call of an upload or a deletion fails.
THEOREM NoOrphans == Spec => []ObjectsHaveRows
<1>1. RowInv => ObjectsHaveRows
  BY DEF RowInv, DocumentInv, Referred, ObjectsHaveRows
<1>2. QED
  BY <1>1, RowInvariant, PTL

\* Of payment-service: every payment on record has been posted to the ledger under its
\* key.
THEOREM RecordedIsPosted == Spec => []PaymentsArePosted
<1>1. RowInv => PaymentsArePosted
  BY DEF RowInv, PaymentInv, PaymentsArePosted
<1>2. QED
  BY <1>1, RowInvariant, PTL

-----------------------------------------------------------------------------
(* No step takes a row back: what is written over a row that has left its    *)
(* initial status is a copy that has left it too.                            *)

Kept == \A i \in DOMAIN rows : rows[i].status \in Initial \/ rows'[i].status \notin Initial

\* A row is inserted under a new key, or overwritten by a reviewed one.
LEMMA PutKeeps ==
    ASSUME NEW k, NEW row, rows' = Put(k, row), k \notin DOMAIN rows \/ row.status \notin Initial
    PROVE  Kept
BY DEF Put, Kept

\* loan-service takes no loan back to PENDING, whatever else its steps do.
LEMMA LoanKeeps ==
    ASSUME LoanInv, NEW r \in Requests, Loan!Next(r) \/ Fail(r) \/ Reply(r)
    PROVE  Kept
<1>1. CASE rows' = rows
  BY <1>1 DEF Kept
<1>2. CASE Loan!Apply(r)
  BY <1>2, PutKeeps DEF Loan!Apply, Loan!Insert, Loan!FreshIds, Loan!Exists, Loan!Put, Put
<1>3. CASE Loan!At(r, "update") /\ Loan!Save(r)
  <2>1. Row(r).status \notin Initial
    BY <1>3 DEF LoanInv, Holds, Loan!At, At, Loan!Loans, Initial
  <2>2. QED
    BY <1>1, <1>3, <2>1, PutKeeps
       DEF Loan!Save, Loan!Put, Put, Loan!Row, Row, Loan!Exists, Loan!Key
<1>4. rows' = rows \/ Loan!Apply(r) \/ (Loan!At(r, "update") /\ Loan!Save(r))
  BY DEF Loan!Next, Loan!Repository, Loan!Request, Loan!Routes, Loan!StaffRoutes, Loan!Ask,
         Loan!Receive, Loan!Approve, Loan!Disburse, Loan!Load, Loan!Same, Loan!Post,
         Loan!Get, Loan!Select, Fail, Reply
<1>5. QED
  BY <1>1, <1>2, <1>3, <1>4

\* kyc-service takes no verification back to PENDING.
LEMMA KycKeeps ==
    ASSUME KycInv, NEW r \in Requests, Kyc!Next(r) \/ Fail(r) \/ Reply(r)
    PROVE  Kept
<1>1. CASE rows' = rows
  BY <1>1 DEF Kept
<1>2. CASE Kyc!Submit(r)
  BY <1>2, PutKeeps DEF Kyc!Submit, Kyc!Insert, Kyc!FreshIds, Kyc!Exists, Kyc!Put, Put
<1>3. CASE Kyc!At(r, "update") /\ Kyc!Save(r)
  <2>1. Row(r).status \notin Initial
    BY <1>3 DEF KycInv, Holds, Kyc!At, At, Kyc!Verifications, Initial
  <2>2. QED
    BY <1>1, <1>3, <2>1, PutKeeps
       DEF Kyc!Save, Kyc!Put, Put, Kyc!Row, Row, Kyc!Exists, Kyc!Key
<1>4. rows' = rows \/ Kyc!Submit(r) \/ (Kyc!At(r, "update") /\ Kyc!Save(r))
  BY DEF Kyc!Next, Kyc!Repository, Kyc!Request, Kyc!Routes, Kyc!StaffRoutes, Kyc!Ask,
         Kyc!Receive, Kyc!LatestForUser, Kyc!Pending, Kyc!Review, Kyc!Load, Kyc!Same,
         Kyc!Select, Fail, Reply
<1>5. QED
  BY <1>1, <1>2, <1>3, <1>4

\* fixed-deposit-service takes no deposit back to ACTIVE.
LEMMA FixedDepositKeeps ==
    ASSUME FixedDepositInv, NEW r \in Requests, FixedDeposit!Next(r) \/ Fail(r) \/ Reply(r)
    PROVE  Kept
<1>1. CASE rows' = rows
  BY <1>1 DEF Kept
<1>2. CASE FixedDeposit!Create(r)
  BY <1>2, PutKeeps DEF FixedDeposit!Create, FixedDeposit!Insert, FixedDeposit!FreshIds,
     FixedDeposit!Exists, FixedDeposit!Put, Put
<1>3. CASE FixedDeposit!At(r, "update") /\ FixedDeposit!Save(r)
  <2>1. Row(r).status \notin Initial
    BY <1>3 DEF FixedDepositInv, FixedDeposit!At, At, Initial
  <2>2. QED
    BY <1>1, <1>3, <2>1, PutKeeps
       DEF FixedDeposit!Save, FixedDeposit!Put, Put, FixedDeposit!Row, Row,
           FixedDeposit!Exists, FixedDeposit!Key
<1>4. \/ rows' = rows
      \/ FixedDeposit!Create(r)
      \/ FixedDeposit!At(r, "update") /\ FixedDeposit!Save(r)
  BY DEF FixedDeposit!Next, FixedDeposit!Repository, FixedDeposit!Request,
         FixedDeposit!Routes, FixedDeposit!Ask, FixedDeposit!Receive, FixedDeposit!GetOwned,
         FixedDeposit!GetOwn, FixedDeposit!Get, FixedDeposit!Close, FixedDeposit!LoadOwn,
         FixedDeposit!Load, FixedDeposit!Same, FixedDeposit!SelectOwn, FixedDeposit!Select,
         Fail, Reply
<1>5. QED
  BY <1>1, <1>2, <1>3, <1>4

\* Once reviewed a loan or a submission is never pending again, and a closed deposit is
\* never active again, though requests write back whole rows that they read before.
THEOREM NoneReopens == Spec => NeverReopened
<1> DEFINE Step == service \in Reviewed => Kept
<1>1. RowInv /\ [Next]_vars => [Step]_vars
  <2>1. SUFFICES ASSUME RowInv, Next, service \in Reviewed PROVE Kept
    BY DEF Reviewed
  <2>2. PICK r \in Requests : Handle(r) \/ Fail(r) \/ Reply(r)
    BY <2>1 DEF Next
  <2>3. CASE service = "loan"
    BY <2>1, <2>2, <2>3, LoanKeeps DEF RowInv, Handle
  <2>4. CASE service = "kyc"
    BY <2>1, <2>2, <2>4, KycKeeps DEF RowInv, Handle
  <2>5. CASE service = "fixed-deposit"
    BY <2>1, <2>2, <2>5, FixedDepositKeeps DEF RowInv, Handle
  <2>6. QED
    BY <2>1, <2>3, <2>4, <2>5 DEF Reviewed
<1>2. Spec => [][Step]_vars
  BY <1>1, RowInvariant, PTL DEF Spec
<1>3. QED
  BY <1>2 DEF NeverReopened, Kept
=============================================================================
