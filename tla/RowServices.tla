---------------------------- MODULE RowServices ----------------------------
(***************************************************************************)
(* The services that keep rows, one per behaviour: Rows with the requests  *)
(* of that service.                                                        *)
(***************************************************************************)
EXTENDS Rows

CONSTANT Services

ASSUME ServicesAssumption ==
    Services \subseteq
        {"loan", "emi", "fixed-deposit", "recurring-deposit", "investment", "kyc", "account",
         "customer", "card", "support", "beneficiary", "profile", "admin", "wallet", "auth",
         "authz", "document", "payment", "email", "sms", "currency-exchange"}

Loan == INSTANCE LoanService
Emi == INSTANCE EmiService
FixedDeposit == INSTANCE FixedDepositService
RecurringDeposit == INSTANCE RecurringDepositService
Investment == INSTANCE InvestmentService
Kyc == INSTANCE KycService
Account == INSTANCE AccountService
Customer == INSTANCE CustomerService
Card == INSTANCE CardService
Support == INSTANCE SupportService
Beneficiary == INSTANCE BeneficiaryService
Profile == INSTANCE ProfileService
Admin == INSTANCE AdminService
Wallet == INSTANCE WalletService
Auth == INSTANCE AuthService
Authz == INSTANCE AuthzService
Document == INSTANCE DocumentService
Payment == INSTANCE PaymentService
Message == INSTANCE MessageService
Exchange == INSTANCE ExchangeService

Init == \E s \in Services : Start(s)

Handle(r) ==
    \/ service = "loan" /\ Loan!Next(r)
    \/ service = "emi" /\ Emi!Next(r)
    \/ service = "fixed-deposit" /\ FixedDeposit!Next(r)
    \/ service = "recurring-deposit" /\ RecurringDeposit!Next(r)
    \/ service = "investment" /\ Investment!Next(r)
    \/ service = "kyc" /\ Kyc!Next(r)
    \/ service = "account" /\ Account!Next(r)
    \/ service = "customer" /\ Customer!Next(r)
    \/ service = "card" /\ Card!Next(r)
    \/ service = "support" /\ Support!Next(r)
    \/ service = "beneficiary" /\ Beneficiary!Next(r)
    \/ service = "profile" /\ Profile!Next(r)
    \/ service = "admin" /\ Admin!Next(r)
    \/ service = "wallet" /\ Wallet!Next(r)
    \/ service = "auth" /\ Auth!Next(r)
    \/ service = "authz" /\ Authz!Next(r)
    \/ service = "document" /\ Document!Next(r)
    \/ service = "payment" /\ Payment!Next(r)
    \/ service \in {"email", "sms"} /\ Message!Next(r)
    \/ service = "currency-exchange" /\ Exchange!Next(r)

Next == \E r \in Requests : Handle(r) \/ Fail(r) \/ Reply(r)

Spec == Init /\ [][Next]_vars

Sym == Permutations(Requests) \cup Permutations(Customers) \cup Permutations(Ids)
-----------------------------------------------------------------------------
Table ==
    CASE service = "loan" -> Loan!Loans
      [] service = "emi" -> Emi!Plans
      [] service = "fixed-deposit" -> FixedDeposit!Deposits
      [] service = "recurring-deposit" -> RecurringDeposit!Deposits
      [] service = "investment" -> Investment!Holdings
      [] service = "kyc" -> Kyc!Verifications
      [] service = "account" -> Account!Accounts
      [] service = "customer" -> Customer!Records
      [] service = "card" -> Card!Cards
      [] service = "support" -> Support!Tickets
      [] service = "beneficiary" -> Beneficiary!Beneficiaries
      [] service = "profile" -> Profile!Profiles
      [] service = "admin" -> Admin!Settings
      [] service = "wallet" -> Wallet!Wallets
      [] service = "auth" -> Auth!AuthUsers
      [] service = "authz" -> Authz!Assignments
      [] service = "document" -> Document!Documents
      [] service = "payment" -> Payment!Payments
      [] service \in {"email", "sms"} -> Message!Messages
      [] service = "currency-exchange" -> Exchange!Rates

TypeOK == \A k \in DOMAIN rows : rows[k] \in Table

-----------------------------------------------------------------------------
(* Properties.  Each speaks of the services it names. *)

\* No answer to a customer carries a row of another one, although the row is read, and
\* in most updates written, in calls of its own after the owner was compared.
OwnersCompared ==
    {"fixed-deposit", "recurring-deposit", "investment", "kyc", "account", "customer",
     "card", "support", "beneficiary", "profile", "wallet", "document"}
AnswersAreOwn ==
    service \in OwnersCompared =>
        \A r \in Requests : At(r, "answered") /\ User(r) # Staff =>
            \A row \in call[r].answer : Own(r, row)

\* A loan that is DISBURSED has its posting in the ledger, and no loan has two, whatever
\* fails between the posting and the update and however often staff asks again.
DisbursedIsPostedOnce ==
    service = "loan" =>
        /\ \A i \in DOMAIN rows : rows[i].status = "DISBURSED" => \E p \in outside : p.loan = i
        /\ \A p, q \in outside : p.loan = q.loan => p = q

\* No instalment is paid before an earlier one of its plan, with payers who choose at the
\* same time and loans that got two plans.
PaidInOrder ==
    service = "emi" =>
        \A i \in DOMAIN rows : \A n \in rows[i].paid : 1..n \subseteq rows[i].paid

\* A recurring deposit is MATURED exactly when all its instalments are paid, also when one
\* of two requests overwrites the other's row.
MaturedWhenPaid ==
    service = "recurring-deposit" =>
        \A i \in DOMAIN rows : rows[i].status = "MATURED" <=> rows[i].paid = RecurringDeposit!Tenure

\* Every bank account has its account in the ledger, whichever of the two calls fails.
AccountsAreInLedger == service = "account" => DOMAIN rows \subseteq outside

\* A wallet's balance is never negative and is the sum of its recorded transactions, plus
\* a cent for each spend that ended in half a cent, although balance and amount are
\* rounded apart; each transaction has another key, and its event in the outbox, with
\* requests at the same time and again under one key.
BalancesAddUp == service = "wallet" => Wallet!BalancesAddUp

\* An object that was put before a deletion came past it has its row: whatever fails, a
\* deletion leaves no object behind that nothing refers to.
ObjectsHaveRows ==
    service = "document" =>
        \A i \in Ids : Document!Of("object", i) \in outside => Exists(i)

\* Every recorded payment has a posting under its key in the ledger, whichever calls
\* failed, and were repeated, before it was recorded.
PaymentsArePosted == service = "payment" => \A k \in DOMAIN rows : Payment!Posted(k)

\* Once a submission is reviewed it is never pending again, and a closed deposit never
\* active, though reviews and closings of the same row write back what they read before.
Initial == {"PENDING", "ACTIVE"}
Reviewed == {"loan", "kyc", "fixed-deposit"}
NeverReopened ==
    [][(service \in Reviewed) =>
          \A i \in DOMAIN rows : rows[i].status \in Initial \/ rows'[i].status \notin Initial]_vars

\* Loan: only a loan that is PENDING becomes APPROVED or REJECTED.
ReviewsArePending ==
    [][service = "loan" =>
          \A i \in DOMAIN rows : rows'[i].status \notin {rows[i].status, "DISBURSED"} =>
              rows[i].status = "PENDING"]_vars

-----------------------------------------------------------------------------
(* The authorization service when no call fails: a request waits only for a  *)
(* connection of the pool.                                                   *)
Healthy == \E r \in Requests : Handle(r) \/ Reply(r)

\* Statements end and answers are written; nobody has to send a request.
Proceeds(r) == Authz!Repository(r) \/ Reply(r)
HealthySpec ==
    /\ Init
    /\ [][Healthy]_vars
    /\ \A r \in Requests : WF_vars(Proceeds(r))

\* Authz: whoever asks for all roles is answered.
RolesListed == \A r \in Requests : At(r, "list roles") ~> At(r, "answered")
=============================================================================
