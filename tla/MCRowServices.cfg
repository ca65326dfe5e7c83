CONSTANTS
    Requests = {r1, r2}
    Customers = {ann, bob}
    Staff = staff
    Ids = {i1, i2}
    MaxCount = 2
    Unit = 4
    Asked = {1, 2, 4}
    None = none
    Services = {"loan", "emi", "fixed-deposit", "recurring-deposit", "investment", "kyc", "account", "customer", "card", "support", "beneficiary", "profile", "admin", "wallet", "auth", "authz", "document", "payment", "email", "currency-exchange"}

SPECIFICATION Spec

SYMMETRY Sym

INVARIANTS
    TypeOK
    AnswersAreOwn
    DisbursedIsPostedOnce
    PaidInOrder
    MaturedWhenPaid
    AccountsAreInLedger
    BalancesAddUp
    ObjectsHaveRows
    PaymentsArePosted

PROPERTIES
    NeverReopened
