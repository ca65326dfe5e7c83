\* Safety of concurrent postings, with retries under fresh ids and failures.
CONSTANTS
    alice = alice
    bob = bob
    cash = cash
    Sessions = {s1, s2, s3}
    NoPosting = NoPosting
    Accounts <- MCAccounts
    Postings <- OwnIds
    MaxSubmit = 1
    Unit = 2
SPECIFICATION Spec
INVARIANTS
    TypeOK
    AppliedOnce
    BalanceDerived
    MoneyConserved
    RepliesTruthful
PROPERTIES
    ImplementsLedger
SYMMETRY SessionSymmetry
