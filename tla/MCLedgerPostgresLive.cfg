\* Every posting is answered, deadlocks included; ids and keys submitted twice.
CONSTANTS
    alice = alice
    bob = bob
    cash = cash
    Sessions = {s1, s2}
    NoPosting = NoPosting
    Accounts <- MCAccounts
    Postings <- CallerIds
    MaxSubmit = 2
    Unit = 2
SPECIFICATION FairSpec
INVARIANTS
    BalanceDerived
    RepliesTruthful
PROPERTIES
    EveryPostAnswered
