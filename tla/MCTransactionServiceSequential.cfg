\* One attempt at a time, with retries and faults: a deposit that moved its money is
\* recorded in the end.
CONSTANTS
    alice = alice
    bob = bob
    cash = cash
    Cash = cash
    NoAttempt = NoAttempt
    Accounts <- MCAccounts
    Requests <- AllKinds
    InitiallyOpen <- AliceOpen
    Unit = 2
    MaxAmount = 4
    MaxAttempts = 3
    MaxInFlight = 1
    MaxFaults = 1
SPECIFICATION FairSpec
PROPERTIES
    DepositsComplete
