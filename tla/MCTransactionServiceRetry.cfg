\* A withdrawal retried after it moved its money but before it was recorded.
CONSTANTS
    alice = alice
    bob = bob
    cash = cash
    Cash = cash
    NoAttempt = NoAttempt
    Accounts <- MCAccounts
    Requests <- OneWithdrawal
    InitiallyOpen <- AliceOpen
    Unit = 2
    MaxAmount = 4
    MaxAttempts = 2
    MaxInFlight = 1
    MaxFaults = 1
SPECIFICATION Spec
PROPERTIES
    SafeRetries
