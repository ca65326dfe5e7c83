\* Concurrent attempts at a deposit, a withdrawal and a transfer.
CONSTANTS
    alice = alice
    bob = bob
    cash = cash
    Cash = cash
    NoAttempt = NoAttempt
    Accounts <- MCAccounts
    Requests <- AllKinds
    InitiallyOpen <- AliceOpen
    Unit = 2
    MaxAmount = 4
    MaxAttempts = 2
    MaxInFlight = 2
    MaxFaults = 2
SPECIFICATION Spec
INVARIANTS
    TypeOK
    RecordedIsPosted
    EventPerRecord
    SuccessesAgree
    OverdraftBounded
PROPERTIES
    ImplementsMoneyMovement
