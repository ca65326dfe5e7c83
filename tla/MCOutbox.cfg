\* Two replicas' relays, a backlog longer than a batch, a failed call and a late message.
CONSTANTS
    N = 3
    Relays = {r1, r2}
    Batch = 2
    MaxFaults = 1
SPECIFICATION FairSpec
INVARIANTS
    TypeOK
    SentIsPublished
    CausesFirst
PROPERTIES
    EveryEventSent
CHECK_DEADLOCK FALSE
