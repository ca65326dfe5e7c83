\* Two replicas, with crashes, rebalances and failures of every kind.
CONSTANTS
    Consumers = {c1, c2}
    N = 2
    MaxCallFailures = 1
    MaxRebalances = 2
    EventServices <- AllEventServices
    Streams <- SomeStreams
    Malformed = malformed
    None = none
SPECIFICATION HandlersSpec
INVARIANTS
    TypeOK
    PassedIsHandled
    SettledIsRecorded
PROPERTIES
    EveryMessageSettled
CHECK_DEADLOCK FALSE
