\* One failure of the handler.
CONSTANTS
    Consumers = {c1}
    N = 2
    MaxCallFailures = 0
    MaxRebalances = 0
SPECIFICATION Spec
INVARIANTS
    CommittedOnlyOnSuccess
CHECK_DEADLOCK FALSE
