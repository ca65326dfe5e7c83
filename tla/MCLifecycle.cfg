\* Every service, with failing calls, signals, kills, restarts and unreachable stores.
CONSTANTS
    Running <- ServiceNames
    Neighbour <- ANeighbour
SPECIFICATION FairSpec
INVARIANTS
    TypeOK
    QueriesFindTables
    ReadyMeansReachable
PROPERTIES
    StopsAfterSignal
