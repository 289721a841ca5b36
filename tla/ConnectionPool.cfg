SPECIFICATION FairSpec
CONSTANTS
    Client = {c1, c2, c3, c4}
    NoConn = NoConn
    MinConnections = 2
    MaxConnections = 3
    MaxCreated = 4
INVARIANTS ExclusiveUse NoLostWakeup
PROPERTIES GetReturns
