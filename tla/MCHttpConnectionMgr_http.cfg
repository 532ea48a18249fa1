SPECIFICATION FairSpec
CONSTANTS
    near = near
    far = far
    Transactions = {1, 2, 3}
    KeepAlive = {1, 3}
    Hosts = {near, far}
    ConnectionInfo <- ToNearFarNear
    Connections = {1, 2, 3}
    NoConnection = NoConnection
    NoTransaction = NoTransaction
    NoHost = NoHost
    Orphan = Orphan
    mMaxConns = 2
    mMaxConnsPerHost = 2
    mMaxPersistConnsPerHost = 1
    MaxRequestAttempts = 2
    MaxIncidents = 1
CHECK_DEADLOCK FALSE
INVARIANTS TypeOK LimitsHold OnePlace NotRepeated ShutdownIsComplete
PROPERTY TransactionsEnd
