\* Liveness under weak fairness of every running call.
SPECIFICATION FairSpec
CONSTANTS
    Readers = {r1, r2}
    Workers = {w1}
    Updater = updater
    Closer = closer
    NoThread = NoThread
    PropertyCount = 1
    MaxTries = 10
    MaxDataset = 2
PROPERTIES
    GetPropertiesReturns
    RefreshReturns
    CloseReleases
