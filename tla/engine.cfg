\* Safety of the property list: three readers race each other, two refreshes
\* and a close.
SPECIFICATION Spec
CONSTANTS
    Readers = {r1, r2, r3}
    Workers = {w1}
    Updater = updater
    Closer = closer
    NoThread = NoThread
    PropertyCount = 2
    MaxTries = 10
    MaxDataset = 3
SYMMETRY ThreadSymmetry
INVARIANTS
    TypeOK
    MonitorExclusion
    OneDatasetList
    PopulatedListIsWhole
    UndisturbedIteration
    StaleListExplained
    MetaDataFollowsDataset
PROPERTIES
    ListChangesUnderMonitor
    ServesVersionedCache
