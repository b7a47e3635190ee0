\* A refresh that overtakes a population leaves the list of the previous data
\* set in place.
SPECIFICATION Spec
CONSTANTS
    Readers = {r1, r2}
    Workers = {w1}
    Updater = updater
    Closer = closer
    NoThread = NoThread
    PropertyCount = 2
    MaxTries = 10
    MaxDataset = 3
INVARIANT
    AppliedDataIsServed
