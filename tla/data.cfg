\* Two threads get, map and close the data of a request with up to two native
\* results.
SPECIFICATION Spec
CONSTANTS
    Users = {t1, t2}
    NoThread = NoThread
    Props = {p1, p2}
    MaxResults = 2
SYMMETRY UserSymmetry
INVARIANTS
    TypeOK
    LockDiscipline
    MapIsWholeOrEmpty
    PopulatedOnce
    ValueOfFirstResults
    ClosedIsNotRead
    ResultsReleasedOnce
    PromisesKeptUntilMapped
PROPERTIES
    ServesElementData
