\* A single-value getter is answered with the weighted list of the map.
SPECIFICATION Spec
CONSTANTS
    Users = {t1}
    NoThread = NoThread
    Props = {p1, p2}
    MaxResults = 2
INVARIANT
    GetterKeepsType
