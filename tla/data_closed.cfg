\* A closed instance still answers asKeyMap from the populated map.
SPECIFICATION Spec
CONSTANTS
    Users = {t1}
    NoThread = NoThread
    Props = {p1, p2}
    MaxResults = 2
INVARIANT
    ClosedThrows
