SPECIFICATION Spec
CONSTANTS
    Observers = {o1, o2}
    Nobody = Nobody
    CLIENT_MAX = 2
    MaxTime = 2
    MaxCrossings = 0
CONSTRAINTS
    StaysCalm
    LostDecrementsBounded
    CrossingsBounded
INVARIANTS
    MostRecentFromEach
