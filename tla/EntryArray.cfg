SPECIFICATION Spec
CONSTANTS
    Observers = {o1, o2, o3}
    Nobody = Nobody
    CLIENT_MAX = 2
    MaxTime = 1
    MaxCrossings = 2
SYMMETRY ObserverSymmetry
INVARIANTS
    TypeOK
    SlotsAccounted
    OwnSlotUntilReordered
PROPERTIES
    RefusedOnlyWhenFull
CONSTRAINTS
    StaysCalm
    LostDecrementsBounded
    CrossingsBounded
