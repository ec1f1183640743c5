SPECIFICATION Spec
CONSTANTS
    Users = {u1, u2, u3}
    Observers = {o1, o2}
SYMMETRY ClientSymmetry
INVARIANTS
    TypeOK
    CountersExact
    BreakerWaits
    BarredWritersOut
    RoundComplete
    UsersWaitOutsideReading
    DoneNeverAhead
PROPERTIES
    SentOncePerRound
    ImplementsBroadcast
