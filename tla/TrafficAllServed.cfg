SPECIFICATION Spec
CONSTANTS
    Users = {u1, u2}
    Observers = {o1}
INVARIANTS
    AllUsersServed
CONSTRAINT BreakerNeverFires
