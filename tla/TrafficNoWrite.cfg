SPECIFICATION Spec
CONSTANTS
    Users = {u1}
    Observers = {o1}
INVARIANTS
    NoWriteWhileSorting
