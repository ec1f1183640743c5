SPECIFICATION FairSessionSpec
CONSTANTS
    Users = {u1}
    NoUser = NoUser
    Observers <- NoObservers
    MaxObservers = 1
    MaxIntruders = 1
INVARIANTS
    SessionTypeOK
    InStep
    FirstSendSurvived
PROPERTIES
    ImplementsPhases
    Answered
    ComesBack
    ClientReaped
