SPECIFICATION FairSpec
CONSTANTS
    c1 = c1
    c2 = c2
    Clients <- MCClients
    NoClient = NoClient
    Fitting <- OneFits
    MaxEvents <- OneEvent
CHECK_DEADLOCK FALSE
INVARIANTS
    TypeOK
    EntriesAreEvents
PROPERTIES
    ImplementsDelivery
    ThreadsEnd
    Received
    EventsArrive
