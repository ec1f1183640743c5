SPECIFICATION FairSpec
CONSTANTS
    Users = {u1, u2}
    Observers = {o1}
PROPERTIES
    RoundEnds
    TickTaken
    EntryWritten
