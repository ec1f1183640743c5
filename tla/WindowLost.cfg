SPECIFICATION Spec
CONSTANTS
    Pages <- MCPages
    TABLE_SIZE = 2
    SPLIT_SIZE = 2
    MERGE_SIZE = 2
    Levels = 4
    CountRange = 256
    Accesses <- MCAccesses
    page_size = 2
    window_size = 4
    AddressRange = 32
    skipsize = 2
    MaxAccesses = 13
INVARIANTS
    SizeIsDistinctPages
