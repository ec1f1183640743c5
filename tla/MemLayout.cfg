SPECIFICATION FairSpec
CONSTANTS
    PAGE_SIZE = 2
    PageCount = 5
    MaxSize = 6
INVARIANTS
    TypeOK
    NeverKilled
    PagesJudged
    RowsAreRegions
    CountCapped
PROPERTIES
    ScanEnds
