SPECIFICATION FairSpec
CONSTANTS
    Interval = 3
    Timeout = 1
    Stale = 3
    HasSnapshot = TRUE
    Hours = 7
    MinCells = 3
    Widths <- NarrowAndWide
INVARIANTS
    TypeOK
    UnmarkedIsFresh
    GridExact
PROPERTIES
    NewerOrMarked
    OutageShows
    LastKnownStateShown
    RecoveryShows
