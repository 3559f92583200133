SPECIFICATION FairSpec
CONSTANTS
    hourly = hourly
    ticker = ticker
    i1 = i1
    i2 = i2
    i3 = i3
    i4 = i4
    None = None
    Order <- OneFile
    Writers = {hourly, ticker}
    Inodes = {i1, i2, i3, i4}
    MaxVersion = 2
    MayFail = TRUE
INVARIANTS
    TypeOK
    WholeUnlessMet
PROPERTIES
    DirSpec
    SnapshotCatchesUp
