SPECIFICATION FairSpec
CONSTANTS
    Order <- LocalAndRemote
    Watched <- Remote
    Local = "nas"
    MaxAge = 1
    MaxNow = 4
    MaxOutages = 2
    Contents <- Surveyed
    DiskPaths <- Configured
    MinSize = 4
INVARIANTS
    TypeOK
    MixedOnlyAfterGap
    TwinsAgree
PROPERTIES
    DeadMachineShows
    DeadTimerShows
    LiveMachineShows
