SPECIFICATION FairSpec
CONSTANTS
    p1 = p1
    p2 = p2
    Prompts = {p1, p2}
    PageSize = 1
    SeenTTL = 1
    Timeout = 0
    MaxTime = 1
    MaxRestarts = 1
    MayFail <- DrainCalls
    Builds <- Unstamped
INVARIANTS
    NoSilentLoss
PROPERTIES
    LedgerSpec
    JobsRecorded
