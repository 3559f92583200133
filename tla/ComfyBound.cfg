SPECIFICATION Spec
CONSTANTS
    p1 = p1
    Prompts = {p1}
    PageSize = 1
    SeenTTL = 1
    Timeout = 1
    MaxTime = 4
    MaxRestarts = 0
    MayFail <- NoCall
    Builds <- Unstamped
INVARIANTS
    WaitIsLowerBound
