SPECIFICATION ApiFairSpec
CONSTANTS
    Order <- TwoEndpoints
    AutoModel <- Second
    Watched <- Second
    Retain = 1
    Window = 1
    MaxFaults = 1
INVARIANTS
    ApiTypeOK
    OneFalseDownPerStop
PROPERTIES
    CurrentIsCounted
    WindowKept
    StopEndsProcess
    OldRowsGo
    EveryEndpointChecked
