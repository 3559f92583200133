SPECIFICATION Spec
CONSTANTS
    p1 = p1
    Prompts = {p1}
    PageSize = 1
    SeenTTL = 1
    Timeout = 1
    MaxTime = 3
    MaxRestarts = 1
    MayFail <- AnyCall
    Builds <- AnyBuild
INVARIANTS
    TypeOK
    ExactStaysExact
    EstimateNotAfterStart
    EstimateWithinTimeout
    SeenBounded
    SeriesNotAheadOfLive
PROPERTIES
    ForgottenOnlyWhenSaved
