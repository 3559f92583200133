SPECIFICATION RunningSpec
CONSTANTS
    WriteOrder <- AsWritten
    CopyOrder <- AsNamed
    MaxMisses = 1
    PushMayFail = TRUE
    CrashPoints <- Killed
INVARIANTS
    StagesInOrder
    PartsTogether
PROPERTIES
    CommitsGetPublished
