SPECIFICATION StoppedSpec
CONSTANTS
    WriteOrder <- AsWritten
    CopyOrder <- AsNamed
    MaxMisses = 0
    PushMayFail = TRUE
    CrashPoints <- NoPoint
PROPERTIES
    LastStateGetsPublished
