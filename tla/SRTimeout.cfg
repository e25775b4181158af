\* Two chunks sent at once, and a control channel that may be silent.
CONSTANTS
    TotalChunks = 2
    MaxInflight = 0
    FieldSpace = 4
    BitmapCap = 2
    MaxGaps = 1
    GapLimit = 1
    MissingLimit = 1
    QueueBound = 2
SPECIFICATION FairSpec
PROPERTIES
    TimeoutDrivesRto
CHECK_DEADLOCK FALSE
