\* Three chunks with a window of two and one control message in transit; every
\* limit of a control message is smaller than the message.
CONSTANTS
    TotalChunks = 3
    MaxInflight = 2
    FieldSpace = 4
    BitmapCap = 2
    MaxGaps = 1
    GapLimit = 1
    MissingLimit = 1
    QueueBound = 1
SPECIFICATION FairSpec
INVARIANTS
    TypeOK
    AcksSound
    CompletionSound
PROPERTIES
    AllArrive
    SenderReturns
    LowestResent
    ImplementsTransfer
CHECK_DEADLOCK FALSE
