\* Two stripes of two data chunks and one parity chunk, the second partial.
\* A gap of three chunks does not fit its length field.
CONSTANTS
    DataChunks = 3
    K = 2
    M = 1
    MaxRetries = 2
    MaxGaps = 1
    FieldSpace = 3
    QueueBound = 3
SPECIFICATION FairSpec
INVARIANTS
    TypeOK
    CompletionSound
    UndecodedSound
    RowsInMatrix
PROPERTIES
    SenderReturns
    ImplementsTransfer
CHECK_DEADLOCK FALSE
