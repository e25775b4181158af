\* One stripe.
CONSTANTS
    DataChunks = 2
    K = 2
    M = 1
    MaxRetries = 2
    MaxGaps = 1
    FieldSpace = 4
    QueueBound = 2
SPECIFICATION Spec
INVARIANTS
    DecodeRestores
CHECK_DEADLOCK FALSE
