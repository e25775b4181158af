\* Six bytes, as three messages of two bytes or fewer and parts of others, cut
\* anywhere.
CONSTANTS
    Size = 2
    MaxMessages = 3
SPECIFICATION FairSpec
INVARIANTS
    TypeOK
    NothingSkipped
PROPERTIES
    AllDelivered
    ImplementsQueue
CHECK_DEADLOCK FALSE
