\* Three message ids, so that they wrap around within five transfers; the
\* connection breaks or a process restarts up to twice.
CONSTANTS
    MsgIdSpace = 3
    MaxTransfers = 5
    MaxBreaks = 2
SPECIFICATION FairSpec
INVARIANTS
    TypeOK
    NoCrossTalk
    VerdictMatches
    SlotsSuffice
    NoStaleCts
    NoMutualWait
PROPERTIES
    OffersSettled
CHECK_DEADLOCK FALSE
