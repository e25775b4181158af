\* One transfer, and streams, over a connection that does not break.
CONSTANTS
    MsgIdSpace = 2
    MaxTransfers = 1
    MaxBreaks = 0
SPECIFICATION StreamSpec
PROPERTIES
    StreamsStart
CHECK_DEADLOCK FALSE
