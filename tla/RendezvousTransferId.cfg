\* Two transfers over one connection.
CONSTANTS
    MsgIdSpace = 4
    MaxTransfers = 2
    MaxBreaks = 0
SPECIFICATION Spec
INVARIANTS
    TransferIdAgrees
CHECK_DEADLOCK FALSE
