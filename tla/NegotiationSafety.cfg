\* Two transfers of 3 or 5 bytes, with payloads of at most 3 bytes.
\* The longest erasure coded messages have 5 packets, one more than fit.
CONSTANTS
    MaxPayload = 3
    Uint16Space = 16
    OffsetSpace = 4
    UdpPort = 5
    DefaultPort = 12
    DefaultMtu = 2
    SenderPpc = 2
    ReceiverPpc = 1
    K = 2
    M = 1
    SenderConfigs <- MCSenderConfigs
    ReceiverConfigs <- MCReceiverConfigs
    Lengths = {3, 5}
    MaxTransfers = 2
SPECIFICATION Spec
INVARIANTS
    TypeOK
    CutOnce
    Placed
    CompleteIsWhole
    PortsHeard
    LayoutsFollowCts
PROPERTIES
    BitmapMatchesLayout
CHECK_DEADLOCK FALSE
