\* One transfer between programs with different configurations.
CONSTANTS
    MaxPayload = 3
    Uint16Space = 16
    OffsetSpace = 4
    UdpPort = 5
    DefaultPort = 12
    DefaultMtu = 2
    SenderPpc = 2
    ReceiverPpc = 1
    K = 2
    M = 1
    SenderConfigs <- MCSenderConfigs
    ReceiverConfigs <- MCReceiverConfigs
    Lengths = {3, 5}
    MaxTransfers = 1
SPECIFICATION Spec
INVARIANTS
    LayoutsAgree
CHECK_DEADLOCK FALSE
