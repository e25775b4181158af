\* One packet per chunk and two packets, so that a receive can be completed
\* early while a worker still holds a packet.
CONSTANTS
    Workers = {w1, w2}
    BufferSize = 3
    Mtu = 2
    PacketsPerChunk = 1
    SentPackets = 2
    OffsetSpace = 4
    WordSize = 2
SPECIFICATION Spec
PROPERTIES
    NoLateWrite
CHECK_DEADLOCK FALSE
