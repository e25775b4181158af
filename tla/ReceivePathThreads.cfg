\* Two channels; a 5-byte buffer of 2-byte packets: 3 packets in 2 chunks, the
\* last packet and the last chunk short; the first chunk spans two words of
\* the packet bitmap; the sender's message is one packet longer than the buffer
\* and exactly fills the offset field.  No symmetry, as liveness is checked.
CONSTANTS
    Workers = {w1, w2}
    BufferSize = 5
    Mtu = 2
    PacketsPerChunk = 2
    SentPackets = 4
    OffsetSpace = 4
    WordSize = 1
SPECIFICATION FairSpec
INVARIANTS
    TypeOK
    ChunkSound
    AckSound
    TeardownSafe
PROPERTIES
    CompletedBufferStable
    Implements
    CompleteReturns
    DisconnectReturns
    ChunksShown
CHECK_DEADLOCK FALSE
