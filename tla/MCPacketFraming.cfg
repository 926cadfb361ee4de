SPECIFICATION Spec
CONSTANTS
    PacketSize = {3, 5}
    MAX_BUF_SIZE = 6
    MAX_PACKET_SIZE = 5
    BYTE = 8
    Streams <- MCStreams
    FIRST_BIT_CAPACITY = 16
INVARIANTS
    HandledAsSent
    RestIsKept
