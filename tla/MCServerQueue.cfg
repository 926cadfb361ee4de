SPECIFICATION Spec
CONSTANTS
    c1 = c1
    c2 = c2
    Client <- MCClient
    MAX_ROOM_PLAYER = 4
    Node <- MCNode
    NULL = NULL
INVARIANTS
    QueueBelowRoomSize
    ListWellFormed
    OnlyStaleHeadCrashes
PROPERTIES
    ImplementsMatchingQueue
