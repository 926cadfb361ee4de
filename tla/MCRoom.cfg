SPECIFICATION MCSpec
CONSTANTS
    c1 = c1
    c2 = c2
    c3 = c3
    Client <- MCClient
    MAX_ROOM_PLAYER = 2
    MAX_ROOM_COUNT = 2
    ProgressThread <- MCThread
    SIZE_T = 16
    MaxOpenCount = 2
SYMMETRY ClientSymmetry
INVARIANTS
    TypeOK
    ClientKnowsRoom
    ValidClientWasMatched
    RoomInUseIsServed
