SPECIFICATION MCFairSpec
CONSTANTS
    c1 = c1
    c2 = c2
    c3 = c3
    Client <- MCClient2
    MAX_ROOM_PLAYER = 2
    MAX_ROOM_COUNT = 1
    ProgressThread <- MCThread
    SIZE_T = 16
    MaxOpenCount = 5
PROPERTIES
    DesertedThreadEnds
