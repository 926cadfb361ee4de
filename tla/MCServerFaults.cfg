SPECIFICATION FaultFairSpec
CONSTANTS
    w1 = w1
    w2 = w2
    Worker <- MCWorker1
    Socket <- MCSocket2
    Faults = {"send", "check", "lose", "reset", "port"}
    MAX_USER = 1
    MAX_ROOM_PLAYER = 2
    Main = Main
    RoomThread = RoomThread
INVARIANTS
    AllocatedIsOwned
PROPERTIES
    DeadSessionIsReleased
