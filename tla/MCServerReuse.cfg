SPECIFICATION Spec
CONSTANTS
    w1 = w1
    w2 = w2
    Worker <- MCWorker
    Socket <- MCSocket
    Faults = {"check"}
    MAX_USER = 2
    MAX_ROOM_PLAYER = 2
    Main = Main
    RoomThread = RoomThread
SYMMETRY WorkerSymmetry
INVARIANTS
    DisconnectEndsBeforeReuse
