SPECIFICATION FairSpec
CONSTANTS
    w1 = w1
    w2 = w2
    Worker <- MCWorker
    Socket <- MCSocket
    Faults = {}
    MAX_USER = 2
    MAX_ROOM_PLAYER = 2
    Main = Main
    RoomThread = RoomThread
INVARIANTS
    DisconnectEndsBeforeReuse
    OneReceive
    WaitingIsActive
    PatientWaitingHasNoRoom
    NoSocketLost
    OneAcceptor
PROPERTIES
    DeadSessionEnds
