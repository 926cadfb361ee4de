SPECIFICATION MCSpec
CONSTANTS
    c1 = c1
    c2 = c2
    c3 = c3
    Client <- MCClient
    MAX_ROOM_PLAYER = 3
    CHOICE_CHARACTER_TIME = 2
    MAX_USER_NAME_LENGTH = 11
    MAX_USING_ITEM_COUNT = 6
    MAX_UN_USING_ITEM_COUNT = 10
    BATTLE_ITEM_QUEUE_LOOP_COUNT = 5
    MAX_BUF_SIZE = 1300
SYMMETRY ClientSymmetry
INVARIANTS
    NoWaitCycle
    MessagesAreWhole
    KnownAreThere
    ChoiceIsUnanimous
