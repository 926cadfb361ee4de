SPECIFICATION Spec
CONSTANTS
    c1 = c1
    c2 = c2
    c3 = c3
    NoClient = NoClient
    Client <- MCClient
    MAX_USING_ITEM_COUNT = 2
    INT_MAX = 1048575
    Opponents <- MCOpponents
    Loadouts <- MCLoadouts
    StartHp <- MCStartHp
    Players <- MCPlayers
    CreepRounds = {5}
    Round = 1
    BATTLE_LOOP = 2
    MAX_CHARACTER_MAX_HP = 100
INVARIANTS
    TypeOK
    PairEndsTogether
    OncePerStage
    LosersPay
    DefeatedAreGone
PROPERTIES
    NoRevival
    StageEnds
    OnlyForward
CHECK_DEADLOCK FALSE
