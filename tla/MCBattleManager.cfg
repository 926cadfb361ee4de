SPECIFICATION Spec
CONSTANTS
    c1 = c1
    c2 = c2
    c3 = c3
    c4 = c4
    Client <- MCClient
    MaxRound = 3
SYMMETRY ClientSymmetry
INVARIANTS
    RoundIsPairing
    CountsAgree
    EverybodyFights
    DepartedAreNotMatched
