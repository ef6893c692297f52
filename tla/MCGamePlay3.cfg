SPECIFICATION OrderedSpec
CONSTANTS
    a = a
    b = b
    c = c
    d = d
    NULL = NULL
    Clients <- Three
    TotalPairs = 2
INVARIANTS
    TypeOK
    BoardConsistent
    PairsLeaveTogether
    MoveLeft
    SettlerInGame
    ForfeitSharesTheRest
PROPERTIES
    ReadyGameStarts
    PlaysMemory
