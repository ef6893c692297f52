SPECIFICATION PlayingSpec
CONSTANTS
    a = a
    b = b
    c = c
    NULL = NULL
    Clients <- Three
    Sizes = {2, 3}
CHECK_DEADLOCK FALSE
INVARIANTS
    TypeOK
    ListSound
    NothingLost
    ToldBeforeCut
