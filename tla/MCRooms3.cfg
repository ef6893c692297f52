SPECIFICATION Spec
CONSTANTS
    a = a
    b = b
    c = c
    r1 = r1
    r2 = r2
    NULL = NULL
    Clients <- Three
    RoomIds <- OneRoom
    TotalPairs = 1
    MaxRooms = 1
    MaxPlayers = 3
    MaxClients = 3
CHECK_DEADLOCK FALSE
SYMMETRY Symmetry3
INVARIANTS
    TypeOK
    
    
    OwnerSeated
    StateFitsRoom
