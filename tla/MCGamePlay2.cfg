SPECIFICATION OrderedSpec
CONSTANTS
    a = a
    b = b
    c = c
    d = d
    NULL = NULL
    Clients <- Two
    TotalPairs = 3
 
PROPERTY TurnFollowsOrder
