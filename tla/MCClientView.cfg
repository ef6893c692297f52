SPECIFICATION OneDealSpec
CONSTANTS
    me = me
    rival = rival
    NULL = NULL
    Clients <- Both
    Me <- me
    Rival <- rival
    TotalPairs = 2
    MaxClicks = 1
    MaxUnread = 0
    MaxUnrun = 1
    MaxSleepers = 1
CHECK_DEADLOCK FALSE
INVARIANTS
    TypeOK
    ReaderMirrors
    ClicksFitServer
    NothingPeeked
