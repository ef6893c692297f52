SPECIFICATION FairSpec
CONSTANTS
    MaxAttempts <- Seven
    MaxInvalid <- Three
    MaxTasks <- Two
INVARIANTS
    TypeOK
    ReconnectingHeld
    RunningIsRead
    ServerEndsIt
PROPERTIES
    OutageEnds
CHECK_DEADLOCK FALSE
