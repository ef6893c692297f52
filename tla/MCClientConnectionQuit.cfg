SPECIFICATION Spec
CONSTANTS
    MaxAttempts <- Seven
    MaxInvalid <- Three
    MaxTasks <- Two
INVARIANTS
    QuitStaysQuit
CHECK_DEADLOCK FALSE
