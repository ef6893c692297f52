SPECIFICATION Spec
CONSTANTS
    MinDelay = 1
    MaxDelay = 2
    MaxOutage = 130
    ConnectFailures <- AtOnceOrLate
INVARIANTS
    TypeOK
    
    LossNoticed
    
    NoHalfOpen
CHECK_DEADLOCK FALSE
