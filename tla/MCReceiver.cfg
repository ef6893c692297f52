SPECIFICATION Spec
CONSTANTS
    a = a
    b = b
    NULL = NULL
    Clients <- Two
    Descriptors = {3, 4}
    Letters = {"p", "x"}
    LF = "LF"
    CR = "CR"
    Commands <- Good
    MAX_MESSAGE_LENGTH = 3
    MAX_ERROR_COUNT = 2
    MaxChunk = 2
    MaxBytes = 6
SYMMETRY Symmetry
CHECK_DEADLOCK FALSE
INVARIANTS
    TypeOK
    HandledAsReceived
    CountedAsReceived
    DescriptorsApart
