SPECIFICATION FairSpec
CONSTANTS
    MaxCalls = 4
    Timeouts = {TRUE, FALSE}
INVARIANTS
    TypeOK
    Separate
    SilentAfterClose
PROPERTIES
    TimeoutIsReal
    CloseReturns
    UnansweredReported
CHECK_DEADLOCK FALSE
