SPECIFICATION FairSpec
CONSTANTS
    SizeMax = 6
    Bounds <- MCBounds
    MaxThreads = 3
    HardwareConcurrency <- MCCores
    None = None
INVARIANTS
    TypeOK
    DispensedOnce
    ExceptionTransferred
    QuiescentWhenGone
PROPERTIES
    Terminates
    ImplementsDispenser
CHECK_DEADLOCK FALSE
