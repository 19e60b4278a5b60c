SPECIFICATION FairSpec
CONSTANTS
    SizeMax = 3
    Bounds <- WrapBounds
    MaxThreads = 3
    HardwareConcurrency <- MCCores
    None = None
PROPERTY CancelStops
CHECK_DEADLOCK FALSE
