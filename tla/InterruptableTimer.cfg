SPECIFICATION FairSpec
CONSTANTS
    MaxStarts = 2
    EarlyWorker = FALSE
    None = None
INVARIANTS
    TypeOK
    StopMeansStopped
PROPERTIES
    ImplementsPeriodicTimer
    StopComesBack
    StartFires
    StopInterrupts
CHECK_DEADLOCK FALSE
