SPECIFICATION Spec
CONSTANTS
    v = v
    w = w
    Watcher <- Watchers
    Modes <- OneOrTwo
    MaxFd = 8
    Capacity = 2
    Chunk = 1
    MaxBytes = 3
    MaxStarts = 2
INVARIANTS
    NothingLost
    Restored
PROPERTY
    NobodyStuck
CHECK_DEADLOCK FALSE
