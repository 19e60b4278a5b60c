SPECIFICATION HttpSpec
CONSTANTS
    c1 = c1
    c2 = c2
    d1 = d1
    None = None
    Commit <- MCCommit
    Download <- MCDownload
    MaxBytes = 2
    Timed <- MCTimed
INVARIANTS SizeReported EndedWell
PROPERTY CallEnds
CHECK_DEADLOCK FALSE
