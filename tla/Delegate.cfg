SPECIFICATION Spec
CONSTANTS
    Invoker = {t1, t2}
    Handler = {h}
    Empty = Empty
    AllowEmpty = FALSE
    MaxListeners = 3
    None = None
SYMMETRY Symmetry
INVARIANTS
    EveryoneCalled
    OnlySubscribers
CHECK_DEADLOCK FALSE
