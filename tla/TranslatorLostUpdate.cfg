SPECIFICATION Spec
CONSTANTS
    Thread = {t1, t2}
    Value = {v1, v2}
    Default = v1
    Setters <- TwoSettings
    None = None
INVARIANT SettersKept
