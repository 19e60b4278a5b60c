SPECIFICATION StreamsSpec
CONSTANTS
    Chains <- AllChains
    BufferSize = 3
    MaxBytes = 8
    MaxFailures = 2
    ProcessorsFail = TRUE
    SinkFails = TRUE
    png = png
    jfif = jfif
    bmp = bmp
    extra = extra
    None = None
    MaxLength = 6
    Byte <- MCByte
    File <- MCFile
    Format <- MCFormat
    Registered <- MCRegistered
    About <- MCAbout
INVARIANTS
    InOrder
    Complete
    Answers
PROPERTY ExtractionEnds
CHECK_DEADLOCK FALSE
