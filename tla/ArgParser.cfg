SPECIFICATION ParserSpec
CONSTANTS
    help = help
    quick = quick
    size = size
    sizeAgain = sizeAgain
    tags = tags
    marks = marks
    t1 = t1
    t2 = t2
    Unset = Unset
    Option <- Options
    Help = help
    About <- Catalog
    Ranges <- RangeTypes
    Lists <- AllLists
    Vetoed <- Vetoes
    Name <- Names
    Part <- Parts
    Thread <- Threads
    MaxParses = 2
INVARIANTS
    Answer
    Values
SYMMETRY Interchangeable
