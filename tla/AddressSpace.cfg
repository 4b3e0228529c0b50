SPECIFICATION Spec
CONSTANTS
    LastPage = 5
    Gap = 1
    HeapStart = 2
    HeapEnd = 3
    InitRegions <- MCImage
    Addrs = {0, 2, 3, 5, 7}
    Lens = {0, 1, 2}
    ProtArgs <- MCReadWrite
    FileArgs = {"open", "badfd", "unreadable"}
    StorePages = {}
INVARIANTS
    TableBacked
    TableDisjoint
    TableIsEnough
PROPERTIES
    FailedMmapLosesNoPage
    PlacementDisturbsNothing
    OrphansOnlyFromFailedFixed
    DivergenceOnlyByMprotect
VIEW MCView
