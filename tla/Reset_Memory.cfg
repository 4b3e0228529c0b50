SPECIFICATION RunSpec
CONSTANTS
    LastPage = 4
    Gap = 0
    HeapStart = 2
    HeapEnd = 4
    InitRegions <- MCPrepared
    Addrs = {0, 1, 3, 5}
    Lens = {1, 2}
    ProtArgs <- MCReadWrite
    FileArgs = {"anon"}
    StorePages = {1, 3}
PROPERTY ResetsBetweenInputs
