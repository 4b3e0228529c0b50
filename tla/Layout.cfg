SPECIFICATION Spec
CONSTANTS
    Space = 128
    PageSize = 4
    Gap = 8
    AuxElf = 4
    AuxRaw = 2
    Reach = 18
    StubEnd = 1
    Images <- MCImages
    Configs <- MCConfigs
    UserPages = {16, 20, 24, 120}
INVARIANTS
    TableIsMemory
    LayoutIsSafe
    ImageIsLoaded
    StackIsUsable
    FailsForAReason
CHECK_DEADLOCK FALSE
