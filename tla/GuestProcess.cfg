SPECIFICATION Spec
CONSTANTS
    Word = 16
    MaxErrno = 2
    Parts = {"signals", "settings", "areas", "coverage", "answers"}
    Signals = 2
    MapLen = 4
    Cap = 2
    Blocks = {0, 1, 2, 7}
    ExclusiveOr <- MCExclusiveOr
    MaxTrace = 4
INVARIANTS
    CoverageIsOfThisRun
PROPERTIES
    ProcessIsKnown
    AreasAreApart
    AnswerIsWhole
