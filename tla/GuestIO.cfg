SPECIFICATION Spec
CONSTANTS
    Word = 16
    MaxErrno = 2
    Kinds = {"stdin", "stdout", "file", "dir", "sock", "timer", "epoll"}
    Archs = {"x86", "x86_64"}
    MaxLen = 2
    Counts = {0, 1, 2}
    Deltas <- MCDeltas
PROPERTIES
    PositionIsKnown
    OutputIsCounted
    OutputIsInOrder
    SuccessIsReal
    ErrnoMeansNothingHappened
VIEW MCView
