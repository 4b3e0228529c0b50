SPECIFICATION Spec
CONSTANTS
    Word = 16
    MaxErrno = 2
    Names = {"a", "b"}
    Dirs = {"d1", "d2"}
    Files = {"f"}
    Fds = {3, 4}
    Tree <- MCTree
    Cwd <- MCCwd
    Depth = 1
    MaxMoves = 1
    None = None
INVARIANTS
    KeptPathIsTrue
PROPERTIES
    ActsOnWhatWasMeant
    AnswerIsOfThisCall
VIEW MCView
