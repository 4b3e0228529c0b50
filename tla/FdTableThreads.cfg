SPECIFICATION FairSpec
CONSTANTS
    Emulators = {e1, e2}
    LastFd = 4
    Files = {f1}
    Pipes = {p1}
    Sockets = {s1, s2}
    Careless = FALSE
    Wide = {FALSE}
    None = None
INVARIANTS
    EntriesAreTrue
PROPERTIES
    EachHasItsOwnTable
    LeakOnlyByErrOrRestart
    LockKeptOnlyByPipes
CHECK_DEADLOCK FALSE
