SPECIFICATION Spec
CONSTANTS
    Emulators = {e1}
    LastFd = 4
    Files = {f1, f2}
    Pipes = {}
    Sockets = {s1}
    Careless = TRUE
    Wide = {FALSE, TRUE}
    None = None
PROPERTIES
    StaleOnlyByHostClose
    DeadOnlyOverStale
CHECK_DEADLOCK FALSE
