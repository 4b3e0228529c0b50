SPECIFICATION Spec
CONSTANTS
    Emulators = {e1}
    LastFd = 4
    Files = {f1}
    Pipes = {}
    Sockets = {s1}
    Careless = FALSE
    Wide = {FALSE}
    None = None
PROPERTY StartsWithoutFds
CHECK_DEADLOCK FALSE
