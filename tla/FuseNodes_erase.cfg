\* The hp variant alone: a lookup counts a node between unlock and erase.
CONSTANTS
    Threads = {t1, t2}
    NNames = 2
    Files = {f, g}
    Foreign = {}
    NoFile = NoFile
    NoThread = NoThread
    MaxNode = 2
    MaxFd = 3
    MaxLook = 2
    LookAfterRace = TRUE
    MaxFaults = 1
    Impl = {"hp"}
SYMMETRY Symmetric
SPECIFICATION Spec
INVARIANT KernelNodesKnown
CHECK_DEADLOCK FALSE
