\* The hp variant alone: a lookup races with a forget.
CONSTANTS
    Threads = {t1, t2}
    NNames = 2
    Files = {f, g}
    Foreign = {}
    NoFile = NoFile
    NoThread = NoThread
    MaxNode = 2
    MaxFd = 3
    MaxLook = 2
    LookAfterRace = TRUE
    MaxFaults = 1
    Impl = {"hp"}
SYMMETRY Symmetric
SPECIFICATION Spec
INVARIANT NoUseAfterFree
CHECK_DEADLOCK FALSE
