\* Two requests at a time on a directory with two names (hard links included).
CONSTANTS
    Threads = {t1, t2}
    NNames = 2
    Files = {f, g}
    Foreign = {}
    NoFile = NoFile
    NoThread = NoThread
    MaxNode = 2
    MaxFd = 3
    MaxLook = 2
    LookAfterRace = FALSE
    MaxFaults = 1
    Impl = {"ll", "hp"}
SYMMETRY Symmetric
SPECIFICATION Spec
INVARIANTS OneOwner RefsExact NodesRight SomeoneRuns
CHECK_DEADLOCK FALSE
