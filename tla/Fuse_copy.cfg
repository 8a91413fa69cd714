CONSTANTS
    Threads = {t1, t2}
    NNames = 2
    Files = {f, g}
    Root = Root
    NoFile = NoFile
    MaxFd = 3
    MaxOpen = 2
    MaxFaults = 1
    NEnt = 4
    MaxChange = 2
    MaxErrs = 3
    MaxVersion = 2
    MaxKnown = 1
    MaxSize = 3
    MaxOps = 3
    FSEL_FILES = 4
    FSEL_CNT_MAX = 2
    MaxPolls = 8
    MaxRounds = 9
    HLen = 3
    HAVE_COPY_FILE_RANGE = {"passthrough"}
SYMMETRY Symmetric
SPECIFICATION Spec
INVARIANT OpenUntilRelease
CHECK_DEADLOCK FALSE
