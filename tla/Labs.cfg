CONSTANTS
    W = 2
    MaxGets = 2
    TimerMod = 8
    Interval = 3
    MaxPoll = 2
    MaxText = 3
    MaxPuts = 3
    MaxTyped = 1
    MaxMsg = 2
    MaxFiles = 3
    Bits = 6
    MaxWidth = 32
    Block = {b1, b2, b3}
    NULL = NULL
    MaxTid = 5
    Array = {a1, a2}
    NONE = NONE
    NSlots = 5
    Seeds = {0, 75}
    Sizes = {4, 8, 32, 64}
    Degrees <- MCDegrees
    Seps <- MCSeps
    MULT = 7
    MODULUS = 61
    WORD = 8
    Careful = TRUE
    MaxSeeds = 3
    MaxCalls = 4
SPECIFICATION Spec
INVARIANTS TraceFaithful BootInStep EchoStops LinesWhole CrcRight CardRead PrintkRight BlocksWellKept PositionsKept
PROPERTIES ImplementsQueues SeedsByTheBook ImplementsGenerators
CHECK_DEADLOCK FALSE
