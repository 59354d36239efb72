CONSTANTS
    flash = flash
    calib = calib
    other = other
    preSleep = preSleep
    sleepAbort = sleepAbort
    postAwake = postAwake
    spare = spare
    Callbacks = {flash, calib, other, spare}
    Priority <- DistinctPriority
    Events = {preSleep, sleepAbort, postAwake}
    FPCI_MAX_REG = 4
    SIZE_MAX = 255
    NoCb = NoCb
    NoEvent = NoEvent
    MAX_NUM_HBIN = 2
    HbinRange = 3
    TS_HYS_THRESH = 1
    WordSize = 256
    Temps = {1, 4, 6, 9}
    SleepModeCfg = TRUE
    MaxMessages = 1
    NoHbin = NoHbin
    FirstTemp = 4
    Ref = Ref
    c1 = c1
    c2 = c2
    c3 = c3
    Clients = {c1}
    None = None
    ActiveMax = 1
    MaxRequest = 2
    Definitions <- PlainDefinitions
SPECIFICATION PowerSpec
PROPERTY SameHbinNoTrigger
