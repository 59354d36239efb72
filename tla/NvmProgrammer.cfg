SPECIFICATION Spec
CONSTANTS
    PAGE_SIZE = 2
    BLOCK_SIZE = 4
    Density = 3
    WORD = 32
    RramSize = 16
    RRAM_ERASE_START = 4
    ADDR_ALIGN = 2
    RRAM_ALIGN = 4
    RRAM_BLOCK_MAX = 8
    RRAM_ERASE_BUFFER = 4
    BUFFER_SIZE = 4
    HOST_PIECE = 8
    Jobs <- MCJobs
    Contents <- MCContents
    MaxSessions = 2
INVARIANTS
    SuccessMeansDone
    NoFalseAlarm
    OutsideUntouched

    
CHECK_DEADLOCK FALSE
