CONSTANTS
    Linked <- Linkage
    Threads = {1, 2}
    NKEYS = 2
    DTOR_ITERATIONS = 2
    MaxValues = 2
    MaxObjects = 2
    MaxKeys = 2
    DeleteDuringExit = FALSE
    DeleteWithValues = FALSE
    RegisterInKeyDtor = FALSE
SPECIFICATION MemorySpec
INVARIANTS
    BlocksApart
    PagesAccounted
    
    EnvironTrue
    MemoryStreamsTrue
    
CHECK_DEADLOCK FALSE
