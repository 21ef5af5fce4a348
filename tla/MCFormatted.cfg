SPECIFICATION ConversionsSpec
CHECK_DEADLOCK FALSE
CONSTANTS
    Linked <- Linkage
    MaxBits = 8
    IntBits = 7
    ShortBits = 5
    CharBits = 4
    MAX_DIGITS = 5
    HexBits = 12
    ExpMax = 30
    ExpDigits = 20
    FLT <- Float
    DBL <- Double
    LDBL <- LongDouble
    FastDigits = 1
    FastExp = 0
    MidDigits = 2
    MidExp = 2
    TopN = 16
    TopD = 8
    LimbDigits = 1
    TwoChunk = 2
    FiveChunk = 1
    NL_ARGMAX = 3
    Chunk = 2
    Small = 4
    ErrorText <- Strerror
    Tasks <- AllJobs
INVARIANTS PrintfTrue ScanfTrue CharsetTrue 
