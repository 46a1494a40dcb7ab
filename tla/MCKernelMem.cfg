CONSTANTS
    LIST_POISON1 = LIST_POISON1
    LIST_POISON2 = LIST_POISON2
    NULL = NULL
    MAX_ORDER = 2
    Size <- MCSize
    DmaPages = 8
    MemSizes = {12, 16, 20}
    MaxPages = 20
    KernelSizes = {1, 3}
    RamImages <- Zeroed
    ULong = 64
    Requests = {0, 1, 2, 3}
    FreeOrders = {2}
    HoldLimit = 8
    CountLimit = 8
    MappedPages = 14
    Num = 2
    Limit = 1
    BatchCount = 1
    BATCHREFILL_LIMIT = 16
SPECIFICATION KernelMemSpec
INVARIANTS EveryPageOnce ObjectsApart UpExactlyOn
PROPERTIES KeepsPromise ImplementsSlab
