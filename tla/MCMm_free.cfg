CONSTANTS
    LIST_POISON1 = LIST_POISON1
    LIST_POISON2 = LIST_POISON2
    NULL = NULL
    MAX_ORDER = 2
    Size <- MCSize
    DmaPages = 4
    MemSizes = {3, 4, 5, 7, 8}
    MaxPages = 8
    KernelSizes = {1}
    RamImages <- Stale
    ULong = 64
    Requests = {0, 1}
    FreeOrders = {0}
    HoldLimit = 3
    CountLimit = 8
SPECIFICATION Spec
INVARIANTS TypeOK KernelPagesSafe BootsExactlyOn
PROPERTIES PagesConserved CallsEnd
