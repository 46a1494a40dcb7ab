CONSTANTS
    LIST_POISON1 = LIST_POISON1
    LIST_POISON2 = LIST_POISON2
    NULL = NULL
    MAX_ORDER = 2
    Size <- MCSize
    DmaPages = 8
    MemSizes = {12}
    MaxPages = 12
    KernelSizes = {3}
    RamImages <- Zeroed
    ULong = 64
    Requests = {0}
    FreeOrders = {0}
    HoldLimit = 4
    CountLimit = 8
SPECIFICATION Spec
PROPERTY MergesPairs
