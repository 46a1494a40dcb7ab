CONSTANTS
    NULL = NULL
    Pages = {p1, p2, p3}
    Num = 4
    Limit = 2
    BatchCount = 2
    BATCHREFILL_LIMIT = 1
SPECIFICATION Spec
INVARIANTS TypeOK NoDoubleHandout FreeChainExact ListsMatchUse
PROPERTIES GrowsWhenExhausted AllocEnds
