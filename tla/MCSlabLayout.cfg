CONSTANTS
    PAGE_SIZE = 4096
    SlabStruct = 28
    Bufctl = 4
    SLAB_LIMIT = 120
    MAX_ORDER = 2
    Word = 1073741824
    BufferSizes <- MCBufferSizes
    Aligns = {4, 16, 32, 64}
SPECIFICATION Spec
INVARIANTS Fits NoRoomWasted
