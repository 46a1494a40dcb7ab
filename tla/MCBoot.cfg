CONSTANTS
    Sector = 2
    Buffer = 4
    DISK_SIZE = 301
    SizeT = 1024
    LoaderFiles = {0, 1, 2, 3}
    KernelFiles = {101, 219, 220, 299, 302}
    OldImages = {0, 50, 301, 400}
    Rooms = {51, 300, 310}
    TrackSectors = 18
    SegmentSectors = 128
    LastTrack = 3
    ExtendedKB = {1024, 1344, 5120, 7104, 15424, 65600, 300032}
    StaleWords = {0, 3}
    Entries = 256
    Tables = 8
    KernelEntry = 192
    StaleEntries <- MCStaleEntries
    SectorSize = 512
    PageSize = 4096
    EntrySize = 16
    PageStruct = 20
    KernelBase = 1048576
    BssSizes = {15, 16}
SPECIFICATION Spec
INVARIANTS ImageWhole WholeUpToSegment MemoryMeasured MemorySeen 
PROPERTY BootEnds
