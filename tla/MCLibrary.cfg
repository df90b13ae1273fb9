SPECIFICATION MCSpec
CONSTANTS
    HeapSize = 384
    HeaderSize = 40
    Word = 4096
    Sizes <- MCSizes
    PageSize = 128
    Frames = 3
    Chunk = 2
    NameSize = 3
    Unsigned = 256
    IntMax = 127
    ImagePage = 4
    Addresses <- MCAddresses
    Bits = 10
    Shift1 = 3
    Shift2 = 2
    Shift3 = 5
    BOOTINFO_MAGIC <- MCMagic
    Writers = {shell, kmain, service}
    FifoDepth = 3
    MaxWritten = 2
    LineLength = 6
    PathLength = 5
INVARIANTS MemoryConsistent LinesParsed TextsFit ImagesLoaded NeverStuck SerialKeepsAll
CHECK_DEADLOCK FALSE
