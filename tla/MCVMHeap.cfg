SPECIFICATION Spec
CONSTANTS
    HeapSize = 288
    HeaderSize = 40
    Word = 4096
    Sizes <- MCSizes
INVARIANTS HeapTiled HeapCoalesced
PROPERTY ImplementsAllocator
CHECK_DEADLOCK FALSE
