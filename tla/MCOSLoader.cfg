SPECIFICATION Spec
CONSTANTS
    Memories = {24, 40, 48, 56, 60}
    MemoryMaps <- MCMaps
    PageSize = 4
    BlocksPerByte = 8
    SafeFrames = 2
    KernelFrames <- MCKernelFrames
    Entries = 4
    KernelFirst = 2
    KernelEnd = 5
    GuardPage = 195
    HhdmBase = 128
    KernelBase = 192
    FramebufferBase = 240
    FramebufferFrame = 100
    FramebufferPages = 2
    KernelHeapStart = 208
    KernelHeapPages = 2
    UserStackBottom = 22
    UserStackTop = 24
    Images <- MCImages
    MaxProcessID = 2
    HeapStart = 16
    Sizes = {1, 9}
INVARIANTS Isolation KernelMapped ProcessMapped
CHECK_DEADLOCK FALSE
