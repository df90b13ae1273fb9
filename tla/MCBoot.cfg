SPECIFICATION Spec
CONSTANTS
    HeaderSize = 110
    Trailer = "TRAILER!!!"
    Word = 4096
    MemoryMaps = {}
    PageSize = 4
    BlocksPerByte = 2
    SafeFrames = 2
    KernelFrames = {2, 3}
    FrameCount = 10
    Layouts <- MCLayouts
    MapsOf <- MCMapsOf
    KernelStart = 2
    KernelPages = 2
    Volumes <- MCVolumes
    InitPath = "init"
    MapSlack = 1
    MappedFrames = 9
    MaxEvents = 2
INVARIANTS MapIsCurrent ReadyInTime InitNeedsVolume OnlyUsableHandedOut NoFrameLost ArchivesReadBack
 
CHECK_DEADLOCK FALSE
