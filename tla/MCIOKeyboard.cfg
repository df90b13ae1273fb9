SPECIFICATION FairSpec
CONSTANTS
    Readers = {shell, process}
    UserReaders = {process}
    Nobody = nobody
    BufferSize = 3
    MaxCount = 2
    MaxWire = 1
INVARIANT NobodySpins
PROPERTIES ImplementsInputQueue BufferDrains
