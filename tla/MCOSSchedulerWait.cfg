SPECIFICATION FairSpec
CONSTANTS
    KernelTask = kernel
    IdleTask = idle
    GCTask = gc
    None = none
    Tasks = {kernel, idle, gc, t1, t2, t3}
    StackSlots = 5
    MaxProcessID = 2
    GCSleep = 1
    SleepChoices = {}
ACTION_CONSTRAINT FirstFit
PROPERTY
    WaitReturns
