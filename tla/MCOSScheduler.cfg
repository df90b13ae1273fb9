SPECIFICATION Spec
CONSTANTS
    KernelTask = kernel
    IdleTask = idle
    GCTask = gc
    None = none
    Tasks = {kernel, idle, gc, t1, t2, t3, t4}
    StackSlots = 5
    MaxProcessID = 4
    GCSleep = 1
    SleepChoices = {}
SYMMETRY Cells
INVARIANTS TypeOK NothingLeaked
PROPERTY BlockedUntilExit
