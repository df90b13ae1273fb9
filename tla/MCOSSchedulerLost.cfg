SPECIFICATION Spec
CONSTANTS
    KernelTask = kernel
    IdleTask = idle
    GCTask = gc
    None = none
    Tasks = {kernel, idle, gc, t1, t2, t3, t4}
    StackSlots = 6
    MaxProcessID = 3
    GCSleep = 1
    SleepChoices = {}
SYMMETRY Cells
INVARIANT
    LiveTasksLinked
