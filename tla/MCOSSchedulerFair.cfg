SPECIFICATION FairSpec
CONSTANTS
    KernelTask = kernel
    IdleTask = idle
    GCTask = gc
    None = none
    Tasks = {kernel, idle, gc, t1, t2, t3}
    StackSlots = 5
    MaxProcessID = 2
    GCSleep = 4
    SleepChoices = {1, 4}
ACTION_CONSTRAINT FirstFit
INVARIANT AlwaysRunnable
PROPERTIES EveryReadyTaskRuns DeadTasksReaped
