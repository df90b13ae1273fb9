SPECIFICATION Spec
CONSTANTS
    UserTasks = {a, b}
    KernelTask = kernel
    Faults = {0, 14}
INVARIANTS ContextKept SegmentsFit FaultContained
CHECK_DEADLOCK FALSE
