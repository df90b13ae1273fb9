---------------------------- MODULE OSScheduler ----------------------------
(***************************************************************************)
(* The round-robin scheduler of the Dewar kernel, its ring of tasks and    *)
(* the garbage-collector task that reaps the dead ones                     *)
(* (src/kernel/src/OS/OSScheduler.c), driven by the timer interrupt and by *)
(* the process services (OSServiceProcess.c, isr_handler_c).               *)
(*                                                                         *)
(* One CPU.  Two instructions of different tasks interleave only where the *)
(* interrupt flag is set, so a step here is a maximal piece of code that   *)
(* runs with interrupts masked, or a single access to shared memory where  *)
(* they are enabled.  Tasks are heap cells: a freed cell keeps its stale   *)
(* contents and may be handed out again.                                   *)
(***************************************************************************)
EXTENDS Integers, FiniteSets

CONSTANTS
    Tasks,          \* heap cells that can hold an OSTask
    KernelTask,     \* the task of kmain
    IdleTask,       \* idle_task
    GCTask,         \* sOSSchedulerGarbageCollectorTask
    None,           \* nullptr
    StackSlots,     \* kernel stacks the heap has room for (bound)
    MaxProcessID,   \* last process id handed out (bound)
    GCSleep,        \* ticks of the collector's OSSchedulerYield(200)
    SleepChoices    \* ticks other callers pass to OSSchedulerYield

Fixed == {KernelTask, IdleTask, GCTask}

ASSUME SchedulerAssumption ==
    /\ IsFiniteSet(Tasks)
    /\ Fixed \subseteq Tasks
    /\ KernelTask # IdleTask /\ KernelTask # GCTask /\ IdleTask # GCTask
    /\ None \notin Tasks
    /\ StackSlots \in Nat /\ StackSlots >= 2
    /\ MaxProcessID \in Nat
    /\ GCSleep \in Nat
    /\ SleepChoices \subseteq Nat

VARIABLES
    allocated,          \* cells of Tasks that are allocated on the heap
    stacks,             \* tasks whose kernelStackBase is allocated
    next, taskState, sleepTicks, waitingForProcess, id,   \* OSTask fields
    entry,              \* the function a task runs
    current,            \* gOSSchedulerCurrentTask
    nextProcessID,      \* gOSSchedulerNextProcessID
    pc,                 \* where each task resumes
    spawning,           \* OSSchedulerSpawn's local `task`, per spawner
    gcPrev, gcNext,     \* the collector's previousTask and nextTask
    panic               \* what OSPanic was called with, if it was

ring == <<next, taskState, sleepTicks, waitingForProcess, id, entry>>
gc   == <<gcPrev, gcNext>>
vars == <<allocated, stacks, ring, current, nextProcessID, pc, spawning, gc,
          panic>>

States == {"Dead", "Running", "Blocked", "Sleeping"}
Entries == {"kmain", "idle", "gc", "init", "ksh", "user"}
SpawnLabels == {"spawnStack", "spawnYield", "spawnRetry", "spawnLink"}
Labels == SpawnLabels \cup
          {"run", "halt", "yieldState", "yieldInt", "int",
           "gcStart", "gcTest", "gcUnlink", "gcFreeStack", "gcFreeTask",
           "gcReload", "gcYield"}
Panics == {"", "no running tasks", "Failed to spawn init"}
ProcessIDs == 0 .. MaxProcessID + 1

TypeOK ==
    /\ allocated \in SUBSET Tasks
    /\ stacks \in SUBSET Tasks
    /\ next \in [Tasks -> Tasks]
    /\ taskState \in [Tasks -> States]
    /\ sleepTicks \in [Tasks -> Nat]
    /\ waitingForProcess \in [Tasks -> ProcessIDs \cup {-1}]
    /\ id \in [Tasks -> ProcessIDs]
    /\ entry \in [Tasks -> Entries]
    /\ current \in Tasks
    /\ nextProcessID \in ProcessIDs
    /\ pc \in [Tasks -> Labels]
    /\ spawning \in [Tasks -> Tasks \cup {None}]
    /\ \A t \in Tasks : pc[t] \in SpawnLabels => spawning[t] # None
    /\ gcPrev \in Tasks /\ gcNext \in Tasks
    /\ panic \in Panics

-----------------------------------------------------------------------------
(* The ring.  ReachUntil(x, stop) is the set of tasks a loop visits that   *)
(* starts at x and follows `next` until it meets a task of `stop`: the     *)
(* smallest set that holds x and is closed under `next` outside `stop`.    *)

ClosedUntil(S, x, stop) == x \in S /\ \A t \in S \ stop : next[t] \in S

ReachUntil(x, stop) ==
    CHOOSE S \in SUBSET Tasks :
        /\ ClosedUntil(S, x, stop)
        /\ \A T \in SUBSET S : ClosedUntil(T, x, stop) => T = S

Ring == ReachUntil(current, {})

(* kmain from the moment interrupts may arrive: OSSchedulerInitialize has  *)
(* linked the idle task and then the collector behind the kernel task.     *)
OSSchedulerInitialize ==
    /\ allocated = Fixed
    /\ stacks = {IdleTask, GCTask}
    /\ next = [t \in Tasks |-> CASE t = KernelTask -> GCTask
                                 [] t = GCTask -> IdleTask
                                 [] OTHER -> KernelTask]
    /\ taskState = [t \in Tasks |-> IF t \in Fixed THEN "Running" ELSE "Dead"]
    /\ sleepTicks = [t \in Tasks |-> 0]
    /\ waitingForProcess = [t \in Tasks |-> -1]
    /\ id = [t \in Tasks |-> 0]
    /\ entry = [t \in Tasks |-> CASE t = KernelTask -> "kmain"
                                  [] t = GCTask -> "gc"
                                  [] OTHER -> "idle"]
    /\ current = KernelTask
    /\ nextProcessID = 1
    /\ pc = [t \in Tasks |-> IF t = GCTask THEN "gcStart" ELSE "run"]
    /\ spawning = [t \in Tasks |-> None]
    /\ gcPrev = GCTask /\ gcNext = GCTask
    /\ panic = ""

-----------------------------------------------------------------------------
(* Interrupts and the switch.                                              *)

(* The interrupt flag while `current` runs.  Kernel tasks start with       *)
(* RFLAGS 0x202; SYSCALL and the exception gates clear it for a user task, *)
(* and only IOKeyboardGetCharacter sets it again before it yields.         *)
InterruptsEnabled ==
    entry[current] = "user" =>
        \/ pc[current] = "run"
        \/ pc[current] \in {"yieldState", "yieldInt"} /\ spawning[current] = None

(* Mutant: the scan takes its tick from the current task only.             *)
TicksAfterScanOwn(t) ==
    LET Less(n) == IF n > 0 THEN n - 1 ELSE 0
    IN  IF t = current THEN Less(Less(sleepTicks[t])) ELSE sleepTicks[t]

(* sleepTicks of a linked task after the scan at the head of               *)
(* OSSchedulerNext: one tick less, and the current task loses a second one.*)
TicksAfterScan(t) ==
    LET Less(n) == IF n > 0 THEN n - 1 ELSE 0
    IN  IF t = current THEN Less(Less(sleepTicks[t])) ELSE Less(sleepTicks[t])

(* Mutant: the search also wakes blocked tasks, whose ticks are 0.         *)
CanRunBlocked(t) ==
    \/ taskState[t] = "Running"
    \/ /\ t # current /\ taskState[t] \in {"Sleeping", "Blocked"}
       /\ TicksAfterScan(t) = 0

(* What makes the search stop at t.  The current task is met last and is   *)
(* not woken: it is running, or the kernel panics.                         *)
CanRun(t) ==
    \/ taskState[t] = "Running"
    \/ t # current /\ taskState[t] = "Sleeping" /\ TicksAfterScan(t) = 0

SwitchTo(nextTask) ==
    LET linked == Ring IN
    /\ sleepTicks' = [t \in Tasks |-> IF t \in linked THEN TicksAfterScan(t)
                                     ELSE sleepTicks[t]]
    /\ taskState' = [taskState EXCEPT ![nextTask] =
                        IF CanRun(nextTask) THEN "Running" ELSE @]
    /\ panic' = IF CanRun(nextTask) THEN "" ELSE "no running tasks"
    /\ current' = nextTask
    /\ UNCHANGED <<allocated, stacks, next, waitingForProcess, id, entry,
                   nextProcessID, spawning, gc>>

(* Mutant: the search starts at the idle task every time.                  *)
OSSchedulerNextFromIdle ==
    LET stops == {t \in Tasks : CanRun(t)} \cup {current}
    IN  \E nextTask \in stops \cap ReachUntil(IdleTask, stops) :
            SwitchTo(nextTask)

(* Mutant: the search passes over the idle task, which is right as long as *)
(* some other task is awake.                                               *)
OSSchedulerNextPastIdle ==
    LET stops == {t \in Tasks \ {IdleTask} : CanRun(t)} \cup {current}
    IN  \E nextTask \in stops \cap ReachUntil(next[current], stops) :
            SwitchTo(nextTask)

OSSchedulerNext ==
    LET stops == {t \in Tasks : CanRun(t)} \cup {current}
    IN  \E nextTask \in stops \cap ReachUntil(next[current], stops) :
            SwitchTo(nextTask)

(* irq0: IOTimerInterruptsHandler. *)
TimerInterrupt ==
    /\ panic = ""
    /\ InterruptsEnabled
    /\ OSSchedulerNext
    /\ UNCHANGED pc

(* Mutant: the collector's outer loop is missing: one pass and it halts.   *)
ResumeLabelOnePass(t) ==
    IF t = GCTask THEN "halt"
    ELSE IF spawning[t] # None THEN "spawnRetry" ELSE "run"

(* Where the task goes on once it is switched back in after `int $32`.     *)
ResumeLabel(t) ==
    IF t = GCTask THEN "gcStart"
    ELSE IF spawning[t] # None THEN "spawnRetry" ELSE "run"

(* `int $32`, the same handler entered on purpose. *)
SoftwareInterrupt ==
    /\ panic = ""
    /\ pc[current] \in {"int", "yieldInt"}
    /\ OSSchedulerNext
    /\ pc' = [pc EXCEPT ![current] = ResumeLabel(current)]

-----------------------------------------------------------------------------
(* OSSchedulerYield: two stores to the task, then the interrupt.           *)

YieldTicks(n) ==
    /\ sleepTicks' = [sleepTicks EXCEPT ![current] = n]
    /\ pc' = [pc EXCEPT ![current] = "yieldState"]
    /\ UNCHANGED <<allocated, stacks, next, taskState, waitingForProcess, id,
                   entry, current, nextProcessID, spawning, gc, panic>>

(* kmain, ksh and the processes poll the keyboard once a tick; ksh also has*)
(* a command to sleep.                                                     *)
Yield ==
    /\ panic = ""
    /\ pc[current] = "run"
    /\ entry[current] \in {"kmain", "ksh", "user"}
    /\ \E n \in SleepChoices : (n = 1 \/ entry[current] = "ksh") /\ YieldTicks(n)

SpawnYield ==
    /\ panic = ""
    /\ pc[current] = "spawnYield"
    /\ YieldTicks(0)

CollectorYield ==
    /\ panic = ""
    /\ pc[current] = "gcYield"
    /\ YieldTicks(GCSleep)

YieldState ==
    /\ panic = ""
    /\ pc[current] = "yieldState"
    /\ taskState' = [taskState EXCEPT ![current] = "Sleeping"]
    /\ pc' = [pc EXCEPT ![current] = "yieldInt"]
    /\ UNCHANGED <<allocated, stacks, next, sleepTicks, waitingForProcess, id,
                   entry, current, nextProcessID, spawning, gc, panic>>

-----------------------------------------------------------------------------
(* OSSchedulerBlock and OSSchedulerTerminate, reached from the services    *)
(* OSServiceProcessWait and OSServiceProcessExit and from a user fault.    *)

OSSchedulerBlock ==
    /\ panic = ""
    /\ entry[current] = "user" /\ pc[current] = "run"
    /\ \E processID \in 1 .. nextProcessID - 1 :
           waitingForProcess' = [waitingForProcess EXCEPT ![current] = processID]
    /\ taskState' = [taskState EXCEPT ![current] = "Blocked"]
    /\ pc' = [pc EXCEPT ![current] = "int"]
    /\ UNCHANGED <<allocated, stacks, next, sleepTicks, id, entry, current,
                   nextProcessID, spawning, gc, panic>>

(* OSSchedulerWakeup's test, over the ring from the current task.          *)
Woken(processID) ==
    {t \in Ring : t # current /\ taskState[t] = "Blocked"
                  /\ waitingForProcess[t] = processID}

OSSchedulerTerminate ==
    /\ panic = ""
    /\ entry[current] = "user" /\ pc[current] = "run"
    /\ LET woken == Woken(id[current]) IN
        /\ taskState' = [t \in Tasks |->
                            IF t = current THEN "Dead"
                            ELSE IF t \in woken \cup {GCTask} THEN "Running"
                            ELSE taskState[t]]
        /\ waitingForProcess' = [t \in Tasks |->
                IF t \in woken THEN -1 ELSE waitingForProcess[t]]
    /\ sleepTicks' = [sleepTicks EXCEPT ![GCTask] = 0]
    /\ pc' = [pc EXCEPT ![current] = "int"]
    /\ UNCHANGED <<allocated, stacks, next, id, entry, current, nextProcessID,
                   spawning, gc, panic>>

-----------------------------------------------------------------------------
(* OSSchedulerSpawn.  kmain starts one kernel task (ksh or init_task_entry)*)
(* and halts; init_task_entry loads the first process and halts; processes *)
(* spawn others through OSServiceProcessSpawn.                             *)

SpawnDone(t) == IF entry[t] = "user" THEN "run" ELSE "halt"

(* init_task_entry panics when it cannot start the first process.          *)
SpawnFailure(t) == IF entry[t] = "init" THEN "Failed to spawn init" ELSE ""

(* What kmain starts is a task of the kernel process; the others go through*)
(* OSLoaderProcessSpawn, which takes a new process id.                     *)
LoadsProcess(t) == entry[t] # "kmain"

SpawnedKinds(t) == IF LoadsProcess(t) THEN {"user"} ELSE {"init", "ksh"}

(* Mutant: the null test on the OSTask is missing.                         *)
SpawnNoCellUnchecked ==
    /\ allocated = Tasks
    /\ pc' = [pc EXCEPT ![current] = "spawnStack"]
    /\ UNCHANGED <<allocated, entry, id, spawning, panic>>

(* No heap cell for the OSTask: the call fails at once.                    *)
SpawnNoCell ==
    /\ allocated = Tasks
    /\ pc' = [pc EXCEPT ![current] = SpawnDone(current)]
    /\ panic' = SpawnFailure(current)
    /\ UNCHANGED <<allocated, entry, id, spawning>>

SpawnCell(task, kind) ==
    /\ allocated' = allocated \cup {task}
    /\ spawning' = [spawning EXCEPT ![current] = task]
    /\ entry' = [entry EXCEPT ![task] = kind]
    /\ id' = [id EXCEPT ![task] = IF LoadsProcess(current) THEN nextProcessID ELSE 0]
    /\ pc' = [pc EXCEPT ![current] = "spawnStack"]
    /\ UNCHANGED panic

SpawnBegin ==
    /\ panic = ""
    /\ entry[current] \in {"kmain", "init", "user"} /\ pc[current] = "run"
    /\ IF LoadsProcess(current)
       THEN nextProcessID <= MaxProcessID /\ nextProcessID' = nextProcessID + 1
       ELSE UNCHANGED nextProcessID
    /\ \/ SpawnNoCell
       \/ \E task \in Tasks \ allocated, kind \in SpawnedKinds(current) :
              SpawnCell(task, kind)
    /\ UNCHANGED <<stacks, next, taskState, sleepTicks, waitingForProcess,
                   current, gc>>

StackAvailable == Cardinality(stacks) < StackSlots

TakeStack ==
    /\ stacks' = stacks \cup {spawning[current]}
    /\ pc' = [pc EXCEPT ![current] = "spawnLink"]

sOSSchedulerPostGarbageCollectorSignal ==
    /\ taskState' = [taskState EXCEPT ![GCTask] = "Running"]
    /\ sleepTicks' = [sleepTicks EXCEPT ![GCTask] = 0]

(* The first attempt; on failure the collector is signalled.               *)
SpawnStack ==
    /\ panic = ""
    /\ pc[current] = "spawnStack"
    /\ \/ StackAvailable /\ TakeStack /\ UNCHANGED <<taskState, sleepTicks>>
       \/ /\ ~StackAvailable
          /\ sOSSchedulerPostGarbageCollectorSignal
          /\ pc' = [pc EXCEPT ![current] = "spawnYield"]
          /\ UNCHANGED stacks
    /\ UNCHANGED <<allocated, next, waitingForProcess, id, entry, current,
                   nextProcessID, spawning, gc, panic>>

(* Mutant: the failing call does not free the OSTask.                      *)
SpawnRetryLeak ==
    /\ panic = ""
    /\ pc[current] = "spawnRetry"
    /\ \/ StackAvailable /\ TakeStack /\ UNCHANGED <<spawning, panic>>
       \/ /\ ~StackAvailable
          /\ spawning' = [spawning EXCEPT ![current] = None]
          /\ pc' = [pc EXCEPT ![current] = SpawnDone(current)]
          /\ panic' = SpawnFailure(current)
          /\ UNCHANGED stacks
    /\ UNCHANGED <<allocated, ring, current, nextProcessID, gc>>

(* The second attempt; on failure the cell is freed and the call fails.    *)
SpawnRetry ==
    /\ panic = ""
    /\ pc[current] = "spawnRetry"
    /\ \/ StackAvailable /\ TakeStack /\ UNCHANGED <<allocated, spawning, panic>>
       \/ /\ ~StackAvailable
          /\ allocated' = allocated \ {spawning[current]}
          /\ spawning' = [spawning EXCEPT ![current] = None]
          /\ pc' = [pc EXCEPT ![current] = SpawnDone(current)]
          /\ panic' = SpawnFailure(current)
          /\ UNCHANGED stacks
    /\ UNCHANGED <<ring, current, nextProcessID, gc>>

(* Mutant: the two stores of the link are swapped.                         *)
SpawnLinkSwapped ==
    /\ panic = ""
    /\ pc[current] = "spawnLink"
    /\ LET task == spawning[current] IN
        /\ next' = [next EXCEPT ![current] = task, ![task] = task]
        /\ taskState' = [taskState EXCEPT ![task] = "Running"]
        /\ sleepTicks' = [sleepTicks EXCEPT ![task] = 0]
        /\ waitingForProcess' = [waitingForProcess EXCEPT ![task] = -1]
        /\ pc' = [pc EXCEPT ![current] = SpawnDone(current), ![task] = "run"]
    /\ spawning' = [spawning EXCEPT ![current] = None]
    /\ UNCHANGED <<allocated, stacks, id, entry, current, nextProcessID, gc, panic>>

(* Link the task behind the current one, under sOSSchedulerLock.           *)
SpawnLink ==
    /\ panic = ""
    /\ pc[current] = "spawnLink"
    /\ LET task == spawning[current] IN
        /\ next' = [next EXCEPT ![task] = next[current], ![current] = task]
        /\ taskState' = [taskState EXCEPT ![task] = "Running"]
        /\ sleepTicks' = [sleepTicks EXCEPT ![task] = 0]
        /\ waitingForProcess' = [waitingForProcess EXCEPT ![task] = -1]
        /\ pc' = [pc EXCEPT ![current] = SpawnDone(current), ![task] = "run"]
    /\ spawning' = [spawning EXCEPT ![current] = None]
    /\ UNCHANGED <<allocated, stacks, id, entry, current, nextProcessID, gc,
                   panic>>

-----------------------------------------------------------------------------
(* OSSchedulerGarbageCollector: a kernel task, preemptible between any two *)
(* of its accesses except inside the unlink.                               *)

CollectorAt(label) == panic = "" /\ current = GCTask /\ pc[GCTask] = label

CollectorStart ==
    /\ CollectorAt("gcStart")
    /\ gcPrev' = GCTask
    /\ gcNext' = next[GCTask]
    /\ pc' = [pc EXCEPT ![GCTask] = "gcTest"]
    /\ UNCHANGED <<allocated, stacks, ring, current, nextProcessID, spawning,
                   panic>>

CollectorTest ==
    /\ CollectorAt("gcTest")
    /\ \/ /\ gcNext = GCTask
          /\ pc' = [pc EXCEPT ![GCTask] = "gcYield"]
          /\ UNCHANGED gc
       \/ /\ gcNext # GCTask /\ taskState[gcNext] = "Dead"
          /\ pc' = [pc EXCEPT ![GCTask] = "gcUnlink"]
          /\ UNCHANGED gc
       \/ /\ gcNext # GCTask /\ taskState[gcNext] # "Dead"
          /\ gcPrev' = gcNext
          /\ gcNext' = next[gcNext]
          /\ UNCHANGED pc
    /\ UNCHANGED <<allocated, stacks, ring, current, nextProcessID, spawning,
                   panic>>

(* Mutant: the dead task is freed while it is still linked.                *)
CollectorUnlinkSkipped ==
    /\ CollectorAt("gcUnlink")
    /\ pc' = [pc EXCEPT ![GCTask] = "gcFreeStack"]
    /\ UNCHANGED <<allocated, stacks, ring, current, nextProcessID, spawning, gc, panic>>

CollectorUnlink ==
    /\ CollectorAt("gcUnlink")
    /\ next' = [next EXCEPT ![gcPrev] = next[gcNext]]
    /\ pc' = [pc EXCEPT ![GCTask] = "gcFreeStack"]
    /\ UNCHANGED <<allocated, stacks, taskState, sleepTicks, waitingForProcess,
                   id, entry, current, nextProcessID, spawning, gc, panic>>

CollectorFreeStack ==
    /\ CollectorAt("gcFreeStack")
    /\ stacks' = stacks \ {gcNext}
    /\ pc' = [pc EXCEPT ![GCTask] = "gcFreeTask"]
    /\ UNCHANGED <<allocated, ring, current, nextProcessID, spawning, gc,
                   panic>>

CollectorFreeTask ==
    /\ CollectorAt("gcFreeTask")
    /\ allocated' = allocated \ {gcNext}
    /\ pc' = [pc EXCEPT ![GCTask] = "gcReload"]
    /\ UNCHANGED <<stacks, ring, current, nextProcessID, spawning, gc, panic>>

CollectorReload ==
    /\ CollectorAt("gcReload")
    /\ gcNext' = next[gcPrev]
    /\ pc' = [pc EXCEPT ![GCTask] = "gcTest"]
    /\ UNCHANGED <<allocated, stacks, ring, current, nextProcessID, spawning,
                   gcPrev, panic>>

Collector ==
    \/ CollectorStart \/ CollectorTest \/ CollectorUnlink
    \/ CollectorFreeStack \/ CollectorFreeTask \/ CollectorReload

-----------------------------------------------------------------------------
(* What the running task does next: the code it is in the middle of.       *)
Continue ==
    \/ SoftwareInterrupt \/ SpawnYield \/ CollectorYield \/ YieldState
    \/ SpawnStack \/ SpawnRetry \/ SpawnLink \/ Collector

(* What a program may ask for.                                             *)
Request == Yield \/ OSSchedulerBlock \/ OSSchedulerTerminate \/ SpawnBegin

Next == TimerInterrupt \/ Continue \/ Request

Spec == OSSchedulerInitialize /\ [][Next]_vars

(* The timer keeps firing (1 kHz), and a task that is switched in again and*)
(* again gets on with the code it is in: a time slice is about a million   *)
(* cycles.  Nothing is assumed of what programs ask for.                   *)
FairSpec ==
    /\ Spec
    /\ WF_vars(TimerInterrupt)
    /\ \A t \in Tasks : SF_vars(current = t /\ Continue)

-----------------------------------------------------------------------------
(* Properties. *)

(* No freed memory is used: every task the kernel can reach by walking the *)
(* ring is allocated and has its kernel stack, the collector's pointers are*)
(* allocated where it dereferences them, and what it frees is allocated and*)
(* no longer linked.                                                       *)
NoUseAfterFree ==
    LET linked == Ring IN
        /\ linked \subseteq allocated
        /\ linked \ {KernelTask} \subseteq stacks
        /\ gcPrev \in allocated
        /\ pc[GCTask] \in {"gcTest", "gcUnlink"} => gcNext \in allocated
        /\ pc[GCTask] \in {"gcFreeStack", "gcFreeTask"} =>
               gcNext \in allocated \ linked
        /\ pc[GCTask] = "gcFreeStack" => gcNext \in stacks

(* The inductive invariant behind NoUseAfterFree.  r numbers the linked    *)
(* tasks upwards from the collector, and a step along `next` goes to the   *)
(* next number up, or back to the collector from the highest one.          *)

LinkedBy(r) == {t \in Tasks : r[t] >= 0}

RingOrdered(r) ==
    LET L == LinkedBy(r) IN
    /\ r[GCTask] = 0
    /\ \A x, y \in L : r[x] = r[y] => x = y
    /\ \A x \in L : /\ next[x] \in L
                    /\ next[x] = GCTask \/ r[x] < r[next[x]]
    /\ \A x, y \in L : r[x] < r[y] => next[x] # GCTask /\ r[next[x]] <= r[y]

LinkedAllocated(r) ==
    LET L == LinkedBy(r) IN
    /\ Fixed \subseteq L /\ current \in L
    /\ L \subseteq allocated
    /\ L \ {KernelTask} \subseteq stacks

(* What the collector holds.  A task spawned behind previousTask since     *)
(* nextTask was read lies between the two; a service task never does.      *)
CollectorHolds(r) ==
    LET L == LinkedBy(r) IN
    /\ gcPrev \in L
    /\ pc[GCTask] \in {"gcTest", "gcUnlink"} =>
        /\ gcNext \in L
        /\ gcNext = GCTask \/ r[gcPrev] < r[gcNext]
        /\ \A f \in Fixed : ~(r[gcPrev] < r[f] /\ r[f] < r[gcNext])
    /\ pc[GCTask] = "gcUnlink" => gcNext \notin Fixed
    /\ pc[GCTask] \in {"gcFreeStack", "gcFreeTask"} =>
        /\ gcNext \in allocated \ L
        /\ \A s \in Tasks : spawning[s] # gcNext
    /\ pc[GCTask] = "gcFreeStack" => gcNext \in stacks

(* What the spawners hold: cells of their own that are not linked yet.     *)
SpawnersHold(r) ==
    /\ \A s \in Tasks : spawning[s] # None => spawning[s] \in allocated \ LinkedBy(r)
    /\ \A s, t \in Tasks : spawning[s] = spawning[t] => s = t \/ spawning[s] = None
    /\ \A s \in Tasks : pc[s] = "spawnLink" => spawning[s] \in stacks

(* What the service tasks run, and that they never die.                    *)
ServiceTasks ==
    /\ entry[KernelTask] = "kmain" /\ entry[IdleTask] = "idle" /\ entry[GCTask] = "gc"
    /\ taskState[KernelTask] # "Dead" /\ taskState[GCTask] # "Dead"
    /\ taskState[IdleTask] = "Running" /\ pc[IdleTask] = "run"
    /\ pc[GCTask] \in {"yieldState", "yieldInt", "gcStart", "gcTest", "gcUnlink",
                        "gcFreeStack", "gcFreeTask", "gcReload", "gcYield"}

(* What the states say.  The task that has the CPU is running until it has *)
(* put itself to sleep, blocked or died, and then it is on its way to the  *)
(* switch; a cell that is free, being spawned or being freed is dead.      *)
TaskStates ==
    /\ \/ taskState[current] = "Running"
       \/ taskState[current] = "Sleeping" /\ pc[current] = "yieldInt"
       \/ taskState[current] \in {"Blocked", "Dead"} /\ pc[current] = "int"
    /\ taskState[GCTask] # "Blocked"
    /\ \A t \in Tasks \ allocated : taskState[t] = "Dead"
    /\ \A s \in Tasks : spawning[s] # None => taskState[spawning[s]] = "Dead"
    /\ pc[GCTask] \in {"gcUnlink", "gcFreeStack", "gcFreeTask"} =>
           taskState[gcNext] = "Dead"

RankInv(r) ==
    /\ RingOrdered(r) /\ LinkedAllocated(r)
    /\ CollectorHolds(r) /\ SpawnersHold(r)

(* The assertion in OSSchedulerNext: a switch always finds a task to run.  *)
AlwaysRunnable == panic # "no running tasks"

(* Memory comes back: an allocated cell is linked, or held by a task that  *)
(* is still spawning it, or by the collector that is freeing it, and a     *)
(* stack never outlives its task.  (Instances in which the collector cannot*)
(* race with a spawn; see LiveTasksLinked.)                                *)
NothingLeaked ==
    LET linked == Ring
        freeing == IF pc[GCTask] \in {"gcFreeStack", "gcFreeTask"} THEN {gcNext} ELSE {}
    IN  /\ allocated \ linked \subseteq {spawning[s] : s \in linked} \cup freeing
        /\ stacks \subseteq allocated

(* A task that was spawned and has not died is in the ring, whatever the   *)
(* collector is doing: the round robin serves every task.                  *)
LiveTasksLinked ==
    \A t \in allocated :
        (taskState[t] # "Dead" /\ \A s \in Tasks : spawning[s] # t) => t \in Ring

(* A blocked task goes on only in the step in which the process it waits   *)
(* for dies, and a dead task stays dead as long as it is linked.           *)
BlockedUntilExit ==
    [][\A t \in Tasks :
        /\ taskState[t] = "Blocked" /\ taskState'[t] # "Blocked" =>
               \E s \in Tasks : /\ taskState[s] # "Dead" /\ taskState'[s] = "Dead"
                                /\ id[s] = waitingForProcess[t]
        /\ taskState[t] = "Dead" /\ taskState'[t] # "Dead" => t \notin Ring]_vars

(* Round robin: a task that is ready, or asleep, gets the CPU.  (Instances *)
(* in which the collector cannot race with a spawn, as for NothingLeaked.) *)
EveryReadyTaskRuns ==
    \A t \in Tasks :
        (t \in allocated /\ taskState[t] \in {"Running", "Sleeping"}) ~> current = t

(* The collector gets to every dead task and frees it.  (A cell that is    *)
(* being spawned still shows the state of the task that died in it.)       *)
DeadTasksReaped ==
    \A t \in Tasks \ Fixed :
        (t \in allocated /\ taskState[t] = "Dead")
            ~> (t \notin allocated \/ taskState[t] # "Dead")

(* What sys_wait is for: a process that waits for another one goes on once *)
(* no task of that process is alive.                                       *)
WaitReturns ==
    \A t \in Tasks :
        (t \in Ring /\ taskState[t] = "Blocked"
            /\ \A s \in Tasks : id[s] = waitingForProcess[t] => taskState[s] = "Dead")
        ~> (taskState[t] # "Blocked" \/ t \notin Ring)

=============================================================================
