------------------------------ MODULE HALEntry ------------------------------
(***************************************************************************)
(* The ways into and out of the kernel: the interrupt and exception stubs  *)
(* (interrupts.asm, interrupts.c), the SYSCALL path (syscall.asm,          *)
(* syscall.c), the tables the CPU consults on the way (GDT.c, IDT.c), the  *)
(* frame OSSchedulerSpawn fakes, and the stubs of the user library         *)
(* (OSServices.asm, RuntimeEntry.asm).                                     *)
(*                                                                         *)
(* Stacks are sequences of words, registers hold the names of the values   *)
(* programs put there.  Code that runs with interrupts masked is one step. *)
(* The scheduler is seen as a choice of any task that lives (OSScheduler). *)
(***************************************************************************)
EXTENDS HALTables

CONSTANTS
    UserTasks,      \* tasks of processes, each with an address space
    KernelTask,     \* kmain, on the boot stack
    Faults          \* the exceptions programs raise (bound)

(* kmain's task belongs to no process. *)
ASSUME EntryAssumption == KernelTask \notin UserTasks

Tasks == UserTasks \cup {KernelTask}

VARIABLES
    cpu,            \* registers, rip, cs, ss, interrupt flag, rsp
    gs,             \* GS_BASE and KERNEL_GS_BASE
    mem,            \* the stacks
    current,        \* gOSSchedulerCurrentTask
    alive,          \* tasks that are not dead
    stackPointer,   \* OSTask.stackPointer
    rsp0,           \* gHALTaskStateSegment.rsp0: whose kernel stack
    kernelStackPointer, \* gOSBootCPU.kernelStackPointer: whose kernel stack
    context,        \* the registers each program should see
    halted          \* why the machine is beyond repair: a stack lost, or a panic
                    \* and what was running then

scheduler == <<current, stackPointer, rsp0, kernelStackPointer>>
vars == <<cpu, gs, mem, alive, scheduler, context, halted>>

-----------------------------------------------------------------------------
(* Segments.  A selector is 8 * index + privilege.                         *)

(* Base and limit do not count in long mode.                               *)
Segment(access, granularity) ==
    sHALGlobalDescriptorTableSetGate(Number(0, 16), Number(0, 16), Number(access, 2),
                                     Number(granularity, 2))

(* Entries 1 to 4: access bytes 0x9A, 0x92, 0xF2 and 0xFA, and the bit for *)
(* 64-bit code.                                                            *)
gHALGlobalDescriptorTable ==
    << Segment(154, 32), Segment(146, 0), Segment(242, 0), Segment(250, 32) >>

Selector(n) == <<"selector", n>>
KernelCS == Selector(8)
KernelSS == Selector(16)
UserCS == Selector(35)      \* 0x23
UserSS == Selector(27)      \* 0x1b

(* STAR: the selectors SYSCALL and SYSRET start from.                      *)
Star == [kernel |-> 8, user |-> 19]

FromUser(cs) == cs[1] = "selector" /\ cs[2] % 4 # 0

-----------------------------------------------------------------------------
(* The registers, in the order in which they are pushed and popped.        *)

PUSHALL == <<"r15", "r14", "r13", "r12", "r11", "r10", "r9", "r8", "rbp", "rdi", "rsi",
             "rdx", "rcx", "rbx", "rax">>
POPALL  == <<"rax", "rbx", "rcx", "rdx", "rsi", "rdi", "rbp", "r8", "r9", "r10", "r11",
             "r12", "r13", "r14", "r15">>
SyscallPushed == <<"r11", "rcx", "rbp", "rbx", "rdi", "rsi", "rdx", "r10", "r8", "r9",
                   "r12", "r13", "r14", "r15">>
SyscallPopped == <<"r15", "r14", "r13", "r12", "r9", "r8", "r10", "rdx", "rsi", "rdi",
                   "rbx", "rbp", "rcx", "r11">>
Registers == ToSet(PUSHALL)

(* The frame as C sees it, from the lowest address up.                     *)
CPURegisters ==
    <<"rax", "rbx", "rcx", "rdx", "rbp", "rsi", "rdi", "r8", "r9", "r10", "r11", "r12",
      "r13", "r14", "r15", "interruptNumber", "errorCode", "rip", "cs", "rflags", "rsp", "ss">>

(* A stack pointer is a stack and the number of words on it.               *)
Rsp(stack, depth) == [stack |-> stack, depth |-> depth]
KernelStack(t) == <<"kernel", t>>
UserStack(t) == <<"user", t>>
gHALDoubleFaultStack == <<"ist", KernelTask>>
Stacks == {KernelStack(t) : t \in Tasks} \cup {UserStack(t) : t \in UserTasks}
              \cup {gHALDoubleFaultStack}

Push(m, rsp, words) == [m EXCEPT ![rsp.stack] = SubSeq(@, 1, rsp.depth) \o words]
Pushed(rsp, words) == Rsp(rsp.stack, rsp.depth + Len(words))

(* The i-th word above the stack pointer, and a field of a frame there.    *)
Word(m, rsp, i) == m[rsp.stack][rsp.depth - i + 1]
Field(m, rsp, name) == Word(m, rsp, SelectInSeq(CPURegisters, LAMBDA f : f = name))

(* Registers after the pops of a list. *)
PopInto(regs, m, rsp, list) ==
    [r \in Registers |-> IF Contains(list, r)
                         THEN Word(m, rsp, SelectInSeq(list, LAMBDA x : x = r)) ELSE regs[r]]

SwapGS(g) == [base |-> g.kernel, kernel |-> g.base]

-----------------------------------------------------------------------------
(* Interrupt gates.  All have privilege 0, so programs cannot call them.   *)

(* Exceptions for which the CPU pushes an error code, and those whose stub *)
(* expects one.                                                            *)
PushesCode == {8, 10, 11, 12, 13, 14, 17, 30}

(* Mutant: the page fault's stub pushes a second error code.               *)
ISR_ERRCODENoPageFault == {8, 10, 11, 12, 13, 17, 30}

ISR_ERRCODE == {8, 10, 11, 12, 13, 14, 17, 30}

(* Gates on the stack of IST 1. *)
OnFaultStack(n) == n \in {8, 13, 14}

(* Mutant: the test reads the word before CS.                              *)
CameFromUserShifted(m, rsp) == FromUser(Field(m, rsp, "rip"))

(* `test qword [rsp + 24], 3`, or [rsp + 144] behind the registers.        *)
CameFromUser(m, rsp) == FromUser(Field(m, rsp, "cs"))

(* The stack the CPU finds in the task state segment: the fault stack, rsp0*)
(* when it comes from ring 3, or it stays where it is.                     *)
EntryStack(n) ==
    IF OnFaultStack(n) THEN Rsp(gHALDoubleFaultStack, 0)
    ELSE IF FromUser(cpu.cs) THEN Rsp(KernelStack(rsp0), 0) ELSE cpu.rsp

(* The CPU pushes its five words and an error code; the stub pushes the    *)
(* number, and 0 for a missing code, swaps GS if CS is the user's, and     *)
(* pushes all registers.                                                   *)
Enter(n) ==
    LET rsp == EntryStack(n)
        code == IF n \in PushesCode THEN <<"code">> ELSE << >>
        words == <<cpu.ss, cpu.rsp, cpu.flag, cpu.cs, cpu.rip>> \o code
                    \o (IF n \in ISR_ERRCODE THEN <<n>> ELSE <<0, n>>)
                    \o [i \in 1 .. 15 |-> cpu.regs[PUSHALL[i]]]
        m == Push(mem, rsp, words)
        top == Pushed(rsp, words)
    IN  [mem |-> m, rsp |-> top,
         gs |-> IF CameFromUser(m, top) THEN SwapGS(gs) ELSE gs]

(* The way out of a stub: swap GS back, pop the registers, iretq.          *)
Leave(e, rsp) ==
    /\ cpu' = [regs |-> PopInto(cpu.regs, e.mem, rsp, POPALL),
               rip |-> Word(e.mem, rsp, 18), cs |-> Word(e.mem, rsp, 19),
               flag |-> Word(e.mem, rsp, 20), rsp |-> Word(e.mem, rsp, 21),
               ss |-> Word(e.mem, rsp, 22)]
    /\ gs' = IF CameFromUser(e.mem, rsp) THEN SwapGS(e.gs) ELSE e.gs
    /\ mem' = [e.mem EXCEPT ![rsp.stack] = SubSeq(@, 1, rsp.depth - 22)]

-----------------------------------------------------------------------------
(* The switch of OSSchedulerNext: the stack pointers of the next task.     *)

(* Mutant: the stack of the interrupts is not changed.                     *)
UseStackOfSyscallsOnly(t) == kernelStackPointer' = t /\ UNCHANGED rsp0

UseStackOf(t) == rsp0' = t /\ kernelStackPointer' = t

SwitchTo(t, e) ==
    /\ current' = t
    /\ stackPointer' = [stackPointer EXCEPT ![current] = e.rsp]
    /\ UseStackOf(t)
    /\ Leave(e, stackPointer'[t])

(* VMLoadCR3 takes away the stack it runs on when that is a program's.     *)
StackLost(t, e) == t # current /\ e.rsp.stack = UserStack(current)

(* Vector 32, for the timer or for `int $32`.                              *)
Interrupt32 ==
    LET e == Enter(32) IN
    \E t \in alive' :
        IF StackLost(t, e)
        THEN halted' = cpu.rip /\ UNCHANGED <<cpu, gs, mem, scheduler>>
        ELSE SwitchTo(t, e) /\ UNCHANGED halted

Running == halted = << >>
InUser == FromUser(cpu.cs)

TimerInterrupt ==
    /\ Running /\ cpu.flag
    /\ alive' = alive /\ Interrupt32
    /\ UNCHANGED context

(* irq1: served and left on the spot. *)
KeyboardInterrupt ==
    /\ Running /\ cpu.flag
    /\ LET e == Enter(33) IN Leave(e, e.rsp)
    /\ UNCHANGED <<alive, scheduler, context, halted>>

(* isr_handler_c.  A program's fault ends the program: OSServiceProcessExit*)
(* switches away from inside the handler.  A breakpoint is for the kernel's*)
(* debugger and returns; any other fault in ring 0 panics, whoever it was  *)
(* for (OSPanicException reports the frame).                               *)
Exception(n) ==
    LET e == Enter(n)
        switch == <<KernelSS, e.rsp, FALSE, KernelCS, <<"exit">>, 0, 32>>
                    \o [i \in 1 .. 15 |-> "c"]
        nested == [e EXCEPT !.mem = Push(@, e.rsp, switch), !.rsp = Pushed(@, switch)]
    IN  \/ /\ Field(e.mem, e.rsp, "interruptNumber") = 3
           /\ Leave(e, e.rsp)
           /\ UNCHANGED <<alive, scheduler, halted>>
        \/ /\ Field(e.mem, e.rsp, "interruptNumber") # 3
           /\ FromUser(Field(e.mem, e.rsp, "cs"))
           /\ alive' = alive \ {current}
           /\ \E t \in alive' : SwitchTo(t, nested)
           /\ UNCHANGED halted
        \/ /\ Field(e.mem, e.rsp, "interruptNumber") # 3
           /\ ~FromUser(Field(e.mem, e.rsp, "cs"))
           /\ halted' = <<"panic", cpu.rip[1]>>
           /\ UNCHANGED <<cpu, gs, mem, alive, scheduler>>

UserFault ==
    /\ Running /\ InUser
    /\ \E n \in Faults : Exception(n)
    /\ UNCHANGED context

(* kdbg executes int3 in the kernel shell. *)
Breakpoint ==
    /\ Running /\ cpu.rip = <<"kernel">>
    /\ Exception(3)
    /\ UNCHANGED context

-----------------------------------------------------------------------------
(* System calls. *)

(* The numbers the library's stubs load, and what they select in           *)
(* syscall_dispatch (enum Services); _start calls the first when main is   *)
(* done.                                                                   *)
OSServices == [ProcessExit |-> 0, ProcessSpawn |-> 1, MemoryAllocate |-> 2, IOWrite |-> 3,
               IORead |-> 4, ProcessWait |-> 5]
syscall_dispatch == <<"ProcessExit", "ProcessSpawn", "MemoryAllocate", "IOWrite", "IORead",
                      "ProcessWait">>

(* Services that switch to another task before they return: they end, wait,*)
(* or sleep until there is a character or memory for a stack.              *)
Switching == {"ProcessExit", "ProcessSpawn", "IORead", "ProcessWait"}

(* FMASK holds the bit of the interrupt flag.                              *)
FlagAfterSyscall(flag) == FALSE

(* A program calls a stub: the arguments are in their registers, RAX gets  *)
(* the number, and SYSCALL saves RIP and the flags in registers.           *)
Syscall ==
    /\ Running /\ InUser
    /\ \E service \in DOMAIN OSServices :
        /\ cpu' = [regs |-> [r \in Registers |-> CASE r = "rax" -> <<"number", OSServices[service]>>
                                                   [] r = "rcx" -> cpu.rip
                                                   [] r = "r11" -> cpu.flag
                                                   [] OTHER -> <<current, r>>],
                   rip |-> <<"entry">>, cs |-> Selector(Star.kernel), ss |-> Selector(Star.kernel + 8),
                   flag |-> FlagAfterSyscall(cpu.flag), rsp |-> cpu.rsp]
        /\ context' = [context EXCEPT ![current] =
                [r \in Registers |-> CASE r = "rax" -> service
                                       [] r = "rcx" -> cpu.rip
                                       [] r = "r11" -> cpu.flag
                                       [] OTHER -> <<current, r>>]]
    /\ UNCHANGED <<gs, mem, alive, scheduler, halted>>

(* `mov to, from` *)
Move(regs, to, from) == [regs EXCEPT ![to] = regs[from]]

(* The moves, one after the other, that turn the registers of a system call*)
(* into those of C.                                                        *)
Shuffle(regs) ==
    LET first == Move(Move(Move(regs, "r9", "r8"), "r8", "r10"), "rcx", "rdx")
    IN  Move(Move(Move(first, "rdx", "rsi"), "rsi", "rdi"), "rdi", "rax")

(* syscall_entry up to the call: GS, the kernel stack, the pushes.         *)
syscall_entry ==
    /\ Running /\ cpu.rip = <<"entry">>
    /\ LET rsp == Rsp(KernelStack(kernelStackPointer), 0)
           words == <<cpu.rsp>> \o [i \in 1 .. 14 |-> cpu.regs[SyscallPushed[i]]]
       IN  /\ mem' = Push(mem, rsp, words)
           /\ cpu' = [cpu EXCEPT !.rsp = Pushed(rsp, words), !.regs = Shuffle(@),
                                 !.rip = <<"dispatch">>]
    /\ gs' = SwapGS(gs)
    /\ UNCHANGED <<alive, scheduler, context, halted>>

(* Into C, which may use any register. *)
Dispatch ==
    /\ Running /\ cpu.rip = <<"dispatch">>
    /\ cpu' = [cpu EXCEPT !.rip = <<syscall_dispatch[cpu.regs.rdi[2] + 1]>>,
                          !.regs = [r \in Registers |-> "c"]]
    /\ UNCHANGED <<gs, mem, alive, scheduler, context,
                   halted>>

Service == IF cpu.rip[1] \in DOMAIN OSServices THEN cpu.rip[1] ELSE ""

(* A service that waits for a key sets the interrupt flag and leaves it    *)
(* set; then, and wherever else it is set, `int $32`.                      *)
ServiceEnablesInterrupts ==
    /\ Running /\ Service = "IORead" /\ ~cpu.flag
    /\ cpu' = [cpu EXCEPT !.flag = TRUE]
    /\ UNCHANGED <<gs, mem, alive, scheduler, context,
                   halted>>

(* Services that follow a pointer of the program: the buffer of a write or *)
(* a read, the path of a spawn.  Nobody looks where it leads.              *)
UsesPointer == {"IOWrite", "IORead", "ProcessSpawn"}

(* A pointer to an unmapped page or to a non-canonical address: the fault  *)
(* comes in ring 0.                                                        *)
ServiceFault ==
    /\ Running /\ Service \in UsesPointer
    /\ \E n \in {13, 14} : Exception(n)
    /\ UNCHANGED context

ServiceSwitches ==
    /\ Running /\ Service \in Switching
    /\ Service = "IORead" => cpu.flag
    /\ alive' = IF Service = "ProcessExit" THEN alive \ {current} ELSE alive
    /\ Interrupt32
    /\ UNCHANGED context

(* The pops, with `pop rsp` the last: from here on the program's stack is  *)
(* in use, in ring 0.  (An interrupt before or behind the swapgs finds the *)
(* same stack; the keyboard's handler does not use GS.)                    *)
ServiceReturns ==
    /\ Running /\ Service \notin {"", "ProcessExit"}
    /\ LET regs == [cpu.regs EXCEPT !.rax = Service] IN
       cpu' = [cpu EXCEPT !.regs = PopInto(regs, mem, cpu.rsp, SyscallPopped),
                          !.rsp = Word(mem, cpu.rsp, 15), !.rip = <<"return", Service>>]
    /\ mem' = [mem EXCEPT ![cpu.rsp.stack] = SubSeq(@, 1, cpu.rsp.depth - 15)]
    /\ UNCHANGED <<gs, alive, scheduler, context, halted>>

Sysret ==
    /\ Running /\ cpu.rip[1] = "return"
    /\ gs' = SwapGS(gs)
    /\ cpu' = [cpu EXCEPT !.rip = cpu.regs.rcx, !.flag = cpu.regs.r11,
                          !.cs = Selector(Star.user + 16), !.ss = Selector(Star.user + 8)]
    /\ UNCHANGED <<mem, alive, scheduler, context, halted>>

-----------------------------------------------------------------------------
(* A program may load a GS selector, which clears GS_BASE.                 *)
ProgramLoadsGS ==
    /\ Running /\ InUser
    /\ gs' = [gs EXCEPT !.base = "program"]
    /\ UNCHANGED <<cpu, mem, alive, scheduler, context,
                   halted>>

(* The frame OSSchedulerSpawn builds for a task that has not run yet.      *)
SpawnFrame(t) ==
    <<UserSS, Rsp(UserStack(t), 0), TRUE, UserCS, <<"program">>, 0, 0>> \o [i \in 1 .. 15 |-> 0]

Zeroed == [r \in Registers |-> 0]

(* kmain with the processes spawned and OSServicesInitialize done: both GS *)
(* bases are gOSBootCPU.                                                   *)
Init ==
    /\ cpu = [regs |-> Zeroed, rip |-> <<"kernel">>, cs |-> KernelCS, ss |-> KernelSS,
              flag |-> TRUE, rsp |-> Rsp(KernelStack(KernelTask), 0)]
    /\ gs = [base |-> "cpu", kernel |-> "cpu"]
    /\ mem = [s \in Stacks |-> IF \E t \in UserTasks : s = KernelStack(t)
                              THEN SpawnFrame(s[2]) ELSE << >>]
    /\ current = KernelTask /\ alive = Tasks
    /\ stackPointer = [t \in Tasks |-> Rsp(KernelStack(t), IF t = KernelTask THEN 0 ELSE 22)]
    /\ rsp0 = KernelTask /\ kernelStackPointer = KernelTask
    /\ context = [t \in Tasks |-> Zeroed]
    /\ halted = << >>

Next ==
    \/ TimerInterrupt \/ KeyboardInterrupt \/ UserFault \/ Breakpoint
    \/ Syscall \/ syscall_entry \/ Dispatch \/ ServiceEnablesInterrupts \/ ServiceSwitches
    \/ ServiceFault \/ ServiceReturns \/ Sysret \/ ProgramLoadsGS

Spec == Init /\ [][Next]_vars

-----------------------------------------------------------------------------
(* Properties. *)

(* Nothing of a program's context is lost on the way in or out: whenever it*)
(* runs, its registers, its stack, its place and its interrupt flag are    *)
(* what it left, RAX holding the result of its own call, although others   *)
(* ran on the same CPU meanwhile; and syscall_dispatch is called with the  *)
(* number and the arguments of its call, in the registers C expects.       *)
ContextKept ==
    /\ InUser =>
        /\ cpu.regs = context[current] /\ cpu.rip = <<"program">> /\ cpu.flag
        /\ cpu.rsp = Rsp(UserStack(current), 0)
    /\ cpu.rip = <<"dispatch">> =>
        LET argument(r) == <<current, r>> IN
        /\ cpu.regs.rdi = <<"number", OSServices[context[current].rax]>>
        /\ syscall_dispatch[cpu.regs.rdi[2] + 1] = context[current].rax
        /\ <<cpu.regs.rsi, cpu.regs.rdx, cpu.regs.rcx, cpu.regs.r8, cpu.regs.r9>> =
               <<argument("rdi"), argument("rsi"), argument("rdx"), argument("r10"),
                 argument("r8")>>

(* GS addresses gOSBootCPU wherever the kernel uses or may interrupt it:   *)
(* only then does the next system call find its stack.                     *)
KernelGSFound == (~InUser /\ cpu.rip[1] # "entry" /\ Running) => gs.base = "cpu"

(* The segment registers fit the code that runs: GS does, and CS and SS,   *)
(* which SYSCALL and SYSRET compute, name descriptors the CPU reads as     *)
(* 64-bit code and as data of the right privilege.  The task state segment *)
(* and the gates, which the CPU follows, and the features it reports are   *)
(* read as they were meant.                                                *)
SegmentsFit ==
    LET descriptor(selector) == gHALGlobalDescriptorTable[selector[2] \div 8]
        cs == descriptor(cpu.cs)
        ss == descriptor(cpu.ss)
    IN  /\ KernelGSFound
        /\ Present(cs) /\ IsCode(cs) /\ LongMode(cs) /\ Privilege(cs) = cpu.cs[2] % 4
        /\ Present(ss) /\ ~IsCode(ss) /\ Privilege(ss) = cpu.cs[2] % 4
        /\ TaskStateSegmentFound /\ GatesLead /\ FeaturesTold

(* A fault that a program raises in ring 3 costs the program, not the      *)
(* system, and no task that goes on has its frame on the one fault stack.  *)
(* What a fault can cost the system is a panic, and only while a service   *)
(* follows a pointer it was given, in ring 0.  The kernel loses its stack  *)
(* in a single place: an interrupt behind the `pop rsp` of a read that had *)
(* to wait, which returns with the interrupt flag set.                     *)
FaultContained ==
    /\ halted \in {<< >>, <<"return", "IORead">>} \cup {<<"panic", s>> : s \in UsesPointer}
    /\ \A t \in alive : stackPointer[t].stack # gHALDoubleFaultStack
=============================================================================
