----------------------------- MODULE BootProofs -----------------------------
(***************************************************************************)
(* Proofs about booting, for every size and layout of memory, every map the*)
(* firmware may return and any number of allocations of its own: the memory*)
(* map the kernel works with is current, what it hands out is free, and    *)
(* kmain's order of initialisation is sound.                               *)
(***************************************************************************)
EXTENDS Boot, VMPhysicalMemoryProofs

KernelArea == KernelStart .. KernelStart + KernelPages - 1

(* Where the kernel's pages may not be allocated yet.                      *)
BeforeKernel == {"firmware", "returned", "main", "start", "halted", "fault"}

(* Where boot services may have ended.                                     *)
BehindExit == {"enter", "astray", "kmain", "fault", "panic", "ksh", "init"}

BootInformation ==
    [frame : Nat, initramfs : {"unset", "none", "unread", "loaded"},
     framebuffer : {"none", "linear"}, map : Nat, memoryMap : Seq(OSMemoryDescriptor)]

(* What memory is used for, and what is known of it.  A map key that is    *)
(* still the firmware's goes with a map that still describes memory.       *)
MemoryInv ==
    /\ owner \in [Frames -> Owners]
    /\ events \in Nat /\ mapKey \in Nat /\ mapKey <= events
    /\ info \in BootInformation /\ exited \in BOOLEAN
    /\ pc \notin BeforeKernel \/ exited = TRUE =>
            \A f \in KernelArea : f \in Frames /\ owner[f] = "kernel"
    /\ pc = "exit" /\ mapKey = events => info.memoryMap \in MapsOf(Types(owner))
    /\ exited = TRUE => pc \in BehindExit /\ info.memoryMap \in MapsOf(Types(owner))
    /\ held # {} => pc \in {"ksh", "init"}
    /\ pc \in {"ksh", "init"} \/ (pc = "kmain" /\ step > 8) => memoryMap = info.memoryMap

(* How far kmain is, and what that says of interrupts.                     *)
KmainInv ==
    /\ step \in 1 .. 16
    /\ pc \notin {"kmain", "ksh", "init", "panic", "fault"} => step = 1
    /\ pc \in {"ksh", "init"} => step = 16
    /\ pc = "kmain" => interrupts = FALSE
    /\ pc \in {"kmain", "ksh", "init"} =>
            /\ step \in 8 .. 10 => lines = {1}
            /\ step > 10 => lines = {0, 1}

BootInv == PhysicalInv /\ MemoryInv /\ KmainInv

(* The firmware's contract, for memory that is used as `own` says.         *)
LEMMA MapDescribes ==
    ASSUME NEW own \in [Frames -> Owners], NEW map \in MapsOf(Types(own))
    PROVE  /\ Types(own) \in [Frames -> OSMemoryType]
           /\ Describes(map, Types(own))
           /\ map \in Seq(OSMemoryDescriptor)
<1>1. Types(own) \in [Frames -> OSMemoryType]
  <2>1. \A who : MemoryType(who) \in OSMemoryType
    BY DEF MemoryType, OSMemoryType
  <2>2. DOMAIN own = Frames
    OBVIOUS
  <2> QED
    BY <2>1, <2>2 DEF Types
<1>2. Describes(map, Types(own))
  BY <1>1, BootAssumption
<1> QED
  BY <1>1, <1>2 DEF Describes

(* Memory that was free gets an owner: nobody loses his. *)
LEMMA OwnFacts ==
    ASSUME owner \in [Frames -> Owners], NEW who \in Owners, NEW S \in SUBSET Free, Own(S, who)
    PROVE  /\ owner' \in [Frames -> Owners]
           /\ \A f \in Frames : owner[f] = "kernel" => owner'[f] = "kernel"
           /\ \A f \in S : f \in Frames /\ owner'[f] = who
  BY DEF Own, Free

(* What a step of the loader leaves as it was: it changes owners of free   *)
(* memory at most, and is before the end of boot services.                 *)
LEMMA LoaderMemory ==
    ASSUME MemoryInv, UNCHANGED <<events, mapKey, exited, held>>, info' \in BootInformation,
           pc \notin BehindExit, pc' \notin {"exit", "kmain", "ksh", "init"},
           owner' \in [Frames -> Owners],
           \A f \in Frames : owner[f] = "kernel" => owner'[f] = "kernel",
           pc' \notin BeforeKernel =>
               pc \notin BeforeKernel \/ \A f \in KernelArea : f \in Frames /\ owner'[f] = "kernel"
    PROVE  MemoryInv'
<1>1. exited # TRUE /\ exited' # TRUE /\ exited' \in BOOLEAN
  BY DEF MemoryInv
<1>2. held' = {}
  BY DEF MemoryInv, BehindExit
<1>3. pc' \notin BeforeKernel => \A f \in KernelArea : f \in Frames /\ owner'[f] = "kernel"
  BY DEF MemoryInv
<1> QED
  BY <1>1, <1>2, <1>3 DEF MemoryInv

(* The loader up to the memory map.  *)
LEMMA LoaderSteps ==
    ASSUME MemoryInv,
           \/ uefi_init \/ LocateProtocols \/ LoadKernel \/ AllocateBootinfo \/ LoadVolume
           \/ ReadFramebuffer \/ AllocateMap
    PROVE  MemoryInv'
<1>0. /\ owner \in [Frames -> Owners] /\ info \in BootInformation
      /\ \A f \in Found : {f} \in SUBSET Free /\ f \in Nat
  BY DEF MemoryInv, Found, Free, Frames
<1>1. CASE uefi_init
  <2>1. /\ UNCHANGED <<events, mapKey, exited, held, info>>
        /\ pc = "firmware" /\ pc' \in {"returned", "main"}
    BY <1>1 DEF uefi_init, physical
  <2>2. UNCHANGED owner \/ \E f \in Found : Own({f}, "arguments")
    BY <1>1 DEF uefi_init
  <2>3. /\ owner' \in [Frames -> Owners]
        /\ \A f \in Frames : owner[f] = "kernel" => owner'[f] = "kernel"
    BY <1>0, <2>2, OwnFacts DEF Owners
  <2> QED
    BY <1>0, <2>1, <2>3, LoaderMemory DEF BeforeKernel, BehindExit
<1>2. CASE LocateProtocols
  <2>1. /\ UNCHANGED <<owner, events, mapKey, exited, held, info>>
        /\ pc = "main" /\ pc' \in {"start", "fault"}
    BY <1>2 DEF LocateProtocols, physical, loading
  <2> QED
    BY <1>0, <2>1, LoaderMemory DEF BeforeKernel, BehindExit
<1>3. CASE LoadKernel
  <2>1. /\ UNCHANGED <<events, mapKey, exited, held, info>>
        /\ pc = "start" /\ pc' \in {"halted", "info"}
    BY <1>3 DEF LoadKernel, Halt, physical
  <2>2. \/ UNCHANGED owner /\ pc' = "halted"
        \/ KernelArea \in SUBSET Free /\ Own(KernelArea, "kernel")
    BY <1>3 DEF LoadKernel, Halt, KernelArea
  <2>3. /\ owner' \in [Frames -> Owners]
        /\ \A f \in Frames : owner[f] = "kernel" => owner'[f] = "kernel"
        /\ pc' # "halted" => \A f \in KernelArea : f \in Frames /\ owner'[f] = "kernel"
    BY <1>0, <2>2, OwnFacts DEF Owners
  <2> QED
    BY <1>0, <2>1, <2>3, LoaderMemory DEF BeforeKernel, BehindExit
<1>4. CASE AllocateBootinfo
  <2>1. /\ UNCHANGED <<events, mapKey, exited, held>>
        /\ pc = "info" /\ pc' \in {"volume", "fault"}
    BY <1>4 DEF AllocateBootinfo, physical
  <2>2. \/ \E f \in Found : Own({f}, "info") /\ info' = [info EXCEPT !.frame = f]
        \/ UNCHANGED <<owner, info>>
    BY <1>4 DEF AllocateBootinfo
  <2>3. /\ owner' \in [Frames -> Owners]
        /\ \A f \in Frames : owner[f] = "kernel" => owner'[f] = "kernel"
    BY <1>0, <2>2, OwnFacts DEF Owners
  <2>4. info' \in BootInformation
    BY <1>0, <2>2 DEF BootInformation
  <2> QED
    BY <2>1, <2>3, <2>4, LoaderMemory DEF BeforeKernel, BehindExit
<1>5. CASE LoadVolume
  <2>1. /\ UNCHANGED <<events, mapKey, exited, held>>
        /\ pc = "volume" /\ pc' = "framebuffer"
    BY <1>5 DEF LoadVolume, physical
  <2>2. /\ UNCHANGED owner \/ \E f \in Found : Own({f}, "volume")
        /\ \E v \in {"unset", "none", "unread", "loaded"} :
                info' = info \/ info' = [info EXCEPT !.initramfs = v]
    BY <1>5 DEF LoadVolume
  <2>3. /\ owner' \in [Frames -> Owners]
        /\ \A f \in Frames : owner[f] = "kernel" => owner'[f] = "kernel"
    BY <1>0, <2>2, OwnFacts DEF Owners
  <2>4. info' \in BootInformation
    BY <1>0, <2>2 DEF BootInformation
  <2> QED
    BY <2>1, <2>3, <2>4, LoaderMemory DEF BeforeKernel, BehindExit
<1>6. CASE ReadFramebuffer
  <2>1. /\ UNCHANGED <<owner, events, mapKey, exited, held>>
        /\ pc = "framebuffer" /\ pc' \in {"size", "fault"}
        /\ \E base \in {"none", "linear"} :
                info' = info \/ info' = [info EXCEPT !.framebuffer = base]
    BY <1>6 DEF ReadFramebuffer, physical, loading
  <2>2. info' \in BootInformation
    BY <1>0, <2>1 DEF BootInformation
  <2> QED
    BY <1>0, <2>1, <2>2, LoaderMemory DEF BeforeKernel, BehindExit
<1>7. CASE AllocateMap
  <2>1. /\ UNCHANGED <<events, mapKey, exited, held>>
        /\ pc = "size" /\ pc' = "map"
    BY <1>7 DEF AllocateMap, physical
  <2>2. \/ \E f \in Found : Own({f}, "map") /\ info' = [info EXCEPT !.map = f]
        \/ UNCHANGED <<owner, info>>
    BY <1>7 DEF AllocateMap
  <2>3. /\ owner' \in [Frames -> Owners]
        /\ \A f \in Frames : owner[f] = "kernel" => owner'[f] = "kernel"
    BY <1>0, <2>2, OwnFacts DEF Owners
  <2>4. info' \in BootInformation
    BY <1>0, <2>2 DEF BootInformation
  <2> QED
    BY <2>1, <2>3, <2>4, LoaderMemory DEF BeforeKernel, BehindExit
<1> QED
  BY <1>1, <1>2, <1>3, <1>4, <1>5, <1>6, <1>7

(* The firmware allocates: a key the loader holds is stale from then on.   *)
LEMMA FirmwareStep ==
    ASSUME MemoryInv, FirmwareAllocates
    PROVE  MemoryInv'
<1>1. /\ UNCHANGED <<mapKey, exited, held, info, pc, step, memoryMap>>
      /\ pc \in {"map", "exit"} /\ events' = events + 1
  BY DEF FirmwareAllocates, physical
<1>2. /\ owner \in [Frames -> Owners] /\ events \in Nat /\ mapKey \in Nat /\ mapKey <= events
      /\ exited \in BOOLEAN /\ exited # TRUE
  BY <1>1 DEF MemoryInv, BehindExit
<1>3. PICK f \in Found : Own({f}, "firmware")
  BY DEF FirmwareAllocates
<1>4. /\ owner' \in [Frames -> Owners]
      /\ \A g \in Frames : owner[g] = "kernel" => owner'[g] = "kernel"
  <2>1. {f} \in SUBSET Free
    BY DEF Found
  <2> QED
    BY <1>2, <1>3, <2>1, OwnFacts DEF Owners
<1>5. \A g \in KernelArea : g \in Frames /\ owner'[g] = "kernel"
  BY <1>1, <1>4 DEF MemoryInv, BeforeKernel
<1>6. events' \in Nat /\ mapKey' <= events' /\ mapKey' # events'
  BY <1>1, <1>2
<1> QED
  BY <1>1, <1>2, <1>4, <1>5, <1>6 DEF MemoryInv

LEMMA GetMemoryMapStep ==
    ASSUME MemoryInv, GetMemoryMap
    PROVE  MemoryInv'
<1>1. /\ UNCHANGED <<owner, events, exited, held, step, memoryMap>>
      /\ pc = "map" /\ pc' \in {"enter", "exit"}
  BY DEF GetMemoryMap, physical
<1>2. PICK map \in MapsOf(Types(owner)) :
         \/ pc' = "enter" /\ UNCHANGED <<info, mapKey>>
         \/ /\ info' = [info EXCEPT !.memoryMap = map]
            /\ mapKey' = events /\ pc' = "exit"
  BY DEF GetMemoryMap
<1>3. /\ owner \in [Frames -> Owners] /\ events \in Nat /\ mapKey \in Nat /\ mapKey <= events
      /\ info \in BootInformation /\ exited \in BOOLEAN /\ exited # TRUE
      /\ held = {} /\ \A f \in KernelArea : f \in Frames /\ owner[f] = "kernel"
  BY <1>1 DEF MemoryInv, BehindExit, BeforeKernel
<1>4. info' \in BootInformation /\ (pc' = "exit" => info'.memoryMap = map)
  <2>1. map \in Seq(OSMemoryDescriptor)
    BY <1>3, MapDescribes
  <2> QED
    BY <1>2, <1>3, <2>1 DEF BootInformation
<1>5. mapKey' \in Nat /\ mapKey' <= events'
  BY <1>1, <1>2, <1>3
<1>6. pc' = "exit" => info'.memoryMap \in MapsOf(Types(owner'))
  BY <1>1, <1>4
<1> QED
  BY <1>1, <1>3, <1>4, <1>5, <1>6 DEF MemoryInv

(* Accepted, ExitBootServices ends with a map that describes memory.       *)
LEMMA ExitBootServicesStep ==
    ASSUME MemoryInv, ExitBootServices
    PROVE  MemoryInv'
<1>1. /\ UNCHANGED <<owner, events, mapKey, info, held, step, memoryMap>>
      /\ pc = "exit"
      /\ \/ mapKey = events /\ exited' = TRUE /\ pc' = "enter"
         \/ pc' = "map" /\ exited' = exited
  BY DEF ExitBootServices, physical
<1>2. /\ exited \in BOOLEAN /\ exited # TRUE /\ held = {}
      /\ \A f \in KernelArea : f \in Frames /\ owner[f] = "kernel"
  BY <1>1 DEF MemoryInv, BehindExit, BeforeKernel
<1> QED
  BY <1>1, <1>2 DEF MemoryInv, BehindExit

LEMMA StepsFacts ==
    /\ Len(Steps) = 15
    /\ Steps[7] = "PIC" /\ Steps[8] = "PMM" /\ Steps[10] = "Timer" /\ Steps[14] = "Volume"
    /\ \A i \in 1 .. 15 : /\ Steps[i] = "PIC" => i = 7
                          /\ Steps[i] = "PMM" => i = 8
                          /\ Steps[i] = "Timer" => i = 10
  BY DEF Steps

LEMMA StepNumber ==
    ASSUME step \in 1 .. 16, NEW s, InStep(s)
    PROVE  /\ pc = "kmain" /\ step \in 1 .. 15
           /\ s = "PIC" => step = 7
           /\ s = "PMM" => step = 8
           /\ s = "Timer" => step = 10
<1>1. pc = "kmain" /\ step <= Len(Steps) /\ Steps[step] = s
  BY DEF InStep
<1>2. step \in 1 .. 15
  BY <1>1, StepsFacts
<1> QED
  BY <1>1, <1>2, StepsFacts

(* The kernel: memory has its owners, the boot information stays.          *)
LEMMA KernelMemory ==
    ASSUME MemoryInv, UNCHANGED <<owner, events, mapKey, info, exited>>,
           pc \in {"enter", "kmain", "ksh", "init"},
           pc' \in BehindExit \ {"enter"},
           held' # {} => pc' \in {"ksh", "init"},
           pc' \in {"ksh", "init"} \/ (pc' = "kmain" /\ step' > 8) => memoryMap' = info.memoryMap
    PROVE  MemoryInv'
<1>1. \A f \in KernelArea : f \in Frames /\ owner[f] = "kernel"
  BY DEF MemoryInv, BeforeKernel
<1> QED
  BY <1>1 DEF MemoryInv, BehindExit

(* kmain and what follows. *)
LEMMA EnterKernelStep ==
    ASSUME MemoryInv, KmainInv, EnterKernel
    PROVE  MemoryInv' /\ KmainInv'
<1>1. /\ UNCHANGED <<owner, events, mapKey, info, exited, held, step, memoryMap>>
      /\ pc = "enter" /\ pc' \in {"kmain", "fault"}
  BY DEF EnterKernel, physical, loading
<1>2. interrupts' = FALSE
  BY DEF EnterKernel
<1>3. step = 1 /\ held = {}
  BY <1>1 DEF KmainInv, MemoryInv
<1>4. MemoryInv'
  BY <1>1, <1>3, KernelMemory DEF BehindExit
<1>5. KmainInv'
  BY <1>1, <1>2, <1>3 DEF KmainInv
<1> QED
  BY <1>4, <1>5

(* The jump into a kernel that was not read. *)
LEMMA EnterUnreadStep ==
    ASSUME MemoryInv, KmainInv, EnterUnread
    PROVE  MemoryInv' /\ KmainInv'
<1>1. /\ UNCHANGED <<owner, events, mapKey, info, exited, held, step>>
      /\ pc = "enter" /\ pc' = "astray"
  BY DEF EnterUnread, physical, loading
<1>2. step = 1 /\ held = {}
  BY <1>1 DEF KmainInv, MemoryInv
<1>3. MemoryInv'
  BY <1>1, <1>2, KernelMemory DEF BehindExit
<1>4. KmainInv'
  BY <1>1, <1>2 DEF KmainInv
<1> QED
  BY <1>3, <1>4

(* A step of kmain that is not the memory manager's.  *)
LEMMA KmainGoesOn ==
    ASSUME MemoryInv, KmainInv, pc = "kmain", step \in 1 .. 15,
           UNCHANGED <<owner, events, mapKey, info, exited, held, memoryMap, interrupts>>,
           pc' \in {"kmain", "panic"}, step' = step + 1, step # 8,
           lines' = IF step = 7 THEN {1} ELSE IF step = 10 THEN lines \cup {0} ELSE lines
    PROVE  MemoryInv' /\ KmainInv'
<1>1. held' = {}
  BY DEF MemoryInv
<1>2. pc' = "kmain" /\ step' > 8 => memoryMap' = info.memoryMap
  BY DEF MemoryInv
<1>3. MemoryInv'
  BY <1>1, <1>2, KernelMemory DEF BehindExit
<1>4. interrupts' = FALSE /\ step' \in 1 .. 16
  BY DEF KmainInv
<1>5. (step' \in 8 .. 10 => lines' = {1}) /\ (step' > 10 => lines' = {0, 1})
  BY DEF KmainInv
<1>6. KmainInv'
  BY <1>4, <1>5 DEF KmainInv
<1> QED
  BY <1>3, <1>6

(* kmain gives up. *)
LEMMA KmainEnds ==
    ASSUME MemoryInv, KmainInv, pc = "kmain",
           UNCHANGED <<owner, events, mapKey, info, exited, held, step>>,
           pc' \in {"panic", "fault"}
    PROVE  MemoryInv' /\ KmainInv'
<1>1. held' = {}
  BY DEF MemoryInv
<1>2. MemoryInv'
  BY <1>1, KernelMemory DEF BehindExit
<1>3. KmainInv'
  BY DEF KmainInv
<1> QED
  BY <1>2, <1>3

LEMMA KmainSteps ==
    ASSUME MemoryInv, KmainInv, Kmain
    PROVE  MemoryInv' /\ KmainInv'
<1>0. step \in 1 .. 16
  BY DEF KmainInv
<1>1. CASE KmainStep
  <2>1. /\ pc = "kmain" /\ step \in 1 .. 15 /\ step' = step + 1 /\ pc' = "kmain"
        /\ step \notin {7, 8, 10}
        /\ UNCHANGED <<owner, events, mapKey, info, exited, held, memoryMap>>
    BY <1>0, <1>1, StepsFacts DEF KmainStep, physical, loading
  <2>2. UNCHANGED <<interrupts, lines>>
    BY <1>1 DEF KmainStep, irq
  <2> QED
    BY <2>1, <2>2, KmainGoesOn
<1>2. CASE KmainInterruptController
  <2>0. pc = "kmain" /\ step = 7
    BY <1>0, <1>2, StepNumber DEF KmainInterruptController
  <2>1. /\ pc = "kmain" /\ step = 7 /\ step' = step + 1 /\ pc' = "kmain" /\ lines' = {1}
        /\ UNCHANGED <<owner, events, mapKey, info, exited, held, memoryMap>>
    BY <1>2, <2>0 DEF KmainInterruptController, physical, loading
  <2>2. UNCHANGED interrupts
    BY <1>2 DEF KmainInterruptController
  <2> QED
    BY <2>1, <2>2, KmainGoesOn
<1>3. CASE KmainTimer
  <2>0. pc = "kmain" /\ step = 10
    BY <1>0, <1>3, StepNumber DEF KmainTimer
  <2>1. /\ pc = "kmain" /\ step = 10 /\ step' = step + 1 /\ pc' = "kmain"
        /\ lines' = lines \cup {0}
        /\ UNCHANGED <<owner, events, mapKey, info, exited, held, memoryMap>>
    BY <1>3, <2>0 DEF KmainTimer, physical, loading
  <2>2. UNCHANGED interrupts
    BY <1>3 DEF KmainTimer
  <2> QED
    BY <2>1, <2>2, KmainGoesOn
<1>4. CASE KmainPhysicalMemory
  <2>0. pc = "kmain" /\ step = 8
    BY <1>0, <1>4, StepNumber DEF KmainPhysicalMemory
  <2>a. /\ memoryMap' = info.memoryMap /\ held' = {} /\ step' = step + 1
        /\ pc' = "kmain" \/ pc' = "panic"
        /\ UNCHANGED <<loading, info>>
    BY <1>4, Zenon DEF KmainPhysicalMemory
  <2>1. /\ pc = "kmain" /\ step = 8 /\ step' = 9 /\ pc' \in {"kmain", "panic"}
        /\ memoryMap' = info.memoryMap /\ held' = {}
        /\ UNCHANGED <<owner, events, mapKey, info, exited>>
    BY <2>0, <2>a DEF loading
  <2>2. UNCHANGED <<interrupts, lines>>
    BY <1>4 DEF KmainPhysicalMemory, irq
  <2>3. MemoryInv'
    BY <2>1, KernelMemory DEF BehindExit
  <2>4. KmainInv'
    BY <2>1, <2>2 DEF KmainInv
  <2> QED
    BY <2>3, <2>4
<1>5. CASE KmainVolume
  <2>1. /\ pc = "kmain" /\ step \in 1 .. 15 /\ step' = step + 1 /\ pc' \in {"kmain", "panic"}
        /\ Steps[step] = "Volume"
        /\ UNCHANGED <<owner, events, mapKey, info, exited, held, memoryMap>>
    BY <1>0, <1>5, StepsFacts DEF KmainVolume, InStep, physical, loading
  <2>2. step \notin {7, 8, 10}
    BY <2>1, StepsFacts
  <2>3. UNCHANGED <<interrupts, lines>>
    BY <1>5 DEF KmainVolume, irq
  <2> QED
    BY <2>1, <2>2, <2>3, KmainGoesOn
<1>6. CASE KmainVolumeUnknown
  <2>1. /\ pc = "kmain" /\ pc' \in {"panic", "fault"}
        /\ UNCHANGED <<owner, events, mapKey, info, exited, held, step>>
    BY <1>6 DEF KmainVolumeUnknown, InStep, physical, loading
  <2> QED
    BY <2>1, KmainEnds
<1>7. CASE KmainNoFramebuffer
  <2>1. /\ pc = "kmain" /\ pc' \in {"panic", "fault"}
        /\ UNCHANGED <<owner, events, mapKey, info, exited, held, step>>
    BY <1>7 DEF KmainNoFramebuffer, InStep, physical, loading
  <2> QED
    BY <2>1, KmainEnds
<1>8. CASE KmainChooses
  <2>1. /\ pc = "kmain" /\ step = 16 /\ pc' \in {"ksh", "init", "panic"}
        /\ UNCHANGED <<owner, events, mapKey, info, exited, held, step, memoryMap>>
    BY <1>0, <1>8, StepsFacts DEF KmainChooses, physical, loading
  <2>2. UNCHANGED lines
    BY <1>8 DEF KmainChooses
  <2>3. memoryMap' = info.memoryMap /\ held' = {}
    BY <2>1 DEF MemoryInv
  <2>4. MemoryInv'
    BY <2>1, <2>3, KernelMemory DEF BehindExit
  <2>5. KmainInv'
    BY <2>1, <2>2 DEF KmainInv
  <2> QED
    BY <2>4, <2>5
<1> QED
  BY <1>1, <1>2, <1>3, <1>4, <1>5, <1>6, <1>7, <1>8 DEF Kmain

LEMMA KernelRunsStep ==
    ASSUME MemoryInv, KmainInv, KernelRuns
    PROVE  MemoryInv' /\ KmainInv'
<1>1. /\ UNCHANGED <<owner, events, mapKey, info, exited, pc, step, memoryMap>>
      /\ pc \in {"ksh", "init"}
  BY DEF KernelRuns, PhysicalNext, VMPhysicalMemoryAllocatePage, OutOfMemory,
         VMPhysicalMemoryFreePage, physical, loading
<1>2. UNCHANGED <<interrupts, lines>>
  BY DEF KernelRuns, irq
<1>3. MemoryInv'
  BY <1>1, KernelMemory DEF MemoryInv, BehindExit
<1>4. KmainInv'
  BY <1>1, <1>2 DEF KmainInv
<1> QED
  BY <1>3, <1>4

(* The loader stays outside kmain and leaves its variables alone.          *)
LEMMA LoaderKmain ==
    ASSUME KmainInv, FirmwareAllocates \/ (Loader /\ ~EnterKernel /\ ~EnterUnread)
    PROVE  KmainInv'
<1>1. /\ UNCHANGED step /\ pc \notin {"kmain", "ksh", "init", "panic", "fault"}
      /\ pc' \notin {"kmain", "ksh", "init", "panic"}
  BY DEF FirmwareAllocates, Loader, uefi_init, LocateProtocols, LoadKernel, Halt,
         AllocateBootinfo, LoadVolume, ReadFramebuffer, AllocateMap, GetMemoryMap,
         ExitBootServices
<1> QED
  BY <1>1 DEF KmainInv

(* Only kmain's step for the memory manager and the kernel that runs touch *)
(* it.                                                                     *)
LEMMA PhysicalStep ==
    ASSUME PhysicalInv, MemoryInv, [Next]_vars
    PROVE  PhysicalInv'
<1>1. CASE KmainPhysicalMemory
  <2>1. /\ memoryMap' = info.memoryMap /\ held' = {}
        /\ BitmapBuilt(memoryMap', bitmapSize', bitmapStart', bitmap', panic')
    BY <1>1, Zenon DEF KmainPhysicalMemory
  <2>2. info.memoryMap \in Seq(OSMemoryDescriptor)
    BY DEF MemoryInv, BootInformation
  <2>3. BitmapReady'
    BY <2>1, <2>2, Zenon DEF BitmapReady
  <2> QED
    BY <2>3, InitialBitmap, PTL
<1>2. CASE KernelRuns
  BY <1>2, StepKeepsInv DEF KernelRuns
<1>3. CASE ~KmainPhysicalMemory /\ ~KernelRuns
  <2>1. UNCHANGED <<physical, panic>>
    BY <1>3 DEF Next, vars, Loader, Kmain, FirmwareAllocates, uefi_init, LocateProtocols,
         LoadKernel, AllocateBootinfo, LoadVolume, ReadFramebuffer, AllocateMap, GetMemoryMap,
         ExitBootServices, EnterKernel, EnterUnread, KmainStep, KmainInterruptController, KmainTimer,
         KmainVolume, KmainVolumeUnknown, KmainNoFramebuffer, KmainChooses
  <2> QED
    BY <2>1, StepKeepsInv
<1> QED
  BY <1>1, <1>2, <1>3

LEMMA BootStep ==
    ASSUME BootInv, [Next]_vars
    PROVE  BootInv'
<1>0. PhysicalInv' /\ PhysicalInv /\ MemoryInv /\ KmainInv
  BY PhysicalStep DEF BootInv
<1>1. CASE UNCHANGED vars
  BY <1>0, <1>1 DEF BootInv, MemoryInv, KmainInv, vars, physical, loading, irq
<1>2. CASE FirmwareAllocates
  BY <1>0, <1>2, FirmwareStep, LoaderKmain DEF BootInv
<1>3. CASE Loader /\ ~EnterKernel /\ ~EnterUnread
  <2>1. MemoryInv'
    BY <1>0, <1>3, LoaderSteps, GetMemoryMapStep, ExitBootServicesStep DEF Loader
  <2>2. KmainInv'
    BY <1>0, <1>3, LoaderKmain
  <2> QED
    BY <1>0, <2>1, <2>2 DEF BootInv
<1>4. CASE EnterKernel
  BY <1>0, <1>4, EnterKernelStep DEF BootInv
<1>7. CASE EnterUnread
  BY <1>0, <1>7, EnterUnreadStep DEF BootInv
<1>5. CASE Kmain
  BY <1>0, <1>5, KmainSteps DEF BootInv
<1>6. CASE KernelRuns
  BY <1>0, <1>6, KernelRunsStep DEF BootInv
<1> QED
  BY <1>1, <1>2, <1>3, <1>4, <1>5, <1>6, <1>7 DEF Next

LEMMA BootInit ==
    ASSUME Init
    PROVE  BootInv
<1>1. owner \in Layouts /\ events = 0 /\ mapKey = 0 /\ pc = "firmware" /\ step = 1 /\ held = {}
  BY Zenon DEF Init
<1>2. memoryMap = << >> /\ bitmapStart = 0 /\ bitmapSize = 0 /\ bitmap = {}
  BY Zenon DEF Init
<1>s. << >> \in Seq(OSMemoryDescriptor)
  OBVIOUS
<1>3. info \in BootInformation
  <2>1. info = [frame |-> 0, initramfs |-> "unset", framebuffer |-> "none", map |-> 0,
                memoryMap |-> << >>]
    BY Zenon DEF Init
  <2> QED
    BY <1>s, <2>1 DEF BootInformation
<1>4. MemoryInv
  <2>1. owner \in [Frames -> Owners]
    BY <1>1, BootAssumption
  <2>2. exited \in BOOLEAN /\ exited # TRUE
    BY Zenon DEF Init
  <2>3. events \in Nat /\ mapKey \in Nat /\ mapKey <= events
    BY <1>1
  <2>4. pc \in BeforeKernel /\ pc \notin {"exit", "ksh", "init", "kmain"}
    BY <1>1 DEF BeforeKernel
  <2> QED
    BY <1>1, <1>3, <2>1, <2>2, <2>3, <2>4 DEF MemoryInv
<1>5. KmainInv
  BY <1>1 DEF KmainInv
<1>6. PhysicalInv
  <2>1. Bits(bitmapSize) = {}
    BY <1>2, PhysicalMemoryAssumption DEF Bits
  <2> QED
    BY <1>1, <1>2, <1>s, <2>1
       DEF PhysicalInv, OnlyUsableHandedOut, NoFrameLost, FreeUsable, FreeFrames
<1> QED
  BY <1>4, <1>5, <1>6 DEF BootInv

LEMMA BootInvariant == Spec => []BootInv
  BY BootInit, BootStep, PTL DEF Spec

-----------------------------------------------------------------------------
(* A map that describes memory lists as conventional what is free. *)
LEMMA ConventionalIsFree ==
    ASSUME NEW own \in [Frames -> Owners], NEW map \in MapsOf(Types(own)), NEW f \in Frames
    PROVE  own[f] = "free" <=> f \in ConventionalFrames(map)
<1>1. Types(own)[f] = MemoryType(own[f]) /\ f \in DOMAIN Types(own)
  BY DEF Types
<1>2. own[f] = "free" <=> Types(own)[f] = "Conventional"
  BY <1>1 DEF MemoryType
<1>3. Types(own)[f] = "Conventional" <=>
          \E i \in DOMAIN map : map[i].type = "Conventional" /\ map[i].start <= f /\ f < End(map[i])
  BY <1>1, MapDescribes DEF Describes, OSMemoryType
<1>4. \A i \in DOMAIN map : map[i].start \in Nat /\ End(map[i]) \in Nat
  <2>1. \A i \in DOMAIN map : map[i] \in OSMemoryDescriptor
    BY MapDescribes
  <2> QED
    BY <2>1 DEF OSMemoryDescriptor, End
<1>5. \A i \in DOMAIN map : f \in map[i].start .. End(map[i]) - 1 <=>
                              map[i].start <= f /\ f < End(map[i])
  BY <1>4 DEF Frames
<1> QED
  BY <1>2, <1>3, <1>5, Zenon DEF ConventionalFrames

(* The retry of the loader (efi_main's loop around GetMemoryMap and        *)
(* ExitBootServices) is sound for every firmware that keeps UEFI's promise:*)
(* once boot services have ended, the map is of memory as it is, the kernel*)
(* is not free in it, and no frame the kernel hands out has another owner. *)
THEOREM MapStaysCurrent == Spec => []MapIsCurrent
<1>1. ASSUME BootInv, exited
      PROVE  /\ MapOK(info.memoryMap)
             /\ \A f \in Frames : owner[f] = "free" <=> f \in ConventionalFrames(info.memoryMap)
             /\ \A f \in held \cap Frames : owner[f] = "free"
  <2> DEFINE map == info.memoryMap
  <2>0. exited = TRUE
    BY <1>1, Zenon DEF BootInv, MemoryInv
  <2>1. /\ owner \in [Frames -> Owners] /\ map \in MapsOf(Types(owner))
        /\ \A f \in KernelArea : f \in Frames /\ owner[f] = "kernel"
    BY <1>1, <2>0 DEF BootInv, MemoryInv
  <2> HIDE DEF map
  <2>2. Describes(map, Types(owner))
    BY <2>1, MapDescribes
  <2>3. ASSUME NEW f \in KernelFrames
        PROVE  \E i \in DOMAIN map : map[i].type = "Other" /\ map[i].start <= f /\ f < End(map[i])
    <3>1. f \in Frames /\ owner[f] = "kernel"
      BY <2>1, BootAssumption DEF KernelArea
    <3>2. f \in DOMAIN Types(owner) /\ Types(owner)[f] = "Other"
      BY <2>1, <3>1 DEF Types, MemoryType
    <3> QED
      BY <2>2, <3>2 DEF Describes, OSMemoryType
  <2>4. MapOK(map)
    BY <2>2, <2>3 DEF MapOK, Describes
  <2>5. \A f \in Frames : owner[f] = "free" <=> f \in ConventionalFrames(map)
    BY <2>1, ConventionalIsFree
  <2>6. ASSUME NEW f \in held \cap Frames
        PROVE  owner[f] = "free"
    <3>1. memoryMap = map
      BY <1>1, <2>6 DEF BootInv, MemoryInv, map
    <3>2. \E i \in DOMAIN map : map[i].type = "Conventional" /\ map[i].start <= f /\ f < End(map[i])
      BY <1>1, <2>6, <3>1 DEF BootInv, PhysicalInv, OnlyUsableHandedOut, Usable
    <3>3. f \in DOMAIN Types(owner) /\ Types(owner)[f] = MemoryType(owner[f])
      BY <2>1 DEF Types
    <3>4. Types(owner)[f] = "Conventional"
      BY <2>2, <3>2, <3>3 DEF Describes, OSMemoryType
    <3> QED
      BY <3>3, <3>4 DEF MemoryType
  <2> QED
    BY <2>4, <2>5, <2>6 DEF map
<1>2. BootInv => MapIsCurrent
  BY <1>1, Zenon DEF MapIsCurrent
<1> QED
  BY <1>2, BootInvariant, PTL

(* kmain's order of initialisation: no step before what it uses, and no    *)
(* interrupt before everything its handler uses, with exactly the lines    *)
(* open that have a gate.                                                  *)
THEOREM KmainOrdered == Spec => []ReadyInTime
<1>1. ASSUME BootInv, pc = "kmain", step <= Len(Steps)
      PROVE  Needs(Steps[step]) \subseteq Ready
  <2>1. step \in 1 .. 15
    BY <1>1, StepsFacts DEF BootInv, KmainInv
  <2>2. Ready = {Steps[i] : i \in 1 .. step - 1}
    BY DEF Ready
  <2>3. ASSUME NEW n \in 1 .. 15, NEW s \in Needs(Steps[n])
        PROVE  \E i \in 1 .. n - 1 : s = Steps[i]
    BY <2>3 DEF Steps, Needs
  <2> QED
    BY <2>1, <2>2, <2>3
<1>2. ASSUME BootInv, pc \in {"kmain", "ksh", "init"}, interrupts
      PROVE  Ready = {Steps[i] : i \in DOMAIN Steps} /\ lines = Gates
  <2>1. pc # "kmain"
    BY <1>2, Zenon DEF BootInv, KmainInv
  <2>2. step = 16 /\ lines = {0, 1}
    BY <1>2, <2>1 DEF BootInv, KmainInv
  <2>3. DOMAIN Steps = 1 .. 15
    BY DEF Steps
  <2>4. 1 .. step - 1 = 1 .. 15
    BY <2>2
  <2> QED
    BY <2>2, <2>3, <2>4, Zenon DEF Ready, Gates
<1>3. BootInv => ReadyInTime
  BY <1>1, <1>2, Zenon DEF ReadyInTime
<1> QED
  BY <1>3, BootInvariant, PTL

(* With the map of the loader, and not just any map, the physical memory   *)
(* manager hands out usable frames only ...                                *)
THEOREM BootHandsOutUsable == Spec => []OnlyUsableHandedOut
<1>1. BootInv => OnlyUsableHandedOut
  BY DEF BootInv, PhysicalInv
<1> QED
  BY <1>1, BootInvariant, PTL

(* ... and loses none.                                                     *)
THEOREM BootLosesNoFrame == Spec => []NoFrameLost
<1>1. BootInv => NoFrameLost
  BY DEF BootInv, PhysicalInv
<1> QED
  BY <1>1, BootInvariant, PTL
=============================================================================
