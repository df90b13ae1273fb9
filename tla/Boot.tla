-------------------------------- MODULE Boot --------------------------------
(***************************************************************************)
(* From the firmware to the first task: the UEFI bootloader                *)
(* (src/bootloader/src/main.c), the first page tables (entry.asm), kmain's *)
(* initialisation and the choice between init and the rescue shell.  The   *)
(* physical memory manager the kernel starts is VMPhysicalMemory; it works *)
(* on the memory map the bootloader handed over.                           *)
(*                                                                         *)
(* `owner` says who really uses each frame of memory.  Every firmware call *)
(* may fail, the ones whose result nobody looks at included: then the file *)
(* is in memory only by name.  The firmware allocates memory of its own    *)
(* until boot services end; of the maps it hands out only what UEFI        *)
(* promises is known.                                                      *)
(***************************************************************************)
EXTENDS VMPhysicalMemory, FSCPIO, FiniteSets

CONSTANTS
    FrameCount,     \* frames of memory
    Layouts,        \* who owns the frames when the bootloader starts
    KernelStart,    \* frame of 0x100000
    KernelPages,    \* pages of the kernel file, and 32 for its .bss
    Volumes,        \* the files StartupVolume.cpio may hold
    InitPath,       \* "System/CoreServices/init"
    MapSlack,       \* descriptors that fit in the extra 4096 bytes
    MappedFrames,   \* frames entry.asm maps: 1 GiB
    MapsOf(_),      \* the maps the firmware may return, given the type of each frame
    MaxEvents       \* allocations the firmware makes meanwhile (bound)

VARIABLES
    owner,          \* who uses each frame
    events,         \* allocations of the firmware; each one changes the map key
    pc,             \* where bootloader and kernel are
    info,           \* *boot_info
    mapSize,        \* map_size, in descriptors
    mapKey,         \* map_key
    exited,         \* boot services have ended
    step,           \* how far kmain is
    interrupts,     \* the interrupt flag
    lines,          \* lines the interrupt controller lets through
    image,          \* what is at 0x100000: "none", "kernel.bin", or "unread"
    volume          \* the files of StartupVolume.cpio; empty when there is no such file

disk == <<image, volume>>
irq == <<interrupts, lines>>
loading == <<owner, events, mapSize, mapKey, exited>>
vars == <<physical, panic, loading, pc, info, step, irq, disk>>

Frames == 0 .. FrameCount - 1
Owners == {"free", "reserved", "firmware", "arguments", "kernel", "info", "volume", "map"}

Free == {f \in DOMAIN owner : owner[f] = "free"}
(* What the firmware gives out: the lowest or the highest free frame (a    *)
(* bound; UEFI leaves the choice open).                                    *)
Found == {f \in Free : (\A g \in Free : f <= g) \/ (\A g \in Free : g <= f)}
Own(S, who) == owner' = [f \in DOMAIN owner |-> IF f \in S THEN who ELSE owner[f]]

(* Where the machine comes to rest: back in the firmware, in the loader's  *)
(* endless loops, with a fault the kernel cannot handle, in OSPanic, in the*)
(* shell or with the first process.  "astray" is none of these: the loader *)
(* has jumped into memory that was never read, and what follows is unknown.*)
Ends == {"returned", "halted", "fault", "panic", "ksh", "init"}

-----------------------------------------------------------------------------
(* The memory map.  The kernel tells apart what is free, what does not     *)
(* count (mapped I/O, reserved) and the rest: loader data, boot services.  *)

MemoryType(who) ==
    CASE who = "free" -> "Conventional" [] who = "reserved" -> "Ignored" [] OTHER -> "Other"

Types(own) == [f \in DOMAIN own |-> MemoryType(own[f])]

(* What UEFI promises of a map: descriptors, in any order, that do not     *)
(* overlap, and together say of each frame what it is.                     *)
Describes(map, types) ==
    /\ map \in Seq(OSMemoryDescriptor)
    /\ \A i, j \in DOMAIN map :
        i # j => End(map[i]) <= map[j].start \/ End(map[j]) <= map[i].start
    /\ \A f \in DOMAIN types, t \in OSMemoryType :
        types[f] = t <=> \E i \in DOMAIN map :
                            map[i].type = t /\ map[i].start <= f /\ f < End(map[i])

(* The kernel's image, its .bss included, lies in the pages allocated for  *)
(* it.                                                                     *)
ASSUME BootAssumption ==
    /\ FrameCount \in Nat /\ KernelStart \in Nat /\ KernelPages \in Nat
    /\ Layouts \subseteq [Frames -> Owners]
    /\ KernelFrames \subseteq KernelStart .. KernelStart + KernelPages - 1
    /\ \A types \in [Frames -> OSMemoryType] : \A map \in MapsOf(types) : Describes(map, types)

(* The firmware allocates (an event, a driver) while boot services run.    *)
FirmwareAllocates ==
    /\ pc \in {"map", "exit"} /\ events < MaxEvents
    /\ events' = events + 1
    /\ \E f \in Found : Own({f}, "firmware")
    /\ UNCHANGED <<physical, panic, pc, info, mapSize, mapKey, exited, step, irq, disk>>

-----------------------------------------------------------------------------
(* uefi_init and main. *)

(* uefi_init: unsupported firmware ends it.  Arguments, when the loader was*)
(* started with some and there is memory, are in a block that stays.       *)
uefi_init ==
    /\ pc = "firmware"
    /\ \/ pc' = "returned" /\ UNCHANGED owner
       \/ pc' = "main" /\ (UNCHANGED owner \/ \E f \in Found : Own({f}, "arguments"))
    /\ UNCHANGED <<physical, panic, events, info, mapSize, mapKey, exited, step, irq, disk>>

(* The protocols of the loaded image and its file system; nobody looks     *)
(* whether there are any.                                                  *)
LocateProtocols ==
    /\ pc = "main"
    /\ pc' \in {"start", "fault"}
    /\ UNCHANGED <<physical, panic, loading, info, step, irq, disk>>

Halt == pc' = "halted" /\ UNCHANGED owner

(* kernel.bin: not there, its size unknown, its place taken, or given its  *)
(* pages.  Nobody looks whether the read into them works.                  *)
LoadKernel ==
    /\ pc = "start"
    /\ LET pages == KernelStart .. KernelStart + KernelPages - 1 IN
       \/ Halt /\ UNCHANGED image
       \/ /\ pages \subseteq Free
          /\ Own(pages, "kernel") /\ pc' = "info" /\ image' \in {"kernel.bin", "unread"}
    /\ UNCHANGED <<physical, panic, events, info, mapSize, mapKey, exited, step, irq, volume>>

(* The pool for boot_info; without it the loader writes to address 0, which*)
(* faults or goes well.                                                    *)
AllocateBootinfo ==
    /\ pc = "info"
    /\ \/ /\ \E f \in Found : Own({f}, "info") /\ info' = [info EXCEPT !.frame = f]
          /\ pc' = "volume"
       \/ pc' \in {"volume", "fault"} /\ UNCHANGED <<owner, info>>
    /\ UNCHANGED <<physical, panic, events, mapSize, mapKey, exited, step, irq, disk>>

(* StartupVolume.cpio: not opened, which is recorded; without a known size *)
(* or without memory, which leaves the fields of boot_info as the pool had *)
(* them; or given its pages, and again nobody looks whether the read works.*)
LoadVolume ==
    /\ pc = "volume"
    /\ \/ info' = [info EXCEPT !.initramfs = "none"] /\ UNCHANGED owner
       \/ volume # << >> /\ UNCHANGED <<owner, info>>
       \/ /\ volume # << >>
          /\ \E f \in Found : Own({f}, "volume")
          /\ \E v \in {"loaded", "unread"} : info' = [info EXCEPT !.initramfs = v]
    /\ pc' = "framebuffer"
    /\ UNCHANGED <<physical, panic, events, mapSize, mapKey, exited, step, irq, disk>>

(* The mode of the graphics output.  Without such a protocol the loader    *)
(* follows a null pointer, to a fault or to whatever is there; and a mode  *)
(* need not have a framebuffer.                                            *)
ReadFramebuffer ==
    /\ pc = "framebuffer"
    /\ \/ pc' = "size" /\ \E base \in {"none", "linear"} : info' = [info EXCEPT !.framebuffer = base]
       \/ pc' = "fault" /\ UNCHANGED info
    /\ UNCHANGED <<physical, panic, loading, step, irq, disk>>

(* The size of the map, and a buffer for it and some more; none is found   *)
(* out when the map is asked for.                                          *)
AllocateMap ==
    /\ pc = "size"
    /\ \/ /\ \E map \in MapsOf(Types(owner)) : mapSize' = Len(map) + MapSlack
          /\ \E f \in Found : Own({f}, "map") /\ info' = [info EXCEPT !.map = f]
       \/ mapSize' = 0 /\ UNCHANGED <<owner, info>>
    /\ pc' = "map"
    /\ UNCHANGED <<physical, panic, events, mapKey, exited, step, irq, disk>>

(* Mutant: the map is not fetched again when its key was refused.          *)
GetMemoryMapOnce ==
    /\ pc = "map"
    /\ \E map \in MapsOf(Types(owner)) :
       \/ Len(map) > mapSize /\ pc' = "enter" /\ UNCHANGED <<info, mapSize, mapKey>>
       \/ /\ Len(map) <= mapSize
          /\ info' = IF info.memoryMap # << >> THEN info ELSE [info EXCEPT !.memoryMap = map]
          /\ mapSize' = Len(map) /\ mapKey' = events /\ pc' = "exit"
    /\ UNCHANGED <<physical, panic, owner, events, exited, step, irq, disk>>

(* An error ends the loop, not the boot.                                   *)
GetMemoryMap ==
    /\ pc = "map"
    /\ \E map \in MapsOf(Types(owner)) :
       \/ Len(map) > mapSize /\ pc' = "enter" /\ UNCHANGED <<info, mapSize, mapKey>>
       \/ /\ Len(map) <= mapSize
          /\ info' = [info EXCEPT !.memoryMap = map]
          /\ mapSize' = Len(map) /\ mapKey' = events /\ pc' = "exit"
    /\ UNCHANGED <<physical, panic, owner, events, exited, step, irq, disk>>


(* Refused if the map has changed since; then there is room for two more.  *)
ExitBootServices ==
    /\ pc = "exit"
    /\ IF mapKey = events THEN exited' = TRUE /\ pc' = "enter" /\ UNCHANGED mapSize
                          ELSE pc' = "map" /\ mapSize' = mapSize + 2 /\ UNCHANGED exited
    /\ UNCHANGED <<physical, panic, owner, events, mapKey, info, step, irq, disk>>

(* _start: interrupts off, and page tables that map the first frames twice,*)
(* at 0 and at KERNEL_VMA.                                                 *)
EnterKernel ==
    /\ pc = "enter" /\ image = "kernel.bin"
    /\ interrupts' = FALSE
    /\ pc' = IF info.frame < MappedFrames /\ info.map < MappedFrames /\ info.memoryMap # << >>
             THEN "kmain" ELSE "fault"
    /\ UNCHANGED <<physical, panic, loading, info, step, lines, disk>>

(* The jump to 0x100000 when kernel.bin was not read.                      *)
EnterUnread ==
    /\ pc = "enter" /\ image = "unread"
    /\ pc' = "astray"
    /\ UNCHANGED <<physical, panic, loading, info, step, irq, disk>>

-----------------------------------------------------------------------------
(* kmain. *)

(* Mutant: the scheduler comes before its heap.                            *)
StepsSchedulerFirst ==
    <<"Serial", "Console", "CPU", "Random", "GDT", "IDT", "PIC", "PMM", "VMM", "Timer",
      "Scheduler", "Heap", "Services", "Volume", "Framebuffer">>

Steps ==
    <<"Serial", "Console", "CPU", "Random", "GDT", "IDT", "PIC", "PMM", "VMM", "Timer", "Heap",
      "Scheduler", "Services", "Volume", "Framebuffer">>

Ready == {Steps[i] : i \in 1 .. step - 1}

(* What the code of a step uses.                                           *)
Needs(s) ==
    CASE s = "Random" -> {"CPU"}                    \* OSCPUHasFeature
      [] s = "IDT" -> {"GDT"}                       \* the selector of its gates
      [] s = "VMM" -> {"PMM"}
      [] s = "Timer" -> {"PIC"}                     \* the mask it changes
      [] s = "Heap" -> {"PMM", "VMM"}
      [] s = "Scheduler" -> {"VMM", "Heap"}         \* gVMKernelPML4Physical
      [] s = "Services" -> {"CPU", "PMM", "VMM"}    \* kernelStackPointer
      [] s = "Volume" -> {"VMM", "Heap"}
      [] s = "Framebuffer" -> {"Console", "VMM"}    \* FB_VIRT_BASE
      [] OTHER -> {}

InStep(s) == pc = "kmain" /\ step <= Len(Steps) /\ Steps[step] = s

(* The lines with a gate in the interrupt table.                           *)
Gates == {0, 1}

KmainStep ==
    /\ pc = "kmain" /\ step <= Len(Steps)
    /\ Steps[step] \notin {"PIC", "Timer", "PMM", "Volume"}
    /\ Steps[step] = "Framebuffer" => info.framebuffer = "linear"
    /\ step' = step + 1
    /\ UNCHANGED <<physical, panic, loading, pc, info, irq, disk>>

(* The controller starts over with the keyboard's line alone.              *)
KmainInterruptController ==
    /\ InStep("PIC") /\ lines' = {1}
    /\ step' = step + 1
    /\ UNCHANGED <<physical, panic, loading, pc, info, interrupts, disk>>

(* The timer adds its own line to the mask it reads.                       *)
KmainTimer ==
    /\ InStep("Timer") /\ lines' = lines \cup {0}
    /\ step' = step + 1
    /\ UNCHANGED <<physical, panic, loading, pc, info, interrupts, disk>>

KmainPhysicalMemory ==
    /\ InStep("PMM")
    /\ memoryMap' = info.memoryMap /\ held' = {}
    /\ BitmapBuilt(memoryMap', bitmapSize', bitmapStart', bitmap', panic')
    /\ step' = step + 1
    /\ pc' = IF panic' = "" THEN "kmain" ELSE "panic"
    /\ UNCHANGED <<loading, info, irq, disk>>

(* What an address and a size that were never set, or pages that were never*)
(* read, hold: an empty archive, an old one, or no archive.                *)
Unknown == {"unset", "unread"}

(* The volume: nothing to walk, an archive, or what nobody knows. *)
Nodes == IF info.initramfs = "loaded" THEN FSCPIOMount(Archive(volume[1]), ArchiveSize(volume[1]))
         ELSE << >>

KmainVolume ==
    /\ InStep("Volume")
    /\ step' = step + 1
    /\ pc' = IF \E i \in DOMAIN Nodes : Nodes[i] = InvalidMagic THEN "panic" ELSE "kmain"
    /\ UNCHANGED <<physical, panic, loading, info, irq, disk>>

KmainVolumeUnknown ==
    /\ InStep("Volume") /\ info.initramfs \in Unknown
    /\ pc' \in {"panic", "fault"}
    /\ UNCHANGED <<physical, panic, loading, info, step, irq, disk>>

KmainNoFramebuffer ==
    /\ InStep("Framebuffer") /\ info.framebuffer = "none"
    /\ pc' = "panic"
    /\ UNCHANGED <<physical, panic, loading, info, step, irq, disk>>

(* Mutant: kmain does not look whether there is a volume.                  *)
KmainChoosesInit ==
    /\ pc = "kmain" /\ step > Len(Steps)
    /\ interrupts' = TRUE
    /\ pc' \in {"ksh", IF FSVirtualFileSystemOpenPath(Nodes, InitPath) = << >> THEN "panic"
                       ELSE "init"}
    /\ UNCHANGED <<physical, panic, loading, info, step, lines, disk>>

(* The rescue shell when there is no volume, or for the key q; init        *)
(* otherwise, which panics when there is no such file.  Both waiting for   *)
(* the key and the end of kmain enable interrupts.  (Pages that were never *)
(* read may hold the archive of an earlier boot.)                          *)
KmainChooses ==
    /\ pc = "kmain" /\ step > Len(Steps)
    /\ interrupts' = TRUE
    /\ \/ pc' = "ksh"
       \/ /\ info.initramfs = "loaded"
          /\ pc' = IF FSVirtualFileSystemOpenPath(Nodes, InitPath) = << >> THEN "panic" ELSE "init"
       \/ info.initramfs \in Unknown /\ pc' \in {"panic", "init"}
    /\ UNCHANGED <<physical, panic, loading, info, step, lines, disk>>

(* From then on frames are allocated and freed.                            *)
KernelRuns ==
    /\ pc \in {"ksh", "init"}
    /\ PhysicalNext
    /\ UNCHANGED <<loading, pc, info, step, irq, disk>>

-----------------------------------------------------------------------------
Init ==
    /\ owner \in Layouts /\ events = 0
    /\ image = "none" /\ volume \in {<< >>} \cup {<<files>> : files \in Volumes}
    /\ pc = "firmware" /\ step = 1 /\ exited = FALSE
    /\ interrupts = TRUE /\ lines = {}
    /\ info = [frame |-> 0, initramfs |-> "unset", framebuffer |-> "none", map |-> 0,
               memoryMap |-> << >>]
    /\ mapSize = 0 /\ mapKey = 0
    /\ memoryMap = << >> /\ bitmapStart = 0 /\ bitmapSize = 0 /\ bitmap = {} /\ held = {}
    /\ panic = ""

Loader ==
    \/ uefi_init \/ LocateProtocols \/ LoadKernel \/ AllocateBootinfo \/ LoadVolume
    \/ ReadFramebuffer \/ AllocateMap \/ GetMemoryMap \/ ExitBootServices \/ EnterKernel
    \/ EnterUnread

Kmain ==
    \/ KmainStep \/ KmainInterruptController \/ KmainTimer \/ KmainPhysicalMemory
    \/ KmainVolume \/ KmainVolumeUnknown \/ KmainNoFramebuffer \/ KmainChooses

Next == FirmwareAllocates \/ Loader \/ Kmain \/ KernelRuns

(* The loader and kmain keep running. *)
Spec == Init /\ [][Next]_vars /\ WF_vars(Loader \/ Kmain)

-----------------------------------------------------------------------------
(* Properties. *)

(* Behind a successful ExitBootServices the map the kernel works with      *)
(* describes memory as it is then, the kernel and its .bss not free in it; *)
(* so what the kernel hands out later is used by nobody: not by the kernel,*)
(* the volume, the boot information or the map itself.                     *)
MapIsCurrent ==
    exited => /\ MapOK(info.memoryMap)
              /\ \A f \in Frames : owner[f] = "free" <=> f \in ConventionalFrames(info.memoryMap)
              /\ \A f \in held \cap Frames : owner[f] = "free"

(* Interrupts are off until everything their handlers use is there, the    *)
(* lines that are then open are the ones with a gate, all of them, and no  *)
(* step of kmain runs before what it uses.                                 *)
ReadyInTime ==
    /\ pc = "kmain" /\ step <= Len(Steps) => Needs(Steps[step]) \subseteq Ready
    /\ pc \in {"kmain", "ksh", "init"} /\ interrupts =>
            Ready = {Steps[i] : i \in DOMAIN Steps} /\ lines = Gates

(* Without a volume the machine comes up in the rescue shell or not at all,*)
(* and a first process means that a volume is there, and that it held the  *)
(* file unless the loader failed to read it without saying so.             *)
InitNeedsVolume ==
    /\ pc = "init" => /\ info.initramfs \in {"loaded"} \cup Unknown
                      /\ info.initramfs = "loaded" =>
                             \E i \in DOMAIN volume[1] : volume[1][i].name = InitPath
    /\ volume = << >> => pc # "init" /\ (step > Len(Steps) => pc \in {"kmain", "ksh"})

=============================================================================
