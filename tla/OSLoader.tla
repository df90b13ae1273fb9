------------------------------ MODULE OSLoader ------------------------------
(***************************************************************************)
(* Processes and their memory: the program loader (OS/Exec/OSLoader.c,     *)
(* HOTLoader.c), the memory service (OSServiceMemory.c) and, below them,   *)
(* the managers of virtual and physical memory.                            *)
(*                                                                         *)
(* Services run with interrupts masked, and before the first process there *)
(* is nobody else who maps memory, so one load or one request is worked on *)
(* at a time: `pc` says which, `process` for whom.  Frames are not given   *)
(* back when a process ends (nobody calls VMPhysicalMemoryFreePage), so a  *)
(* process that ends changes nothing here.                                 *)
(***************************************************************************)
EXTENDS VMVirtualMemory, FiniteSets

CONSTANTS
    Images,         \* files a process may be spawned from
    MaxProcessID,   \* processes spawned (bound)
    HeapStart,      \* kOSHeapStart, a page
    Sizes           \* what processes ask OSServiceMemoryAllocate for

Processes == 1 .. MaxProcessID

(* A file: whether it begins with HOT_MAGIC, its entry point and segments. *)
(* Programs are linked to run far below the kernel's half                  *)
(* (userspace/libterm/linker.ld); HOTLoad does not check that.             *)
ImageOK(image) ==
    /\ image.magic \in BOOLEAN /\ image.entry_point \in Nat
    /\ image.segments \in Seq([vaddr : Nat, memsz : Nat])
    /\ \A i \in DOMAIN image.segments :
        image.segments[i].vaddr + image.segments[i].memsz <= KernelHalfStart * PageSize

(* The heaps start low, and there is less memory than addresses from there *)
(* to the kernel's half.                                                   *)
ASSUME LoaderAssumption ==
    /\ \A image \in Images : ImageOK(image)
    /\ MaxProcessID \in Nat
    /\ HeapStart \in Pages \ KernelPages
    /\ \A map \in MemoryMaps : \A i \in DOMAIN map :
           map[i].type # "Ignored" =>
               HeapStart + BlocksPerByte * BytesFor(End(map[i])) <= KernelHalfStart
    /\ Sizes \subseteq Nat

VARIABLES
    nextProcessID,  \* gOSSchedulerNextProcessID
    process,        \* the process that is being loaded, or has called
    segment,        \* the segment that is being loaded
    pml4,           \* physicalPML4 of each process
    heapCurrent,    \* heapCurrentPointer of each process, a page
    state,          \* how far each process has come
    image,          \* the file it was spawned from
    granted         \* the pages the memory service has returned to it

loader == <<nextProcessID, process, segment, pml4, heapCurrent, state, image, granted>>
vars == <<physical, panic, virtual, loader>>

Init ==
    /\ VirtualMemoryInit
    /\ nextProcessID = 1 /\ process = 0 /\ segment = 0
    /\ pml4 = [p \in Processes |-> 0]
    /\ heapCurrent = [p \in Processes |-> HeapStart]
    /\ state = [p \in Processes |-> "none"]
    /\ image \in [Processes -> Images]
    /\ granted = [p \in Processes |-> {}]

-----------------------------------------------------------------------------
(* OSLoaderProcessSpawn.  (A missing file, or no memory for the OSProcess, *)
(* ends the call before it does anything.)                                 *)

(* The call ends with an error: the OSProcess is freed, its frames are not.*)
SpawnFails ==
    /\ state' = [state EXCEPT ![process] = "failed"]
    /\ pc' = "ready"
    /\ UNCHANGED loop

(* Where the load goes on.  HOTLoad returns -1 for a file without the magic*)
(* number; its caller only takes 0 for an error, so the call goes on to a  *)
(* process whose entry point is -1.                                        *)
LoadBegins(p) ==
    IF image[p].magic
    THEN pc' = "segments" /\ segment' = 1 /\ loop' = Span(0, 0)
    ELSE pc' = "stack" /\ UNCHANGED segment /\ loop' = Span(UserStackBottom, UserStackTop)

(* A process id, an address space (not checked for 0), and a buffer for the*)
(* file, for which the kernel heap may have no room.  Without an address   *)
(* space the walks start in frame 0, which is taken to have no present     *)
(* entries; whatever it holds, the stack's setup panics before the process *)
(* is scheduled.                                                           *)
OSLoaderProcessSpawn ==
    /\ Running /\ pc = "ready" /\ nextProcessID <= MaxProcessID
    /\ nextProcessID' = nextProcessID + 1
    /\ process' = nextProcessID
    /\ \/ \E f \in FreeFrames :
            /\ VMPhysicalMemoryAllocatePage(f)
            /\ tables' = WithAddressSpace(f)
            /\ pml4' = [pml4 EXCEPT ![nextProcessID] = f]
       \/ OutOfMemory /\ UNCHANGED <<tables, pml4>>
    /\ \/ /\ LoadBegins(nextProcessID)
          /\ state' = [state EXCEPT ![nextProcessID] = "loading"]
       \/ /\ state' = [state EXCEPT ![nextProcessID] = "failed"]
          /\ UNCHANGED <<pc, loop, segment>>
    /\ UNCHANGED <<kernelPML4, walk, panic, heapCurrent, image, granted>>

(* Mutant: the end is rounded down.                                        *)
PagesOfRoundedDown(s) == Span(s.vaddr \div PageSize, (s.vaddr + s.memsz) \div PageSize)

(* The pages of a segment: from its first byte, rounded down, to behind its*)
(* last one, rounded up.                                                   *)
PagesOf(s) == Span(s.vaddr \div PageSize, (s.vaddr + s.memsz + PageSize - 1) \div PageSize)

Segments == image[process].segments

(* The next segment, unless it is empty. *)
HOTLoadSegment ==
    /\ Running /\ pc = "segments" /\ AtEnd /\ segment <= Len(Segments)
    /\ loop' = IF Segments[segment].memsz = 0 THEN Span(0, 0) ELSE PagesOf(Segments[segment])
    /\ segment' = segment + 1
    /\ UNCHANGED <<physical, panic, tables, kernelPML4, pc, walk, nextProcessID, process,
                   pml4, heapCurrent, state, image, granted>>

(* A page of it.  Without a frame it goes on with frame 0.                 *)
HOTLoadPage ==
    /\ Running /\ pc = "segments" /\ ~AtEnd
    /\ \/ \E f \in FreeFrames :
            /\ VMPhysicalMemoryAllocatePage(f)
            /\ VMVirtualMemoryMapPage(pml4[process], f, TRUE)
       \/ OutOfMemory /\ VMVirtualMemoryMapPage(pml4[process], 0, TRUE)
    /\ UNCHANGED <<panic, tables, kernelPML4, pc, loop, loader>>

(* HOTLoad returns the entry point; the loader takes 0 for an error.       *)
HOTLoadDone ==
    /\ Running /\ pc = "segments" /\ AtEnd /\ segment > Len(Segments)
    /\ \/ /\ image[process].entry_point = 0
          /\ SpawnFails
       \/ /\ image[process].entry_point # 0
          /\ pc' = "stack" /\ loop' = Span(UserStackBottom, UserStackTop)
          /\ UNCHANGED state
    /\ UNCHANGED <<physical, panic, tables, kernelPML4, walk, nextProcessID, process,
                   segment, pml4, heapCurrent, image, granted>>

LoaderStackPage ==
    /\ StackPage(pml4[process])
    /\ UNCHANGED loader

(* OSSchedulerSpawn makes the process a task, or finds no memory for it.   *)
LoaderSchedules ==
    /\ Running /\ pc = "stack" /\ AtEnd
    /\ \/ SpawnFails
       \/ /\ state' = [state EXCEPT ![process] = "running"]
          /\ pc' = "ready" /\ UNCHANGED loop
    /\ UNCHANGED <<physical, panic, tables, kernelPML4, walk, nextProcessID, process,
                   segment, pml4, heapCurrent, image, granted>>

-----------------------------------------------------------------------------
(* OSServiceMemoryAllocate, called by a running process. *)

PagesNeeded(size) == (size + (PageSize - 1)) \div PageSize

OSServiceMemoryAllocate(p, size) ==
    /\ Running /\ pc = "ready" /\ state[p] = "running" /\ size # 0
    /\ process' = p
    /\ pc' = "grow"
    /\ loop' = Span(heapCurrent[p], heapCurrent[p] + PagesNeeded(size))
    /\ UNCHANGED <<physical, panic, tables, kernelPML4, walk, nextProcessID, segment,
                   pml4, heapCurrent, state, image, granted>>

(* Mutant: without a frame the loop goes on.                               *)
GrowPageUnchecked ==
    /\ Running /\ pc = "grow" /\ ~AtEnd
    /\ \/ \E f \in FreeFrames :
            /\ VMPhysicalMemoryAllocatePage(f)
            /\ VMVirtualMemoryMapPage(pml4[process], f, TRUE)
       \/ OutOfMemory /\ VMVirtualMemoryMapPage(pml4[process], 0, TRUE)
    /\ UNCHANGED <<panic, tables, kernelPML4, pc, loop, loader>>

(* One more page, or the end of the call: it returns 0, and what has been  *)
(* mapped stays.                                                           *)
GrowPage ==
    /\ Running /\ pc = "grow" /\ ~AtEnd
    /\ \/ /\ \E f \in FreeFrames :
                /\ VMPhysicalMemoryAllocatePage(f)
                /\ VMVirtualMemoryMapPage(pml4[process], f, TRUE)
          /\ UNCHANGED <<pc, heapCurrent>>
       \/ /\ OutOfMemory
          /\ heapCurrent' = [heapCurrent EXCEPT ![process] = loop.next]
          /\ pc' = "ready"
          /\ UNCHANGED walk
    /\ UNCHANGED <<panic, tables, kernelPML4, loop, nextProcessID, process, segment, pml4,
                   state, image, granted>>

(* heapCurrentPointer has followed the loop; the old value is returned.    *)
GrowDone ==
    /\ Running /\ pc = "grow" /\ AtEnd
    /\ granted' = [granted EXCEPT ![process] = @ \cup heapCurrent[process] .. loop.end - 1]
    /\ heapCurrent' = [heapCurrent EXCEPT ![process] = loop.end]
    /\ pc' = "ready"
    /\ UNCHANGED <<physical, panic, tables, kernelPML4, loop, walk, nextProcessID, process,
                   segment, pml4, state, image>>

-----------------------------------------------------------------------------
Kernel == (Boot \/ Walk) /\ UNCHANGED loader

Next ==
    \/ Kernel
    \/ OSLoaderProcessSpawn \/ HOTLoadSegment \/ HOTLoadPage \/ HOTLoadDone
    \/ LoaderStackPage \/ LoaderSchedules
    \/ \E p \in Processes, size \in Sizes : OSServiceMemoryAllocate(p, size)
    \/ GrowPage \/ GrowDone

Spec == Init /\ [][Next]_vars

-----------------------------------------------------------------------------
(* Properties. *)

RunningProcesses == {p \in Processes : state[p] = "running"}

HeapFrames ==
    UNION {Translate(kernelPML4, page) :
               page \in KernelHeapStart .. KernelHeapStart + KernelHeapPages - 1}

UserPages(p) == {page \in Pages : UserTranslate(pml4[p], page) # {}}
UserFrames(p) == UNION {UserTranslate(pml4[p], page) : page \in Pages}

(* Isolation of processes: what a running process can reach from ring 3 is *)
(* memory that was allocated, that holds neither page tables nor kernel    *)
(* heap, that no other process can reach, and none of it in the kernel's   *)
(* half.                                                                   *)
Isolation ==
    \A p \in RunningProcesses :
        LET frames == UserFrames(p) IN
        /\ frames \subseteq held \ (DOMAIN tables \cup HeapFrames)
        /\ UserPages(p) \cap KernelPages = {}
        /\ Cardinality(UserPages(p)) = Cardinality(frames)
        /\ \A q \in RunningProcesses \ {p} : UserFrames(q) \cap frames = {}

(* The kernel's half is complete in every address space: all of physical   *)
(* memory, the kernel without the guard page of its stack, the framebuffer *)
(* and the heap.  VMVirtualMemoryInitialize and MapPage's callers ignore   *)
(* failures; the check in VMHeapInitialize, which comes last, must catch   *)
(* them all.                                                               *)
KernelMappedIn(root) ==
    /\ \A f \in 0 .. TotalPageCount - 1 : Translate(root, HhdmBase + f) = {f}
    /\ \A f \in KernelFrames :
           Translate(root, KernelBase + f) = {f} \ {GuardPage - KernelBase}
    /\ \A i \in 0 .. FramebufferPages - 1 :
           Translate(root, FramebufferBase + i) = {FramebufferFrame + i}
    /\ \A i \in 0 .. KernelHeapPages - 1 : Translate(root, KernelHeapStart + i) # {}
    /\ Cardinality(HeapFrames) = KernelHeapPages

KernelMapped ==
    pc \in {"ready", "segments", "stack", "grow"} =>
        \A root \in ({kernelPML4} \cup {pml4[p] : p \in Processes}) \ {0} :
            KernelMappedIn(root)

(* A process that runs has its program, its stack and what the memory      *)
(* service returned to it, mapped for user mode at every level: although   *)
(* HOTLoad and CreateAddressSpace do not check for memory, a process is    *)
(* scheduled only when every page of its segments and of its stack is      *)
(* mapped.  A granted page may lack its page table once memory has run out.*)
ProcessMapped ==
    \A p \in RunningProcesses :
        /\ \A page \in UserStackBottom .. UserStackTop - 1 :
               UserTranslate(pml4[p], page) # {}
        /\ image[p].magic =>
            \A i \in DOMAIN image[p].segments :
                LET s == image[p].segments[i] IN
                \A byte \in s.vaddr .. s.vaddr + s.memsz - 1 :
                    UserTranslate(pml4[p], byte \div PageSize) # {}
        /\ \A page \in granted[p] :
               UserTranslate(pml4[p], page) # {} \/ FreeFrames = {}
=============================================================================
