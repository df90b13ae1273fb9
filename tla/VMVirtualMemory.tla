-------------------------- MODULE VMVirtualMemory --------------------------
(***************************************************************************)
(* The virtual memory manager (src/kernel/src/VM/VMM.c): four levels of    *)
(* page tables kept in frames of VMPhysicalMemory, the kernel's own address*)
(* space built at boot, the kernel heap's pages (VMHeapInitialize), and    *)
(* address spaces that share the kernel's half.                            *)
(*                                                                         *)
(* Addresses are numbers of virtual pages.  Loops that map a range of pages*)
(* are at page loop.next of it; a call of VMVirtualMemoryMapPage is at a   *)
(* level of its walk down the tables.  OSLoader adds the processes.        *)
(***************************************************************************)
EXTENDS VMPhysicalMemory

CONSTANTS
    Entries,            \* entries of a page table, 512
    KernelFirst, KernelEnd,             \* _kernel_start, _kernel_end, in frames
    GuardPage,          \* stack_guard
    HhdmBase,           \* HHDM_OFFSET
    KernelBase,         \* KERNEL_VMA
    FramebufferBase,    \* FB_VIRT_BASE
    FramebufferFrame, FramebufferPages, \* info->framebuffer
    KernelHeapStart, KernelHeapPages,   \* kVMKernelHeapStart, kVMHeapSizePages
    UserStackBottom, UserStackTop       \* the pages of the user stack

Pages == 0 .. Entries * (Entries * Entries * Entries) - 1
KernelHalf == Entries \div 2 .. Entries - 1
KernelHalfStart == (Entries \div 2) * (Entries * Entries * Entries)
KernelPages == {page \in Pages : page >= KernelHalfStart}

(* In the kernel's half (VMM.h, Heap.h) all of physical memory comes first,*)
(* then the kernel, its heap and the framebuffer; each has to end before   *)
(* the next one starts.                                                    *)
ASSUME VirtualMemoryAssumption ==
    /\ Entries \in Nat \ {0, 1}
    /\ KernelFirst \in Nat /\ KernelEnd \in Nat
    /\ KernelFrames = KernelFirst .. KernelEnd - 1
    /\ \A base \in {HhdmBase, KernelBase, FramebufferBase, KernelHeapStart, GuardPage} :
           base \in KernelPages
    /\ KernelHeapPages \in Nat \ {0} /\ FramebufferPages \in Nat
    /\ \A map \in MemoryMaps : \A i \in DOMAIN map :
           map[i].type # "Ignored" => HhdmBase + End(map[i]) <= KernelBase
    /\ KernelBase + KernelEnd <= KernelHeapStart
    /\ KernelHeapStart + KernelHeapPages <= FramebufferBase
    /\ FramebufferBase + FramebufferPages <= Entries * (Entries * Entries * Entries)
    /\ UserStackBottom \in Nat /\ UserStackTop \in Nat /\ UserStackBottom < UserStackTop
    /\ UserStackBottom .. UserStackTop - 1 \subseteq Pages \ KernelPages

(* The guard page is one of the kernel's (entry.asm, linker.ld).  The last *)
(* page of the kernel's heap, and of a user's stack, is not the first of   *)
(* its page table: an earlier page of the same loop has set the table up.  *)
ASSUME LastPagesAssumption ==
    /\ GuardPage - KernelBase \in KernelFrames
    /\ KernelHeapPages > 1 /\ (KernelHeapStart + KernelHeapPages - 1) % Entries # 0
    /\ UserStackTop > UserStackBottom + 1 /\ (UserStackTop - 1) % Entries # 0

VARIABLES
    tables,         \* contents of the frames that hold page tables
    kernelPML4,     \* gVMKernelPML4Physical
    pc,             \* what the kernel is doing
    loop,           \* the pages it still has to map: next .. end - 1
    walk            \* the locals of sVMVirtualMemoryMapPageInternal

virtual == <<tables, kernelPML4, pc, loop, walk>>

(* A present entry; an absent one is not in the table's domain.  PTE_RW is *)
(* set everywhere.                                                         *)
Entry(frame, user) == [frame |-> frame, user |-> user]

Has(t, i) == t \in DOMAIN tables /\ i \in DOMAIN tables[t]

(* VMM_PT_INDEX .. VMM_PML4_INDEX. *)
Index(page, level) ==
    CASE level = 1 -> page % Entries
      [] level = 2 -> (page \div Entries) % Entries
      [] level = 3 -> (page \div (Entries * Entries)) % Entries
      [] level = 4 -> (page \div (Entries * Entries * Entries)) % Entries

Put(table, i, entry) ==
    [j \in DOMAIN table \cup {i} |-> IF j = i THEN entry ELSE table[j]]

Empty == [i \in {} |-> Entry(0, FALSE)]

Span(from, to) == [next |-> from, end |-> to]
NoWalk == [level |-> 0, table |-> 0, phys |-> 0, user |-> FALSE]
Running == panic = "" /\ walk = NoWalk
AtEnd == loop.next >= loop.end

-----------------------------------------------------------------------------
(* VMVirtualMemoryMapPage, for page loop.next. *)

VMVirtualMemoryMapPage(pml4, phys, user) ==
    walk' = [level |-> 4, table |-> pml4, phys |-> phys, user |-> user]

(* The call is over, whether it mapped the page or not: no caller looks.   *)
MapPageReturns ==
    /\ walk' = NoWalk
    /\ loop' = [loop EXCEPT !.next = @ + 1]

Slot == Index(loop.next, walk.level)
Walking == panic = "" /\ walk.level > 1

(* The entry leads to a table: open it to the user if the page is.         *)
WalkPresent ==
    /\ Walking /\ Has(walk.table, Slot)
    /\ LET e == tables[walk.table][Slot] IN
        /\ tables' = [tables EXCEPT ![walk.table] =
                         Put(@, Slot, Entry(e.frame, e.user \/ walk.user))]
        /\ walk' = [walk EXCEPT !.level = @ - 1, !.table = e.frame]
    /\ UNCHANGED <<physical, kernelPML4, pc, loop, panic>>

(* There is none: a new one, cleared and then linked.                      *)
WalkAllocate ==
    /\ Walking /\ ~Has(walk.table, Slot)
    /\ \E f \in FreeFrames :
        /\ VMPhysicalMemoryAllocatePage(f)
        /\ tables' = [t \in DOMAIN tables \cup {f} |->
                        IF t = f THEN Empty
                        ELSE IF t = walk.table THEN Put(tables[t], Slot, Entry(f, walk.user))
                        ELSE tables[t]]
        /\ walk' = [walk EXCEPT !.level = @ - 1, !.table = f]
    /\ UNCHANGED <<kernelPML4, pc, loop, panic>>

WalkOutOfMemory ==
    /\ Walking /\ ~Has(walk.table, Slot)
    /\ OutOfMemory
    /\ MapPageReturns
    /\ UNCHANGED <<tables, kernelPML4, pc, panic>>

WalkLeaf ==
    /\ panic = "" /\ walk.level = 1
    /\ tables' = [tables EXCEPT ![walk.table] =
                     Put(@, Slot, Entry(walk.phys, walk.user))]
    /\ MapPageReturns
    /\ UNCHANGED <<physical, kernelPML4, pc, panic>>

Walk == WalkPresent \/ WalkAllocate \/ WalkOutOfMemory \/ WalkLeaf

-----------------------------------------------------------------------------
(* Following the tables: the frames reached from those of S by the entry   *)
(* for `page`, and the frame it is translated to (a set of at most one).   *)

Down(S, page, level) ==
    LET i == Index(page, level)
    IN  {tables[t][i].frame : t \in {u \in S : Has(u, i)}}

PageTable(pml4, page) == Down(Down(Down({pml4}, page, 4), page, 3), page, 2)

Translate(pml4, page) == Down(PageTable(pml4, page), page, 1)

(* The same for an access from ring 3, which needs the user flag on each   *)
(* level.                                                                  *)
UserDown(S, page, level) ==
    LET i == Index(page, level)
    IN  {tables[t][i].frame : t \in {u \in S : Has(u, i) /\ tables[u][i].user}}

UserTranslate(pml4, page) ==
    UserDown(UserDown(UserDown(UserDown({pml4}, page, 4), page, 3), page, 2), page, 1)

(* VMVirtualMemoryUnmapPage *)
VMVirtualMemoryUnmapPage(pml4, page) ==
    LET i == Index(page, 1)
    IN  tables' = [t \in DOMAIN tables |->
                      IF t \in PageTable(pml4, page)
                      THEN [j \in DOMAIN tables[t] \ {i} |-> tables[t][j]]
                      ELSE tables[t]]

-----------------------------------------------------------------------------
(* VMVirtualMemoryInitialize and VMHeapInitialize, as kmain calls them.    *)

(* VMPhysicalMemoryGetTotalMemorySize, in pages. *)
TotalPageCount ==
    CHOOSE n \in 0 .. BlocksPerByte * bitmapSize : IsTotalPageCount(n, memoryMap)

VirtualMemoryInit ==
    /\ VMPhysicalMemoryInitialize
    /\ tables = [t \in {} |-> Empty]
    /\ kernelPML4 = 0
    /\ pc = "pml4"
    /\ loop = Span(0, 0)
    /\ walk = NoWalk

(* Neither this nor a call of MapPage checks for nullptr. *)
InitializePML4 ==
    /\ Running /\ pc = "pml4"
    /\ \/ \E f \in FreeFrames :
            /\ VMPhysicalMemoryAllocatePage(f)
            /\ kernelPML4' = f
            /\ tables' = [t \in {f} |-> Empty]
       \/ OutOfMemory /\ UNCHANGED <<kernelPML4, tables>>
    /\ pc' = "hhdm"
    /\ loop' = Span(HhdmBase, HhdmBase + TotalPageCount)
    /\ UNCHANGED <<walk, panic>>

PhysicalOf(page) ==
    CASE pc = "hhdm" -> page - HhdmBase
      [] pc = "kernel" -> page - KernelBase
      [] pc = "framebuffer" -> FramebufferFrame + (page - FramebufferBase)

InitializePage ==
    /\ Running /\ pc \in {"hhdm", "kernel", "framebuffer"} /\ ~AtEnd
    /\ VMVirtualMemoryMapPage(kernelPML4, PhysicalOf(loop.next), FALSE)
    /\ UNCHANGED <<physical, tables, kernelPML4, pc, loop, panic>>

(* Mutant: the loop over the framebuffer stops a page early.               *)
InitializeNextShort ==
    /\ Running /\ AtEnd
    /\ \/ /\ pc = "hhdm" /\ pc' = "kernel"
          /\ loop' = Span(KernelBase + KernelFirst, KernelBase + KernelEnd)
       \/ /\ pc = "kernel" /\ pc' = "framebuffer"
          /\ loop' = Span(FramebufferBase, FramebufferBase + FramebufferPages - 1)
    /\ UNCHANGED <<physical, tables, kernelPML4, walk, panic>>

(* From one of the three loops to the next. *)
InitializeNext ==
    /\ Running /\ AtEnd
    /\ \/ /\ pc = "hhdm" /\ pc' = "kernel"
          /\ loop' = Span(KernelBase + KernelFirst, KernelBase + KernelEnd)
       \/ /\ pc = "kernel" /\ pc' = "framebuffer"
          /\ loop' = Span(FramebufferBase, FramebufferBase + FramebufferPages)
    /\ UNCHANGED <<physical, tables, kernelPML4, walk, panic>>

(* The guard page is taken out and the new tables are loaded; kmain goes on*)
(* with the heap.                                                          *)
InitializeDone ==
    /\ Running /\ AtEnd /\ pc = "framebuffer"
    /\ VMVirtualMemoryUnmapPage(kernelPML4, GuardPage)
    /\ pc' = "heap"
    /\ loop' = Span(KernelHeapStart, KernelHeapStart + KernelHeapPages)
    /\ UNCHANGED <<physical, kernelPML4, walk, panic>>

HeapPage ==
    /\ Running /\ pc = "heap" /\ ~AtEnd
    /\ \/ \E f \in FreeFrames :
            /\ VMPhysicalMemoryAllocatePage(f)
            /\ VMVirtualMemoryMapPage(kernelPML4, f, FALSE)
            /\ UNCHANGED panic
       \/ OutOfMemory /\ panic' = "OOM during heap init" /\ UNCHANGED walk
    /\ UNCHANGED <<tables, kernelPML4, pc, loop>>

HeapDone ==
    /\ Running /\ pc = "heap" /\ AtEnd
    /\ pc' = "ready"
    /\ UNCHANGED <<physical, tables, kernelPML4, loop, walk, panic>>

Boot ==
    \/ InitializePML4 \/ InitializePage \/ InitializeNext \/ InitializeDone
    \/ HeapPage \/ HeapDone

-----------------------------------------------------------------------------
(* What processes are made of. *)

(* The tables after VMVirtualMemoryCreateAddressSpace put a PML4 in f: the *)
(* upper half is the kernel's.                                             *)
WithAddressSpace(f) ==
    [t \in DOMAIN tables \cup {f} |->
        IF t = f
        THEN [i \in DOMAIN tables[kernelPML4] \cap KernelHalf |-> tables[kernelPML4][i]]
        ELSE tables[t]]

(* A page of VMVirtualMemorySetupUserStack. *)
StackPage(pml4) ==
    /\ Running /\ pc = "stack" /\ ~AtEnd
    /\ \/ \E f \in FreeFrames :
            /\ VMPhysicalMemoryAllocatePage(f)
            /\ VMVirtualMemoryMapPage(pml4, f, TRUE)
            /\ UNCHANGED panic
       \/ OutOfMemory /\ panic' = "OOM in user stack setup" /\ UNCHANGED walk
    /\ UNCHANGED <<tables, kernelPML4, pc, loop>>
=============================================================================
