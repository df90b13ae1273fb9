-------------------------- MODULE VMPhysicalMemory --------------------------
(***************************************************************************)
(* The physical memory manager (src/kernel/src/VM/PMM.c): a bitmap with a  *)
(* bit per page frame, laid out from the firmware's memory map and stored  *)
(* in the first stretch of free memory that can hold it.  Both operations  *)
(* hold sVMPMMLock with interrupts masked, so each is one step.            *)
(*                                                                         *)
(* Frames are numbered; frame f starts at byte f * PageSize.  `bitmap` is  *)
(* the set of the frames whose bit is set.                                 *)
(***************************************************************************)
EXTENDS Integers, Sequences

CONSTANTS
    MemoryMaps,     \* the maps the firmware may hand over
    PageSize,       \* kVMPageSize
    BlocksPerByte,  \* kVMBlocksPerByte
    SafeFrames,     \* kVMSafeSpaceStartAddress / kVMPageSize
    KernelFrames    \* the frames from _kernel_start to _kernel_end

(* Types of memory: what may be used, what is not there to be used and does*)
(* not count (mapped I/O, unusable, reserved, PAL code), and all the rest. *)
OSMemoryType == {"Conventional", "Ignored", "Other"}

OSMemoryDescriptor ==
    [type : OSMemoryType, start : Nat, pageCount : Nat]

End(d) == d.start + d.pageCount

(* What UEFI promises of a memory map: its descriptors do not overlap; and *)
(* what the bootloader adds: the kernel, with the 32 pages it allocates for*)
(* its .bss, is loader data.                                               *)
MapOK(map) ==
    /\ map \in Seq(OSMemoryDescriptor)
    /\ \A i, j \in DOMAIN map :
        i # j => End(map[i]) <= map[j].start \/ End(map[j]) <= map[i].start
    /\ \A f \in KernelFrames : \E i \in DOMAIN map :
        map[i].type = "Other" /\ map[i].start <= f /\ f < End(map[i])

ASSUME PhysicalMemoryAssumption ==
    /\ \A map \in MemoryMaps : MapOK(map)
    /\ PageSize \in Nat \ {0} /\ BlocksPerByte \in Nat \ {0}
    /\ SafeFrames \in Nat \ {0}
    /\ KernelFrames \subseteq Nat

VARIABLES
    memoryMap,      \* the memory map of the boot information
    bitmapStart,    \* frame at which gVMPhycalMemoryBitmap is stored
    bitmapSize,     \* gVMPhycalMemoryBitmapSize, in bytes
    bitmap,         \* the frames whose bit is set
    held,           \* the frames handed out and not freed
    panic           \* what OSPanic was called with, if it was

physical == <<memoryMap, bitmapStart, bitmapSize, bitmap, held>>

-----------------------------------------------------------------------------
(* VMPhysicalMemoryInitialize. *)

(* maxPhysicalAddress / kVMPageSize: where the memory that counts ends.    *)
IsTotalPageCount(n, map) ==
    LET ends == {End(map[i]) : i \in {j \in DOMAIN map : map[j].type # "Ignored"}}
    IN  n \in {0} \cup ends /\ \A e \in ends : e <= n

BytesFor(totalPageCount) == (totalPageCount + BlocksPerByte - 1) \div BlocksPerByte

(* The descriptors that can host a bitmap of so many bytes. *)
Hosts(map, size) ==
    {i \in DOMAIN map : /\ map[i].type = "Conventional"
                        /\ map[i].pageCount * PageSize >= size
                        /\ map[i].start >= SafeFrames}

(* The frames whose bits the bitmap has. *)
Bits(size) == 0 .. BlocksPerByte * size - 1

ConventionalFrames(map) ==
    UNION {map[i].start .. End(map[i]) - 1 :
               i \in {j \in DOMAIN map : map[j].type = "Conventional"}}

(* Mutant: only the first frame of the bitmap is reserved.                 *)
BitmapFramesFirst(start, size) == {start}

(* The frames the last loop marks: from the bitmap's first byte, a page at *)
(* a time, while the address is below its end.                             *)
BitmapFrames(start, size) ==
    {f \in start .. start + size : (f - start) * PageSize < size}

(* The bitmap for a memory map: its size, where it is stored, which bits   *)
(* are set, and whether there was room for it.                             *)
BitmapBuilt(map, size, start, bits, why) ==
    /\ \E total \in {0} \cup {End(map[i]) : i \in DOMAIN map} :
        /\ IsTotalPageCount(total, map)
        /\ size = BytesFor(total)
    /\ \/ /\ Hosts(map, size) = {}
          /\ why = "Not enough RAM for memory bitmap"
          /\ start = 0 /\ bits = Bits(size)
       \/ \E host \in Hosts(map, size) :
            /\ \A i \in Hosts(map, size) : host <= i
            /\ why = ""
            /\ start = map[host].start
            /\ bits = (Bits(size) \ ConventionalFrames(map))
                            \cup 0 .. SafeFrames - 1 \cup KernelFrames
                            \cup BitmapFrames(start, size)

VMPhysicalMemoryInitialize ==
    /\ memoryMap \in MemoryMaps /\ held = {}
    /\ BitmapBuilt(memoryMap, bitmapSize, bitmapStart, bitmap, panic)

-----------------------------------------------------------------------------
(* The operations. *)

FreeFrames == Bits(bitmapSize) \ bitmap

(* Mutant: the search hands out a frame without marking it.                *)
AllocatePageUnmarked(f) ==
    /\ f \in FreeFrames /\ \A g \in FreeFrames : f <= g
    /\ held' = held \cup {f}
    /\ UNCHANGED <<memoryMap, bitmapStart, bitmapSize, bitmap>>

(* The first frame whose bit is clear, byte by byte and bit by bit.        *)
VMPhysicalMemoryAllocatePage(f) ==
    /\ f \in FreeFrames /\ \A g \in FreeFrames : f <= g
    /\ bitmap' = bitmap \cup {f}
    /\ held' = held \cup {f}
    /\ UNCHANGED <<memoryMap, bitmapStart, bitmapSize>>

(* ... which returns nullptr when there is none. *)
OutOfMemory == FreeFrames = {} /\ UNCHANGED physical

(* Callers free what they hold.  (There is no caller in this version.)     *)
VMPhysicalMemoryFreePage(f) ==
    /\ f \in held
    /\ bitmap' = bitmap \ {f}
    /\ held' = held \ {f}
    /\ UNCHANGED <<memoryMap, bitmapStart, bitmapSize>>

PhysicalNext ==
    /\ panic = ""
    /\ \/ \E f \in FreeFrames : VMPhysicalMemoryAllocatePage(f)
       \/ OutOfMemory
       \/ \E f \in held : VMPhysicalMemoryFreePage(f)
    /\ UNCHANGED panic

PhysicalSpec ==
    VMPhysicalMemoryInitialize /\ [][PhysicalNext]_<<physical, panic>>

-----------------------------------------------------------------------------
(* Properties. *)

(* A frame is safe to hand out when it is free memory according to the     *)
(* firmware and holds no byte of the low megabyte, of the kernel or of the *)
(* bitmap itself.                                                          *)
Usable(f) ==
    /\ \E i \in DOMAIN memoryMap :
        /\ memoryMap[i].type = "Conventional"
        /\ memoryMap[i].start <= f /\ f < End(memoryMap[i])
    /\ f >= SafeFrames
    /\ f \notin KernelFrames
    /\ \/ (f + 1) * PageSize <= bitmapStart * PageSize
       \/ f * PageSize >= bitmapStart * PageSize + bitmapSize

(* Nothing but usable frames is ever handed out; frame 0, which callers    *)
(* would take for failure, never is.                                       *)
OnlyUsableHandedOut == \A f \in held : Usable(f) /\ f # 0

(* No frame is lost or handed out twice: a clear bit is a frame nobody     *)
(* holds, and a usable frame is held or has its bit clear, so an allocation*)
(* fails only when every usable frame is held.                             *)
NoFrameLost ==
    panic = "" =>
        /\ \A f \in FreeFrames : f \notin held
        /\ \A f \in Bits(bitmapSize) : Usable(f) => f \in FreeFrames \cup held
=============================================================================
