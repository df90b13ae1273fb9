---------------------------- MODULE ProcessHeap ----------------------------
(***************************************************************************)
(* The heap of a user process (src/userspace/libterm/src/Memory.c): the    *)
(* kernel heap's list of blocks (VMHeap), which starts empty and is        *)
(* extended by whole pages from OSServiceMemoryAllocate.  The service hands*)
(* out consecutive addresses; it may run out of page frames halfway, and   *)
(* then keeps what it has mapped.  No frame is ever given back.            *)
(*                                                                         *)
(* A process has one thread, so an operation is one step.  Addresses are   *)
(* offsets from the start of the process's heap.                           *)
(***************************************************************************)
EXTENDS VMHeap

CONSTANTS
    PageSize,       \* kMemoryPageSize
    Frames          \* free page frames of the machine

(* Programs ask for lines and small structures: far from where the size    *)
(* arithmetic wraps.                                                       *)
ASSUME ProcessHeapAssumption ==
    /\ PageSize \in Nat \ {0} /\ Frames \in Nat
    /\ \A n \in Sizes : n + HeaderSize + PageSize + 16 <= Word

VARIABLES
    brk,            \* heapCurrentPointer of the process
    frames          \* page frames left

memory == <<vars, brk, frames>>

-----------------------------------------------------------------------------
(* sMemoryCombineForward is the kernel's. *)
sMemoryCombineForward(h, b) == CombineForward(h, b)

PagesFor(size) == (size + PageSize - 1) \div PageSize

(* Mutant: the header is not taken off the size of the new block.          *)
GrownWhole(alignedSize) ==
    LET last == {b \in DOMAIN heap : heap[b].next = Null}
        size == PagesFor(alignedSize + HeaderSize) * PageSize
    IN  [x \in DOMAIN heap \cup {brk} |->
            IF x = brk THEN [next |-> Null, isFree |-> TRUE, size |-> size,
                             previous |-> IF last = {} THEN Null ELSE CHOOSE b \in last : TRUE]
            ELSE IF x \in last THEN [heap[x] EXCEPT !.next = brk] ELSE heap[x]]

(* The list with the new pages as a block at its end.                      *)
Grown(alignedSize) ==
    LET last == {b \in DOMAIN heap : heap[b].next = Null}
        size == PagesFor(alignedSize + HeaderSize) * PageSize - HeaderSize
    IN  [x \in DOMAIN heap \cup {brk} |->
            IF x = brk THEN [next |-> Null, isFree |-> TRUE, size |-> size,
                             previous |-> IF last = {} THEN Null ELSE CHOOSE b \in last : TRUE]
            ELSE IF x \in last THEN [heap[x] EXCEPT !.next = brk] ELSE heap[x]]

(* The first block that fits, or Null (a set of one element).              *)
Fit(alignedSize) == IF DOMAIN heap = {} THEN {Null} ELSE FirstFit(alignedSize)

(* MemoryAllocate: the list and the block it takes; a block that is there, *)
(* or, when the search starts again, the new one; Null when the service    *)
(* fails (a set of one element).                                           *)
Allocated(n) ==
    LET a == Align(n)
        pages == PagesFor(a + HeaderSize)
    IN  {IF b # Null
         THEN [heap |-> Take(heap, b, a), block |-> b, brk |-> brk, frames |-> frames]
         ELSE IF pages <= frames
         THEN [heap |-> Take(Grown(a), brk, a), block |-> brk,
               brk |-> brk + pages * PageSize, frames |-> frames - pages]
         ELSE [heap |-> heap, block |-> Null, brk |-> brk + frames * PageSize, frames |-> 0]
         : b \in Fit(a)}

MemoryAllocate(n) ==
    \E got \in Allocated(n) :
        /\ n # 0
        /\ heap' = got.heap /\ brk' = got.brk /\ frames' = got.frames
        /\ live' = IF got.block = Null THEN live ELSE Hold(live, Pointer(got.block), n)

MemoryFree(p) ==
    /\ heap' = Release(heap, Header(p)) /\ live' = Drop(live, p)
    /\ UNCHANGED <<brk, frames>>

(* In place, into the next block, or by moving; a failed move keeps the    *)
(* block.                                                                  *)
MemoryReallocate(p, n) ==
    /\ n # 0
    /\ \/ (ResizeInPlace(p, n) \/ ResizeGrow(p, n)) /\ UNCHANGED <<brk, frames>>
       \/ \E got \in Allocated(n) :
            /\ heap[Header(p)].size < n /\ ~CanGrow(Header(p), n)
            /\ brk' = got.brk /\ frames' = got.frames
            /\ IF got.block = Null THEN UNCHANGED <<heap, live>>
               ELSE /\ heap' = Release(got.heap, Header(p))
                    /\ live' = Hold(Drop(live, p), Pointer(got.block), n)

(* Another process takes a frame. *)
FrameTaken == frames > 0 /\ frames' = frames - 1 /\ UNCHANGED <<heap, live, brk>>

MemoryInit ==
    /\ heap = [b \in {} |-> 0] /\ live = [p \in {} |-> 0]
    /\ brk = 0 /\ frames = Frames

MemoryNext ==
    \/ \E n \in Sizes : MemoryAllocate(n)
    \/ \E p \in DOMAIN live : MemoryFree(p)
    \/ \E p \in DOMAIN live, n \in Sizes : MemoryReallocate(p, n)
    \/ FrameTaken

MemorySpec == MemoryInit /\ [][MemoryNext]_memory

-----------------------------------------------------------------------------
(* Properties. *)

(* The blocks tile what the service has granted, also across grants and    *)
(* after one that failed halfway: up to the end of the granted memory or,  *)
(* once frames have run out, up to a place before it.                      *)
MemoryTiled ==
    IF DOMAIN heap = {} THEN brk = 0 \/ frames = 0
    ELSE \E top \in {End(heap, b) : b \in DOMAIN heap} :
            Tiling(heap, top) /\ (top = brk \/ (top < brk /\ frames = 0))

(* Through grants, grants that fail halfway, splits, joins and moves, the  *)
(* blocks tile the granted memory, no two free ones are neighbours, and the*)
(* blocks in use are the ones callers hold, as large as they asked for.    *)
MemoryConsistent == MemoryTiled /\ HeapCoalesced /\ UsedBlocksHeld
=============================================================================
