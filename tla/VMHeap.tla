------------------------------- MODULE VMHeap -------------------------------
(***************************************************************************)
(* The kernel heap (src/kernel/src/VM/Heap.c): a doubly linked list of     *)
(* blocks, each a header followed by its payload, searched first-fit, split*)
(* on allocation and coalesced on free.  Every operation holds sVMHeapLock *)
(* with interrupts masked on the one CPU, so an operation is one step.     *)
(*                                                                         *)
(* Addresses are byte offsets from kVMKernelHeapStart.  `heap` maps the    *)
(* address of each header in use to its fields; the header of a block that *)
(* has been absorbed is payload again and is not in it.                    *)
(***************************************************************************)
EXTENDS Integers

CONSTANTS
    HeapSize,       \* kVMHeapSizePages * kVMPageSize
    HeaderSize,     \* sizeof(VMHeapBlockHeader), 40
    Word,           \* UInt64 arithmetic is modulo this
    Sizes           \* what callers ask for

(* Callers ask for structures, a 16 KiB stack and files of an initramfs    *)
(* (32-bit lengths): far from where the size arithmetic wraps.             *)
ASSUME VMHeapAssumption ==
    /\ HeaderSize \in Nat \ {0}
    /\ HeapSize \in Nat /\ HeapSize >= HeaderSize
    /\ Word \in Nat /\ HeapSize + HeaderSize + 32 <= Word
    /\ Sizes \subseteq 0 .. Word - HeaderSize - 32

VARIABLES
    heap,           \* the headers: address -> VMHeapBlockHeader
    live            \* what callers hold: pointer -> size asked for

vars == <<heap, live>>

Null == -1                      \* nullptr
ListHead == 0                   \* sVMHeapListHead
Pointer(b) == b + HeaderSize    \* a block's payload
Header(p) == p - HeaderSize     \* and back

VMHeapBlockHeader == [next : Int, previous : Int, size : Nat, isFree : BOOLEAN]

-----------------------------------------------------------------------------
(* The heap's internal functions, from one value of `heap` to the next.    *)

(* Mutant: the block after the absorbed one keeps its `previous`.          *)
CombineForwardNoPrevious(h, b) ==
    LET n == h[b].next IN
    IF n = Null \/ ~h[n].isFree THEN h
    ELSE [x \in DOMAIN h \ {n} |->
            IF x = b THEN [h[b] EXCEPT !.size = @ + HeaderSize + h[n].size,
                                       !.next = h[n].next]
            ELSE h[x]]

(* sVMHeapCombineForward: absorb the next block if it is free.             *)
CombineForward(h, b) ==
    LET n == h[b].next IN
    IF n = Null \/ ~h[n].isFree THEN h
    ELSE [x \in DOMAIN h \ {n} |->
            IF x = b THEN [h[b] EXCEPT !.size = @ + HeaderSize + h[n].size,
                                       !.next = h[n].next]
            ELSE IF x = h[n].next THEN [h[x] EXCEPT !.previous = b]
            ELSE h[x]]

(* (size + 15) & ~15 *)
Align(n) == LET m == (n + 15) % Word IN m - (m % 16)

(* Cut block b to alignedSize; the rest becomes a free block behind it.    *)
Split(h, b, alignedSize) ==
    LET new == b + HeaderSize + alignedSize IN
    [x \in DOMAIN h \cup {new} |->
        IF x = new THEN [next |-> h[b].next, previous |-> b, isFree |-> TRUE,
                         size |-> h[b].size - alignedSize - HeaderSize]
        ELSE IF x = b THEN [h[b] EXCEPT !.next = new, !.size = alignedSize]
        ELSE IF x = h[b].next THEN [h[x] EXCEPT !.previous = new]
        ELSE h[x]]

Splits(h, b, alignedSize) == h[b].size > (alignedSize + HeaderSize + 16) % Word

(* Take block b, which fits: split it if the rest is worth a block.        *)
Take(h, b, alignedSize) ==
    LET g == IF Splits(h, b, alignedSize) THEN Split(h, b, alignedSize) ELSE h
    IN  [g EXCEPT ![b].isFree = FALSE]

(* Mutant: no attempt to join the block before.                            *)
ReleaseForwardOnly(h, b) == CombineForward([h EXCEPT ![b].isFree = TRUE], b)

(* sVMHeapFreeInternal: join the block after, then the block before.       *)
Release(h, b) ==
    LET g == CombineForward([h EXCEPT ![b].isFree = TRUE], b)
        p == g[b].previous
    IN  IF p # Null /\ g[p].isFree THEN CombineForward(g, p) ELSE g

(* The addresses a walk along `next` meets that starts at the head and ends*)
(* at the first block of `stop`, or at the end of the list.                *)
Closed(S, stop) ==
    /\ ListHead \in S
    /\ \A b \in S \ (stop \cup {Null}) : heap[b].next \in S

WalkUntil(stop) ==
    CHOOSE S \in SUBSET (DOMAIN heap \cup {Null}) :
        Closed(S, stop) /\ \A T \in SUBSET S : Closed(T, stop) => T = S

(* The block sVMHeapAllocateInternal settles on, Null when it runs off the *)
(* end of the list (a set of one element).                                 *)
FirstFit(alignedSize) ==
    LET fits == {b \in DOMAIN heap : heap[b].isFree /\ heap[b].size >= alignedSize}
    IN  (fits \cup {Null}) \cap WalkUntil(fits)

-----------------------------------------------------------------------------
(* The operations.  A call that returns nullptr changes nothing.           *)

Hold(f, p, n) == [q \in DOMAIN f \cup {p} |-> IF q = p THEN n ELSE f[q]]
Drop(f, p) == [q \in DOMAIN f \ {p} |-> f[q]]

VMHeapInitialize ==
    /\ heap = [b \in {ListHead} |-> [next |-> Null, previous |-> Null,
                                     size |-> HeapSize - HeaderSize,
                                     isFree |-> TRUE]]
    /\ live = [p \in {} |-> 0]

VMHeapAllocate(n) ==
    /\ n # 0
    /\ \E b \in FirstFit(Align(n)) \ {Null} :
        /\ heap' = Take(heap, b, Align(n))
        /\ live' = Hold(live, Pointer(b), n)

(* Callers free what they were given, once. *)
VMHeapFree(p) ==
    /\ heap' = Release(heap, Header(p))
    /\ live' = Drop(live, p)

(* VMHeapResize's three outcomes for a block that is kept or moved.  (With *)
(* no pointer it allocates, for size 0 it frees.)                          *)
ResizeInPlace(p, n) ==
    /\ heap[Header(p)].size >= n
    /\ live' = Hold(live, p, n)
    /\ UNCHANGED heap

(* Mutant: the size of the next block is counted whether it is free or not.*)
CanGrowUnchecked(b, n) ==
    LET next == heap[b].next IN
    next # Null /\ heap[b].size + HeaderSize + heap[next].size >= n

CanGrow(b, n) ==
    LET next == heap[b].next IN
    /\ next # Null /\ heap[next].isFree
    /\ heap[b].size + HeaderSize + heap[next].size >= n

ResizeGrow(p, n) ==
    /\ heap[Header(p)].size < n
    /\ CanGrow(Header(p), n)
    /\ heap' = CombineForward(heap, Header(p))
    /\ live' = Hold(live, p, n)

ResizeMove(p, n) ==
    /\ heap[Header(p)].size < n
    /\ ~CanGrow(Header(p), n)
    /\ \E b \in FirstFit(Align(n)) \ {Null} :
        /\ heap' = Release(Take(heap, b, Align(n)), Header(p))
        /\ live' = Hold(Drop(live, p), Pointer(b), n)

VMHeapResize(p, n) ==
    n # 0 /\ (ResizeInPlace(p, n) \/ ResizeGrow(p, n) \/ ResizeMove(p, n))

Next ==
    \/ \E n \in Sizes : VMHeapAllocate(n)
    \/ \E p \in DOMAIN live : VMHeapFree(p)
    \/ \E p \in DOMAIN live, n \in Sizes : VMHeapResize(p, n)

Spec == VMHeapInitialize /\ [][Next]_vars

-----------------------------------------------------------------------------
(* Properties. *)

End(h, b) == b + HeaderSize + h[b].size

(* The blocks tile the memory up to `top`: each ends where the next one    *)
(* starts, the last at `top`, no two overlap, and `previous` undoes `next`.*)
Tiling(h, top) ==
    /\ top \in Nat
    /\ ListHead \in DOMAIN h
    /\ DOMAIN h \subseteq Nat
    /\ h \in [DOMAIN h -> VMHeapBlockHeader]
    /\ \A b \in DOMAIN h :
        /\ h[b].next = Null => End(h, b) = top
        /\ h[b].next # Null => /\ h[b].next \in DOMAIN h
                               /\ h[b].next = End(h, b)
                               /\ h[h[b].next].previous = b
        /\ b = ListHead => h[b].previous = Null
        /\ b # ListHead => /\ h[b].previous \in DOMAIN h
                           /\ h[h[b].previous].next = b
        /\ End(h, b) <= top
    /\ \A a, b \in DOMAIN h : a < b => End(h, a) <= b

(* The list stays a tiling of the heap, whatever is split and joined.      *)
HeapTiled == Tiling(heap, HeapSize)

(* No two free blocks are neighbours, so freeing everything gives the whole*)
(* heap back as one block.                                                 *)
Coalesced(h) ==
    \A b \in DOMAIN h :
        h[b].isFree /\ h[b].next # Null => ~h[h[b].next].isFree

HeapCoalesced == Coalesced(heap)

(* The blocks in use are exactly those whose payload a caller holds, and   *)
(* are as large as the caller asked for.                                   *)
Holds(h, l) ==
    /\ DOMAIN l = {Pointer(b) : b \in {c \in DOMAIN h : ~h[c].isFree}}
    /\ \A p \in DOMAIN l : l[p] \in Nat /\ l[p] <= h[Header(p)].size

UsedBlocksHeld == Holds(heap, live)

(* The heap is an allocator: what callers hold lies in the heap and is     *)
(* disjoint, also after a resize that grows in place or moves.             *)
A == INSTANCE Allocator WITH ArenaSize <- HeapSize

ImplementsAllocator == A!Spec
=============================================================================
