----------------------- MODULE VMPhysicalMemoryProofs -----------------------
(***************************************************************************)
(* For every memory map, page size and kernel image: the physical memory   *)
(* manager hands out usable frames only, and loses none.                   *)
(***************************************************************************)
EXTENDS VMPhysicalMemory, TLAPS

(* What may be handed out next is usable. *)
FreeUsable == panic = "" => \A f \in FreeFrames : Usable(f)

(* The inductive invariant.  Next to the two properties and FreeUsable it  *)
(* says that frames in use have a bit in the bitmap, which freeing clears. *)
PhysicalInv ==
    /\ memoryMap \in Seq(OSMemoryDescriptor)
    /\ bitmapStart \in Nat /\ bitmapSize \in Nat
    /\ held \subseteq Bits(bitmapSize)
    /\ OnlyUsableHandedOut
    /\ NoFrameLost /\ FreeUsable

(* Multiplication by a page size is monotone. *)
LEMMA TimesMonotone ==
    ASSUME NEW a \in Nat, NEW b \in Nat, NEW c \in Nat, a <= b
    PROVE  a * c <= b * c
<1>1. PICK d \in Nat : b = a + d
  <2>1. b - a \in Nat
    OBVIOUS
  <2> QED
    BY <2>1
<1>2. b * c = a * c + d * c /\ d * c \in Nat /\ a * c \in Nat
  BY <1>1
<1> QED
  BY <1>2

(* The loop over the bitmap's pages marks exactly the frames that share a  *)
(* byte with it.                                                           *)
LEMMA BitmapFramesExact ==
    ASSUME NEW f \in Nat, NEW start \in Nat, NEW size \in Nat
    PROVE  f \notin BitmapFrames(start, size) <=>
               \/ (f + 1) * PageSize <= start * PageSize
               \/ f * PageSize >= start * PageSize + size
<1>0. PageSize \in Nat /\ PageSize >= 1
  BY PhysicalMemoryAssumption
<1>1. CASE f < start
  <2>1. (f + 1) * PageSize <= start * PageSize
    BY <1>0, <1>1, f + 1 \in Nat, f + 1 <= start, TimesMonotone
  <2> QED
    BY <1>1, <2>1 DEF BitmapFrames
<1>2. CASE f >= start
  <2>1. PICK k \in Nat : f = start + k
    <3>1. f - start \in Nat
      BY <1>2
    <3> QED
      BY <3>1
  <2>2. /\ k * PageSize \in Nat /\ start * PageSize \in Nat
        /\ f * PageSize = start * PageSize + k * PageSize
    BY <1>0, <2>1
  <2>3. ~((f + 1) * PageSize <= start * PageSize)
    <3>1. start + 1 <= f + 1 /\ start + 1 \in Nat /\ f + 1 \in Nat
      BY <1>2
    <3>2. (start + 1) * PageSize <= (f + 1) * PageSize
      BY <1>0, <3>1, TimesMonotone
    <3>3. (start + 1) * PageSize = start * PageSize + PageSize
      BY <1>0
    <3>4. (f + 1) * PageSize \in Nat
      BY <1>0, <3>1
    <3> QED
      BY <1>0, <2>2, <3>2, <3>3, <3>4
  <2>4. f \in BitmapFrames(start, size) <=> k * PageSize < size
    <3>1. k * PageSize < size => k <= size
      <4>1. k * 1 <= k * PageSize
        BY <1>0
      <4> QED
        BY <2>2, <4>1
    <3>2. f \in start .. start + size <=> k <= size
      BY <2>1
    <3>3. f - start = k
      BY <2>1
    <3> QED
      BY <3>1, <3>2, <3>3 DEF BitmapFrames
  <2> QED
    BY <2>2, <2>3, <2>4
<1> QED
  BY <1>1, <1>2

(* The number of bytes is a natural number. *)
LEMMA BytesForType ==
    ASSUME NEW n \in Nat
    PROVE  BytesFor(n) \in Nat
  BY PhysicalMemoryAssumption DEF BytesFor

(* The bitmap has been built, and nothing is handed out yet. *)
BitmapReady ==
    /\ memoryMap \in Seq(OSMemoryDescriptor) /\ held = {}
    /\ BitmapBuilt(memoryMap, bitmapSize, bitmapStart, bitmap, panic)

(* What the bitmap says once it is built. *)
LEMMA InitialBitmap == BitmapReady => PhysicalInv
<1> SUFFICES ASSUME BitmapReady
             PROVE  PhysicalInv
  OBVIOUS
<1>0. SafeFrames \in Nat /\ BlocksPerByte \in Nat
  BY PhysicalMemoryAssumption
<1>1. memoryMap \in Seq(OSMemoryDescriptor) /\ held = {}
  BY DEF BitmapReady
<1>2. \A i \in DOMAIN memoryMap : memoryMap[i].start \in Nat /\ End(memoryMap[i]) \in Nat
  <2>1. \A i \in DOMAIN memoryMap : memoryMap[i] \in OSMemoryDescriptor
    BY <1>1
  <2> QED
    BY <2>1 DEF OSMemoryDescriptor, End
<1>3. bitmapSize \in Nat
  <2>1. PICK total \in {0} \cup {End(memoryMap[i]) : i \in DOMAIN memoryMap} :
            bitmapSize = BytesFor(total)
    BY DEF BitmapReady, BitmapBuilt
  <2>2. total \in Nat
    BY <1>2
  <2> QED
    BY <2>1, <2>2, BytesForType
<1>4. bitmapStart \in Nat
  <2>1. \A i \in DOMAIN memoryMap : memoryMap[i].start \in Nat
    BY <1>2
  <2>2. \A i \in Hosts(memoryMap, bitmapSize) : i \in DOMAIN memoryMap
    BY DEF Hosts
  <2>3. bitmapStart = 0 \/ \E host \in Hosts(memoryMap, bitmapSize) :
                               bitmapStart = memoryMap[host].start
    BY Zenon DEF BitmapReady, BitmapBuilt
  <2>4. bitmapStart = 0 \/ \E host \in DOMAIN memoryMap :
                               bitmapStart = memoryMap[host].start
    BY <2>2, <2>3, Zenon
  <2> QED
    BY <2>1, <2>4
<1>b. \/ panic = "Not enough RAM for memory bitmap"
      \/ bitmap = (Bits(bitmapSize) \ ConventionalFrames(memoryMap))
                     \cup 0 .. SafeFrames - 1 \cup KernelFrames
                     \cup BitmapFrames(bitmapStart, bitmapSize)
  BY Zenon DEF BitmapReady, BitmapBuilt
<1>5. ASSUME NEW f \in Bits(bitmapSize)
      PROVE  (/\ f \in ConventionalFrames(memoryMap)
              /\ f \notin 0 .. SafeFrames - 1 \cup KernelFrames
              /\ f \notin BitmapFrames(bitmapStart, bitmapSize)) <=> Usable(f)
  <2>1. f \in Nat
    BY <1>0, <1>3 DEF Bits
  <2>2. \A i \in DOMAIN memoryMap :
            f \in memoryMap[i].start .. End(memoryMap[i]) - 1 <=>
                memoryMap[i].start <= f /\ f < End(memoryMap[i])
    BY <1>2, <2>1
  <2>3. f \in ConventionalFrames(memoryMap) <=>
            \E i \in DOMAIN memoryMap :
                /\ memoryMap[i].type = "Conventional"
                /\ memoryMap[i].start <= f /\ f < End(memoryMap[i])
    BY <2>2, Zenon DEF ConventionalFrames
  <2>4. f \notin 0 .. SafeFrames - 1 <=> f >= SafeFrames
    BY <1>0, <2>1
  <2>5. f \notin BitmapFrames(bitmapStart, bitmapSize) <=>
               \/ (f + 1) * PageSize <= bitmapStart * PageSize
               \/ f * PageSize >= bitmapStart * PageSize + bitmapSize
    BY <1>3, <1>4, <2>1, BitmapFramesExact
  <2> QED
    BY <2>3, <2>4, <2>5, Zenon DEF Usable
<1>6. NoFrameLost /\ FreeUsable
  <2> SUFFICES ASSUME panic = ""
               PROVE  \A f \in Bits(bitmapSize) : f \notin bitmap <=> Usable(f)
    BY <1>1 DEF NoFrameLost, FreeUsable, FreeFrames
  <2>1. bitmap = (Bits(bitmapSize) \ ConventionalFrames(memoryMap))
                     \cup 0 .. SafeFrames - 1 \cup KernelFrames
                     \cup BitmapFrames(bitmapStart, bitmapSize)
    BY <1>b
  <2> QED
    BY <1>5, <2>1, Zenon
<1> QED
  BY <1>1, <1>3, <1>4, <1>6 DEF PhysicalInv, OnlyUsableHandedOut

(* Usable frames lie above the low megabyte, so none is frame 0.           *)
LEMMA UsableNotZero ==
    ASSUME NEW f, Usable(f)
    PROVE  f # 0
  BY PhysicalMemoryAssumption DEF Usable

LEMMA StepKeepsInv ==
    ASSUME PhysicalInv, [PhysicalNext]_<<physical, panic>>
    PROVE  PhysicalInv'
<1> USE DEF PhysicalInv
<1>1. CASE panic = "" /\ UNCHANGED panic /\
           \E f \in FreeFrames : VMPhysicalMemoryAllocatePage(f)
  <2>1. PICK f \in FreeFrames : VMPhysicalMemoryAllocatePage(f)
    BY <1>1
  <2>2. UNCHANGED <<memoryMap, bitmapStart, bitmapSize>>
        /\ bitmap' = bitmap \cup {f} /\ held' = held \cup {f}
    BY <2>1 DEF VMPhysicalMemoryAllocatePage
  <2>3. \A g : Usable(g)' <=> Usable(g)
    BY <2>2 DEF Usable
  <2>4. Usable(f) /\ f \in Bits(bitmapSize)
    BY <1>1 DEF FreeUsable, FreeFrames
  <2>5. OnlyUsableHandedOut'
    BY <2>2, <2>3, <2>4, UsableNotZero DEF OnlyUsableHandedOut
  <2>6. NoFrameLost' /\ FreeUsable'
    BY <1>1, <2>2, <2>3 DEF NoFrameLost, FreeUsable, FreeFrames, Bits
  <2> QED
    BY <2>2, <2>4, <2>5, <2>6 DEF Bits
<1>2. CASE panic = "" /\ UNCHANGED panic /\
           \E f \in held : VMPhysicalMemoryFreePage(f)
  <2>1. PICK f \in held : VMPhysicalMemoryFreePage(f)
    BY <1>2
  <2>2. UNCHANGED <<memoryMap, bitmapStart, bitmapSize>>
        /\ bitmap' = bitmap \ {f} /\ held' = held \ {f}
    BY <2>1 DEF VMPhysicalMemoryFreePage
  <2>3. \A g : Usable(g)' <=> Usable(g)
    BY <2>2 DEF Usable
  <2>4. Usable(f) /\ f \in Bits(bitmapSize)
    BY DEF OnlyUsableHandedOut
  <2>5. OnlyUsableHandedOut'
    BY <2>2, <2>3 DEF OnlyUsableHandedOut
  <2>6. NoFrameLost' /\ FreeUsable'
    BY <1>2, <2>2, <2>3, <2>4 DEF NoFrameLost, FreeUsable, FreeFrames, Bits
  <2> QED
    BY <2>2, <2>5, <2>6 DEF Bits
<1>3. CASE UNCHANGED <<physical, panic>>
  BY <1>3 DEF physical, OnlyUsableHandedOut, NoFrameLost, FreeUsable, FreeFrames, Usable, Bits
<1> QED
  BY <1>1, <1>2, <1>3 DEF PhysicalNext, OutOfMemory

LEMMA PhysicalInvariant == PhysicalSpec => []PhysicalInv
<1>1. VMPhysicalMemoryInitialize => PhysicalInv
  BY InitialBitmap, PhysicalMemoryAssumption
     DEF VMPhysicalMemoryInitialize, BitmapReady, MapOK
<1> QED
  BY <1>1, StepKeepsInv, PTL DEF PhysicalSpec

(* VMPhysicalMemoryAllocatePage never returns a frame that is not free     *)
(* memory, or that holds part of the kernel, of the low megabyte or of the *)
(* bitmap.                                                                 *)
THEOREM HandsOutUsable == PhysicalSpec => []OnlyUsableHandedOut
<1>1. PhysicalInv => OnlyUsableHandedOut
  BY DEF PhysicalInv
<1> QED
  BY <1>1, PhysicalInvariant, PTL

(* No frame is handed out twice, and an allocation fails only when every   *)
(* usable frame is held.                                                   *)
THEOREM LosesNoFrame == PhysicalSpec => []NoFrameLost
<1>1. PhysicalInv => NoFrameLost
  BY DEF PhysicalInv
<1> QED
  BY <1>1, PhysicalInvariant, PTL
=============================================================================
