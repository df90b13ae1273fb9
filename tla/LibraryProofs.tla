--------------------------- MODULE LibraryProofs ---------------------------
(***************************************************************************)
(* The library code: the random numbers of the kernel (Rand) and the heap  *)
(* of a process (ProcessHeap), for every value of their constants.         *)
(***************************************************************************)
EXTENDS ProcessHeap, Rand, VMHeapProofs, NaturalsInduction, WellFoundedInduction

(* A set of numbers has a lowest one.                                      *)
LEMMA Lowest ==
    ASSUME NEW x \in SUBSET Nat, x # {}
    PROVE  \E b \in x : \A c \in x : b <= c
<1>1. \E b \in x : \A c \in x : ~(<<c, b>> \in OpToRel(<, Nat))
  BY NatLessThanWellFounded, WFMin, Zenon
<1>2. PICK b \in x : \A c \in x : ~(<<c, b>> \in OpToRel(<, Nat))
  BY <1>1
<1>3. \A c \in x : ~(c < b)
  BY <1>2 DEF OpToRel
<1> QED
  BY <1>3

-----------------------------------------------------------------------------
(* Rand.c.  The generator never falls into the state 0.  The argument is   *)
(* about extreme bits: a shift to the left moves every bit up, so the      *)
(* lowest bit of a word meets no bit of its shifted copy and stays in the  *)
(* mixed word; a shift to the right leaves the highest one alone in the    *)
(* same way.                                                               *)

(* The words other than 0. *)
Words == (SUBSET Position) \ {{}}

(* A word that is not 0 has a highest bit: the lowest of its mirror image. *)
LEMMA Highest ==
    ASSUME NEW x \in Words
    PROVE  \E b \in x : \A c \in x : c <= b
<1> DEFINE mirror == {n \in Nat : Bits - 1 - n \in x}
<1>1. mirror \in SUBSET Nat /\ mirror # {}
  <2>1. PICK c \in x : TRUE
    BY DEF Words
  <2>2. Bits - 1 - c \in Nat /\ Bits - 1 - (Bits - 1 - c) = c
    BY RandAssumption DEF Position, Words
  <2> QED
    BY <2>1, <2>2
<1>2. PICK n \in mirror : \A m \in mirror : n <= m
  BY <1>1, Lowest
<1>3. \A c \in x : c <= Bits - 1 - n
  <2>1. SUFFICES ASSUME NEW c \in x PROVE c <= Bits - 1 - n
    OBVIOUS
  <2>2. Bits - 1 - c \in mirror /\ c \in Int
    BY RandAssumption DEF Position, Words
  <2> QED
    <3>1. n <= Bits - 1 - c /\ n \in Nat
      BY <1>2, <2>2
    <3> QED
      BY <2>2, <3>1, RandAssumption
<1> QED
  BY <1>2, <1>3

(* Mixing a word with its copy shifted to the left does not give 0.        *)
LEMMA LeftMixed ==
    ASSUME NEW x \in Words, NEW n \in Nat \ {0}
    PROVE  Xor(x, ShiftLeft(x, n)) \in Words
<1>1. x \in SUBSET Nat
  BY RandAssumption DEF Position, Words
<1>2. PICK b \in x : \A c \in x : b <= c
  BY <1>1, Lowest DEF Words
<1>3. b \notin ShiftLeft(x, n)
  <2>1. b \in Nat /\ ~(b <= b - n)
    BY <1>1, <1>2
  <2> QED
    BY <1>2, <2>1 DEF ShiftLeft
<1> QED
  BY <1>2, <1>3 DEF Xor, ShiftLeft, Words

(* Nor with its copy shifted to the right.                                 *)
LEMMA RightMixed ==
    ASSUME NEW x \in Words, NEW n \in Nat \ {0}
    PROVE  Xor(x, ShiftRight(x, n)) \in Words
<1>1. PICK b \in x : \A c \in x : c <= b
  BY Highest
<1>2. b \notin ShiftRight(x, n)
  BY <1>1, RandAssumption DEF ShiftRight, Position, Words
<1> QED
  BY <1>1, <1>2 DEF Xor, ShiftRight, Words

(* One step of the generator keeps a state that is not 0.                  *)
LEMMA XorshiftMixed ==
    ASSUME NEW x \in Words
    PROVE  RandXorshift(x) \in Words
<1> DEFINE y == Xor(x, ShiftLeft(x, Shift1))
<1> DEFINE z == Xor(y, ShiftRight(y, Shift2))
<1>1. y \in Words
  BY LeftMixed, RandAssumption
<1>2. z \in Words
  <2> HIDE DEF y
  <2> QED
    BY <1>1, RightMixed, RandAssumption
<1>3. Xor(z, ShiftLeft(z, Shift3)) \in Words
  <2> HIDE DEF z
  <2> QED
    BY <1>2, LeftMixed, RandAssumption
<1> QED
  BY <1>3, Zenon DEF RandXorshift

(* Whatever the time stamp counter was at RandInitialize, however often    *)
(* Rand falls back on the generator: the state is never 0, where it would  *)
(* stay.                                                                   *)
THEOREM GeneratorNeverStuck == RandSpec => []NeverStuck
<1>1. RandInitialize => NeverStuck
  BY RandAssumption DEF RandInitialize, NeverStuck
<1>2. NeverStuck /\ [Rand]_sPseudorandState => NeverStuck'
  <2>1. SUFFICES ASSUME NeverStuck, [Rand]_sPseudorandState PROVE NeverStuck'
    OBVIOUS
  <2>2. CASE sPseudorandState' = sPseudorandState
    BY <2>1, <2>2 DEF NeverStuck
  <2>3. CASE sPseudorandState' = RandXorshift(sPseudorandState)
    BY <2>1, <2>3, XorshiftMixed DEF NeverStuck, Words
  <2> QED
    BY <2>1, <2>2, <2>3 DEF Rand
<1> QED
  BY <1>1, <1>2, PTL DEF RandSpec

-----------------------------------------------------------------------------
(* Memory.c. *)

LEMMA PageFacts ==
    /\ PageSize \in Nat /\ PageSize > 0
    /\ Frames \in Nat
BY ProcessHeapAssumption

(* The pages for a size, rounded up, are enough.                           *)
LEMMA PagesEnough ==
    ASSUME NEW size \in Nat, size > 0
    PROVE  PagesFor(size) \in Nat /\ PagesFor(size) >= 1 /\ PagesFor(size) * PageSize >= size
<1> DEFINE s == size + PageSize - 1
           q == s \div PageSize
<1>1. s \in Nat /\ s >= PageSize
  BY PageFacts
<1> HIDE DEF s
<1>2. q \in Nat /\ s = (q * PageSize) + (s % PageSize) /\ s % PageSize < PageSize
      /\ s % PageSize \in Nat
  BY <1>1, PageFacts
<1> HIDE DEF q
<1>3. q * PageSize \in Nat
  BY <1>2, PageFacts
<1>4. q * PageSize >= size
  BY <1>2, <1>3, PageFacts DEF s
<1>5. q >= 1
  <2>1. q # 0
    BY <1>1, <1>2, PageFacts
  <2> QED BY <1>2, <2>1
<1> QED BY <1>2, <1>4, <1>5 DEF PagesFor, q, s

(* A tiling has a last block, above all others, and no second one.         *)
LEMMA LastBlock ==
    ASSUME NEW h, NEW top, Tiling(h, top)
    PROVE  \E z \in DOMAIN h : /\ h[z].next = Null /\ End(h, z) = top
                               /\ \A b \in DOMAIN h : h[b].next = Null => b = z
<1> DEFINE mirror == {n \in Nat : top - n \in DOMAIN h}
<1>1. /\ top \in Nat /\ ListHead \in DOMAIN h
      /\ \A b \in DOMAIN h : /\ b \in Nat /\ h[b].size \in Nat
                             /\ b + HeaderSize + h[b].size <= top
                             /\ h[b].next = Null => b + HeaderSize + h[b].size = top
      /\ \A a, b \in DOMAIN h : a < b => a + HeaderSize + h[a].size <= b
  BY DEF Tiling, End, VMHeapBlockHeader
<1>2. \A b \in DOMAIN h : top - b \in mirror /\ top - (top - b) = b
  BY <1>1, ConstantFacts
<1>3. mirror \in SUBSET Nat /\ mirror # {}
  BY <1>1, <1>2
<1>4. PICK n \in mirror : \A m \in mirror : n <= m
  BY <1>3, Lowest
<1> DEFINE z == top - n
<1>5. z \in DOMAIN h
  BY <1>4
<1>6. \A b \in DOMAIN h : b <= z
  <2>1. SUFFICES ASSUME NEW b \in DOMAIN h PROVE b <= z
    OBVIOUS
  <2>2. n <= top - b /\ n \in Nat /\ b \in Nat
    BY <1>1, <1>2, <1>4
  <2> QED BY <1>1, <2>2
<1> HIDE DEF z
<1>7. h[z].next = Null
  <2>1. SUFFICES ASSUME h[z].next # Null PROVE FALSE
    OBVIOUS
  <2>2. h[z].next \in DOMAIN h /\ z < h[z].next /\ h[z].next \in Nat /\ z \in Nat
    BY <1>5, <2>1, NextGoesUp
  <2> QED BY <1>6, <2>2
<1>8. ASSUME NEW b \in DOMAIN h, h[b].next = Null PROVE b = z
  <2>1. b <= z /\ b \in Nat /\ z \in Nat /\ h[z].size \in Nat
    BY <1>1, <1>5, <1>6, <1>8
  <2>2. CASE b < z
    <3>1. top <= z /\ z + HeaderSize + h[z].size <= top
      BY <1>1, <1>5, <1>8, <2>2
    <3> QED BY <1>1, <2>1, <3>1, ConstantFacts
  <2> QED BY <2>1, <2>2
<1> QED BY <1>1, <1>5, <1>7, <1>8 DEF End

(* The list of a process's heap h, with l held, b bytes granted and f      *)
(* frames left: MemoryConsistent, in terms of blocks.                      *)
Consistent(h, l, b, f) ==
    IF DOMAIN h = {} THEN DOMAIN l = {} /\ (b = 0 \/ f = 0)
    ELSE \E top \in Nat : /\ Tiling(h, top) /\ Coalesced(h) /\ BlocksHeld(h, l)
                          /\ top = b \/ (top < b /\ f = 0)

MemoryInv == brk \in Nat /\ frames \in Nat /\ Consistent(heap, live, brk, frames)

LEMMA MemoryInvSafe == MemoryInv => MemoryConsistent
<1> SUFFICES ASSUME MemoryInv PROVE MemoryConsistent
  OBVIOUS
<1>1. CASE DOMAIN heap = {}
  BY <1>1 DEF MemoryInv, Consistent, MemoryConsistent, MemoryTiled, HeapCoalesced, Coalesced,
     UsedBlocksHeld, Holds
<1>2. CASE DOMAIN heap # {}
  <2>1. PICK top \in Nat :
          /\ Tiling(heap, top) /\ Coalesced(heap) /\ BlocksHeld(heap, live)
          /\ top = brk \/ (top < brk /\ frames = 0)
    BY <1>2 DEF MemoryInv, Consistent
  <2>2. top \in {End(heap, b) : b \in DOMAIN heap}
    BY <2>1, LastBlock
  <2>3. Holds(heap, live)
    BY <2>1, HoldsByBlock
  <2> QED BY <1>2, <2>1, <2>2, <2>3
          DEF MemoryConsistent, MemoryTiled, HeapCoalesced, UsedBlocksHeld
<1> QED BY <1>1, <1>2

(* What Grown(a) does: g has a new free block of the size `size` at brk,   *)
(* with z, the last one until now, before it.                              *)
LEMMA GrownBehind ==
    ASSUME Tiling(heap, brk), Coalesced(heap), NEW l, BlocksHeld(heap, l),
           NEW a \in Nat
    PROVE  LET g == Grown(a)
           IN  /\ Tiling(g, brk + PagesFor(a + HeaderSize) * PageSize)
               /\ brk \in DOMAIN g /\ g[brk].isFree /\ g[brk].size >= a
               /\ CoalescedUpTo(g, brk) /\ BlocksHeld(g, l) /\ Used(g) = Used(heap)
<1> DEFINE g == Grown(a)
           granted == PagesFor(a + HeaderSize) * PageSize
           size == granted - HeaderSize
<1>1. granted \in Nat /\ granted >= a + HeaderSize /\ size \in Nat /\ size >= a
      /\ HeaderSize + size = granted
  <2>1. PagesFor(a + HeaderSize) \in Nat /\ granted >= a + HeaderSize
    BY PagesEnough, ConstantFacts
  <2>2. granted \in Nat
    BY <2>1, PageFacts
  <2> HIDE DEF granted
  <2> QED BY <2>1, <2>2, ConstantFacts
<1>2. PICK z \in DOMAIN heap : /\ heap[z].next = Null /\ End(heap, z) = brk
                               /\ \A b \in DOMAIN heap : heap[b].next = Null => b = z
  BY LastBlock
<1>3. {b \in DOMAIN heap : heap[b].next = Null} = {z}
  BY <1>2
<1> DEFINE last == {b \in DOMAIN heap : heap[b].next = Null}
<1>4. last # {} /\ (CHOOSE b \in last : TRUE) = z
  BY <1>3
<1>5. g = [x \in DOMAIN heap \cup {brk} |->
              IF x = brk THEN [next |-> Null, isFree |-> TRUE, size |-> size, previous |-> z]
              ELSE IF x \in {z} THEN [heap[x] EXCEPT !.next = brk] ELSE heap[x]]
  <2>1. g = [x \in DOMAIN heap \cup {brk} |->
              IF x = brk THEN [next |-> Null, isFree |-> TRUE, size |-> size,
                               previous |-> IF last = {} THEN Null ELSE CHOOSE b \in last : TRUE]
              ELSE IF x \in last THEN [heap[x] EXCEPT !.next = brk] ELSE heap[x]]
    BY DEF Grown
  <2> QED BY <2>1, <1>3, <1>4
<1>6. /\ brk \in Nat /\ DOMAIN heap \subseteq Nat
      /\ \A b \in DOMAIN heap : /\ heap[b] \in VMHeapBlockHeader /\ heap[b].size \in Nat
                                /\ b + HeaderSize + heap[b].size <= brk
  BY DEF Tiling, End, VMHeapBlockHeader
<1>7. \A b \in DOMAIN heap : b < brk /\ b # brk
  BY <1>6, ConstantFacts
<1> HIDE DEF g, granted, last
<1>8. /\ DOMAIN g = DOMAIN heap \cup {brk}
      /\ g[brk] = [next |-> Null, isFree |-> TRUE, size |-> size, previous |-> z]
      /\ g[z] = [heap[z] EXCEPT !.next = brk]
      /\ \A x \in DOMAIN heap \ {z} : g[x] = heap[x]
  BY <1>2, <1>5, <1>7
<1> HIDE DEF size
<1>9. /\ g[brk].next = Null /\ g[brk].previous = z /\ g[brk].isFree /\ g[brk].size = size
      /\ g[brk] \in VMHeapBlockHeader
  BY <1>1, <1>2, <1>6, <1>8 DEF VMHeapBlockHeader, Null
<1>10. /\ g[z].next = brk /\ g[z].previous = heap[z].previous
       /\ g[z].isFree = heap[z].isFree /\ g[z].size = heap[z].size
       /\ g[z] \in VMHeapBlockHeader
  BY <1>2, <1>6, <1>8 DEF VMHeapBlockHeader
<1>11. g \in [DOMAIN g -> VMHeapBlockHeader]
  <2>1. \A x \in DOMAIN g : g[x] \in VMHeapBlockHeader
    BY <1>6, <1>8, <1>9, <1>10
  <2> QED BY <1>5, <1>8, <2>1
<1>12. \A x \in DOMAIN heap : /\ g[x].size = heap[x].size /\ g[x].isFree = heap[x].isFree
                              /\ g[x].previous = heap[x].previous
                              /\ x # z => g[x].next = heap[x].next
  BY <1>8, <1>10
<1>13. Tiling(g, brk + granted)
  <2>1. brk + granted \in Nat /\ ListHead \in DOMAIN g /\ DOMAIN g \subseteq Nat
    BY <1>1, <1>6, <1>8 DEF Tiling
  <2>2. End(g, brk) = brk + granted
    BY <1>1, <1>6, <1>9, ConstantFacts DEF End
  <2>3. \A x \in DOMAIN heap : End(g, x) = End(heap, x)
    BY <1>12 DEF End
  <2>4. /\ brk # ListHead
        /\ \A x \in DOMAIN heap : x # z => heap[x].next # Null
    BY <1>2, <1>7 DEF Tiling
  <2>5. ASSUME NEW b \in DOMAIN g
        PROVE  /\ g[b].next = Null => End(g, b) = brk + granted
               /\ g[b].next # Null => /\ g[b].next \in DOMAIN g
                                      /\ g[b].next = End(g, b)
                                      /\ g[g[b].next].previous = b
               /\ b = ListHead => g[b].previous = Null
               /\ b # ListHead => /\ g[b].previous \in DOMAIN g
                                  /\ g[g[b].previous].next = b
               /\ End(g, b) <= brk + granted
    <3>1. CASE b = brk
      <4>1. End(g, b) = brk + granted /\ End(g, b) <= brk + granted
        BY <2>1, <2>2, <3>1
      <4>2. g[b].next = Null /\ b # ListHead /\ g[b].previous \in DOMAIN g
            /\ g[g[b].previous].next = b
        BY <1>2, <1>8, <1>9, <1>10, <2>4, <3>1
      <4> QED BY <4>1, <4>2
    <3>2. CASE b # brk
      <4>1. b \in DOMAIN heap /\ End(g, b) = End(heap, b) /\ g[b].previous = heap[b].previous
        BY <1>8, <1>12, <2>3, <3>2
      <4>2. End(heap, b) \in Nat /\ End(heap, b) <= brk
        BY <1>6, <4>1, ConstantFacts DEF End
      <4>3. End(g, b) <= brk + granted
        BY <1>1, <1>6, <4>1, <4>2
      <4>4. /\ b = ListHead => g[b].previous = Null
            /\ b # ListHead => heap[b].previous \in DOMAIN heap
                               /\ heap[heap[b].previous].next = b
        BY <4>1 DEF Tiling
      <4>5. b # ListHead => g[b].previous \in DOMAIN g /\ g[g[b].previous].next = b
        <5>1. SUFFICES ASSUME b # ListHead
                       PROVE  g[b].previous \in DOMAIN g /\ g[g[b].previous].next = b
          OBVIOUS
        <5>2. heap[b].previous # z
          <6>1. b # Null
            BY <1>6, <4>1 DEF Null
          <6> QED BY <1>2, <4>4, <5>1, <6>1
        <5> QED BY <1>8, <1>12, <4>1, <4>4, <5>1, <5>2
      <4>6. CASE b = z
        <5>1. g[b].next = brk /\ brk # Null
          BY <1>6, <1>10, <4>6 DEF Null
        <5> QED BY <1>2, <1>8, <1>9, <4>1, <4>3, <4>4, <4>5, <4>6, <5>1
      <4>7. CASE b # z
        <5>1. g[b].next = heap[b].next /\ heap[b].next # Null
          BY <1>12, <2>4, <4>1, <4>7
        <5>2. /\ heap[b].next \in DOMAIN heap /\ heap[b].next = End(heap, b)
              /\ heap[heap[b].next].previous = b
          BY <4>1, <5>1 DEF Tiling
        <5> QED BY <1>8, <1>12, <4>1, <4>3, <4>4, <4>5, <5>1, <5>2
      <4> QED BY <4>6, <4>7
    <3> QED BY <3>1, <3>2
  <2>6. ASSUME NEW x \in DOMAIN g, NEW y \in DOMAIN g, x < y
        PROVE  End(g, x) <= y
    <3>1. x \in DOMAIN heap /\ End(g, x) = End(heap, x)
      BY <1>6, <1>7, <1>8, <2>1, <2>3, <2>6
    <3>2. CASE y = brk
      BY <1>6, <3>1, <3>2 DEF End
    <3>3. CASE y # brk
      BY <1>8, <2>6, <3>1, <3>3 DEF Tiling
    <3> QED BY <3>2, <3>3
  <2> QED BY <1>11, <2>1, <2>5, <2>6 DEF Tiling
<1>14. Used(g) = Used(heap)
  BY <1>8, <1>9, <1>12 DEF Used
<1>15. CoalescedUpTo(g, brk)
  <2> SUFFICES ASSUME NEW x \in DOMAIN g, g[x].isFree, g[x].next # Null, g[x].next # brk
               PROVE  ~g[g[x].next].isFree
    BY DEF CoalescedUpTo
  <2>1. x \in DOMAIN heap /\ x # z /\ heap[x].isFree /\ g[x].next = heap[x].next
    BY <1>8, <1>9, <1>10, <1>12
  <2>2. heap[x].next \in DOMAIN heap /\ ~heap[heap[x].next].isFree
    BY <2>1 DEF Tiling, Coalesced
  <2> QED BY <1>12, <2>1, <2>2
<1>16. BlocksHeld(g, l)
  BY <1>12, <1>14 DEF BlocksHeld, Used
<1>17. brk \in DOMAIN g /\ g[brk].isFree /\ g[brk].size >= a
  BY <1>1, <1>8, <1>9
<1> QED BY <1>13, <1>14, <1>15, <1>16, <1>17 DEF g, granted

(* The first grant: one free block, at the start of the process's heap.    *)
LEMMA GrownFirst ==
    ASSUME DOMAIN heap = {}, brk = 0, NEW l, DOMAIN l = {}, NEW a \in Nat
    PROVE  LET g == Grown(a)
           IN  /\ Tiling(g, brk + PagesFor(a + HeaderSize) * PageSize)
               /\ brk \in DOMAIN g /\ g[brk].isFree /\ g[brk].size >= a
               /\ CoalescedUpTo(g, brk) /\ BlocksHeld(g, l) /\ Used(g) = Used(heap)
<1> DEFINE g == Grown(a)
           granted == PagesFor(a + HeaderSize) * PageSize
           size == granted - HeaderSize
<1>1. granted \in Nat /\ granted >= a + HeaderSize /\ size \in Nat /\ size >= a
      /\ HeaderSize + size = granted
  <2>1. PagesFor(a + HeaderSize) \in Nat /\ granted >= a + HeaderSize
    BY PagesEnough, ConstantFacts
  <2>2. granted \in Nat
    BY <2>1, PageFacts
  <2> HIDE DEF granted
  <2> QED BY <2>1, <2>2, ConstantFacts
<1> DEFINE last == {b \in DOMAIN heap : heap[b].next = Null}
<1>2. last = {}
  OBVIOUS
<1>3. g = [x \in DOMAIN heap \cup {brk} |->
              IF x = brk THEN [next |-> Null, isFree |-> TRUE, size |-> size,
                               previous |-> IF last = {} THEN Null ELSE CHOOSE b \in last : TRUE]
              ELSE IF x \in last THEN [heap[x] EXCEPT !.next = brk] ELSE heap[x]]
  BY DEF Grown
<1> HIDE DEF g, granted, last
<1>4. DOMAIN g = {brk} /\ g = [x \in DOMAIN g |-> g[x]]
      /\ g[brk] = [next |-> Null, isFree |-> TRUE, size |-> size, previous |-> Null]
  BY <1>2, <1>3
<1> HIDE DEF size
<1>5. /\ g[brk].next = Null /\ g[brk].previous = Null /\ g[brk].isFree /\ g[brk].size = size
      /\ g[brk] \in VMHeapBlockHeader
  BY <1>1, <1>4 DEF VMHeapBlockHeader, Null
<1>6. g \in [DOMAIN g -> VMHeapBlockHeader]
  BY <1>4, <1>5
<1>7. End(g, brk) = brk + granted /\ brk + granted \in Nat
  BY <1>1, <1>5, ConstantFacts DEF End
<1>8. Tiling(g, brk + granted)
  <2>1. ListHead \in DOMAIN g /\ DOMAIN g \subseteq Nat /\ brk = ListHead
    BY <1>4 DEF ListHead
  <2>2. ASSUME NEW b \in DOMAIN g
        PROVE  /\ g[b].next = Null /\ End(g, b) = brk + granted
               /\ b = ListHead /\ g[b].previous = Null /\ End(g, b) <= brk + granted
    BY <1>4, <1>5, <1>7, <2>1
  <2>3. \A x, y \in DOMAIN g : ~(x < y)
    BY <1>4
  <2> QED BY <1>6, <1>7, <2>1, <2>2, <2>3 DEF Tiling
<1>9. Used(g) = {} /\ Used(heap) = {}
  BY <1>4, <1>5 DEF Used
<1>10. CoalescedUpTo(g, brk) /\ BlocksHeld(g, l)
  BY <1>4, <1>5, <1>9 DEF CoalescedUpTo, BlocksHeld
<1>11. brk \in DOMAIN g /\ g[brk].isFree /\ g[brk].size >= a
  BY <1>1, <1>4, <1>5
<1> QED BY <1>8, <1>9, <1>10, <1>11 DEF g, granted

(* What an allocation leaves behind: nothing held is lost, and the frames  *)
(* the service granted are all in the list.                                *)
Outcome(got, n) ==
    /\ got.brk \in Nat /\ got.frames \in Nat
    /\ got.block = Null => /\ got.heap = heap /\ got.brk >= brk /\ got.frames = 0
    /\ got.block # Null =>
        /\ got.block \notin Used(heap) /\ got.block \in Nat
        /\ \E top \in Nat :
            /\ Tiling(got.heap, top) /\ Coalesced(got.heap)
            /\ BlocksHeld(got.heap, Hold(live, Pointer(got.block), n))
            /\ Used(got.heap) = Used(heap) \cup {got.block}
            /\ top = got.brk \/ (top < got.brk /\ got.frames = 0)

LEMMA AllocatedOutcome ==
    ASSUME MemoryInv, NEW n \in Sizes, NEW got \in Allocated(n)
    PROVE  Outcome(got, n)
<1> DEFINE a == Align(n)
           pages == PagesFor(a + HeaderSize)
<1>1. PICK b \in Fit(a) : got =
         IF b # Null
         THEN [heap |-> Take(heap, b, a), block |-> b, brk |-> brk, frames |-> frames]
         ELSE IF pages <= frames
         THEN [heap |-> Take(Grown(a), brk, a), block |-> brk,
               brk |-> brk + pages * PageSize, frames |-> frames - pages]
         ELSE [heap |-> heap, block |-> Null, brk |-> brk + frames * PageSize, frames |-> 0]
  BY DEF Allocated
<1>2. n \in Nat /\ a \in Nat /\ a >= n /\ (a + HeaderSize + 16) % Word = a + HeaderSize + 16
  BY AlignFacts, ConstantFacts
<1> HIDE DEF a
<1>3. pages \in Nat /\ pages >= 1
  BY <1>2, PagesEnough, ConstantFacts
<1>4. brk \in Nat /\ frames \in Nat /\ Consistent(heap, live, brk, frames)
  BY DEF MemoryInv
<1>5. pages * PageSize \in Nat /\ frames * PageSize \in Nat
  BY <1>3, <1>4, PageFacts
<1> HIDE DEF pages
<1>6. CASE b # Null
  <2>1. DOMAIN heap # {}
    BY <1>1, <1>6 DEF Fit
  <2>2. b \in FirstFit(a)
    BY <1>1, <2>1 DEF Fit
  <2>3. b \in DOMAIN heap /\ heap[b].isFree /\ heap[b].size >= a
    BY <1>6, <2>2 DEF FirstFit
  <2>4. PICK top \in Nat :
          /\ Tiling(heap, top) /\ Coalesced(heap) /\ BlocksHeld(heap, live)
          /\ top = brk \/ (top < brk /\ frames = 0)
    BY <1>4, <2>1 DEF Consistent
  <2>5. CoalescedUpTo(heap, b) /\ b \in Nat
    BY <2>3, <2>4 DEF Coalesced, CoalescedUpTo, Tiling
  <2> DEFINE t == Take(heap, b, a)
  <2>6. /\ Tiling(t, top) /\ Coalesced(t) /\ BlocksHeld(t, Hold(live, Pointer(b), n))
        /\ Used(t) = Used(heap) \cup {b} /\ b \notin Used(heap)
    BY <1>2, <2>3, <2>4, <2>5, HeldTake
  <2> HIDE DEF t
  <2>7. got.heap = t /\ got.block = b /\ got.brk = brk /\ got.frames = frames
    BY <1>1, <1>6 DEF t
  <2> QED BY <1>4, <1>6, <2>4, <2>5, <2>6, <2>7 DEF Outcome
<1>7. CASE b = Null /\ pages <= frames
  <2> DEFINE g == Grown(a)
             t == Take(g, brk, a)
             top == brk + pages * PageSize
  <2>1. frames # 0
    BY <1>3, <1>4, <1>7
  <2>2. /\ Tiling(g, top)
        /\ brk \in DOMAIN g /\ g[brk].isFree /\ g[brk].size >= a
        /\ CoalescedUpTo(g, brk) /\ BlocksHeld(g, live) /\ Used(g) = Used(heap)
    <3>1. CASE DOMAIN heap = {}
      <4>1. DOMAIN live = {} /\ brk = 0
        BY <1>4, <2>1, <3>1 DEF Consistent
      <4> QED BY <1>2, <3>1, <4>1, GrownFirst DEF pages
    <3>2. CASE DOMAIN heap # {}
      <4>1. Tiling(heap, brk) /\ Coalesced(heap) /\ BlocksHeld(heap, live)
        BY <1>4, <2>1, <3>2 DEF Consistent
      <4> QED BY <1>2, <4>1, GrownBehind DEF pages
    <3> QED BY <3>1, <3>2
  <2> HIDE DEF g
  <2>3. /\ Tiling(t, top) /\ Coalesced(t) /\ BlocksHeld(t, Hold(live, Pointer(brk), n))
        /\ Used(t) = Used(g) \cup {brk} /\ brk \notin Used(g)
    BY <1>2, <2>2, HeldTake
  <2>4. top \in Nat /\ frames - pages \in Nat
    BY <1>3, <1>4, <1>5, <1>7
  <2> HIDE DEF t, top
  <2>5. got.heap = t /\ got.block = brk /\ got.brk = top /\ got.frames = frames - pages
    BY <1>1, <1>7 DEF t, top, g
  <2>6. brk # Null
    BY <1>4 DEF Null
  <2> QED BY <1>4, <2>2, <2>3, <2>4, <2>5, <2>6 DEF Outcome
<1>8. CASE b = Null /\ ~(pages <= frames)
  <2>1. got.heap = heap /\ got.block = Null /\ got.brk = brk + frames * PageSize
        /\ got.frames = 0
    BY <1>1, <1>8
  <2> QED BY <1>4, <1>5, <2>1 DEF Outcome
<1> QED BY <1>6, <1>7, <1>8

(* The parts of MemoryInv that a change of the list has to give. *)
LEMMA ListedInv ==
    ASSUME NEW top \in Nat, Tiling(heap', top), Coalesced(heap'), BlocksHeld(heap', live'),
           brk' \in Nat, frames' \in Nat, top = brk' \/ (top < brk' /\ frames' = 0)
    PROVE  MemoryInv'
<1>1. DOMAIN heap' # {}
  BY DEF Tiling
<1> QED BY <1>1 DEF MemoryInv, Consistent

(* Memory a process cannot use: the list stays, the grant grows and the    *)
(* frames are gone, or one frame less is left.                             *)
LEMMA FramesInv ==
    ASSUME MemoryInv, heap' = heap, live' = live, brk' \in Nat, frames' \in Nat,
           \/ brk' >= brk /\ frames' = 0
           \/ brk' = brk /\ (frames = 0 => frames' = 0)
    PROVE  MemoryInv'
<1>1. brk \in Nat /\ frames \in Nat /\ Consistent(heap, live, brk, frames)
  BY DEF MemoryInv
<1>2. CASE DOMAIN heap = {}
  BY <1>1, <1>2 DEF MemoryInv, Consistent
<1>3. CASE DOMAIN heap # {}
  <2>1. PICK top \in Nat :
          /\ Tiling(heap, top) /\ Coalesced(heap) /\ BlocksHeld(heap, live)
          /\ top = brk \/ (top < brk /\ frames = 0)
    BY <1>1, <1>3 DEF Consistent
  <2>2. top = brk' \/ (top < brk' /\ frames' = 0)
    BY <1>1, <2>1
  <2> QED BY <2>1, <2>2, ListedInv
<1> QED BY <1>2, <1>3

LEMMA MemoryAllocateStep ==
    ASSUME MemoryInv, NEW n \in Sizes, MemoryAllocate(n)
    PROVE  MemoryInv'
<1>1. PICK got \in Allocated(n) :
        /\ heap' = got.heap /\ brk' = got.brk /\ frames' = got.frames
        /\ live' = IF got.block = Null THEN live ELSE Hold(live, Pointer(got.block), n)
  BY DEF MemoryAllocate
<1>2. Outcome(got, n)
  BY AllocatedOutcome
<1>3. CASE got.block = Null
  BY <1>1, <1>2, <1>3, FramesInv DEF Outcome
<1>4. CASE got.block # Null
  BY <1>1, <1>2, <1>4, ListedInv DEF Outcome
<1> QED BY <1>3, <1>4

(* A pointer a caller holds is that of a block in use. *)
LEMMA HeldBlock ==
    ASSUME MemoryInv, NEW p \in DOMAIN live
    PROVE  \E top \in Nat : \E b \in Used(heap) :
              /\ Tiling(heap, top) /\ Coalesced(heap) /\ BlocksHeld(heap, live)
              /\ top = brk \/ (top < brk /\ frames = 0)
              /\ p = Pointer(b) /\ Header(p) = b /\ b \in DOMAIN heap
<1>1. DOMAIN heap # {}
  BY DEF MemoryInv, Consistent
<1>2. PICK top \in Nat :
        /\ Tiling(heap, top) /\ Coalesced(heap) /\ BlocksHeld(heap, live)
        /\ top = brk \/ (top < brk /\ frames = 0)
  BY <1>1 DEF MemoryInv, Consistent
<1>3. PICK b \in Used(heap) : p = Pointer(b)
  BY <1>2 DEF BlocksHeld
<1>4. b \in DOMAIN heap /\ Header(p) = b
  BY <1>2, <1>3, PointerFacts DEF Used
<1> QED BY <1>2, <1>3, <1>4

LEMMA MemoryFreeStep ==
    ASSUME MemoryInv, NEW p \in DOMAIN live, MemoryFree(p)
    PROVE  MemoryInv'
<1>1. PICK top \in Nat, b \in Used(heap) :
        /\ Tiling(heap, top) /\ Coalesced(heap) /\ BlocksHeld(heap, live)
        /\ top = brk \/ (top < brk /\ frames = 0)
        /\ p = Pointer(b) /\ Header(p) = b
  BY HeldBlock
<1>2. Tiling(heap', top) /\ Coalesced(heap') /\ BlocksHeld(heap', live')
  BY <1>1, HeldRelease DEF MemoryFree
<1>3. brk' = brk /\ frames' = frames /\ brk \in Nat /\ frames \in Nat
  BY DEF MemoryFree, MemoryInv
<1> QED BY <1>1, <1>2, <1>3, ListedInv

LEMMA MemoryReallocateStep ==
    ASSUME MemoryInv, NEW p \in DOMAIN live, NEW n \in Sizes, MemoryReallocate(p, n)
    PROVE  MemoryInv'
<1>1. PICK top \in Nat, b \in Used(heap) :
        /\ Tiling(heap, top) /\ Coalesced(heap) /\ BlocksHeld(heap, live)
        /\ top = brk \/ (top < brk /\ frames = 0)
        /\ p = Pointer(b) /\ Header(p) = b /\ b \in DOMAIN heap
  BY HeldBlock
<1>2. brk \in Nat /\ frames \in Nat /\ n \in Nat
  BY ConstantFacts DEF MemoryInv
<1>3. CASE ResizeInPlace(p, n) /\ UNCHANGED <<brk, frames>>
  <2>1. heap' = heap /\ live' = Hold(live, Pointer(b), n) /\ n <= heap[b].size
    <3>1. heap[b].size \in Nat
      BY <1>1 DEF Tiling, VMHeapBlockHeader
    <3> QED BY <3>1, <1>1, <1>2, <1>3 DEF ResizeInPlace
  <2>2. BlocksHeld(heap, Hold(live, Pointer(b), n))
    BY <1>1, <1>2, <2>1, HeldKeep
  <2> QED BY <1>1, <1>2, <1>3, <2>1, <2>2, ListedInv
<1>4. CASE ResizeGrow(p, n) /\ UNCHANGED <<brk, frames>>
  <2>1. /\ heap' = CombineForward(heap, b) /\ live' = Hold(live, Pointer(b), n)
        /\ heap[b].next # Null /\ heap[heap[b].next].isFree
        /\ heap[b].size + HeaderSize + heap[heap[b].next].size >= n
    BY <1>1, <1>4 DEF ResizeGrow, CanGrow
  <2>2. /\ Tiling(heap', top) /\ Coalesced(heap') /\ Used(heap') = Used(heap)
        /\ heap'[b].size = heap[b].size + HeaderSize + heap[heap[b].next].size
        /\ \A c \in Used(heap) \ {b} : heap'[c].size = heap[c].size
    BY <1>1, <2>1, CombineUsed
  <2>3. heap'[b].size \in Nat
    BY <2>2 DEF Used, Tiling, VMHeapBlockHeader
  <2>4. n <= heap'[b].size
    BY <1>2, <2>1, <2>2, <2>3
  <2>5. BlocksHeld(heap', live')
    BY <1>1, <1>2, <2>1, <2>2, <2>4, HeldKeep
  <2> QED BY <1>1, <1>2, <1>4, <2>2, <2>5, ListedInv
<1>5. ASSUME NEW got \in Allocated(n), brk' = got.brk, frames' = got.frames,
             IF got.block = Null THEN UNCHANGED <<heap, live>>
             ELSE /\ heap' = Release(got.heap, Header(p))
                  /\ live' = Hold(Drop(live, p), Pointer(got.block), n)
      PROVE  MemoryInv'
  <2>1. Outcome(got, n)
    BY AllocatedOutcome
  <2>2. CASE got.block = Null
    BY <1>5, <2>1, <2>2, FramesInv DEF Outcome
  <2>3. CASE got.block # Null
    <3> DEFINE h == got.heap
               l == Hold(live, Pointer(got.block), n)
    <3>1. PICK up \in Nat :
            /\ Tiling(h, up) /\ Coalesced(h) /\ BlocksHeld(h, l)
            /\ Used(h) = Used(heap) \cup {got.block}
            /\ up = got.brk \/ (up < got.brk /\ got.frames = 0)
      BY <2>1, <2>3 DEF Outcome
    <3>2. b \in Used(h) /\ Pointer(got.block) # p
      <4>1. got.block \in DOMAIN h /\ b \in DOMAIN h /\ got.block # b
        BY <2>1, <2>3, <3>1 DEF Outcome, Used
      <4> QED BY <1>1, <3>1, <4>1, PointerFacts
    <3>3. heap' = Release(h, b) /\ live' = Drop(l, Pointer(b))
      BY <1>1, <1>5, <2>3, <3>2, HoldDrop
    <3> HIDE DEF h, l
    <3>4. Tiling(heap', up) /\ Coalesced(heap') /\ BlocksHeld(heap', live')
      BY <3>1, <3>2, <3>3, HeldRelease
    <3>5. brk' \in Nat /\ frames' \in Nat
      BY <1>5, <2>1 DEF Outcome
    <3> QED BY <1>5, <3>1, <3>4, <3>5, ListedInv
  <2> QED BY <2>2, <2>3
<1> QED BY <1>3, <1>4, <1>5 DEF MemoryReallocate

(* Whatever a program allocates, resizes and frees, and whenever the       *)
(* machine runs out of frames, the heap of its process stays consistent:   *)
(* the blocks tile what OSServiceMemoryAllocate granted, no two free ones  *)
(* are neighbours, and the program holds exactly the blocks in use.        *)
THEOREM ProcessHeapConsistent == MemorySpec => []MemoryConsistent
<1>1. MemoryInit => MemoryInv
  BY PageFacts DEF MemoryInit, MemoryInv, Consistent
<1>2. MemoryInv /\ [MemoryNext]_memory => MemoryInv'
  <2> SUFFICES ASSUME MemoryInv, [MemoryNext]_memory PROVE MemoryInv'
    OBVIOUS
  <2>1. CASE UNCHANGED memory
    BY <2>1 DEF memory, vars, MemoryInv
  <2>2. CASE FrameTaken
    <3>1. brk' = brk /\ frames' \in Nat /\ frames # 0 /\ brk \in Nat
      BY <2>2 DEF FrameTaken, MemoryInv
    <3> QED BY <2>2, <3>1, FramesInv DEF FrameTaken
  <2> QED BY <2>1, <2>2, MemoryAllocateStep, MemoryFreeStep, MemoryReallocateStep DEF MemoryNext
<1> QED BY <1>1, <1>2, MemoryInvSafe, PTL DEF MemorySpec
=============================================================================
