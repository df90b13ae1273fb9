---------------------------- MODULE VMHeapProofs ----------------------------
(***************************************************************************)
(* Proofs about VMHeap for every heap size, header size and set of request *)
(* sizes.  The lemmas are about one value of `heap`; the theorems put them *)
(* together for the operations.                                            *)
(***************************************************************************)
EXTENDS VMHeap, TLAPS

LEMMA ConstantFacts ==
    /\ HeaderSize \in Nat /\ HeaderSize > 0
    /\ HeapSize \in Nat /\ HeapSize >= HeaderSize
    /\ Word \in Nat
    /\ \A n \in Sizes : n \in Nat /\ n + HeaderSize + 32 <= Word
BY VMHeapAssumption

LEMMA ModWord ==
    ASSUME NEW m \in Nat, m < Word
    PROVE  m % Word = m
BY ConstantFacts, SMT

LEMMA AlignFacts ==
    ASSUME NEW n \in Sizes
    PROVE  /\ Align(n) \in Nat /\ Align(n) >= n
           /\ (Align(n) + HeaderSize + 16) % Word = Align(n) + HeaderSize + 16
<1> DEFINE m == n + 15
<1>1. n \in Nat /\ m \in Nat /\ m < Word
  BY ConstantFacts
<1>2. m % Word = m
  BY <1>1, ModWord
<1>3. Align(n) = m - (m % 16)
  BY <1>2 DEF Align
<1>4. m % 16 \in 0 .. 15
  BY <1>1
<1>5. Align(n) \in Nat /\ Align(n) >= n /\ Align(n) <= m
  BY <1>1, <1>3, <1>4
<1>6. Align(n) + HeaderSize + 16 \in Nat /\ Align(n) + HeaderSize + 16 < Word
  BY <1>1, <1>5, ConstantFacts
<1> QED
  BY <1>5, <1>6, ModWord

(* One header of a tiled heap. *)
LEMMA TilingFacts ==
    ASSUME NEW h, NEW top, Tiling(h, top), NEW b \in DOMAIN h
    PROVE  /\ b \in Nat
           /\ h[b].next \in Int /\ h[b].previous \in Int
           /\ h[b].size \in Nat /\ h[b].isFree \in BOOLEAN
           /\ h[b] = [next |-> h[b].next, previous |-> h[b].previous,
                      size |-> h[b].size, isFree |-> h[b].isFree]
BY DEF Tiling, VMHeapBlockHeader

(* g is h with block n, the free block behind b, absorbed by b.            *)
Absorbed(h, b, n, g) ==
    /\ n \in DOMAIN h /\ n # b
    /\ DOMAIN g = DOMAIN h \ {n}
    /\ g \in [DOMAIN g -> VMHeapBlockHeader]
    /\ g[b].size = h[b].size + HeaderSize + h[n].size
    /\ g[b].next = h[n].next
    /\ \A x \in DOMAIN g : g[x].isFree = h[x].isFree
    /\ \A x \in DOMAIN g \ {b} : g[x].size = h[x].size /\ g[x].next = h[x].next
    /\ \A x \in DOMAIN g : g[x].previous =
           IF x = h[n].next THEN b ELSE h[x].previous

(* What sVMHeapCombineForward leaves in the headers.                       *)
LEMMA CombineFields ==
    ASSUME NEW h, NEW top, Tiling(h, top), NEW b \in DOMAIN h,
           h[b].next # Null, h[h[b].next].isFree
    PROVE  Absorbed(h, b, h[b].next, CombineForward(h, b))
<1> DEFINE n == h[b].next
           g == CombineForward(h, b)
<1>1. /\ n \in DOMAIN h /\ n = b + HeaderSize + h[b].size
      /\ b \in Nat /\ n \in Nat /\ h[b].size \in Nat /\ h[n].size \in Nat
      /\ h[n].next \in Int /\ h[b] \in VMHeapBlockHeader
  BY DEF Tiling, End, VMHeapBlockHeader
<1>2. n # b /\ h[n].next # b
  <2>1. n # b
    BY <1>1, ConstantFacts
  <2>2. CASE h[n].next = Null
    BY <1>1, <2>2, <2>1 DEF Null
  <2>3. CASE h[n].next # Null
    BY <1>1, <2>3, ConstantFacts DEF Tiling, End
  <2> QED BY <2>1, <2>2, <2>3
<1>3. g = [x \in DOMAIN h \ {n} |->
            IF x = b THEN [h[b] EXCEPT !.size = @ + HeaderSize + h[n].size,
                                       !.next = h[n].next]
            ELSE IF x = h[n].next THEN [h[x] EXCEPT !.previous = b]
            ELSE h[x]]
  BY DEF CombineForward
<1>4. DOMAIN g = DOMAIN h \ {n} /\ b \in DOMAIN g
  BY <1>2, <1>3
<1> HIDE DEF n, g
<1>5. g[b] = [h[b] EXCEPT !.size = h[b].size + HeaderSize + h[n].size, !.next = h[n].next]
  BY <1>3, <1>4
<1>6. /\ g[b].size = h[b].size + HeaderSize + h[n].size /\ g[b].next = h[n].next
      /\ g[b].previous = h[b].previous /\ g[b].isFree = h[b].isFree
      /\ g[b] \in VMHeapBlockHeader
  <2> DEFINE s == h[b].size + HeaderSize + h[n].size
  <2>1. s \in Nat
    BY <1>1, ConstantFacts
  <2> HIDE DEF s
  <2>2. g[b] = [h[b] EXCEPT !.size = s, !.next = h[n].next]
    BY <1>5 DEF s
  <2>3. /\ g[b].size = s /\ g[b].next = h[n].next
        /\ g[b].previous = h[b].previous /\ g[b].isFree = h[b].isFree
        /\ g[b] \in VMHeapBlockHeader
    BY <1>1, <2>1, <2>2 DEF VMHeapBlockHeader
  <2> QED BY <2>3 DEF s
<1>7. ASSUME NEW x \in DOMAIN g, x # b
      PROVE  /\ g[x].size = h[x].size /\ g[x].next = h[x].next
             /\ g[x].isFree = h[x].isFree
             /\ g[x].previous = IF x = h[n].next THEN b ELSE h[x].previous
             /\ g[x] \in VMHeapBlockHeader
  <2>1. h[x] \in VMHeapBlockHeader
    BY <1>4 DEF Tiling
  <2>2. g[x] = IF x = h[n].next THEN [h[x] EXCEPT !.previous = b] ELSE h[x]
    BY <1>3, <1>4, <1>7
  <2> QED BY <1>1, <2>1, <2>2 DEF VMHeapBlockHeader
<1>8. g \in [DOMAIN g -> VMHeapBlockHeader]
  BY <1>3, <1>4, <1>6, <1>7
<1>9. Absorbed(h, b, n, g)
  BY <1>1, <1>2, <1>4, <1>6, <1>7, <1>8 DEF Absorbed
<1> QED BY <1>9 DEF n, g

(* Absorbing the next block keeps the tiling. *)
LEMMA CombineTiling ==
    ASSUME NEW h, NEW top, Tiling(h, top), NEW b \in DOMAIN h
    PROVE  Tiling(CombineForward(h, b), top)
<1>1. CASE h[b].next = Null \/ ~h[h[b].next].isFree
  BY <1>1 DEF CombineForward
<1>2. CASE h[b].next # Null /\ h[h[b].next].isFree
  <2> DEFINE n == h[b].next
             g == CombineForward(h, b)
  <2>1. /\ n \in DOMAIN h /\ n # b
        /\ DOMAIN g = DOMAIN h \ {n}
        /\ g \in [DOMAIN g -> VMHeapBlockHeader]
        /\ g[b].size = h[b].size + HeaderSize + h[n].size
        /\ g[b].next = h[n].next
        /\ \A x \in DOMAIN g \ {b} : g[x].size = h[x].size /\ g[x].next = h[x].next
        /\ \A x \in DOMAIN g : g[x].previous =
               IF x = h[n].next THEN b ELSE h[x].previous
    <3>1. Absorbed(h, b, n, g)
      BY <1>2, CombineFields
    <3> QED BY <3>1 DEF Absorbed
  <2>2. /\ DOMAIN h \subseteq Nat
        /\ \A x \in DOMAIN h : h[x].size \in Nat /\ h[x].next \in Int /\ h[x].previous \in Int
        /\ n = b + HeaderSize + h[b].size /\ h[n].previous = b
        /\ n # ListHead /\ ListHead \in DOMAIN h
    <3>1. DOMAIN h \subseteq Nat /\ ListHead \in DOMAIN h
      BY DEF Tiling
    <3>2. \A x \in DOMAIN h : h[x].size \in Nat /\ h[x].next \in Int /\ h[x].previous \in Int
      BY DEF Tiling, VMHeapBlockHeader
    <3>3. n = b + HeaderSize + h[b].size /\ h[n].previous = b
      BY <1>2 DEF Tiling, End
    <3>4. n # ListHead
      BY <3>1, <3>2, <3>3, ConstantFacts DEF ListHead
    <3> QED BY <3>1, <3>2, <3>3, <3>4
  <2> HIDE DEF n, g
  <2>3. \A x \in DOMAIN g \ {b} : End(g, x) = End(h, x)
    BY <2>1 DEF End
  <2>4. End(g, b) = End(h, n)
    BY <2>1, <2>2, ConstantFacts DEF End
  <2>5. ASSUME NEW x \in DOMAIN g
        PROVE  /\ g[x].next = Null => End(g, x) = top
               /\ End(g, x) <= top
    BY <2>1, <2>2, <2>3, <2>4 DEF Tiling
  <2>6. ASSUME NEW x \in DOMAIN g, g[x].next # Null
        PROVE  /\ g[x].next \in DOMAIN g
               /\ g[x].next = End(g, x)
               /\ g[g[x].next].previous = x
    <3>1. CASE x = b
      <4>1. /\ h[n].next \in DOMAIN h /\ h[n].next = End(h, n)
            /\ h[h[n].next].previous = n
        BY <3>1, <2>6, <2>1 DEF Tiling
      <4>2. h[n].next # n
        BY <4>1, <2>2, <2>1, ConstantFacts DEF End
      <4> QED BY <3>1, <4>1, <4>2, <2>1, <2>4
    <3>2. CASE x # b
      <4>1. /\ h[x].next \in DOMAIN h /\ h[x].next = End(h, x)
            /\ h[h[x].next].previous = x
        BY <3>2, <2>6, <2>1 DEF Tiling
      <4>2. h[x].next # n
        BY <4>1, <2>2, <3>2
      <4>3. h[x].next # h[n].next
        <5>1. CASE h[n].next = Null
          BY <5>1, <2>6, <3>2, <2>1
        <5>2. CASE h[n].next # Null
          BY <5>2, <4>1, <2>1, <2>6 DEF Tiling
        <5> QED BY <5>1, <5>2
      <4> QED BY <3>2, <4>1, <4>2, <4>3, <2>1, <2>3
    <3> QED BY <3>1, <3>2
  <2>7. ASSUME NEW x \in DOMAIN g
        PROVE  /\ x = ListHead => g[x].previous = Null
               /\ x # ListHead => /\ g[x].previous \in DOMAIN g
                                  /\ g[g[x].previous].next = x
    <3>1. CASE x = h[n].next
      <4>1. x # ListHead
        <5>1. h[n].next # Null
          BY <3>1, <2>1, <2>2 DEF Null
        <5>2. h[n].next = End(h, n)
          BY <5>1, <2>1 DEF Tiling
        <5> QED BY <5>2, <3>1, <2>1, <2>2, ConstantFacts DEF End, ListHead
      <4> QED BY <4>1, <3>1, <2>1
    <3>2. CASE x # h[n].next
      <4>1. g[x].previous = h[x].previous /\ x \in DOMAIN h
        BY <3>2, <2>1
      <4>2. x = ListHead => g[x].previous = Null
        BY <4>1 DEF Tiling
      <4>3. ASSUME x # ListHead
            PROVE  g[x].previous \in DOMAIN g /\ g[g[x].previous].next = x
        <5>1. h[x].previous \in DOMAIN h /\ h[h[x].previous].next = x
          BY <4>1, <4>3 DEF Tiling
        <5>2. h[x].previous # n
          BY <5>1, <3>2
        <5>3. h[x].previous # b
          BY <5>1, <2>1 DEF n
        <5> QED BY <4>1, <5>1, <5>2, <5>3, <2>1
      <4> QED BY <4>2, <4>3
    <3> QED BY <3>1, <3>2
  <2>8. ASSUME NEW x \in DOMAIN g, NEW y \in DOMAIN g, x < y
        PROVE  End(g, x) <= y
    <3>1. x \in DOMAIN h /\ y \in DOMAIN h /\ End(h, x) <= y /\ y # n
      BY <2>1, <2>8 DEF Tiling
    <3>2. CASE x # b
      BY <3>1, <3>2, <2>3
    <3>3. CASE x = b
      <4>1. n <= y
        BY <3>1, <3>3, <2>2 DEF End
      <4>2. n < y
        BY <4>1, <3>1, <2>2, <2>1
      <4>3. End(h, n) <= y
        BY <4>2, <3>1, <2>1 DEF Tiling
      <4> QED BY <4>3, <3>3, <2>4
    <3> QED BY <3>2, <3>3
  <2>9. ListHead \in DOMAIN g /\ DOMAIN g \subseteq Nat
    BY <2>1, <2>2
  <2> QED BY <2>1, <2>5, <2>6, <2>7, <2>8, <2>9 DEF Tiling, g
<1> QED BY <1>1, <1>2

(* g is h with block b cut to a bytes and a free block at `new` behind it. *)
Cut(h, b, a, new, g) ==
    /\ new \in Nat /\ new \notin DOMAIN h /\ b < new
    /\ \A y \in DOMAIN h : b < y => new < y
    /\ DOMAIN g = DOMAIN h \cup {new}
    /\ g \in [DOMAIN g -> VMHeapBlockHeader]
    /\ g[new].size = h[b].size - a - HeaderSize
    /\ g[new].next = h[b].next /\ g[new].previous = b /\ g[new].isFree
    /\ g[b].size = a /\ g[b].next = new
    /\ \A x \in DOMAIN h : g[x].isFree = h[x].isFree
    /\ \A x \in DOMAIN h \ {b} : g[x].size = h[x].size /\ g[x].next = h[x].next
    /\ \A x \in DOMAIN h : g[x].previous =
           IF x = h[b].next THEN new ELSE h[x].previous

(* What the split leaves in the headers. *)
LEMMA SplitFields ==
    ASSUME NEW h, NEW top, Tiling(h, top), NEW b \in DOMAIN h, NEW a \in Nat,
           h[b].size > a + HeaderSize
    PROVE  Cut(h, b, a, b + HeaderSize + a, Split(h, b, a))
<1> DEFINE new == b + HeaderSize + a
           g == Split(h, b, a)
<1>1. /\ b \in Nat /\ h[b].size \in Nat /\ h[b].next \in Int
      /\ h[b] \in VMHeapBlockHeader
      /\ \A y \in DOMAIN h : y \in Nat /\ (b < y => End(h, b) <= y)
  BY DEF Tiling, VMHeapBlockHeader
<1>2. /\ new \in Nat /\ b < new /\ new < End(h, b)
      /\ h[b].size - a - HeaderSize \in Nat
  BY <1>1, ConstantFacts DEF End
<1>3. End(h, b) \in Int
  BY <1>1, ConstantFacts DEF End
<1>4. \A y \in DOMAIN h : b < y => new < y
  BY <1>1, <1>2, <1>3
<1>5. new \notin DOMAIN h
  BY <1>2, <1>4
<1>6. h[b].next # b
  <2>1. CASE h[b].next = Null
    BY <2>1, <1>1 DEF Null
  <2>2. CASE h[b].next # Null
    <3>1. h[b].next = End(h, b)
      BY <2>2 DEF Tiling
    <3> QED BY <3>1, <1>1, <1>2, <1>3
  <2> QED BY <2>1, <2>2
<1>7. g = [x \in DOMAIN h \cup {new} |->
        IF x = new THEN [next |-> h[b].next, previous |-> b, isFree |-> TRUE,
                         size |-> h[b].size - a - HeaderSize]
        ELSE IF x = b THEN [h[b] EXCEPT !.next = new, !.size = a]
        ELSE IF x = h[b].next THEN [h[x] EXCEPT !.previous = new]
        ELSE h[x]]
  BY DEF Split
<1> HIDE DEF new, g
<1>8. DOMAIN g = DOMAIN h \cup {new}
  BY <1>7
<1>9. /\ g[new].size = h[b].size - a - HeaderSize
      /\ g[new].next = h[b].next /\ g[new].previous = b /\ g[new].isFree
      /\ g[new] \in VMHeapBlockHeader
  <2> DEFINE s == h[b].size - a - HeaderSize
  <2>1. s \in Nat
    BY <1>2
  <2> HIDE DEF s
  <2>2. g[new] = [next |-> h[b].next, previous |-> b, isFree |-> TRUE, size |-> s]
    BY <1>7, <1>8 DEF s
  <2>3. /\ g[new].size = s
        /\ g[new].next = h[b].next /\ g[new].previous = b /\ g[new].isFree
        /\ g[new] \in VMHeapBlockHeader
    BY <1>1, <2>1, <2>2 DEF VMHeapBlockHeader
  <2> QED BY <2>3 DEF s
<1>10. /\ g[b].size = a /\ g[b].next = new
       /\ g[b].previous = h[b].previous /\ g[b].isFree = h[b].isFree
       /\ g[b] \in VMHeapBlockHeader
  <2>1. g[b] = [h[b] EXCEPT !.next = new, !.size = a]
    BY <1>5, <1>7, <1>8
  <2>2. new \in Int /\ h[b] \in VMHeapBlockHeader
    BY <1>1, <1>2
  <2> QED BY <2>1, <2>2 DEF VMHeapBlockHeader
<1>11. ASSUME NEW x \in DOMAIN h, x # b
       PROVE  /\ g[x].size = h[x].size /\ g[x].next = h[x].next
              /\ g[x].isFree = h[x].isFree
              /\ g[x].previous = IF x = h[b].next THEN new ELSE h[x].previous
              /\ g[x] \in VMHeapBlockHeader
  <2>1. h[x] \in VMHeapBlockHeader
    BY DEF Tiling
  <2>2. g[x] = IF x = h[b].next THEN [h[x] EXCEPT !.previous = new] ELSE h[x]
    BY <1>5, <1>7, <1>8, <1>11
  <2> QED BY <1>2, <2>1, <2>2 DEF VMHeapBlockHeader
<1>12. g \in [DOMAIN g -> VMHeapBlockHeader]
  BY <1>7, <1>8, <1>9, <1>10, <1>11
<1>13. Cut(h, b, a, new, g)
  BY <1>2, <1>4, <1>5, <1>6, <1>8, <1>9, <1>10, <1>11, <1>12 DEF Cut
<1> QED BY <1>13 DEF new, g

(* Splitting a block keeps the tiling. *)
LEMMA SplitTiling ==
    ASSUME NEW h, NEW top, Tiling(h, top), NEW b \in DOMAIN h, NEW a \in Nat,
           h[b].size > a + HeaderSize
    PROVE  Tiling(Split(h, b, a), top)
<1> DEFINE new == b + HeaderSize + a
           g == Split(h, b, a)
<1>1. /\ new \in Nat /\ new \notin DOMAIN h /\ b < new
      /\ \A y \in DOMAIN h : b < y => new < y
      /\ DOMAIN g = DOMAIN h \cup {new}
      /\ g \in [DOMAIN g -> VMHeapBlockHeader]
      /\ g[new].size = h[b].size - a - HeaderSize
      /\ g[new].next = h[b].next /\ g[new].previous = b
      /\ g[b].size = a /\ g[b].next = new
      /\ \A x \in DOMAIN h \ {b} : g[x].size = h[x].size /\ g[x].next = h[x].next
      /\ \A x \in DOMAIN h : g[x].previous =
             IF x = h[b].next THEN new ELSE h[x].previous
  <2>1. Cut(h, b, a, new, g)
    BY SplitFields
  <2> HIDE DEF new, g
  <2> QED BY <2>1 DEF Cut
<1>2. /\ DOMAIN h \subseteq Nat /\ ListHead \in DOMAIN h
      /\ \A x \in DOMAIN h : h[x].size \in Nat /\ h[x].next \in Int /\ h[x].previous \in Int
  <2>1. DOMAIN h \subseteq Nat /\ ListHead \in DOMAIN h
    BY DEF Tiling
  <2>2. \A x \in DOMAIN h : h[x].size \in Nat /\ h[x].next \in Int /\ h[x].previous \in Int
    BY DEF Tiling, VMHeapBlockHeader
  <2> QED BY <2>1, <2>2
<1>3. End(g, new) = End(h, b) /\ End(g, b) = new
  BY <1>1, <1>2, ConstantFacts DEF End
<1> HIDE DEF new, g
<1>4. \A x \in DOMAIN h \ {b} : End(g, x) = End(h, x)
  BY <1>1 DEF End
<1>5. ASSUME NEW x \in DOMAIN g
      PROVE  /\ g[x].next = Null => End(g, x) = top
             /\ End(g, x) <= top
  <2>1. CASE x = new
    BY <2>1, <1>1, <1>3 DEF Tiling
  <2>2. CASE x = b
    <3>1. top \in Nat /\ End(h, b) <= top /\ End(h, b) = b + HeaderSize + h[b].size
      BY DEF Tiling, End
    <3>2. new <= top
      BY <3>1, <1>2, ConstantFacts DEF new
    <3> QED BY <2>2, <3>2, <1>1, <1>3 DEF Null
  <2>3. CASE x # new /\ x # b
    BY <2>3, <1>1, <1>4 DEF Tiling
  <2> QED BY <2>1, <2>2, <2>3
<1>6. ASSUME NEW x \in DOMAIN g, g[x].next # Null
      PROVE  /\ g[x].next \in DOMAIN g
             /\ g[x].next = End(g, x)
             /\ g[g[x].next].previous = x
  <2>1. CASE x = b
    <3>1. new # h[b].next \/ h[b].next \notin DOMAIN h
      BY <1>1
    <3> QED BY <2>1, <1>1, <1>3
  <2>2. CASE x = new
    <3>1. h[b].next \in DOMAIN h /\ h[b].next = End(h, b)
      BY <2>2, <1>1, <1>6 DEF Tiling
    <3> QED BY <2>2, <3>1, <1>1, <1>3
  <2>3. CASE x # b /\ x # new
    <3>1. x \in DOMAIN h /\ h[x].next # Null /\ g[x].next = h[x].next
      BY <2>3, <1>1, <1>6
    <3>2. /\ h[x].next \in DOMAIN h /\ h[x].next = End(h, x)
          /\ h[h[x].next].previous = x
      BY <3>1 DEF Tiling
    <3>3. h[x].next # h[b].next
      <4>1. CASE h[b].next = Null
        BY <4>1, <3>1
      <4>2. CASE h[b].next # Null
        <5>1. h[h[b].next].previous = b
          BY <4>2 DEF Tiling
        <5> QED BY <5>1, <3>2, <2>3
      <4> QED BY <4>1, <4>2
    <3> QED BY <2>3, <3>1, <3>2, <3>3, <1>1, <1>4
  <2> QED BY <2>1, <2>2, <2>3
<1>7. ASSUME NEW x \in DOMAIN g
      PROVE  /\ x = ListHead => g[x].previous = Null
             /\ x # ListHead => /\ g[x].previous \in DOMAIN g
                                /\ g[g[x].previous].next = x
  <2>1. CASE x = new
    BY <2>1, <1>1, <1>2
  <2>2. CASE x # new /\ x = h[b].next
    <3>1. x \in DOMAIN h /\ g[x].previous = new
      BY <2>2, <1>1
    <3>2. x # ListHead
      <4>1. h[b].next # Null
        BY <2>2, <3>1, <1>2 DEF Null
      <4>2. x = b + HeaderSize + h[b].size
        BY <4>1, <2>2 DEF Tiling, End
      <4> QED BY <4>2, <1>2, ConstantFacts DEF ListHead
    <3> QED BY <2>2, <3>1, <3>2, <1>1
  <2>3. CASE x # new /\ x # h[b].next
    <3>1. x \in DOMAIN h /\ g[x].previous = h[x].previous
      BY <2>3, <1>1
    <3>2. x = ListHead => g[x].previous = Null
      BY <3>1 DEF Tiling
    <3>3. ASSUME x # ListHead
          PROVE  g[x].previous \in DOMAIN g /\ g[g[x].previous].next = x
      <4>1. h[x].previous \in DOMAIN h /\ h[h[x].previous].next = x
        BY <3>1, <3>3 DEF Tiling
      <4>2. h[x].previous # b
        BY <4>1, <2>3
      <4> QED BY <3>1, <4>1, <4>2, <1>1
    <3> QED BY <3>2, <3>3
  <2> QED BY <2>1, <2>2, <2>3
<1>8. ASSUME NEW x \in DOMAIN g, NEW y \in DOMAIN g, x < y
      PROVE  End(g, x) <= y
  <2>1. CASE x = new /\ y = new
    BY <2>1, <1>1, <1>8
  <2>2. CASE x = new /\ y # new
    <3>1. b < y /\ y \in DOMAIN h
      BY <2>2, <1>1, <1>2, <1>8
    <3>2. End(h, b) <= y
      BY <3>1 DEF Tiling
    <3> QED BY <2>2, <3>2, <1>3
  <2>3. CASE x = b
    <3>1. y = new \/ new < y
      BY <2>3, <1>1, <1>8
    <3> QED BY <2>3, <3>1, <1>1, <1>2, <1>3
  <2>4. CASE x # new /\ x # b /\ y = new
    <3>1. x \in DOMAIN h /\ ~(b < x)
      BY <2>4, <1>1, <1>2, <1>8
    <3>2. x < b
      BY <3>1, <2>4, <1>2
    <3>3. End(h, x) <= b
      BY <3>1, <3>2 DEF Tiling
    <3>4. End(h, x) \in Int
      BY <3>1, <1>2, ConstantFacts DEF End
    <3> QED BY <2>4, <3>1, <3>3, <3>4, <1>1, <1>2, <1>4
  <2>5. CASE x # new /\ x # b /\ y # new
    BY <2>5, <1>1, <1>4, <1>8 DEF Tiling
  <2> QED BY <2>1, <2>2, <2>3, <2>4, <2>5
<1>9. ListHead \in DOMAIN g /\ DOMAIN g \subseteq Nat
  BY <1>1, <1>2
<1> QED BY <1>1, <1>5, <1>6, <1>7, <1>8, <1>9 DEF Tiling, g

Used(h) == {b \in DOMAIN h : ~h[b].isFree}

(* g is h with nothing but the isFree of b changed.                        *)
Marked(h, b, f, g, top) ==
    /\ DOMAIN g = DOMAIN h
    /\ Tiling(g, top)
    /\ g[b].isFree = f
    /\ \A x \in DOMAIN h \ {b} : g[x] = h[x]
    /\ \A x \in DOMAIN h : /\ g[x].size = h[x].size
                           /\ g[x].next = h[x].next
                           /\ g[x].previous = h[x].previous

LEMMA MarkFields ==
    ASSUME NEW h, NEW top, Tiling(h, top), NEW b \in DOMAIN h, NEW f \in BOOLEAN
    PROVE  Marked(h, b, f, [h EXCEPT ![b].isFree = f], top)
<1> DEFINE g == [h EXCEPT ![b].isFree = f]
<1>1. h \in [DOMAIN h -> VMHeapBlockHeader]
  BY DEF Tiling
<1>2. DOMAIN g = DOMAIN h /\ \A x \in DOMAIN h \ {b} : g[x] = h[x]
  BY <1>1
<1>3. g[b] = [h[b] EXCEPT !.isFree = f]
  BY <1>1
<1> HIDE DEF g
<1>4. /\ g[b].isFree = f /\ g[b].size = h[b].size /\ g[b].next = h[b].next
      /\ g[b].previous = h[b].previous /\ g[b] \in VMHeapBlockHeader
  BY <1>1, <1>3 DEF VMHeapBlockHeader
<1>5. \A x \in DOMAIN h : /\ g[x].size = h[x].size
                          /\ g[x].next = h[x].next
                          /\ g[x].previous = h[x].previous
                          /\ g[x] \in VMHeapBlockHeader
  BY <1>1, <1>2, <1>4
<1>6. g \in [DOMAIN g -> VMHeapBlockHeader]
  <2>1. g = [x \in DOMAIN h |-> g[x]]
    BY <1>1 DEF g
  <2> QED BY <2>1, <1>2, <1>5
<1>7. \A x \in DOMAIN h : End(g, x) = End(h, x)
  BY <1>5 DEF End
<1>8. Tiling(g, top)
  BY <1>2, <1>5, <1>6, <1>7 DEF Tiling
<1>9. Marked(h, b, f, g, top)
  BY <1>2, <1>4, <1>5, <1>8 DEF Marked
<1> QED BY <1>9 DEF g

(* A step along `next` goes up. *)
LEMMA NextGoesUp ==
    ASSUME NEW h, NEW top, Tiling(h, top), NEW x \in DOMAIN h, h[x].next # Null
    PROVE  h[x].next \in DOMAIN h /\ x < h[x].next /\ x \in Nat /\ h[x].next \in Nat
<1>1. x \in Nat /\ h[x].size \in Nat
  BY DEF Tiling, VMHeapBlockHeader
<1>2. h[x].next \in DOMAIN h /\ h[x].next = x + HeaderSize + h[x].size
  BY DEF Tiling, End
<1> QED BY <1>1, <1>2, ConstantFacts

(* No two free blocks are neighbours, unless the second one is b: a block  *)
(* that is about to be taken may be new, behind a free one.                *)
CoalescedUpTo(h, b) ==
    \A x \in DOMAIN h :
        h[x].isFree /\ h[x].next # Null /\ h[x].next # b => ~h[h[x].next].isFree

(* Taking a free block that fits. *)
LEMMA TakeCorrect ==
    ASSUME NEW h, NEW top, Tiling(h, top), NEW b \in DOMAIN h, h[b].isFree,
           CoalescedUpTo(h, b), NEW a \in Nat, h[b].size >= a,
           (a + HeaderSize + 16) % Word = a + HeaderSize + 16
    PROVE  LET g == Take(h, b, a)
           IN  /\ Tiling(g, top) /\ Coalesced(g)
               /\ Used(g) = Used(h) \cup {b}
               /\ g[b].size >= a
               /\ \A c \in Used(h) : g[c].size = h[c].size
<1> DEFINE k == IF Splits(h, b, a) THEN Split(h, b, a) ELSE h
           g == [k EXCEPT ![b].isFree = FALSE]
<1>1. Take(h, b, a) = g
  BY DEF Take
<1>2. /\ \A x \in DOMAIN h : h[x].size \in Nat /\ h[x].isFree \in BOOLEAN
      /\ \A x \in DOMAIN h : h[x].next # Null => h[x].next \in DOMAIN h
  <2>1. \A x \in DOMAIN h : h[x].size \in Nat /\ h[x].isFree \in BOOLEAN
    BY DEF Tiling, VMHeapBlockHeader
  <2>2. \A x \in DOMAIN h : h[x].next # Null => h[x].next \in DOMAIN h
    BY DEF Tiling
  <2> QED BY <2>1, <2>2
<1>3. CASE ~Splits(h, b, a)
  <2>1. g = [h EXCEPT ![b].isFree = FALSE]
    BY <1>3
  <2> HIDE DEF g, k
  <2>2. /\ DOMAIN g = DOMAIN h /\ Tiling(g, top) /\ ~g[b].isFree
        /\ \A x \in DOMAIN h \ {b} : g[x] = h[x]
        /\ \A x \in DOMAIN h : g[x].size = h[x].size /\ g[x].next = h[x].next
    <3>1. Marked(h, b, FALSE, g, top)
      BY <2>1, MarkFields
    <3> QED BY <3>1 DEF Marked
  <2>3. Coalesced(g)
    BY <2>2, <1>2 DEF Coalesced, CoalescedUpTo
  <2>4. Used(g) = Used(h) \cup {b}
    BY <2>2 DEF Used
  <2> QED BY <1>1, <2>2, <2>3, <2>4 DEF Used
<1>4. CASE Splits(h, b, a)
  <2> DEFINE new == b + HeaderSize + a
  <2>1. h[b].size > a + HeaderSize
    BY <1>2, <1>4, ConstantFacts DEF Splits
  <2>2. k = Split(h, b, a) /\ Tiling(k, top)
    BY <1>4, <2>1, SplitTiling
  <2> HIDE DEF k
  <2>3. /\ new \notin DOMAIN h /\ DOMAIN k = DOMAIN h \cup {new}
        /\ k[new].next = h[b].next /\ k[new].isFree
        /\ k[b].size = a /\ k[b].next = new
        /\ \A x \in DOMAIN h : k[x].isFree = h[x].isFree
        /\ \A x \in DOMAIN h \ {b} : k[x].size = h[x].size /\ k[x].next = h[x].next
    <3>1. Cut(h, b, a, new, k)
      BY <2>1, <2>2, SplitFields
    <3> HIDE DEF new
    <3> QED BY <3>1 DEF Cut
  <2> HIDE DEF new
  <2>4. /\ DOMAIN g = DOMAIN k /\ Tiling(g, top) /\ ~g[b].isFree
        /\ \A x \in DOMAIN k \ {b} : g[x] = k[x]
        /\ \A x \in DOMAIN k : g[x].size = k[x].size /\ g[x].next = k[x].next
    <3>1. Tiling(k, top) /\ b \in DOMAIN k
      BY <2>2, <2>3
    <3>2. Marked(k, b, FALSE, g, top)
      BY <3>1, MarkFields
    <3> HIDE DEF g
    <3> QED BY <3>2 DEF Marked
  <2> HIDE DEF g
  <2>5. Coalesced(g)
    <3> SUFFICES ASSUME NEW x \in DOMAIN g, g[x].isFree, g[x].next # Null
                 PROVE  ~g[g[x].next].isFree
      BY DEF Coalesced
    <3>1. x # b
      BY <2>4
    <3>2. CASE x = new
      <4>1. g[x].next = h[b].next /\ h[b].next # Null
        BY <3>2, <2>3, <2>4
      <4>2. h[b].next \in DOMAIN h /\ h[b].next # b
        BY <4>1, NextGoesUp
      <4>3. ~h[h[b].next].isFree
        BY <4>1, <4>2 DEF CoalescedUpTo
      <4> QED BY <4>1, <4>2, <4>3, <2>3, <2>4
    <3>3. CASE x # new
      <4>1. x \in DOMAIN h /\ h[x].isFree /\ g[x].next = h[x].next
        BY <3>1, <3>3, <2>3, <2>4
      <4>2. CASE h[x].next = b
        BY <4>1, <4>2, <2>4
      <4>3. CASE h[x].next # b
        <5>1. h[x].next \in DOMAIN h /\ ~h[h[x].next].isFree
          BY <4>1, <4>3, <1>2 DEF CoalescedUpTo
        <5> QED BY <4>1, <5>1, <2>3, <2>4
      <4> QED BY <4>2, <4>3
    <3> QED BY <3>2, <3>3
  <2>6. Used(g) = Used(h) \cup {b}
    <3>1. ASSUME NEW x \in Used(g) PROVE x \in Used(h) \cup {b}
      BY <2>3, <2>4 DEF Used
    <3>2. ASSUME NEW x \in Used(h) \cup {b} PROVE x \in Used(g)
      BY <2>3, <2>4 DEF Used
    <3> QED BY <3>1, <3>2
  <2>7. g[b].size >= a
    BY <2>3, <2>4
  <2>8. \A c \in Used(h) : g[c].size = h[c].size
    BY <2>3, <2>4 DEF Used
  <2> QED BY <1>1, <2>4, <2>5, <2>6, <2>7, <2>8
<1> QED BY <1>3, <1>4

(* Joining a block in use with the free block behind it (VMHeapResize).    *)
LEMMA CombineUsed ==
    ASSUME NEW h, NEW top, Tiling(h, top), Coalesced(h), NEW b \in Used(h),
           h[b].next # Null, h[h[b].next].isFree
    PROVE  LET g == CombineForward(h, b)
           IN  /\ Tiling(g, top) /\ Coalesced(g)
               /\ Used(g) = Used(h)
               /\ g[b].size = h[b].size + HeaderSize + h[h[b].next].size
               /\ \A c \in Used(h) \ {b} : g[c].size = h[c].size
<1> DEFINE n == h[b].next
           g == CombineForward(h, b)
<1>0. b \in DOMAIN h
  BY DEF Used
<1>1. ~h[b].isFree /\ Tiling(g, top)
  BY <1>0, CombineTiling DEF Used
<1>2. /\ n \in DOMAIN h /\ n # b
      /\ DOMAIN g = DOMAIN h \ {n}
      /\ g[b].size = h[b].size + HeaderSize + h[n].size
      /\ g[b].next = h[n].next
      /\ \A x \in DOMAIN g : g[x].isFree = h[x].isFree
      /\ \A x \in DOMAIN g \ {b} : g[x].size = h[x].size /\ g[x].next = h[x].next
  <2>1. Absorbed(h, b, n, g)
    BY <1>0, CombineFields
  <2> HIDE DEF n, g
  <2> QED BY <2>1 DEF Absorbed
<1>3. \A x \in DOMAIN g : g[x].next # Null => g[x].next \in DOMAIN g
  BY <1>1 DEF Tiling
<1> HIDE DEF g
<1>4. Coalesced(g)
  BY <1>1, <1>2, <1>3 DEF Coalesced
<1>5. Used(g) = Used(h)
  <2>1. ASSUME NEW x \in Used(g) PROVE x \in Used(h)
    BY <1>2 DEF Used
  <2>2. ASSUME NEW x \in Used(h) PROVE x \in Used(g)
    BY <1>2 DEF Used
  <2> QED BY <2>1, <2>2
<1>6. \A c \in Used(h) \ {b} : g[c].size = h[c].size
  BY <1>2 DEF Used
<1> QED BY <1>1, <1>2, <1>4, <1>5, <1>6 DEF g

(* g is h with two free neighbours joined at b: what is in use stays as it *)
(* is.                                                                     *)
Joined(h, b, n, g, top) ==
    /\ Tiling(g, top)
    /\ b \in DOMAIN g /\ DOMAIN g = DOMAIN h \ {n}
    /\ g[b].next = h[n].next
    /\ \A x \in DOMAIN g : g[x].isFree = h[x].isFree
    /\ \A x \in DOMAIN g \ {b} : g[x].next = h[x].next
    /\ Used(g) = Used(h)
    /\ \A c \in Used(h) : g[c].size = h[c].size

LEMMA CombineFree ==
    ASSUME NEW h, NEW top, Tiling(h, top), NEW b \in DOMAIN h, h[b].isFree,
           h[b].next # Null, h[h[b].next].isFree
    PROVE  Joined(h, b, h[b].next, CombineForward(h, b), top)
<1> DEFINE n == h[b].next
           g == CombineForward(h, b)
<1>1. Tiling(g, top)
  BY CombineTiling
<1>2. /\ n \in DOMAIN h /\ n # b
      /\ DOMAIN g = DOMAIN h \ {n}
      /\ g[b].next = h[n].next
      /\ \A x \in DOMAIN g : g[x].isFree = h[x].isFree
      /\ \A x \in DOMAIN g \ {b} : g[x].size = h[x].size /\ g[x].next = h[x].next
  <2>1. Absorbed(h, b, n, g)
    BY CombineFields
  <2> HIDE DEF n, g
  <2> QED BY <2>1 DEF Absorbed
<1>3. h[n].isFree
  OBVIOUS
<1> HIDE DEF g, n
<1>4. Used(g) = Used(h)
  <2>1. ASSUME NEW x \in Used(g) PROVE x \in Used(h)
    BY <1>2 DEF Used
  <2>2. ASSUME NEW x \in Used(h) PROVE x \in Used(g)
    BY <1>2, <1>3 DEF Used
  <2> QED BY <2>1, <2>2
<1>5. \A c \in Used(h) : g[c].size = h[c].size
  <2> SUFFICES ASSUME NEW c \in Used(h) PROVE g[c].size = h[c].size
    OBVIOUS
  <2>1. c \in DOMAIN g /\ c # b
    BY <1>2, <1>3 DEF Used
  <2> QED BY <2>1, <1>2
<1>6. Joined(h, b, n, g, top)
  BY <1>1, <1>2, <1>4, <1>5 DEF Joined
<1> QED BY <1>6 DEF g, n

(* Every pair of neighbours without b is coalesced. *)
CoalescedBut(h, b) ==
    \A x \in DOMAIN h \ {b} :
        h[x].isFree /\ h[x].next # Null /\ h[x].next # b => ~h[h[x].next].isFree

(* Freeing a block in use. *)
LEMMA ReleaseCorrect ==
    ASSUME NEW h, NEW top, Tiling(h, top), Coalesced(h), NEW b \in Used(h)
    PROVE  LET r == Release(h, b)
           IN  /\ Tiling(r, top) /\ Coalesced(r)
               /\ Used(r) = Used(h) \ {b}
               /\ \A c \in Used(r) : r[c].size = h[c].size
<1> DEFINE k == [h EXCEPT ![b].isFree = TRUE]
           g == CombineForward(k, b)
           p == g[b].previous
           r == Release(h, b)
<1>0. b \in DOMAIN h /\ ~h[b].isFree
  BY DEF Used
<1>1. r = IF p # Null /\ g[p].isFree THEN CombineForward(g, p) ELSE g
  BY DEF Release
<1>2. /\ DOMAIN k = DOMAIN h /\ Tiling(k, top) /\ k[b].isFree
      /\ \A x \in DOMAIN h \ {b} : k[x] = h[x]
      /\ \A x \in DOMAIN h : k[x].size = h[x].size /\ k[x].next = h[x].next
  <2>1. Marked(h, b, TRUE, k, top)
    BY <1>0, MarkFields
  <2> HIDE DEF k
  <2> QED BY <2>1 DEF Marked
<1> HIDE DEF r, k
<1>3. Used(k) = Used(h) \ {b}
  <2>1. ASSUME NEW x \in Used(k) PROVE x \in Used(h) \ {b}
    BY <1>2 DEF Used
  <2>2. ASSUME NEW x \in Used(h) \ {b} PROVE x \in Used(k)
    BY <1>2 DEF Used
  <2> QED BY <2>1, <2>2
<1>4. /\ \A x \in DOMAIN h : h[x].next # Null => h[x].next \in DOMAIN h /\ x < h[x].next
      /\ DOMAIN h \subseteq Nat
  BY NextGoesUp DEF Tiling
<1>5. CoalescedBut(k, b)
  BY <1>2, <1>4 DEF Coalesced, CoalescedBut
(* The join with the block behind. *)
<1>6. /\ Tiling(g, top) /\ b \in DOMAIN g /\ g[b].isFree
      /\ Used(g) = Used(k) /\ \A c \in Used(k) : g[c].size = k[c].size
      /\ CoalescedBut(g, b)
      /\ g[b].next # Null => ~g[g[b].next].isFree
  <2>1. CASE k[b].next # Null /\ k[k[b].next].isFree
    <3> DEFINE n == k[b].next
    <3>1. Joined(k, b, n, g, top)
      BY <2>1, <1>0, <1>2, CombineFree
    <3>2. n \in DOMAIN k /\ b < n /\ b \in Nat /\ n \in Nat
      BY <2>1, <1>0, <1>2, NextGoesUp
    <3>3. k[n].next # Null => /\ k[n].next \in DOMAIN k /\ n < k[n].next
                              /\ k[n].next \in Nat
      BY <3>2, <1>2, NextGoesUp
    <3>4. n # b /\ k[n].next # b
      BY <3>2, <3>3 DEF Null
    <3>5. k[n].next # Null => ~k[k[n].next].isFree
      BY <2>1, <3>2, <3>4, <1>5 DEF CoalescedBut
    <3>6. \A x \in DOMAIN g : g[x].next # Null => g[x].next \in DOMAIN g
      BY <3>1 DEF Joined, Tiling
    <3> HIDE DEF n, g
    <3>7. g[b].next # Null => ~g[g[b].next].isFree
      BY <3>1, <3>5, <3>6 DEF Joined
    <3>8. CoalescedBut(g, b)
      BY <3>1, <3>6, <1>5 DEF Joined, CoalescedBut
    <3> QED BY <3>1, <3>7, <3>8, <1>2 DEF Joined
  <2>2. CASE ~(k[b].next # Null /\ k[k[b].next].isFree)
    <3>1. g = k
      BY <2>2 DEF CombineForward
    <3> QED BY <2>2, <3>1, <1>0, <1>2, <1>5
  <2> QED BY <2>1, <2>2
<1> HIDE DEF g
(* The join with the block before. *)
<1>7. CASE p # Null /\ g[p].isFree
  <2>1. b # ListHead /\ p \in DOMAIN g /\ g[p].next = b
    BY <1>6, <1>7 DEF Tiling
  <2>2. b # Null
    BY <1>6 DEF Tiling, Null
  <2> HIDE DEF p
  <2>3. Joined(g, p, b, r, top)
    BY <1>1, <1>6, <1>7, <2>1, <2>2, CombineFree
  <2>4. p # b
    BY <2>1, <2>2, <1>6, NextGoesUp
  <2>5. Coalesced(r)
    <3> SUFFICES ASSUME NEW x \in DOMAIN r, r[x].isFree, r[x].next # Null
                 PROVE  ~r[r[x].next].isFree
      BY DEF Coalesced
    <3>1. r[x].next \in DOMAIN r
      BY <2>3 DEF Joined, Tiling
    <3>2. CASE x = p
      BY <3>1, <3>2, <2>3, <1>6 DEF Joined
    <3>3. CASE x # p
      <4>1. /\ x \in DOMAIN g \ {b} /\ g[x].isFree /\ r[x].next = g[x].next
            /\ g[x].next # b
        BY <3>1, <3>3, <2>3 DEF Joined
      <4>2. ~g[g[x].next].isFree
        BY <4>1, <1>6 DEF CoalescedBut
      <4> QED BY <3>1, <4>1, <4>2, <2>3 DEF Joined
    <3> QED BY <3>2, <3>3
  <2>6. Tiling(r, top) /\ Used(r) = Used(h) \ {b}
    BY <2>3, <1>3, <1>6 DEF Joined
  <2>7. \A c \in Used(r) : r[c].size = h[c].size
    <3> SUFFICES ASSUME NEW c \in Used(r) PROVE r[c].size = h[c].size
      OBVIOUS
    <3>1. c \in Used(k) /\ c \in Used(g) /\ c \in DOMAIN h
      BY <2>6, <1>3, <1>6 DEF Used
    <3> QED BY <3>1, <2>3, <1>2, <1>6 DEF Joined
  <2> QED BY <2>5, <2>6, <2>7 DEF r
<1>8. CASE ~(p # Null /\ g[p].isFree)
  <2>1. r = g
    BY <1>1, <1>8
  <2>2. Coalesced(g)
    <3> SUFFICES ASSUME NEW x \in DOMAIN g, g[x].isFree, g[x].next # Null
                 PROVE  ~g[g[x].next].isFree
      BY DEF Coalesced
    <3>1. CASE x = b
      BY <3>1, <1>6
    <3>2. CASE x # b /\ g[x].next # b
      BY <3>2, <1>6 DEF CoalescedBut
    <3>3. CASE g[x].next = b
      <4>1. p = x
        BY <3>3, <1>6 DEF Tiling
      <4>2. x # Null
        BY <1>6 DEF Tiling, Null
      <4> QED BY <4>1, <4>2, <1>8
    <3> QED BY <3>1, <3>2, <3>3
  <2>3. Tiling(r, top) /\ Used(r) = Used(h) \ {b}
    BY <2>1, <1>3, <1>6
  <2>4. \A c \in Used(r) : r[c].size = h[c].size
    <3> SUFFICES ASSUME NEW c \in Used(r) PROVE r[c].size = h[c].size
      OBVIOUS
    <3>1. c \in Used(k) /\ c \in DOMAIN h
      BY <2>3, <1>3 DEF Used
    <3> QED BY <3>1, <2>1, <1>2, <1>6
  <2> QED BY <2>1, <2>2, <2>3, <2>4 DEF r
<1> QED BY <1>7, <1>8

-----------------------------------------------------------------------------
(* The operations.                                                         *)

HeapInv == HeapTiled /\ HeapCoalesced /\ UsedBlocksHeld

(* Holds, in terms of blocks. *)
BlocksHeld(h, l) ==
    /\ DOMAIN l = {Pointer(b) : b \in Used(h)}
    /\ \A b \in Used(h) : l[Pointer(b)] \in Nat /\ l[Pointer(b)] <= h[b].size

LEMMA HoldsByBlock ==
    ASSUME NEW h, NEW top, Tiling(h, top), NEW l
    PROVE  Holds(h, l) <=> BlocksHeld(h, l)
<1>1. \A b \in Used(h) : b \in Nat /\ Header(Pointer(b)) = b
  BY ConstantFacts DEF Used, Tiling, Header, Pointer
<1>2. Used(h) = {c \in DOMAIN h : ~h[c].isFree}
  BY DEF Used
<1>3. (DOMAIN l = {Pointer(b) : b \in Used(h)}) =>
        ((\A p \in DOMAIN l : l[p] \in Nat /\ l[p] <= h[Header(p)].size)
         <=> (\A b \in Used(h) : l[Pointer(b)] \in Nat /\ l[Pointer(b)] <= h[b].size))
  BY <1>1
<1> QED BY <1>2, <1>3 DEF Holds, BlocksHeld

LEMMA PointerFacts ==
    ASSUME NEW h, NEW top, Tiling(h, top), NEW b \in DOMAIN h
    PROVE  /\ Pointer(b) \in Nat /\ Header(Pointer(b)) = b
           /\ \A c \in DOMAIN h : Pointer(b) = Pointer(c) => b = c
<1>1. DOMAIN h \subseteq Nat
  BY DEF Tiling
<1> QED BY <1>1, ConstantFacts DEF Pointer, Header

(* The payload of a block in use, n bytes of it, meets no other one's.     *)
LEMMA HeldClear ==
    ASSUME NEW h, NEW top, Tiling(h, top), NEW l, BlocksHeld(h, l),
           NEW b \in Used(h), NEW n \in Nat, n <= h[b].size
    PROVE  /\ Pointer(b) \in 0 .. top /\ Pointer(b) + n <= top
           /\ \A q \in DOMAIN l \ {Pointer(b)} :
                  Pointer(b) + n <= q \/ q + l[q] <= Pointer(b)
<1>1. \A c \in Used(h) : /\ c \in DOMAIN h /\ c \in Nat /\ h[c].size \in Nat
                         /\ c + HeaderSize + h[c].size <= top
  BY DEF Used, Tiling, End, VMHeapBlockHeader
<1>2. Pointer(b) \in 0 .. top /\ Pointer(b) + n <= top
  <2>1. top \in Nat
    BY DEF Tiling
  <2> QED BY <1>1, <2>1, ConstantFacts DEF Pointer
<1>3. ASSUME NEW q \in DOMAIN l, q # Pointer(b)
      PROVE  Pointer(b) + n <= q \/ q + l[q] <= Pointer(b)
  <2>1. PICK c \in Used(h) : q = Pointer(c)
    BY DEF BlocksHeld
  <2>2. l[q] \in Nat /\ l[q] <= h[c].size
    BY <2>1 DEF BlocksHeld
  <2>3. b < c => b + HeaderSize + h[b].size <= c
    BY <1>1 DEF Tiling, End
  <2>4. c < b => c + HeaderSize + h[c].size <= b
    BY <1>1 DEF Tiling, End
  <2>5. b # c
    BY <2>1, <1>3
  <2> QED BY <1>1, <2>1, <2>2, <2>3, <2>4, <2>5, ConstantFacts DEF Pointer
<1> QED BY <1>2, <1>3

(* Block b is taken for n bytes: a caller holds one more payload.          *)
LEMMA HeldTake ==
    ASSUME NEW h, NEW top, Tiling(h, top), NEW l, BlocksHeld(h, l),
           NEW b \in DOMAIN h, h[b].isFree, CoalescedUpTo(h, b), NEW n \in Nat,
           NEW a \in Nat, a >= n, h[b].size >= a,
           (a + HeaderSize + 16) % Word = a + HeaderSize + 16
    PROVE  LET g == Take(h, b, a)
           IN  /\ Tiling(g, top) /\ Coalesced(g)
               /\ BlocksHeld(g, Hold(l, Pointer(b), n))
               /\ Used(g) = Used(h) \cup {b} /\ n <= g[b].size
               /\ b \notin Used(h) /\ Pointer(b) \notin DOMAIN l
<1> DEFINE g == Take(h, b, a)
           m == Hold(l, Pointer(b), n)
<1>1. /\ Tiling(g, top) /\ Coalesced(g)
      /\ Used(g) = Used(h) \cup {b}
      /\ g[b].size >= a
      /\ \A c \in Used(h) : g[c].size = h[c].size
  BY TakeCorrect
<1>2. b \notin Used(h) /\ Used(h) \subseteq DOMAIN h
  BY DEF Used
<1>3. Pointer(b) \notin DOMAIN l
  BY <1>2, PointerFacts DEF BlocksHeld
<1>4. /\ DOMAIN m = DOMAIN l \cup {Pointer(b)}
      /\ m[Pointer(b)] = n
      /\ \A q \in DOMAIN l : m[q] = l[q]
  BY <1>3 DEF Hold
<1> HIDE DEF g, m
<1>5. b \in DOMAIN g /\ g[b].size \in Nat
  BY <1>1 DEF Used, Tiling, VMHeapBlockHeader
<1>6. n <= g[b].size
  BY <1>1, <1>5
<1>7. DOMAIN m = {Pointer(c) : c \in Used(g)}
  BY <1>1, <1>4 DEF BlocksHeld
<1>8. ASSUME NEW c \in Used(g)
      PROVE  m[Pointer(c)] \in Nat /\ m[Pointer(c)] <= g[c].size
  <2>1. CASE c = b
    BY <2>1, <1>4, <1>6
  <2>2. CASE c # b
    BY <2>2, <1>1, <1>4 DEF BlocksHeld
  <2> QED BY <2>1, <2>2
<1>9. BlocksHeld(g, m)
  BY <1>7, <1>8 DEF BlocksHeld
<1> QED BY <1>1, <1>2, <1>3, <1>6, <1>9 DEF g, m

(* Block b is given back: its payload is nobody's.                         *)
LEMMA HeldRelease ==
    ASSUME NEW h, NEW top, Tiling(h, top), Coalesced(h), NEW l, BlocksHeld(h, l),
           NEW b \in Used(h)
    PROVE  LET g == Release(h, b)
           IN  /\ Tiling(g, top) /\ Coalesced(g)
               /\ BlocksHeld(g, Drop(l, Pointer(b)))
               /\ Used(g) = Used(h) \ {b}
               /\ \A c \in Used(g) : g[c].size = h[c].size
<1> DEFINE g == Release(h, b)
           m == Drop(l, Pointer(b))
<1>1. /\ Tiling(g, top) /\ Coalesced(g)
      /\ Used(g) = Used(h) \ {b}
      /\ \A c \in Used(g) : g[c].size = h[c].size
  BY ReleaseCorrect
<1>2. m = [q \in DOMAIN l \ {Pointer(b)} |-> l[q]]
  BY DEF Drop
<1>3. \A c \in Used(h) : Pointer(c) = Pointer(b) => c = b
  BY PointerFacts DEF Used
<1> HIDE DEF g, m
<1>4. DOMAIN m = {Pointer(c) : c \in Used(g)}
  BY <1>1, <1>2, <1>3 DEF BlocksHeld
<1>5. ASSUME NEW c \in Used(g)
      PROVE  m[Pointer(c)] \in Nat /\ m[Pointer(c)] <= g[c].size
  <2>1. c \in Used(h) /\ Pointer(c) \in DOMAIN m
    BY <1>1, <1>4
  <2> QED BY <2>1, <1>1, <1>2 DEF BlocksHeld
<1>6. BlocksHeld(g, m)
  BY <1>4, <1>5 DEF BlocksHeld
<1> QED BY <1>1, <1>6 DEF g, m

(* Block b, in use before and after, now holds n bytes for its caller, and *)
(* the other blocks in use are as they were.                               *)
LEMMA HeldKeep ==
    ASSUME NEW h, NEW top, Tiling(h, top), NEW l, BlocksHeld(h, l),
           NEW b \in Used(h), NEW n \in Nat, NEW g, Used(g) = Used(h), n <= g[b].size,
           \A c \in Used(h) \ {b} : g[c].size = h[c].size
    PROVE  BlocksHeld(g, Hold(l, Pointer(b), n))
<1> DEFINE p == Pointer(b)
           m == Hold(l, p, n)
<1>1. p \in DOMAIN l
  BY DEF BlocksHeld
<1>2. /\ DOMAIN m = DOMAIN l
      /\ m[p] = n
      /\ \A q \in DOMAIN l \ {p} : m[q] = l[q]
  BY <1>1 DEF Hold
<1>3. \A c \in Used(h) : Pointer(c) = p => c = b
  BY PointerFacts DEF Used
<1> HIDE DEF p, m
<1>4. DOMAIN m = {Pointer(c) : c \in Used(g)}
  BY <1>2 DEF BlocksHeld
<1>5. ASSUME NEW c \in Used(g)
      PROVE  m[Pointer(c)] \in Nat /\ m[Pointer(c)] <= g[c].size
  <2>1. CASE c = b
    BY <2>1, <1>2 DEF p
  <2>2. CASE c # b
    <3>1. Pointer(c) # p /\ Pointer(c) \in DOMAIN l
      BY <2>2, <1>3 DEF BlocksHeld
    <3> QED BY <2>2, <3>1, <1>2 DEF BlocksHeld
  <2> QED BY <2>1, <2>2
<1>6. BlocksHeld(g, m)
  BY <1>4, <1>5 DEF BlocksHeld
<1> QED BY <1>6 DEF m, p

LEMMA AllocateStep ==
    ASSUME HeapInv, NEW n \in Sizes, VMHeapAllocate(n)
    PROVE  HeapInv' /\ A!Allocate
<1> DEFINE a == Align(n)
<1>1. PICK b \in FirstFit(a) \ {Null} :
        heap' = Take(heap, b, a) /\ live' = Hold(live, Pointer(b), n)
  BY DEF VMHeapAllocate
<1>2. n # 0 /\ n \in Nat /\ a \in Nat /\ a >= n
      /\ (a + HeaderSize + 16) % Word = a + HeaderSize + 16
  BY AlignFacts, ConstantFacts DEF VMHeapAllocate
<1> HIDE DEF a
<1>3. b \in DOMAIN heap /\ heap[b].isFree /\ heap[b].size >= a
  BY <1>1 DEF FirstFit
<1>4. Tiling(heap, HeapSize) /\ CoalescedUpTo(heap, b) /\ BlocksHeld(heap, live)
  BY HoldsByBlock
     DEF HeapInv, HeapTiled, HeapCoalesced, UsedBlocksHeld, Coalesced, CoalescedUpTo
<1>5. /\ Tiling(heap', HeapSize) /\ Coalesced(heap') /\ BlocksHeld(heap', live')
      /\ b \in Used(heap') /\ n <= heap'[b].size /\ Pointer(b) \notin DOMAIN live
  BY <1>1, <1>2, <1>3, <1>4, HeldTake
<1>6. HeapInv'
  BY <1>5, HoldsByBlock DEF HeapInv, HeapTiled, HeapCoalesced, UsedBlocksHeld
<1>7. /\ Pointer(b) \in 0 .. HeapSize /\ Pointer(b) + n <= HeapSize
      /\ \A q \in DOMAIN live' \ {Pointer(b)} :
             Pointer(b) + n <= q \/ q + live'[q] <= Pointer(b)
  BY <1>2, <1>5, HeldClear
<1>8. A!Clear(live, Pointer(b), n)
  BY <1>1, <1>5, <1>7 DEF A!Clear, Hold
<1>9. live' = A!Extend(live, Pointer(b), n)
  BY <1>1 DEF Hold, A!Extend
<1> QED BY <1>2, <1>6, <1>7, <1>8, <1>9 DEF A!Allocate

LEMMA FreeStep ==
    ASSUME HeapInv, NEW p \in DOMAIN live, VMHeapFree(p)
    PROVE  HeapInv' /\ A!Free
<1>1. Tiling(heap, HeapSize) /\ Coalesced(heap) /\ BlocksHeld(heap, live)
  BY HoldsByBlock DEF HeapInv, HeapTiled, HeapCoalesced, UsedBlocksHeld
<1>2. PICK b \in Used(heap) : p = Pointer(b) /\ Header(p) = b
  BY <1>1, PointerFacts DEF BlocksHeld, Used
<1>3. Tiling(heap', HeapSize) /\ Coalesced(heap') /\ BlocksHeld(heap', live')
  BY <1>1, <1>2, HeldRelease DEF VMHeapFree
<1>4. HeapInv'
  BY <1>3, HoldsByBlock DEF HeapInv, HeapTiled, HeapCoalesced, UsedBlocksHeld
<1> QED BY <1>4 DEF VMHeapFree, Drop, A!Free, A!Without

LEMMA KeepStep ==
    ASSUME HeapInv, NEW b \in Used(heap), NEW n \in Sizes \ {0},
           Tiling(heap', HeapSize), Coalesced(heap'),
           Used(heap') = Used(heap),
           n <= heap'[b].size,
           \A c \in Used(heap) \ {b} : heap'[c].size = heap[c].size,
           live' = Hold(live, Pointer(b), n)
    PROVE  HeapInv' /\ A!Resize
<1> DEFINE p == Pointer(b)
<1>1. Tiling(heap, HeapSize) /\ BlocksHeld(heap, live) /\ n \in Nat
  BY HoldsByBlock, ConstantFacts DEF HeapInv, HeapTiled, UsedBlocksHeld
<1>2. p \in DOMAIN live
  BY <1>1 DEF BlocksHeld
<1>3. BlocksHeld(heap', live')
  BY <1>1, HeldKeep
<1>4. HeapInv'
  BY <1>3, HoldsByBlock DEF HeapInv, HeapTiled, HeapCoalesced, UsedBlocksHeld
<1>5. /\ p \in 0 .. HeapSize /\ p + n <= HeapSize
      /\ \A q \in DOMAIN live' \ {p} : p + n <= q \/ q + live'[q] <= p
  BY <1>1, <1>3, HeldClear
<1> HIDE DEF p
<1>6. A!Clear(A!Without(p), p, n)
  BY <1>2, <1>5 DEF A!Clear, A!Without, Hold, p
<1>7. live' = A!Extend(A!Without(p), p, n)
  BY <1>2 DEF Hold, A!Extend, A!Without, p
<1> QED BY <1>2, <1>4, <1>5, <1>6, <1>7 DEF A!Resize

(* Dropping one payload and holding another may be done in either order.   *)
LEMMA HoldDrop ==
    ASSUME NEW l, NEW p, NEW q, p # q, NEW n
    PROVE  Hold(Drop(l, p), q, n) = Drop(Hold(l, q, n), p)
BY DEF Hold, Drop

LEMMA MoveStep ==
    ASSUME HeapInv, NEW p \in DOMAIN live, NEW n \in Sizes \ {0}, ResizeMove(p, n)
    PROVE  HeapInv' /\ A!Resize
<1> DEFINE a == Align(n)
<1>1. PICK b \in FirstFit(a) \ {Null} :
        /\ heap' = Release(Take(heap, b, a), Header(p))
        /\ live' = Hold(Drop(live, p), Pointer(b), n)
  BY DEF ResizeMove
<1>2. n \in Nat /\ a \in Nat /\ a >= n
      /\ (a + HeaderSize + 16) % Word = a + HeaderSize + 16
  BY AlignFacts, ConstantFacts
<1> HIDE DEF a
<1>3. b \in DOMAIN heap /\ heap[b].isFree /\ heap[b].size >= a
  BY <1>1 DEF FirstFit
<1>4. Tiling(heap, HeapSize) /\ CoalescedUpTo(heap, b) /\ BlocksHeld(heap, live)
  BY HoldsByBlock
     DEF HeapInv, HeapTiled, HeapCoalesced, UsedBlocksHeld, Coalesced, CoalescedUpTo
<1>5. PICK o \in Used(heap) : p = Pointer(o) /\ Header(p) = o
  BY <1>4, PointerFacts DEF BlocksHeld, Used
<1> DEFINE t == Take(heap, b, a)
           m == Hold(live, Pointer(b), n)
<1>6. /\ Tiling(t, HeapSize) /\ Coalesced(t) /\ BlocksHeld(t, m)
      /\ Used(t) = Used(heap) \cup {b} /\ n <= t[b].size
      /\ b \notin Used(heap) /\ Pointer(b) \notin DOMAIN live
  BY <1>2, <1>3, <1>4, HeldTake
<1>7. heap' = Release(t, o) /\ live' = Drop(m, p)
  BY <1>1, <1>5, <1>6, HoldDrop
<1> HIDE DEF t, m
<1>8. /\ Tiling(heap', HeapSize) /\ Coalesced(heap') /\ BlocksHeld(heap', live')
      /\ b \in Used(heap') /\ n <= heap'[b].size
  BY <1>5, <1>6, <1>7, HeldRelease
<1>9. HeapInv'
  BY <1>8, HoldsByBlock DEF HeapInv, HeapTiled, HeapCoalesced, UsedBlocksHeld
<1>10. /\ Pointer(b) \in 0 .. HeapSize /\ Pointer(b) + n <= HeapSize
       /\ \A q \in DOMAIN live' \ {Pointer(b)} :
              Pointer(b) + n <= q \/ q + live'[q] <= Pointer(b)
  BY <1>2, <1>8, HeldClear
<1>11. A!Clear(A!Without(p), Pointer(b), n)
  <2>1. /\ DOMAIN live' = (DOMAIN live \ {p}) \cup {Pointer(b)}
        /\ \A q \in DOMAIN live \ {p} : live'[q] = live[q]
    BY <1>1, <1>6 DEF Hold, Drop
  <2> QED BY <1>6, <1>10, <2>1 DEF A!Clear, A!Without
<1>12. live' = A!Extend(A!Without(p), Pointer(b), n)
  BY <1>1 DEF Hold, Drop, A!Extend, A!Without
<1> QED BY <1>9, <1>10, <1>11, <1>12 DEF A!Resize

LEMMA ResizeStep ==
    ASSUME HeapInv, NEW p \in DOMAIN live, NEW n \in Sizes, VMHeapResize(p, n)
    PROVE  HeapInv' /\ A!Resize
<1>1. n \in Sizes \ {0} /\ n \in Nat
  BY ConstantFacts DEF VMHeapResize
<1>2. Tiling(heap, HeapSize) /\ Coalesced(heap) /\ BlocksHeld(heap, live)
  BY HoldsByBlock DEF HeapInv, HeapTiled, HeapCoalesced, UsedBlocksHeld
<1>3. PICK b \in Used(heap) : p = Pointer(b)
  BY <1>2 DEF BlocksHeld
<1>4. b \in DOMAIN heap /\ Header(p) = b
  BY <1>2, <1>3, PointerFacts DEF Used
<1>5. CASE ResizeInPlace(p, n)
  <2>1. /\ heap' = heap /\ live' = Hold(live, Pointer(b), n)
        /\ n <= heap[b].size
    <3>1. heap[b].size \in Nat
      BY <1>2, <1>4 DEF Tiling, VMHeapBlockHeader
    <3> QED BY <3>1, <1>1, <1>3, <1>4, <1>5 DEF ResizeInPlace
  <2> QED BY <2>1, <1>1, <1>2, KeepStep
<1>6. CASE ResizeGrow(p, n)
  <2>1. /\ heap' = CombineForward(heap, b) /\ live' = Hold(live, Pointer(b), n)
        /\ heap[b].next # Null /\ heap[heap[b].next].isFree
        /\ heap[b].size + HeaderSize + heap[heap[b].next].size >= n
    BY <1>3, <1>4, <1>6 DEF ResizeGrow, CanGrow
  <2>2. /\ Tiling(heap', HeapSize) /\ Coalesced(heap') /\ Used(heap') = Used(heap)
        /\ heap'[b].size = heap[b].size + HeaderSize + heap[heap[b].next].size
        /\ \A c \in Used(heap) \ {b} : heap'[c].size = heap[c].size
    BY <2>1, <1>2, CombineUsed
  <2>3. heap'[b].size \in Nat
    BY <2>2 DEF Used, Tiling, VMHeapBlockHeader
  <2>4. n <= heap'[b].size
    BY <2>1, <2>2, <2>3, <1>1
  <2> QED BY <2>1, <2>2, <2>4, <1>1, KeepStep
<1>7. CASE ResizeMove(p, n)
  BY <1>1, <1>7, MoveStep
<1> QED BY <1>5, <1>6, <1>7 DEF VMHeapResize

LEMMA HeapStep ==
    ASSUME HeapInv, [Next]_vars
    PROVE  HeapInv' /\ [A!Next]_live
<1>1. CASE UNCHANGED vars
  BY <1>1 DEF vars, HeapInv, HeapTiled, HeapCoalesced, UsedBlocksHeld
<1>2. CASE Next
  BY <1>2, AllocateStep, FreeStep, ResizeStep DEF Next, A!Next
<1> QED BY <1>1, <1>2

LEMMA HeapInit ==
    ASSUME VMHeapInitialize
    PROVE  HeapInv /\ A!Init
<1>1. /\ DOMAIN heap = {ListHead}
      /\ heap[ListHead] = [next |-> Null, previous |-> Null,
                           size |-> HeapSize - HeaderSize, isFree |-> TRUE]
      /\ live = [p \in {} |-> 0]
  BY DEF VMHeapInitialize
<1>2. HeapSize - HeaderSize \in Nat
  BY ConstantFacts
<1>3. /\ heap[ListHead].next = Null /\ heap[ListHead].previous = Null
      /\ heap[ListHead].size = HeapSize - HeaderSize /\ heap[ListHead].isFree
      /\ heap[ListHead] \in VMHeapBlockHeader
  BY <1>1, <1>2 DEF VMHeapBlockHeader, Null
<1>4. heap \in [DOMAIN heap -> VMHeapBlockHeader]
  BY <1>1, <1>3 DEF VMHeapInitialize
<1>5. HeapTiled
  BY <1>1, <1>3, <1>4, ConstantFacts DEF HeapTiled, Tiling, End, ListHead
<1>6. HeapCoalesced
  BY <1>1, <1>3 DEF HeapCoalesced, Coalesced
<1>7. UsedBlocksHeld
  BY <1>1, <1>3 DEF UsedBlocksHeld, Holds
<1> QED BY <1>1, <1>5, <1>6, <1>7 DEF HeapInv, A!Init

(* For every heap size and every sequence of calls, the block list of the  *)
(* kernel heap (Heap.c) tiles the heap, with `previous` the inverse of     *)
(* `next`, through every split and every join.                             *)
THEOREM HeapIsTiled == Spec => []HeapTiled
<1>1. VMHeapInitialize => HeapInv
  BY HeapInit
<1>2. HeapInv /\ [Next]_vars => HeapInv'
  BY HeapStep
<1>3. HeapInv => HeapTiled
  BY DEF HeapInv
<1> QED BY <1>1, <1>2, <1>3, PTL DEF Spec

(* Joining forward and then backward on free is enough: two free blocks    *)
(* are never neighbours (sVMHeapFreeInternal, VMHeapResize).               *)
THEOREM HeapIsCoalesced == Spec => []HeapCoalesced
<1>1. VMHeapInitialize => HeapInv
  BY HeapInit
<1>2. HeapInv /\ [Next]_vars => HeapInv'
  BY HeapStep
<1>3. HeapInv => HeapCoalesced
  BY DEF HeapInv
<1> QED BY <1>1, <1>2, <1>3, PTL DEF Spec

(* The kernel heap implements the allocator its callers rely on:           *)
(* allocations stay inside the heap and never share a byte.                *)
THEOREM HeapIsAllocator == Spec => ImplementsAllocator
<1>1. VMHeapInitialize => HeapInv /\ A!Init
  BY HeapInit
<1>2. HeapInv /\ [Next]_vars => HeapInv' /\ [A!Next]_live
  BY HeapStep
<1> QED BY <1>1, <1>2, PTL DEF Spec, ImplementsAllocator, A!Spec
=============================================================================
