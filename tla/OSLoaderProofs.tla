--------------------------- MODULE OSLoaderProofs ---------------------------
(***************************************************************************)
(* For every machine, memory map and set of programs: what a running       *)
(* process reaches from ring 3 is its own, what it needs is mapped, and so *)
(* is what the kernel needs, in every address space.                       *)
(*                                                                         *)
(* The page tables form a tree whose upper half all address spaces share.  *)
(* The invariant says so by what each frame that was handed out is used    *)
(* for: whose it is, at which level of the tables (0 is a page), and for   *)
(* which stretch of addresses.  No variable holds that; the invariant says *)
(* that there is such a function.                                          *)
(*                                                                         *)
(* Where entries lead does not say which entries there are.  MappedInv, in *)
(* the second half, says that: each page that a loop has begun is mapped   *)
(* or still ahead, or memory has run out for good.                         *)
(***************************************************************************)
EXTENDS OSLoader, VMPhysicalMemoryProofs, FiniteSetTheorems

-----------------------------------------------------------------------------
(* Addresses.  Page numbers are split into indices by division; Region is  *)
(* what is left of one above a level: the number of a table's stretch.     *)

Region(page, level) ==
    CASE level = 0 -> page
      [] level = 1 -> page \div Entries
      [] level = 2 -> page \div (Entries * Entries)
      [] level = 3 -> page \div (Entries * Entries * Entries)
      [] level = 4 -> 0

LEMMA DivisionRemainder ==
    ASSUME NEW n \in Nat, NEW d \in Nat \ {0}
    PROVE  /\ n \div d \in Nat /\ n % d \in 0 .. d - 1
           /\ n = (n \div d) * d + (n % d)
<1>1. d \in Nat /\ d > 0
  OBVIOUS
<1> QED
  BY <1>1

LEMMA SmallRemainder ==
    ASSUME NEW n \in Nat, NEW d \in Nat, n < d
    PROVE  n % d = n
<1> DEFINE q == n \div d
<1>1. q \in Int /\ q >= 0 /\ n % d \in 0 .. d - 1 /\ n = d * q + (n % d)
  OBVIOUS
<1>2. q < 1
  <2>1. ASSUME q >= 1
        PROVE  FALSE
    <3>1. d * q >= d * 1
      BY <1>1, <2>1
    <3> QED
      BY <1>1, <3>1
  <2> QED
    BY <1>1, <2>1
<1> QED
  BY <1>1, <1>2

(* The quotient is the only one. *)
LEMMA QuotientUnique ==
    ASSUME NEW n \in Nat, NEW d \in Nat \ {0}, NEW q \in Nat, NEW r \in 0 .. d - 1,
           n = q * d + r
    PROVE  n \div d = q
<1> DEFINE p == n \div d
           s == n % d
<1>1. p \in Nat /\ s \in 0 .. d - 1 /\ n = p * d + s
  BY DivisionRemainder
<1> HIDE DEF p, s
<1>2. CASE q < p
  <2>1. q + 1 <= p /\ q + 1 \in Nat
    BY <1>1, <1>2
  <2>2. (q + 1) * d <= p * d
    BY <1>1, <2>1, TimesMonotone
  <2>3. (q + 1) * d = q * d + d /\ q * d \in Nat /\ p * d \in Nat
    BY <1>1
  <2> QED
    BY <1>1, <2>2, <2>3
<1>3. CASE p < q
  <2>1. p + 1 <= q /\ p + 1 \in Nat
    BY <1>1, <1>3
  <2>2. (p + 1) * d <= q * d
    BY <1>1, <2>1, TimesMonotone
  <2>3. (p + 1) * d = p * d + d /\ q * d \in Nat /\ p * d \in Nat
    BY <1>1
  <2> QED
    BY <1>1, <2>2, <2>3
<1> QED
  BY <1>1, <1>2, <1>3 DEF p

(* Dividing twice is dividing by the product. *)
LEMMA DivideTwice ==
    ASSUME NEW n \in Nat, NEW a \in Nat \ {0}, NEW b \in Nat \ {0}
    PROVE  (n \div a) \div b = n \div (a * b)
<1> DEFINE q == n \div a
           r == n % a
           p == q \div b
           s == q % b
<1>1. q \in Nat /\ r \in 0 .. a - 1 /\ n = q * a + r
  BY DivisionRemainder
<1>2. p \in Nat /\ s \in 0 .. b - 1 /\ q = p * b + s
  BY <1>1, DivisionRemainder
<1> HIDE DEF q, r, p, s
<1>3. n = p * (a * b) + (s * a + r)
  <2>1. q * a = p * (a * b) + s * a
    BY <1>2
  <2> QED
    BY <1>1, <1>2, <2>1
<1>4. s * a + r \in 0 .. a * b - 1
  <2>1. s + 1 <= b /\ s + 1 \in Nat
    BY <1>2
  <2>2. (s + 1) * a <= b * a
    BY <2>1, TimesMonotone
  <2>3. (s + 1) * a = s * a + a /\ s * a \in Nat /\ b * a = a * b /\ a * b \in Nat
    BY <1>2
  <2> QED
    BY <1>1, <2>2, <2>3
<1>5. a * b \in Nat \ {0}
  OBVIOUS
<1>6. n \div (a * b) = p
  BY <1>2, <1>3, <1>4, <1>5, QuotientUnique
<1> QED
  BY <1>6 DEF p, q

(* The products of table sizes. *)
LEMMA EntriesFacts ==
    /\ Entries \in Nat \ {0} /\ Entries * Entries \in Nat \ {0}
    /\ Entries * Entries * Entries \in Nat \ {0}
    /\ Entries * (Entries * Entries * Entries) \in Nat \ {0}
<1>1. Entries \in Nat \ {0}
  BY VirtualMemoryAssumption
<1>2. \A a, b \in Nat \ {0} : a * b \in Nat \ {0}
  OBVIOUS
<1>3. Entries * Entries \in Nat \ {0}
  BY <1>1, <1>2
<1>4. Entries * Entries * Entries \in Nat \ {0}
  BY <1>1, <1>2, <1>3
<1> QED
  BY <1>1, <1>2, <1>3, <1>4

(* The index into a table picks, of the stretches below it, the page's.    *)
LEMMA RegionStep ==
    ASSUME NEW page \in Pages, NEW level \in 1 .. 4
    PROVE  /\ Region(page, level) \in Nat /\ Index(page, level) \in 0 .. Entries - 1
           /\ Region(page, level - 1) = Region(page, level) * Entries + Index(page, level)
<1> DEFINE e == Entries
           e2 == Entries * Entries
           e3 == Entries * Entries * Entries
<1>1. e \in Nat \ {0} /\ e2 \in Nat \ {0} /\ e3 \in Nat \ {0}
  BY EntriesFacts
<1>2. page \in Nat
  BY EntriesFacts DEF Pages
<1>3. CASE level = 1
  BY <1>1, <1>2, <1>3, DivisionRemainder DEF Region, Index
<1>4. CASE level = 2
  <2>1. (page \div e) \div e = page \div e2 /\ page \div e \in Nat
    BY <1>1, <1>2, DivideTwice, DivisionRemainder
  <2>2. /\ page \div e = ((page \div e) \div e) * e + ((page \div e) % e)
        /\ (page \div e) \div e \in Nat /\ (page \div e) % e \in 0 .. e - 1
    BY <1>1, <2>1, DivisionRemainder
  <2> QED
    BY <1>4, <2>1, <2>2 DEF Region, Index
<1>5. CASE level = 3
  <2>1. (page \div e2) \div e = page \div e3 /\ page \div e2 \in Nat
    BY <1>1, <1>2, DivideTwice, DivisionRemainder
  <2>2. /\ page \div e2 = ((page \div e2) \div e) * e + ((page \div e2) % e)
        /\ (page \div e2) \div e \in Nat /\ (page \div e2) % e \in 0 .. e - 1
    BY <1>1, <2>1, DivisionRemainder
  <2> QED
    BY <1>5, <2>1, <2>2 DEF Region, Index
<1>6. CASE level = 4
  <2>1. page \div e3 \in Nat /\ page % e3 \in 0 .. e3 - 1
        /\ page = (page \div e3) * e3 + (page % e3)
    BY <1>1, <1>2, DivisionRemainder
  <2>2. page < e * e3
    BY <1>1, <1>2, EntriesFacts DEF Pages
  <2>3. page \div e3 < e
    <3> DEFINE q == page \div e3
    <3>1. SUFFICES ASSUME e <= q
                   PROVE  FALSE
      BY <1>1, <2>1
    <3> HIDE DEF q, e3
    <3>2. q \in Nat /\ page = q * e3 + (page % e3) /\ e3 \in Nat /\ page % e3 \in 0 .. e3 - 1
      BY <1>1, <2>1 DEF q
    <3>3. e * e3 <= q * e3
      BY <1>1, <3>1, <3>2, TimesMonotone
    <3>4. q * e3 \in Nat /\ e * e3 \in Nat
      BY <1>1, <3>2
    <3> QED
      BY <1>2, <2>2, <3>2, <3>3, <3>4
  <2>4. (page \div e3) % e = page \div e3
    <3> DEFINE q == page \div e3
    <3> HIDE DEF q
    <3>1. q \in Nat /\ q < e
      BY <2>1, <2>3 DEF q
    <3>2. q % e = q
      BY <1>1, <3>1, SmallRemainder
    <3> QED
      BY <3>2 DEF q
  <2>5. Region(page, 4) = 0 /\ Region(page, 3) = page \div e3
        /\ Index(page, 4) = (page \div e3) % e
    BY DEF Region, Index
  <2>6. page \div e3 \in 0 .. e - 1
    BY <1>1, <2>1, <2>3
  <2>7. 0 * e + Index(page, 4) = page \div e3
    <3> HIDE DEF e3
    <3> QED
      BY <1>1, <2>4, <2>5, <2>6
  <2> QED
    BY <1>6, <2>4, <2>5, <2>6, <2>7
<1> QED
  BY <1>3, <1>4, <1>5, <1>6

(* A page is in the kernel's half when its first index is.                 *)
LEMMA HalfByIndex ==
    ASSUME NEW page \in Pages
    PROVE  page \in KernelPages <=> Index(page, 4) \in KernelHalf
<1> DEFINE e3 == Entries * Entries * Entries
           half == Entries \div 2
           q == page \div e3
           r == page % e3
<1>1. e3 \in Nat \ {0} /\ half \in Nat /\ page \in Nat /\ Entries \in Nat
  BY EntriesFacts DEF Pages
<1>2. q \in Nat /\ r \in 0 .. e3 - 1 /\ page = q * e3 + r
  BY <1>1, DivisionRemainder
<1>3. Index(page, 4) = q /\ q \in 0 .. Entries - 1
  <2>1. Region(page, 4) = 0 /\ Region(page, 3) = q
    BY DEF Region
  <2>2. Region(page, 3) = Region(page, 4) * Entries + Index(page, 4)
        /\ Index(page, 4) \in 0 .. Entries - 1
    BY RegionStep
  <2> HIDE DEF q, e3
  <2> QED
    BY <1>1, <2>1, <2>2
<1> HIDE DEF e3, half, q, r
<1>4. page >= half * e3 <=> q >= half
  <2>1. half * e3 \in Nat /\ q * e3 \in Nat
    BY <1>1, <1>2
  <2>2. q >= half => half * e3 <= q * e3
    BY <1>1, <1>2, TimesMonotone
  <2>3. ASSUME q < half
        PROVE  q * e3 + e3 <= half * e3
    <3>1. (q + 1) * e3 <= half * e3
      BY <1>1, <1>2, <2>3, q + 1 \in Nat, q + 1 <= half, TimesMonotone
    <3>2. (q + 1) * e3 = q * e3 + e3
      BY <1>1, <1>2
    <3> QED
      BY <3>1, <3>2
  <2> QED
    BY <1>1, <1>2, <2>1, <2>2, <2>3
<1>5. page \in KernelPages <=> page >= half * e3
  BY DEF KernelPages, KernelHalfStart, half, e3
<1>6. Index(page, 4) \in KernelHalf <=> q >= half
  BY <1>1, <1>2, <1>3 DEF KernelHalf, half
<1> QED
  BY <1>4, <1>5, <1>6

-----------------------------------------------------------------------------
(* What frames are used for.                                               *)

Uses == [owner : Nat, level : 0 .. 4, region : Nat]
Use(owner, level, region) == [owner |-> owner, level |-> level, region |-> region]

KernelHeap == KernelHeapStart .. KernelHeapStart + KernelHeapPages - 1

(* What entry i of a table leads to: the kernel's half belongs to nobody.  *)
Child(u, i) ==
    Use(IF u.level = 4 /\ i \in KernelHalf THEN 0 ELSE u.owner,
        u.level - 1, u.region * Entries + i)

UsedFor(use, hd, f, u) == f \in hd /\ use[f] = u

(* An entry of a table in use for u.  No user gets into the kernel's half. *)
(* The kernel may map any frame outside its heap; the processes in `lack`  *)
(* may have frame 0 where they were given none.                            *)
EntryRight(use, hd, lack, u, i, e) ==
    /\ u.level = 4 /\ i \in KernelHalf => e.user = FALSE
    /\ \/ UsedFor(use, hd, e.frame, Child(u, i))
       \/ u.level = 1 /\ u.owner = 0 /\ u.region * Entries + i \notin KernelHeap
       \/ u.level = 1 /\ u.owner \in lack /\ e.frame = 0

Tree(use, tb, hd, lack) ==
    /\ use \in [hd -> Uses]
    /\ DOMAIN tb = {f \in hd : use[f].level > 0}
    /\ \A t \in DOMAIN tb : \A i \in DOMAIN tb[t] :
           EntryRight(use, hd, lack, use[t], i, tb[t][i])

(* A frame more, in use for u. *)
With(use, f, u) == [g \in DOMAIN use \cup {f} |-> IF g = f THEN u ELSE use[g]]

LEMMA EntryStays ==
    ASSUME NEW use, NEW hd, NEW lack, use \in [hd -> Uses], NEW f, f \notin hd, NEW v,
           NEW u, NEW i, NEW e, EntryRight(use, hd, lack, u, i, e)
    PROVE  EntryRight(With(use, f, v), hd \cup {f}, lack, u, i, e)
<1>1. ASSUME NEW g \in hd
      PROVE  With(use, f, v)[g] = use[g]
  BY <1>1 DEF With
<1>2. UsedFor(use, hd, e.frame, Child(u, i)) =>
          UsedFor(With(use, f, v), hd \cup {f}, e.frame, Child(u, i))
  BY <1>1 DEF UsedFor
<1> QED
  BY <1>2, Zenon DEF EntryRight

(* A page is handed out. *)
LEMMA TreeWithPage ==
    ASSUME NEW use, NEW tb, NEW hd, NEW lack, Tree(use, tb, hd, lack),
           NEW f, f \notin hd, NEW u \in Uses, u.level = 0
    PROVE  Tree(With(use, f, u), tb, hd \cup {f}, lack)
<1> DEFINE new == With(use, f, u)
<1>1. new \in [hd \cup {f} -> Uses] /\ new[f] = u /\ \A g \in hd : new[g] = use[g]
  BY DEF Tree, With
<1>2. ASSUME NEW t \in DOMAIN tb, NEW i \in DOMAIN tb[t]
      PROVE  EntryRight(new, hd \cup {f}, lack, new[t], i, tb[t][i])
  <2>1. t \in hd /\ new[t] = use[t]
    BY <1>1 DEF Tree
  <2>2. EntryRight(use, hd, lack, use[t], i, tb[t][i]) /\ use \in [hd -> Uses]
    BY DEF Tree
  <2> HIDE DEF new
  <2> QED
    BY <2>1, <2>2, EntryStays DEF new
<1> HIDE DEF new
<1>3. DOMAIN tb = {g \in hd \cup {f} : new[g].level > 0}
  BY <1>1 DEF Tree
<1> QED
  BY <1>1, <1>2, <1>3 DEF Tree, new

(* A table is added. *)
LEMMA TreeWithTable ==
    ASSUME NEW use, NEW tb, NEW hd, NEW lack, Tree(use, tb, hd, lack),
           NEW f, f \notin hd, NEW u \in Uses, u.level > 0, NEW table,
           \A i \in DOMAIN table :
               EntryRight(With(use, f, u), hd \cup {f}, lack, u, i, table[i])
    PROVE  Tree(With(use, f, u),
                [t \in DOMAIN tb \cup {f} |-> IF t = f THEN table ELSE tb[t]],
                hd \cup {f}, lack)
<1> DEFINE new == With(use, f, u)
           more == [t \in DOMAIN tb \cup {f} |-> IF t = f THEN table ELSE tb[t]]
<1>1. new \in [hd \cup {f} -> Uses] /\ new[f] = u /\ \A g \in hd : new[g] = use[g]
  BY DEF Tree, With
<1>2. ASSUME NEW t \in DOMAIN more, NEW i \in DOMAIN more[t]
      PROVE  EntryRight(new, hd \cup {f}, lack, new[t], i, more[t][i])
  <2>1. CASE t = f
    <3>1. more[t] = table /\ new[t] = u
      BY <1>1, <2>1
    <3> HIDE DEF new, more
    <3> QED
      BY <1>2, <3>1 DEF new
  <2>2. CASE t # f
    <3>1. t \in DOMAIN tb /\ more[t] = tb[t]
      BY <1>2, <2>2
    <3>2. t \in hd /\ new[t] = use[t]
      BY <1>1, <3>1 DEF Tree
    <3>3. EntryRight(use, hd, lack, use[t], i, tb[t][i]) /\ use \in [hd -> Uses]
      BY <1>2, <3>1 DEF Tree
    <3> HIDE DEF new, more
    <3> QED
      BY <3>1, <3>2, <3>3, EntryStays DEF new
  <2> QED
    BY <2>1, <2>2
<1>3. DOMAIN more = DOMAIN tb \cup {f}
  OBVIOUS
<1> HIDE DEF new, more
<1>4. DOMAIN more = {g \in hd \cup {f} : new[g].level > 0}
  BY <1>1, <1>3 DEF Tree
<1> QED
  BY <1>1, <1>2, <1>4 DEF Tree, new, more

(* An entry is written. *)
LEMMA TreeWithEntry ==
    ASSUME NEW use, NEW tb, NEW hd, NEW lack, Tree(use, tb, hd, lack),
           NEW t \in DOMAIN tb, NEW i, NEW e, EntryRight(use, hd, lack, use[t], i, e)
    PROVE  Tree(use, [tb EXCEPT ![t] = Put(@, i, e)], hd, lack)
<1> DEFINE new == [tb EXCEPT ![t] = Put(@, i, e)]
<1>1. DOMAIN new = DOMAIN tb
      /\ \A s \in DOMAIN tb : new[s] = IF s = t THEN Put(tb[t], i, e) ELSE tb[s]
  OBVIOUS
<1> HIDE DEF new
<1>2. ASSUME NEW s \in DOMAIN new, NEW j \in DOMAIN new[s]
      PROVE  EntryRight(use, hd, lack, use[s], j, new[s][j])
  <2>1. CASE s = t /\ j = i
    <3>1. new[s][j] = e
      BY <1>1, <2>1 DEF Put
    <3> QED
      BY <2>1, <3>1
  <2>2. CASE ~(s = t /\ j = i)
    <3>1. j \in DOMAIN tb[s] /\ new[s][j] = tb[s][j] /\ s \in DOMAIN tb
      BY <1>1, <1>2, <2>2 DEF Put
    <3> QED
      BY <3>1 DEF Tree
  <2> QED
    BY <2>1, <2>2
<1> QED
  BY <1>1, <1>2 DEF Tree, new

(* Entries are taken out. *)
LEMMA TreeWithout ==
    ASSUME NEW use, NEW tb, NEW hd, NEW lack, Tree(use, tb, hd, lack),
           NEW less, DOMAIN less = DOMAIN tb,
           \A t \in DOMAIN tb : \A i \in DOMAIN less[t] :
               i \in DOMAIN tb[t] /\ less[t][i] = tb[t][i]
    PROVE  Tree(use, less, hd, lack)
  BY DEF Tree

(* More processes may lack pages. *)
LEMMA TreeLacking ==
    ASSUME NEW use, NEW tb, NEW hd, NEW lack, NEW more, Tree(use, tb, hd, lack),
           lack \subseteq more
    PROVE  Tree(use, tb, hd, more)
<1>1. ASSUME NEW u, NEW i, NEW e, EntryRight(use, hd, lack, u, i, e)
      PROVE  EntryRight(use, hd, more, u, i, e)
  BY <1>1 DEF EntryRight
<1> QED
  BY <1>1 DEF Tree

-----------------------------------------------------------------------------
(* Following the tables.                                                   *)

(* Whose the tables for a page are, below the first one.                   *)
Below(owner, page) == IF page \in KernelPages THEN 0 ELSE owner

LEMMA ChildForPage ==
    ASSUME NEW page \in Pages, NEW owner
    PROVE  /\ Child(Use(owner, 4, Region(page, 4)), Index(page, 4)) =
                  Use(Below(owner, page), 3, Region(page, 3))
           /\ \A level \in 1 .. 3 :
                  Child(Use(owner, level, Region(page, level)), Index(page, level)) =
                      Use(owner, level - 1, Region(page, level - 1))
<1>1. ASSUME NEW level \in 1 .. 4
      PROVE  Region(page, level) * Entries + Index(page, level) = Region(page, level - 1)
  BY <1>1, RegionStep
<1>2. Region(page, 4) * Entries + Index(page, 4) = Region(page, 3)
  BY <1>1, 4 - 1 = 3
<1>3. page \in KernelPages <=> Index(page, 4) \in KernelHalf
  BY HalfByIndex
<1>4. Child(Use(owner, 4, Region(page, 4)), Index(page, 4)) =
          Use(Below(owner, page), 3, Region(page, 3))
  BY <1>2, <1>3, 4 - 1 = 3 DEF Child, Use, Below
<1>5. ASSUME NEW level \in 1 .. 3
      PROVE  Child(Use(owner, level, Region(page, level)), Index(page, level)) =
                 Use(owner, level - 1, Region(page, level - 1))
  <2>1. level # 4 /\ level \in 1 .. 4
    BY <1>5
  <2> QED
    BY <1>1, <2>1 DEF Child, Use
<1> QED
  BY <1>4, <1>5

(* What an address is translated to lies behind four tables.               *)
LEMMA TablesBehind ==
    ASSUME NEW root, NEW page, NEW f \in Translate(root, page)
    PROVE  \E t3, t2, t1 :
               /\ Has(root, Index(page, 4)) /\ t3 = tables[root][Index(page, 4)].frame
               /\ Has(t3, Index(page, 3)) /\ t2 = tables[t3][Index(page, 3)].frame
               /\ Has(t2, Index(page, 2)) /\ t1 = tables[t2][Index(page, 2)].frame
               /\ Has(t1, Index(page, 1)) /\ f = tables[t1][Index(page, 1)].frame
<1>0. ASSUME NEW S, NEW level, NEW g \in Down(S, page, level)
      PROVE  \E t \in S : Has(t, Index(page, level)) /\ g = tables[t][Index(page, level)].frame
  BY <1>0 DEF Down
<1>1. f \in Down(PageTable(root, page), page, 1)
  BY DEF Translate
<1>2. PICK t1 \in PageTable(root, page) :
          Has(t1, Index(page, 1)) /\ f = tables[t1][Index(page, 1)].frame
  BY <1>0, <1>1
<1>3. t1 \in Down(Down(Down({root}, page, 4), page, 3), page, 2)
  BY DEF PageTable
<1>4. PICK t2 \in Down(Down({root}, page, 4), page, 3) :
          Has(t2, Index(page, 2)) /\ t1 = tables[t2][Index(page, 2)].frame
  BY <1>0, <1>3
<1>5. PICK t3 \in Down({root}, page, 4) :
          Has(t3, Index(page, 3)) /\ t2 = tables[t3][Index(page, 3)].frame
  BY <1>0
<1>6. Has(root, Index(page, 4)) /\ t3 = tables[root][Index(page, 4)].frame
  BY DEF Down
<1> QED
  BY <1>2, <1>4, <1>5, <1>6

(* The entry a translation ends with is one for this page.                 *)
LEMMA TranslationRight ==
    ASSUME NEW use, NEW lack, Tree(use, tables, held, lack),
           NEW root, NEW owner, UsedFor(use, held, root, Use(owner, 4, 0)),
           NEW page \in Pages, NEW f \in Translate(root, page)
    PROVE  \E e : /\ f = e.frame
                  /\ EntryRight(use, held, lack, Use(Below(owner, page), 1, Region(page, 1)),
                                Index(page, 1), e)
<1>0. 2 \in 2 .. 4 /\ 3 \in 2 .. 4 /\ 4 \in 2 .. 4
  OBVIOUS
<1>1. PICK t3, t2, t1 :
          /\ Has(root, Index(page, 4)) /\ t3 = tables[root][Index(page, 4)].frame
          /\ Has(t3, Index(page, 3)) /\ t2 = tables[t3][Index(page, 3)].frame
          /\ Has(t2, Index(page, 2)) /\ t1 = tables[t2][Index(page, 2)].frame
          /\ Has(t1, Index(page, 1)) /\ f = tables[t1][Index(page, 1)].frame
  BY TablesBehind
<1>2. ASSUME NEW t, NEW o, NEW level \in 2 .. 4, NEW i, Has(t, i),
             use[t] = Use(o, level, Region(page, level))
      PROVE  UsedFor(use, held, tables[t][i].frame, Child(use[t], i))
  <2>1. EntryRight(use, held, lack, use[t], i, tables[t][i])
    BY <1>2 DEF Tree, Has
  <2>2. use[t].level # 1
    BY <1>2 DEF Use
  <2> QED
    BY <2>1, <2>2 DEF EntryRight
<1>3. use[t3] = Use(Below(owner, page), 3, Region(page, 3))
  <2>1. use[root] = Use(owner, 4, Region(page, 4))
    BY DEF UsedFor, Region
  <2>2. UsedFor(use, held, t3, Child(use[root], Index(page, 4)))
    BY <1>1, <1>2, <2>1, <1>0
  <2>3. Child(use[root], Index(page, 4)) = Use(Below(owner, page), 3, Region(page, 3))
    BY <2>1, ChildForPage
  <2> QED
    BY <2>2, <2>3 DEF UsedFor
<1>4. use[t2] = Use(Below(owner, page), 2, Region(page, 2))
  <2>1. UsedFor(use, held, t2, Child(use[t3], Index(page, 3)))
    BY <1>1, <1>2, <1>3, <1>0
  <2>2. Child(use[t3], Index(page, 3)) = Use(Below(owner, page), 2, Region(page, 2))
    BY <1>3, ChildForPage, 3 \in 1 .. 3, 3 - 1 = 2
  <2> QED
    BY <2>1, <2>2 DEF UsedFor
<1>5. use[t1] = Use(Below(owner, page), 1, Region(page, 1))
  <2>1. UsedFor(use, held, t1, Child(use[t2], Index(page, 2)))
    BY <1>1, <1>2, <1>4, <1>0
  <2>2. Child(use[t2], Index(page, 2)) = Use(Below(owner, page), 1, Region(page, 1))
    BY <1>4, ChildForPage, 2 \in 1 .. 3, 2 - 1 = 1
  <2> QED
    BY <2>1, <2>2 DEF UsedFor
<1>6. EntryRight(use, held, lack, use[t1], Index(page, 1), tables[t1][Index(page, 1)])
  BY <1>1 DEF Tree, Has
<1> QED
  BY <1>1, <1>5, <1>6

(* An address reached from ring 3 is also reached by the kernel, and lies  *)
(* in the lower half.                                                      *)
LEMMA UserTranslation ==
    ASSUME NEW root, NEW page, NEW f \in UserTranslate(root, page)
    PROVE  /\ f \in Translate(root, page)
           /\ Has(root, Index(page, 4)) /\ tables[root][Index(page, 4)].user
<1>1. ASSUME NEW S, NEW T, S \subseteq T, NEW level
      PROVE  UserDown(S, page, level) \subseteq Down(T, page, level)
  BY <1>1 DEF UserDown, Down
<1> DEFINE s3 == UserDown({root}, page, 4)
           s2 == UserDown(s3, page, 3)
           s1 == UserDown(s2, page, 2)
<1>2. f \in UserDown(s1, page, 1)
  BY DEF UserTranslate
<1>3. s3 # {}
  BY <1>2 DEF UserDown
<1>4. Has(root, Index(page, 4)) /\ tables[root][Index(page, 4)].user
  BY <1>3 DEF UserDown
<1>5. f \in Translate(root, page)
  <2>1. s3 \subseteq Down({root}, page, 4)
    BY <1>1
  <2> HIDE DEF s3
  <2>2. s2 \subseteq Down(Down({root}, page, 4), page, 3)
    BY <1>1, <2>1
  <2> HIDE DEF s2
  <2>3. s1 \subseteq PageTable(root, page)
    BY <1>1, <2>2 DEF PageTable
  <2> HIDE DEF s1
  <2> QED
    BY <1>1, <1>2, <2>3 DEF Translate
<1> QED
  BY <1>4, <1>5

-----------------------------------------------------------------------------
(* The invariant.                                                          *)

Initializing == {"hhdm", "kernel", "framebuffer"}
Serving == {"segments", "stack", "grow"}

(* Whose address space is being worked on. *)
Actor == IF pc \in Serving THEN process ELSE 0

(* The processes that may have frame 0 in place of a page: HOTLoad did not *)
(* get one, so there is none left, and the process will not be scheduled   *)
(* as its stack's setup panics.                                            *)
Lacking ==
    {p \in Processes :
        /\ FreeFrames = {} /\ state[p] # "running"
        /\ pc = "stack" /\ p = process => walk = NoWalk /\ loop.next = UserStackBottom}

Roots(use) ==
    /\ kernelPML4 # 0 => UsedFor(use, held, kernelPML4, Use(0, 4, 0))
    /\ \A p \in Processes : pml4[p] # 0 => UsedFor(use, held, pml4[p], Use(p, 4, 0))

(* A page that is being mapped: users' are in their half, and before the   *)
(* heap is set up no page of it is mapped.                                 *)
PageRight ==
    /\ loop.next \in Pages
    /\ pc \in Serving => loop.next \notin KernelPages
    /\ pc \in Initializing => loop.next \notin KernelHeap

(* A walk is at the page's table of its level, unless it started nowhere,  *)
(* and carries a frame for the page.                                       *)
WalkRight(use) ==
    \/ walk = NoWalk
    \/ /\ walk.level \in 1 .. 4 /\ walk.user = (pc \in Serving)
       /\ PageRight
       /\ walk.table # 0 =>
              UsedFor(use, held, walk.table,
                      Use(IF walk.level = 4 THEN Actor ELSE Below(Actor, loop.next),
                          walk.level, Region(loop.next, walk.level)))
       /\ pc \notin Initializing =>
              \/ UsedFor(use, held, walk.phys, Use(Actor, 0, loop.next))
              \/ walk.phys = 0 /\ pc = "segments" /\ FreeFrames = {}

TablesInv == \E use : Tree(use, tables, held, Lacking) /\ Roots(use) /\ WalkRight(use)

(* The pages that are left. *)
LoopInv ==
    /\ loop.next \in Nat /\ loop.end \in Nat /\ loop = Span(loop.next, loop.end)
    /\ pc \in Initializing => \A page \in loop.next .. loop.end - 1 :
                                  page \in Pages /\ page \notin KernelHeap
    /\ pc = "heap" => KernelHeapStart <= loop.next /\ loop.end = KernelHeapStart + KernelHeapPages
    /\ pc = "segments" => \A page \in loop.next .. loop.end - 1 : page \in Pages \ KernelPages
    /\ pc = "stack" => UserStackBottom <= loop.next /\ loop.end = UserStackTop

(* A page of a heap costs a frame, so heaps stay in the lower half.        *)
GrowthInv ==
    /\ \A p \in Processes : heapCurrent[p] \in HeapStart .. HeapStart + Cardinality(held)
    /\ pc = "grow" =>
        /\ HeapStart <= loop.next /\ HeapStart <= loop.end
        /\ loop.next + (IF walk = NoWalk THEN 0 ELSE 1) <= HeapStart + Cardinality(held)

(* Without a kernel address space the boot ends in a panic.                *)
KernelInv ==
    /\ pc \in {"pml4", "heap", "ready"} \cup Initializing \cup Serving
    /\ pc = "pml4" => DOMAIN tables = {} /\ kernelPML4 = 0 /\ walk = NoWalk
    /\ pc # "pml4" /\ kernelPML4 = 0 =>
        /\ FreeFrames = {} /\ pc \in {"heap"} \cup Initializing
        /\ pc = "heap" => loop.next = KernelHeapStart /\ walk = NoWalk

MapInv ==
    /\ memoryMap \in MemoryMaps
    /\ \E total \in Nat : IsTotalPageCount(total, memoryMap) /\ bitmapSize = BytesFor(total)

States == {"none", "loading", "failed", "running"}

ProcessInv ==
    /\ nextProcessID \in Nat \ {0}
    /\ pml4 \in [Processes -> Nat] /\ state \in [Processes -> States]
    /\ heapCurrent \in [Processes -> Nat] /\ image \in [Processes -> Images]
    /\ pc \in Serving => process \in Processes
    /\ pc \in {"segments", "stack"} => state[process] # "running"
    /\ pc = "segments" => segment \in Nat \ {0}

WalkShape ==
    /\ walk = [level |-> walk.level, table |-> walk.table, phys |-> walk.phys, user |-> walk.user]
    /\ walk = NoWalk \/ walk.level # 0

LoaderInv ==
    /\ PhysicalInv /\ MapInv /\ ProcessInv /\ WalkShape
    /\ LoopInv /\ GrowthInv /\ KernelInv /\ TablesInv

(* A user's page is translated to a frame in use for it and nothing else.  *)
LEMMA UserPageOwned ==
    ASSUME NEW use, Tree(use, tables, held, Lacking), Roots(use), 0 \notin held,
           pml4 \in [Processes -> Nat],
           NEW p \in RunningProcesses, NEW page \in Pages,
           NEW f \in UserTranslate(pml4[p], page)
    PROVE  page \notin KernelPages /\ UsedFor(use, held, f, Use(p, 0, page))
<1> DEFINE root == pml4[p]
<1>0. p \in Processes /\ state[p] = "running" /\ p # 0 /\ p \notin Lacking
  BY DEF RunningProcesses, Processes, Lacking
<1>1. /\ f \in Translate(root, page)
      /\ Has(root, Index(page, 4)) /\ tables[root][Index(page, 4)].user
  BY UserTranslation
<1>2. root # 0
  BY <1>1 DEF Has, Tree
<1>3. UsedFor(use, held, root, Use(p, 4, 0))
  BY <1>0, <1>2 DEF Roots
<1> HIDE DEF root
<1>4. page \notin KernelPages
  <2>1. EntryRight(use, held, Lacking, use[root], Index(page, 4), tables[root][Index(page, 4)])
    BY <1>1 DEF Tree, Has
  <2>2. use[root].level = 4
    BY <1>3 DEF UsedFor, Use
  <2>3. Index(page, 4) \notin KernelHalf
    BY <1>1, <2>1, <2>2 DEF EntryRight
  <2> QED
    BY <2>3, HalfByIndex
<1>5. PICK e : f = e.frame /\ EntryRight(use, held, Lacking, Use(p, 1, Region(page, 1)),
                                         Index(page, 1), e)
  BY <1>1, <1>3, <1>4, TranslationRight DEF Below
<1>6. UsedFor(use, held, f, Child(Use(p, 1, Region(page, 1)), Index(page, 1)))
  BY <1>0, <1>5 DEF EntryRight, Use
<1>7. Child(Use(p, 1, Region(page, 1)), Index(page, 1)) = Use(p, 0, Region(page, 0))
  BY ChildForPage, 1 \in 1 .. 3, 1 - 1 = 0
<1>8. Region(page, 0) = page
  BY DEF Region
<1> QED
  BY <1>4, <1>6, <1>7, <1>8

(* The kernel heap's frames are nobody's. *)
LEMMA HeapFrameOwned ==
    ASSUME NEW use, Tree(use, tables, held, Lacking), Roots(use), 0 \notin held,
           NEW page \in KernelHeap, NEW f \in Translate(kernelPML4, page)
    PROVE  f \in held /\ use[f].owner = 0 /\ use[f].region = page
<1>1. page \in KernelPages /\ page \in Pages
  <2>1. KernelHeapStart \in KernelPages /\ KernelHeapPages \in Nat /\ FramebufferPages \in Nat
        /\ FramebufferBase \in KernelPages /\ KernelHeapStart + KernelHeapPages <= FramebufferBase
    BY VirtualMemoryAssumption
  <2>2. KernelHalfStart \in Nat
    BY EntriesFacts DEF KernelHalfStart
  <2>3. Entries * (Entries * Entries * Entries) \in Nat
    BY EntriesFacts
  <2> QED
    BY <2>1, <2>2, <2>3 DEF KernelHeap, KernelPages, Pages
<1>2. kernelPML4 # 0
  <2>1. Has(kernelPML4, Index(page, 4))
    BY TablesBehind
  <2> QED
    BY <2>1 DEF Has, Tree
<1>3. UsedFor(use, held, kernelPML4, Use(0, 4, 0))
  BY <1>2 DEF Roots
<1>4. PICK e : f = e.frame /\ EntryRight(use, held, Lacking, Use(0, 1, Region(page, 1)),
                                         Index(page, 1), e)
  BY <1>1, <1>3, TranslationRight DEF Below
<1>5. Region(page, 1) * Entries + Index(page, 1) = page
  BY <1>1, RegionStep, 1 \in 1 .. 4, 1 - 1 = 0 DEF Region
<1>6. 0 \notin Lacking
  BY DEF Lacking, Processes
<1>7. UsedFor(use, held, f, Child(Use(0, 1, Region(page, 1)), Index(page, 1)))
  BY <1>4, <1>5, <1>6 DEF EntryRight, Use
<1> QED
  BY <1>5, <1>7 DEF UsedFor, Child, Use

(* There are as many pages as frames: each page has one, each frame one.   *)
LEMMA AsManyFrames ==
    ASSUME NEW use, Tree(use, tables, held, Lacking), Roots(use), 0 \notin held,
           pml4 \in [Processes -> Nat], NEW p \in RunningProcesses
    PROVE  Cardinality(UserPages(p)) = Cardinality(UserFrames(p))
<1> DEFINE S == UserPages(p)
           T == UserFrames(p)
           F == [page \in S |-> CHOOSE f : f \in UserTranslate(pml4[p], page)]
<1>1. ASSUME NEW page \in Pages, NEW f \in UserTranslate(pml4[p], page)
      PROVE  use[f].region = page
  <2>1. UsedFor(use, held, f, Use(p, 0, page))
    BY UserPageOwned
  <2> QED
    BY <2>1 DEF UsedFor, Use
<1>2. ASSUME NEW page, NEW f \in UserTranslate(pml4[p], page),
             NEW g \in UserTranslate(pml4[p], page)
      PROVE  f = g
  <2>1. ASSUME NEW a, NEW b, NEW A, NEW level, NEW x \in UserDown(A, page, level),
               NEW y \in UserDown(A, page, level), \A u, v \in A : u = v
        PROVE  x = y
    BY <2>1 DEF UserDown
  <2> QED
    BY <2>1 DEF UserTranslate
<1>3. ASSUME NEW page \in S
      PROVE  F[page] \in UserTranslate(pml4[p], page) /\ page \in Pages
  BY <1>3 DEF UserPages
<1>4. \A page \in S : F[page] \in T
  <2>1. \A page \in Pages : \A f \in UserTranslate(pml4[p], page) : f \in T
    BY DEF UserFrames
  <2> HIDE DEF T, F, S
  <2> QED
    BY <1>3, <2>1
<1>5. ASSUME NEW f \in T
      PROVE  \E page \in S : F[page] = f
  <2>1. PICK page \in Pages : f \in UserTranslate(pml4[p], page)
    BY DEF UserFrames
  <2>2. page \in S
    BY <2>1 DEF UserPages
  <2> QED
    BY <1>2, <1>3, <2>1, <2>2
<1>6. F \in [S -> T] /\ \A a, b \in S : F[a] = F[b] => a = b
  <2>1. F \in [S -> T]
    BY <1>4
  <2> HIDE DEF F, S
  <2> QED
    BY <1>1, <1>3, <2>1
<1>7. F \in Bijection(S, T)
  <2> HIDE DEF F, S, T
  <2> QED
    BY <1>5, <1>6 DEF Bijection, Injection, Surjection, IsInjective
<1>8. IsFiniteSet(S)
  <2>1. IsFiniteSet(Pages)
    BY FS_Interval, EntriesFacts DEF Pages
  <2>2. S \in SUBSET Pages
    BY DEF UserPages
  <2> QED
    BY <2>1, <2>2, FS_Subset
<1> HIDE DEF F, S, T
<1> QED
  BY <1>7, <1>8, FS_Bijection DEF ExistsBijection, S, T

LEMMA InvIsolates == LoaderInv => Isolation
<1> SUFFICES ASSUME LoaderInv, NEW p \in RunningProcesses
             PROVE  /\ UserFrames(p) \subseteq held \ (DOMAIN tables \cup HeapFrames)
                    /\ UserPages(p) \cap KernelPages = {}
                    /\ Cardinality(UserPages(p)) = Cardinality(UserFrames(p))
                    /\ \A q \in RunningProcesses \ {p} : UserFrames(q) \cap UserFrames(p) = {}
  BY Zenon DEF Isolation
<1>1. PICK use : Tree(use, tables, held, Lacking) /\ Roots(use)
  BY DEF LoaderInv, TablesInv
<1>2. 0 \notin held /\ pml4 \in [Processes -> Nat]
  BY DEF LoaderInv, PhysicalInv, OnlyUsableHandedOut, ProcessInv
<1>3. ASSUME NEW q \in RunningProcesses, NEW page \in Pages,
             NEW f \in UserTranslate(pml4[q], page)
      PROVE  page \notin KernelPages /\ f \in held /\ use[f] = Use(q, 0, page)
  BY <1>1, <1>2, UserPageOwned DEF UsedFor
<1>4. ASSUME NEW q \in RunningProcesses, NEW f \in UserFrames(q)
      PROVE  f \in held /\ use[f].owner = q /\ use[f].level = 0
  <2>1. PICK page \in Pages : f \in UserTranslate(pml4[q], page)
    BY DEF UserFrames
  <2>2. f \in held /\ use[f] = Use(q, 0, page)
    BY <1>3, <2>1
  <2> QED
    BY <2>2 DEF Use
<1>5. ASSUME NEW f \in HeapFrames
      PROVE  use[f].owner = 0
  <2>1. f \in UNION {Translate(kernelPML4, page) : page \in KernelHeap}
    BY DEF HeapFrames, KernelHeap
  <2>2. PICK page \in KernelHeap : f \in Translate(kernelPML4, page)
    BY <2>1, Zenon
  <2> QED
    BY <1>1, <1>2, <2>2, HeapFrameOwned
<1>6. \A q \in RunningProcesses : q # 0
  BY DEF RunningProcesses, Processes
<1>7. UserFrames(p) \subseteq held \ (DOMAIN tables \cup HeapFrames)
  BY <1>1, <1>4, <1>5, <1>6 DEF Tree
<1>8. UserPages(p) \cap KernelPages = {}
  BY <1>3 DEF UserPages
<1>9. Cardinality(UserPages(p)) = Cardinality(UserFrames(p))
  BY <1>1, <1>2, AsManyFrames
<1> QED
  BY <1>4, <1>7, <1>8, <1>9

-----------------------------------------------------------------------------
(* Frames.                                                                 *)

Calm == panic = ""

LEMMA MapFacts ==
    ASSUME MapInv
    PROVE  /\ memoryMap \in MemoryMaps /\ memoryMap \in Seq(OSMemoryDescriptor)
           /\ \A i \in DOMAIN memoryMap : End(memoryMap[i]) \in Nat
<1>1. memoryMap \in MemoryMaps /\ memoryMap \in Seq(OSMemoryDescriptor)
  BY PhysicalMemoryAssumption DEF MapInv, MapOK
<1>2. \A i \in DOMAIN memoryMap : memoryMap[i] \in OSMemoryDescriptor
  BY <1>1
<1> QED
  BY <1>1, <1>2 DEF OSMemoryDescriptor, End

(* From the start of a heap there is room for all frames the bitmap has.   *)
LEMMA HeapRoom ==
    ASSUME MapInv
    PROVE  /\ bitmapSize \in Nat /\ BlocksPerByte * bitmapSize \in Nat /\ HeapStart \in Nat
           /\ KernelHalfStart \in Nat
           /\ HeapStart + BlocksPerByte * bitmapSize <= KernelHalfStart
<1>1. PICK total \in Nat : IsTotalPageCount(total, memoryMap) /\ bitmapSize = BytesFor(total)
  BY DEF MapInv
<1>2. bitmapSize \in Nat
  BY <1>1, BytesForType
<1>3. BlocksPerByte \in Nat \ {0}
  BY PhysicalMemoryAssumption
<1>4. BlocksPerByte * bitmapSize \in Nat
  BY <1>2, <1>3
<1>5. KernelHalfStart \in Nat
  BY EntriesFacts DEF KernelHalfStart
<1>6. HeapStart \in Nat /\ HeapStart < KernelHalfStart
  <2>1. HeapStart \in Pages \ KernelPages
    BY LoaderAssumption
  <2>2. Pages \subseteq Nat
    BY EntriesFacts DEF Pages
  <2> QED
    BY <1>5, <2>1, <2>2 DEF KernelPages
<1>7. CASE total = 0
  <2>1. BytesFor(0) = 0
    <3> DEFINE b == BlocksPerByte - 1
    <3>1. b \in 0 .. BlocksPerByte - 1 /\ b = 0 * BlocksPerByte + b /\ b \in Nat
      BY <1>3
    <3>2. b \div BlocksPerByte = 0
      <4> HIDE DEF b
      <4> QED
        BY <1>3, <3>1, QuotientUnique
    <3>3. 0 + BlocksPerByte - 1 = b
      BY <1>3
    <3> QED
      BY <3>2, <3>3 DEF BytesFor
  <2>2. BlocksPerByte * bitmapSize = 0
    BY <1>1, <1>3, <1>7, <2>1
  <2> QED
    BY <1>2, <1>5, <1>6, <2>2
<1>8. CASE total # 0
  <2>1. PICK i \in DOMAIN memoryMap : memoryMap[i].type # "Ignored" /\ total = End(memoryMap[i])
    BY <1>1, <1>8 DEF IsTotalPageCount
  <2>2. memoryMap \in MemoryMaps
    BY MapFacts
  <2>3. HeapStart + BlocksPerByte * BytesFor(End(memoryMap[i])) <= KernelHalfStart
    BY <2>1, <2>2, LoaderAssumption
  <2> QED
    BY <1>1, <1>2, <1>4, <1>5, <1>6, <2>1, <2>3
<1> QED
  BY <1>7, <1>8

LEMMA RoomForFrames ==
    ASSUME MapInv, NEW S \in SUBSET Bits(bitmapSize)
    PROVE  /\ IsFiniteSet(S) /\ Cardinality(S) \in Nat /\ S \subseteq Nat
           /\ HeapStart + Cardinality(S) <= KernelHalfStart
<1>1. S \subseteq 0 .. BlocksPerByte * bitmapSize - 1
  BY DEF Bits
<1>2. BlocksPerByte * bitmapSize \in Nat /\ HeapStart \in Nat /\ KernelHalfStart \in Nat
      /\ HeapStart + BlocksPerByte * bitmapSize <= KernelHalfStart
  BY HeapRoom
<1>3. /\ IsFiniteSet(0 .. BlocksPerByte * bitmapSize - 1)
      /\ Cardinality(0 .. BlocksPerByte * bitmapSize - 1) = BlocksPerByte * bitmapSize
  <2> DEFINE n == BlocksPerByte * bitmapSize
  <2> HIDE DEF n
  <2>1. n \in Nat
    BY <1>2 DEF n
  <2>2. /\ IsFiniteSet(0 .. n - 1)
        /\ Cardinality(0 .. n - 1) = IF 0 > n - 1 THEN 0 ELSE n - 1 - 0 + 1
    BY <2>1, FS_Interval, n - 1 \in Int
  <2>3. Cardinality(0 .. n - 1) = n
    BY <2>1, <2>2
  <2> QED
    BY <2>2, <2>3 DEF n
<1>4. IsFiniteSet(S) /\ Cardinality(S) <= BlocksPerByte * bitmapSize
  BY <1>1, <1>3, FS_Subset
<1>5. Cardinality(S) \in Nat
  BY <1>4, FS_CardinalityType
<1> QED
  BY <1>1, <1>2, <1>4, <1>5

LEMMA HeldFacts ==
    ASSUME PhysicalInv, MapInv
    PROVE  /\ IsFiniteSet(held) /\ Cardinality(held) \in Nat /\ 0 \notin held
           /\ held \subseteq Nat
<1>1. held \subseteq Bits(bitmapSize) /\ 0 \notin held
  BY DEF PhysicalInv, OnlyUsableHandedOut
<1> QED
  BY <1>1, RoomForFrames

(* An allocation takes a fresh frame, of which there are fewer then.       *)
LEMMA FrameAllocated ==
    ASSUME LoaderInv, Calm, UNCHANGED panic,
           NEW f \in FreeFrames, VMPhysicalMemoryAllocatePage(f)
    PROVE  /\ PhysicalInv' /\ MapInv'
           /\ held' = held \cup {f} /\ f \notin held /\ f # 0 /\ f \in Nat
           /\ Cardinality(held') = Cardinality(held) + 1
           /\ Lacking = {}
<1>1. PhysicalInv /\ MapInv
  BY DEF LoaderInv
<1>2. PhysicalInv'
  BY <1>1, StepKeepsInv, Zenon DEF PhysicalNext, Calm
<1>3. UNCHANGED <<memoryMap, bitmapStart, bitmapSize>> /\ held' = held \cup {f}
  BY DEF VMPhysicalMemoryAllocatePage
<1>4. MapInv'
  BY <1>1, <1>3 DEF MapInv
<1>5. f \notin held
  BY <1>1, Zenon DEF PhysicalInv, NoFrameLost, Calm
<1>6. f # 0 /\ f \in Nat
  <2>1. OnlyUsableHandedOut'
    BY <1>2 DEF PhysicalInv
  <2>2. f # 0
    <3>1. f \in held'
      BY <1>3
    <3> QED
      BY <2>1, <3>1, Zenon DEF OnlyUsableHandedOut
  <2>3. f \in Nat
    <3> DEFINE n == BlocksPerByte * bitmapSize
    <3>1. n \in Nat /\ f \in 0 .. n - 1
      BY <1>1, HeapRoom DEF FreeFrames, Bits
    <3> HIDE DEF n
    <3> QED
      BY <3>1
  <2> QED
    BY <2>2, <2>3
<1>7. Cardinality(held') = Cardinality(held) + 1
  BY <1>1, <1>3, <1>5, HeldFacts, FS_AddElement
<1>8. Lacking = {}
  BY DEF Lacking
<1> QED
  BY <1>2, <1>3, <1>4, <1>5, <1>6, <1>7, <1>8

LEMMA FramesUnchanged ==
    ASSUME LoaderInv, Calm, UNCHANGED physical
    PROVE  PhysicalInv' /\ MapInv' /\ held' = held /\ FreeFrames' = FreeFrames
<1>1. PhysicalInv /\ MapInv
  BY DEF LoaderInv
<1>2. UNCHANGED <<memoryMap, bitmapStart, bitmapSize, bitmap, held>>
  BY DEF physical
<1>3. PhysicalInv'
  <2>1. FreeFrames' = FreeFrames /\ Bits(bitmapSize)' = Bits(bitmapSize)
        /\ \A f : Usable(f)' <=> Usable(f)
    BY <1>2 DEF FreeFrames, Usable, Bits
  <2>2. NoFrameLost' /\ FreeUsable'
    BY <1>1, <1>2, <2>1, Zenon DEF PhysicalInv, NoFrameLost, FreeUsable, Calm
  <2>3. OnlyUsableHandedOut'
    BY <1>1, <1>2, <2>1, Zenon DEF PhysicalInv, OnlyUsableHandedOut
  <2> QED
    BY <1>1, <1>2, <2>1, <2>2, <2>3, Zenon DEF PhysicalInv
<1> QED
  BY <1>1, <1>2, <1>3 DEF MapInv, FreeFrames, Bits

-----------------------------------------------------------------------------
(* A page is mapped.                                                       *)

LEMMA RootsKept ==
    ASSUME NEW use, NEW new, Roots(use), UNCHANGED <<kernelPML4, pml4>>,
           held \subseteq held', \A g \in held : new[g] = use[g]
    PROVE  Roots(new)'
  BY DEF Roots, UsedFor

LEMMA RootOfActor ==
    ASSUME NEW use, Roots(use), pc \in Serving => process \in Processes,
           NEW root, root = IF pc \in Serving THEN pml4[process] ELSE kernelPML4, root # 0
    PROVE  UsedFor(use, held, root, Use(Actor, 4, 0))
  BY DEF Roots, Actor

LEMMA ActorType ==
    ASSUME ProcessInv
    PROVE  Actor \in Nat
<1>1. MaxProcessID \in Nat
  BY LoaderAssumption
<1> QED
  BY <1>1 DEF ProcessInv, Actor, Processes

(* A call begins, with a frame for the page. *)
LEMMA MapPageWithFrame ==
    ASSUME LoaderInv, Calm, UNCHANGED panic, walk = NoWalk, pc \in {"heap"} \cup Serving, PageRight,
           NEW f \in FreeFrames, VMPhysicalMemoryAllocatePage(f),
           NEW root, root = IF pc \in Serving THEN pml4[process] ELSE kernelPML4,
           NEW user, user = (pc \in Serving),
           walk' = [level |-> 4, table |-> root, phys |-> f, user |-> user],
           UNCHANGED <<tables, kernelPML4, pc, loop, loader>>
    PROVE  LoaderInv'
<1>1. UNCHANGED <<nextProcessID, process, segment, pml4, heapCurrent, state, image>>
  BY DEF loader
<1>2. /\ PhysicalInv' /\ MapInv'
      /\ held' = held \cup {f} /\ f \notin held
      /\ Cardinality(held') = Cardinality(held) + 1 /\ Lacking = {}
  BY FrameAllocated
<1>3. pc \notin Initializing /\ pc # "pml4"
  BY DEF Initializing, Serving
<1>4. PICK use : Tree(use, tables, held, Lacking) /\ Roots(use)
  BY DEF LoaderInv, TablesInv
<1>5. ProcessInv' /\ LoopInv'
  BY <1>1 DEF LoaderInv, ProcessInv, LoopInv, Serving, Initializing
<1>6. WalkShape'
  BY DEF WalkShape
<1>7. GrowthInv'
  <2>1. Cardinality(held) \in Nat /\ HeapStart \in Nat
    BY HeldFacts, HeapRoom DEF LoaderInv
  <2>2. walk' # NoWalk
    BY DEF NoWalk
  <2>3. GrowthInv /\ LoopInv
    BY DEF LoaderInv
  <2>4. \A p \in Processes : heapCurrent'[p] \in HeapStart .. HeapStart + Cardinality(held')
    BY <1>1, <1>2, <2>1, <2>3 DEF GrowthInv
  <2>5. pc' = "grow" =>
            /\ HeapStart <= loop'.next /\ HeapStart <= loop'.end
            /\ loop'.next + 1 <= HeapStart + Cardinality(held')
    BY <1>2, <2>1, <2>3 DEF GrowthInv, LoopInv
  <2> QED
    BY <2>2, <2>4, <2>5 DEF GrowthInv
<1>8. KernelInv'
  <2>1. kernelPML4 # 0
    BY <1>3 DEF LoaderInv, KernelInv
  <2> QED
    BY <1>3, <2>1 DEF LoaderInv, KernelInv
<1>9. TablesInv'
  <2>a. PICK u : u = Use(Actor, 0, loop.next)
    OBVIOUS
  <2>b. PICK new : new = With(use, f, u)
    OBVIOUS
  <2>1. u \in Uses /\ u.level = 0
    <3>1. Actor \in Nat /\ loop.next \in Nat
      BY ActorType DEF LoaderInv, LoopInv
    <3> QED
      BY <2>a, <3>1 DEF Uses, Use
  <2>2. Tree(new, tables', held', Lacking')
    <3>1. Tree(new, tables, held \cup {f}, Lacking)
      BY <1>2, <1>4, <2>1, <2>b, TreeWithPage
    <3>2. Tree(new, tables, held \cup {f}, Lacking')
      BY <1>2, <3>1, TreeLacking
    <3> QED
      BY <1>2, <3>2
  <2>3. new[f] = u /\ \A g \in held : new[g] = use[g]
    BY <1>2, <1>4, <2>b DEF Tree, With
  <2>4. Roots(new)'
    BY <1>1, <1>2, <1>4, <2>3, RootsKept
  <2>5. Actor' = Actor
    BY <1>1 DEF Actor
  <2>6. WalkRight(new)'
    <3>1. root # 0 => UsedFor(new, held', root, Use(Actor, 4, 0))
      <4>1. root # 0 => UsedFor(use, held, root, Use(Actor, 4, 0))
        BY <1>4, RootOfActor DEF LoaderInv, ProcessInv
      <4> QED
        BY <1>2, <2>3, <4>1 DEF UsedFor
    <3>2. UsedFor(new, held', f, Use(Actor, 0, loop.next))
      BY <1>2, <2>a, <2>3 DEF UsedFor
    <3>3. PageRight'
      BY DEF PageRight
    <3>4. Region(loop.next, 4) = 0
      BY DEF Region
    <3>5. /\ walk'.level = 4 /\ walk'.table = root /\ walk'.phys = f /\ walk'.user = user
          /\ 4 \in 1 .. 4
      OBVIOUS
    <3>6. /\ walk'.level \in 1 .. 4 /\ walk'.user = (pc' \in Serving)
          /\ walk'.table # 0 =>
                UsedFor(new, held', walk'.table,
                        Use(IF walk'.level = 4 THEN Actor' ELSE Below(Actor', loop'.next),
                            walk'.level, Region(loop'.next, walk'.level)))
          /\ UsedFor(new, held', walk'.phys, Use(Actor', 0, loop'.next))
      BY <2>5, <3>1, <3>2, <3>4, <3>5
    <3> QED
      BY <3>3, <3>6 DEF WalkRight
  <2> QED
    BY <2>2, <2>4, <2>6 DEF TablesInv
<1> QED
  BY <1>2, <1>5, <1>6, <1>7, <1>8, <1>9 DEF LoaderInv

(* A call begins without one: while booting, or in HOTLoad.                *)
LEMMA MapPageWithoutFrame ==
    ASSUME LoaderInv, Calm, UNCHANGED panic, walk = NoWalk, PageRight, UNCHANGED physical,
           NEW phys, pc \in Initializing \/ (pc = "segments" /\ phys = 0 /\ FreeFrames = {}),
           NEW root, root = IF pc \in Serving THEN pml4[process] ELSE kernelPML4,
           NEW user, user = (pc \in Serving),
           walk' = [level |-> 4, table |-> root, phys |-> phys, user |-> user],
           UNCHANGED <<tables, kernelPML4, pc, loop, loader>>
    PROVE  LoaderInv'
<1>1. UNCHANGED <<nextProcessID, process, segment, pml4, heapCurrent, state, image>>
  BY DEF loader
<1>2. PhysicalInv' /\ MapInv' /\ held' = held /\ FreeFrames' = FreeFrames
  BY FramesUnchanged
<1>3. pc \in {"segments"} \cup Initializing
  OBVIOUS
<1>4. pc \notin {"pml4", "stack", "heap", "grow"}
  BY <1>3 DEF Initializing
<1>5. PICK use : Tree(use, tables, held, Lacking) /\ Roots(use)
  BY DEF LoaderInv, TablesInv
<1>6. ProcessInv' /\ LoopInv'
  BY <1>1 DEF LoaderInv, ProcessInv, LoopInv, Serving, Initializing
<1>7. WalkShape'
  BY DEF WalkShape
<1>8. GrowthInv'
  BY <1>1, <1>2, <1>4 DEF LoaderInv, GrowthInv
<1>9. KernelInv'
  BY <1>2, <1>4 DEF LoaderInv, KernelInv
<1>10. TablesInv'
  <2>1. Actor' = Actor
    BY <1>1 DEF Actor
  <2>2. Lacking \subseteq Lacking'
    BY <1>1, <1>2, <1>4 DEF Lacking
  <2>3. Tree(use, tables', held', Lacking')
    <3>1. Tree(use, tables, held, Lacking')
      BY <1>5, <2>2, TreeLacking
    <3> QED
      BY <1>2, <3>1
  <2>4. Roots(use)'
    BY <1>1, <1>2, <1>5, RootsKept
  <2>5. WalkRight(use)'
    <3>1. root # 0 => UsedFor(use, held', root, Use(Actor, 4, 0))
      BY <1>2, <1>5, RootOfActor DEF LoaderInv, ProcessInv
    <3>2. PageRight'
      BY DEF PageRight
    <3>3. Region(loop.next, 4) = 0
      BY DEF Region
    <3>4. /\ walk'.level = 4 /\ walk'.table = root /\ walk'.phys = phys /\ walk'.user = user
          /\ 4 \in 1 .. 4
      OBVIOUS
    <3>5. /\ walk'.level \in 1 .. 4 /\ walk'.user = (pc' \in Serving)
          /\ walk'.table # 0 =>
                UsedFor(use, held', walk'.table,
                        Use(IF walk'.level = 4 THEN Actor' ELSE Below(Actor', loop'.next),
                            walk'.level, Region(loop'.next, walk'.level)))
      BY <2>1, <3>1, <3>3, <3>4
    <3>6. pc' \notin Initializing => walk'.phys = 0 /\ pc' = "segments" /\ FreeFrames' = {}
      BY <1>2, <3>4
    <3> QED
      BY <3>2, <3>5, <3>6 DEF WalkRight
  <2> QED
    BY <2>3, <2>4, <2>5 DEF TablesInv
<1> QED
  BY <1>2, <1>6, <1>7, <1>8, <1>9, <1>10 DEF LoaderInv

(* A step of a walk leaves alone what is not about tables.                 *)
LEMMA WalkKeepsRest ==
    ASSUME LoaderInv, Calm, UNCHANGED panic, walk # NoWalk,
           UNCHANGED physical \/ \E f \in FreeFrames : VMPhysicalMemoryAllocatePage(f),
           \/ UNCHANGED loop
           \/ loop' = [loop EXCEPT !.next = @ + 1] /\ walk' = NoWalk,
           UNCHANGED <<kernelPML4, pc, loader>>
    PROVE  /\ PhysicalInv' /\ MapInv' /\ ProcessInv' /\ LoopInv' /\ GrowthInv' /\ KernelInv'
           /\ Lacking \subseteq Lacking'
<1>1. UNCHANGED <<nextProcessID, process, segment, pml4, heapCurrent, state, image>>
  BY DEF loader
<1>2. /\ PhysicalInv' /\ MapInv'
      /\ Cardinality(held') = Cardinality(held) \/ Cardinality(held') = Cardinality(held) + 1
      /\ Lacking = {} \/ FreeFrames' = FreeFrames
      /\ FreeFrames = {} => FreeFrames' = {}
  <2>1. CASE UNCHANGED physical
    BY <2>1, FramesUnchanged
  <2>2. CASE \E f \in FreeFrames : VMPhysicalMemoryAllocatePage(f)
    BY <2>2, FrameAllocated
  <2> QED
    BY <2>1, <2>2
<1>3. ProcessInv'
  BY <1>1 DEF LoaderInv, ProcessInv, Serving
<1>4. /\ loop'.next \in Nat /\ loop'.end = loop.end /\ loop' = Span(loop'.next, loop'.end)
      /\ loop'.next = loop.next \/ (loop'.next = loop.next + 1 /\ walk' = NoWalk)
  <2>1. loop = [next |-> loop.next, end |-> loop.end] /\ loop.next \in Nat
    BY DEF LoaderInv, LoopInv, Span
  <2>2. CASE UNCHANGED loop
    BY <2>1, <2>2 DEF Span
  <2>3. CASE loop' = [loop EXCEPT !.next = @ + 1] /\ walk' = NoWalk
    <3>1. loop' = [next |-> loop.next + 1, end |-> loop.end]
      BY <2>1, <2>3
    <3> QED
      BY <2>1, <2>3, <3>1 DEF Span
  <2> QED
    BY <2>2, <2>3
<1>5. LoopInv'
  <2>1. LoopInv
    BY DEF LoaderInv
  <2>2. \A page \in loop'.next .. loop'.end - 1 : page \in loop.next .. loop.end - 1
    BY <1>4, <2>1 DEF LoopInv
  <2>3. UserStackBottom \in Nat /\ KernelHeapStart \in Nat
    <3>1. KernelHeapStart \in Pages /\ Pages \subseteq Nat /\ UserStackBottom \in Nat
      BY VirtualMemoryAssumption, EntriesFacts DEF Pages, KernelPages
    <3> QED
      BY <3>1
  <2> QED
    BY <1>4, <2>1, <2>2, <2>3 DEF LoopInv
<1>6. GrowthInv'
  <2>1. Cardinality(held) \in Nat /\ HeapStart \in Nat
    BY HeldFacts, HeapRoom DEF LoaderInv
  <2>2. GrowthInv /\ LoopInv
    BY DEF LoaderInv
  <2>3. \A p \in Processes : heapCurrent'[p] \in HeapStart .. HeapStart + Cardinality(held')
    BY <1>1, <1>2, <2>1, <2>2 DEF GrowthInv
  <2>4. ASSUME pc' = "grow"
        PROVE  /\ HeapStart <= loop'.next /\ HeapStart <= loop'.end
               /\ loop'.next + (IF walk' = NoWalk THEN 0 ELSE 1) <= HeapStart + Cardinality(held')
    <3>1. /\ HeapStart <= loop.next /\ HeapStart <= loop.end
          /\ loop.next + 1 <= HeapStart + Cardinality(held)
      BY <2>2, <2>4 DEF GrowthInv
    <3> QED
      BY <1>2, <1>4, <2>1, <2>2, <3>1 DEF LoopInv
  <2> QED
    BY <2>3, <2>4 DEF GrowthInv
<1>7. KernelInv'
  <2>1. pc # "pml4"
    BY DEF LoaderInv, KernelInv
  <2> QED
    BY <1>2, <2>1 DEF LoaderInv, KernelInv
<1>8. Lacking \subseteq Lacking'
  BY <1>1, <1>2 DEF Lacking
<1> QED
  BY <1>2, <1>3, <1>5, <1>6, <1>7, <1>8

-----------------------------------------------------------------------------
(* The walk down the tables.                                               *)

(* What the table a walk is at is for. *)
WalkUse(level) ==
    Use(IF level = 4 THEN Actor ELSE Below(Actor, loop.next), level, Region(loop.next, level))

LEMMA WalkChild ==
    ASSUME loop.next \in Pages, NEW level \in 2 .. 4
    PROVE  Child(WalkUse(level), Index(loop.next, level)) = WalkUse(level - 1)
<1>1. CASE level = 4
  <2>1. WalkUse(4) = Use(Actor, 4, Region(loop.next, 4))
        /\ WalkUse(3) = Use(Below(Actor, loop.next), 3, Region(loop.next, 3))
    BY DEF WalkUse
  <2>2. Child(Use(Actor, 4, Region(loop.next, 4)), Index(loop.next, 4)) =
            Use(Below(Actor, loop.next), 3, Region(loop.next, 3))
    BY ChildForPage
  <2>3. 4 - 1 = 3
    OBVIOUS
  <2> QED
    BY <1>1, <2>1, <2>2, <2>3
<1>2. CASE level # 4
  <2>1. level \in 1 .. 3 /\ level - 1 # 4
    BY <1>2
  <2>2. WalkUse(level) = Use(Below(Actor, loop.next), level, Region(loop.next, level))
        /\ WalkUse(level - 1) = Use(Below(Actor, loop.next), level - 1, Region(loop.next, level - 1))
    BY <2>1 DEF WalkUse
  <2>3. Child(Use(Below(Actor, loop.next), level, Region(loop.next, level)), Index(loop.next, level)) =
            Use(Below(Actor, loop.next), level - 1, Region(loop.next, level - 1))
    BY <2>1, ChildForPage
  <2> QED
    BY <2>2, <2>3
<1> QED
  BY <1>1, <1>2

(* What the invariant says of a walk under way. *)
LEMMA WalkFacts ==
    ASSUME LoaderInv, walk # NoWalk, NEW use, Tree(use, tables, held, Lacking), WalkRight(use)
    PROVE  /\ walk.level \in 1 .. 4 /\ walk.user = (pc \in Serving) /\ PageRight
           /\ walk.table # 0 => UsedFor(use, held, walk.table, WalkUse(walk.level))
           /\ 0 \notin DOMAIN tables
           /\ Index(loop.next, 4) \in KernelHalf => walk.user = FALSE
<1>1. /\ walk.level \in 1 .. 4 /\ walk.user = (pc \in Serving) /\ PageRight
      /\ walk.table # 0 => UsedFor(use, held, walk.table, WalkUse(walk.level))
  BY DEF WalkRight, WalkUse
<1>2. 0 \notin DOMAIN tables
  BY HeldFacts DEF LoaderInv, Tree
<1>3. Index(loop.next, 4) \in KernelHalf => walk.user = FALSE
  <2>1. loop.next \in Pages /\ (pc \in Serving => loop.next \notin KernelPages)
    BY <1>1 DEF PageRight
  <2>2. loop.next \in KernelPages <=> Index(loop.next, 4) \in KernelHalf
    BY <2>1, HalfByIndex
  <2>3. walk.user = (pc \in Serving)
    BY <1>1
  <2>4. ASSUME Index(loop.next, 4) \in KernelHalf
        PROVE  walk.user = FALSE
    <3>1. ~(pc \in Serving)
      BY <2>1, <2>2, <2>4
    <3>2. (pc \in Serving) = FALSE
      BY <3>1
    <3> QED
      BY <2>3, <3>2
  <2> QED
    BY <2>4
<1> QED
  BY <1>1, <1>2, <1>3, Zenon

(* A walk that goes on is right at the next level. *)
LEMMA WalkGoesOn ==
    ASSUME NEW use, NEW new, WalkRight(use), walk # NoWalk, walk.level \in 2 .. 4,
           held \subseteq held', \A g \in held : new[g] = use[g],
           NEW f, f # 0, UsedFor(new, held', f, WalkUse(walk.level - 1)),
           walk' = [level |-> walk.level - 1, table |-> f, phys |-> walk.phys, user |-> walk.user],
           FreeFrames = {} => FreeFrames' = {},
           UNCHANGED <<pc, loop, process>>
    PROVE  WalkRight(new)'
<1>1. Actor' = Actor /\ PageRight' = PageRight
  BY DEF Actor, PageRight
<1>2. /\ walk.user = (pc \in Serving) /\ PageRight
      /\ pc \notin Initializing =>
             \/ UsedFor(use, held, walk.phys, Use(Actor, 0, loop.next))
             \/ walk.phys = 0 /\ pc = "segments" /\ FreeFrames = {}
  BY DEF WalkRight
<1>3. UsedFor(use, held, walk.phys, Use(Actor, 0, loop.next)) =>
          UsedFor(new, held', walk.phys, Use(Actor, 0, loop.next))
  BY DEF UsedFor
<1>4. /\ walk'.level = walk.level - 1 /\ walk'.table = f /\ walk'.phys = walk.phys
      /\ walk'.user = walk.user /\ walk.level - 1 \in 1 .. 4
  OBVIOUS
<1>5. UsedFor(new, held', walk'.table,
              Use(IF walk'.level = 4 THEN Actor' ELSE Below(Actor', loop'.next),
                  walk'.level, Region(loop'.next, walk'.level)))
  BY <1>1, <1>4 DEF WalkUse
<1>6. /\ walk'.level \in 1 .. 4 /\ walk'.user = (pc' \in Serving) /\ PageRight'
      /\ pc' \notin Initializing =>
             \/ UsedFor(new, held', walk'.phys, Use(Actor', 0, loop'.next))
             \/ walk'.phys = 0 /\ pc' = "segments" /\ FreeFrames' = {}
  BY <1>1, <1>2, <1>3, <1>4
<1> QED
  BY <1>5, <1>6 DEF WalkRight

LEMMA WalkPresentStep ==
    ASSUME LoaderInv, Calm, Walking, WalkPresent, UNCHANGED loader
    PROVE  LoaderInv'
<1>1. PICK use : Tree(use, tables, held, Lacking) /\ Roots(use) /\ WalkRight(use)
  BY DEF LoaderInv, TablesInv
<1>2. /\ walk.level > 1 /\ Has(walk.table, Slot)
      /\ UNCHANGED <<physical, kernelPML4, pc, loop, panic>>
  BY Zenon DEF WalkPresent, Walking
<1>3. PICK e : e = tables[walk.table][Slot]
  OBVIOUS
<1>4. /\ tables' = [tables EXCEPT ![walk.table] = Put(@, Slot, Entry(e.frame, e.user \/ walk.user))]
      /\ walk' = [walk EXCEPT !.level = @ - 1, !.table = e.frame]
  BY <1>3, Zenon DEF WalkPresent
<1>5. walk # NoWalk
  BY <1>2 DEF NoWalk
<1>6. /\ walk.level \in 2 .. 4 /\ walk.user = (pc \in Serving) /\ PageRight
      /\ UsedFor(use, held, walk.table, WalkUse(walk.level))
      /\ walk.table \in DOMAIN tables /\ Slot \in DOMAIN tables[walk.table]
      /\ Index(loop.next, 4) \in KernelHalf => walk.user = FALSE
  <2>1. walk.table \in DOMAIN tables /\ Slot \in DOMAIN tables[walk.table]
    BY <1>2 DEF Has
  <2>2. /\ walk.level \in 1 .. 4 /\ walk.user = (pc \in Serving) /\ PageRight
        /\ walk.table # 0 => UsedFor(use, held, walk.table, WalkUse(walk.level))
        /\ 0 \notin DOMAIN tables
        /\ Index(loop.next, 4) \in KernelHalf => walk.user = FALSE
    BY <1>1, <1>5, WalkFacts, Zenon
  <2>3. walk.level \in 2 .. 4
    BY <1>2, <2>2
  <2>4. walk.table # 0
    BY <2>1, <2>2
  <2> QED
    BY <2>1, <2>2, <2>3, <2>4, Zenon
<1>7. walk' = [level |-> walk.level - 1, table |-> e.frame, phys |-> walk.phys, user |-> walk.user]
  <2>1. walk = [level |-> walk.level, table |-> walk.table, phys |-> walk.phys, user |-> walk.user]
    BY DEF LoaderInv, WalkShape
  <2> QED
    BY <1>4, <2>1
<1>8. UNCHANGED physical /\ UNCHANGED <<process, pml4>> /\ UNCHANGED <<kernelPML4, pc, loader>>
  BY <1>2 DEF loader
<1>9. /\ PhysicalInv' /\ MapInv' /\ ProcessInv' /\ LoopInv' /\ GrowthInv' /\ KernelInv'
      /\ Lacking \subseteq Lacking'
  BY <1>2, <1>5, <1>8, WalkKeepsRest
<1>10. held' = held /\ FreeFrames' = FreeFrames
  BY <1>8, FramesUnchanged
<1>11. use[walk.table].level = walk.level
  BY <1>6 DEF UsedFor, WalkUse, Use
<1>12. EntryRight(use, held, Lacking, use[walk.table], Slot, e)
  BY <1>1, <1>3, <1>6 DEF Tree
<1>13. UsedFor(use, held, e.frame, WalkUse(walk.level - 1))
  <2>1. UsedFor(use, held, e.frame, Child(use[walk.table], Slot))
    BY <1>6, <1>11, <1>12 DEF EntryRight
  <2>2. Child(WalkUse(walk.level), Index(loop.next, walk.level)) = WalkUse(walk.level - 1)
    BY <1>6, WalkChild DEF PageRight
  <2> QED
    BY <1>6, <2>1, <2>2 DEF UsedFor, Slot
<1>14. TablesInv'
  <2>1. EntryRight(use, held, Lacking, use[walk.table], Slot, Entry(e.frame, e.user \/ walk.user))
    <3>1. Entry(e.frame, e.user \/ walk.user).frame = e.frame
          /\ Entry(e.frame, e.user \/ walk.user).user = (e.user \/ walk.user)
      BY DEF Entry
    <3>2. UsedFor(use, held, e.frame, Child(use[walk.table], Slot))
      BY <1>6, <1>11, <1>12 DEF EntryRight
    <3>3. use[walk.table].level = 4 /\ Slot \in KernelHalf => (e.user \/ walk.user) = FALSE
      <4>1. SUFFICES ASSUME use[walk.table].level = 4, Slot \in KernelHalf
                     PROVE  (e.user \/ walk.user) = FALSE
        BY Zenon
      <4>2. e.user = FALSE
        BY <1>12, <4>1 DEF EntryRight
      <4>3. walk.user = FALSE
        BY <1>6, <1>11, <4>1 DEF Slot
      <4> QED
        BY <4>2, <4>3
    <3> QED
      BY <3>1, <3>2, <3>3 DEF EntryRight
  <2>2. Tree(use, tables', held', Lacking')
    <3>1. Tree(use, tables', held, Lacking)
      BY <1>1, <1>4, <1>6, <2>1, TreeWithEntry
    <3>2. Tree(use, tables', held, Lacking')
      BY <1>9, <3>1, TreeLacking
    <3> QED
      BY <1>10, <3>2
  <2>3. Roots(use)'
    BY <1>1, <1>8, <1>10, RootsKept
  <2>4. e.frame # 0
    BY <1>13, HeldFacts DEF UsedFor, LoaderInv
  <2>5. WalkRight(use)'
    BY <1>1, <1>2, <1>5, <1>6, <1>7, <1>8, <1>10, <1>13, <2>4, WalkGoesOn
  <2> QED
    BY <2>2, <2>3, <2>5 DEF TablesInv
<1>15. WalkShape'
  BY <1>6, <1>7 DEF WalkShape
<1> QED
  BY <1>9, <1>14, <1>15 DEF LoaderInv

LEMMA WalkUseType ==
    ASSUME ProcessInv, loop.next \in Pages, NEW level \in 1 .. 4
    PROVE  WalkUse(level) \in Uses /\ WalkUse(level).level = level
<1>1. Actor \in Nat /\ Below(Actor, loop.next) \in Nat
  BY ActorType DEF Below
<1>2. Region(loop.next, level) \in Nat
  BY RegionStep
<1> QED
  BY <1>1, <1>2 DEF WalkUse, Uses, Use

LEMMA WalkAllocateStep ==
    ASSUME LoaderInv, Calm, Walking, WalkAllocate, UNCHANGED loader
    PROVE  LoaderInv'
<1>1. PICK use : Tree(use, tables, held, Lacking) /\ Roots(use) /\ WalkRight(use)
  BY DEF LoaderInv, TablesInv
<1>2. /\ walk.level > 1 /\ ~Has(walk.table, Slot)
      /\ UNCHANGED <<kernelPML4, pc, loop, panic>>
  BY Zenon DEF WalkAllocate, Walking
<1>3. PICK f \in FreeFrames :
          /\ VMPhysicalMemoryAllocatePage(f)
          /\ tables' = [t \in DOMAIN tables \cup {f} |->
                          IF t = f THEN Empty
                          ELSE IF t = walk.table THEN Put(tables[t], Slot, Entry(f, walk.user))
                          ELSE tables[t]]
          /\ walk' = [walk EXCEPT !.level = @ - 1, !.table = f]
  BY Zenon DEF WalkAllocate
<1>4. walk # NoWalk
  BY <1>2 DEF NoWalk
<1>5. /\ walk.level \in 1 .. 4 /\ walk.user = (pc \in Serving) /\ PageRight
      /\ walk.table # 0 => UsedFor(use, held, walk.table, WalkUse(walk.level))
      /\ 0 \notin DOMAIN tables
      /\ Index(loop.next, 4) \in KernelHalf => walk.user = FALSE
  BY <1>1, <1>4, WalkFacts, Zenon
<1>6. walk.level \in 2 .. 4 /\ walk.level - 1 \in 1 .. 4 /\ loop.next \in Pages
  BY <1>2, <1>5 DEF PageRight
<1>7. walk' = [level |-> walk.level - 1, table |-> f, phys |-> walk.phys, user |-> walk.user]
  <2>1. walk = [level |-> walk.level, table |-> walk.table, phys |-> walk.phys, user |-> walk.user]
    BY DEF LoaderInv, WalkShape
  <2> QED
    BY <1>3, <2>1
<1>8. UNCHANGED <<process, pml4>>
  BY DEF loader
<1>9. /\ PhysicalInv' /\ MapInv' /\ ProcessInv' /\ LoopInv' /\ GrowthInv' /\ KernelInv'
      /\ Lacking \subseteq Lacking'
  BY <1>2, <1>3, <1>4, WalkKeepsRest
<1>10. held' = held \cup {f} /\ f \notin held /\ f # 0 /\ FreeFrames # {}
  BY <1>2, <1>3, FrameAllocated
<1>11. PICK u : u = WalkUse(walk.level - 1)
  OBVIOUS
<1>12. PICK new : new = With(use, f, u)
  OBVIOUS
<1>13. u \in Uses /\ u.level > 0
  BY <1>6, <1>11, WalkUseType DEF LoaderInv
<1>14. new[f] = u /\ \A g \in held : new[g] = use[g]
  BY <1>1, <1>10, <1>12 DEF With, Tree
<1>15. PICK mid : mid = [t \in DOMAIN tables \cup {f} |-> IF t = f THEN Empty ELSE tables[t]]
  OBVIOUS
<1>16. Tree(new, mid, held', Lacking)
  <2>1. \A i \in DOMAIN Empty :
            EntryRight(With(use, f, u), held \cup {f}, Lacking, u, i, Empty[i])
    BY DEF Empty
  <2>2. Tree(With(use, f, u), [t \in DOMAIN tables \cup {f} |-> IF t = f THEN Empty ELSE tables[t]],
             held \cup {f}, Lacking)
    BY <1>1, <1>10, <1>13, <2>1, TreeWithTable
  <2> QED
    BY <1>10, <1>12, <1>15, <2>2
<1>17. Tree(new, tables', held', Lacking)
  <2>1. CASE walk.table \in DOMAIN tables
    <3>1. walk.table # 0 /\ walk.table # f /\ walk.table \in DOMAIN mid
          /\ UsedFor(use, held, walk.table, WalkUse(walk.level))
      BY <1>1, <1>5, <1>10, <1>15, <2>1 DEF Tree
    <3>2. new[walk.table] = WalkUse(walk.level)
      BY <1>14, <3>1 DEF UsedFor
    <3>3. EntryRight(new, held', Lacking, new[walk.table], Slot, Entry(f, walk.user))
      <4>1. Entry(f, walk.user).frame = f /\ Entry(f, walk.user).user = walk.user
        BY DEF Entry
      <4>2. Child(WalkUse(walk.level), Index(loop.next, walk.level)) = u
        BY <1>6, <1>11, WalkChild
      <4>3. UsedFor(new, held', f, Child(new[walk.table], Slot))
        BY <1>10, <1>14, <3>2, <4>2 DEF UsedFor, Slot
      <4>4. WalkUse(walk.level).level = walk.level
        BY DEF WalkUse, Use
      <4>5. new[walk.table].level = 4 /\ Slot \in KernelHalf => walk.user = FALSE
        <5>1. ASSUME new[walk.table].level = 4, Slot \in KernelHalf
              PROVE  Index(loop.next, 4) \in KernelHalf
          BY <3>2, <4>4, <5>1 DEF Slot
        <5> QED
          BY <1>5, <5>1, Zenon
      <4> QED
        BY <4>1, <4>3, <4>5, Zenon DEF EntryRight
    <3>4. Tree(new, [mid EXCEPT ![walk.table] = Put(@, Slot, Entry(f, walk.user))], held', Lacking)
      BY <1>16, <3>1, <3>3, TreeWithEntry
    <3>5. tables' = [mid EXCEPT ![walk.table] = Put(@, Slot, Entry(f, walk.user))]
      BY <1>3, <1>15, <3>1
    <3> QED
      BY <3>4, <3>5
  <2>2. CASE walk.table \notin DOMAIN tables
    <3>1. tables' = mid
      BY <1>3, <1>15, <2>2
    <3> QED
      BY <1>16, <3>1
  <2> QED
    BY <2>1, <2>2
<1>18. TablesInv'
  <2>1. Tree(new, tables', held', Lacking')
    BY <1>9, <1>17, TreeLacking
  <2>2. Roots(new)'
    BY <1>1, <1>2, <1>8, <1>10, <1>14, RootsKept
  <2>3. UsedFor(new, held', f, WalkUse(walk.level - 1))
    BY <1>10, <1>11, <1>14 DEF UsedFor
  <2>4. WalkRight(new)'
    BY <1>1, <1>2, <1>4, <1>6, <1>7, <1>8, <1>10, <1>14, <2>3, WalkGoesOn
  <2> QED
    BY <2>1, <2>2, <2>4 DEF TablesInv
<1>19. WalkShape'
  BY <1>6, <1>7 DEF WalkShape
<1> QED
  BY <1>9, <1>18, <1>19 DEF LoaderInv

LEMMA WalkOutOfMemoryStep ==
    ASSUME LoaderInv, Calm, Walking, WalkOutOfMemory, UNCHANGED loader
    PROVE  LoaderInv'
<1>1. PICK use : Tree(use, tables, held, Lacking) /\ Roots(use) /\ WalkRight(use)
  BY DEF LoaderInv, TablesInv
<1>2. /\ UNCHANGED physical /\ UNCHANGED <<tables, kernelPML4, pc, panic>>
      /\ walk' = NoWalk /\ loop' = [loop EXCEPT !.next = @ + 1]
  BY Zenon DEF WalkOutOfMemory, OutOfMemory, MapPageReturns
<1>3. walk # NoWalk
  <2>1. walk.level > 1
    BY Zenon DEF Walking
  <2> QED
    BY <2>1 DEF NoWalk
<1>4. /\ PhysicalInv' /\ MapInv' /\ ProcessInv' /\ LoopInv' /\ GrowthInv' /\ KernelInv'
      /\ Lacking \subseteq Lacking'
  BY <1>2, <1>3, WalkKeepsRest
<1>5. held' = held
  BY <1>2, FramesUnchanged
<1>6. TablesInv'
  <2>1. Tree(use, tables', held', Lacking')
    <3>1. Tree(use, tables, held, Lacking')
      BY <1>1, <1>4, TreeLacking
    <3> QED
      BY <1>2, <1>5, <3>1
  <2>2. Roots(use)'
    <3>1. UNCHANGED <<kernelPML4, pml4>>
      BY <1>2 DEF loader
    <3> QED
      BY <1>1, <1>5, <3>1, RootsKept
  <2> QED
    BY <1>2, <2>1, <2>2 DEF TablesInv, WalkRight, NoWalk
<1>7. WalkShape'
  BY <1>2 DEF WalkShape, NoWalk
<1> QED
  BY <1>4, <1>6, <1>7 DEF LoaderInv

LEMMA TreeUntouched ==
    ASSUME NEW use, NEW tb, NEW hd, NEW lack, Tree(use, tb, hd, lack),
           NEW t, t \notin DOMAIN tb, NEW table
    PROVE  Tree(use, [tb EXCEPT ![t] = table], hd, lack)
  BY DEF Tree

(* What a walk may write at its end. *)
LEMMA LeafRight ==
    ASSUME LoaderInv, walk.level = 1,
           NEW use, Tree(use, tables, held, Lacking), WalkRight(use), walk.table # 0
    PROVE  EntryRight(use, held, Lacking, use[walk.table], Slot, Entry(walk.phys, walk.user))
<1>1. walk # NoWalk
  BY DEF NoWalk
<1>2. /\ PageRight /\ UsedFor(use, held, walk.table, WalkUse(walk.level))
      /\ pc \notin Initializing =>
             \/ UsedFor(use, held, walk.phys, Use(Actor, 0, loop.next))
             \/ walk.phys = 0 /\ pc = "segments" /\ FreeFrames = {}
  BY <1>1, WalkFacts DEF WalkRight
<1>3. PICK u : u = use[walk.table]
  OBVIOUS
<1>4. u = Use(Below(Actor, loop.next), 1, Region(loop.next, 1))
  BY <1>2, <1>3 DEF UsedFor, WalkUse
<1>5. u.level = 1 /\ u.owner = Below(Actor, loop.next) /\ u.region = Region(loop.next, 1)
  BY <1>4 DEF Use
<1>6. Below(Actor, loop.next) = Actor
  BY <1>2 DEF PageRight, Below, Actor
<1>7. u.region * Entries + Slot = loop.next
  <2>1. loop.next \in Pages /\ 1 \in 1 .. 4 /\ 1 - 1 = 0
    BY <1>2 DEF PageRight
  <2>2. Region(loop.next, 0) = Region(loop.next, 1) * Entries + Index(loop.next, 1)
    BY <2>1, RegionStep
  <2>3. Region(loop.next, 0) = loop.next
    BY DEF Region
  <2> QED
    BY <1>5, <2>2, <2>3 DEF Slot
<1>8. Entry(walk.phys, walk.user).frame = walk.phys
  BY DEF Entry
<1>9. CASE pc \in Initializing
  <2>1. Actor = 0
    BY <1>9 DEF Actor, Initializing, Serving
  <2>2. loop.next \notin KernelHeap
    BY <1>2, <1>9 DEF PageRight
  <2> QED
    BY <1>3, <1>5, <1>6, <1>7, <2>1, <2>2 DEF EntryRight
<1>10. CASE UsedFor(use, held, walk.phys, Use(Actor, 0, loop.next))
  <2>1. Child(u, Slot) = Use(Actor, 0, loop.next)
    BY <1>5, <1>6, <1>7 DEF Child
  <2>2. u.level # 4
    BY <1>5
  <2> QED
    BY <1>3, <1>8, <1>10, <2>1, <2>2 DEF EntryRight
<1>11. CASE walk.phys = 0 /\ pc = "segments" /\ FreeFrames = {}
  <2>1. Actor = process /\ process \in Processes /\ state[process] # "running"
    BY <1>11 DEF Actor, Serving, LoaderInv, ProcessInv
  <2>2. Actor \in Lacking
    BY <1>11, <2>1 DEF Lacking
  <2>3. u.level # 4
    BY <1>5
  <2> QED
    BY <1>3, <1>5, <1>6, <1>8, <1>11, <2>2, <2>3 DEF EntryRight
<1> QED
  BY <1>2, <1>9, <1>10, <1>11

LEMMA WalkLeafStep ==
    ASSUME LoaderInv, Calm, WalkLeaf, UNCHANGED loader
    PROVE  LoaderInv'
<1>1. PICK use : Tree(use, tables, held, Lacking) /\ Roots(use) /\ WalkRight(use)
  BY DEF LoaderInv, TablesInv
<1>2. /\ walk.level = 1
      /\ tables' = [tables EXCEPT ![walk.table] = Put(@, Slot, Entry(walk.phys, walk.user))]
      /\ UNCHANGED physical /\ UNCHANGED <<kernelPML4, pc, panic>>
      /\ walk' = NoWalk /\ loop' = [loop EXCEPT !.next = @ + 1]
  BY Zenon DEF WalkLeaf, MapPageReturns
<1>3. walk # NoWalk
  BY <1>2 DEF NoWalk
<1>4. /\ PhysicalInv' /\ MapInv' /\ ProcessInv' /\ LoopInv' /\ GrowthInv' /\ KernelInv'
      /\ Lacking \subseteq Lacking'
  BY <1>2, <1>3, WalkKeepsRest
<1>5. held' = held
  BY <1>2, FramesUnchanged
<1>6. TablesInv'
  <2>1. Tree(use, tables', held, Lacking)
    <3>1. CASE walk.table \in DOMAIN tables
      <4>1. walk.table # 0
        BY <3>1, <1>1, HeldFacts DEF LoaderInv, Tree
      <4> QED
        BY <1>1, <1>2, <3>1, <4>1, LeafRight, TreeWithEntry
    <3>2. CASE walk.table \notin DOMAIN tables
      BY <1>1, <1>2, <3>2, TreeUntouched
    <3> QED
      BY <3>1, <3>2
  <2>2. Tree(use, tables', held', Lacking')
    <3>1. Tree(use, tables', held, Lacking')
      BY <1>4, <2>1, TreeLacking
    <3> QED
      BY <1>5, <3>1
  <2>3. Roots(use)'
    <3>1. UNCHANGED <<kernelPML4, pml4>>
      BY <1>2 DEF loader
    <3> QED
      BY <1>1, <1>5, <3>1, RootsKept
  <2> QED
    BY <1>2, <2>2, <2>3 DEF TablesInv, WalkRight, NoWalk
<1>7. WalkShape'
  BY <1>2 DEF WalkShape, NoWalk
<1> QED
  BY <1>4, <1>6, <1>7 DEF LoaderInv

-----------------------------------------------------------------------------
(* Steps that change no table.                                             *)

LEMMA QuietStep ==
    ASSUME LoaderInv, Calm, UNCHANGED physical, UNCHANGED <<tables, kernelPML4, pml4>>,
           walk' = NoWalk, Lacking \subseteq Lacking'
    PROVE  /\ PhysicalInv' /\ MapInv' /\ WalkShape' /\ TablesInv'
           /\ held' = held /\ FreeFrames' = FreeFrames
<1>1. PICK use : Tree(use, tables, held, Lacking) /\ Roots(use)
  BY DEF LoaderInv, TablesInv
<1>2. PhysicalInv' /\ MapInv' /\ held' = held /\ FreeFrames' = FreeFrames
  BY FramesUnchanged
<1>3. Tree(use, tables', held', Lacking')
  <2>1. Tree(use, tables, held, Lacking')
    BY <1>1, TreeLacking
  <2> QED
    BY <1>2, <2>1
<1>4. Roots(use)'
  BY <1>1, <1>2, RootsKept
<1>5. TablesInv'
  BY <1>3, <1>4 DEF TablesInv, WalkRight, NoWalk
<1>6. WalkShape'
  BY DEF WalkShape, NoWalk
<1> QED
  BY <1>2, <1>5, <1>6

(* What the constants of the layout are. *)
LEMMA LayoutFacts ==
    /\ Pages \subseteq Nat /\ KernelHalfStart \in Nat
    /\ KernelFirst \in Nat /\ KernelEnd \in Nat /\ HhdmBase \in Nat /\ KernelBase \in Nat
    /\ KernelHeapStart \in Nat /\ KernelHeapPages \in Nat \ {0}
    /\ FramebufferBase \in Nat /\ FramebufferPages \in Nat
    /\ UserStackBottom \in Nat /\ UserStackTop \in Nat /\ UserStackBottom < UserStackTop
    /\ KernelBase + KernelEnd <= KernelHeapStart
    /\ KernelHeapStart + KernelHeapPages <= FramebufferBase
    /\ \A page \in Nat : page < FramebufferBase + FramebufferPages => page \in Pages
    /\ \A page \in Nat : page < KernelHalfStart => page \in Pages \ KernelPages
<1> DEFINE all == Entries * (Entries * Entries * Entries)
<1>1. all \in Nat /\ KernelHalfStart \in Nat
  BY EntriesFacts DEF KernelHalfStart
<1>2. Pages = 0 .. all - 1
  BY DEF Pages
<1> HIDE DEF all
<1>3. Pages \subseteq Nat
  BY <1>1, <1>2
<1>4. /\ KernelFirst \in Nat /\ KernelEnd \in Nat
      /\ HhdmBase \in Pages /\ KernelBase \in Pages /\ KernelHeapStart \in Pages
      /\ FramebufferBase \in Pages
      /\ KernelHeapPages \in Nat \ {0} /\ FramebufferPages \in Nat
      /\ UserStackBottom \in Nat /\ UserStackTop \in Nat /\ UserStackBottom < UserStackTop
      /\ KernelBase + KernelEnd <= KernelHeapStart
      /\ KernelHeapStart + KernelHeapPages <= FramebufferBase
      /\ FramebufferBase + FramebufferPages <= all
  BY VirtualMemoryAssumption DEF KernelPages, all
<1>5. KernelHalfStart <= all
  <2> DEFINE e == Entries
             e3 == Entries * Entries * Entries
             half == Entries \div 2
  <2>1. e \in Nat /\ e3 \in Nat /\ half \in Nat /\ half <= e
    BY EntriesFacts
  <2> HIDE DEF e, e3, half
  <2>2. half * e3 <= e * e3
    BY <2>1, TimesMonotone
  <2> QED
    BY <2>2 DEF KernelHalfStart, all, e, e3, half
<1>6. \A page \in Nat : page < FramebufferBase + FramebufferPages => page \in Pages
  BY <1>1, <1>2, <1>3, <1>4
<1>7. \A page \in Nat : page < KernelHalfStart => page \in Pages \ KernelPages
  BY <1>1, <1>2, <1>5 DEF KernelPages
<1> QED
  BY <1>1, <1>3, <1>4, <1>6, <1>7

-----------------------------------------------------------------------------
(* The boot.                                                               *)

LEMMA InitializePageStep ==
    ASSUME LoaderInv, Calm, InitializePage, UNCHANGED loader
    PROVE  LoaderInv'
<1>1. /\ walk = NoWalk /\ pc \in Initializing /\ ~AtEnd
      /\ walk' = [level |-> 4, table |-> kernelPML4, phys |-> PhysicalOf(loop.next), user |-> FALSE]
      /\ UNCHANGED physical /\ UNCHANGED <<tables, kernelPML4, pc, loop, panic>>
  BY Zenon DEF InitializePage, Running, VMVirtualMemoryMapPage, Initializing
<1>2. pc \notin Serving
  BY <1>1 DEF Initializing, Serving
<1>3. PageRight
  <2>1. loop.next \in loop.next .. loop.end - 1
    BY <1>1 DEF LoaderInv, LoopInv, AtEnd
  <2> QED
    BY <1>1, <1>2, <2>1 DEF LoaderInv, LoopInv, PageRight
<1>4. (pc \in Serving) = FALSE
  BY <1>2
<1>5. kernelPML4 = IF pc \in Serving THEN pml4[process] ELSE kernelPML4
  BY <1>2
<1> QED
  BY <1>1, <1>3, <1>4, <1>5, MapPageWithoutFrame

LEMMA InitializeNextStep ==
    ASSUME LoaderInv, Calm, InitializeNext, UNCHANGED loader
    PROVE  LoaderInv'
<1>1. /\ walk = NoWalk /\ AtEnd
      /\ \/ /\ pc = "hhdm" /\ pc' = "kernel"
            /\ loop' = Span(KernelBase + KernelFirst, KernelBase + KernelEnd)
         \/ /\ pc = "kernel" /\ pc' = "framebuffer"
            /\ loop' = Span(FramebufferBase, FramebufferBase + FramebufferPages)
      /\ UNCHANGED physical /\ UNCHANGED <<tables, kernelPML4, walk, panic>>
  BY Zenon DEF InitializeNext, Running
<1>2. UNCHANGED <<nextProcessID, process, segment, pml4, heapCurrent, state, image>>
  BY DEF loader
<1>3. /\ PhysicalInv' /\ MapInv' /\ WalkShape' /\ TablesInv'
      /\ held' = held /\ FreeFrames' = FreeFrames
  <2>1. FreeFrames' = FreeFrames
    BY <1>1, FramesUnchanged
  <2>2. Lacking \subseteq Lacking'
    BY <1>1, <1>2, <2>1 DEF Lacking
  <2> QED
    BY <1>1, <1>2, <2>2, QuietStep
<1>4. LoopInv'
  <2>1. CASE pc = "hhdm"
    <3>1. pc' = "kernel" /\ loop'.next = KernelBase + KernelFirst
          /\ loop'.end = KernelBase + KernelEnd /\ loop' = Span(loop'.next, loop'.end)
      BY <1>1, <2>1 DEF Span
    <3>2. loop'.next \in Nat /\ loop'.end \in Nat
      BY <3>1, LayoutFacts
    <3>3. \A page \in loop'.next .. loop'.end - 1 : page \in Pages /\ page \notin KernelHeap
      BY <3>1, <3>2, LayoutFacts DEF KernelHeap
    <3> QED
      BY <3>1, <3>2, <3>3 DEF LoopInv
  <2>2. CASE pc = "kernel"
    <3>1. pc' = "framebuffer" /\ loop'.next = FramebufferBase
          /\ loop'.end = FramebufferBase + FramebufferPages /\ loop' = Span(loop'.next, loop'.end)
      BY <1>1, <2>2 DEF Span
    <3>2. loop'.next \in Nat /\ loop'.end \in Nat
      BY <3>1, LayoutFacts
    <3>3. \A page \in loop'.next .. loop'.end - 1 : page \in Pages /\ page \notin KernelHeap
      BY <3>1, <3>2, LayoutFacts DEF KernelHeap
    <3> QED
      BY <3>1, <3>2, <3>3 DEF LoopInv
  <2> QED
    BY <1>1, <2>1, <2>2
<1>5. ProcessInv'
  BY <1>1, <1>2 DEF LoaderInv, ProcessInv, Serving
<1>6. GrowthInv'
  BY <1>1, <1>2, <1>3 DEF LoaderInv, GrowthInv
<1>7. KernelInv'
  BY <1>1, <1>3 DEF LoaderInv, KernelInv, Initializing
<1> QED
  BY <1>3, <1>4, <1>5, <1>6, <1>7 DEF LoaderInv

(* All of physical memory fits between the bases of its map and of the     *)
(* kernel.                                                                 *)
LEMMA MemoryFits ==
    ASSUME MapInv
    PROVE  /\ TotalPageCount \in Nat
           /\ TotalPageCount = 0 \/ HhdmBase + TotalPageCount <= KernelBase
<1>1. PICK total \in Nat : IsTotalPageCount(total, memoryMap) /\ bitmapSize = BytesFor(total)
  BY DEF MapInv
<1>2. BlocksPerByte \in Nat \ {0} /\ bitmapSize \in Nat /\ BlocksPerByte * bitmapSize \in Nat
  BY HeapRoom, PhysicalMemoryAssumption
<1>3. total <= BlocksPerByte * bitmapSize
  <2> DEFINE b == BlocksPerByte
             n == total + b - 1
             q == n \div b
             r == n % b
  <2>1. n \in Nat /\ b \in Nat \ {0}
    BY <1>2
  <2>2. q \in Nat /\ r \in 0 .. b - 1 /\ n = q * b + r
    BY <2>1, DivisionRemainder
  <2>3. q = bitmapSize
    BY <1>1 DEF BytesFor
  <2> HIDE DEF q, r
  <2>4. q * b \in Nat /\ q * b = b * q
    BY <2>1, <2>2
  <2>5. total <= b * q
    BY <2>1, <2>2, <2>4
  <2> QED
    BY <2>3, <2>5
<1>4. PICK n : n = TotalPageCount
  OBVIOUS
<1>5. n \in 0 .. BlocksPerByte * bitmapSize /\ IsTotalPageCount(n, memoryMap)
  <2>1. total \in 0 .. BlocksPerByte * bitmapSize
    BY <1>2, <1>3
  <2>2. \E m \in 0 .. BlocksPerByte * bitmapSize : IsTotalPageCount(m, memoryMap)
    BY <1>1, <2>1
  <2> QED
    BY <1>4, <2>2, Zenon DEF TotalPageCount
<1>6. n # 0 => HhdmBase + n <= KernelBase
  <2>1. SUFFICES ASSUME n # 0
                 PROVE  HhdmBase + n <= KernelBase
    OBVIOUS
  <2>2. PICK i \in DOMAIN memoryMap : memoryMap[i].type # "Ignored" /\ n = End(memoryMap[i])
    BY <1>5, <2>1 DEF IsTotalPageCount
  <2>3. memoryMap \in MemoryMaps
    BY MapFacts
  <2> QED
    BY <2>2, <2>3, VirtualMemoryAssumption
<1> QED
  BY <1>2, <1>4, <1>5, <1>6

LEMMA InitializePML4Step ==
    ASSUME LoaderInv, Calm, InitializePML4, UNCHANGED loader
    PROVE  LoaderInv'
<1>1. /\ walk = NoWalk /\ pc = "pml4" /\ pc' = "hhdm"
      /\ loop' = Span(HhdmBase, HhdmBase + TotalPageCount)
      /\ UNCHANGED <<walk, panic>>
  BY Zenon DEF InitializePML4, Running
<1>2. UNCHANGED <<nextProcessID, process, segment, pml4, heapCurrent, state, image>>
  BY DEF loader
<1>3. LoopInv'
  <2>1. loop'.next = HhdmBase /\ loop'.end = HhdmBase + TotalPageCount
        /\ loop' = Span(loop'.next, loop'.end)
    BY <1>1 DEF Span
  <2>2. TotalPageCount \in Nat
        /\ (TotalPageCount = 0 \/ HhdmBase + TotalPageCount <= KernelBase)
    BY MemoryFits DEF LoaderInv
  <2>3. loop'.next \in Nat /\ loop'.end \in Nat
    BY <2>1, <2>2, LayoutFacts
  <2>4. \A page \in loop'.next .. loop'.end - 1 : page \in Pages /\ page \notin KernelHeap
    BY <2>1, <2>2, <2>3, LayoutFacts DEF KernelHeap
  <2> QED
    BY <1>1, <2>1, <2>3, <2>4 DEF LoopInv
<1>4. ProcessInv'
  BY <1>1, <1>2 DEF LoaderInv, ProcessInv, Serving
<1>5. WalkShape'
  BY <1>1 DEF WalkShape, NoWalk
<1>6. CASE OutOfMemory /\ UNCHANGED <<kernelPML4, tables>>
  <2>1. UNCHANGED physical /\ FreeFrames = {}
    BY <1>6 DEF OutOfMemory
  <2>2. FreeFrames' = FreeFrames
    BY <2>1, FramesUnchanged
  <2>3. Lacking \subseteq Lacking'
    BY <1>1, <1>2, <2>2 DEF Lacking
  <2>4. /\ PhysicalInv' /\ MapInv' /\ WalkShape' /\ TablesInv'
        /\ held' = held /\ FreeFrames' = FreeFrames
    BY <1>1, <1>2, <1>6, <2>1, <2>3, QuietStep
  <2>5. GrowthInv'
    BY <1>1, <1>2, <2>4 DEF LoaderInv, GrowthInv
  <2>6. KernelInv'
    BY <1>1, <2>1, <2>2 DEF KernelInv, Initializing
  <2> QED
    BY <1>3, <1>4, <2>4, <2>5, <2>6 DEF LoaderInv
<1>7. ASSUME NEW f \in FreeFrames, VMPhysicalMemoryAllocatePage(f),
             kernelPML4' = f, tables' = [t \in {f} |-> Empty]
      PROVE  LoaderInv'
  <2>1. /\ PhysicalInv' /\ MapInv'
        /\ held' = held \cup {f} /\ f \notin held /\ f # 0 /\ f \in Nat
        /\ Cardinality(held') = Cardinality(held) + 1 /\ Lacking = {}
    BY <1>1, <1>7, FrameAllocated
  <2>2. PICK use : Tree(use, tables, held, Lacking) /\ Roots(use)
    BY DEF LoaderInv, TablesInv
  <2>3. DOMAIN tables = {}
    BY <1>1 DEF LoaderInv, KernelInv
  <2>4. PICK u : u = Use(0, 4, 0)
    OBVIOUS
  <2>5. u \in Uses /\ u.level > 0
    BY <2>4 DEF Use, Uses
  <2>6. PICK new : new = With(use, f, u)
    OBVIOUS
  <2>7. new[f] = u /\ \A g \in held : new[g] = use[g]
    BY <2>1, <2>2, <2>6 DEF With, Tree
  <2>8. Tree(new, tables', held', Lacking')
    <3>1. \A i \in DOMAIN Empty :
              EntryRight(With(use, f, u), held \cup {f}, Lacking, u, i, Empty[i])
      BY DEF Empty
    <3>2. Tree(With(use, f, u), [t \in DOMAIN tables \cup {f} |-> IF t = f THEN Empty ELSE tables[t]],
               held \cup {f}, Lacking)
      <4>1. f \notin held /\ Tree(use, tables, held, Lacking)
        BY <2>1, <2>2
      <4> QED
        BY <2>5, <3>1, <4>1, TreeWithTable
    <3>3. tables' = [t \in DOMAIN tables \cup {f} |-> IF t = f THEN Empty ELSE tables[t]]
      BY <1>7, <2>3
    <3>4. Tree(new, tables', held', Lacking)
      BY <2>1, <2>6, <3>2, <3>3
    <3> QED
      BY <2>1, <3>4, TreeLacking
  <2>9. Roots(new)'
    <3>1. UsedFor(new, held', kernelPML4', Use(0, 4, 0))
      BY <1>7, <2>1, <2>4, <2>7 DEF UsedFor
    <3>2. \A p \in Processes : pml4'[p] # 0 => UsedFor(new, held', pml4'[p], Use(p, 4, 0))
      BY <1>2, <2>1, <2>2, <2>7 DEF Roots, UsedFor
    <3> QED
      BY <3>1, <3>2 DEF Roots
  <2>10. TablesInv'
    BY <1>1, <2>8, <2>9 DEF TablesInv, WalkRight, NoWalk
  <2>11. GrowthInv'
    <3>1. Cardinality(held) \in Nat /\ HeapStart \in Nat
      BY HeldFacts, HeapRoom DEF LoaderInv
    <3> QED
      BY <1>1, <1>2, <2>1, <3>1 DEF LoaderInv, GrowthInv
  <2>12. KernelInv'
    BY <1>1, <1>7, <2>1 DEF KernelInv, Initializing
  <2> QED
    BY <1>3, <1>4, <1>5, <2>1, <2>10, <2>11, <2>12 DEF LoaderInv
<1> QED
  BY <1>6, <1>7, Zenon DEF InitializePML4

LEMMA InitializeDoneStep ==
    ASSUME LoaderInv, Calm, InitializeDone, UNCHANGED loader
    PROVE  LoaderInv'
<1>1. /\ walk = NoWalk /\ pc = "framebuffer" /\ pc' = "heap"
      /\ loop' = Span(KernelHeapStart, KernelHeapStart + KernelHeapPages)
      /\ UNCHANGED physical /\ UNCHANGED <<kernelPML4, walk, panic>>
  BY Zenon DEF InitializeDone, Running
<1>2. UNCHANGED <<nextProcessID, process, segment, pml4, heapCurrent, state, image>>
  BY DEF loader
<1>3. PICK use : Tree(use, tables, held, Lacking) /\ Roots(use)
  BY DEF LoaderInv, TablesInv
<1>4. PhysicalInv' /\ MapInv' /\ held' = held /\ FreeFrames' = FreeFrames
  BY <1>1, FramesUnchanged
<1>5. TablesInv'
  <2>1. Lacking \subseteq Lacking'
    BY <1>1, <1>2, <1>4 DEF Lacking
  <2>2. Tree(use, tables', held, Lacking)
    <3>1. VMVirtualMemoryUnmapPage(kernelPML4, GuardPage)
      BY Zenon DEF InitializeDone
    <3>2. /\ DOMAIN tables' = DOMAIN tables
          /\ \A t \in DOMAIN tables : \A i \in DOMAIN tables'[t] :
                 i \in DOMAIN tables[t] /\ tables'[t][i] = tables[t][i]
      BY <3>1 DEF VMVirtualMemoryUnmapPage
    <3> QED
      BY <1>3, <3>2, TreeWithout
  <2>3. Tree(use, tables', held', Lacking')
    <3>1. Tree(use, tables', held, Lacking')
      BY <2>1, <2>2, TreeLacking
    <3> QED
      BY <1>4, <3>1
  <2>4. Roots(use)'
    BY <1>1, <1>2, <1>3, <1>4, RootsKept
  <2> QED
    BY <1>1, <2>3, <2>4 DEF TablesInv, WalkRight, NoWalk
<1>6. LoopInv'
  <2>1. loop'.next = KernelHeapStart /\ loop'.end = KernelHeapStart + KernelHeapPages
        /\ loop' = Span(loop'.next, loop'.end)
    BY <1>1 DEF Span
  <2>2. loop'.next \in Nat /\ loop'.end \in Nat
    BY <2>1, LayoutFacts
  <2>3. KernelHeapStart <= loop'.next
    BY <2>1, LayoutFacts
  <2> QED
    BY <1>1, <2>1, <2>2, <2>3 DEF LoopInv, Initializing
<1>7. ProcessInv'
  BY <1>1, <1>2 DEF LoaderInv, ProcessInv, Serving
<1>8. WalkShape'
  BY <1>1 DEF WalkShape, NoWalk
<1>9. GrowthInv'
  BY <1>1, <1>2, <1>4 DEF LoaderInv, GrowthInv
<1>10. KernelInv'
  <2>1. loop'.next = KernelHeapStart
    BY <1>1 DEF Span
  <2> QED
    BY <1>1, <1>4, <2>1 DEF LoaderInv, KernelInv, Initializing
<1> QED
  BY <1>4, <1>5, <1>6, <1>7, <1>8, <1>9, <1>10 DEF LoaderInv

LEMMA HeapPageStep ==
    ASSUME LoaderInv, Calm, HeapPage, UNCHANGED loader
    PROVE  LoaderInv'
<1>1. /\ walk = NoWalk /\ pc = "heap" /\ ~AtEnd
      /\ UNCHANGED <<tables, kernelPML4, pc, loop>>
  BY Zenon DEF HeapPage, Running
<1>2. UNCHANGED <<nextProcessID, process, segment, pml4, heapCurrent, state, image>>
  BY DEF loader
<1>3. pc \notin Serving /\ pc \notin Initializing
  BY <1>1 DEF Serving, Initializing
<1>4. CASE OutOfMemory /\ UNCHANGED walk
  <2>1. UNCHANGED physical
    BY <1>4 DEF OutOfMemory
  <2>2. FreeFrames' = FreeFrames
    BY <2>1, FramesUnchanged
  <2>3. Lacking \subseteq Lacking'
    BY <1>1, <1>2, <2>2 DEF Lacking
  <2>4. /\ PhysicalInv' /\ MapInv' /\ WalkShape' /\ TablesInv'
        /\ held' = held /\ FreeFrames' = FreeFrames
    BY <1>1, <1>2, <1>4, <2>1, <2>3, QuietStep
  <2>5. LoopInv' /\ ProcessInv'
    BY <1>1, <1>2, <1>3 DEF LoaderInv, LoopInv, ProcessInv
  <2>6. GrowthInv' /\ KernelInv'
    BY <1>1, <1>2, <1>4, <2>4 DEF LoaderInv, GrowthInv, KernelInv
  <2> QED
    BY <2>4, <2>5, <2>6 DEF LoaderInv
<1>5. ASSUME NEW f \in FreeFrames, VMPhysicalMemoryAllocatePage(f),
             VMVirtualMemoryMapPage(kernelPML4, f, FALSE), UNCHANGED panic
      PROVE  LoaderInv'
  <2>1. PageRight
    <3>1. loop.next \in Nat /\ loop.end \in Nat /\ loop.next < loop.end
          /\ loop.end = KernelHeapStart + KernelHeapPages
      BY <1>1 DEF LoaderInv, LoopInv, AtEnd
    <3>2. loop.next < FramebufferBase + FramebufferPages
      BY <3>1, LayoutFacts
    <3>3. loop.next \in Pages
      BY <3>1, <3>2, LayoutFacts
    <3> QED
      BY <1>3, <3>3 DEF PageRight
  <2>2. (pc \in Serving) = FALSE /\ pc \in {"heap"} \cup Serving
    BY <1>1, <1>3
  <2>3. kernelPML4 = IF pc \in Serving THEN pml4[process] ELSE kernelPML4
    BY <1>3
  <2>4. walk' = [level |-> 4, table |-> kernelPML4, phys |-> f, user |-> FALSE]
    BY <1>5 DEF VMVirtualMemoryMapPage
  <2> QED
    BY <1>1, <1>5, <2>1, <2>2, <2>3, <2>4, MapPageWithFrame
<1> QED
  BY <1>4, <1>5, Zenon DEF HeapPage

LEMMA HeapDoneStep ==
    ASSUME LoaderInv, Calm, HeapDone, UNCHANGED loader
    PROVE  LoaderInv'
<1>1. /\ walk = NoWalk /\ pc = "heap" /\ pc' = "ready" /\ AtEnd
      /\ UNCHANGED physical /\ UNCHANGED <<tables, kernelPML4, loop, walk, panic>>
  BY Zenon DEF HeapDone, Running
<1>2. UNCHANGED <<nextProcessID, process, segment, pml4, heapCurrent, state, image>>
  BY DEF loader
<1>3. /\ PhysicalInv' /\ MapInv' /\ WalkShape' /\ TablesInv'
      /\ held' = held /\ FreeFrames' = FreeFrames
  <2>1. FreeFrames' = FreeFrames
    BY <1>1, FramesUnchanged
  <2>2. Lacking \subseteq Lacking'
    BY <1>1, <1>2, <2>1 DEF Lacking
  <2> QED
    BY <1>1, <1>2, <2>2, QuietStep
<1>4. LoopInv' /\ ProcessInv'
  BY <1>1, <1>2 DEF LoaderInv, LoopInv, ProcessInv, Serving, Initializing
<1>5. GrowthInv'
  BY <1>1, <1>2, <1>3 DEF LoaderInv, GrowthInv
<1>6. KernelInv'
  <2>1. loop.next # KernelHeapStart
    <3>1. loop.next >= KernelHeapStart + KernelHeapPages /\ loop.next \in Nat
      BY <1>1 DEF LoaderInv, LoopInv, AtEnd
    <3> QED
      BY <3>1, LayoutFacts
  <2>2. kernelPML4 # 0
    BY <1>1, <2>1 DEF LoaderInv, KernelInv
  <2> QED
    BY <1>1, <2>2 DEF KernelInv
<1> QED
  BY <1>3, <1>4, <1>5, <1>6 DEF LoaderInv

-----------------------------------------------------------------------------
(* The loader.                                                             *)

LEMMA SpawnStep ==
    ASSUME LoaderInv, Calm, OSLoaderProcessSpawn
    PROVE  LoaderInv'
<1> DEFINE p == nextProcessID
<1>1. /\ walk = NoWalk /\ pc = "ready" /\ p <= MaxProcessID
      /\ nextProcessID' = p + 1 /\ process' = p
      /\ UNCHANGED <<kernelPML4, walk, panic, heapCurrent, image, granted>>
  BY Zenon DEF OSLoaderProcessSpawn, Running
<1>2. p \in Processes /\ p \in Nat \ {0}
  BY <1>1, LoaderAssumption DEF LoaderInv, ProcessInv, Processes
<1>3. \/ LoadBegins(p) /\ state' = [state EXCEPT ![p] = "loading"]
      \/ state' = [state EXCEPT ![p] = "failed"] /\ UNCHANGED <<pc, loop, segment>>
  BY Zenon DEF OSLoaderProcessSpawn
<1> HIDE DEF p
<1>4. /\ pc' \in {"segments", "stack", "ready"} /\ LoopInv'
      /\ pc' = "segments" => segment' \in Nat \ {0}
      /\ pc' = "stack" => loop'.next = UserStackBottom
  <2>1. CASE UNCHANGED <<pc, loop, segment>>
    BY <1>1, <2>1 DEF LoaderInv, LoopInv
  <2>2. CASE LoadBegins(p)
    <3>1. CASE pc' = "segments" /\ segment' = 1 /\ loop' = Span(0, 0)
      <4>1. loop'.next = 0 /\ loop'.end = 0 /\ loop' = Span(loop'.next, loop'.end)
        BY <3>1 DEF Span
      <4> QED
        BY <3>1, <4>1 DEF LoopInv, Initializing
    <3>2. CASE pc' = "stack" /\ loop' = Span(UserStackBottom, UserStackTop)
      <4>1. loop'.next = UserStackBottom /\ loop'.end = UserStackTop
            /\ loop' = Span(loop'.next, loop'.end)
        BY <3>2 DEF Span
      <4> QED
        BY <3>2, <4>1, LayoutFacts DEF LoopInv, Initializing
    <3> QED
      BY <2>2, <3>1, <3>2 DEF LoadBegins
  <2> QED
    BY <1>3, <2>1, <2>2
<1>5. /\ state' \in [Processes -> States] /\ state'[p] # "running"
      /\ \A q \in Processes : state'[q] = "running" => state[q] = "running"
  <2>1. state \in [Processes -> States]
    BY DEF LoaderInv, ProcessInv
  <2>2. PICK s \in {"loading", "failed"} : state' = [state EXCEPT ![p] = s]
    BY <1>3, Zenon
  <2>3. s \in States /\ s # "running"
    BY <2>2 DEF States
  <2>4. state' \in [Processes -> States]
    BY <2>1, <2>2, <2>3
  <2>5. \A q \in Processes : state'[q] = IF q = p THEN s ELSE state[q]
    BY <2>1, <2>2
  <2>6. state'[p] = s
    BY <1>2, <2>5
  <2> QED
    BY <2>3, <2>4, <2>5, <2>6
<1>6. kernelPML4 # 0 /\ KernelInv'
  <2>1. kernelPML4 # 0
    BY <1>1 DEF LoaderInv, KernelInv, Initializing
  <2> QED
    BY <1>1, <1>4, <2>1 DEF KernelInv, Serving
<1>7. WalkShape'
  BY <1>1 DEF WalkShape, NoWalk
<1>8. ASSUME pml4' \in [Processes -> Nat]
      PROVE  ProcessInv'
  BY <1>1, <1>2, <1>4, <1>5, <1>8 DEF LoaderInv, ProcessInv, Serving
<1>9. CASE OutOfMemory /\ UNCHANGED <<tables, pml4>>
  <2>1. UNCHANGED physical
    BY <1>9 DEF OutOfMemory
  <2>2. FreeFrames' = FreeFrames
    BY <2>1, FramesUnchanged
  <2>3. Lacking \subseteq Lacking'
    <3>1. ASSUME NEW q \in Lacking
          PROVE  q \in Lacking'
      BY <1>1, <1>4, <1>5, <2>2, <3>1 DEF Lacking
    <3> QED
      BY <3>1
  <2>4. /\ PhysicalInv' /\ MapInv' /\ WalkShape' /\ TablesInv'
        /\ held' = held /\ FreeFrames' = FreeFrames
    BY <1>1, <1>9, <2>1, <2>3, QuietStep
  <2>5. GrowthInv'
    BY <1>1, <1>4, <2>4 DEF LoaderInv, GrowthInv
  <2>6. ProcessInv'
    BY <1>8, <1>9 DEF LoaderInv, ProcessInv
  <2> QED
    BY <1>4, <1>6, <2>4, <2>5, <2>6 DEF LoaderInv
<1>10. ASSUME NEW f \in FreeFrames, VMPhysicalMemoryAllocatePage(f),
              tables' = WithAddressSpace(f), pml4' = [pml4 EXCEPT ![p] = f]
       PROVE  LoaderInv'
  <2>1. /\ PhysicalInv' /\ MapInv'
        /\ held' = held \cup {f} /\ f \notin held /\ f # 0 /\ f \in Nat
        /\ Cardinality(held') = Cardinality(held) + 1 /\ Lacking = {}
    BY <1>1, <1>10, FrameAllocated
  <2>2. PICK use : Tree(use, tables, held, Lacking) /\ Roots(use)
    BY DEF LoaderInv, TablesInv
  <2>3. PICK u : u = Use(p, 4, 0)
    OBVIOUS
  <2>4. u \in Uses /\ u.level = 4 /\ u.owner = p /\ u.region = 0
    BY <1>2, <2>3 DEF Use, Uses
  <2>5. PICK new : new = With(use, f, u)
    OBVIOUS
  <2>6. new[f] = u /\ \A g \in held : new[g] = use[g]
    BY <2>1, <2>2, <2>5 DEF With, Tree
  <2>7. PICK copy : copy = [i \in DOMAIN tables[kernelPML4] \cap KernelHalf |->
                               tables[kernelPML4][i]]
    OBVIOUS
  <2>8. ASSUME NEW i \in DOMAIN copy
        PROVE  EntryRight(With(use, f, u), held \cup {f}, Lacking, u, i, copy[i])
    <3>1. i \in DOMAIN tables[kernelPML4] /\ i \in KernelHalf /\ copy[i] = tables[kernelPML4][i]
      BY <2>7, <2>8
    <3>2. PICK k : k = use[kernelPML4]
      OBVIOUS
    <3>3. k = Use(0, 4, 0) /\ kernelPML4 \in held
      BY <1>6, <2>2, <3>2 DEF Roots, UsedFor
    <3>4. k.level = 4 /\ k.owner = 0 /\ k.region = 0
      BY <3>3 DEF Use
    <3>5. kernelPML4 \in DOMAIN tables
      <4>1. DOMAIN tables = {g \in held : use[g].level > 0}
        BY <2>2 DEF Tree
      <4>2. use[kernelPML4].level > 0
        BY <3>2, <3>4
      <4>3. kernelPML4 \in held
        BY <3>3
      <4> QED
        BY <4>1, <4>2, <4>3
    <3>6. EntryRight(use, held, Lacking, k, i, copy[i])
      BY <2>2, <3>1, <3>2, <3>5 DEF Tree
    <3>7. copy[i].user = FALSE /\ UsedFor(use, held, copy[i].frame, Child(k, i))
      BY <3>1, <3>4, <3>6 DEF EntryRight
    <3>8. Child(u, i) = Child(k, i)
      BY <2>4, <3>1, <3>4 DEF Child
    <3>9. EntryRight(use, held, Lacking, u, i, copy[i])
      BY <2>4, <3>7, <3>8 DEF EntryRight
    <3> QED
      <4>1. use \in [held -> Uses] /\ f \notin held
        BY <2>1, <2>2 DEF Tree
      <4> QED
        BY <3>9, <4>1, EntryStays
  <2>9. Tree(new, tables', held', Lacking')
    <3>1. f \notin held /\ Tree(use, tables, held, Lacking) /\ u.level > 0 /\ u \in Uses
      BY <2>1, <2>2, <2>4
    <3>2. Tree(With(use, f, u), [t \in DOMAIN tables \cup {f} |-> IF t = f THEN copy ELSE tables[t]],
               held \cup {f}, Lacking)
      BY <2>8, <3>1, TreeWithTable
    <3>3. tables' = [t \in DOMAIN tables \cup {f} |-> IF t = f THEN copy ELSE tables[t]]
      BY <1>10, <2>7 DEF WithAddressSpace
    <3>4. Tree(new, tables', held', Lacking)
      BY <2>1, <2>5, <3>2, <3>3
    <3> QED
      BY <2>1, <3>4, TreeLacking
  <2>10. Roots(new)'
    <3>1. kernelPML4' # 0 => UsedFor(new, held', kernelPML4', Use(0, 4, 0))
      BY <1>1, <2>1, <2>2, <2>6 DEF Roots, UsedFor
    <3>2. ASSUME NEW q \in Processes, pml4'[q] # 0
          PROVE  UsedFor(new, held', pml4'[q], Use(q, 4, 0))
      <4>1. pml4'[q] = IF q = p THEN f ELSE pml4[q]
        BY <1>2, <1>10 DEF LoaderInv, ProcessInv
      <4>2. CASE q = p
        BY <2>1, <2>3, <2>6, <4>1, <4>2 DEF UsedFor
      <4>3. CASE q # p
        BY <2>1, <2>2, <2>6, <3>2, <4>1, <4>3 DEF Roots, UsedFor
      <4> QED
        BY <4>2, <4>3
    <3> QED
      BY <3>1, <3>2 DEF Roots
  <2>11. TablesInv'
    BY <1>1, <2>9, <2>10 DEF TablesInv, WalkRight, NoWalk
  <2>12. GrowthInv'
    <3>1. Cardinality(held) \in Nat /\ HeapStart \in Nat
      BY HeldFacts, HeapRoom DEF LoaderInv
    <3> QED
      BY <1>1, <1>4, <2>1, <3>1 DEF LoaderInv, GrowthInv
  <2>13. ProcessInv'
    <3>1. pml4' \in [Processes -> Nat]
      BY <1>10, <2>1 DEF LoaderInv, ProcessInv
    <3> QED
      BY <1>8, <3>1
  <2> QED
    BY <1>4, <1>6, <1>7, <2>1, <2>11, <2>12, <2>13 DEF LoaderInv
<1> QED
  BY <1>9, <1>10, Zenon DEF OSLoaderProcessSpawn, p

(* A program's pages lie in the lower half. *)
LEMMA SegmentPages ==
    ASSUME NEW s, s.vaddr \in Nat, s.memsz \in Nat,
           s.vaddr + s.memsz <= KernelHalfStart * PageSize
    PROVE  /\ PagesOf(s).next \in Nat /\ PagesOf(s).end \in Nat
           /\ PagesOf(s).end <= KernelHalfStart
           /\ PagesOf(s) = Span(PagesOf(s).next, PagesOf(s).end)
<1> DEFINE d == PageSize
           h == KernelHalfStart
           m == s.vaddr + s.memsz
           n == m + d - 1
           q == n \div d
           r == n % d
<1>1. d \in Nat \ {0} /\ h \in Nat /\ m \in Nat /\ m <= h * d /\ h * d \in Nat /\ n \in Nat
  BY LayoutFacts, PhysicalMemoryAssumption
<1>2. q \in Nat /\ r \in 0 .. d - 1 /\ n = q * d + r
  BY <1>1, DivisionRemainder
<1>3. s.vaddr \div d \in Nat
  BY <1>1
<1>4. s.vaddr + s.memsz + PageSize - 1 = n
  OBVIOUS
<1>5. PagesOf(s).next = s.vaddr \div d /\ PagesOf(s).end = q
      /\ PagesOf(s) = Span(s.vaddr \div d, q)
  BY <1>4 DEF PagesOf, Span
<1>6. q <= h
  <2> HIDE DEF q, r, h, m, d
  <2>1. SUFFICES ASSUME h + 1 <= q
                 PROVE  FALSE
    BY <1>1, <1>2
  <2>2. (h + 1) * d <= q * d
    BY <1>1, <1>2, <2>1, TimesMonotone, h + 1 \in Nat
  <2>3. (h + 1) * d = h * d + d /\ q * d \in Nat
    BY <1>1, <1>2
  <2> QED
    BY <1>1, <1>2, <2>2, <2>3
<1> QED
  BY <1>2, <1>3, <1>5, <1>6

LEMMA SegmentStep ==
    ASSUME LoaderInv, Calm, HOTLoadSegment
    PROVE  LoaderInv'
<1>1. /\ walk = NoWalk /\ pc = "segments" /\ segment <= Len(Segments)
      /\ loop' = IF Segments[segment].memsz = 0 THEN Span(0, 0) ELSE PagesOf(Segments[segment])
      /\ segment' = segment + 1
      /\ UNCHANGED physical
      /\ UNCHANGED <<panic, tables, kernelPML4, pc, walk, nextProcessID, process,
                     pml4, heapCurrent, state, image, granted>>
  BY Zenon DEF HOTLoadSegment, Running
<1>2. /\ PhysicalInv' /\ MapInv' /\ WalkShape' /\ TablesInv'
      /\ held' = held /\ FreeFrames' = FreeFrames
  <2>1. FreeFrames' = FreeFrames
    BY <1>1, FramesUnchanged
  <2>2. Lacking \subseteq Lacking'
    BY <1>1, <2>1 DEF Lacking
  <2> QED
    BY <1>1, <2>2, QuietStep
<1>3. /\ Segments[segment].vaddr \in Nat /\ Segments[segment].memsz \in Nat
      /\ Segments[segment].vaddr + Segments[segment].memsz <= KernelHalfStart * PageSize
  <2>1. process \in Processes /\ image \in [Processes -> Images] /\ segment \in Nat \ {0}
    BY <1>1 DEF LoaderInv, ProcessInv, Serving
  <2>2. ImageOK(image[process])
    BY <2>1, LoaderAssumption
  <2>3. Segments \in Seq([vaddr : Nat, memsz : Nat])
        /\ \A i \in DOMAIN Segments :
               Segments[i].vaddr + Segments[i].memsz <= KernelHalfStart * PageSize
    BY <2>2 DEF ImageOK, Segments
  <2>4. PICK list : list = Segments
    OBVIOUS
  <2>5. segment \in 1 .. Len(list) /\ list \in Seq([vaddr : Nat, memsz : Nat])
    <3>1. list \in Seq([vaddr : Nat, memsz : Nat])
      BY <2>3, <2>4
    <3>2. segment <= Len(list)
      BY <1>1, <2>4
    <3> QED
      BY <2>1, <3>1, <3>2
  <2>6. list[segment] \in [vaddr : Nat, memsz : Nat] /\ segment \in DOMAIN list
    <3> DEFINE R == [vaddr : Nat, memsz : Nat]
    <3>1. list \in Seq(R)
      BY <2>5
    <3> HIDE DEF R
    <3>2. DOMAIN list = 1 .. Len(list) /\ \A i \in DOMAIN list : list[i] \in R
      BY <3>1
    <3> QED
      BY <2>5, <3>2 DEF R
  <2> QED
    BY <2>3, <2>4, <2>6
<1>4. LoopInv'
  <2>1. CASE Segments[segment].memsz = 0
    <3>1. loop'.next = 0 /\ loop'.end = 0 /\ loop' = Span(loop'.next, loop'.end)
      BY <1>1, <2>1 DEF Span
    <3> QED
      BY <1>1, <3>1 DEF LoopInv, Initializing
  <2>2. CASE Segments[segment].memsz # 0
    <3>1. /\ loop'.next \in Nat /\ loop'.end \in Nat /\ loop'.end <= KernelHalfStart
          /\ loop' = Span(loop'.next, loop'.end)
      <4>1. PICK s : s = Segments[segment]
        OBVIOUS
      <4>2. loop' = PagesOf(s)
        BY <1>1, <2>2, <4>1
      <4>3. /\ PagesOf(s).next \in Nat /\ PagesOf(s).end \in Nat
            /\ PagesOf(s).end <= KernelHalfStart
            /\ PagesOf(s) = Span(PagesOf(s).next, PagesOf(s).end)
        BY <1>3, <4>1, SegmentPages
      <4> QED
        BY <4>2, <4>3
    <3>2. \A page \in loop'.next .. loop'.end - 1 : page \in Pages \ KernelPages
      BY <3>1, LayoutFacts
    <3> QED
      BY <1>1, <3>1, <3>2 DEF LoopInv, Initializing
  <2> QED
    BY <2>1, <2>2
<1>5. ProcessInv'
  <2>1. segment \in Nat \ {0}
    BY <1>1 DEF LoaderInv, ProcessInv
  <2> QED
    BY <1>1, <2>1 DEF LoaderInv, ProcessInv
<1>6. GrowthInv' /\ KernelInv'
  BY <1>1, <1>2 DEF LoaderInv, GrowthInv, KernelInv, Initializing
<1> QED
  BY <1>2, <1>4, <1>5, <1>6 DEF LoaderInv

LEMMA LoadPageStep ==
    ASSUME LoaderInv, Calm, HOTLoadPage
    PROVE  LoaderInv'
<1>1. /\ walk = NoWalk /\ pc = "segments" /\ ~AtEnd
      /\ UNCHANGED <<panic, tables, kernelPML4, pc, loop>> /\ UNCHANGED loader
  BY Zenon DEF HOTLoadPage, Running
<1>2. pc \in Serving /\ pc \notin Initializing
  BY <1>1 DEF Serving, Initializing
<1>3. PageRight
  <2>1. loop.next \in loop.next .. loop.end - 1
    BY <1>1 DEF LoaderInv, LoopInv, AtEnd
  <2>2. loop.next \in Pages \ KernelPages
    BY <1>1, <2>1 DEF LoaderInv, LoopInv
  <2> QED
    BY <1>2, <2>2 DEF PageRight
<1>4. (pc \in Serving) = TRUE
  BY <1>2
<1>5. pml4[process] = IF pc \in Serving THEN pml4[process] ELSE kernelPML4
  BY <1>2
<1>6. PICK root : root = pml4[process]
  OBVIOUS
<1>7. ASSUME NEW f \in FreeFrames, VMPhysicalMemoryAllocatePage(f),
             VMVirtualMemoryMapPage(pml4[process], f, TRUE)
      PROVE  LoaderInv'
  <2>1. walk' = [level |-> 4, table |-> root, phys |-> f, user |-> TRUE]
    BY <1>6, <1>7 DEF VMVirtualMemoryMapPage
  <2>2. root = IF pc \in Serving THEN pml4[process] ELSE kernelPML4
    BY <1>5, <1>6
  <2>3. pc \in {"heap"} \cup Serving
    BY <1>2
  <2> QED
    BY <1>1, <1>3, <1>4, <1>7, <2>1, <2>2, <2>3, MapPageWithFrame
<1>8. CASE OutOfMemory /\ VMVirtualMemoryMapPage(pml4[process], 0, TRUE)
  <2>1. walk' = [level |-> 4, table |-> root, phys |-> 0, user |-> TRUE]
    BY <1>6, <1>8 DEF VMVirtualMemoryMapPage
  <2>2. root = IF pc \in Serving THEN pml4[process] ELSE kernelPML4
    BY <1>5, <1>6
  <2>3. UNCHANGED physical /\ FreeFrames = {}
    BY <1>8 DEF OutOfMemory
  <2> QED
    BY <1>1, <1>3, <1>4, <2>1, <2>2, <2>3, MapPageWithoutFrame
<1> QED
  BY <1>7, <1>8, Zenon DEF HOTLoadPage

LEMMA LoadDoneStep ==
    ASSUME LoaderInv, Calm, HOTLoadDone
    PROVE  LoaderInv'
<1>1. /\ walk = NoWalk /\ pc = "segments" /\ UNCHANGED physical
      /\ UNCHANGED <<panic, tables, kernelPML4, walk, nextProcessID, process,
                     segment, pml4, heapCurrent, image, granted>>
      /\ \/ SpawnFails
         \/ pc' = "stack" /\ loop' = Span(UserStackBottom, UserStackTop) /\ UNCHANGED state
  BY Zenon DEF HOTLoadDone, Running
<1>2. /\ process \in Processes /\ state \in [Processes -> States]
      /\ state[process] # "running" /\ kernelPML4 # 0
  BY <1>1 DEF LoaderInv, ProcessInv, KernelInv, Serving, Initializing
<1>3. /\ pc' \in {"ready", "stack"} /\ LoopInv'
      /\ pc' = "stack" => loop'.next = UserStackBottom
      /\ state' \in [Processes -> States] /\ state'[process] # "running"
      /\ \A p \in Processes : state'[p] = "running" => state[p] = "running"
  <2>1. CASE SpawnFails
    <3>1. state' = [state EXCEPT ![process] = "failed"] /\ pc' = "ready" /\ loop' = loop
      BY <2>1 DEF SpawnFails
    <3>2. LoopInv'
      BY <1>1, <3>1 DEF LoaderInv, LoopInv, Initializing
    <3> QED
      BY <1>2, <3>1, <3>2 DEF States
  <2>2. CASE pc' = "stack" /\ loop' = Span(UserStackBottom, UserStackTop) /\ UNCHANGED state
    <3>1. loop'.next = UserStackBottom /\ loop'.end = UserStackTop
          /\ loop' = Span(loop'.next, loop'.end)
      BY <2>2 DEF Span
    <3>2. LoopInv'
      BY <2>2, <3>1, LayoutFacts DEF LoopInv, Initializing
    <3> QED
      BY <1>2, <2>2, <3>1, <3>2
  <2> QED
    BY <1>1, <2>1, <2>2
<1>4. FreeFrames' = FreeFrames
  BY <1>1, FramesUnchanged
<1>5. Lacking \subseteq Lacking'
  BY <1>1, <1>3, <1>4 DEF Lacking
<1>6. /\ PhysicalInv' /\ MapInv' /\ WalkShape' /\ TablesInv'
      /\ held' = held /\ FreeFrames' = FreeFrames
  BY <1>1, <1>5, QuietStep
<1>7. ProcessInv'
  BY <1>1, <1>2, <1>3 DEF LoaderInv, ProcessInv, Serving
<1>8. GrowthInv' /\ KernelInv'
  BY <1>1, <1>2, <1>3, <1>6 DEF LoaderInv, GrowthInv, KernelInv, Serving
<1> QED
  BY <1>3, <1>6, <1>7, <1>8 DEF LoaderInv

LEMMA StackPageStep ==
    ASSUME LoaderInv, Calm, LoaderStackPage
    PROVE  LoaderInv'
<1>1. /\ walk = NoWalk /\ pc = "stack" /\ ~AtEnd
      /\ UNCHANGED <<tables, kernelPML4, pc, loop>> /\ UNCHANGED loader
  BY Zenon DEF LoaderStackPage, StackPage, Running
<1>2. UNCHANGED <<nextProcessID, process, segment, pml4, heapCurrent, state, image>>
  BY <1>1 DEF loader
<1>3. pc \in Serving /\ pc \notin Initializing
  BY <1>1 DEF Serving, Initializing
<1>4. CASE OutOfMemory /\ UNCHANGED walk
  <2>1. UNCHANGED physical
    BY <1>4 DEF OutOfMemory
  <2>2. FreeFrames' = FreeFrames
    BY <2>1, FramesUnchanged
  <2>3. Lacking \subseteq Lacking'
    BY <1>1, <1>2, <1>4, <2>2 DEF Lacking
  <2>4. /\ PhysicalInv' /\ MapInv' /\ WalkShape' /\ TablesInv'
        /\ held' = held /\ FreeFrames' = FreeFrames
    BY <1>1, <1>2, <1>4, <2>1, <2>3, QuietStep
  <2>5. LoopInv' /\ ProcessInv'
    BY <1>1, <1>2 DEF LoaderInv, LoopInv, ProcessInv
  <2>6. GrowthInv' /\ KernelInv'
    BY <1>1, <1>2, <1>4, <2>4 DEF LoaderInv, GrowthInv, KernelInv
  <2> QED
    BY <2>4, <2>5, <2>6 DEF LoaderInv
<1>5. ASSUME NEW f \in FreeFrames, VMPhysicalMemoryAllocatePage(f),
             VMVirtualMemoryMapPage(pml4[process], f, TRUE), UNCHANGED panic
      PROVE  LoaderInv'
  <2>1. PageRight
    <3>1. loop.next \in UserStackBottom .. UserStackTop - 1
      BY <1>1, LayoutFacts DEF LoaderInv, LoopInv, AtEnd
    <3>2. UserStackBottom .. UserStackTop - 1 \subseteq Pages \ KernelPages
      BY VirtualMemoryAssumption
    <3> QED
      BY <1>3, <3>1, <3>2 DEF PageRight
  <2>2. (pc \in Serving) = TRUE /\ pc \in {"heap"} \cup Serving
    BY <1>3
  <2>3. PICK root : root = pml4[process]
    OBVIOUS
  <2>4. root = IF pc \in Serving THEN pml4[process] ELSE kernelPML4
    BY <1>3, <2>3
  <2>5. walk' = [level |-> 4, table |-> root, phys |-> f, user |-> TRUE]
    BY <1>5, <2>3 DEF VMVirtualMemoryMapPage
  <2> QED
    BY <1>1, <1>5, <2>1, <2>2, <2>4, <2>5, MapPageWithFrame
<1> QED
  BY <1>4, <1>5, Zenon DEF LoaderStackPage, StackPage

LEMMA SchedulesStep ==
    ASSUME LoaderInv, Calm, LoaderSchedules
    PROVE  LoaderInv'
<1>1. /\ walk = NoWalk /\ pc = "stack" /\ AtEnd /\ pc' = "ready" /\ UNCHANGED loop
      /\ UNCHANGED physical
      /\ UNCHANGED <<panic, tables, kernelPML4, walk, nextProcessID, process,
                     segment, pml4, heapCurrent, image, granted>>
      /\ \/ state' = [state EXCEPT ![process] = "failed"]
         \/ state' = [state EXCEPT ![process] = "running"]
  BY Zenon DEF LoaderSchedules, SpawnFails, Running
<1>2. /\ process \in Processes /\ state \in [Processes -> States] /\ kernelPML4 # 0
  BY <1>1 DEF LoaderInv, ProcessInv, KernelInv, Serving, Initializing
<1>3. /\ state' \in [Processes -> States]
      /\ \A p \in Processes \ {process} : state'[p] = state[p]
  BY <1>1, <1>2 DEF States
<1>4. process \notin Lacking
  <2>1. loop.next >= UserStackTop /\ loop.next \in Nat
    BY <1>1 DEF LoaderInv, LoopInv, AtEnd
  <2>2. loop.next # UserStackBottom
    BY <2>1, LayoutFacts
  <2> QED
    BY <1>1, <2>2 DEF Lacking
<1>5. FreeFrames' = FreeFrames
  BY <1>1, FramesUnchanged
<1>6. Lacking \subseteq Lacking'
  <2>1. ASSUME NEW p \in Lacking
        PROVE  p \in Lacking'
    <3>1. p \in Processes \ {process} /\ state[p] # "running" /\ FreeFrames = {}
      BY <1>4 DEF Lacking
    <3>2. state'[p] # "running"
      BY <1>3, <3>1
    <3> QED
      BY <1>1, <1>5, <3>1, <3>2 DEF Lacking
  <2> QED
    BY <2>1
<1>7. /\ PhysicalInv' /\ MapInv' /\ WalkShape' /\ TablesInv'
      /\ held' = held /\ FreeFrames' = FreeFrames
  BY <1>1, <1>6, QuietStep
<1>8. ProcessInv' /\ LoopInv'
  BY <1>1, <1>3 DEF LoaderInv, ProcessInv, LoopInv, Serving, Initializing
<1>9. GrowthInv' /\ KernelInv'
  BY <1>1, <1>2, <1>7 DEF LoaderInv, GrowthInv, KernelInv
<1> QED
  BY <1>7, <1>8, <1>9 DEF LoaderInv

-----------------------------------------------------------------------------
(* The memory service.                                                     *)

LEMMA MemoryAllocateStep ==
    ASSUME LoaderInv, Calm, NEW p \in Processes, NEW size \in Sizes,
           OSServiceMemoryAllocate(p, size)
    PROVE  LoaderInv'
<1>1. /\ walk = NoWalk /\ pc = "ready" /\ pc' = "grow" /\ process' = p
      /\ loop' = Span(heapCurrent[p], heapCurrent[p] + PagesNeeded(size))
      /\ UNCHANGED physical
      /\ UNCHANGED <<panic, tables, kernelPML4, walk, nextProcessID, segment,
                     pml4, heapCurrent, state, image, granted>>
  BY Zenon DEF OSServiceMemoryAllocate, Running
<1>2. FreeFrames' = FreeFrames
  BY <1>1, FramesUnchanged
<1>3. Lacking \subseteq Lacking'
  BY <1>1, <1>2 DEF Lacking
<1>4. /\ PhysicalInv' /\ MapInv' /\ WalkShape' /\ TablesInv'
      /\ held' = held /\ FreeFrames' = FreeFrames
  BY <1>1, <1>3, QuietStep
<1>5. /\ heapCurrent[p] \in HeapStart .. HeapStart + Cardinality(held)
      /\ HeapStart \in Nat /\ Cardinality(held) \in Nat
  BY HeldFacts, HeapRoom DEF LoaderInv, GrowthInv
<1>6. PagesNeeded(size) \in Nat
  <2>1. size \in Nat /\ PageSize \in Nat \ {0}
    BY LoaderAssumption, PhysicalMemoryAssumption
  <2> QED
    BY <2>1 DEF PagesNeeded
<1>7. loop'.next = heapCurrent[p] /\ loop'.end = heapCurrent[p] + PagesNeeded(size)
      /\ loop' = Span(loop'.next, loop'.end)
  BY <1>1 DEF Span
<1>8. LoopInv'
  BY <1>1, <1>5, <1>6, <1>7 DEF LoopInv, Initializing
<1>9. ProcessInv'
  BY <1>1 DEF LoaderInv, ProcessInv
<1>10. GrowthInv'
  <2>1. \A q \in Processes : heapCurrent'[q] \in HeapStart .. HeapStart + Cardinality(held')
    BY <1>1, <1>4 DEF LoaderInv, GrowthInv
  <2>2. /\ HeapStart <= loop'.next /\ HeapStart <= loop'.end
        /\ loop'.next + 0 <= HeapStart + Cardinality(held')
    BY <1>4, <1>5, <1>6, <1>7
  <2> QED
    BY <1>1, <2>1, <2>2 DEF GrowthInv
<1>11. KernelInv'
  BY <1>1 DEF LoaderInv, KernelInv, Serving, Initializing
<1> QED
  BY <1>4, <1>8, <1>9, <1>10, <1>11 DEF LoaderInv

LEMMA GrowPageStep ==
    ASSUME LoaderInv, Calm, GrowPage
    PROVE  LoaderInv'
<1>1. /\ walk = NoWalk /\ pc = "grow" /\ ~AtEnd
      /\ UNCHANGED <<panic, tables, kernelPML4, loop, nextProcessID, process, segment, pml4,
                     state, image, granted>>
  BY Zenon DEF GrowPage, Running
<1>2. pc \in Serving /\ pc \notin Initializing
  BY <1>1 DEF Serving, Initializing
<1>3. /\ loop.next \in Nat /\ HeapStart \in Nat /\ Cardinality(held) \in Nat
      /\ HeapStart <= loop.next /\ loop.next <= HeapStart + Cardinality(held)
      /\ KernelHalfStart \in Nat
  <2>1. HeapStart \in Nat /\ Cardinality(held) \in Nat /\ KernelHalfStart \in Nat
    BY HeldFacts, HeapRoom DEF LoaderInv
  <2>2. /\ HeapStart <= loop.next
        /\ loop.next + (IF walk = NoWalk THEN 0 ELSE 1) <= HeapStart + Cardinality(held)
    BY <1>1 DEF LoaderInv, GrowthInv
  <2>3. loop.next \in Nat
    BY DEF LoaderInv, LoopInv
  <2> QED
    BY <1>1, <2>1, <2>2, <2>3
<1>4. CASE /\ OutOfMemory
           /\ heapCurrent' = [heapCurrent EXCEPT ![process] = loop.next]
           /\ pc' = "ready" /\ UNCHANGED walk
  <2>1. UNCHANGED physical
    BY <1>4 DEF OutOfMemory
  <2>2. FreeFrames' = FreeFrames
    BY <2>1, FramesUnchanged
  <2>3. Lacking \subseteq Lacking'
    BY <1>1, <1>4, <2>2 DEF Lacking
  <2>4. /\ PhysicalInv' /\ MapInv' /\ WalkShape' /\ TablesInv'
        /\ held' = held /\ FreeFrames' = FreeFrames
    BY <1>1, <1>4, <2>1, <2>3, QuietStep
  <2>5. /\ heapCurrent' \in [Processes -> Nat]
        /\ \A q \in Processes : heapCurrent'[q] = IF q = process THEN loop.next ELSE heapCurrent[q]
    BY <1>3, <1>4 DEF LoaderInv, ProcessInv
  <2>6. LoopInv' /\ ProcessInv'
    BY <1>1, <1>4, <2>5 DEF LoaderInv, LoopInv, ProcessInv, Initializing, Serving
  <2>7. GrowthInv'
    <3>1. \A q \in Processes : heapCurrent'[q] \in HeapStart .. HeapStart + Cardinality(held')
      BY <1>3, <2>4, <2>5 DEF LoaderInv, GrowthInv
    <3> QED
      BY <1>4, <3>1 DEF GrowthInv
  <2>8. KernelInv'
    BY <1>1, <1>4 DEF LoaderInv, KernelInv, Initializing
  <2> QED
    BY <2>4, <2>6, <2>7, <2>8 DEF LoaderInv
<1>5. ASSUME NEW f \in FreeFrames, VMPhysicalMemoryAllocatePage(f),
             VMVirtualMemoryMapPage(pml4[process], f, TRUE), UNCHANGED <<pc, heapCurrent>>
      PROVE  LoaderInv'
  <2>1. loop.next < KernelHalfStart
    <3>1. PICK S : S = held \cup {f}
      OBVIOUS
    <3>2. Cardinality(S) = Cardinality(held) + 1
      <4>1. held' = S /\ Cardinality(held') = Cardinality(held) + 1
        BY <1>1, <1>5, <3>1, FrameAllocated
      <4> QED
        BY <4>1
    <3>3. S \in SUBSET Bits(bitmapSize)
      BY <3>1 DEF LoaderInv, PhysicalInv, FreeFrames
    <3>4. HeapStart + Cardinality(S) <= KernelHalfStart
      BY <3>3, RoomForFrames DEF LoaderInv
    <3> QED
      BY <1>3, <3>2, <3>4
  <2>2. PageRight
    BY <1>2, <1>3, <2>1, LayoutFacts DEF PageRight
  <2>3. (pc \in Serving) = TRUE /\ pc \in {"heap"} \cup Serving
    BY <1>2
  <2>4. PICK root : root = pml4[process]
    OBVIOUS
  <2>5. root = IF pc \in Serving THEN pml4[process] ELSE kernelPML4
    BY <1>2, <2>4
  <2>6. walk' = [level |-> 4, table |-> root, phys |-> f, user |-> TRUE]
    BY <1>5, <2>4 DEF VMVirtualMemoryMapPage
  <2>7. UNCHANGED loader
    BY <1>1, <1>5 DEF loader
  <2> QED
    BY <1>1, <1>5, <2>2, <2>3, <2>5, <2>6, <2>7, MapPageWithFrame
<1> QED
  BY <1>4, <1>5, Zenon DEF GrowPage

LEMMA GrowDoneStep ==
    ASSUME LoaderInv, Calm, GrowDone
    PROVE  LoaderInv'
<1>1. /\ walk = NoWalk /\ pc = "grow" /\ AtEnd /\ pc' = "ready"
      /\ heapCurrent' = [heapCurrent EXCEPT ![process] = loop.end]
      /\ UNCHANGED physical
      /\ UNCHANGED <<panic, tables, kernelPML4, loop, walk, nextProcessID, process,
                     segment, pml4, state, image>>
  BY Zenon DEF GrowDone, Running
<1>2. FreeFrames' = FreeFrames
  BY <1>1, FramesUnchanged
<1>3. Lacking \subseteq Lacking'
  BY <1>1, <1>2 DEF Lacking
<1>4. /\ PhysicalInv' /\ MapInv' /\ WalkShape' /\ TablesInv'
      /\ held' = held /\ FreeFrames' = FreeFrames
  BY <1>1, <1>3, QuietStep
<1>5. /\ loop.next \in Nat /\ loop.end \in Nat /\ HeapStart \in Nat /\ Cardinality(held) \in Nat
      /\ loop.end <= loop.next /\ HeapStart <= loop.end
      /\ loop.next <= HeapStart + Cardinality(held)
  <2>1. HeapStart \in Nat /\ Cardinality(held) \in Nat
    BY HeldFacts, HeapRoom DEF LoaderInv
  <2>2. /\ HeapStart <= loop.end
        /\ loop.next + (IF walk = NoWalk THEN 0 ELSE 1) <= HeapStart + Cardinality(held)
    BY <1>1 DEF LoaderInv, GrowthInv
  <2>3. loop.next \in Nat /\ loop.end \in Nat
    BY DEF LoaderInv, LoopInv
  <2>4. loop.end <= loop.next
    BY <1>1, <2>3 DEF AtEnd
  <2> QED
    BY <1>1, <2>1, <2>2, <2>3, <2>4
<1>6. /\ heapCurrent' \in [Processes -> Nat]
      /\ \A q \in Processes : heapCurrent'[q] = IF q = process THEN loop.end ELSE heapCurrent[q]
  BY <1>1, <1>5 DEF LoaderInv, ProcessInv
<1>7. LoopInv' /\ ProcessInv'
  BY <1>1, <1>6 DEF LoaderInv, LoopInv, ProcessInv, Initializing, Serving
<1>8. GrowthInv'
  <2>1. \A q \in Processes : heapCurrent'[q] \in HeapStart .. HeapStart + Cardinality(held')
    BY <1>4, <1>5, <1>6 DEF LoaderInv, GrowthInv
  <2> QED
    BY <1>1, <2>1 DEF GrowthInv
<1>9. KernelInv'
  BY <1>1 DEF LoaderInv, KernelInv, Serving, Initializing
<1> QED
  BY <1>4, <1>7, <1>8, <1>9 DEF LoaderInv

-----------------------------------------------------------------------------
(* The theorem.                                                            *)

LEMMA InitLoads == Init => LoaderInv
<1> SUFFICES ASSUME Init
             PROVE  LoaderInv
  OBVIOUS
<1>1. /\ memoryMap \in MemoryMaps /\ held = {}
      /\ BitmapBuilt(memoryMap, bitmapSize, bitmapStart, bitmap, panic)
  BY Zenon DEF Init, VirtualMemoryInit, VMPhysicalMemoryInitialize
<1>2. /\ tables = [t \in {} |-> Empty] /\ kernelPML4 = 0 /\ pc = "pml4"
      /\ loop = Span(0, 0) /\ walk = NoWalk
      /\ nextProcessID = 1 /\ process = 0
      /\ pml4 = [p \in Processes |-> 0]
      /\ heapCurrent = [p \in Processes |-> HeapStart]
      /\ state = [p \in Processes |-> "none"]
      /\ image \in [Processes -> Images]
  BY Zenon DEF Init, VirtualMemoryInit
<1>3. PhysicalInv
  <2>1. memoryMap \in Seq(OSMemoryDescriptor)
    BY <1>1, PhysicalMemoryAssumption DEF MapOK
  <2> QED
    BY <1>1, <2>1, InitialBitmap DEF BitmapReady
<1>4. MapInv
  <2>1. PICK total \in {0} \cup {End(memoryMap[i]) : i \in DOMAIN memoryMap} :
            IsTotalPageCount(total, memoryMap) /\ bitmapSize = BytesFor(total)
    BY <1>1, Zenon DEF BitmapBuilt
  <2>2. \A i \in DOMAIN memoryMap : memoryMap[i] \in OSMemoryDescriptor
    BY <1>3 DEF PhysicalInv
  <2>3. total \in Nat
    BY <2>1, <2>2 DEF OSMemoryDescriptor, End
  <2> QED
    BY <1>1, <2>1, <2>3 DEF MapInv
<1>5. pc \notin Serving /\ pc \notin Initializing
  BY <1>2 DEF Serving, Initializing
<1>6. HeapStart \in Nat
  BY <1>4, HeapRoom
<1>7. ProcessInv
  BY <1>2, <1>5, <1>6 DEF ProcessInv, States
<1>8. WalkShape
  BY <1>2 DEF WalkShape, NoWalk
<1>9. LoopInv
  <2>1. loop.next = 0 /\ loop.end = 0 /\ loop = Span(loop.next, loop.end)
    BY <1>2 DEF Span
  <2> QED
    BY <1>2, <1>5, <2>1 DEF LoopInv
<1>10. GrowthInv
  <2>1. Cardinality(held) = 0
    BY <1>1, FS_EmptySet
  <2> QED
    BY <1>2, <1>6, <2>1 DEF GrowthInv
<1>11. KernelInv
  BY <1>2 DEF KernelInv
<1>12. TablesInv
  <2>1. PICK use : use = [f \in {} |-> Use(0, 0, 0)]
    OBVIOUS
  <2>2. use \in [held -> Uses] /\ DOMAIN tables = {}
    BY <1>1, <1>2, <2>1
  <2>3. Tree(use, tables, held, Lacking)
    BY <1>1, <2>2 DEF Tree
  <2>4. Roots(use)
    BY <1>2 DEF Roots
  <2> QED
    BY <1>2, <2>3, <2>4 DEF TablesInv, WalkRight
<1> QED
  BY <1>3, <1>4, <1>7, <1>8, <1>9, <1>10, <1>11, <1>12 DEF LoaderInv

LEMMA NothingHappens ==
    ASSUME LoaderInv, UNCHANGED vars
    PROVE  LoaderInv'
<1>1. /\ UNCHANGED <<memoryMap, bitmapStart, bitmapSize, bitmap, held>> /\ UNCHANGED panic
      /\ UNCHANGED <<tables, kernelPML4, pc, loop, walk>>
      /\ UNCHANGED <<nextProcessID, process, segment, pml4, heapCurrent, state, image>>
  BY DEF vars, physical, virtual, loader
<1>2. PhysicalInv'
  <2>1. UNCHANGED <<physical, panic>>
    BY <1>1 DEF physical
  <2> QED
    BY <2>1, StepKeepsInv DEF LoaderInv
<1>3. MapInv' /\ ProcessInv' /\ WalkShape' /\ LoopInv' /\ GrowthInv'
  BY <1>1 DEF LoaderInv, MapInv, ProcessInv, WalkShape, LoopInv, GrowthInv
<1>4. FreeFrames' = FreeFrames
  BY <1>1 DEF FreeFrames, Bits
<1>5. KernelInv' /\ Lacking' = Lacking /\ Actor' = Actor
  BY <1>1, <1>4 DEF LoaderInv, KernelInv, Lacking, Actor
<1>6. PICK use : Tree(use, tables, held, Lacking) /\ Roots(use) /\ WalkRight(use)
  BY DEF LoaderInv, TablesInv
<1>7. Tree(use, tables', held', Lacking') /\ Roots(use)'
  BY <1>1, <1>5, <1>6, RootsKept
<1>8. WalkRight(use)'
  BY <1>1, <1>4, <1>5, <1>6 DEF WalkRight, PageRight
<1> QED
  BY <1>2, <1>3, <1>5, <1>7, <1>8 DEF LoaderInv, TablesInv

LEMMA KernelSteps ==
    ASSUME LoaderInv, Kernel
    PROVE  LoaderInv'
<1>1. UNCHANGED loader
  BY Zenon DEF Kernel
<1>2. CASE InitializePML4
  BY <1>1, <1>2, InitializePML4Step, Zenon DEF InitializePML4, Running, Calm
<1>3. CASE InitializePage
  BY <1>1, <1>3, InitializePageStep, Zenon DEF InitializePage, Running, Calm
<1>4. CASE InitializeNext
  BY <1>1, <1>4, InitializeNextStep, Zenon DEF InitializeNext, Running, Calm
<1>5. CASE InitializeDone
  BY <1>1, <1>5, InitializeDoneStep, Zenon DEF InitializeDone, Running, Calm
<1>6. CASE HeapPage
  BY <1>1, <1>6, HeapPageStep, Zenon DEF HeapPage, Running, Calm
<1>7. CASE HeapDone
  BY <1>1, <1>7, HeapDoneStep, Zenon DEF HeapDone, Running, Calm
<1>8. CASE WalkPresent
  BY <1>1, <1>8, WalkPresentStep, Zenon DEF WalkPresent, Walking, Calm
<1>9. CASE WalkAllocate
  BY <1>1, <1>9, WalkAllocateStep, Zenon DEF WalkAllocate, Walking, Calm
<1>10. CASE WalkOutOfMemory
  BY <1>1, <1>10, WalkOutOfMemoryStep, Zenon DEF WalkOutOfMemory, Walking, Calm
<1>11. CASE WalkLeaf
  BY <1>1, <1>11, WalkLeafStep, Zenon DEF WalkLeaf, Calm
<1> QED
  BY <1>2, <1>3, <1>4, <1>5, <1>6, <1>7, <1>8, <1>9, <1>10, <1>11, Zenon DEF Kernel, Boot, Walk

LEMMA StepKeepsLoaderInv ==
    ASSUME LoaderInv, [Next]_vars
    PROVE  LoaderInv'
<1>1. CASE Kernel
  BY <1>1, KernelSteps
<1>2. CASE OSLoaderProcessSpawn
  BY <1>2, SpawnStep, Zenon DEF OSLoaderProcessSpawn, Running, Calm
<1>3. CASE HOTLoadSegment
  BY <1>3, SegmentStep, Zenon DEF HOTLoadSegment, Running, Calm
<1>4. CASE HOTLoadPage
  BY <1>4, LoadPageStep, Zenon DEF HOTLoadPage, Running, Calm
<1>5. CASE HOTLoadDone
  BY <1>5, LoadDoneStep, Zenon DEF HOTLoadDone, Running, Calm
<1>6. CASE LoaderStackPage
  BY <1>6, StackPageStep, Zenon DEF LoaderStackPage, StackPage, Running, Calm
<1>7. CASE LoaderSchedules
  BY <1>7, SchedulesStep, Zenon DEF LoaderSchedules, Running, Calm
<1>8. ASSUME NEW p \in Processes, NEW size \in Sizes, OSServiceMemoryAllocate(p, size)
      PROVE  LoaderInv'
  BY <1>8, MemoryAllocateStep, Zenon DEF OSServiceMemoryAllocate, Running, Calm
<1>9. CASE GrowPage
  BY <1>9, GrowPageStep, Zenon DEF GrowPage, Running, Calm
<1>10. CASE GrowDone
  BY <1>10, GrowDoneStep, Zenon DEF GrowDone, Running, Calm
<1>11. CASE UNCHANGED vars
  BY <1>11, NothingHappens
<1> QED
  BY <1>1, <1>2, <1>3, <1>4, <1>5, <1>6, <1>7, <1>8, <1>9, <1>10, <1>11, Zenon DEF Next

LEMMA LoaderInvariant == Spec => []LoaderInv
  BY InitLoads, StepKeepsLoaderInv, PTL DEF Spec

(* Processes are isolated: whatever VMVirtualMemoryMapPage's callers map,  *)
(* and wherever memory runs out while they do, what a running process      *)
(* reaches from ring 3 are frames handed out for it, neither page tables   *)
(* nor kernel heap nor another process's, and as many as it has pages.     *)
THEOREM ProcessesIsolated == Spec => []Isolation
  BY LoaderInvariant, InvIsolates, PTL

-----------------------------------------------------------------------------
(* Paths down the tables, as constants: a path has a table w[k] at each    *)
(* level k from the root's down to some level.                             *)

Link(tb, t, i, user, f) ==
    t \in DOMAIN tb /\ i \in DOMAIN tb[t] /\ f = tb[t][i].frame /\ (user => tb[t][i].user)

Path(tb, page, user, level, w) ==
    \A k \in level + 1 .. 4 : Link(tb, w[k], Index(page, k), user, w[k - 1])

(* The walk for a page from the root leads to t. *)
Leads(tb, root, page, user, level, t) ==
    \E w : w[4] = root /\ w[level] = t /\ Path(tb, page, user, level, w)

LEMMA LeadsToRoot ==
    ASSUME NEW tb, NEW root, NEW page, NEW user
    PROVE  \A t : Leads(tb, root, page, user, 4, t) <=> t = root
<1>1. PICK w : w = [k \in 0 .. 4 |-> root]
  OBVIOUS
<1>2. w[4] = root /\ Path(tb, page, user, 4, w)
  BY <1>1 DEF Path
<1>3. Leads(tb, root, page, user, 4, root)
  BY <1>2 DEF Leads
<1>4. \A t : Leads(tb, root, page, user, 4, t) => t = root
  BY Zenon DEF Leads
<1> QED
  BY <1>3, <1>4

(* One level further. *)
LEMMA LeadsOn ==
    ASSUME NEW tb, NEW root, NEW page, NEW user, NEW level \in 1 .. 4, NEW t,
           Leads(tb, root, page, user, level, t), NEW s,
           Link(tb, t, Index(page, level), user, s)
    PROVE  Leads(tb, root, page, user, level - 1, s)
<1>1. PICK w : w[4] = root /\ w[level] = t /\ Path(tb, page, user, level, w)
  BY DEF Leads
<1>2. PICK v : v = [k \in 0 .. 4 |-> IF k = level - 1 THEN s ELSE w[k]]
  OBVIOUS
<1>3. v[level - 1] = s /\ \A k \in level .. 4 : v[k] = w[k]
  BY <1>2
<1>4. ASSUME NEW k \in level .. 4
      PROVE  Link(tb, v[k], Index(page, k), user, v[k - 1])
  <2>1. CASE k = level
    BY <1>1, <1>3, <2>1
  <2>2. CASE k # level
    <3>1. k \in level + 1 .. 4 /\ k - 1 \in level .. 4
      BY <2>2
    <3> QED
      BY <1>1, <1>3, <3>1 DEF Path
  <2> QED
    BY <2>1, <2>2
<1>5. (level - 1) + 1 = level
  OBVIOUS
<1>6. Path(tb, page, user, level - 1, v)
  BY <1>4, <1>5 DEF Path
<1>7. v[4] = root
  BY <1>1, <1>3
<1> QED
  BY <1>3, <1>6, <1>7 DEF Leads

LEMMA LeadsFrom ==
    ASSUME NEW tb, NEW root, NEW page, NEW user, NEW level \in 1 .. 4, NEW s,
           Leads(tb, root, page, user, level - 1, s)
    PROVE  \E t : /\ Leads(tb, root, page, user, level, t)
                  /\ Link(tb, t, Index(page, level), user, s)
<1>1. PICK w : w[4] = root /\ w[level - 1] = s /\ Path(tb, page, user, level - 1, w)
  BY DEF Leads
<1>2. (level - 1) + 1 = level
  OBVIOUS
<1>3. \A k \in level .. 4 : Link(tb, w[k], Index(page, k), user, w[k - 1])
  BY <1>1, <1>2 DEF Path
<1>4. Link(tb, w[level], Index(page, level), user, s)
  BY <1>1, <1>3
<1>5. Path(tb, page, user, level, w)
  BY <1>3 DEF Path
<1> QED
  BY <1>1, <1>4, <1>5 DEF Leads

(* The tables on the way are reached as well. *)
LEMMA LeadsBefore ==
    ASSUME NEW tb, NEW root, NEW page, NEW user, NEW level \in 0 .. 4, NEW w,
           w[4] = root, Path(tb, page, user, level, w), NEW k \in level .. 4
    PROVE  Leads(tb, root, page, user, k, w[k])
<1>1. Path(tb, page, user, k, w)
  BY DEF Path
<1> QED
  BY <1>1 DEF Leads

(* There is only one way. *)
LEMMA LeadsToOne ==
    ASSUME NEW tb, NEW root, NEW page, NEW user, NEW level \in 0 .. 4, NEW s, NEW t,
           Leads(tb, root, page, user, level, s), Leads(tb, root, page, user, level, t)
    PROVE  s = t
<1>1. PICK w : w[4] = root /\ w[level] = s /\ Path(tb, page, user, level, w)
  BY DEF Leads
<1>2. PICK v : v[4] = root /\ v[level] = t /\ Path(tb, page, user, level, v)
  BY DEF Leads
<1>3. ASSUME NEW k \in level + 1 .. 4, w[k] = v[k]
      PROVE  w[k - 1] = v[k - 1]
  BY <1>1, <1>2, <1>3 DEF Path, Link
<1>4. w[4] = v[4]
  BY <1>1, <1>2
<1>5. level <= 3 => w[3] = v[3]
  BY <1>3, <1>4, 4 - 1 = 3
<1>6. level <= 2 => w[2] = v[2]
  BY <1>3, <1>5, 3 - 1 = 2
<1>7. level <= 1 => w[1] = v[1]
  BY <1>3, <1>6, 2 - 1 = 1
<1>8. level <= 0 => w[0] = v[0]
  BY <1>3, <1>7, 1 - 1 = 0
<1>9. level \in {0, 1, 2, 3, 4}
  OBVIOUS
<1> QED
  BY <1>1, <1>2, <1>4, <1>5, <1>6, <1>7, <1>8, <1>9

(* What the links on the way do in other tables, too, they lead to there. *)
LEMMA LeadsKept ==
    ASSUME NEW tb, NEW new, NEW root, NEW page, NEW user, NEW level \in 0 .. 4, NEW t,
           Leads(tb, root, page, user, level, t),
           \A k \in level + 1 .. 4 : \A a, b :
               /\ Leads(tb, root, page, user, k, a)
               /\ Link(tb, a, Index(page, k), user, b)
               => Link(new, a, Index(page, k), user, b)
    PROVE  Leads(new, root, page, user, level, t)
<1>1. PICK w : w[4] = root /\ w[level] = t /\ Path(tb, page, user, level, w)
  BY DEF Leads
<1>2. ASSUME NEW k \in level + 1 .. 4
      PROVE  Link(new, w[k], Index(page, k), user, w[k - 1])
  <2>1. Leads(tb, root, page, user, k, w[k])
    BY <1>1, k \in level .. 4, LeadsBefore
  <2>2. Link(tb, w[k], Index(page, k), user, w[k - 1])
    BY <1>1 DEF Path
  <2> QED
    BY <2>1, <2>2
<1>3. Path(new, page, user, level, w)
  BY <1>2 DEF Path
<1> QED
  BY <1>1, <1>3 DEF Leads

(* Pages with the same indices share the tables. *)
LEMMA LeadsShared ==
    ASSUME NEW tb, NEW root, NEW page, NEW other, NEW user, NEW level \in 0 .. 4, NEW t,
           Leads(tb, root, page, user, level, t),
           \A k \in level + 1 .. 4 : Index(page, k) = Index(other, k)
    PROVE  Leads(tb, root, other, user, level, t)
<1>1. PICK w : w[4] = root /\ w[level] = t /\ Path(tb, page, user, level, w)
  BY DEF Leads
<1>2. Path(tb, other, user, level, w)
  BY <1>1 DEF Path
<1> QED
  BY <1>1, <1>2 DEF Leads

(* A table on the way is one of its level. *)
LEMMA LeadsToLevel ==
    ASSUME NEW use, NEW tb, NEW hd, NEW lack, Tree(use, tb, hd, lack),
           NEW root \in hd, use[root].level = 4,
           NEW page, NEW user, NEW level \in 1 .. 4, NEW t,
           Leads(tb, root, page, user, level, t)
    PROVE  t \in hd /\ use[t].level = level
<1>1. ASSUME NEW k \in 2 .. 4, NEW a, NEW b, a \in hd, use[a].level = k,
             Link(tb, a, Index(page, k), user, b)
      PROVE  b \in hd /\ use[b].level = k - 1
  <2>1. EntryRight(use, hd, lack, use[a], Index(page, k), tb[a][Index(page, k)])
    BY <1>1 DEF Tree, Link
  <2>2. UsedFor(use, hd, b, Child(use[a], Index(page, k)))
    BY <1>1, <2>1 DEF EntryRight, Link
  <2>3. Child(use[a], Index(page, k)).level = k - 1
    BY <1>1 DEF Child, Use
  <2> QED
    BY <2>2, <2>3 DEF UsedFor
<1>2. PICK w : w[4] = root /\ w[level] = t /\ Path(tb, page, user, level, w)
  BY DEF Leads
<1>3. \A k \in 2 .. 4 : k >= level + 1 => Link(tb, w[k], Index(page, k), user, w[k - 1])
  BY <1>2 DEF Path
<1>4. w[4] \in hd /\ use[w[4]].level = 4
  BY <1>2
<1>5. level <= 3 => w[3] \in hd /\ use[w[3]].level = 3
  <2>1. 4 \in 2 .. 4 /\ 4 - 1 = 3 /\ (level <= 3 => 4 >= level + 1)
    OBVIOUS
  <2> QED
    BY <1>1, <1>3, <1>4, <2>1
<1>6. level <= 2 => w[2] \in hd /\ use[w[2]].level = 2
  <2>1. 3 \in 2 .. 4 /\ 3 - 1 = 2 /\ (level <= 2 => 3 >= level + 1 /\ level <= 3)
    OBVIOUS
  <2> QED
    BY <1>1, <1>3, <1>5, <2>1
<1>7. level <= 1 => w[1] \in hd /\ use[w[1]].level = 1
  <2>1. 2 \in 2 .. 4 /\ 2 - 1 = 1 /\ (level <= 1 => 2 >= level + 1 /\ level <= 2)
    OBVIOUS
  <2> QED
    BY <1>1, <1>3, <1>6, <2>1
<1>8. level \in {1, 2, 3, 4}
  OBVIOUS
<1> QED
  BY <1>2, <1>4, <1>5, <1>6, <1>7, <1>8

(* It is the one for the page. *)
LEMMA LeadsToUse ==
    ASSUME NEW use, NEW tb, NEW hd, NEW lack, Tree(use, tb, hd, lack),
           NEW root, NEW owner, UsedFor(use, hd, root, Use(owner, 4, 0)),
           NEW page \in Pages, NEW user, NEW level \in 1 .. 4, NEW t,
           Leads(tb, root, page, user, level, t)
    PROVE  UsedFor(use, hd, t, Use(IF level = 4 THEN owner ELSE Below(owner, page),
                                   level, Region(page, level)))
<1> DEFINE For(k) == Use(IF k = 4 THEN owner ELSE Below(owner, page), k, Region(page, k))
<1>1. ASSUME NEW k \in 2 .. 4, NEW a, NEW b, UsedFor(use, hd, a, For(k)),
             Link(tb, a, Index(page, k), user, b)
      PROVE  UsedFor(use, hd, b, For(k - 1))
  <2>1. a \in hd /\ use[a] = For(k)
    BY <1>1 DEF UsedFor
  <2>2. EntryRight(use, hd, lack, use[a], Index(page, k), tb[a][Index(page, k)])
    BY <1>1 DEF Tree, Link
  <2>3. use[a].level = k
    BY <2>1 DEF Use
  <2>4. UsedFor(use, hd, b, Child(use[a], Index(page, k)))
    BY <1>1, <2>2, <2>3 DEF EntryRight, Link
  <2>5. Child(For(k), Index(page, k)) = For(k - 1)
    <3>1. CASE k = 4
      <4>1. Child(Use(owner, 4, Region(page, 4)), Index(page, 4)) =
                Use(Below(owner, page), 3, Region(page, 3))
        BY ChildForPage
      <4> QED
        BY <3>1, <4>1, 4 - 1 = 3
    <3>2. CASE k # 4
      <4>1. k \in 1 .. 3 /\ k - 1 # 4
        BY <3>2
      <4>2. Child(Use(Below(owner, page), k, Region(page, k)), Index(page, k)) =
                Use(Below(owner, page), k - 1, Region(page, k - 1))
        BY <4>1, ChildForPage
      <4> QED
        BY <3>2, <4>1, <4>2
    <3> QED
      BY <3>1, <3>2
  <2> QED
    BY <2>1, <2>4, <2>5
<1>2. PICK w : w[4] = root /\ w[level] = t /\ Path(tb, page, user, level, w)
  BY DEF Leads
<1>3. \A k \in 2 .. 4 : k >= level + 1 => Link(tb, w[k], Index(page, k), user, w[k - 1])
  BY <1>2 DEF Path
<1>4. UsedFor(use, hd, w[4], For(4))
  BY <1>2 DEF Region
<1> HIDE DEF For
<1>5. level <= 3 => UsedFor(use, hd, w[3], For(3))
  <2>1. 4 \in 2 .. 4 /\ 4 - 1 = 3 /\ (level <= 3 => 4 >= level + 1)
    OBVIOUS
  <2> QED
    BY <1>1, <1>3, <1>4, <2>1
<1>6. level <= 2 => UsedFor(use, hd, w[2], For(2))
  <2>1. 3 \in 2 .. 4 /\ 3 - 1 = 2 /\ (level <= 2 => 3 >= level + 1 /\ level <= 3)
    OBVIOUS
  <2> QED
    BY <1>1, <1>3, <1>5, <2>1
<1>7. level <= 1 => UsedFor(use, hd, w[1], For(1))
  <2>1. 2 \in 2 .. 4 /\ 2 - 1 = 1 /\ (level <= 1 => 2 >= level + 1 /\ level <= 2)
    OBVIOUS
  <2> QED
    BY <1>1, <1>3, <1>6, <2>1
<1>8. UsedFor(use, hd, w[level], For(level))
  <2>1. level \in {1, 2, 3, 4}
    OBVIOUS
  <2> QED
    BY <1>4, <1>5, <1>6, <1>7, <2>1
<1> QED
  BY <1>2, <1>8 DEF For

(* What a path ends with is what the model's sets contain.                 *)
LEMMA LeadsIsTranslate ==
    ASSUME NEW root, NEW page
    PROVE  \A f : /\ Leads(tables, root, page, FALSE, 1, f) <=> f \in PageTable(root, page)
                  /\ Leads(tables, root, page, FALSE, 0, f) <=> f \in Translate(root, page)
<1> DEFINE In(level, S) == \A t : t \in S <=> Leads(tables, root, page, FALSE, level, t)
<1>1. ASSUME NEW level \in 1 .. 4, NEW S, In(level, S)
      PROVE  In(level - 1, Down(S, page, level))
  <2>1. ASSUME NEW t \in Down(S, page, level)
        PROVE  Leads(tables, root, page, FALSE, level - 1, t)
    <3>1. PICK u \in S : Has(u, Index(page, level)) /\ t = tables[u][Index(page, level)].frame
      BY DEF Down
    <3>2. Link(tables, u, Index(page, level), FALSE, t)
      BY <3>1 DEF Link, Has
    <3> QED
      BY <1>1, <3>2, LeadsOn
  <2>2. ASSUME NEW t, Leads(tables, root, page, FALSE, level - 1, t)
        PROVE  t \in Down(S, page, level)
    <3>1. PICK u : Leads(tables, root, page, FALSE, level, u)
                   /\ Link(tables, u, Index(page, level), FALSE, t)
      BY <2>2, LeadsFrom
    <3> QED
      BY <1>1, <3>1 DEF Down, Link, Has
  <2> QED
    BY <2>1, <2>2
<1>2. In(4, {root})
  BY LeadsToRoot
<1> HIDE DEF In
<1>3. In(3, Down({root}, page, 4))
  BY <1>1, <1>2, 4 \in 1 .. 4, 4 - 1 = 3
<1>4. In(2, Down(Down({root}, page, 4), page, 3))
  BY <1>1, <1>3, 3 \in 1 .. 4, 3 - 1 = 2
<1>5. In(1, PageTable(root, page))
  BY <1>1, <1>4, 2 \in 1 .. 4, 2 - 1 = 1 DEF PageTable
<1>6. In(0, Translate(root, page))
  BY <1>1, <1>5, 1 \in 1 .. 4, 1 - 1 = 0 DEF Translate
<1> QED
  BY <1>5, <1>6 DEF In

LEMMA LeadsIsUserTranslate ==
    ASSUME NEW root, NEW page
    PROVE  \A f : Leads(tables, root, page, TRUE, 0, f) <=> f \in UserTranslate(root, page)
<1> DEFINE In(level, S) == \A t : t \in S <=> Leads(tables, root, page, TRUE, level, t)
<1>1. ASSUME NEW level \in 1 .. 4, NEW S, In(level, S)
      PROVE  In(level - 1, UserDown(S, page, level))
  <2>1. ASSUME NEW t \in UserDown(S, page, level)
        PROVE  Leads(tables, root, page, TRUE, level - 1, t)
    <3>1. PICK u \in S : /\ Has(u, Index(page, level)) /\ tables[u][Index(page, level)].user
                         /\ t = tables[u][Index(page, level)].frame
      BY DEF UserDown
    <3>2. Link(tables, u, Index(page, level), TRUE, t)
      BY <3>1 DEF Link, Has
    <3> QED
      BY <1>1, <3>2, LeadsOn
  <2>2. ASSUME NEW t, Leads(tables, root, page, TRUE, level - 1, t)
        PROVE  t \in UserDown(S, page, level)
    <3>1. PICK u : Leads(tables, root, page, TRUE, level, u)
                   /\ Link(tables, u, Index(page, level), TRUE, t)
      BY <2>2, LeadsFrom
    <3> QED
      BY <1>1, <3>1 DEF UserDown, Link, Has
  <2> QED
    BY <2>1, <2>2
<1>2. In(4, {root})
  BY LeadsToRoot
<1> HIDE DEF In
<1>3. In(3, UserDown({root}, page, 4))
  BY <1>1, <1>2, 4 \in 1 .. 4, 4 - 1 = 3
<1>4. In(2, UserDown(UserDown({root}, page, 4), page, 3))
  BY <1>1, <1>3, 3 \in 1 .. 4, 3 - 1 = 2
<1>5. In(1, UserDown(UserDown(UserDown({root}, page, 4), page, 3), page, 2))
  BY <1>1, <1>4, 2 \in 1 .. 4, 2 - 1 = 1
<1>6. In(0, UserTranslate(root, page))
  BY <1>1, <1>5, 1 \in 1 .. 4, 1 - 1 = 0 DEF UserTranslate
<1> QED
  BY <1>6 DEF In

(* An entry is written: a step of a walk changes one link at most. *)
Wrote(tb, new, at, i, e) ==
    \A user \in BOOLEAN : \A a, j, b :
        Link(new, a, j, user, b) <=>
            IF a = at /\ j = i THEN b = e.frame /\ (user => e.user) ELSE Link(tb, a, j, user, b)

LEMMA PutWrites ==
    ASSUME NEW tb, NEW at \in DOMAIN tb, NEW i, NEW e
    PROVE  Wrote(tb, [tb EXCEPT ![at] = Put(@, i, e)], at, i, e)
<1>1. PICK new : new = [tb EXCEPT ![at] = Put(@, i, e)]
  OBVIOUS
<1>2. /\ DOMAIN new = DOMAIN tb /\ new[at] = Put(tb[at], i, e)
      /\ \A a \in DOMAIN tb : a # at => new[a] = tb[a]
  BY <1>1
<1>3. /\ DOMAIN new[at] = DOMAIN tb[at] \cup {i} /\ new[at][i] = e
      /\ \A j \in DOMAIN tb[at] : j # i => new[at][j] = tb[at][j]
  BY <1>2 DEF Put
<1>4. ASSUME NEW user \in BOOLEAN, NEW a, NEW j, NEW b
      PROVE  Link(new, a, j, user, b) <=>
                 IF a = at /\ j = i THEN b = e.frame /\ (user => e.user)
                 ELSE Link(tb, a, j, user, b)
  <2>1. CASE a = at /\ j = i
    BY <1>2, <1>3, <2>1 DEF Link
  <2>2. CASE a = at /\ j # i
    BY <1>2, <1>3, <2>2 DEF Link
  <2>3. CASE a # at
    BY <1>2, <2>3 DEF Link
  <2> QED
    BY <2>1, <2>2, <2>3
<1> QED
  BY <1>1, <1>4 DEF Wrote

LEMMA AllocateWrites ==
    ASSUME NEW tb, NEW at \in DOMAIN tb, NEW i, NEW e, NEW f, f \notin DOMAIN tb, NEW new,
           new = [t \in DOMAIN tb \cup {f} |->
                     IF t = f THEN Empty ELSE IF t = at THEN Put(tb[t], i, e) ELSE tb[t]]
    PROVE  Wrote(tb, new, at, i, e) /\ \A j, user, b : ~Link(new, f, j, user, b)
<1>2. /\ DOMAIN new = DOMAIN tb \cup {f} /\ new[at] = Put(tb[at], i, e) /\ new[f] = Empty
      /\ \A a \in DOMAIN tb : a # at => new[a] = tb[a]
  OBVIOUS
<1>3. /\ DOMAIN new[at] = DOMAIN tb[at] \cup {i} /\ new[at][i] = e
      /\ \A j \in DOMAIN tb[at] : j # i => new[at][j] = tb[at][j]
  BY <1>2 DEF Put
<1>4. DOMAIN new[f] = {}
  BY <1>2 DEF Empty
<1>5. ASSUME NEW user \in BOOLEAN, NEW a, NEW j, NEW b
      PROVE  Link(new, a, j, user, b) <=>
                 IF a = at /\ j = i THEN b = e.frame /\ (user => e.user)
                 ELSE Link(tb, a, j, user, b)
  <2>1. CASE a = at /\ j = i
    BY <1>2, <1>3, <2>1 DEF Link
  <2>2. CASE a = at /\ j # i
    BY <1>2, <1>3, <2>2 DEF Link
  <2>3. CASE a # at /\ a # f
    BY <1>2, <2>3 DEF Link
  <2>4. CASE a = f
    BY <1>4, <2>4 DEF Link
  <2> QED
    BY <2>1, <2>2, <2>3, <2>4
<1>6. \A j, user, b : ~Link(new, f, j, user, b)
  BY <1>4 DEF Link
<1> QED
  BY <1>5, <1>6 DEF Wrote

(* Backwards: a path of the new tables was one of the old ones, if the     *)
(* links it takes from tables reached before were there.                   *)
LEMMA LeadsBack ==
    ASSUME NEW tb, NEW new, NEW root, NEW page, NEW user, NEW f,
           Leads(new, root, page, user, 0, f),
           \A k \in 1 .. 4 : \A a, b :
               /\ Leads(tb, root, page, user, k, a)
               /\ Link(new, a, Index(page, k), user, b)
               /\ k > 1 => \E c : Link(new, b, Index(page, k - 1), user, c)
               => Link(tb, a, Index(page, k), user, b)
    PROVE  Leads(tb, root, page, user, 0, f)
<1>1. PICK w : w[4] = root /\ w[0] = f /\ Path(new, page, user, 0, w)
  BY DEF Leads
<1>2. ASSUME NEW k \in 1 .. 4, Leads(tb, root, page, user, k, w[k])
      PROVE  Leads(tb, root, page, user, k - 1, w[k - 1])
  <2>0. 0 + 1 = 1
    OBVIOUS
  <2>1. \A l \in 1 .. 4 : Link(new, w[l], Index(page, l), user, w[l - 1])
    BY <1>1, <2>0 DEF Path
  <2>2. k > 1 => Link(new, w[k - 1], Index(page, k - 1), user, w[k - 1 - 1])
    <3>1. k > 1 => k - 1 \in 1 .. 4
      OBVIOUS
    <3> QED
      BY <2>1, <3>1
  <2>3. Link(tb, w[k], Index(page, k), user, w[k - 1])
    BY <1>2, <2>1, <2>2
  <2> QED
    BY <1>2, <2>3, LeadsOn
<1>3. Leads(tb, root, page, user, 4, w[4])
  BY <1>1, LeadsToRoot
<1>4. Leads(tb, root, page, user, 3, w[3])
  BY <1>2, <1>3, 4 \in 1 .. 4, 4 - 1 = 3
<1>5. Leads(tb, root, page, user, 2, w[2])
  BY <1>2, <1>4, 3 \in 1 .. 4, 3 - 1 = 2
<1>6. Leads(tb, root, page, user, 1, w[1])
  BY <1>2, <1>5, 2 \in 1 .. 4, 2 - 1 = 1
<1>7. Leads(tb, root, page, user, 0, w[0])
  BY <1>2, <1>6, 1 \in 1 .. 4, 1 - 1 = 0
<1> QED
  BY <1>1, <1>7

(* Above the last level nothing leads through the tables of another level. *)
LEMMA WrittenElsewhere ==
    ASSUME NEW use, NEW tb, NEW hd, NEW lack, Tree(use, tb, hd, lack),
           NEW root \in hd, use[root].level = 4, NEW new, NEW at, NEW i, NEW e,
           Wrote(tb, new, at, i, e), NEW page, NEW user \in BOOLEAN,
           NEW level \in 0 .. 4, at \in hd => use[at].level \in 0 .. level,
           NEW t, Leads(tb, root, page, user, level, t)
    PROVE  Leads(new, root, page, user, level, t)
<1>1. ASSUME NEW k \in level + 1 .. 4, NEW a, NEW b,
             Leads(tb, root, page, user, k, a), Link(tb, a, Index(page, k), user, b)
      PROVE  Link(new, a, Index(page, k), user, b)
  <2>1. k \in 1 .. 4
    OBVIOUS
  <2>2. a \in hd /\ use[a].level = k
    BY <1>1, <2>1, LeadsToLevel
  <2>3. a # at
    BY <2>2
  <2> QED
    BY <1>1, <2>3 DEF Wrote
<1> QED
  BY <1>1, LeadsKept

-----------------------------------------------------------------------------
(* The invariant of what is mapped.  Each part says of the pages a loop has*)
(* begun with that they are mapped or still ahead of the loop, or that     *)
(* memory has run out: it never comes back, so that the loop that takes a  *)
(* frame for each of its pages, and checks, panics before it ends.         *)

Booting == {"pml4", "heap"} \cup Initializing
Ahead == loop.next .. loop.end - 1
Root == IF pc \in Serving THEN pml4[process] ELSE kernelPML4

(* Memory has run out, and what is to be mapped last is not yet.           *)
Short(last) == FreeFrames = {} /\ (pc = last => walk = NoWalk /\ loop.next < loop.end)

(* A walk is where it leads, and maps a page that is not at the end.       *)
WalkPlace ==
    walk # NoWalk =>
        /\ pc # "ready"
        /\ Leads(tables, Root, loop.next, walk.user, walk.level, walk.table)
        /\ loop.next < loop.end

(* The frame a page of the kernel is for, but for those of its heap.       *)
FrameOf(page) ==
    IF page < KernelBase THEN page - HhdmBase
    ELSE IF page < KernelHeapStart THEN page - KernelBase
    ELSE FramebufferFrame + (page - FramebufferBase)

StretchInv ==
    pc \in Initializing =>
        /\ \A page \in Ahead : PhysicalOf(page) = FrameOf(page)
        /\ walk # NoWalk => walk.phys = FrameOf(loop.next)

(* The pages the kernel has begun to map. *)
Begun(page) ==
    \/ page \in HhdmBase .. HhdmBase + TotalPageCount - 1 /\ pc # "pml4"
    \/ /\ page \in KernelBase + KernelFirst .. KernelBase + KernelEnd - 1
       /\ pc \notin {"pml4", "hhdm"} /\ (page = GuardPage => pc \in Initializing)
    \/ /\ page \in FramebufferBase .. FramebufferBase + FramebufferPages - 1
       /\ pc \notin {"pml4", "hhdm", "kernel"}
    \/ page \in KernelHeap /\ pc \notin {"pml4"} \cup Initializing

KernelMaps(page) ==
    \E f : Leads(tables, kernelPML4, page, FALSE, 0, f)
           /\ (page \in KernelHeap \/ f = FrameOf(page))

KernelMapInv ==
    \/ \A page \in KernelPages :
           Begun(page) => (pc \in Booting /\ page \in Ahead) \/ KernelMaps(page)
    \/ pc \in {"heap"} \cup Initializing /\ Short("heap")

Unmapped(page) == ~\E f : Leads(tables, kernelPML4, page, FALSE, 0, f)

GuardInv == pc \notin {"pml4"} \cup Initializing => Unmapped(GuardPage)

(* All address spaces share the kernel's half. *)
SharedInv ==
    \A p \in Processes : pml4[p] # 0 =>
        \A i \in KernelHalf : \A f :
            Link(tables, pml4[p], i, FALSE, f) <=> Link(tables, kernelPML4, i, FALSE, f)

(* The processes there are. *)
SpawnedInv ==
    /\ pc \in Booting => nextProcessID = 1
    /\ pc \in Serving => process < nextProcessID
    /\ \A p \in Processes :
        /\ p >= nextProcessID => state[p] = "none" /\ pml4[p] = 0
        /\ p < nextProcessID /\ pml4[p] = 0 => FreeFrames = {}
        /\ state[p] # "running" => granted[p] = {}
    /\ pc = "grow" => state[process] = "running"
    /\ pc = "segments" => image[process].magic
    /\ granted \in [Processes -> SUBSET Int]

PagesIn(s) == IF s.memsz = 0 THEN {} ELSE PagesOf(s).next .. PagesOf(s).end - 1

(* The pages of the first n segments of a program. *)
ProgramPages(p, n) ==
    {page \in Int : \E i \in DOMAIN image[p].segments :
                        i <= n /\ page \in PagesIn(image[p].segments[i])}

(* All the pages a process has to have when it runs. *)
Needs(p, page) ==
    \/ page \in UserStackBottom .. UserStackTop - 1
    \/ image[p].magic /\ page \in ProgramPages(p, Len(image[p].segments))

Placed(p, page) == \E f : Leads(tables, pml4[p], page, TRUE, 0, f)

(* What the load has begun to map. *)
Due(page) ==
    \/ pc = "segments" /\ page \in ProgramPages(process, segment - 1)
    \/ pc = "stack" /\ Needs(process, page)

LoadInv ==
    pc \in {"segments", "stack"} =>
        \/ \A page \in Int : Due(page) => page \in Ahead \/ Placed(process, page)
        \/ Short("stack")

RunInv ==
    \A p \in RunningProcesses :
        /\ \A page \in Int : Needs(p, page) => Placed(p, page)
        /\ \A page \in granted[p] : Placed(p, page) \/ FreeFrames = {}

GrowInv ==
    pc = "grow" =>
        \A page \in heapCurrent[process] .. loop.end - 1 :
            page \in Ahead \/ Placed(process, page) \/ FreeFrames = {}

MappedInv ==
    /\ WalkPlace /\ StretchInv /\ KernelMapInv /\ GuardInv /\ SharedInv
    /\ SpawnedInv /\ LoadInv /\ RunInv /\ GrowInv

(* Where a walk starts. *)
LEMMA RootThere ==
    ASSUME LoaderInv, MappedInv, pc # "pml4",
           NEW use, Tree(use, tables, held, Lacking), Roots(use)
    PROVE  /\ Root = 0 => FreeFrames = {}
           /\ Root # 0 => UsedFor(use, held, Root, Use(Actor, 4, 0))
                          /\ Root \in held /\ use[Root].level = 4
           /\ 0 \notin held /\ 0 \notin DOMAIN tables
<1>1. 0 \notin held /\ 0 \notin DOMAIN tables
  BY HeldFacts DEF LoaderInv, Tree
<1>2. ASSUME Root # 0
      PROVE  /\ UsedFor(use, held, Root, Use(Actor, 4, 0))
             /\ Root \in held /\ use[Root].level = 4
  <2>1. pc \in Serving => process \in Processes
    BY DEF LoaderInv, ProcessInv
  <2>2. UsedFor(use, held, Root, Use(Actor, 4, 0))
    BY <1>2, <2>1, RootOfActor DEF Root
  <2> QED
    BY <2>2 DEF UsedFor, Use
<1>3. ASSUME Root = 0
      PROVE  FreeFrames = {}
  <2>1. CASE pc \in Serving
    <3>1. process \in Processes /\ process < nextProcessID /\ pml4[process] = 0
      BY <1>3, <2>1 DEF MappedInv, SpawnedInv, Root, LoaderInv, ProcessInv
    <3> QED
      BY <3>1 DEF MappedInv, SpawnedInv
  <2>2. CASE pc \notin Serving
    <3>1. kernelPML4 = 0
      BY <1>3, <2>2 DEF Root
    <3> QED
      BY <3>1 DEF LoaderInv, KernelInv
  <2> QED
    BY <2>1, <2>2
<1> QED
  BY <1>1, <1>2, <1>3

(* Where a walk is. *)
LEMMA WalkThere ==
    ASSUME LoaderInv, MappedInv, walk # NoWalk,
           NEW use, Tree(use, tables, held, Lacking), Roots(use), WalkRight(use)
    PROVE  /\ Leads(tables, Root, loop.next, walk.user, walk.level, walk.table)
           /\ walk.level \in 1 .. 4 /\ walk.user \in BOOLEAN /\ walk.user = (pc \in Serving)
           /\ pc \in {"heap"} \cup Initializing \cup Serving
           /\ pc \in Serving => loop.next \notin KernelPages
           /\ loop.next \in Pages /\ loop.next < loop.end
           /\ FreeFrames # {} \/ walk.level # 4 \/ walk.table # 0
              => /\ Root # 0 /\ walk.table \in DOMAIN tables
                 /\ use[walk.table] = WalkUse(walk.level)
                 /\ use[walk.table].level = walk.level
<1>1. /\ Leads(tables, Root, loop.next, walk.user, walk.level, walk.table)
      /\ loop.next < loop.end
  BY DEF MappedInv, WalkPlace
<1>2. pc # "pml4" /\ pc \in {"heap"} \cup Initializing \cup Serving
  BY DEF LoaderInv, KernelInv, MappedInv, WalkPlace
<1>3. /\ walk.level \in 1 .. 4 /\ walk.user = (pc \in Serving) /\ PageRight
      /\ walk.table # 0 => UsedFor(use, held, walk.table, WalkUse(walk.level))
  BY WalkFacts, Zenon
<1>4. walk.user \in BOOLEAN
  <2>1. walk.user = (pc \in Serving)
    BY <1>3
  <2>2. CASE pc \in Serving
    <3>1. (pc \in Serving) = TRUE
      BY <2>2
    <3> QED
      BY <2>1, <3>1
  <2>3. CASE ~(pc \in Serving)
    <3>1. (pc \in Serving) = FALSE
      BY <2>3
    <3> QED
      BY <2>1, <3>1
  <2> QED
    BY <2>2, <2>3
<1>5. /\ Root = 0 => FreeFrames = {}
      /\ Root # 0 => Root \in held /\ use[Root].level = 4
      /\ 0 \notin held /\ 0 \notin DOMAIN tables
  BY <1>2, RootThere
<1>6. Root # 0 => walk.table \in DOMAIN tables /\ use[walk.table].level = walk.level
  <2>1. SUFFICES ASSUME Root # 0
                 PROVE  walk.table \in DOMAIN tables /\ use[walk.table].level = walk.level
    OBVIOUS
  <2>2. walk.table \in held /\ use[walk.table].level = walk.level
    BY <1>1, <1>3, <1>5, <2>1, LeadsToLevel
  <2>3. DOMAIN tables = {f \in held : use[f].level > 0}
    BY DEF Tree
  <2> QED
    BY <1>3, <2>2, <2>3
<1>7. Root = 0 => walk.level = 4 /\ walk.table = 0
  <2>1. SUFFICES ASSUME Root = 0
                 PROVE  walk.level = 4 /\ walk.table = 0
    OBVIOUS
  <2>2. PICK w : w[4] = 0 /\ w[walk.level] = walk.table
                 /\ Path(tables, loop.next, walk.user, walk.level, w)
    BY <1>1, <2>1 DEF Leads
  <2>3. walk.level < 4 => Link(tables, w[4], Index(loop.next, 4), walk.user, w[4 - 1])
    <3>1. walk.level < 4 => 4 \in walk.level + 1 .. 4
      BY <1>3
    <3> QED
      BY <2>2, <3>1 DEF Path
  <2>4. ~Link(tables, w[4], Index(loop.next, 4), walk.user, w[4 - 1])
    BY <1>5, <2>2 DEF Link
  <2> QED
    BY <1>3, <2>2, <2>3, <2>4
<1>8. walk.table \in DOMAIN tables => use[walk.table] = WalkUse(walk.level)
  BY <1>3, <1>5 DEF UsedFor
<1> QED
  BY <1>1, <1>2, <1>3, <1>4, <1>5, <1>6, <1>7, <1>8 DEF PageRight

-----------------------------------------------------------------------------
(* What a walk does to what is mapped.                                     *)

LEMMA LevelOfUse ==
    ASSUME NEW use, NEW f, NEW owner, NEW level, NEW region,
           UsedFor(use, held, f, Use(owner, level, region))
    PROVE  f \in held /\ use[f].level = level
<1>1. PICK u : u = Use(owner, level, region)
  OBVIOUS
<1>2. u.level = level
  BY <1>1 DEF Use
<1> QED
  BY <1>1, <1>2 DEF UsedFor

(* What is reached from a table walks start at. *)
LEMMA ReachedLevel ==
    ASSUME NEW use, Tree(use, tables, held, Lacking), NEW root \in held, use[root].level = 4
    PROVE  \A page, user, t : \A k \in 1 .. 4 :
               Leads(tables, root, page, user, k, t) => use[t].level = k
<1>1. ASSUME NEW page, NEW user, NEW t, NEW k \in 1 .. 4, Leads(tables, root, page, user, k, t)
      PROVE  use[t].level = k
  BY <1>1, LeadsToLevel
<1> QED
  BY <1>1

(* The page tables are reached as before when an entry of one is written.  *)
LEMMA ReachedAgain ==
    ASSUME NEW use, Tree(use, tables, held, Lacking), NEW root \in held, use[root].level = 4,
           NEW new, NEW at, NEW i, NEW e, Wrote(tables, new, at, i, e), use[at].level = 1
    PROVE  \A page, t : \A user \in BOOLEAN :
               Leads(tables, root, page, user, 1, t) => Leads(new, root, page, user, 1, t)
<1>1. ASSUME NEW page, NEW user \in BOOLEAN, NEW t, Leads(tables, root, page, user, 1, t)
      PROVE  Leads(new, root, page, user, 1, t)
  <2>1. 1 \in 0 .. 4 /\ (at \in held => use[at].level \in 0 .. 1)
    OBVIOUS
  <2> QED
    BY <1>1, <2>1, WrittenElsewhere
<1> QED
  BY <1>1

(* The tables walks start at. *)
LEMMA RootLevel ==
    ASSUME NEW use, Roots(use),
           NEW root, root # 0, root = kernelPML4 \/ \E p \in Processes : root = pml4[p]
    PROVE  root \in held /\ use[root].level = 4
<1>1. \E owner : UsedFor(use, held, root, Use(owner, 4, 0))
  BY DEF Roots
<1> QED
  BY <1>1, LevelOfUse

TablesKept ==
    /\ \A page \in KernelPages : KernelMaps(page) => KernelMaps(page)'
    /\ GuardInv /\ pc \notin {"pml4"} \cup Initializing => Unmapped(GuardPage)'
    /\ SharedInv'
    /\ \A p \in Processes : \A page \in Int : Placed(p, page) => Placed(p, page)'

(* The kernel's half is not written to for a process. *)
LEMMA SharedKept ==
    ASSUME LoaderInv, MappedInv, walk # NoWalk, UNCHANGED <<kernelPML4, pml4>>,
           NEW use, Tree(use, tables, held, Lacking), Roots(use), WalkRight(use),
           walk.table \in DOMAIN tables, NEW e,
           Wrote(tables, tables', walk.table, Slot, e)
    PROVE  SharedInv'
<1>1. /\ walk.level \in 1 .. 4 /\ loop.next \in Pages
      /\ pc \in {"heap"} \cup Initializing \cup Serving
      /\ pc \in Serving => loop.next \notin KernelPages
  BY WalkThere
<1>2. 0 \notin DOMAIN tables
  BY HeldFacts DEF LoaderInv, Tree
<1>3. use[walk.table] = WalkUse(walk.level)
  BY <1>2, WalkFacts DEF UsedFor
<1>4. CASE pc \in Serving
  <2>1. kernelPML4 # 0
    BY <1>4 DEF LoaderInv, KernelInv, Serving, Initializing
  <2>2. ASSUME NEW root, root = kernelPML4 \/ \E p \in Processes : root = pml4[p], root # 0,
               NEW i \in KernelHalf
        PROVE  \A f : Link(tables', root, i, FALSE, f) <=> Link(tables, root, i, FALSE, f)
    <3>1. use[root].level = 4
      BY <2>2, RootLevel
    <3>2. walk.table = root => walk.level = 4
      BY <1>3, <3>1 DEF WalkUse, Use
    <3>3. walk.level = 4 => Slot \notin KernelHalf
      <4>1. Index(loop.next, 4) \notin KernelHalf
        BY <1>1, <1>4, HalfByIndex
      <4> QED
        BY <4>1 DEF Slot
    <3>4. ~(root = walk.table /\ i = Slot)
      BY <2>2, <3>2, <3>3
    <3> QED
      BY <3>4 DEF Wrote
  <2>3. ASSUME NEW p \in Processes, pml4[p] # 0, NEW i \in KernelHalf, NEW f
        PROVE  Link(tables', pml4[p], i, FALSE, f) <=> Link(tables', kernelPML4, i, FALSE, f)
    <3>1. Link(tables, pml4[p], i, FALSE, f) <=> Link(tables, kernelPML4, i, FALSE, f)
      BY <2>3 DEF MappedInv, SharedInv
    <3> QED
      BY <2>1, <2>2, <2>3, <3>1
  <2> QED
    BY <2>3 DEF SharedInv
<1>5. CASE pc \notin Serving
  <2>1. pc \in Booting
    BY <1>1, <1>5 DEF Booting
  <2>2. nextProcessID = 1
    BY <2>1 DEF MappedInv, SpawnedInv
  <2>3. \A p \in Processes : pml4[p] = 0
    BY <2>2 DEF MappedInv, SpawnedInv, Processes
  <2> QED
    BY <2>3 DEF SharedInv
<1> QED
  BY <1>4, <1>5

LEMMA KernelRoot ==
    ASSUME LoaderInv, MappedInv, walk # NoWalk, NEW use, Roots(use)
    PROVE  \/ /\ kernelPML4 # 0 /\ UsedFor(use, held, kernelPML4, Use(0, 4, 0))
              /\ kernelPML4 \in held /\ use[kernelPML4].level = 4
           \/ pc \in Initializing /\ FreeFrames = {} /\ kernelPML4 = 0
<1>1. pc # "pml4"
  BY DEF LoaderInv, KernelInv
<1>2. kernelPML4 # 0 => UsedFor(use, held, kernelPML4, Use(0, 4, 0))
  BY DEF Roots
<1>3. kernelPML4 = 0 => pc \in Initializing /\ FreeFrames = {}
  BY <1>1 DEF LoaderInv, KernelInv
<1> QED
  BY <1>2, <1>3 DEF UsedFor, Use

(* A table is entered, or added and linked. *)
LEMMA WalkGrows ==
    ASSUME LoaderInv, MappedInv, walk # NoWalk, UNCHANGED <<kernelPML4, pml4>>,
           NEW use, Tree(use, tables, held, Lacking), Roots(use), WalkRight(use),
           walk.table \in DOMAIN tables, use[walk.table].level \in 2 .. 4, NEW e,
           Wrote(tables, tables', walk.table, Slot, e),
           \A user \in BOOLEAN : \A b :
               Link(tables, walk.table, Slot, user, b) => b = e.frame /\ (user => e.user),
           \/ Link(tables, walk.table, Slot, FALSE, e.frame)
           \/ \A j, user, b : ~Link(tables', e.frame, j, user, b)
    PROVE  /\ TablesKept
           /\ \A root, page, level, t : \A user \in BOOLEAN :
                  level \in 0 .. 4 /\ Leads(tables, root, page, user, level, t) =>
                      Leads(tables', root, page, user, level, t)
<1>1. ASSUME NEW user \in BOOLEAN, NEW a, NEW j, NEW b, Link(tables, a, j, user, b)
      PROVE  Link(tables', a, j, user, b)
  BY <1>1 DEF Wrote
<1>2. ASSUME NEW root, NEW page, NEW level \in 0 .. 4, NEW t, NEW user \in BOOLEAN,
             Leads(tables, root, page, user, level, t)
      PROVE  Leads(tables', root, page, user, level, t)
  BY <1>1, <1>2, LeadsKept
<1>3. ASSUME NEW page \in KernelPages, KernelMaps(page)
      PROVE  KernelMaps(page)'
  <2>1. PICK f : Leads(tables, kernelPML4, page, FALSE, 0, f)
                 /\ (page \in KernelHeap \/ f = FrameOf(page))
    BY <1>3 DEF KernelMaps
  <2>2. Leads(tables', kernelPML4, page, FALSE, 0, f)
    BY <1>2, <2>1, 0 \in 0 .. 4, FALSE \in BOOLEAN, Zenon
  <2>3. Leads(tables', kernelPML4', page, FALSE, 0, f)
    BY <2>2
  <2> QED
    BY <2>1, <2>3 DEF KernelMaps
<1>4. ASSUME NEW p \in Processes, NEW page \in Int, Placed(p, page)
      PROVE  Placed(p, page)'
  <2>1. PICK f : Leads(tables, pml4[p], page, TRUE, 0, f)
    BY <1>4 DEF Placed
  <2>2. Leads(tables', pml4[p], page, TRUE, 0, f)
    BY <1>2, <2>1, 0 \in 0 .. 4, TRUE \in BOOLEAN, Zenon
  <2>3. Leads(tables', pml4'[p], page, TRUE, 0, f)
    BY <2>2
  <2> QED
    BY <2>3 DEF Placed
<1>5. ASSUME Unmapped(GuardPage), pc \notin {"pml4"} \cup Initializing,
             NEW f, Leads(tables', kernelPML4, GuardPage, FALSE, 0, f)
      PROVE  FALSE
  <2>1. kernelPML4 \in held /\ use[kernelPML4].level = 4
    BY <1>5, KernelRoot
  <2>2. ASSUME NEW k \in 1 .. 4, NEW a, NEW b, Leads(tables, kernelPML4, GuardPage, FALSE, k, a),
               Link(tables', a, Index(GuardPage, k), FALSE, b),
               k > 1 => \E c : Link(tables', b, Index(GuardPage, k - 1), FALSE, c)
        PROVE  Link(tables, a, Index(GuardPage, k), FALSE, b)
    <3>1. CASE a = walk.table /\ Index(GuardPage, k) = Slot
      <4>1. b = e.frame
        BY <2>2, <3>1 DEF Wrote
      <4>2. use[a].level = k
        <5>1. Leads(tables, kernelPML4, GuardPage, FALSE, k, a)
          BY <2>2
        <5>2. kernelPML4 \in held
          BY <2>1
        <5>3. use[kernelPML4].level = 4
          BY <2>1
        <5> QED
          BY <5>1, <5>2, <5>3, ReachedLevel
      <4>3. k > 1
        BY <3>1, <4>2
      <4> QED
        BY <2>2, <3>1, <4>1, <4>3
    <3>2. CASE ~(a = walk.table /\ Index(GuardPage, k) = Slot)
      BY <2>2, <3>2 DEF Wrote
    <3> QED
      BY <3>1, <3>2
  <2>3. Leads(tables, kernelPML4, GuardPage, FALSE, 0, f)
    BY <1>5, <2>2, LeadsBack
  <2> QED
    BY <1>5, <2>3 DEF Unmapped
<1>6. GuardInv /\ pc \notin {"pml4"} \cup Initializing => Unmapped(GuardPage)'
  BY <1>5 DEF GuardInv, Unmapped
<1>7. SharedInv'
  BY SharedKept
<1> QED
  BY <1>2, <1>3, <1>4, <1>6, <1>7 DEF TablesKept

(* What leads to an entry of a table at the last level is its page.        *)
LEMMA LeafPage ==
    ASSUME LoaderInv, walk.level = 1, walk # NoWalk,
           NEW use, Tree(use, tables, held, Lacking), Roots(use), WalkRight(use),
           walk.table \in DOMAIN tables, kernelPML4 # 0,
           NEW page \in KernelPages, Leads(tables, kernelPML4, page, FALSE, 1, walk.table),
           Index(page, 1) = Slot
    PROVE  page = loop.next
<1>0. PageRight
  BY WalkFacts, Zenon
<1>1. page \in Pages /\ loop.next \in Pages /\ 1 \in 1 .. 4 /\ 1 - 1 = 0
  BY <1>0 DEF KernelPages, PageRight
<1>2. UsedFor(use, held, walk.table, Use(Below(0, page), 1, Region(page, 1)))
  <2>1. UsedFor(use, held, kernelPML4, Use(0, 4, 0))
    BY DEF Roots
  <2>2. UsedFor(use, held, walk.table,
                Use(IF 1 = 4 THEN 0 ELSE Below(0, page), 1, Region(page, 1)))
    BY <1>1, <2>1, LeadsToUse
  <2> QED
    BY <2>2
<1>3. UsedFor(use, held, walk.table, WalkUse(walk.level))
  <2>1. walk.table # 0
    BY HeldFacts DEF LoaderInv, Tree
  <2> QED
    BY <2>1, WalkFacts
<1>4. Region(page, 1) = Region(loop.next, 1)
  BY <1>2, <1>3 DEF UsedFor, WalkUse, Use
<1>5. /\ Region(page, 0) = Region(page, 1) * Entries + Index(page, 1)
      /\ Region(loop.next, 0) = Region(loop.next, 1) * Entries + Index(loop.next, 1)
  BY <1>1, RegionStep
<1> QED
  BY <1>4, <1>5 DEF Region, Slot

(* The kernel maps the pages of its image below its heap. *)
LEMMA GuardFacts ==
    /\ GuardPage \in KernelPages /\ GuardPage \in Pages /\ GuardPage \notin KernelHeap
    /\ GuardPage \in KernelBase + KernelFirst .. KernelBase + KernelEnd - 1
<1>1. GuardPage \in KernelPages /\ GuardPage \in Pages /\ GuardPage \in Nat
  BY VirtualMemoryAssumption, LayoutFacts DEF KernelPages
<1>2. GuardPage - KernelBase \in KernelFirst .. KernelEnd - 1
  BY VirtualMemoryAssumption, LastPagesAssumption
<1> QED
  BY <1>1, <1>2, LayoutFacts DEF KernelHeap

(* The page is written. *)
LEMMA WalkWrites ==
    ASSUME LoaderInv, MappedInv, walk # NoWalk, walk.level = 1,
           UNCHANGED <<kernelPML4, pml4>>,
           NEW use, Tree(use, tables, held, Lacking), Roots(use), WalkRight(use),
           NEW e, e.frame = walk.phys, e.user = walk.user,
           Wrote(tables, tables', walk.table, Slot, e)
    PROVE  /\ TablesKept
           /\ Leads(tables', Root, loop.next, walk.user, 0, walk.phys)
<1>1. /\ Leads(tables, Root, loop.next, walk.user, 1, walk.table)
      /\ walk.user \in BOOLEAN /\ walk.user = (pc \in Serving)
      /\ pc \in {"heap"} \cup Initializing \cup Serving
      /\ loop.next \in Pages /\ loop.next < loop.end
      /\ pc \in Serving => loop.next \notin KernelPages
      /\ Root # 0 /\ walk.table \in DOMAIN tables /\ use[walk.table].level = 1
  BY WalkThere
<1>2. pc # "pml4" /\ Root \in held /\ use[Root].level = 4
  <2>1. pc # "pml4"
    BY DEF LoaderInv, KernelInv
  <2> QED
    BY <1>1, <2>1, RootThere
<1>3. kernelPML4 # 0 /\ kernelPML4 \in held /\ use[kernelPML4].level = 4
  <2>1. CASE pc \in Serving
    BY <2>1, KernelRoot DEF Serving, Initializing
  <2>2. CASE pc \notin Serving
    BY <1>1, <2>2, KernelRoot DEF Root
  <2> QED
    BY <2>1, <2>2
<1>4. ASSUME NEW root \in held, use[root].level = 4, NEW page, NEW user \in BOOLEAN, NEW t,
             Leads(tables, root, page, user, 1, t)
      PROVE  Leads(tables', root, page, user, 1, t)
  <2>1. use[walk.table].level = 1
    BY <1>1
  <2> QED
    BY <1>4, <2>1, ReachedAgain
<1>5. ASSUME NEW root \in held, use[root].level = 4, NEW page, NEW user \in BOOLEAN,
             user => walk.user, NEW f, Leads(tables, root, page, user, 0, f)
      PROVE  \/ Leads(tables', root, page, user, 0, f)
             \/ /\ Leads(tables, root, page, user, 1, walk.table) /\ Index(page, 1) = Slot
                /\ Leads(tables', root, page, user, 0, walk.phys)
  <2>1. PICK t : /\ Leads(tables, root, page, user, 1, t)
                 /\ Link(tables, t, Index(page, 1), user, f)
    BY <1>5, LeadsFrom, 1 \in 1 .. 4, 1 - 1 = 0
  <2>2. Leads(tables', root, page, user, 1, t)
    BY <1>4, <1>5, <2>1
  <2>3. CASE t = walk.table /\ Index(page, 1) = Slot
    <3>1. Link(tables', t, Index(page, 1), user, walk.phys)
      BY <1>5, <2>3 DEF Wrote
    <3> QED
      BY <2>1, <2>2, <2>3, <3>1, LeadsOn, 1 \in 1 .. 4, 1 - 1 = 0
  <2>4. CASE ~(t = walk.table /\ Index(page, 1) = Slot)
    <3>1. Link(tables', t, Index(page, 1), user, f)
      BY <2>1, <2>4 DEF Wrote
    <3> QED
      BY <2>2, <3>1, LeadsOn, 1 \in 1 .. 4, 1 - 1 = 0
  <2> QED
    BY <2>3, <2>4
<1>6. pc = "heap" => loop.next \in KernelHeap
  <2>1. pc = "heap" => /\ KernelHeapStart <= loop.next /\ loop.next \in Nat
                       /\ loop.end = KernelHeapStart + KernelHeapPages
    BY DEF LoaderInv, LoopInv
  <2> QED
    BY <1>1, <2>1, LayoutFacts DEF KernelHeap
<1>7. ASSUME NEW page \in KernelPages, KernelMaps(page)
      PROVE  KernelMaps(page)'
  <2>1. PICK f : Leads(tables, kernelPML4, page, FALSE, 0, f)
                 /\ (page \in KernelHeap \/ f = FrameOf(page))
    BY <1>7 DEF KernelMaps
  <2>2. CASE Leads(tables', kernelPML4, page, FALSE, 0, f)
    <3>1. Leads(tables', kernelPML4', page, FALSE, 0, f)
      BY <2>2
    <3> QED
      BY <2>1, <3>1 DEF KernelMaps
  <2>3. CASE /\ Leads(tables, kernelPML4, page, FALSE, 1, walk.table) /\ Index(page, 1) = Slot
             /\ Leads(tables', kernelPML4, page, FALSE, 0, walk.phys)
    <3>1. page = loop.next
      BY <1>1, <1>3, <2>3, LeafPage
    <3>2. pc \in {"heap"} \cup Initializing
      BY <1>1, <3>1
    <3>3. page \in KernelHeap \/ walk.phys = FrameOf(page)
      BY <1>6, <3>1, <3>2 DEF MappedInv, StretchInv
    <3>4. Leads(tables', kernelPML4', page, FALSE, 0, walk.phys)
      BY <2>3
    <3> QED
      BY <3>3, <3>4 DEF KernelMaps
  <2> QED
    BY <1>3, <1>5, <2>1, <2>2, <2>3
<1>8. ASSUME NEW p \in Processes, NEW page \in Int, Placed(p, page)
      PROVE  Placed(p, page)'
  <2>1. PICK f : Leads(tables, pml4[p], page, TRUE, 0, f)
    BY <1>8 DEF Placed
  <2>2. pml4[p] # 0
    <3>1. PICK w : w[4] = pml4[p] /\ Path(tables, page, TRUE, 0, w)
      BY <2>1 DEF Leads
    <3>2. 4 \in 0 + 1 .. 4
      OBVIOUS
    <3>3. Link(tables, w[4], Index(page, 4), TRUE, w[4 - 1])
      BY <3>1, <3>2 DEF Path
    <3>4. 0 \notin DOMAIN tables
      BY HeldFacts DEF LoaderInv, Tree
    <3> QED
      BY <3>1, <3>3, <3>4 DEF Link
  <2>3. pml4[p] \in held /\ use[pml4[p]].level = 4
    BY <2>2, RootLevel
  <2>4. walk.user
    <3>1. ~(p >= nextProcessID)
      BY <2>2 DEF MappedInv, SpawnedInv
    <3>2. nextProcessID # 1
      BY <3>1 DEF Processes
    <3>3. pc \notin Booting
      BY <3>2 DEF MappedInv, SpawnedInv
    <3>4. pc \in Serving
      BY <1>1, <3>3 DEF Booting
    <3> QED
      BY <1>1, <3>4
  <2>5. \E g : Leads(tables', pml4[p], page, TRUE, 0, g)
    BY <1>5, <2>1, <2>3, <2>4
  <2>6. \E g : Leads(tables', pml4'[p], page, TRUE, 0, g)
    BY <2>5
  <2> QED
    BY <2>6 DEF Placed
<1>9. ASSUME Unmapped(GuardPage), pc \notin {"pml4"} \cup Initializing,
             NEW f, Leads(tables', kernelPML4, GuardPage, FALSE, 0, f)
      PROVE  FALSE
  <2>1. ASSUME NEW k \in 1 .. 4, NEW a, NEW b, Leads(tables, kernelPML4, GuardPage, FALSE, k, a),
               Link(tables', a, Index(GuardPage, k), FALSE, b)
        PROVE  Link(tables, a, Index(GuardPage, k), FALSE, b)
    <3>1. CASE a = walk.table /\ Index(GuardPage, k) = Slot
      <4>0. use[a].level = k
        <5>1. Leads(tables, kernelPML4, GuardPage, FALSE, k, a)
          BY <2>1
        <5>2. kernelPML4 \in held
          BY <1>3
        <5>3. use[kernelPML4].level = 4
          BY <1>3
        <5> QED
          BY <5>1, <5>2, <5>3, ReachedLevel
      <4>1. k = 1
        BY <1>1, <3>1, <4>0
      <4>2. GuardPage = loop.next
        BY <1>1, <1>3, <2>1, <3>1, <4>1, LeafPage, GuardFacts
      <4>3. pc = "heap"
        BY <1>1, <1>9, <4>2, GuardFacts
      <4> QED
        BY <1>6, <4>2, <4>3, GuardFacts
    <3>2. CASE ~(a = walk.table /\ Index(GuardPage, k) = Slot)
      BY <2>1, <3>2 DEF Wrote
    <3> QED
      BY <3>1, <3>2
  <2>2. Leads(tables, kernelPML4, GuardPage, FALSE, 0, f)
    BY <1>9, <2>1, LeadsBack
  <2> QED
    BY <1>9, <2>2 DEF Unmapped
<1>10. GuardInv /\ pc \notin {"pml4"} \cup Initializing => Unmapped(GuardPage)'
  BY <1>9 DEF GuardInv, Unmapped
<1>11. SharedInv'
  BY <1>1, SharedKept
<1>12. Leads(tables', Root, loop.next, walk.user, 0, walk.phys)
  <2>1. Leads(tables', Root, loop.next, walk.user, 1, walk.table)
    BY <1>1, <1>2, <1>4
  <2>2. Link(tables', walk.table, Index(loop.next, 1), walk.user, walk.phys)
    BY <1>1 DEF Wrote, Slot
  <2> QED
    BY <2>1, <2>2, LeadsOn, 1 \in 1 .. 4, 1 - 1 = 0
<1> QED
  BY <1>7, <1>8, <1>10, <1>11, <1>12 DEF TablesKept

-----------------------------------------------------------------------------
(* Steps that stay in a loop.                                              *)

LEMMA MapUnchanged ==
    ASSUME LoaderInv, Calm,
           UNCHANGED physical \/ \E f \in FreeFrames : VMPhysicalMemoryAllocatePage(f)
    PROVE  TotalPageCount' = TotalPageCount /\ (FreeFrames = {} => FreeFrames' = {})
<1>1. UNCHANGED <<memoryMap, bitmapSize>>
  BY DEF physical, VMPhysicalMemoryAllocatePage
<1>2. FreeFrames = {} => FreeFrames' = {}
  <2>1. CASE UNCHANGED physical
    BY <2>1, FramesUnchanged
  <2>2. CASE \E f \in FreeFrames : VMPhysicalMemoryAllocatePage(f)
    BY <2>2
  <2> QED
    BY <2>1, <2>2
<1>3. TotalPageCount' = TotalPageCount
  BY <1>1 DEF TotalPageCount
<1> QED
  BY <1>2, <1>3

LEMMA TablesSame ==
    ASSUME MappedInv, UNCHANGED <<tables, kernelPML4, pml4>>
    PROVE  TablesKept
<1>1. SharedInv
  BY DEF MappedInv
<1>2. ASSUME NEW page
      PROVE  (KernelMaps(page)' <=> KernelMaps(page)) /\ (Unmapped(page)' <=> Unmapped(page))
  BY DEF KernelMaps, Unmapped
<1>3. ASSUME NEW p, NEW page
      PROVE  Placed(p, page)' <=> Placed(p, page)
  BY DEF Placed
<1>4. SharedInv'
  BY <1>1 DEF SharedInv
<1>5. GuardInv /\ pc \notin {"pml4"} \cup Initializing => Unmapped(GuardPage)'
  BY <1>2 DEF GuardInv
<1> QED
  BY <1>2, <1>3, <1>4, <1>5 DEF TablesKept

(* Whatever the loop leaves behind is mapped, or memory has run out.       *)
LEMMA LoopStep ==
    ASSUME LoaderInv, MappedInv, UNCHANGED <<kernelPML4, pc, loader>>,
           TotalPageCount' = TotalPageCount, FreeFrames = {} => FreeFrames' = {},
           TablesKept, WalkPlace', StretchInv', loop'.end = loop.end,
           Short("heap") /\ pc \in {"heap"} \cup Initializing => Short("heap")',
           Short("stack") /\ pc \in {"segments", "stack"} => Short("stack")',
           pc \in Booting => \A page \in Ahead :
               \/ page \in Ahead' \/ KernelMaps(page)'
               \/ Short("heap")' /\ pc \in {"heap"} \cup Initializing,
           pc \in Serving => \A page \in Ahead :
               \/ page \in Ahead' \/ Placed(process, page)'
               \/ FreeFrames' = {} /\ (pc # "grow" => Short("stack")')
    PROVE  MappedInv'
<1>1. UNCHANGED <<nextProcessID, process, segment, pml4, heapCurrent, state, image, granted>>
  BY DEF loader
<1>2. \A page : Begun(page)' <=> Begun(page)
  BY DEF Begun
<1>3. KernelMapInv'
  <2>1. CASE \A page \in KernelPages :
                 Begun(page) => (pc \in Booting /\ page \in Ahead) \/ KernelMaps(page)
    <3>1. CASE pc' \in {"heap"} \cup Initializing /\ Short("heap")'
      BY <3>1 DEF KernelMapInv
    <3>2. CASE ~(pc' \in {"heap"} \cup Initializing /\ Short("heap")')
      <4>1. ASSUME NEW page \in KernelPages, Begun(page)
            PROVE  (pc' \in Booting /\ page \in Ahead') \/ KernelMaps(page)'
        <5>1. CASE KernelMaps(page)
          BY <5>1 DEF TablesKept
        <5>2. CASE pc \in Booting /\ page \in Ahead
          BY <3>2, <5>2
        <5> QED
          BY <2>1, <4>1, <5>1, <5>2
      <4> QED
        BY <1>2, <4>1 DEF KernelMapInv
    <3> QED
      BY <3>1, <3>2
  <2>2. CASE pc \in {"heap"} \cup Initializing /\ Short("heap")
    BY <2>2 DEF KernelMapInv
  <2> QED
    BY <2>1, <2>2 DEF MappedInv, KernelMapInv
<1>4. GuardInv'
  <2>1. GuardInv
    BY DEF MappedInv
  <2> QED
    BY <2>1 DEF GuardInv, TablesKept
<1>5. SharedInv'
  BY DEF TablesKept
<1>6. SpawnedInv'
  <2>1. SpawnedInv
    BY DEF MappedInv
  <2> QED
    BY <1>1, <2>1 DEF SpawnedInv
<1>7. \A p, page : (Needs(p, page)' <=> Needs(p, page)) /\ (Due(page)' <=> Due(page))
  BY <1>1 DEF Needs, Due, ProgramPages, Segments
<1>8. LoadInv'
  <2>1. SUFFICES ASSUME pc \in {"segments", "stack"}, ~Short("stack")',
                        NEW page \in Int, Due(page)
                 PROVE  page \in Ahead' \/ Placed(process, page)'
    BY <1>1, <1>7 DEF LoadInv
  <2>2. process \in Processes /\ pc \in Serving /\ pc # "grow"
    BY <2>1 DEF LoaderInv, ProcessInv, Serving
  <2>3. page \in Ahead \/ Placed(process, page)
    BY <2>1 DEF MappedInv, LoadInv
  <2>4. CASE page \in Ahead
    BY <2>1, <2>2, <2>4
  <2>5. CASE Placed(process, page)
    <3>1. PICK p \in Processes : p = process
      BY <2>2
    <3>2. Placed(p, page)'
      BY <2>1, <2>2, <2>5, <3>1 DEF TablesKept
    <3> QED
      BY <1>1, <3>1, <3>2 DEF Placed
  <2> QED
    BY <2>3, <2>4, <2>5
<1>9. RunInv'
  <2>1. ASSUME NEW p \in RunningProcesses
        PROVE  /\ \A page \in Int : Needs(p, page) => Placed(p, page)'
               /\ \A page \in granted[p] : Placed(p, page)' \/ FreeFrames' = {}
    <3>1. p \in Processes
      BY DEF RunningProcesses
    <3>2. granted[p] \subseteq Int
      BY <3>1 DEF MappedInv, SpawnedInv
    <3>3. /\ \A page \in Int : Needs(p, page) => Placed(p, page)
          /\ \A page \in granted[p] : Placed(p, page) \/ FreeFrames = {}
      BY DEF MappedInv, RunInv
    <3> QED
      BY <3>1, <3>2, <3>3 DEF TablesKept
  <2>2. RunningProcesses' = RunningProcesses
    BY <1>1 DEF RunningProcesses
  <2> QED
    BY <1>1, <1>7, <2>1, <2>2 DEF RunInv
<1>10. GrowInv'
  <2>1. SUFFICES ASSUME pc = "grow",
                        NEW page \in heapCurrent[process] .. loop.end - 1
                 PROVE  page \in Ahead' \/ Placed(process, page)' \/ FreeFrames' = {}
    BY <1>1 DEF GrowInv
  <2>2. process \in Processes /\ pc \in Serving /\ page \in Int
    BY <2>1 DEF LoaderInv, ProcessInv, Serving
  <2>3. page \in Ahead \/ Placed(process, page) \/ FreeFrames = {}
    BY <2>1 DEF MappedInv, GrowInv
  <2>4. CASE page \in Ahead
    BY <2>2, <2>4
  <2>5. CASE Placed(process, page)
    <3>1. PICK p \in Processes : p = process
      BY <2>2
    <3>2. Placed(p, page)'
      BY <2>2, <2>5, <3>1 DEF TablesKept
    <3> QED
      BY <1>1, <3>1, <3>2 DEF Placed
  <2> QED
    BY <2>3, <2>4, <2>5
<1> QED
  BY <1>3, <1>4, <1>5, <1>6, <1>8, <1>9, <1>10 DEF MappedInv

(* A walk goes one level down. *)
LEMMA WalkDescends ==
    ASSUME LoaderInv, MappedInv, Calm, walk # NoWalk, walk.level \in 2 .. 4,
           UNCHANGED <<kernelPML4, pc, loop, loader>>,
           UNCHANGED physical \/ \E f \in FreeFrames : VMPhysicalMemoryAllocatePage(f),
           TablesKept, NEW t,
           walk' = [level |-> walk.level - 1, table |-> t, phys |-> walk.phys, user |-> walk.user],
           Leads(tables', Root, loop.next, walk.user, walk.level - 1, t)
    PROVE  MappedInv'
<1>1. TotalPageCount' = TotalPageCount /\ (FreeFrames = {} => FreeFrames' = {})
  BY MapUnchanged
<1>2. UNCHANGED <<process, pml4>>
  BY DEF loader
<1>3. /\ walk'.level = walk.level - 1 /\ walk'.table = t
      /\ walk'.phys = walk.phys /\ walk'.user = walk.user
  OBVIOUS
<1>4. WalkPlace'
  <2>1. pc # "ready" /\ loop.next < loop.end
    BY DEF MappedInv, WalkPlace
  <2>2. Root' = Root
    BY <1>2 DEF Root
  <2> QED
    BY <1>3, <2>1, <2>2 DEF WalkPlace
<1>5. StretchInv'
  <2>1. StretchInv
    BY DEF MappedInv
  <2>2. \A page : PhysicalOf(page)' = PhysicalOf(page)
    BY DEF PhysicalOf
  <2> QED
    BY <1>3, <2>1, <2>2 DEF StretchInv, Ahead
<1>6. Ahead' = Ahead
  BY DEF Ahead
<1>7. Short("heap") /\ pc \in {"heap"} \cup Initializing => Short("heap")'
  BY <1>1 DEF Short
<1>8. Short("stack") /\ pc \in {"segments", "stack"} => Short("stack")'
  BY <1>1 DEF Short
<1> QED
  BY <1>1, <1>4, <1>5, <1>6, <1>7, <1>8, LoopStep

LEMMA WalkPresentMaps ==
    ASSUME LoaderInv, MappedInv, Calm, Walking, WalkPresent, UNCHANGED loader
    PROVE  MappedInv'
<1>1. PICK use : Tree(use, tables, held, Lacking) /\ Roots(use) /\ WalkRight(use)
  BY DEF LoaderInv, TablesInv
<1>2. /\ walk.level > 1 /\ Has(walk.table, Slot)
      /\ UNCHANGED <<physical, kernelPML4, pc, loop, panic>>
  BY Zenon DEF WalkPresent, Walking
<1>3. PICK e : e = tables[walk.table][Slot]
  OBVIOUS
<1>4. PICK new : new = Entry(e.frame, e.user \/ walk.user)
  OBVIOUS
<1>5. /\ tables' = [tables EXCEPT ![walk.table] = Put(@, Slot, new)]
      /\ walk' = [walk EXCEPT !.level = @ - 1, !.table = e.frame]
  BY <1>3, <1>4, Zenon DEF WalkPresent
<1>6. walk # NoWalk
  BY <1>2 DEF NoWalk
<1>7. walk.table \in DOMAIN tables /\ Slot \in DOMAIN tables[walk.table]
  BY <1>2 DEF Has
<1>8. /\ Leads(tables, Root, loop.next, walk.user, walk.level, walk.table)
      /\ walk.level \in 2 .. 4 /\ walk.user \in BOOLEAN /\ use[walk.table].level = walk.level
  <2>1. 0 \notin DOMAIN tables
    BY <1>1, HeldFacts DEF LoaderInv, Tree
  <2>2. walk.table # 0
    BY <1>7, <2>1
  <2>3. /\ Leads(tables, Root, loop.next, walk.user, walk.level, walk.table)
        /\ walk.level \in 1 .. 4 /\ walk.user \in BOOLEAN /\ use[walk.table].level = walk.level
    BY <1>1, <1>6, <2>2, WalkThere
  <2> QED
    BY <1>2, <2>3
<1>9. walk' = [level |-> walk.level - 1, table |-> e.frame, phys |-> walk.phys, user |-> walk.user]
  <2>1. walk = [level |-> walk.level, table |-> walk.table, phys |-> walk.phys, user |-> walk.user]
    BY DEF LoaderInv, WalkShape
  <2> QED
    BY <1>5, <2>1
<1>10. new.frame = e.frame /\ (new.user <=> e.user \/ walk.user)
  BY <1>4 DEF Entry
<1>11. Wrote(tables, tables', walk.table, Slot, new)
  BY <1>5, <1>7, PutWrites
<1>12. \A user \in BOOLEAN : \A b :
           Link(tables, walk.table, Slot, user, b) => b = new.frame /\ (user => new.user)
  BY <1>3, <1>10 DEF Link
<1>13. Link(tables, walk.table, Slot, FALSE, new.frame)
  BY <1>3, <1>7, <1>10 DEF Link
<1>14. UNCHANGED <<kernelPML4, pml4>>
  BY <1>2 DEF loader
<1>15. use[walk.table].level \in 2 .. 4
  BY <1>8
<1>16. /\ TablesKept
       /\ \A root, page, level, t : \A user \in BOOLEAN :
              level \in 0 .. 4 /\ Leads(tables, root, page, user, level, t) =>
                  Leads(tables', root, page, user, level, t)
  BY <1>1, <1>6, <1>7, <1>11, <1>12, <1>13, <1>14, <1>15, WalkGrows
<1>17. Leads(tables', Root, loop.next, walk.user, walk.level - 1, e.frame)
  <2>1. walk.level \in 1 .. 4 /\ walk.level \in 0 .. 4
    BY <1>8
  <2>2. Leads(tables', Root, loop.next, walk.user, walk.level, walk.table)
    BY <1>8, <1>16, <2>1
  <2>3. Link(tables', walk.table, Index(loop.next, walk.level), walk.user, e.frame)
    BY <1>8, <1>10, <1>11 DEF Wrote, Slot
  <2> QED
    BY <2>1, <2>2, <2>3, LeadsOn
<1>18. UNCHANGED <<kernelPML4, pc, loop, loader>> /\ UNCHANGED physical
  BY <1>2
<1> QED
  BY <1>6, <1>8, <1>9, <1>16, <1>17, <1>18, WalkDescends

LEMMA WalkAllocateMaps ==
    ASSUME LoaderInv, MappedInv, Calm, Walking, WalkAllocate, UNCHANGED loader
    PROVE  MappedInv'
<1>1. PICK use : Tree(use, tables, held, Lacking) /\ Roots(use) /\ WalkRight(use)
  BY DEF LoaderInv, TablesInv
<1>2. /\ walk.level > 1 /\ ~Has(walk.table, Slot)
      /\ UNCHANGED <<kernelPML4, pc, loop, panic>>
  BY Zenon DEF WalkAllocate, Walking
<1>3. PICK f \in FreeFrames :
          /\ VMPhysicalMemoryAllocatePage(f)
          /\ tables' = [t \in DOMAIN tables \cup {f} |->
                          IF t = f THEN Empty
                          ELSE IF t = walk.table THEN Put(tables[t], Slot, Entry(f, walk.user))
                          ELSE tables[t]]
          /\ walk' = [walk EXCEPT !.level = @ - 1, !.table = f]
  BY Zenon DEF WalkAllocate
<1>4. PICK new : new = Entry(f, walk.user)
  OBVIOUS
<1>5. walk # NoWalk
  BY <1>2 DEF NoWalk
<1>6. /\ Leads(tables, Root, loop.next, walk.user, walk.level, walk.table)
      /\ walk.level \in 2 .. 4 /\ walk.user \in BOOLEAN /\ use[walk.table].level = walk.level
      /\ walk.table \in DOMAIN tables
  <2>1. FreeFrames # {}
    BY <1>3
  <2>2. /\ Leads(tables, Root, loop.next, walk.user, walk.level, walk.table)
        /\ walk.level \in 1 .. 4 /\ walk.user \in BOOLEAN /\ use[walk.table].level = walk.level
        /\ walk.table \in DOMAIN tables
    BY <1>1, <1>5, <2>1, WalkThere
  <2> QED
    BY <1>2, <2>2
<1>7. f \notin DOMAIN tables
  <2>1. f \notin held
    BY <1>2, <1>3, FrameAllocated
  <2> QED
    BY <1>1, <2>1 DEF Tree
<1>8. walk' = [level |-> walk.level - 1, table |-> f, phys |-> walk.phys, user |-> walk.user]
  <2>1. walk = [level |-> walk.level, table |-> walk.table, phys |-> walk.phys, user |-> walk.user]
    BY DEF LoaderInv, WalkShape
  <2> QED
    BY <1>3, <2>1
<1>9. new.frame = f /\ new.user = walk.user
  BY <1>4 DEF Entry
<1>10. tables' = [t \in DOMAIN tables \cup {f} |->
                      IF t = f THEN Empty
                      ELSE IF t = walk.table THEN Put(tables[t], Slot, new) ELSE tables[t]]
  BY <1>3, <1>4
<1>11. Wrote(tables, tables', walk.table, Slot, new) /\ \A j, user, b : ~Link(tables', f, j, user, b)
  BY <1>6, <1>7, <1>10, AllocateWrites
<1>12. \A user, b : ~Link(tables, walk.table, Slot, user, b)
  BY <1>2 DEF Link, Has
<1>13. UNCHANGED <<kernelPML4, pml4>>
  BY <1>2 DEF loader
<1>14. use[walk.table].level \in 2 .. 4
  BY <1>6
<1>15. /\ TablesKept
       /\ \A root, page, level, t : \A user \in BOOLEAN :
              level \in 0 .. 4 /\ Leads(tables, root, page, user, level, t) =>
                  Leads(tables', root, page, user, level, t)
  BY <1>1, <1>5, <1>6, <1>9, <1>11, <1>12, <1>13, <1>14, WalkGrows
<1>16. Leads(tables', Root, loop.next, walk.user, walk.level - 1, f)
  <2>1. walk.level \in 1 .. 4 /\ walk.level \in 0 .. 4
    BY <1>6
  <2>2. Leads(tables', Root, loop.next, walk.user, walk.level, walk.table)
    BY <1>6, <1>15, <2>1
  <2>3. Link(tables', walk.table, Index(loop.next, walk.level), walk.user, f)
    BY <1>6, <1>9, <1>11 DEF Wrote, Slot
  <2> QED
    BY <2>1, <2>2, <2>3, LeadsOn
<1>17. UNCHANGED <<kernelPML4, pc, loop, loader>>
  BY <1>2
<1> QED
  BY <1>3, <1>5, <1>6, <1>8, <1>15, <1>16, <1>17, WalkDescends

LEMMA NextOfHeap ==
    ASSUME LoaderInv, pc = "heap", loop.next < loop.end
    PROVE  loop.next \in KernelHeap /\ loop.end = KernelHeapStart + KernelHeapPages
<1>1. /\ KernelHeapStart <= loop.next /\ loop.next \in Nat
      /\ loop.end = KernelHeapStart + KernelHeapPages
  BY DEF LoaderInv, LoopInv
<1> QED
  BY <1>1, LayoutFacts DEF KernelHeap

(* The loop goes to its next page. *)
LEMMA NextPage ==
    ASSUME LoaderInv, loop' = [loop EXCEPT !.next = @ + 1]
    PROVE  /\ loop'.next = loop.next + 1 /\ loop'.end = loop.end
           /\ loop.next \in Nat /\ loop.end \in Nat
           /\ Ahead' \subseteq Ahead
           /\ \A page \in Ahead : page = loop.next \/ page \in Ahead'
<1>1. loop.next \in Nat /\ loop.end \in Nat /\ loop = [next |-> loop.next, end |-> loop.end]
  BY DEF LoaderInv, LoopInv, Span
<1>2. loop'.next = loop.next + 1 /\ loop'.end = loop.end
  <2>1. loop' = [next |-> loop.next + 1, end |-> loop.end]
    BY <1>1
  <2> QED
    BY <2>1
<1> QED
  BY <1>1, <1>2 DEF Ahead

(* A call is over: the page is mapped, or memory has run out.              *)
LEMMA WalkEnds ==
    ASSUME LoaderInv, MappedInv, Calm, walk # NoWalk, UNCHANGED physical,
           UNCHANGED <<kernelPML4, pc, loader>>, TablesKept,
           walk' = NoWalk, loop' = [loop EXCEPT !.next = @ + 1],
           NEW n, n = loop.next,
           pc \in Booting => \/ KernelMaps(n)'
                             \/ Short("heap")' /\ pc \in {"heap"} \cup Initializing,
           pc \in Serving => \/ Placed(process, n)'
                             \/ FreeFrames' = {} /\ (pc # "grow" => Short("stack")')
    PROVE  MappedInv'
<1>1. TotalPageCount' = TotalPageCount /\ (FreeFrames = {} => FreeFrames' = {})
  BY MapUnchanged
<1>2. /\ loop'.next = loop.next + 1 /\ loop'.end = loop.end
      /\ loop.next \in Nat /\ loop.end \in Nat
      /\ Ahead' \subseteq Ahead
      /\ \A page \in Ahead : page = loop.next \/ page \in Ahead'
  BY NextPage
<1>3. WalkPlace'
  BY DEF WalkPlace
<1>4. StretchInv'
  <2>1. StretchInv
    BY DEF MappedInv
  <2>2. \A page : PhysicalOf(page)' = PhysicalOf(page)
    BY DEF PhysicalOf
  <2> QED
    BY <1>2, <2>1, <2>2 DEF StretchInv
<1>5. Short("heap") /\ pc \in {"heap"} \cup Initializing => Short("heap")'
  BY <1>1 DEF Short
<1>6. Short("stack") /\ pc \in {"segments", "stack"} => Short("stack")'
  BY <1>1 DEF Short
<1>7. ASSUME pc \in Booting, NEW page \in Ahead
      PROVE  \/ page \in Ahead' \/ KernelMaps(page)'
             \/ Short("heap")' /\ pc \in {"heap"} \cup Initializing
  <2>1. CASE page = n
    BY <1>7, <2>1
  <2> QED
    BY <1>2, <2>1
<1>8. ASSUME pc \in Serving, NEW page \in Ahead
      PROVE  \/ page \in Ahead' \/ Placed(process, page)'
             \/ FreeFrames' = {} /\ (pc # "grow" => Short("stack")')
  <2>1. CASE page = n
    BY <1>8, <2>1
  <2> QED
    BY <1>2, <2>1
<1> QED
  BY <1>1, <1>2, <1>3, <1>4, <1>5, <1>6, <1>7, <1>8, LoopStep

LEMMA WalkLeafMaps ==
    ASSUME LoaderInv, MappedInv, Calm, WalkLeaf, UNCHANGED loader
    PROVE  MappedInv'
<1>1. PICK use : Tree(use, tables, held, Lacking) /\ Roots(use) /\ WalkRight(use)
  BY DEF LoaderInv, TablesInv
<1>2. PICK e : e = Entry(walk.phys, walk.user)
  OBVIOUS
<1>3. /\ walk.level = 1
      /\ tables' = [tables EXCEPT ![walk.table] = Put(@, Slot, e)]
      /\ UNCHANGED physical /\ UNCHANGED <<kernelPML4, pc, panic>>
      /\ walk' = NoWalk /\ loop' = [loop EXCEPT !.next = @ + 1]
  BY <1>2, Zenon DEF WalkLeaf, MapPageReturns
<1>4. walk # NoWalk
  BY <1>3 DEF NoWalk
<1>5. UNCHANGED <<kernelPML4, pml4>> /\ UNCHANGED <<kernelPML4, pc, loader>> /\ process' = process
  BY <1>3 DEF loader
<1>6. /\ walk.user = (pc \in Serving) /\ loop.next < loop.end
      /\ pc \in {"heap"} \cup Initializing \cup Serving
      /\ walk.table \in DOMAIN tables
  BY <1>1, <1>3, <1>4, WalkThere
<1>7. e.frame = walk.phys /\ e.user = walk.user
  BY <1>2 DEF Entry
<1>8. Wrote(tables, tables', walk.table, Slot, e)
  BY <1>3, <1>6, PutWrites
<1>9. TablesKept /\ Leads(tables', Root, loop.next, walk.user, 0, walk.phys)
  BY <1>1, <1>3, <1>4, <1>5, <1>7, <1>8, WalkWrites
<1>10. PICK n : n = loop.next
  OBVIOUS
<1>11. ASSUME pc \in Booting
       PROVE  KernelMaps(n)'
  <2>1. pc \notin Serving
    BY <1>11 DEF Booting, Serving, Initializing
  <2>2. Root = kernelPML4
    BY <2>1 DEF Root
  <2>3. walk.user = FALSE
    BY <1>6, <2>1, (pc \in Serving) = FALSE
  <2>4. n \in KernelHeap \/ walk.phys = FrameOf(n)
    <3>1. CASE pc = "heap"
      BY <1>6, <1>10, <3>1, NextOfHeap
    <3>2. CASE pc \in Initializing
      BY <1>4, <1>10, <3>2 DEF MappedInv, StretchInv
    <3> QED
      BY <1>6, <2>1, <3>1, <3>2
  <2>5. Leads(tables', kernelPML4', n, FALSE, 0, walk.phys)
    BY <1>5, <1>9, <1>10, <2>2, <2>3
  <2> QED
    BY <2>4, <2>5 DEF KernelMaps, FrameOf
<1>12. ASSUME pc \in Serving
       PROVE  Placed(process, n)'
  <2>1. Root = pml4[process]
    BY <1>12 DEF Root
  <2>2. walk.user = TRUE
    BY <1>6, <1>12, (pc \in Serving) = TRUE
  <2>3. Leads(tables', pml4'[process'], n, TRUE, 0, walk.phys)
    BY <1>5, <1>9, <1>10, <2>1, <2>2
  <2> QED
    BY <2>3 DEF Placed
<1> QED
  BY <1>3, <1>4, <1>5, <1>9, <1>10, <1>11, <1>12, WalkEnds

(* A page that is not the first of its page table shares it with the one   *)
(* before.                                                                 *)
LEMMA SameTable ==
    ASSUME NEW page \in Nat, page % Entries # 0
    PROVE  page - 1 \in Nat /\ \A k \in 2 .. 4 : Index(page - 1, k) = Index(page, k)
<1> DEFINE e == Entries
           q == page \div e
           r == page % e
<1>1. e \in Nat \ {0} /\ e * e \in Nat \ {0} /\ e * e * e \in Nat \ {0}
  BY EntriesFacts
<1>2. q \in Nat /\ r \in 0 .. e - 1 /\ page = q * e + r
  BY <1>1, DivisionRemainder
<1>3. r # 0
  OBVIOUS
<1> HIDE DEF q, r
<1>4. q * e \in Nat
  BY <1>1, <1>2
<1>5. page - 1 \in Nat /\ r - 1 \in 0 .. e - 1 /\ page - 1 = q * e + (r - 1)
  BY <1>1, <1>2, <1>3, <1>4
<1>6. (page - 1) \div e = page \div e
  <2>1. (page - 1) \div e = q
    BY <1>1, <1>2, <1>5, QuotientUnique
  <2> QED
    BY <2>1 DEF q
<1>7. ASSUME NEW n \in Nat
      PROVE  n \div (e * e) = (n \div e) \div e /\ n \div (e * e * e) = (n \div (e * e)) \div e
  BY <1>1, DivideTwice
<1>8. (page - 1) \div (e * e) = page \div (e * e)
  BY <1>5, <1>6, <1>7
<1>9. (page - 1) \div (e * e * e) = page \div (e * e * e)
  BY <1>5, <1>7, <1>8
<1>10. Index(page - 1, 2) = Index(page, 2)
  BY <1>6 DEF Index
<1>11. Index(page - 1, 3) = Index(page, 3)
  BY <1>8 DEF Index
<1>12. Index(page - 1, 4) = Index(page, 4)
  BY <1>9 DEF Index
<1>13. \A k \in 2 .. 4 : k = 2 \/ k = 3 \/ k = 4
  OBVIOUS
<1> QED
  BY <1>5, <1>10, <1>11, <1>12, <1>13

(* Where one page is mapped, the walk for its neighbour finds the tables.  *)
LEMMA NeighbourFound ==
    ASSUME NEW page, NEW other, \A k \in 2 .. 4 : Index(other, k) = Index(page, k),
           NEW root, NEW user, NEW level \in 2 .. 4, NEW t,
           Leads(tables, root, page, user, level, t),
           NEW f, Leads(tables, root, other, user, 0, f)
    PROVE  Has(t, Index(page, level))
<1>1. PICK w : w[4] = root /\ Path(tables, other, user, 0, w)
  BY DEF Leads
<1>2. level \in 0 .. 4 /\ level \in 0 + 1 .. 4 /\ 0 \in 0 .. 4 /\ level \in 0 .. 4
  OBVIOUS
<1>3. Leads(tables, root, other, user, level, w[level])
  BY <1>1, <1>2, LeadsBefore
<1>4. \A k \in level + 1 .. 4 : Index(other, k) = Index(page, k)
  OBVIOUS
<1>5. Leads(tables, root, page, user, level, w[level])
  BY <1>2, <1>3, <1>4, LeadsShared
<1>6. w[level] = t
  BY <1>2, <1>5, LeadsToOne
<1>7. Link(tables, w[level], Index(other, level), user, w[level - 1])
  BY <1>1, <1>2 DEF Path
<1> QED
  BY <1>6, <1>7 DEF Link, Has

LEMMA HeapInHalf == KernelHeap \subseteq KernelPages
<1>1. SUFFICES ASSUME NEW page \in KernelHeap
               PROVE  page \in KernelPages
  OBVIOUS
<1>2. KernelHeapStart \in Nat /\ KernelHeapPages \in Nat
  BY LayoutFacts
<1>3. page \in Nat /\ page >= KernelHeapStart /\ page < KernelHeapStart + KernelHeapPages
  BY <1>1, <1>2 DEF KernelHeap
<1>4. page \in Pages
  BY <1>3, LayoutFacts
<1>5. KernelHeapStart >= KernelHalfStart
  BY VirtualMemoryAssumption DEF KernelPages
<1> QED
  BY <1>2, <1>3, <1>4, <1>5, LayoutFacts DEF KernelPages

LEMMA WalkOutOfMemoryMaps ==
    ASSUME LoaderInv, MappedInv, Calm, Walking, WalkOutOfMemory, UNCHANGED loader
    PROVE  MappedInv'
<1>1. PICK use : Tree(use, tables, held, Lacking) /\ Roots(use) /\ WalkRight(use)
  BY DEF LoaderInv, TablesInv
<1>2. /\ walk.level > 1 /\ ~Has(walk.table, Slot) /\ FreeFrames = {}
      /\ UNCHANGED physical /\ UNCHANGED <<tables, kernelPML4, pc, panic>>
      /\ walk' = NoWalk /\ loop' = [loop EXCEPT !.next = @ + 1]
  BY Zenon DEF WalkOutOfMemory, OutOfMemory, MapPageReturns, Walking
<1>3. walk # NoWalk
  BY <1>2 DEF NoWalk
<1>4. UNCHANGED <<tables, kernelPML4, pml4>> /\ UNCHANGED <<kernelPML4, pc, loader>>
  BY <1>2 DEF loader
<1>5. TablesKept
  BY <1>4, TablesSame
<1>6. FreeFrames' = {}
  BY <1>2, MapUnchanged
<1>7. /\ Leads(tables, Root, loop.next, walk.user, walk.level, walk.table)
      /\ walk.user = (pc \in Serving) /\ loop.next < loop.end /\ walk.level \in 2 .. 4
      /\ pc \in {"heap"} \cup Initializing \cup Serving
  <2>1. /\ Leads(tables, Root, loop.next, walk.user, walk.level, walk.table)
        /\ walk.user = (pc \in Serving) /\ loop.next < loop.end /\ walk.level \in 1 .. 4
        /\ pc \in {"heap"} \cup Initializing \cup Serving
    BY <1>1, <1>3, WalkThere
  <2> QED
    BY <1>2, <2>1
<1>8. /\ loop'.next = loop.next + 1 /\ loop'.end = loop.end
      /\ loop.next \in Nat /\ loop.end \in Nat
  BY <1>2, NextPage
<1>9. PICK n : n = loop.next
  OBVIOUS
<1>10. ASSUME loop.next % Entries # 0, NEW f,
              Leads(tables, Root, loop.next - 1, walk.user, 0, f)
       PROVE  FALSE
  <2>1. \A k \in 2 .. 4 : Index(loop.next - 1, k) = Index(loop.next, k)
    BY <1>8, <1>10, SameTable
  <2>2. Has(walk.table, Index(loop.next, walk.level))
    BY <1>7, <1>10, <2>1, NeighbourFound
  <2> QED
    BY <1>2, <2>2 DEF Slot
<1>11. ASSUME pc = "heap"
       PROVE  loop.next + 1 < loop.end
  <2>1. loop.next \in KernelHeap /\ loop.end = KernelHeapStart + KernelHeapPages
    BY <1>7, <1>11, NextOfHeap
  <2>2. SUFFICES ASSUME loop.next + 1 >= loop.end
                 PROVE  FALSE
    BY <1>8
  <2>3. /\ KernelHeapStart \in Nat /\ KernelHeapPages \in Nat /\ KernelHeapPages > 1
        /\ (KernelHeapStart + KernelHeapPages - 1) % Entries # 0
    BY VirtualMemoryAssumption, LastPagesAssumption, LayoutFacts
  <2>4. loop.next = KernelHeapStart + KernelHeapPages - 1
    BY <1>7, <1>8, <2>1, <2>2, <2>3
  <2>5. loop.next - 1 \in KernelHeap /\ loop.next - 1 \notin Ahead
    BY <1>8, <2>3, <2>4 DEF KernelHeap, Ahead
  <2>6. loop.next - 1 \in KernelPages /\ Begun(loop.next - 1)
    <3>1. pc \notin {"pml4"} \cup Initializing
      BY <1>11 DEF Initializing
    <3> QED
      BY <2>5, <3>1, HeapInHalf DEF Begun
  <2>7. ~Short("heap")
    BY <1>3, <1>11 DEF Short
  <2>8. KernelMaps(loop.next - 1)
    BY <2>5, <2>6, <2>7 DEF MappedInv, KernelMapInv
  <2>9. pc \notin Serving
    BY <1>11 DEF Serving
  <2>10. Root = kernelPML4
    BY <2>9 DEF Root
  <2>11. walk.user = FALSE
    BY <1>7, <2>9, (pc \in Serving) = FALSE
  <2> QED
    BY <1>10, <2>3, <2>4, <2>8, <2>10, <2>11 DEF KernelMaps
<1>12. ASSUME pc = "stack"
       PROVE  loop.next + 1 < loop.end
  <2>1. UserStackBottom <= loop.next /\ loop.end = UserStackTop
    BY <1>12 DEF LoaderInv, LoopInv
  <2>2. SUFFICES ASSUME loop.next + 1 >= loop.end
                 PROVE  FALSE
    BY <1>8
  <2>3. /\ UserStackBottom \in Nat /\ UserStackTop \in Nat /\ UserStackTop > UserStackBottom + 1
        /\ (UserStackTop - 1) % Entries # 0
    BY VirtualMemoryAssumption, LastPagesAssumption
  <2>4. loop.next = UserStackTop - 1
    BY <1>7, <1>8, <2>1, <2>2, <2>3
  <2>5. loop.next - 1 \in UserStackBottom .. UserStackTop - 1 /\ loop.next - 1 \notin Ahead
        /\ loop.next - 1 \in Int
    BY <1>8, <2>3, <2>4 DEF Ahead
  <2>6. Due(loop.next - 1)
    BY <1>12, <2>5 DEF Due, Needs
  <2>7. ~Short("stack")
    BY <1>3, <1>12 DEF Short
  <2>8. Placed(process, loop.next - 1)
    BY <1>12, <2>5, <2>6, <2>7 DEF MappedInv, LoadInv
  <2>9. pc \in Serving
    BY <1>12 DEF Serving
  <2>10. Root = pml4[process]
    BY <2>9 DEF Root
  <2>11. walk.user = TRUE
    BY <1>7, <2>9, (pc \in Serving) = TRUE
  <2> QED
    BY <1>10, <2>3, <2>4, <2>8, <2>10, <2>11 DEF Placed
<1>13. pc \in Booting => Short("heap")' /\ pc \in {"heap"} \cup Initializing
  <2>1. pc \in Booting => pc \in {"heap"} \cup Initializing
    BY <1>7 DEF Booting, Serving, Initializing
  <2>2. Short("heap")'
    BY <1>2, <1>6, <1>8, <1>11 DEF Short
  <2> QED
    BY <2>1, <2>2
<1>14. Short("stack")'
  BY <1>2, <1>6, <1>8, <1>12 DEF Short
<1> QED
  BY <1>2, <1>3, <1>4, <1>5, <1>6, <1>9, <1>13, <1>14, WalkEnds

-----------------------------------------------------------------------------
(* Steps that change no table.                                             *)

LEMMA NothingMapped ==
    ASSUME LoaderInv, MappedInv, UNCHANGED physical,
           UNCHANGED <<tables, kernelPML4, pc, loop, walk, loader>>
    PROVE  MappedInv'
<1>1. UNCHANGED <<memoryMap, bitmapSize, bitmap>>
  BY DEF physical
<1>2. TotalPageCount' = TotalPageCount /\ FreeFrames' = FreeFrames
  BY <1>1 DEF TotalPageCount, FreeFrames, Bits
<1>3. UNCHANGED <<process, pml4>>
  BY DEF loader
<1>4. TablesKept
  BY <1>3, TablesSame
<1>5. WalkPlace'
  BY <1>3 DEF MappedInv, WalkPlace, Root
<1>6. StretchInv'
  <2>1. StretchInv
    BY DEF MappedInv
  <2>2. \A page : PhysicalOf(page)' = PhysicalOf(page)
    BY DEF PhysicalOf
  <2> QED
    BY <2>1, <2>2 DEF StretchInv, Ahead
<1>7. Ahead' = Ahead
  BY DEF Ahead
<1>8. \A last : Short(last)' <=> Short(last)
  BY <1>2 DEF Short
<1> QED
  BY <1>2, <1>4, <1>5, <1>6, <1>7, <1>8, LoopStep

(* A call begins. *)
LEMMA CallMaps ==
    ASSUME LoaderInv, MappedInv, Calm, walk = NoWalk, ~AtEnd, pc # "ready",
           UNCHANGED physical \/ \E f \in FreeFrames : VMPhysicalMemoryAllocatePage(f),
           UNCHANGED <<tables, kernelPML4, pc, loop, loader>>, NEW phys, NEW user,
           walk' = [level |-> 4, table |-> Root, phys |-> phys, user |-> user],
           pc \in Initializing => phys = PhysicalOf(loop.next),
           pc \in {"heap", "stack"} => FreeFrames # {}
    PROVE  MappedInv'
<1>1. TotalPageCount' = TotalPageCount /\ (FreeFrames = {} => FreeFrames' = {})
  BY MapUnchanged
<1>2. UNCHANGED <<process, pml4>>
  BY DEF loader
<1>3. TablesKept
  BY <1>2, TablesSame
<1>4. loop.next < loop.end /\ loop.next \in Nat /\ loop.end \in Nat
  BY DEF AtEnd, LoaderInv, LoopInv
<1>5. /\ walk'.level = 4 /\ walk'.table = Root /\ walk'.phys = phys /\ walk'.user = user
  OBVIOUS
<1>6. Root' = Root
  BY <1>2 DEF Root
<1>7. WalkPlace'
  <2>1. Leads(tables, Root, loop.next, user, 4, Root)
    BY LeadsToRoot
  <2> QED
    BY <1>4, <1>5, <1>6, <2>1 DEF WalkPlace
<1>8. Ahead' = Ahead
  BY DEF Ahead
<1>9. StretchInv'
  <2>1. StretchInv
    BY DEF MappedInv
  <2>2. \A page : PhysicalOf(page)' = PhysicalOf(page)
    BY DEF PhysicalOf
  <2>3. loop.next \in Ahead
    BY <1>4 DEF Ahead
  <2>4. pc \in Initializing => phys = FrameOf(loop.next)
    BY <2>1, <2>3 DEF StretchInv
  <2>5. pc \in Initializing => walk'.phys = FrameOf(loop'.next)
    BY <1>5, <2>4
  <2> QED
    BY <1>8, <2>1, <2>2, <2>5 DEF StretchInv
<1>10. Short("heap") /\ pc \in {"heap"} \cup Initializing => Short("heap")'
  BY <1>1 DEF Short
<1>11. Short("stack") /\ pc \in {"segments", "stack"} => Short("stack")'
  BY <1>1 DEF Short
<1> QED
  BY <1>1, <1>3, <1>7, <1>8, <1>9, <1>10, <1>11, LoopStep

LEMMA InitializePageMaps ==
    ASSUME LoaderInv, MappedInv, Calm, InitializePage, UNCHANGED loader
    PROVE  MappedInv'
<1>1. /\ walk = NoWalk /\ ~AtEnd /\ pc \in Initializing
      /\ UNCHANGED physical /\ UNCHANGED <<tables, kernelPML4, pc, loop>>
      /\ walk' = [level |-> 4, table |-> kernelPML4, phys |-> PhysicalOf(loop.next), user |-> FALSE]
  BY Zenon DEF InitializePage, Running, Initializing, VMVirtualMemoryMapPage
<1>2. pc \notin {"ready", "heap", "stack"} /\ pc \notin Serving
  BY <1>1 DEF Initializing, Serving
<1>3. Root = kernelPML4
  BY <1>2 DEF Root
<1> QED
  BY <1>1, <1>2, <1>3, CallMaps

LEMMA HeapPageMaps ==
    ASSUME LoaderInv, MappedInv, Calm, HeapPage, UNCHANGED loader
    PROVE  MappedInv'
<1>1. walk = NoWalk /\ ~AtEnd /\ pc = "heap" /\ UNCHANGED <<tables, kernelPML4, pc, loop>>
  BY Zenon DEF HeapPage, Running
<1>2. CASE \E f \in FreeFrames :
               /\ VMPhysicalMemoryAllocatePage(f)
               /\ VMVirtualMemoryMapPage(kernelPML4, f, FALSE)
  <2>1. PICK f \in FreeFrames :
            /\ VMPhysicalMemoryAllocatePage(f)
            /\ walk' = [level |-> 4, table |-> kernelPML4, phys |-> f, user |-> FALSE]
    BY <1>2, Zenon DEF VMVirtualMemoryMapPage
  <2>2. pc \notin Initializing /\ pc # "ready" /\ Root = kernelPML4
    BY <1>1 DEF Initializing, Root, Serving
  <2> QED
    BY <1>1, <2>1, <2>2, CallMaps
<1>3. CASE UNCHANGED physical /\ UNCHANGED walk
  BY <1>1, <1>3, NothingMapped
<1>4. \/ \E f \in FreeFrames :
             /\ VMPhysicalMemoryAllocatePage(f)
             /\ VMVirtualMemoryMapPage(kernelPML4, f, FALSE)
      \/ UNCHANGED physical /\ UNCHANGED walk
  BY Zenon DEF HeapPage, OutOfMemory
<1> QED
  BY <1>2, <1>3, <1>4

LEMMA LoadPageMaps ==
    ASSUME LoaderInv, MappedInv, Calm, HOTLoadPage
    PROVE  MappedInv'
<1>1. walk = NoWalk /\ ~AtEnd /\ pc = "segments" /\ UNCHANGED <<tables, kernelPML4, pc, loop, loader>>
  BY Zenon DEF HOTLoadPage, Running
<1>2. pc \notin Initializing /\ pc # "ready" /\ Root = pml4[process] /\ pc \notin {"heap", "stack"}
  BY <1>1 DEF Initializing, Root, Serving
<1>3. \E f : /\ UNCHANGED physical \/ \E g \in FreeFrames : VMPhysicalMemoryAllocatePage(g)
             /\ walk' = [level |-> 4, table |-> pml4[process], phys |-> f, user |-> TRUE]
  BY Zenon DEF HOTLoadPage, VMVirtualMemoryMapPage, OutOfMemory
<1>4. PICK f : /\ UNCHANGED physical \/ \E g \in FreeFrames : VMPhysicalMemoryAllocatePage(g)
               /\ walk' = [level |-> 4, table |-> pml4[process], phys |-> f, user |-> TRUE]
  BY <1>3
<1> QED
  BY <1>1, <1>2, <1>4, CallMaps

LEMMA StackPageMaps ==
    ASSUME LoaderInv, MappedInv, Calm, LoaderStackPage
    PROVE  MappedInv'
<1>1. /\ walk = NoWalk /\ ~AtEnd /\ pc = "stack"
      /\ UNCHANGED <<tables, kernelPML4, pc, loop, loader>>
  BY Zenon DEF LoaderStackPage, StackPage, Running
<1>2. CASE \E f \in FreeFrames :
               /\ VMPhysicalMemoryAllocatePage(f)
               /\ VMVirtualMemoryMapPage(pml4[process], f, TRUE)
  <2>1. PICK f \in FreeFrames :
            /\ VMPhysicalMemoryAllocatePage(f)
            /\ walk' = [level |-> 4, table |-> pml4[process], phys |-> f, user |-> TRUE]
    BY <1>2, Zenon DEF VMVirtualMemoryMapPage
  <2>2. pc \notin Initializing /\ pc # "ready" /\ Root = pml4[process]
    BY <1>1 DEF Initializing, Root, Serving
  <2> QED
    BY <1>1, <2>1, <2>2, CallMaps
<1>3. CASE UNCHANGED physical /\ UNCHANGED walk
  BY <1>1, <1>3, NothingMapped
<1>4. \/ \E f \in FreeFrames :
             /\ VMPhysicalMemoryAllocatePage(f)
             /\ VMVirtualMemoryMapPage(pml4[process], f, TRUE)
      \/ UNCHANGED physical /\ UNCHANGED walk
  BY Zenon DEF LoaderStackPage, StackPage, OutOfMemory
<1> QED
  BY <1>2, <1>3, <1>4

LEMMA GrowPageMaps ==
    ASSUME LoaderInv, MappedInv, Calm, GrowPage, NEW f \in FreeFrames,
           VMPhysicalMemoryAllocatePage(f), VMVirtualMemoryMapPage(pml4[process], f, TRUE),
           UNCHANGED <<pc, heapCurrent>>
    PROVE  MappedInv'
<1>1. /\ walk = NoWalk /\ ~AtEnd /\ pc = "grow"
      /\ UNCHANGED <<tables, kernelPML4, loop, nextProcessID, process, segment, pml4, state,
                     image, granted>>
  BY Zenon DEF GrowPage, Running
<1>2. walk' = [level |-> 4, table |-> pml4[process], phys |-> f, user |-> TRUE]
  BY DEF VMVirtualMemoryMapPage
<1>3. UNCHANGED <<tables, kernelPML4, pc, loop, loader>>
  BY <1>1 DEF loader
<1>4. pc \notin Initializing /\ pc \notin {"ready", "heap", "stack"} /\ Root = pml4[process]
  BY <1>1 DEF Initializing, Root, Serving
<1> QED
  BY <1>1, <1>2, <1>3, <1>4, CallMaps

-----------------------------------------------------------------------------
(* From one thing that is done for processes to the next.                  *)

LEMMA ServingRests ==
    ASSUME LoaderInv, MappedInv, Calm, UNCHANGED physical,
           UNCHANGED <<tables, kernelPML4, pml4>>, walk' = NoWalk,
           pc \in {"ready"} \cup Serving, pc' \in {"ready"} \cup Serving
    PROVE  /\ WalkPlace' /\ StretchInv' /\ KernelMapInv' /\ GuardInv' /\ SharedInv'
           /\ FreeFrames' = FreeFrames
           /\ \A p, page : Placed(p, page)' <=> Placed(p, page)
<1>1. TotalPageCount' = TotalPageCount /\ FreeFrames' = FreeFrames
  BY MapUnchanged, FramesUnchanged
<1>2. pc \notin Booting /\ pc' \notin Booting /\ pc' \notin Initializing
  BY DEF Booting, Serving, Initializing
<1>3. \A page : (Begun(page)' <=> Begun(page)) /\ (KernelMaps(page)' <=> KernelMaps(page))
  BY <1>1 DEF Begun, KernelMaps, Serving, Initializing
<1>4. KernelMapInv'
  <2>1. \A page \in KernelPages : Begun(page) => KernelMaps(page)
    BY <1>2 DEF MappedInv, KernelMapInv, Booting
  <2> QED
    BY <1>3, <2>1 DEF KernelMapInv
<1>5. TablesKept
  BY TablesSame
<1>6. GuardInv'
  <2>1. pc \notin {"pml4"} \cup Initializing
    BY <1>2 DEF Booting
  <2>2. GuardInv
    BY DEF MappedInv
  <2> QED
    BY <1>5, <2>1, <2>2 DEF TablesKept, GuardInv
<1>7. SharedInv'
  BY <1>5 DEF TablesKept
<1>8. WalkPlace' /\ StretchInv'
  BY <1>2 DEF WalkPlace, StretchInv
<1>9. \A p, page : Placed(p, page)' <=> Placed(p, page)
  BY DEF Placed
<1> QED
  BY <1>1, <1>4, <1>6, <1>7, <1>8, <1>9

LEMMA SegmentsType ==
    ASSUME LoaderInv, pc \in Serving
    PROVE  /\ process \in Processes /\ Segments \in Seq([vaddr : Nat, memsz : Nat])
           /\ Len(Segments) \in Nat /\ DOMAIN Segments = 1 .. Len(Segments)
<1>1. process \in Processes /\ image \in [Processes -> Images]
  BY DEF LoaderInv, ProcessInv
<1>2. ImageOK(image[process])
  BY <1>1, LoaderAssumption
<1>3. Segments \in Seq([vaddr : Nat, memsz : Nat])
  BY <1>2 DEF ImageOK, Segments
<1> QED
  BY <1>1, <1>3

LEMMA SegmentMaps ==
    ASSUME LoaderInv, MappedInv, Calm, HOTLoadSegment
    PROVE  MappedInv'
<1>1. /\ walk = NoWalk /\ pc = "segments" /\ AtEnd /\ segment <= Len(Segments)
      /\ loop' = IF Segments[segment].memsz = 0 THEN Span(0, 0) ELSE PagesOf(Segments[segment])
      /\ segment' = segment + 1
      /\ UNCHANGED physical
      /\ UNCHANGED <<tables, kernelPML4, pc, walk, nextProcessID, process, pml4, heapCurrent,
                     state, image, granted>>
  BY Zenon DEF HOTLoadSegment, Running
<1>2. pc \in {"ready"} \cup Serving
  BY <1>1 DEF Serving
<1>3. /\ WalkPlace' /\ StretchInv' /\ KernelMapInv' /\ GuardInv' /\ SharedInv'
      /\ FreeFrames' = FreeFrames
      /\ \A p, page : Placed(p, page)' <=> Placed(p, page)
  BY <1>1, <1>2, ServingRests
<1>4. SpawnedInv'
  <2>1. SpawnedInv
    BY DEF MappedInv
  <2> QED
    BY <1>1, <1>3, <2>1 DEF SpawnedInv
<1>5. segment \in Nat \ {0} /\ loop.next \in Nat /\ loop.end \in Nat
  BY <1>1 DEF LoaderInv, ProcessInv, LoopInv
<1>6. ASSUME NEW page \in PagesIn(Segments[segment])
      PROVE  page \in Ahead'
  BY <1>1, <1>6 DEF PagesIn, Ahead
<1>7. LoadInv'
  <2>1. CASE Short("stack")
    BY <1>1, <1>3, <2>1 DEF Short, LoadInv
  <2>2. CASE \A page \in Int : Due(page) => page \in Ahead \/ Placed(process, page)
    <3>1. ASSUME NEW page \in Int, page \in ProgramPages(process, segment)
          PROVE  page \in Ahead' \/ Placed(process, page)
      <4>1. PICK i \in DOMAIN Segments : i <= segment /\ page \in PagesIn(Segments[i])
        BY <3>1 DEF ProgramPages, Segments
      <4>2. CASE i = segment
        BY <1>6, <4>1, <4>2
      <4>3. CASE i # segment
        <5>1. i <= segment - 1
          <6>1. i \in Nat
            BY <1>1, SegmentsType DEF Serving
          <6> QED
            BY <1>5, <4>1, <4>3, <6>1
        <5>2. Due(page)
          BY <1>1, <3>1, <4>1, <5>1 DEF Due, ProgramPages, Segments
        <5>3. page \notin Ahead
          BY <1>1, <1>5 DEF Ahead, AtEnd
        <5> QED
          BY <2>2, <5>2, <5>3
      <4> QED
        BY <4>2, <4>3
    <3>2. segment' - 1 = segment
      BY <1>1, <1>5
    <3>3. \A page : Due(page)' => page \in ProgramPages(process, segment)
      BY <1>1, <3>2 DEF Due, ProgramPages
    <3>4. \A page : Placed(process, page)' <=> Placed(process, page)
      BY <1>1 DEF Placed
    <3> QED
      BY <3>1, <3>3, <3>4 DEF LoadInv
  <2> QED
    BY <1>1, <2>1, <2>2 DEF MappedInv, LoadInv
<1>8. RunInv' /\ GrowInv'
  <2>1. RunInv
    BY DEF MappedInv
  <2>2. \A p, page : Needs(p, page)' <=> Needs(p, page)
    BY <1>1 DEF Needs, ProgramPages
  <2>3. RunInv'
    BY <1>1, <1>3, <2>1, <2>2 DEF RunInv, RunningProcesses
  <2> QED
    BY <1>1, <2>3 DEF GrowInv
<1> QED
  BY <1>3, <1>4, <1>7, <1>8 DEF MappedInv

(* A process is given up. *)
LEMMA FailsMaps ==
    ASSUME LoaderInv, MappedInv, Calm, SpawnFails, pc \in {"segments", "stack"},
           walk = NoWalk, UNCHANGED physical,
           UNCHANGED <<tables, kernelPML4, walk, nextProcessID, process, segment, pml4,
                       heapCurrent, image, granted>>
    PROVE  MappedInv'
<1>1. pc' = "ready" /\ state' = [state EXCEPT ![process] = "failed"]
  BY DEF SpawnFails
<1>2. pc \in Serving /\ process \in Processes /\ state[process] # "running"
      /\ state \in [Processes -> States]
  BY DEF LoaderInv, ProcessInv, Serving
<1>3. /\ WalkPlace' /\ StretchInv' /\ KernelMapInv' /\ GuardInv' /\ SharedInv'
      /\ FreeFrames' = FreeFrames
      /\ \A p, page : Placed(p, page)' <=> Placed(p, page)
  BY <1>1, <1>2, ServingRests
<1>4. SpawnedInv
  BY DEF MappedInv
<1>5. process < nextProcessID /\ nextProcessID \in Nat /\ process \in Nat
  <2>1. Processes \subseteq Nat
    BY LoaderAssumption DEF Processes
  <2> QED
    BY <1>2, <1>4, <2>1 DEF SpawnedInv, LoaderInv, ProcessInv
<1>6. \A p \in Processes : state'[p] = IF p = process THEN "failed" ELSE state[p]
  BY <1>1, <1>2
<1>7. SpawnedInv'
  <2>1. ASSUME NEW p \in Processes
        PROVE  /\ p >= nextProcessID => state'[p] = "none" /\ pml4[p] = 0
               /\ p < nextProcessID /\ pml4[p] = 0 => FreeFrames = {}
               /\ state'[p] # "running" => granted[p] = {}
    <3>1. CASE p = process
      BY <1>2, <1>4, <1>5, <1>6, <3>1 DEF SpawnedInv
    <3>2. CASE p # process
      BY <1>4, <1>6, <3>2 DEF SpawnedInv
    <3> QED
      BY <3>1, <3>2
  <2>2. pc' \notin Booting /\ pc' \notin Serving
    BY <1>1 DEF Booting, Serving, Initializing
  <2> QED
    BY <1>1, <1>3, <1>4, <2>1, <2>2 DEF SpawnedInv
<1>8. RunInv'
  <2>1. \A p \in RunningProcesses' : p \in RunningProcesses
    BY <1>6 DEF RunningProcesses
  <2>2. RunInv
    BY DEF MappedInv
  <2>3. \A p, page : Needs(p, page)' <=> Needs(p, page)
    BY DEF Needs, ProgramPages
  <2> QED
    BY <1>3, <2>1, <2>2, <2>3 DEF RunInv
<1>9. LoadInv' /\ GrowInv'
  BY <1>1 DEF LoadInv, GrowInv
<1> QED
  BY <1>3, <1>7, <1>8, <1>9 DEF MappedInv

LEMMA LoadDoneMaps ==
    ASSUME LoaderInv, MappedInv, Calm, HOTLoadDone
    PROVE  MappedInv'
<1>1. /\ walk = NoWalk /\ pc = "segments" /\ AtEnd /\ segment > Len(Segments)
      /\ \/ SpawnFails
         \/ /\ pc' = "stack" /\ loop' = Span(UserStackBottom, UserStackTop)
            /\ UNCHANGED state
      /\ UNCHANGED physical
      /\ UNCHANGED <<tables, kernelPML4, walk, nextProcessID, process, segment, pml4,
                     heapCurrent, image, granted>>
  BY Zenon DEF HOTLoadDone, Running
<1>2. CASE SpawnFails
  BY <1>1, <1>2, FailsMaps
<1>3. CASE pc' = "stack" /\ loop' = Span(UserStackBottom, UserStackTop) /\ UNCHANGED state
  <2>1. pc \in {"ready"} \cup Serving /\ pc' \in {"ready"} \cup Serving /\ walk' = NoWalk
    BY <1>1, <1>3 DEF Serving
  <2>2. /\ WalkPlace' /\ StretchInv' /\ KernelMapInv' /\ GuardInv' /\ SharedInv'
        /\ FreeFrames' = FreeFrames
        /\ \A p, page : Placed(p, page)' <=> Placed(p, page)
    BY <1>1, <2>1, ServingRests
  <2>3. SpawnedInv'
    <3>1. SpawnedInv
      BY DEF MappedInv
    <3>2. pc' \notin Booting /\ pc \in Serving
      BY <1>1, <1>3 DEF Booting, Serving, Initializing
    <3> QED
      BY <1>1, <1>3, <2>2, <3>1, <3>2 DEF SpawnedInv
  <2>4. /\ segment \in Nat \ {0} /\ loop.next \in Nat /\ loop.end \in Nat
        /\ Len(Segments) \in Nat /\ DOMAIN Segments = 1 .. Len(Segments)
    BY <1>1, SegmentsType DEF LoaderInv, ProcessInv, LoopInv, Serving
  <2>5. loop'.next = UserStackBottom /\ loop'.end = UserStackTop
        /\ Ahead' = UserStackBottom .. UserStackTop - 1
    BY <1>3 DEF Span, Ahead
  <2>6. LoadInv'
    <3>1. CASE Short("stack")
      <4>1. UserStackBottom < UserStackTop
        BY VirtualMemoryAssumption
      <4> QED
        BY <1>1, <2>1, <2>2, <2>5, <3>1, <4>1 DEF Short, LoadInv
    <3>2. CASE \A page \in Int : Due(page) => page \in Ahead \/ Placed(process, page)
      <4>1. ASSUME NEW page \in Int, Needs(process, page)
            PROVE  page \in Ahead' \/ Placed(process, page)
        <5>1. CASE page \in UserStackBottom .. UserStackTop - 1
          BY <2>5, <5>1
        <5>2. CASE page \in ProgramPages(process, Len(image[process].segments))
          <6>1. PICK i \in DOMAIN Segments : page \in PagesIn(Segments[i])
            BY <5>2 DEF ProgramPages, Segments
          <6>2. i <= segment - 1
            BY <1>1, <2>4, <6>1
          <6>3. Due(page)
            BY <1>1, <4>1, <6>1, <6>2 DEF Due, ProgramPages, Segments
          <6>4. page \notin Ahead
            BY <1>1, <2>4 DEF Ahead, AtEnd
          <6> QED
            BY <3>2, <6>3, <6>4
        <5> QED
          BY <4>1, <5>1, <5>2 DEF Needs
      <4>2. \A page : Due(page)' => Needs(process, page)
        BY <1>1, <1>3 DEF Due, Needs, ProgramPages
      <4>3. \A page : Placed(process, page)' <=> Placed(process, page)
        BY <1>1 DEF Placed
      <4> QED
        BY <4>1, <4>2, <4>3 DEF LoadInv
    <3> QED
      BY <1>1, <3>1, <3>2 DEF MappedInv, LoadInv
  <2>7. RunInv' /\ GrowInv'
    <3>1. RunInv
      BY DEF MappedInv
    <3>2. \A p, page : Needs(p, page)' <=> Needs(p, page)
      BY <1>1 DEF Needs, ProgramPages
    <3>3. RunInv'
      BY <1>1, <1>3, <2>2, <3>1, <3>2 DEF RunInv, RunningProcesses
    <3> QED
      BY <1>3, <3>3 DEF GrowInv
  <2> QED
    BY <2>2, <2>3, <2>6, <2>7 DEF MappedInv
<1> QED
  BY <1>1, <1>2, <1>3

LEMMA SchedulesMaps ==
    ASSUME LoaderInv, MappedInv, Calm, LoaderSchedules
    PROVE  MappedInv'
<1>1. /\ walk = NoWalk /\ pc = "stack" /\ AtEnd
      /\ \/ SpawnFails
         \/ state' = [state EXCEPT ![process] = "running"] /\ pc' = "ready" /\ UNCHANGED loop
      /\ UNCHANGED physical
      /\ UNCHANGED <<tables, kernelPML4, walk, nextProcessID, process, segment, pml4,
                     heapCurrent, image, granted>>
  BY Zenon DEF LoaderSchedules, Running
<1>2. CASE SpawnFails
  BY <1>1, <1>2, FailsMaps
<1>3. CASE state' = [state EXCEPT ![process] = "running"] /\ pc' = "ready" /\ UNCHANGED loop
  <2>1. pc \in Serving /\ process \in Processes /\ state[process] # "running"
        /\ state \in [Processes -> States]
        /\ loop.next \in Nat /\ loop.end \in Nat
    BY <1>1 DEF LoaderInv, ProcessInv, LoopInv, Serving
  <2>2. pc \in {"ready"} \cup Serving /\ pc' \in {"ready"} \cup Serving /\ walk' = NoWalk
    BY <1>1, <1>3 DEF Serving
  <2>3. /\ WalkPlace' /\ StretchInv' /\ KernelMapInv' /\ GuardInv' /\ SharedInv'
        /\ FreeFrames' = FreeFrames
        /\ \A p, page : Placed(p, page)' <=> Placed(p, page)
    BY <1>1, <2>2, ServingRests
  <2>4. SpawnedInv
    BY DEF MappedInv
  <2>5. process < nextProcessID /\ nextProcessID \in Nat /\ process \in Nat
    <3>1. Processes \subseteq Nat
      BY LoaderAssumption DEF Processes
    <3> QED
      BY <2>1, <2>4, <3>1 DEF SpawnedInv, LoaderInv, ProcessInv
  <2>6. \A p \in Processes : state'[p] = IF p = process THEN "running" ELSE state[p]
    BY <1>3, <2>1
  <2>7. SpawnedInv'
    <3>1. ASSUME NEW p \in Processes
          PROVE  /\ p >= nextProcessID => state'[p] = "none" /\ pml4[p] = 0
                 /\ p < nextProcessID /\ pml4[p] = 0 => FreeFrames = {}
                 /\ state'[p] # "running" => granted[p] = {}
      <4>1. CASE p = process
        BY <2>1, <2>4, <2>5, <2>6, <4>1 DEF SpawnedInv
      <4>2. CASE p # process
        BY <2>4, <2>6, <4>2 DEF SpawnedInv
      <4> QED
        BY <4>1, <4>2
    <3>2. pc' \notin Booting /\ pc' \notin Serving
      BY <1>3 DEF Booting, Serving, Initializing
    <3> QED
      BY <1>1, <1>3, <2>3, <2>4, <3>1, <3>2 DEF SpawnedInv
  <2>8. \A page \in Int : Needs(process, page) => Placed(process, page)
    <3>1. ~Short("stack")
      BY <1>1, <2>1 DEF Short, AtEnd
    <3>2. \A page : page \notin Ahead
      BY <1>1, <2>1 DEF Ahead, AtEnd
    <3>3. \A page : Needs(process, page) => Due(page)
      BY <1>1 DEF Due
    <3> QED
      BY <1>1, <3>1, <3>2, <3>3 DEF MappedInv, LoadInv
  <2>9. granted[process] = {}
    BY <2>1, <2>4 DEF SpawnedInv
  <2>10. RunInv'
    <3>1. ASSUME NEW p \in RunningProcesses'
          PROVE  /\ \A page \in Int : Needs(p, page) => Placed(p, page)
                 /\ \A page \in granted[p] : Placed(p, page) \/ FreeFrames = {}
      <4>1. p \in Processes
        BY DEF RunningProcesses
      <4>2. CASE p = process
        BY <2>8, <2>9, <4>2
      <4>3. CASE p # process
        <5>1. p \in RunningProcesses
          BY <2>6, <4>1, <4>3 DEF RunningProcesses
        <5> QED
          BY <5>1 DEF MappedInv, RunInv
      <4> QED
        BY <4>2, <4>3
    <3>2. \A p, page : Needs(p, page)' <=> Needs(p, page)
      BY <1>1 DEF Needs, ProgramPages
    <3> QED
      BY <1>1, <2>3, <3>1, <3>2 DEF RunInv
  <2>11. LoadInv' /\ GrowInv'
    BY <1>3 DEF LoadInv, GrowInv
  <2> QED
    BY <2>3, <2>7, <2>10, <2>11 DEF MappedInv
<1> QED
  BY <1>1, <1>2, <1>3

LEMMA MemoryAllocateMaps ==
    ASSUME LoaderInv, MappedInv, Calm, NEW p \in Processes, NEW size \in Sizes,
           OSServiceMemoryAllocate(p, size)
    PROVE  MappedInv'
<1>1. /\ walk = NoWalk /\ pc = "ready" /\ state[p] = "running" /\ process' = p /\ pc' = "grow"
      /\ loop' = Span(heapCurrent[p], heapCurrent[p] + PagesNeeded(size))
      /\ UNCHANGED physical
      /\ UNCHANGED <<tables, kernelPML4, walk, nextProcessID, segment, pml4, heapCurrent,
                     state, image, granted>>
  BY Zenon DEF OSServiceMemoryAllocate, Running
<1>2. pc \in {"ready"} \cup Serving /\ pc' \in {"ready"} \cup Serving /\ walk' = NoWalk
  BY <1>1 DEF Serving
<1>3. /\ WalkPlace' /\ StretchInv' /\ KernelMapInv' /\ GuardInv' /\ SharedInv'
      /\ FreeFrames' = FreeFrames
      /\ \A q, page : Placed(q, page)' <=> Placed(q, page)
  BY <1>1, <1>2, ServingRests
<1>4. SpawnedInv
  BY DEF MappedInv
<1>5. p < nextProcessID
  <2>1. p \in Nat /\ nextProcessID \in Nat
    BY LoaderAssumption DEF Processes, LoaderInv, ProcessInv
  <2>2. ~(p >= nextProcessID)
    BY <1>1, <1>4 DEF SpawnedInv
  <2> QED
    BY <2>1, <2>2
<1>6. SpawnedInv'
  <2>1. pc' \notin Booting /\ pc' # "segments"
    BY <1>1 DEF Booting, Initializing
  <2> QED
    BY <1>1, <1>3, <1>4, <1>5, <2>1 DEF SpawnedInv
<1>7. RunInv'
  <2>1. RunInv
    BY DEF MappedInv
  <2>2. \A q, page : Needs(q, page)' <=> Needs(q, page)
    BY <1>1 DEF Needs, ProgramPages
  <2> QED
    BY <1>1, <1>3, <2>1, <2>2 DEF RunInv, RunningProcesses
<1>8. LoadInv'
  BY <1>1 DEF LoadInv
<1>9. GrowInv'
  BY <1>1 DEF GrowInv, Ahead, Span
<1> QED
  BY <1>3, <1>6, <1>7, <1>8, <1>9 DEF MappedInv

(* The memory service answers: what it has not mapped yet stays unmapped.  *)
LEMMA GrowStopsMaps ==
    ASSUME LoaderInv, MappedInv, Calm, pc = "grow", walk = NoWalk, pc' = "ready",
           NEW new \in SUBSET Int,
           \A page \in new : Placed(process, page) \/ FreeFrames = {},
           granted' = [granted EXCEPT ![process] = @ \cup new],
           UNCHANGED physical,
           UNCHANGED <<tables, kernelPML4, walk, nextProcessID, process, pml4, state, image>>
    PROVE  MappedInv'
<1>1. pc \in {"ready"} \cup Serving /\ pc' \in {"ready"} \cup Serving /\ walk' = NoWalk
      /\ process \in Processes
  BY DEF Serving, LoaderInv, ProcessInv
<1>2. /\ WalkPlace' /\ StretchInv' /\ KernelMapInv' /\ GuardInv' /\ SharedInv'
      /\ FreeFrames' = FreeFrames
      /\ \A q, page : Placed(q, page)' <=> Placed(q, page)
  BY <1>1, ServingRests
<1>3. SpawnedInv
  BY DEF MappedInv
<1>4. state[process] = "running" /\ granted \in [Processes -> SUBSET Int]
  BY <1>3 DEF SpawnedInv
<1>5. /\ granted' \in [Processes -> SUBSET Int]
      /\ \A p \in Processes : granted'[p] = IF p = process THEN granted[p] \cup new ELSE granted[p]
  BY <1>4
<1>6. SpawnedInv'
  <2>1. pc' \notin Booting /\ pc' \notin Serving
    BY DEF Booting, Initializing, Serving
  <2>2. ASSUME NEW p \in Processes, state[p] # "running"
        PROVE  granted'[p] = {}
    <3>1. p # process /\ granted[p] = {}
      BY <1>3, <1>4, <2>2 DEF SpawnedInv
    <3> QED
      BY <1>5, <3>1
  <2>3. \A p \in Processes :
            /\ p >= nextProcessID => state[p] = "none" /\ pml4[p] = 0
            /\ p < nextProcessID /\ pml4[p] = 0 => FreeFrames = {}
    BY <1>3 DEF SpawnedInv
  <2> QED
    BY <1>2, <1>5, <2>1, <2>2, <2>3 DEF SpawnedInv
<1>7. RunInv'
  <2>1. RunningProcesses' = RunningProcesses
    BY DEF RunningProcesses
  <2>2. ASSUME NEW p \in RunningProcesses
        PROVE  /\ \A page \in Int : Needs(p, page) => Placed(p, page)
               /\ \A page \in granted'[p] : Placed(p, page) \/ FreeFrames = {}
    <3>1. p \in Processes
      BY DEF RunningProcesses
    <3>2. /\ \A page \in Int : Needs(p, page) => Placed(p, page)
          /\ \A page \in granted[p] : Placed(p, page) \/ FreeFrames = {}
      BY DEF MappedInv, RunInv
    <3> QED
      BY <1>5, <3>1, <3>2
  <2>3. \A p, page : Needs(p, page)' <=> Needs(p, page)
    BY DEF Needs, ProgramPages
  <2> QED
    BY <1>2, <2>1, <2>2, <2>3 DEF RunInv
<1>8. LoadInv' /\ GrowInv'
  BY DEF LoadInv, GrowInv
<1> QED
  BY <1>2, <1>6, <1>7, <1>8 DEF MappedInv

LEMMA GrowMaps ==
    ASSUME LoaderInv, MappedInv, Calm, GrowPage
    PROVE  MappedInv'
<1>1. CASE /\ \E f \in FreeFrames :
                  /\ VMPhysicalMemoryAllocatePage(f)
                  /\ VMVirtualMemoryMapPage(pml4[process], f, TRUE)
           /\ UNCHANGED <<pc, heapCurrent>>
  <2>1. PICK f \in FreeFrames : /\ VMPhysicalMemoryAllocatePage(f)
                                /\ VMVirtualMemoryMapPage(pml4[process], f, TRUE)
    BY <1>1
  <2> QED
    BY <1>1, <2>1, GrowPageMaps
<1>2. CASE OutOfMemory /\ pc' = "ready" /\ UNCHANGED walk
  <2>1. /\ walk = NoWalk /\ pc = "grow"
        /\ UNCHANGED <<tables, kernelPML4, nextProcessID, process, pml4, state, image, granted>>
    BY Zenon DEF GrowPage, Running
  <2>2. UNCHANGED physical
    BY <1>2 DEF OutOfMemory
  <2>3. process \in Processes /\ granted \in [Processes -> SUBSET Int]
    BY <2>1 DEF LoaderInv, ProcessInv, Serving, MappedInv, SpawnedInv
  <2>4. granted' = [granted EXCEPT ![process] = @ \cup {}]
    BY <2>1, <2>3
  <2>5. {} \in SUBSET Int /\ \A page \in {} : Placed(process, page) \/ FreeFrames = {}
    OBVIOUS
  <2> QED
    BY <1>2, <2>1, <2>2, <2>4, <2>5, GrowStopsMaps
<1> QED
  BY <1>1, <1>2, Zenon DEF GrowPage

LEMMA GrowDoneMaps ==
    ASSUME LoaderInv, MappedInv, Calm, GrowDone
    PROVE  MappedInv'
<1>1. /\ walk = NoWalk /\ pc = "grow" /\ AtEnd /\ pc' = "ready"
      /\ granted' = [granted EXCEPT ![process] = @ \cup heapCurrent[process] .. loop.end - 1]
      /\ UNCHANGED physical
      /\ UNCHANGED <<tables, kernelPML4, walk, nextProcessID, process, pml4, state, image>>
  BY Zenon DEF GrowDone, Running
<1>2. PICK new : new = heapCurrent[process] .. loop.end - 1
  OBVIOUS
<1>3. new \in SUBSET Int
  BY <1>2
<1>4. loop.next \in Nat /\ loop.end \in Nat
  BY DEF LoaderInv, LoopInv
<1>5. \A page \in new : Placed(process, page) \/ FreeFrames = {}
  BY <1>1, <1>2, <1>4 DEF MappedInv, GrowInv, Ahead, AtEnd
<1>6. granted' = [granted EXCEPT ![process] = @ \cup new]
  BY <1>1, <1>2
<1> QED
  BY <1>1, <1>3, <1>5, <1>6, GrowStopsMaps

-----------------------------------------------------------------------------
(* The boot goes on to its next loop.                                      *)

LEMMA BootRests ==
    ASSUME LoaderInv, MappedInv, pc \in Booting, pc' \in Booting \cup {"ready"},
           walk' = NoWalk, UNCHANGED loader, StretchInv', KernelMapInv', GuardInv'
    PROVE  MappedInv'
<1>1. UNCHANGED <<nextProcessID, process, segment, pml4, heapCurrent, state, image, granted>>
  BY DEF loader
<1>2. nextProcessID = 1 /\ granted \in [Processes -> SUBSET Int]
  BY DEF MappedInv, SpawnedInv
<1>3. \A p \in Processes : p >= 1 /\ ~(p < 1)
  BY DEF Processes
<1>4. \A p \in Processes : state[p] = "none" /\ pml4[p] = 0 /\ granted[p] = {}
  BY <1>2, <1>3 DEF MappedInv, SpawnedInv
<1>5. pc' \notin Serving
  BY DEF Booting, Initializing, Serving
<1>6. SharedInv'
  BY <1>1, <1>4 DEF SharedInv
<1>7. SpawnedInv'
  BY <1>1, <1>2, <1>3, <1>4, <1>5 DEF SpawnedInv, Serving
<1>8. LoadInv' /\ GrowInv'
  BY <1>5 DEF LoadInv, GrowInv, Serving
<1>9. RunInv'
  BY <1>1, <1>4 DEF RunInv, RunningProcesses
<1>10. WalkPlace'
  BY DEF WalkPlace
<1> QED
  BY <1>6, <1>7, <1>8, <1>9, <1>10 DEF MappedInv

LEMMA HeapDoneMaps ==
    ASSUME LoaderInv, MappedInv, Calm, HeapDone, UNCHANGED loader
    PROVE  MappedInv'
<1>1. /\ walk = NoWalk /\ pc = "heap" /\ AtEnd /\ pc' = "ready" /\ UNCHANGED physical
      /\ UNCHANGED <<tables, kernelPML4, loop, walk>>
  BY Zenon DEF HeapDone, Running
<1>2. TotalPageCount' = TotalPageCount /\ UNCHANGED pml4
  BY <1>1, MapUnchanged DEF loader
<1>3. TablesKept
  BY <1>1, <1>2, TablesSame
<1>4. pc \in Booting /\ pc' \notin Initializing /\ pc \notin {"pml4"} \cup Initializing
  BY <1>1 DEF Booting, Initializing
<1>5. StretchInv'
  BY <1>4 DEF StretchInv
<1>6. loop.next \in Nat /\ loop.end \in Nat /\ loop.next >= loop.end
  BY <1>1 DEF LoaderInv, LoopInv, AtEnd
<1>7. KernelMapInv'
  <2>1. ~Short("heap")
    BY <1>1, <1>6 DEF Short
  <2>2. \A page : page \notin Ahead
    BY <1>6 DEF Ahead
  <2>3. \A page \in KernelPages : Begun(page) => KernelMaps(page)
    BY <2>1, <2>2 DEF MappedInv, KernelMapInv
  <2>4. \A page : Begun(page)' => Begun(page)
    BY <1>1, <1>2 DEF Begun, Initializing
  <2> QED
    BY <1>3, <2>3, <2>4 DEF KernelMapInv, TablesKept
<1>8. GuardInv'
  <2>1. GuardInv
    BY DEF MappedInv
  <2> QED
    BY <1>3, <1>4, <2>1 DEF TablesKept, GuardInv
<1> QED
  BY <1>1, <1>4, <1>5, <1>7, <1>8, BootRests

LEMMA InitializeNextMaps ==
    ASSUME LoaderInv, MappedInv, Calm, InitializeNext, UNCHANGED loader
    PROVE  MappedInv'
<1>1. /\ walk = NoWalk /\ AtEnd
      /\ \/ /\ pc = "hhdm" /\ pc' = "kernel"
            /\ loop' = Span(KernelBase + KernelFirst, KernelBase + KernelEnd)
         \/ /\ pc = "kernel" /\ pc' = "framebuffer"
            /\ loop' = Span(FramebufferBase, FramebufferBase + FramebufferPages)
      /\ UNCHANGED physical /\ UNCHANGED <<tables, kernelPML4, walk>>
  BY Zenon DEF InitializeNext, Running
<1>2. TotalPageCount' = TotalPageCount /\ (FreeFrames = {} => FreeFrames' = {})
      /\ UNCHANGED pml4
  BY <1>1, MapUnchanged DEF loader
<1>3. TablesKept
  BY <1>1, <1>2, TablesSame
<1>4. pc \in Initializing /\ pc' \in Initializing /\ pc \in Booting /\ pc' \in Booting
  BY <1>1 DEF Booting, Initializing
<1>5. \/ /\ pc = "hhdm" /\ pc' = "kernel"
         /\ Ahead' = KernelBase + KernelFirst .. KernelBase + KernelEnd - 1
      \/ /\ pc = "kernel" /\ pc' = "framebuffer"
         /\ Ahead' = FramebufferBase .. FramebufferBase + FramebufferPages - 1
  <2>1. ASSUME NEW from, NEW to, loop' = Span(from, to)
        PROVE  Ahead' = from .. to - 1
    <3>1. loop'.next = from /\ loop'.end = to
      BY <2>1 DEF Span
    <3> QED
      BY <3>1 DEF Ahead
  <2>2. /\ (KernelBase + KernelEnd) - 1 = KernelBase + KernelEnd - 1
        /\ (FramebufferBase + FramebufferPages) - 1 = FramebufferBase + FramebufferPages - 1
    BY LayoutFacts
  <2> QED
    BY <1>1, <2>1, <2>2, Zenon
<1>6. StretchInv'
  <2>1. ASSUME NEW page \in Ahead'
        PROVE  PhysicalOf(page)' = FrameOf(page)
    <3>1. CASE pc' = "kernel"
      <4>1. page \in KernelBase + KernelFirst .. KernelBase + KernelEnd - 1
        BY <1>5, <2>1, <3>1
      <4>2. ~(page < KernelBase) /\ page < KernelHeapStart
        BY <4>1, LayoutFacts
      <4> QED
        BY <3>1, <4>2 DEF PhysicalOf, FrameOf
    <3>2. CASE pc' = "framebuffer"
      <4>1. page \in FramebufferBase .. FramebufferBase + FramebufferPages - 1
        BY <1>5, <2>1, <3>2
      <4>2. ~(page < KernelBase) /\ ~(page < KernelHeapStart)
        BY <4>1, LayoutFacts
      <4> QED
        BY <3>2, <4>2 DEF PhysicalOf, FrameOf
    <3> QED
      BY <1>5, <3>1, <3>2
  <2> QED
    BY <1>1, <2>1 DEF StretchInv
<1>7. loop.next \in Nat /\ loop.end \in Nat /\ loop.next >= loop.end
  BY <1>1 DEF LoaderInv, LoopInv, AtEnd
<1>8. KernelMapInv'
  <2>1. CASE Short("heap")
    <3>1. pc' # "heap"
      BY <1>5
    <3> QED
      BY <1>2, <1>4, <2>1, <3>1 DEF Short, KernelMapInv
  <2>2. CASE \A page \in KernelPages :
                 Begun(page) => (pc \in Booting /\ page \in Ahead) \/ KernelMaps(page)
    <3>1. \A page : page \notin Ahead
      BY <1>7 DEF Ahead
    <3>2. \A page : Begun(page)' => Begun(page) \/ page \in Ahead'
      BY <1>2, <1>5 DEF Begun, Initializing
    <3> QED
      BY <1>3, <1>4, <2>2, <3>1, <3>2 DEF KernelMapInv, TablesKept
  <2> QED
    BY <2>1, <2>2 DEF MappedInv, KernelMapInv
<1>9. GuardInv'
  BY <1>4 DEF GuardInv
<1> QED
  BY <1>1, <1>4, <1>6, <1>8, <1>9, BootRests

LEMMA InitializePML4Maps ==
    ASSUME LoaderInv, MappedInv, Calm, InitializePML4, UNCHANGED loader
    PROVE  MappedInv'
<1>1. /\ walk = NoWalk /\ pc = "pml4" /\ pc' = "hhdm"
      /\ loop' = Span(HhdmBase, HhdmBase + TotalPageCount)
      /\ UNCHANGED walk
  BY Zenon DEF InitializePML4, Running
<1>2. UNCHANGED physical \/ \E f \in FreeFrames : VMPhysicalMemoryAllocatePage(f)
  BY Zenon DEF InitializePML4, OutOfMemory
<1>3. TotalPageCount' = TotalPageCount
  BY <1>2, MapUnchanged
<1>4. pc \in Booting /\ pc' \in Booting /\ pc' \in Initializing
  BY <1>1 DEF Booting, Initializing
<1>5. Ahead' = HhdmBase .. HhdmBase + TotalPageCount - 1
  <2>1. PICK n : n = HhdmBase + TotalPageCount
    OBVIOUS
  <2>2. loop'.next = HhdmBase /\ loop'.end = n
    BY <1>1, <2>1 DEF Span
  <2>3. Ahead' = HhdmBase .. n - 1
    BY <2>2 DEF Ahead
  <2>4. n - 1 = HhdmBase + TotalPageCount - 1
    BY <2>1, LayoutFacts, MemoryFits DEF LoaderInv
  <2> QED
    BY <2>3, <2>4, Zenon
<1>6. StretchInv'
  <2>1. ASSUME NEW page \in Ahead'
        PROVE  PhysicalOf(page)' = FrameOf(page)
    <3>1. /\ TotalPageCount \in Nat
          /\ TotalPageCount = 0 \/ HhdmBase + TotalPageCount <= KernelBase
      BY MemoryFits DEF LoaderInv
    <3>2. page < KernelBase
      BY <1>5, <2>1, <3>1, LayoutFacts
    <3> QED
      BY <1>1, <3>2 DEF PhysicalOf, FrameOf
  <2> QED
    BY <1>1, <2>1 DEF StretchInv
<1>7. KernelMapInv'
  <2>1. \A page : Begun(page)' => page \in Ahead'
    BY <1>1, <1>3, <1>5 DEF Begun, Initializing
  <2> QED
    BY <1>4, <2>1 DEF KernelMapInv
<1>8. GuardInv'
  BY <1>4 DEF GuardInv
<1> QED
  BY <1>1, <1>4, <1>6, <1>7, <1>8, BootRests

(* An entry at the last level is for one page. *)
LEMMA LeafOfOne ==
    ASSUME NEW use, Tree(use, tables, held, Lacking), Roots(use), kernelPML4 # 0,
           NEW page \in KernelPages, NEW other \in KernelPages, NEW t,
           Leads(tables, kernelPML4, page, FALSE, 1, t),
           Leads(tables, kernelPML4, other, FALSE, 1, t), Index(page, 1) = Index(other, 1)
    PROVE  page = other
<1>1. page \in Pages /\ other \in Pages /\ 1 \in 1 .. 4 /\ 1 - 1 = 0
  BY DEF KernelPages
<1>2. UsedFor(use, held, kernelPML4, Use(0, 4, 0))
  BY DEF Roots
<1>3. UsedFor(use, held, t, Use(IF 1 = 4 THEN 0 ELSE Below(0, page), 1, Region(page, 1)))
  BY <1>1, <1>2, LeadsToUse
<1>4. UsedFor(use, held, t, Use(IF 1 = 4 THEN 0 ELSE Below(0, other), 1, Region(other, 1)))
  BY <1>1, <1>2, LeadsToUse
<1>5. Region(page, 1) = Region(other, 1)
  BY <1>3, <1>4 DEF UsedFor, Use
<1>6. /\ Region(page, 0) = Region(page, 1) * Entries + Index(page, 1)
      /\ Region(other, 0) = Region(other, 1) * Entries + Index(other, 1)
  BY <1>1, RegionStep
<1> QED
  BY <1>5, <1>6 DEF Region

LEMMA InitializeDoneMaps ==
    ASSUME LoaderInv, MappedInv, Calm, InitializeDone, UNCHANGED loader
    PROVE  MappedInv'
<1>1. /\ walk = NoWalk /\ AtEnd /\ pc = "framebuffer" /\ pc' = "heap"
      /\ VMVirtualMemoryUnmapPage(kernelPML4, GuardPage)
      /\ loop' = Span(KernelHeapStart, KernelHeapStart + KernelHeapPages)
      /\ UNCHANGED physical /\ UNCHANGED <<kernelPML4, walk>>
  BY Zenon DEF InitializeDone, Running
<1>2. TotalPageCount' = TotalPageCount /\ (FreeFrames = {} => FreeFrames' = {})
  BY <1>1, MapUnchanged
<1>3. pc \in Initializing /\ pc \in Booting /\ pc' \in Booting /\ pc' \notin Initializing
  BY <1>1 DEF Booting, Initializing
<1>4. PICK i : i = Index(GuardPage, 1)
  OBVIOUS
<1>5. \A t : t \in PageTable(kernelPML4, GuardPage)
             <=> Leads(tables, kernelPML4, GuardPage, FALSE, 1, t)
  BY LeadsIsTranslate
<1>6. ASSUME NEW a, NEW j, NEW user, NEW b
      PROVE  Link(tables', a, j, user, b) <=>
                 /\ Link(tables, a, j, user, b)
                 /\ ~(Leads(tables, kernelPML4, GuardPage, FALSE, 1, a) /\ j = i)
  <2>1. tables' = [t \in DOMAIN tables |->
                      IF t \in PageTable(kernelPML4, GuardPage)
                      THEN [k \in DOMAIN tables[t] \ {i} |-> tables[t][k]]
                      ELSE tables[t]]
    BY <1>1, <1>4 DEF VMVirtualMemoryUnmapPage
  <2> QED
    BY <1>5, <2>1 DEF Link
<1>7. Unmapped(GuardPage)'
  <2>1. SUFFICES ASSUME NEW f, Leads(tables', kernelPML4, GuardPage, FALSE, 0, f)
                 PROVE  FALSE
    BY <1>1 DEF Unmapped
  <2>2. PICK t : /\ Leads(tables', kernelPML4, GuardPage, FALSE, 1, t)
                 /\ Link(tables', t, i, FALSE, f)
    BY <1>4, <2>1, LeadsFrom, 1 \in 1 .. 4, 1 - 1 = 0
  <2>3. \A k \in 1 + 1 .. 4 : \A a, b :
            Link(tables', a, Index(GuardPage, k), FALSE, b) =>
                Link(tables, a, Index(GuardPage, k), FALSE, b)
    BY <1>6
  <2>4. Leads(tables, kernelPML4, GuardPage, FALSE, 1, t)
    BY <2>2, <2>3, LeadsKept, 1 \in 0 .. 4
  <2> QED
    BY <1>6, <2>2, <2>4
<1>8. GuardInv'
  BY <1>7 DEF GuardInv
<1>9. StretchInv'
  BY <1>3 DEF StretchInv
<1>10. loop'.next = KernelHeapStart /\ loop'.end = KernelHeapStart + KernelHeapPages
  BY <1>1 DEF Span
<1>11. ASSUME FreeFrames = {}
       PROVE  KernelMapInv'
  <2>1. loop'.next < loop'.end
    BY <1>10, LayoutFacts
  <2>2. Short("heap")'
    BY <1>1, <1>2, <1>11, <2>1 DEF Short
  <2> QED
    BY <1>1, <2>2 DEF KernelMapInv
<1>12. ASSUME kernelPML4 # 0, ~Short("heap")
       PROVE  KernelMapInv'
  <2>1. PICK use : Tree(use, tables, held, Lacking) /\ Roots(use)
    BY DEF LoaderInv, TablesInv
  <2>2. kernelPML4 \in held /\ use[kernelPML4].level = 4
    BY <1>12, <2>1, RootLevel
  <2>3. ASSUME NEW page \in KernelPages, KernelMaps(page), page # GuardPage
        PROVE  KernelMaps(page)'
    <3>1. PICK f : Leads(tables, kernelPML4, page, FALSE, 0, f)
                   /\ (page \in KernelHeap \/ f = FrameOf(page))
      BY <2>3 DEF KernelMaps
    <3>2. ASSUME NEW k \in 1 .. 4, NEW a, NEW b, Leads(tables, kernelPML4, page, FALSE, k, a),
                 Link(tables, a, Index(page, k), FALSE, b)
          PROVE  Link(tables', a, Index(page, k), FALSE, b)
      <4>1. SUFFICES ASSUME Leads(tables, kernelPML4, GuardPage, FALSE, 1, a), Index(page, k) = i
                     PROVE  FALSE
        BY <1>6, <3>2
      <4>2. use[a].level = k
        BY <2>1, <2>2, <3>2, ReachedLevel
      <4>3. use[a].level = 1
        BY <2>1, <2>2, <4>1, ReachedLevel, 1 \in 1 .. 4
      <4>4. k = 1
        BY <4>2, <4>3
      <4>5. Leads(tables, kernelPML4, page, FALSE, 1, a) /\ Index(page, 1) = Index(GuardPage, 1)
        BY <1>4, <3>2, <4>1, <4>4
      <4>6. page = GuardPage
        BY <1>12, <2>1, <4>1, <4>5, LeafOfOne, GuardFacts
      <4> QED
        BY <2>3, <4>6
    <3>3. \A k \in 0 + 1 .. 4 : k \in 1 .. 4
      OBVIOUS
    <3>4. Leads(tables', kernelPML4, page, FALSE, 0, f)
      BY <3>1, <3>2, <3>3, LeadsKept, 0 \in 0 .. 4
    <3>5. Leads(tables', kernelPML4', page, FALSE, 0, f)
      BY <1>1, <3>4
    <3> QED
      BY <3>1, <3>5 DEF KernelMaps
  <2>4. loop.next \in Nat /\ loop.end \in Nat /\ loop.next >= loop.end
    BY <1>1 DEF LoaderInv, LoopInv, AtEnd
  <2>5. \A page : page \notin Ahead
    BY <2>4 DEF Ahead
  <2>6. \A page \in KernelPages : Begun(page) => KernelMaps(page)
    BY <1>12, <2>5 DEF MappedInv, KernelMapInv
  <2>7. /\ GuardPage \notin HhdmBase .. HhdmBase + TotalPageCount - 1
        /\ GuardPage \notin FramebufferBase .. FramebufferBase + FramebufferPages - 1
    <3>1. /\ TotalPageCount \in Nat
          /\ TotalPageCount = 0 \/ HhdmBase + TotalPageCount <= KernelBase
      BY MemoryFits DEF LoaderInv
    <3> QED
      BY <3>1, GuardFacts, LayoutFacts
  <2>8. ASSUME NEW page, Begun(page)'
        PROVE  page \in KernelHeap \/ (Begun(page) /\ page # GuardPage)
    BY <1>1, <1>2, <1>3, <2>7, <2>8 DEF Begun, Initializing
  <2>9. \A page \in KernelHeap : page \in Ahead'
    <3>1. Ahead' = loop'.next .. loop'.end - 1
      BY DEF Ahead
    <3> QED
      BY <1>10, <3>1, LayoutFacts DEF KernelHeap
  <2> QED
    BY <1>3, <2>3, <2>6, <2>8, <2>9 DEF KernelMapInv
<1>13. KernelMapInv'
  <2>1. kernelPML4 = 0 => FreeFrames = {}
    BY <1>1 DEF LoaderInv, KernelInv
  <2>2. Short("heap") => FreeFrames = {}
    BY DEF Short
  <2> QED
    BY <1>11, <1>12, <2>1, <2>2
<1> QED
  BY <1>1, <1>3, <1>8, <1>9, <1>13, BootRests

-----------------------------------------------------------------------------
(* A process is spawned.                                                   *)

(* The new address space shares the kernel's half, and the others stay.    *)
LEMMA SpaceAdded ==
    ASSUME LoaderInv, MappedInv, Calm, UNCHANGED <<panic, kernelPML4>>, pc = "ready",
           NEW p \in Processes, p >= nextProcessID,
           NEW f \in FreeFrames, VMPhysicalMemoryAllocatePage(f),
           tables' = WithAddressSpace(f), pml4' = [pml4 EXCEPT ![p] = f]
    PROVE  /\ \A page \in KernelPages : KernelMaps(page) => KernelMaps(page)'
           /\ Unmapped(GuardPage)' /\ SharedInv'
           /\ \A q \in Processes : \A page \in Int :
                  q # p /\ Placed(q, page) => Placed(q, page)'
           /\ pml4'[p] # 0 /\ \A q \in Processes : q # p => pml4'[q] = pml4[q]
<1>1. f \notin held /\ f # 0
  BY FrameAllocated
<1>2. PICK use : Tree(use, tables, held, Lacking) /\ Roots(use)
  BY DEF LoaderInv, TablesInv
<1>3. f \notin DOMAIN tables /\ kernelPML4 # 0
  BY <1>1, <1>2 DEF Tree, LoaderInv, KernelInv, Initializing
<1>4. kernelPML4 \in held /\ use[kernelPML4].level = 4 /\ kernelPML4 \in DOMAIN tables
  <2>1. kernelPML4 \in held /\ use[kernelPML4].level = 4
    BY <1>2, <1>3, RootLevel
  <2> QED
    BY <1>2, <2>1 DEF Tree
<1>5. \A q \in Processes : pml4'[q] = IF q = p THEN f ELSE pml4[q]
  BY DEF LoaderInv, ProcessInv
<1>6. \A q \in Processes : pml4[q] # 0 => pml4[q] \in held
  <2>1. ASSUME NEW q \in Processes, pml4[q] # 0
        PROVE  pml4[q] \in held
    BY <1>2, <2>1, RootLevel
  <2> QED
    BY <2>1
<1>7. ASSUME NEW a, NEW j, NEW user, NEW b
      PROVE  Link(tables', a, j, user, b) <=>
                 IF a = f THEN j \in KernelHalf /\ Link(tables, kernelPML4, j, user, b)
                 ELSE Link(tables, a, j, user, b)
  <2>1. /\ DOMAIN tables' = DOMAIN tables \cup {f}
        /\ tables'[f] = [i \in DOMAIN tables[kernelPML4] \cap KernelHalf |-> tables[kernelPML4][i]]
        /\ \A t \in DOMAIN tables : tables'[t] = tables[t]
    BY <1>3 DEF WithAddressSpace
  <2>2. CASE a = f
    <3>1. /\ DOMAIN tables'[f] = DOMAIN tables[kernelPML4] \cap KernelHalf
          /\ \A i \in DOMAIN tables[kernelPML4] \cap KernelHalf :
                 tables'[f][i] = tables[kernelPML4][i]
      BY <2>1
    <3> QED
      BY <1>4, <2>1, <2>2, <3>1 DEF Link
  <2>3. CASE a # f
    BY <2>1, <2>3 DEF Link
  <2> QED
    BY <2>2, <2>3
<1>8. ASSUME NEW root, NEW page, NEW user, NEW t, Leads(tables, root, page, user, 0, t)
      PROVE  Leads(tables', root, page, user, 0, t)
  <2>1. ASSUME NEW a, NEW j, NEW b, Link(tables, a, j, user, b)
        PROVE  Link(tables', a, j, user, b)
    <3>1. a # f
      BY <1>3, <2>1 DEF Link
    <3> QED
      BY <1>7, <2>1, <3>1
  <2> QED
    BY <1>8, <2>1, LeadsKept, 0 \in 0 .. 4
<1>9. ASSUME NEW page \in KernelPages, KernelMaps(page)
      PROVE  KernelMaps(page)'
  <2>1. PICK g : Leads(tables, kernelPML4, page, FALSE, 0, g)
                 /\ (page \in KernelHeap \/ g = FrameOf(page))
    BY <1>9 DEF KernelMaps
  <2>2. Leads(tables', kernelPML4', page, FALSE, 0, g)
    BY <1>8, <2>1
  <2> QED
    BY <2>1, <2>2 DEF KernelMaps
<1>10. ASSUME NEW q \in Processes, NEW page \in Int, q # p, Placed(q, page)
       PROVE  Placed(q, page)'
  <2>1. PICK g : Leads(tables, pml4[q], page, TRUE, 0, g)
    BY <1>10 DEF Placed
  <2>2. Leads(tables', pml4'[q], page, TRUE, 0, g)
    BY <1>5, <1>8, <1>10, <2>1
  <2> QED
    BY <2>2 DEF Placed
<1>11. Unmapped(GuardPage)'
  <2>1. SUFFICES ASSUME NEW g, Leads(tables', kernelPML4, GuardPage, FALSE, 0, g)
                 PROVE  FALSE
    BY DEF Unmapped
  <2>2. ASSUME NEW k \in 1 .. 4, NEW a, NEW b, Leads(tables, kernelPML4, GuardPage, FALSE, k, a),
               Link(tables', a, Index(GuardPage, k), FALSE, b)
        PROVE  Link(tables, a, Index(GuardPage, k), FALSE, b)
    <3>1. a \in held
      BY <1>2, <1>4, <2>2, LeadsToLevel
    <3>2. a # f
      BY <1>1, <3>1
    <3> QED
      BY <1>7, <2>2, <3>2
  <2>3. Leads(tables, kernelPML4, GuardPage, FALSE, 0, g)
    BY <2>1, <2>2, LeadsBack
  <2>4. Unmapped(GuardPage)
    BY DEF MappedInv, GuardInv, Initializing
  <2> QED
    BY <2>3, <2>4 DEF Unmapped
<1>12. SharedInv'
  <2>1. ASSUME NEW q \in Processes, pml4'[q] # 0, NEW i \in KernelHalf, NEW g
        PROVE  Link(tables', pml4'[q], i, FALSE, g) <=> Link(tables', kernelPML4, i, FALSE, g)
    <3>1. Link(tables', kernelPML4, i, FALSE, g) <=> Link(tables, kernelPML4, i, FALSE, g)
      BY <1>1, <1>4, <1>7
    <3>2. CASE q = p
      BY <1>5, <1>7, <2>1, <3>1, <3>2
    <3>3. CASE q # p
      <4>1. pml4'[q] = pml4[q] /\ pml4[q] # 0 /\ pml4[q] \in held
        BY <1>5, <1>6, <2>1, <3>3
      <4>2. Link(tables', pml4[q], i, FALSE, g) <=> Link(tables, pml4[q], i, FALSE, g)
        BY <1>1, <1>7, <4>1
      <4>3. Link(tables, pml4[q], i, FALSE, g) <=> Link(tables, kernelPML4, i, FALSE, g)
        BY <4>1 DEF MappedInv, SharedInv
      <4> QED
        BY <3>1, <4>1, <4>2, <4>3
    <3> QED
      BY <3>2, <3>3
  <2> QED
    BY <2>1 DEF SharedInv
<1> QED
  BY <1>1, <1>5, <1>9, <1>10, <1>11, <1>12

LEMMA SpawnMaps ==
    ASSUME LoaderInv, MappedInv, Calm, OSLoaderProcessSpawn
    PROVE  MappedInv'
<1> DEFINE p == nextProcessID
<1>1. /\ walk = NoWalk /\ pc = "ready" /\ p <= MaxProcessID
      /\ nextProcessID' = p + 1 /\ process' = p
      /\ UNCHANGED <<kernelPML4, walk, panic, heapCurrent, image, granted>>
  BY Zenon DEF OSLoaderProcessSpawn, Running
<1>2. p \in Processes /\ p \in Nat \ {0} /\ Processes \subseteq Nat
  BY <1>1, LoaderAssumption DEF LoaderInv, ProcessInv, Processes
<1>3. \/ LoadBegins(p) /\ state' = [state EXCEPT ![p] = "loading"]
      \/ state' = [state EXCEPT ![p] = "failed"] /\ UNCHANGED <<pc, loop, segment>>
  BY Zenon DEF OSLoaderProcessSpawn
<1>4. \/ \E f \in FreeFrames :
             /\ VMPhysicalMemoryAllocatePage(f)
             /\ tables' = WithAddressSpace(f)
             /\ pml4' = [pml4 EXCEPT ![p] = f]
      \/ OutOfMemory /\ UNCHANGED <<tables, pml4>>
  BY Zenon DEF OSLoaderProcessSpawn
<1> HIDE DEF p
<1>5. p >= nextProcessID /\ nextProcessID = p
  BY <1>2 DEF p
<1>6. SpawnedInv
  BY DEF MappedInv
<1>7. TotalPageCount' = TotalPageCount /\ (FreeFrames = {} => FreeFrames' = {})
  <2>1. UNCHANGED physical \/ \E f \in FreeFrames : VMPhysicalMemoryAllocatePage(f)
    BY <1>4, Zenon DEF OutOfMemory
  <2> QED
    BY <2>1, MapUnchanged
<1>8. /\ \A page \in KernelPages : KernelMaps(page) => KernelMaps(page)'
      /\ Unmapped(GuardPage)' /\ SharedInv'
      /\ \A q \in Processes : \A page \in Int : q # p /\ Placed(q, page) => Placed(q, page)'
      /\ pml4'[p] = 0 => FreeFrames' = {}
      /\ \A q \in Processes : q # p => pml4'[q] = pml4[q]
  <2>1. CASE OutOfMemory /\ UNCHANGED <<tables, pml4>>
    <3>1. TablesKept
      BY <1>1, <2>1, TablesSame
    <3>2. FreeFrames = {}
      BY <2>1 DEF OutOfMemory
    <3>3. GuardInv /\ pc \notin {"pml4"} \cup Initializing
      BY <1>1 DEF MappedInv, Initializing
    <3> QED
      BY <1>7, <2>1, <3>1, <3>2, <3>3 DEF TablesKept
  <2>2. ASSUME NEW f \in FreeFrames, VMPhysicalMemoryAllocatePage(f),
               tables' = WithAddressSpace(f), pml4' = [pml4 EXCEPT ![p] = f]
        PROVE  /\ \A page \in KernelPages : KernelMaps(page) => KernelMaps(page)'
               /\ Unmapped(GuardPage)' /\ SharedInv'
               /\ \A q \in Processes : \A page \in Int :
                      q # p /\ Placed(q, page) => Placed(q, page)'
               /\ pml4'[p] # 0 /\ \A q \in Processes : q # p => pml4'[q] = pml4[q]
    <3>1. UNCHANGED <<panic, kernelPML4>>
      BY <1>1
    <3> QED
      BY <1>1, <1>2, <1>5, <2>2, <3>1, SpaceAdded
  <2>3. CASE \E f \in FreeFrames :
                 /\ VMPhysicalMemoryAllocatePage(f)
                 /\ tables' = WithAddressSpace(f)
                 /\ pml4' = [pml4 EXCEPT ![p] = f]
    <3>1. PICK f \in FreeFrames : /\ VMPhysicalMemoryAllocatePage(f)
                                  /\ tables' = WithAddressSpace(f)
                                  /\ pml4' = [pml4 EXCEPT ![p] = f]
      BY <2>3
    <3>2. /\ \A page \in KernelPages : KernelMaps(page) => KernelMaps(page)'
          /\ Unmapped(GuardPage)' /\ SharedInv'
          /\ \A q \in Processes : \A page \in Int : q # p /\ Placed(q, page) => Placed(q, page)'
          /\ pml4'[p] # 0 /\ \A q \in Processes : q # p => pml4'[q] = pml4[q]
      BY <2>2, <3>1
    <3> QED
      BY <3>2
  <2> QED
    BY <1>4, <2>1, <2>3
<1>9. \/ pc' = "segments" /\ segment' = 1 /\ image[p].magic
      \/ pc' = "stack" /\ loop' = Span(UserStackBottom, UserStackTop) /\ ~image[p].magic
      \/ pc' = "ready"
  BY <1>1, <1>3 DEF LoadBegins
<1>10. pc \notin Booting /\ pc' \notin Booting /\ pc' \notin Initializing /\ pc' # "grow"
  BY <1>1, <1>9 DEF Booting, Initializing
<1>11. /\ state'[p] # "running" /\ state[p] = "none" /\ granted[p] = {}
       /\ \A q \in Processes : q # p => state'[q] = state[q]
  <2>1. state \in [Processes -> States]
    BY DEF LoaderInv, ProcessInv
  <2>2. state[p] = "none" /\ granted[p] = {}
    BY <1>2, <1>5, <1>6 DEF SpawnedInv
  <2> QED
    BY <1>2, <1>3, <2>1, <2>2
<1>12. WalkPlace' /\ StretchInv'
  BY <1>1, <1>10 DEF WalkPlace, StretchInv
<1>13. KernelMapInv'
  <2>1. \A page \in KernelPages : Begun(page) => KernelMaps(page)
    BY <1>10 DEF MappedInv, KernelMapInv, Booting
  <2>2. \A page : Begun(page)' => Begun(page)
    BY <1>1, <1>7, <1>10 DEF Begun, Booting, Initializing
  <2> QED
    BY <1>8, <2>1, <2>2 DEF KernelMapInv
<1>14. GuardInv'
  BY <1>8 DEF GuardInv
<1>15. SpawnedInv'
  <2>1. ASSUME NEW q \in Processes
        PROVE  /\ q >= p + 1 => state'[q] = "none" /\ pml4'[q] = 0
               /\ q < p + 1 /\ pml4'[q] = 0 => FreeFrames' = {}
               /\ state'[q] # "running" => granted[q] = {}
    <3>1. CASE q = p
      BY <1>2, <1>8, <1>11, <3>1
    <3>2. CASE q # p
      <4>1. (q >= p + 1 => q >= p) /\ (q < p + 1 => q < p)
        BY <1>2, <3>2
      <4> QED
        BY <1>5, <1>6, <1>7, <1>8, <1>11, <3>2, <4>1 DEF SpawnedInv
    <3> QED
      BY <3>1, <3>2
  <2>2. p < p + 1
    BY <1>2
  <2>3. pc' = "segments" => image[p].magic
    BY <1>9
  <2>4. granted \in [Processes -> SUBSET Int]
    BY <1>6 DEF SpawnedInv
  <2> QED
    BY <1>1, <1>10, <2>1, <2>2, <2>3, <2>4 DEF SpawnedInv
<1>16. \A q, page : Needs(q, page)' <=> Needs(q, page)
  BY <1>1 DEF Needs, ProgramPages
<1>17. LoadInv'
  <2>1. CASE pc' = "segments" /\ segment' = 1 /\ image[p].magic
    <3>1. DOMAIN image[p].segments \subseteq Nat \ {0}
      <4>1. ImageOK(image[p])
        BY <1>2, LoaderAssumption DEF LoaderInv, ProcessInv
      <4>2. PICK s \in Seq([vaddr : Nat, memsz : Nat]) : s = image[p].segments
        BY <4>1 DEF ImageOK
      <4>3. DOMAIN s = 1 .. Len(s)
        BY <4>2
      <4> QED
        BY <4>2, <4>3
    <3>2. \A page : page \notin ProgramPages(p, 0)
      BY <3>1 DEF ProgramPages
    <3>3. \A page : Due(page)' => page \in ProgramPages(p, 0)
      <4>1. segment' - 1 = 0
        BY <2>1
      <4> QED
        BY <1>1, <2>1, <4>1 DEF Due, ProgramPages
    <3> QED
      BY <3>2, <3>3 DEF LoadInv
  <2>2. CASE pc' = "stack" /\ loop' = Span(UserStackBottom, UserStackTop) /\ ~image[p].magic
    <3>1. Ahead' = UserStackBottom .. UserStackTop - 1
      BY <2>2 DEF Ahead, Span
    <3>2. \A page : Needs(p, page) => page \in UserStackBottom .. UserStackTop - 1
      BY <2>2 DEF Needs
    <3>3. \A page : Due(page)' => Needs(p, page)
      BY <1>1, <1>16, <2>2 DEF Due
    <3> QED
      BY <3>1, <3>2, <3>3 DEF LoadInv
  <2>3. CASE pc' = "ready"
    BY <2>3 DEF LoadInv
  <2> QED
    BY <1>9, <2>1, <2>2, <2>3
<1>18. RunInv'
  <2>1. ASSUME NEW q \in RunningProcesses'
        PROVE  /\ \A page \in Int : Needs(q, page) => Placed(q, page)'
               /\ \A page \in granted[q] : Placed(q, page)' \/ FreeFrames' = {}
    <3>1. q \in Processes /\ q # p /\ q \in RunningProcesses
      BY <1>11 DEF RunningProcesses
    <3>2. granted[q] \subseteq Int
      BY <1>6, <3>1 DEF SpawnedInv
    <3>3. /\ \A page \in Int : Needs(q, page) => Placed(q, page)
          /\ \A page \in granted[q] : Placed(q, page) \/ FreeFrames = {}
      BY <3>1 DEF MappedInv, RunInv
    <3> QED
      BY <1>7, <1>8, <3>1, <3>2, <3>3
  <2> QED
    BY <1>1, <1>16, <2>1 DEF RunInv
<1>19. GrowInv'
  BY <1>10 DEF GrowInv
<1> QED
  BY <1>8, <1>12, <1>13, <1>14, <1>15, <1>17, <1>18, <1>19 DEF MappedInv

-----------------------------------------------------------------------------
(* The theorems.                                                           *)

LEMMA InitMaps == Init => MappedInv
<1> SUFFICES ASSUME Init
             PROVE  MappedInv
  OBVIOUS
<1>1. /\ pc = "pml4" /\ walk = NoWalk /\ nextProcessID = 1
      /\ pml4 = [p \in Processes |-> 0]
      /\ state = [p \in Processes |-> "none"]
      /\ granted = [p \in Processes |-> {}]
  BY Zenon DEF Init, VirtualMemoryInit
<1>2. pc \notin Serving /\ pc \notin Initializing
  BY <1>1 DEF Serving, Initializing
<1>3. WalkPlace /\ StretchInv /\ GuardInv
  BY <1>1, <1>2 DEF WalkPlace, StretchInv, GuardInv
<1>4. KernelMapInv
  <2>1. \A page : ~Begun(page)
    BY <1>1 DEF Begun
  <2> QED
    BY <2>1 DEF KernelMapInv
<1>5. SharedInv
  BY <1>1 DEF SharedInv
<1>6. SpawnedInv
  <2>1. \A p \in Processes : p >= 1 /\ ~(p < 1)
    BY DEF Processes
  <2>2. granted \in [Processes -> SUBSET Int]
    BY <1>1
  <2> QED
    BY <1>1, <1>2, <2>1, <2>2 DEF SpawnedInv
<1>7. LoadInv /\ RunInv /\ GrowInv
  BY <1>1 DEF LoadInv, RunInv, GrowInv, RunningProcesses
<1> QED
  BY <1>3, <1>4, <1>5, <1>6, <1>7 DEF MappedInv

LEMMA KernelStepsMap ==
    ASSUME LoaderInv, MappedInv, Kernel
    PROVE  MappedInv'
<1>1. UNCHANGED loader
  BY Zenon DEF Kernel
<1>2. CASE InitializePML4
  BY <1>1, <1>2, InitializePML4Maps, Zenon DEF InitializePML4, Running, Calm
<1>3. CASE InitializePage
  BY <1>1, <1>3, InitializePageMaps, Zenon DEF InitializePage, Running, Calm
<1>4. CASE InitializeNext
  BY <1>1, <1>4, InitializeNextMaps, Zenon DEF InitializeNext, Running, Calm
<1>5. CASE InitializeDone
  BY <1>1, <1>5, InitializeDoneMaps, Zenon DEF InitializeDone, Running, Calm
<1>6. CASE HeapPage
  BY <1>1, <1>6, HeapPageMaps, Zenon DEF HeapPage, Running, Calm
<1>7. CASE HeapDone
  BY <1>1, <1>7, HeapDoneMaps, Zenon DEF HeapDone, Running, Calm
<1>8. CASE WalkPresent
  BY <1>1, <1>8, WalkPresentMaps, Zenon DEF WalkPresent, Walking, Calm
<1>9. CASE WalkAllocate
  BY <1>1, <1>9, WalkAllocateMaps, Zenon DEF WalkAllocate, Walking, Calm
<1>10. CASE WalkOutOfMemory
  BY <1>1, <1>10, WalkOutOfMemoryMaps, Zenon DEF WalkOutOfMemory, Walking, Calm
<1>11. CASE WalkLeaf
  BY <1>1, <1>11, WalkLeafMaps, Zenon DEF WalkLeaf, Calm
<1> QED
  BY <1>2, <1>3, <1>4, <1>5, <1>6, <1>7, <1>8, <1>9, <1>10, <1>11, Zenon DEF Kernel, Boot, Walk

LEMMA StepKeepsMappedInv ==
    ASSUME LoaderInv, MappedInv, [Next]_vars
    PROVE  MappedInv'
<1>1. CASE Kernel
  BY <1>1, KernelStepsMap
<1>2. CASE OSLoaderProcessSpawn
  BY <1>2, SpawnMaps, Zenon DEF OSLoaderProcessSpawn, Running, Calm
<1>3. CASE HOTLoadSegment
  BY <1>3, SegmentMaps, Zenon DEF HOTLoadSegment, Running, Calm
<1>4. CASE HOTLoadPage
  BY <1>4, LoadPageMaps, Zenon DEF HOTLoadPage, Running, Calm
<1>5. CASE HOTLoadDone
  BY <1>5, LoadDoneMaps, Zenon DEF HOTLoadDone, Running, Calm
<1>6. CASE LoaderStackPage
  BY <1>6, StackPageMaps, Zenon DEF LoaderStackPage, StackPage, Running, Calm
<1>7. CASE LoaderSchedules
  BY <1>7, SchedulesMaps, Zenon DEF LoaderSchedules, Running, Calm
<1>8. ASSUME NEW p \in Processes, NEW size \in Sizes, OSServiceMemoryAllocate(p, size)
      PROVE  MappedInv'
  BY <1>8, MemoryAllocateMaps, Zenon DEF OSServiceMemoryAllocate, Running, Calm
<1>9. CASE GrowPage
  BY <1>9, GrowMaps, Zenon DEF GrowPage, Running, Calm
<1>10. CASE GrowDone
  BY <1>10, GrowDoneMaps, Zenon DEF GrowDone, Running, Calm
<1>11. CASE UNCHANGED vars
  <2>1. UNCHANGED physical /\ UNCHANGED <<tables, kernelPML4, pc, loop, walk, loader>>
    BY <1>11 DEF vars, virtual
  <2> QED
    BY <2>1, NothingMapped
<1> QED
  BY <1>1, <1>2, <1>3, <1>4, <1>5, <1>6, <1>7, <1>8, <1>9, <1>10, <1>11, Zenon DEF Next

LEMMA MappedInvariant == Spec => [](LoaderInv /\ MappedInv)
<1>1. Init => LoaderInv /\ MappedInv
  BY InitLoads, InitMaps
<1>2. (LoaderInv /\ MappedInv) /\ [Next]_vars => (LoaderInv /\ MappedInv)'
  BY StepKeepsLoaderInv, StepKeepsMappedInv
<1> QED
  BY <1>1, <1>2, PTL DEF Spec

(* What the kernel maps is mapped in all address spaces. *)
LEMMA LeadsFromOther ==
    ASSUME NEW tb, NEW root, NEW other, NEW page, NEW user,
           \A f : Link(tb, root, Index(page, 4), user, f) =>
                      Link(tb, other, Index(page, 4), user, f),
           NEW t, Leads(tb, root, page, user, 0, t)
    PROVE  Leads(tb, other, page, user, 0, t)
<1>1. PICK w : w[4] = root /\ w[0] = t /\ Path(tb, page, user, 0, w)
  BY DEF Leads
<1>2. PICK v : v = [k \in 0 .. 4 |-> IF k = 4 THEN other ELSE w[k]]
  OBVIOUS
<1>3. v[4] = other /\ v[0] = t /\ \A k \in 0 .. 3 : v[k] = w[k]
  BY <1>1, <1>2
<1>4. ASSUME NEW k \in 1 .. 4
      PROVE  Link(tb, v[k], Index(page, k), user, v[k - 1])
  <2>1. Link(tb, w[k], Index(page, k), user, w[k - 1])
    BY <1>1, <1>4, 0 + 1 = 1 DEF Path
  <2>2. k - 1 \in 0 .. 3 /\ (k # 4 => k \in 0 .. 3)
    OBVIOUS
  <2>3. CASE k = 4
    <3>1. Link(tb, root, Index(page, 4), user, w[3])
      BY <1>1, <2>1, <2>3, 4 - 1 = 3
    <3>2. Link(tb, other, Index(page, 4), user, w[3])
      BY <3>1
    <3> QED
      BY <1>3, <2>3, <3>2, 4 - 1 = 3
  <2>4. CASE k # 4
    BY <1>3, <2>1, <2>2, <2>4
  <2> QED
    BY <2>3, <2>4
<1>5. Path(tb, page, user, 0, v)
  BY <1>4, 0 + 1 = 1 DEF Path
<1> QED
  BY <1>3, <1>5 DEF Leads

(* The kernel's stretches lie in its half. *)
LEMMA StretchesInHalf ==
    /\ \A base \in {HhdmBase, KernelBase, FramebufferBase, KernelHeapStart} :
           base >= KernelHalfStart
    /\ \A page \in Nat :
           page >= KernelHalfStart /\ page < FramebufferBase + FramebufferPages =>
               page \in KernelPages
  BY VirtualMemoryAssumption, LayoutFacts DEF KernelPages

(* A page of the kernel that is not one of its heap has its frame. *)
LEMMA KernelPageMapped ==
    ASSUME LoaderInv, MappedInv, pc \in {"ready"} \cup Serving,
           NEW root, root # 0, root = kernelPML4 \/ \E p \in Processes : root = pml4[p],
           NEW page \in KernelPages
    PROVE  /\ \A f : Leads(tables, root, page, FALSE, 0, f)
                     <=> Leads(tables, kernelPML4, page, FALSE, 0, f)
           /\ Begun(page) => KernelMaps(page)
           /\ Begun(page) => Translate(root, page) # {}
           /\ Begun(page) /\ page \notin KernelHeap => Translate(root, page) = {FrameOf(page)}
<1>1. Index(page, 4) \in KernelHalf
  BY HalfByIndex DEF KernelPages
<1>2. \A f : Link(tables, root, Index(page, 4), FALSE, f)
             <=> Link(tables, kernelPML4, Index(page, 4), FALSE, f)
  BY <1>1 DEF MappedInv, SharedInv
<1>3. \A f : Leads(tables, root, page, FALSE, 0, f)
             <=> Leads(tables, kernelPML4, page, FALSE, 0, f)
  BY <1>2, LeadsFromOther
<1>4. pc \notin {"heap"} \cup Initializing /\ pc \notin Booting
  BY DEF Booting, Serving, Initializing
<1>5. Begun(page) => KernelMaps(page)
  BY <1>4 DEF MappedInv, KernelMapInv
<1>6. Begun(page) => Translate(root, page) # {}
  <2>1. SUFFICES ASSUME Begun(page)
                 PROVE  Translate(root, page) # {}
    OBVIOUS
  <2>2. PICK f : Leads(tables, root, page, FALSE, 0, f)
    BY <1>3, <1>5, <2>1 DEF KernelMaps
  <2> QED
    BY <2>2, LeadsIsTranslate
<1>7. ASSUME Begun(page), page \notin KernelHeap
      PROVE  Translate(root, page) = {FrameOf(page)}
  <2>1. Leads(tables, kernelPML4, page, FALSE, 0, FrameOf(page))
    BY <1>5, <1>7 DEF KernelMaps
  <2>2. Leads(tables, root, page, FALSE, 0, FrameOf(page))
    BY <1>3, <2>1
  <2>3. FrameOf(page) \in Translate(root, page)
    BY <2>2, LeadsIsTranslate
  <2>4. ASSUME NEW f \in Translate(root, page)
        PROVE  f = FrameOf(page)
    <3>1. Leads(tables, root, page, FALSE, 0, f)
      BY LeadsIsTranslate
    <3> QED
      BY <2>2, <3>1, LeadsToOne, 0 \in 0 .. 4
  <2> QED
    BY <2>3, <2>4
<1> QED
  BY <1>3, <1>5, <1>6, <1>7

(* The pages of the kernel's heap have frames of their own. *)
LEMMA HeapFramesCounted ==
    ASSUME LoaderInv, MappedInv, pc \in {"ready"} \cup Serving
    PROVE  Cardinality(HeapFrames) = KernelHeapPages
<1> DEFINE F == [page \in KernelHeap |-> CHOOSE f : f \in Translate(kernelPML4, page)]
<1>1. PICK use : Tree(use, tables, held, Lacking) /\ Roots(use)
  BY DEF LoaderInv, TablesInv
<1>2. 0 \notin held
  BY HeldFacts DEF LoaderInv
<1>3. kernelPML4 # 0 /\ pc \notin {"pml4"} \cup Initializing
  BY DEF LoaderInv, KernelInv, Serving, Initializing
<1>4. ASSUME NEW page \in KernelHeap
      PROVE  F[page] \in Translate(kernelPML4, page)
  <2>1. page \in KernelPages /\ Begun(page)
    BY <1>3, HeapInHalf DEF Begun
  <2>2. Translate(kernelPML4, page) # {}
    BY <1>3, <2>1, KernelPageMapped
  <2> QED
    BY <2>2
<1>5. ASSUME NEW page \in KernelHeap, NEW f \in Translate(kernelPML4, page)
      PROVE  use[f].region = page /\ f = F[page]
  <2>1. use[f].region = page
    BY <1>1, <1>2, HeapFrameOwned
  <2>2. Leads(tables, kernelPML4, page, FALSE, 0, f)
    BY LeadsIsTranslate
  <2>3. Leads(tables, kernelPML4, page, FALSE, 0, F[page])
    BY <1>4, LeadsIsTranslate
  <2>4. f = F[page]
    BY <2>2, <2>3, LeadsToOne, 0 \in 0 .. 4
  <2> QED
    BY <2>1, <2>4
<1>6. HeapFrames = UNION {Translate(kernelPML4, page) : page \in KernelHeap}
  BY DEF HeapFrames, KernelHeap
<1>7. \A page \in KernelHeap : F[page] \in HeapFrames
  BY <1>4, <1>6
<1>8. \A f \in HeapFrames : \E page \in KernelHeap : F[page] = f
  <2>1. ASSUME NEW f \in HeapFrames
        PROVE  \E page \in KernelHeap : F[page] = f
    <3>1. PICK page \in KernelHeap : f \in Translate(kernelPML4, page)
      BY <1>6, <2>1
    <3> QED
      BY <1>5, <3>1
  <2> QED
    BY <2>1
<1>9. \A a, b \in KernelHeap : F[a] = F[b] => a = b
  BY <1>4, <1>5
<1>10. F \in Bijection(KernelHeap, HeapFrames)
  <2>1. F \in [KernelHeap -> HeapFrames]
    BY <1>7
  <2> HIDE DEF F
  <2> QED
    BY <1>8, <1>9, <2>1 DEF Bijection, Injection, Surjection, IsInjective
<1> HIDE DEF F
<1>11. IsFiniteSet(KernelHeap) /\ Cardinality(KernelHeap) = KernelHeapPages
  <2>1. PICK last : last = KernelHeapStart + KernelHeapPages - 1
    OBVIOUS
  <2>2. /\ KernelHeapStart \in Int /\ last \in Int /\ ~(KernelHeapStart > last)
        /\ last - KernelHeapStart + 1 = KernelHeapPages
    BY <2>1, LayoutFacts
  <2>3. /\ IsFiniteSet(KernelHeapStart .. last)
        /\ Cardinality(KernelHeapStart .. last) = KernelHeapPages
    BY <2>2, FS_Interval
  <2> QED
    BY <2>1, <2>3 DEF KernelHeap
<1> QED
  BY <1>10, <1>11, FS_Bijection DEF ExistsBijection

LEMMA InvMapsKernel == LoaderInv /\ MappedInv => KernelMapped
<1> SUFFICES ASSUME LoaderInv, MappedInv, pc \in {"ready"} \cup Serving,
                    NEW root, root # 0, root = kernelPML4 \/ \E p \in Processes : root = pml4[p]
             PROVE  KernelMappedIn(root)
  BY DEF KernelMapped, Serving
<1>1. pc \notin {"pml4"} \cup Initializing
  BY DEF Serving, Initializing
<1>2. TotalPageCount \in Nat /\ (TotalPageCount = 0 \/ HhdmBase + TotalPageCount <= KernelBase)
  BY MemoryFits DEF LoaderInv
<1>3. ASSUME NEW f \in 0 .. TotalPageCount - 1
      PROVE  Translate(root, HhdmBase + f) = {f}
  <2>1. PICK page : page = HhdmBase + f
    OBVIOUS
  <2>2. /\ page \in Nat /\ page >= HhdmBase /\ page < KernelBase
        /\ page \in HhdmBase .. HhdmBase + TotalPageCount - 1
    BY <1>2, <2>1, LayoutFacts
  <2>3. page \in KernelPages /\ page \notin KernelHeap
    BY <2>2, StretchesInHalf, LayoutFacts DEF KernelHeap
  <2>4. Begun(page)
    BY <1>1, <2>2 DEF Begun
  <2>5. FrameOf(page) = f
    BY <1>2, <2>1, <2>2, LayoutFacts DEF FrameOf
  <2> QED
    BY <2>1, <2>3, <2>4, <2>5, KernelPageMapped
<1>4. ASSUME NEW f \in KernelFrames
      PROVE  Translate(root, KernelBase + f) = {f} \ {GuardPage - KernelBase}
  <2>1. PICK page : page = KernelBase + f
    OBVIOUS
  <2>2. f \in KernelFirst .. KernelEnd - 1 /\ f \in Nat
    BY VirtualMemoryAssumption, LayoutFacts
  <2>3. /\ page \in Nat /\ page >= KernelBase /\ page < KernelHeapStart
        /\ page \in KernelBase + KernelFirst .. KernelBase + KernelEnd - 1
    BY <2>1, <2>2, LayoutFacts
  <2>4. page \in KernelPages /\ page \notin KernelHeap
    BY <2>3, StretchesInHalf, LayoutFacts DEF KernelHeap
  <2>5. page = GuardPage <=> f = GuardPage - KernelBase
    BY <2>1, <2>2, GuardFacts, LayoutFacts
  <2>6. CASE page = GuardPage
    <3>1. Unmapped(page)
      BY <1>1, <2>6 DEF MappedInv, GuardInv
    <3>2. \A g : ~Leads(tables, root, page, FALSE, 0, g)
      BY <2>4, <3>1, KernelPageMapped DEF Unmapped
    <3>3. Translate(root, page) = {}
      BY <3>2, LeadsIsTranslate
    <3> QED
      BY <2>1, <2>5, <2>6, <3>3
  <2>7. CASE page # GuardPage
    <3>1. Begun(page)
      BY <1>1, <2>3, <2>7 DEF Begun, Initializing
    <3>2. FrameOf(page) = f
      BY <2>1, <2>2, <2>3, LayoutFacts DEF FrameOf
    <3>3. Translate(root, page) = {f}
      BY <2>4, <3>1, <3>2, KernelPageMapped
    <3> QED
      BY <2>1, <2>5, <2>7, <3>3
  <2> QED
    BY <2>6, <2>7
<1>5. ASSUME NEW i \in 0 .. FramebufferPages - 1
      PROVE  Translate(root, FramebufferBase + i) = {FramebufferFrame + i}
  <2>1. PICK page : page = FramebufferBase + i
    OBVIOUS
  <2>2. /\ page \in Nat /\ page >= FramebufferBase
        /\ page \in FramebufferBase .. FramebufferBase + FramebufferPages - 1
        /\ ~(page < KernelBase) /\ ~(page < KernelHeapStart) /\ page - FramebufferBase = i
    BY <2>1, LayoutFacts
  <2>3. page \in KernelPages /\ page \notin KernelHeap
    BY <2>2, StretchesInHalf, LayoutFacts DEF KernelHeap
  <2>4. Begun(page)
    BY <1>1, <2>2 DEF Begun, Initializing
  <2>5. FrameOf(page) = FramebufferFrame + i
    BY <2>2 DEF FrameOf
  <2> QED
    BY <2>1, <2>3, <2>4, <2>5, KernelPageMapped
<1>6. ASSUME NEW i \in 0 .. KernelHeapPages - 1
      PROVE  Translate(root, KernelHeapStart + i) # {}
  <2>1. KernelHeapStart + i \in KernelHeap
    BY LayoutFacts DEF KernelHeap
  <2>2. KernelHeapStart + i \in KernelPages /\ Begun(KernelHeapStart + i)
    BY <1>1, <2>1, HeapInHalf DEF Begun
  <2> QED
    BY <2>2, KernelPageMapped
<1>7. Cardinality(HeapFrames) = KernelHeapPages
  BY HeapFramesCounted
<1> QED
  BY <1>3, <1>4, <1>5, <1>6, <1>7 DEF KernelMappedIn

(* A byte lies on the pages its segment is given. *)
LEMMA ByteOnPage ==
    ASSUME NEW s, s.vaddr \in Nat, s.memsz \in Nat,
           NEW byte \in s.vaddr .. s.vaddr + s.memsz - 1
    PROVE  byte \div PageSize \in Int /\ byte \div PageSize \in PagesIn(s)
<1>1. \A m, n \in Nat : \A d \in Nat \ {0} : m <= n => m \div d <= n \div d
  <2>1. SUFFICES ASSUME NEW m \in Nat, NEW n \in Nat, NEW d \in Nat \ {0}, m <= n
                 PROVE  m \div d <= n \div d
    OBVIOUS
  <2> DEFINE a == m \div d
             b == n \div d
             r == m % d
             t == n % d
  <2>2. /\ a \in Nat /\ r \in 0 .. d - 1 /\ m = a * d + r
        /\ b \in Nat /\ t \in 0 .. d - 1 /\ n = b * d + t
    BY DivisionRemainder
  <2> HIDE DEF a, b, r, t
  <2>3. SUFFICES ASSUME b + 1 <= a
                 PROVE  FALSE
    BY <2>2 DEF a, b
  <2>4. (b + 1) * d <= a * d
    BY <2>2, <2>3, TimesMonotone, b + 1 \in Nat
  <2>5. (b + 1) * d = b * d + d /\ a * d \in Nat /\ b * d \in Nat
    BY <2>2
  <2> QED
    BY <2>1, <2>2, <2>4, <2>5
<1>2. PICK d \in Nat \ {0} : d = PageSize
  BY PhysicalMemoryAssumption
<1>3. byte \in Nat /\ s.memsz # 0 /\ s.vaddr <= byte /\ byte + d <= s.vaddr + s.memsz + d - 1
      /\ byte + d \in Nat /\ s.vaddr + s.memsz + d - 1 \in Nat
  OBVIOUS
<1>4. PICK q \in Nat, r \in 0 .. d - 1 : q = byte \div d /\ byte = q * d + r
  BY <1>3, DivisionRemainder
<1>5. (byte + d) \div d = q + 1
  <2>1. byte + d = (q + 1) * d + r
    <3>1. (q + 1) * d = q * d + d /\ q * d \in Nat
      OBVIOUS
    <3> QED
      BY <1>3, <1>4, <3>1
  <2> QED
    BY <1>3, <2>1, QuotientUnique, q + 1 \in Nat
<1>6. s.vaddr \div d <= q /\ q + 1 <= (s.vaddr + s.memsz + d - 1) \div d
  BY <1>1, <1>3, <1>4, <1>5
<1>7. PagesOf(s).next = s.vaddr \div d /\ PagesOf(s).end = (s.vaddr + s.memsz + d - 1) \div d
  BY <1>2 DEF PagesOf, Span
<1>8. s.vaddr \div d \in Int /\ (s.vaddr + s.memsz + d - 1) \div d \in Int
  BY <1>3
<1>9. q \in PagesOf(s).next .. PagesOf(s).end - 1
  BY <1>6, <1>7, <1>8
<1> QED
  BY <1>2, <1>3, <1>4, <1>9 DEF PagesIn

LEMMA InvMapsPrograms == LoaderInv /\ MappedInv => ProcessMapped
<1> SUFFICES ASSUME LoaderInv, MappedInv, NEW p \in RunningProcesses
             PROVE  /\ \A page \in UserStackBottom .. UserStackTop - 1 :
                           UserTranslate(pml4[p], page) # {}
                    /\ image[p].magic =>
                        \A i \in DOMAIN image[p].segments :
                            LET s == image[p].segments[i] IN
                            \A byte \in s.vaddr .. s.vaddr + s.memsz - 1 :
                                UserTranslate(pml4[p], byte \div PageSize) # {}
                    /\ \A page \in granted[p] :
                           UserTranslate(pml4[p], page) # {} \/ FreeFrames = {}
  BY Zenon DEF ProcessMapped
<1>1. p \in Processes
  BY DEF RunningProcesses
<1>2. /\ \A page \in Int : Needs(p, page) => Placed(p, page)
      /\ \A page \in granted[p] : Placed(p, page) \/ FreeFrames = {}
  BY DEF MappedInv, RunInv
<1>3. \A page : Placed(p, page) => UserTranslate(pml4[p], page) # {}
  <2>1. ASSUME NEW page, Placed(p, page)
        PROVE  UserTranslate(pml4[p], page) # {}
    <3>1. PICK f : Leads(tables, pml4[p], page, TRUE, 0, f)
      BY <2>1 DEF Placed
    <3> QED
      BY <3>1, LeadsIsUserTranslate
  <2> QED
    BY <2>1
<1>4. \A page \in UserStackBottom .. UserStackTop - 1 : page \in Int /\ Needs(p, page)
  BY LayoutFacts DEF Needs
<1>5. ASSUME image[p].magic, NEW i \in DOMAIN image[p].segments, NEW s,
             s = image[p].segments[i], NEW byte \in s.vaddr .. s.vaddr + s.memsz - 1
      PROVE  UserTranslate(pml4[p], byte \div PageSize) # {}
  <2>1. PICK all \in Seq([vaddr : Nat, memsz : Nat]) : all = image[p].segments
    <3>1. ImageOK(image[p])
      BY <1>1, LoaderAssumption DEF LoaderInv, ProcessInv
    <3> QED
      BY <3>1 DEF ImageOK
  <2>2. i \in DOMAIN all /\ s = all[i] /\ DOMAIN all = 1 .. Len(all) /\ Len(all) \in Nat
    <3>1. i \in DOMAIN all /\ s = all[i]
      BY <1>5, <2>1
    <3>2. DOMAIN all = 1 .. Len(all) /\ Len(all) \in Nat
      OBVIOUS
    <3> QED
      BY <3>1, <3>2
  <2>3. s.vaddr \in Nat /\ s.memsz \in Nat
    <3> DEFINE R == [vaddr : Nat, memsz : Nat]
    <3>1. all \in Seq(R) /\ i \in 1 .. Len(all)
      BY <2>2
    <3> HIDE DEF R
    <3>2. all[i] \in R
      BY <3>1
    <3> QED
      BY <2>2, <3>2 DEF R
  <2>4. byte \div PageSize \in Int /\ byte \div PageSize \in PagesIn(s)
    BY <1>5, <2>3, ByteOnPage
  <2>5. byte \div PageSize \in ProgramPages(p, Len(image[p].segments))
    <3>1. i <= Len(all)
      BY <2>2
    <3> QED
      BY <1>5, <2>1, <2>2, <2>4, <3>1 DEF ProgramPages
  <2>6. Needs(p, byte \div PageSize)
    BY <1>5, <2>5 DEF Needs
  <2> QED
    BY <1>2, <1>3, <2>4, <2>6
<1>6. image[p].magic =>
          \A i \in DOMAIN image[p].segments :
              LET s == image[p].segments[i] IN
              \A byte \in s.vaddr .. s.vaddr + s.memsz - 1 :
                  UserTranslate(pml4[p], byte \div PageSize) # {}
  BY <1>5
<1> QED
  BY <1>2, <1>3, <1>4, <1>6

(* The kernel's half is complete in every address space once the boot is   *)
(* over: VMVirtualMemoryInitialize and MapPage's callers look at no result,*)
(* and still, when memory runs out anywhere in the boot, the check for a   *)
(* frame in VMHeapInitialize's loop panics before the heap is ready.       *)
THEOREM KernelIsMapped == Spec => []KernelMapped
  BY MappedInvariant, InvMapsKernel, PTL

(* A process that runs has all of its program and of its stack: HOTLoad    *)
(* and CreateAddressSpace do not look for memory that has run out, but the *)
(* stack's setup, which comes after them, does.  What the memory service   *)
(* granted is mapped as well, unless memory has run out since.             *)
THEOREM ProgramsAreMapped == Spec => []ProcessMapped
  BY MappedInvariant, InvMapsPrograms, PTL
=============================================================================
