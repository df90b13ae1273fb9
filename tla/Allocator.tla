----------------------------- MODULE Allocator -----------------------------
(***************************************************************************)
(* What a memory allocator promises its callers, with no word on how it    *)
(* keeps its books: every allocation lies in the arena and shares no byte  *)
(* with another one.  VMHeap implements it.                                *)
(***************************************************************************)
EXTENDS Integers

CONSTANTS
    ArenaSize,      \* the arena is the addresses 0 .. ArenaSize - 1
    Sizes           \* what callers ask for

VARIABLE live       \* the allocations: pointer -> size asked for

Without(p) == [q \in DOMAIN live \ {p} |-> live[q]]

Extend(f, p, n) == [q \in DOMAIN f \cup {p} |-> IF q = p THEN n ELSE f[q]]

(* n bytes at p are in the arena and clear of every allocation of f.       *)
Clear(f, p, n) ==
    /\ p >= 0 /\ p + n <= ArenaSize
    /\ \A q \in DOMAIN f : p + n <= q \/ q + f[q] <= p

Init == live = [p \in {} |-> 0]

Allocate ==
    \E n \in Sizes \ {0} : \E p \in 0 .. ArenaSize :
        Clear(live, p, n) /\ live' = Extend(live, p, n)

Free == \E p \in DOMAIN live : live' = Without(p)

Resize ==
    \E p \in DOMAIN live, n \in Sizes \ {0} : \E q \in 0 .. ArenaSize :
        Clear(Without(p), q, n) /\ live' = Extend(Without(p), q, n)

Next == Allocate \/ Free \/ Resize

Spec == Init /\ [][Next]_live
=============================================================================
