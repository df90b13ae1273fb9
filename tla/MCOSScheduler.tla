--------------------------- MODULE MCOSScheduler ---------------------------
(* Instances of OSScheduler for TLC.                                       *)
EXTENDS OSScheduler, TLC

(* The cells beyond the three service tasks are interchangeable.           *)
Cells == Permutations(Tasks \ Fixed)

(* Symmetry is unsound for liveness; there the heap hands out the free     *)
(* cells in a fixed order instead, which loses nothing as they are alike.  *)
FirstFit ==
    \/ allocated' \subseteq allocated
    \/ allocated' = allocated \cup {CHOOSE t \in Tasks \ allocated : TRUE}

(* The numbering the inductive invariant is checked with; `@@ <<>>` makes  *)
(* TLC compute the function once.                                          *)
Position ==
    LET linked == Ring IN
    [t \in Tasks |-> IF t \in linked THEN Cardinality(ReachUntil(GCTask, {t})) - 1
                     ELSE -1] @@ <<>>

(* The ring is one cycle through the service tasks, ordered as the proof   *)
(* needs it, in every state of the collector and of the spawners, and the  *)
(* states of the tasks are the ones BlockedUntilExit rests on.             *)
RingInv == ServiceTasks /\ TaskStates /\ \E r \in {Position} : RankInv(r)
=============================================================================
