------------------------- MODULE OSSchedulerProofs -------------------------
(***************************************************************************)
(* What holds of OSScheduler for every heap, every number of stacks and    *)
(* every choice of its other constants.                                    *)
(***************************************************************************)
EXTENDS OSScheduler, TLAPS

(* The assumptions on the constants, without the finiteness of the heap.   *)
LEMMA ConstantFacts ==
    /\ KernelTask \in Tasks /\ IdleTask \in Tasks /\ GCTask \in Tasks
    /\ KernelTask # IdleTask /\ KernelTask # GCTask /\ IdleTask # GCTask
    /\ None \notin Tasks
    /\ MaxProcessID \in Nat /\ GCSleep \in Nat /\ SleepChoices \subseteq Nat
BY SchedulerAssumption DEF Fixed

-----------------------------------------------------------------------------
(* The walk along `next`. *)

(* A walk stays inside every set that its steps do not leave.              *)
LEMMA ReachStaysInside ==
    ASSUME next \in [Tasks -> Tasks], NEW x \in Tasks, NEW stop,
           NEW D \in SUBSET Tasks, ClosedUntil(D, x, stop)
    PROVE  ReachUntil(x, stop) \subseteq D
<1> DEFINE Closed(S) == ClosedUntil(S, x, stop)
           Least(S) == Closed(S) /\ \A T \in SUBSET S : Closed(T) => T = S
           M == {t \in Tasks : \A S \in SUBSET Tasks : Closed(S) => t \in S}
<1>1. M \in SUBSET Tasks
  OBVIOUS
<1>2. Closed(M)
  BY DEF ClosedUntil
<1>3. Least(M)
  <2>1. SUFFICES ASSUME NEW T \in SUBSET M, Closed(T)
                 PROVE  T = M
    BY <1>2
  <2> QED
    BY <2>1, <1>1
<1>4. \E S \in SUBSET Tasks : Least(S)
  BY <1>1, <1>3
<1> DEFINE R == ReachUntil(x, stop)
<1>5. R \in SUBSET Tasks /\ Least(R)
  BY <1>4 DEF ReachUntil
<1>6. R \cap D \in SUBSET R /\ Closed(R \cap D)
  BY <1>5 DEF ClosedUntil
<1>7. R \cap D = R
  BY <1>5, <1>6
<1> QED
  BY <1>7

(* A walk visits tasks only.                                               *)
LEMMA ReachIsTasks ==
    ASSUME next \in [Tasks -> Tasks], NEW x \in Tasks, NEW stop
    PROVE  ReachUntil(x, stop) \subseteq Tasks
BY ReachStaysInside, ClosedUntil(Tasks, x, stop) DEF ClosedUntil

-----------------------------------------------------------------------------
(* Type correctness. *)

LEMMA SwitchType ==
    ASSUME TypeOK, OSSchedulerNext, pc' \in [Tasks -> Labels],
           \A t \in Tasks : pc'[t] \in SpawnLabels => spawning[t] # None
    PROVE  TypeOK'
<1>1. PICK nextTask \in Tasks : SwitchTo(nextTask)
  BY DEF OSSchedulerNext, TypeOK
<1>2. \A t \in Tasks : TicksAfterScan(t) \in Nat
  BY SMT DEF TypeOK, TicksAfterScan
<1>3. sleepTicks' \in [Tasks -> Nat]
  BY <1>1, <1>2 DEF TypeOK, SwitchTo
<1>4. taskState' \in [Tasks -> States]
  BY <1>1 DEF TypeOK, States, SwitchTo
<1>5. panic' \in Panics
  BY <1>1 DEF Panics, SwitchTo
<1> QED
  BY <1>1, <1>3, <1>4, <1>5 DEF TypeOK, SwitchTo, gc

(* Every step keeps every variable in its type.                            *)
LEMMA NextType == TypeOK /\ [Next]_vars => TypeOK'
<1> SUFFICES ASSUME TypeOK, [Next]_vars PROVE TypeOK'
  OBVIOUS
<1> USE ConstantFacts
<1>0. nextProcessID \in Nat /\ nextProcessID <= MaxProcessID + 1
  BY DEF TypeOK, ProcessIDs
<1>1. CASE TimerInterrupt
  <2>1. /\ pc' \in [Tasks -> Labels]
        /\ \A t \in Tasks : pc'[t] \in SpawnLabels => spawning[t] # None
    BY <1>1 DEF TimerInterrupt, TypeOK
  <2> QED
    BY <1>1, <2>1, SwitchType DEF TimerInterrupt
<1>2. CASE SoftwareInterrupt
  <2>1. /\ pc' \in [Tasks -> Labels]
        /\ \A t \in Tasks : pc'[t] \in SpawnLabels => spawning[t] # None
    BY <1>2 DEF SoftwareInterrupt, ResumeLabel, TypeOK, Labels, SpawnLabels
  <2> QED
    BY <1>2, <2>1, SwitchType DEF SoftwareInterrupt
<1>3. ASSUME NEW n \in Nat, YieldTicks(n) PROVE TypeOK'
  BY <1>3 DEF YieldTicks, TypeOK, Labels, SpawnLabels, gc
<1>4. CASE Yield
  BY <1>4, <1>3 DEF Yield
<1>5. CASE SpawnYield
  BY <1>5, <1>3 DEF SpawnYield
<1>6. CASE CollectorYield
  BY <1>6, <1>3 DEF CollectorYield
<1>7. CASE YieldState
  BY <1>7 DEF YieldState, TypeOK, Labels, SpawnLabels, States, gc
<1>8. CASE OSSchedulerBlock
  <2>1. PICK p \in 1 .. nextProcessID - 1 :
          waitingForProcess' = [waitingForProcess EXCEPT ![current] = p]
    BY <1>8 DEF OSSchedulerBlock
  <2>2. p \in ProcessIDs
    BY <1>0 DEF ProcessIDs
  <2> QED
    BY <1>8, <2>1, <2>2 DEF OSSchedulerBlock, TypeOK, Labels, SpawnLabels, States, gc
<1>9. CASE OSSchedulerTerminate
  <2>1. taskState' \in [Tasks -> States]
    BY <1>9 DEF OSSchedulerTerminate, TypeOK, States
  <2>2. waitingForProcess' \in [Tasks -> ProcessIDs \cup {-1}]
    BY <1>9 DEF OSSchedulerTerminate, TypeOK
  <2> QED
    BY <1>9, <2>1, <2>2 DEF OSSchedulerTerminate, TypeOK, Labels, SpawnLabels, gc
<1>10. CASE SpawnBegin
  <2>1. nextProcessID' \in ProcessIDs
    <3>1. \/ nextProcessID' = nextProcessID
          \/ nextProcessID <= MaxProcessID /\ nextProcessID' = nextProcessID + 1
      BY <1>10, Zenon DEF SpawnBegin
    <3> QED
      BY <3>1, <1>0 DEF ProcessIDs
  <2>2. CASE SpawnNoCell
    BY <1>10, <2>1, <2>2 DEF SpawnBegin, SpawnNoCell, SpawnDone, SpawnFailure,
       TypeOK, Labels, SpawnLabels, Panics, gc
  <2>3. ASSUME NEW task \in Tasks \ allocated, NEW kind \in SpawnedKinds(current),
               SpawnCell(task, kind)
        PROVE  TypeOK'
    <3>1. kind \in Entries
      BY DEF SpawnedKinds, Entries
    <3>2. (IF LoadsProcess(current) THEN nextProcessID ELSE 0) \in ProcessIDs
      BY <1>0 DEF ProcessIDs
    <3>3. id' \in [Tasks -> ProcessIDs]
      BY <2>3, <3>2 DEF SpawnCell, TypeOK
    <3>4. /\ allocated' \in SUBSET Tasks
          /\ entry' \in [Tasks -> Entries]
          /\ spawning' \in [Tasks -> Tasks \cup {None}]
          /\ pc' \in [Tasks -> Labels]
      BY <2>3, <3>1 DEF SpawnCell, TypeOK, Labels, SpawnLabels
    <3>5. \A t \in Tasks : pc'[t] \in SpawnLabels => spawning'[t] # None
      BY <2>3 DEF SpawnCell, TypeOK
    <3> QED
      BY <1>10, <2>1, <2>3, <3>3, <3>4, <3>5 DEF SpawnBegin, SpawnCell, TypeOK, gc
  <2> QED
    BY <1>10, <2>2, <2>3 DEF SpawnBegin
<1>11. CASE SpawnStack
  <2>1. spawning[current] \in Tasks
    BY <1>11 DEF sOSSchedulerPostGarbageCollectorSignal,
          SpawnStack, TypeOK, SpawnLabels
  <2>2. CASE TakeStack /\ UNCHANGED <<taskState, sleepTicks>>
    BY <1>11, <2>1, <2>2
       DEF sOSSchedulerPostGarbageCollectorSignal,
             SpawnStack, TakeStack, TypeOK, Labels, SpawnLabels, gc
  <2>3. CASE /\ taskState' = [taskState EXCEPT ![GCTask] = "Running"]
             /\ sleepTicks' = [sleepTicks EXCEPT ![GCTask] = 0]
             /\ pc' = [pc EXCEPT ![current] = "spawnYield"]
             /\ UNCHANGED stacks
    BY <1>11, <2>1, <2>3 DEF sOSSchedulerPostGarbageCollectorSignal,
          SpawnStack, TypeOK, Labels, SpawnLabels, States, gc
  <2> QED
    BY <1>11, <2>2, <2>3 DEF sOSSchedulerPostGarbageCollectorSignal,
          SpawnStack
<1>12. CASE SpawnRetry
  <2>1. spawning[current] \in Tasks
    BY <1>12 DEF SpawnRetry, TypeOK, SpawnLabels
  <2>2. CASE TakeStack /\ UNCHANGED <<allocated, spawning, panic>>
    BY <1>12, <2>1, <2>2
       DEF SpawnRetry, TakeStack, TypeOK, Labels, SpawnLabels, ring, gc
  <2>3. CASE /\ allocated' = allocated \ {spawning[current]}
             /\ spawning' = [spawning EXCEPT ![current] = None]
             /\ pc' = [pc EXCEPT ![current] = SpawnDone(current)]
             /\ panic' = SpawnFailure(current)
             /\ UNCHANGED stacks
    BY <1>12, <2>3 DEF SpawnRetry, SpawnDone, SpawnFailure, TypeOK, Labels,
       SpawnLabels, Panics, ring, gc
  <2> QED
    BY <1>12, <2>2, <2>3 DEF SpawnRetry
<1>13. CASE SpawnLink
  BY <1>13 DEF SpawnLink, SpawnDone, TypeOK, Labels, SpawnLabels, States, gc
<1>14. CASE CollectorStart
  BY <1>14 DEF CollectorStart, CollectorAt, TypeOK, Labels, SpawnLabels, ring
<1>15. CASE CollectorTest
  BY <1>15 DEF CollectorTest, CollectorAt, TypeOK, Labels, SpawnLabels, ring, gc
<1>16. CASE CollectorUnlink
  BY <1>16 DEF CollectorUnlink, CollectorAt, TypeOK, Labels, SpawnLabels, gc
<1>17. CASE CollectorFreeStack
  BY <1>17 DEF CollectorFreeStack, CollectorAt, TypeOK, Labels, SpawnLabels, ring, gc
<1>18. CASE CollectorFreeTask
  BY <1>18 DEF CollectorFreeTask, CollectorAt, TypeOK, Labels, SpawnLabels, ring, gc
<1>19. CASE CollectorReload
  BY <1>19 DEF CollectorReload, CollectorAt, TypeOK, Labels, SpawnLabels, ring
<1>20. CASE UNCHANGED vars
  BY <1>20 DEF vars, ring, gc, TypeOK
<1> QED
  BY <1>1, <1>2, <1>4, <1>5, <1>6, <1>7, <1>8, <1>9, <1>10, <1>11, <1>12, <1>13,
     <1>14, <1>15, <1>16, <1>17, <1>18, <1>19, <1>20
     DEF Next, Continue, Request, Collector

LEMMA FirstIDs == 0 \in ProcessIDs /\ 1 \in ProcessIDs
BY ConstantFacts DEF ProcessIDs

LEMMA InitType == OSSchedulerInitialize => TypeOK
<1> SUFFICES ASSUME OSSchedulerInitialize PROVE TypeOK
  OBVIOUS
<1> USE ConstantFacts DEF OSSchedulerInitialize
<1>1. allocated \in SUBSET Tasks /\ stacks \in SUBSET Tasks
  BY DEF Fixed
<1>2. next \in [Tasks -> Tasks]
  OBVIOUS
<1>3. taskState \in [Tasks -> States] /\ entry \in [Tasks -> Entries]
  BY DEF States, Entries
<1>4. /\ sleepTicks \in [Tasks -> Nat]
      /\ waitingForProcess \in [Tasks -> ProcessIDs \cup {-1}]
  OBVIOUS
<1>7. id \in [Tasks -> ProcessIDs] /\ nextProcessID \in ProcessIDs
  BY FirstIDs
<1>5. pc \in [Tasks -> Labels] /\ \A t \in Tasks : pc[t] \notin SpawnLabels
  BY DEF Labels, SpawnLabels
<1>6. spawning \in [Tasks -> Tasks \cup {None}] /\ panic \in Panics
  BY DEF Panics
<1> QED
  BY <1>1, <1>2, <1>3, <1>4, <1>5, <1>6, <1>7 DEF TypeOK

(* In every reachable state every field and pointer of the scheduler has   *)
(* its type, and a task inside OSSchedulerSpawn holds a cell.              *)
THEOREM TypeCorrect == Spec => []TypeOK
BY InitType, NextType, PTL DEF Spec

-----------------------------------------------------------------------------
(* The ring.  r always numbers the linked tasks; L is LinkedBy(r).         *)

(* The walk from the current task meets linked tasks only.                 *)
LEMMA WalkLinked ==
    ASSUME TypeOK, NEW r \in [Tasks -> Int], RankInv(r), NEW stop,
           NEW x \in LinkedBy(r)
    PROVE  ReachUntil(x, stop) \subseteq LinkedBy(r)
<1>1. LinkedBy(r) \in SUBSET Tasks
  BY DEF LinkedBy
<1>2. ClosedUntil(LinkedBy(r), x, stop)
  BY DEF ClosedUntil, RankInv, RingOrdered
<1>3. next \in [Tasks -> Tasks] /\ x \in Tasks
  BY <1>1 DEF TypeOK
<1> QED
  BY <1>1, <1>2, <1>3, ReachStaysInside

(* The inductive invariant gives the property.                             *)
LEMMA RankInvSafe ==
    ASSUME TypeOK, NEW r \in [Tasks -> Int], RankInv(r)
    PROVE  NoUseAfterFree
<1>1. Ring \subseteq LinkedBy(r)
  BY WalkLinked DEF Ring, RankInv, LinkedAllocated
<1> QED
  BY <1>1 DEF NoUseAfterFree, RankInv, LinkedAllocated, CollectorHolds

(* The steps that move program counters only keep the numbering.           *)
LEMMA CounterStep ==
    ASSUME TypeOK, NEW r \in [Tasks -> Int], RankInv(r),
           UNCHANGED <<allocated, stacks, next, spawning, gc>>,
           current' \in LinkedBy(r),
           \A t \in Tasks : pc'[t] = "spawnLink" => pc[t] = "spawnLink",
           \/ pc'[GCTask] = pc[GCTask]
           \/ pc'[GCTask] \notin {"gcTest", "gcUnlink", "gcFreeStack", "gcFreeTask"}
    PROVE  RankInv(r)'
<1>1. RingOrdered(r)'
  BY DEF RankInv, RingOrdered, LinkedBy
<1>2. LinkedAllocated(r)'
  BY DEF RankInv, LinkedAllocated, LinkedBy
<1>3. CollectorHolds(r)'
  BY DEF RankInv, CollectorHolds, LinkedBy, gc
<1>4. SpawnersHold(r)'
  BY DEF RankInv, SpawnersHold, LinkedBy
<1> QED
  BY <1>1, <1>2, <1>3, <1>4 DEF RankInv

LEMMA InitRank ==
    OSSchedulerInitialize =>
        ServiceTasks /\ AlwaysRunnable /\ \E r \in [Tasks -> Int] : RankInv(r)
<1> SUFFICES ASSUME OSSchedulerInitialize
             PROVE  ServiceTasks /\ AlwaysRunnable
                    /\ \E r \in [Tasks -> Int] : RankInv(r)
  OBVIOUS
<1> USE ConstantFacts
<1>1. ServiceTasks /\ AlwaysRunnable
  BY DEF OSSchedulerInitialize, ServiceTasks, AlwaysRunnable, Fixed
<1> DEFINE r == [t \in Tasks |-> CASE t = GCTask -> 0
                                   [] t = IdleTask -> 1
                                   [] t = KernelTask -> 2
                                   [] OTHER -> -1]
<1>2. r \in [Tasks -> Int] /\ LinkedBy(r) = Fixed
      /\ r[GCTask] = 0 /\ r[IdleTask] = 1 /\ r[KernelTask] = 2
  BY DEF LinkedBy, Fixed
<1> HIDE DEF r
<1>3. next[GCTask] = IdleTask /\ next[IdleTask] = KernelTask
      /\ next[KernelTask] = GCTask
  BY DEF OSSchedulerInitialize
<1>4. RingOrdered(r)
  BY <1>2, <1>3 DEF RingOrdered, Fixed
<1>5. LinkedAllocated(r)
  BY <1>2 DEF OSSchedulerInitialize, LinkedAllocated, Fixed
<1>6. CollectorHolds(r) /\ SpawnersHold(r)
  BY <1>2 DEF OSSchedulerInitialize, CollectorHolds, SpawnersHold, Fixed
<1> QED
  BY <1>1, <1>2, <1>4, <1>5, <1>6 DEF RankInv

(* The search of OSSchedulerNext ends at a linked task that can run: the   *)
(* idle task stops it before it comes back to a current task that cannot.  *)
LEMMA SwitchFindsTask ==
    ASSUME TypeOK, ServiceTasks, NEW r \in [Tasks -> Int], RankInv(r), OSSchedulerNext
    PROVE  \E nextTask \in LinkedBy(r) : CanRun(nextTask) /\ SwitchTo(nextTask)
<1> USE ConstantFacts
<1> DEFINE L == LinkedBy(r)
           stops == {t \in Tasks : CanRun(t)} \cup {current}
           R == ReachUntil(next[current], stops)
<1>1. PICK nextTask \in stops \cap R : SwitchTo(nextTask)
  BY DEF OSSchedulerNext
<1>2. next[current] \in L /\ current \in L /\ IdleTask \in L /\ L \subseteq Tasks
  BY DEF RankInv, RingOrdered, LinkedAllocated, LinkedBy, Fixed
<1>3. nextTask \in L
  BY <1>1, <1>2, WalkLinked
<1>4. IdleTask \in stops /\ CanRun(IdleTask)
  BY DEF CanRun, ServiceTasks
<1>5. CASE current = IdleTask
  BY <1>1, <1>3, <1>4, <1>5
<1>6. CASE current # IdleTask
  <2> DEFINE D == {t \in L : IF r[current] < r[IdleTask]
                             THEN r[current] < r[t] /\ r[t] <= r[IdleTask]
                             ELSE r[current] < r[t] \/ r[t] <= r[IdleTask]}
  <2>1. /\ r[GCTask] = 0 /\ GCTask \in L
        /\ \A x, y \in L : r[x] = r[y] => x = y
        /\ \A x \in L : /\ next[x] \in L
                        /\ next[x] = GCTask \/ r[x] < r[next[x]]
        /\ \A x, y \in L : r[x] < r[y] => next[x] # GCTask /\ r[next[x]] <= r[y]
        /\ \A x \in L : r[x] \in Int /\ r[x] >= 0
    BY DEF RankInv, RingOrdered, LinkedAllocated, LinkedBy, Fixed
  <2> HIDE DEF L
  <2>2. next[current] \in D
    BY <1>2, <1>6, <2>1
  <2>3. \A t \in D : t # IdleTask => next[t] \in D
    BY <1>2, <1>6, <2>1
  <2>4. current \notin D /\ D \in SUBSET Tasks
    BY <1>2, <1>6, <2>1
  <2>5. ClosedUntil(D, next[current], stops)
    BY <2>2, <2>3, <1>4 DEF ClosedUntil
  <2>6. R \subseteq D
    <3>1. next \in [Tasks -> Tasks] /\ next[current] \in Tasks
      BY DEF TypeOK
    <3> HIDE DEF D, stops
    <3> QED
      BY <3>1, <2>4, <2>5, ReachStaysInside
  <2>7. CanRun(nextTask)
    BY <1>1, <2>4, <2>6
  <2> QED
    BY <1>1, <1>3, <2>7 DEF L
<1> QED
  BY <1>5, <1>6

(* A spawned task is numbered just above its spawner; the tasks above the  *)
(* spawner move up by one.                                                 *)
LEMMA SpawnLinkRank ==
    ASSUME TypeOK, ServiceTasks, NEW r \in [Tasks -> Int], RankInv(r), SpawnLink
    PROVE  \E q \in [Tasks -> Int] : RankInv(q)'
<1> USE ConstantFacts
<1> DEFINE L == LinkedBy(r)
           c == current
           n == spawning[current]
<1>1. /\ c \in L /\ n \in Tasks /\ n \notin L /\ n \in allocated /\ n \in stacks
      /\ L \subseteq Tasks /\ c \in Tasks /\ c # GCTask /\ c # n
  BY DEF SpawnLink, RankInv, LinkedAllocated, SpawnersHold, ServiceTasks, LinkedBy,
         TypeOK, SpawnLabels
<1>2. /\ r[GCTask] = 0 /\ GCTask \in L
      /\ \A x, y \in L : r[x] = r[y] => x = y
      /\ \A x \in L : /\ next[x] \in L
                      /\ next[x] = GCTask \/ r[x] < r[next[x]]
      /\ \A x, y \in L : r[x] < r[y] => next[x] # GCTask /\ r[next[x]] <= r[y]
      /\ \A t \in Tasks : t \in L <=> r[t] >= 0
      /\ \A t \in Tasks : r[t] \in Int
  BY DEF RankInv, RingOrdered, LinkedAllocated, LinkedBy, Fixed
<1>3. PICK q \in [Tasks -> Int] :
        /\ q[n] = r[c] + 1
        /\ \A t \in Tasks : t # n => q[t] = IF r[t] > r[c] THEN r[t] + 1 ELSE r[t]
  <2> DEFINE f == [t \in Tasks |-> IF t = n THEN r[c] + 1
                                   ELSE IF r[t] > r[c] THEN r[t] + 1 ELSE r[t]]
  <2>1. f \in [Tasks -> Int] /\ f[n] = r[c] + 1
        /\ \A t \in Tasks : t # n => f[t] = IF r[t] > r[c] THEN r[t] + 1 ELSE r[t]
    BY <1>1, <1>2
  <2> QED
    BY <2>1
<1> DEFINE K == LinkedBy(q)
<1>4. K = L \cup {n}
  BY <1>1, <1>2, <1>3 DEF LinkedBy
<1> HIDE DEF L
<1>5. /\ next'[n] = next[c] /\ next'[c] = n
      /\ \A t \in Tasks : t # n /\ t # c => next'[t] = next[t]
  BY <1>1 DEF SpawnLink, TypeOK
<1>6. LinkedBy(q)' = K
  BY DEF LinkedBy
<1>7. \A x, y \in L : (q[x] < q[y] <=> r[x] < r[y]) /\ (q[x] = q[y] <=> r[x] = r[y])
  BY <1>1, <1>2, <1>3
<1>8. RingOrdered(q)'
  <2>1. q[GCTask] = 0
    BY <1>1, <1>2, <1>3
  <2>2. \A x, y \in K : q[x] = q[y] => x = y
    BY <1>1, <1>2, <1>3, <1>4
  <2>3. \A x \in K : /\ next'[x] \in K
                     /\ next'[x] = GCTask \/ q[x] < q[next'[x]]
    BY <1>1, <1>2, <1>3, <1>4, <1>5
  <2>4. \A x, y \in K : q[x] < q[y] => next'[x] # GCTask /\ q[next'[x]] <= q[y]
    <3>1. SUFFICES ASSUME NEW x \in K, NEW y \in K, q[x] < q[y]
                   PROVE  next'[x] # GCTask /\ q[next'[x]] <= q[y]
      OBVIOUS
    <3>2. CASE x = n
      <4>1. y \in L /\ r[c] < r[y] /\ q[y] = r[y] + 1
        BY <1>1, <1>2, <1>3, <1>4, <3>1, <3>2
      <4> QED
        BY <1>1, <1>2, <1>3, <1>5, <3>2, <4>1
    <3>3. CASE x = c
      BY <1>1, <1>2, <1>3, <1>4, <1>5, <3>1, <3>3
    <3>4. CASE x # n /\ x # c
      <4>1. x \in L /\ next'[x] = next[x] /\ next[x] \in L /\ next[x] # n
        BY <1>1, <1>2, <1>4, <1>5, <3>4
      <4>2. CASE y = n
        <5>1. r[x] < r[c]
          BY <1>1, <1>2, <1>3, <3>1, <3>4, <4>1, <4>2
        <5> QED
          BY <1>1, <1>2, <1>3, <4>1, <4>2, <5>1
      <4>3. CASE y # n
        <5>1. y \in L /\ r[x] < r[y]
          BY <1>4, <1>7, <3>1, <4>1, <4>3
        <5>2. next[x] # GCTask /\ r[next[x]] <= r[y]
          BY <1>2, <4>1, <5>1
        <5> QED
          BY <1>1, <1>2, <1>3, <4>1, <4>3, <5>1, <5>2
      <4> QED
        BY <4>2, <4>3
    <3> QED
      BY <3>2, <3>3, <3>4
  <2> QED
    BY <2>1, <2>2, <2>3, <2>4 DEF RingOrdered
<1>9. LinkedAllocated(q)'
  BY <1>1, <1>4 DEF SpawnLink, RankInv, LinkedAllocated, LinkedBy, L
<1>10. pc'[GCTask] = pc[GCTask]
  BY <1>1, <1>2 DEF SpawnLink, TypeOK
<1>11. CollectorHolds(q)'
  <2>1. /\ gcPrev \in K
        /\ pc[GCTask] \in {"gcTest", "gcUnlink"} =>
            /\ gcNext \in K
            /\ gcNext = GCTask \/ q[gcPrev] < q[gcNext]
            /\ \A f \in Fixed : ~(q[gcPrev] < q[f] /\ q[f] < q[gcNext])
        /\ pc[GCTask] = "gcUnlink" => gcNext \notin Fixed
    <3>1. Fixed \subseteq L
      BY DEF RankInv, LinkedAllocated, L
    <3> QED
      BY <1>4, <1>7, <3>1 DEF RankInv, CollectorHolds, L
  <2>2. /\ pc[GCTask] \in {"gcFreeStack", "gcFreeTask"} =>
            /\ gcNext \in allocated \ K
            /\ \A s \in Tasks : spawning'[s] # gcNext
        /\ pc[GCTask] = "gcFreeStack" => gcNext \in stacks
    BY <1>1, <1>4 DEF RankInv, CollectorHolds, SpawnLink, TypeOK, L
  <2> QED
    BY <1>6, <1>10, <2>1, <2>2 DEF CollectorHolds, SpawnLink, gc
<1>12. SpawnersHold(q)'
  <2>1. /\ spawning'[c] = None
        /\ \A s \in Tasks : s # c => spawning'[s] = spawning[s] /\ spawning[s] # n
    <3>1. spawning' = [spawning EXCEPT ![c] = None] /\ n # None
      BY <1>1 DEF SpawnLink
    <3> QED
      BY <1>1, <3>1 DEF RankInv, SpawnersHold, TypeOK
  <2>2. \A s \in Tasks : pc'[s] = "spawnLink" => s # c /\ pc[s] = "spawnLink"
    BY <1>1 DEF SpawnLink, SpawnDone, TypeOK
  <2>3. allocated' = allocated /\ stacks' = stacks
    BY DEF SpawnLink
  <2>4. \A s \in Tasks : spawning'[s] # None => spawning'[s] \in allocated \ K
    BY <1>4, <2>1 DEF RankInv, SpawnersHold, L
  <2>5. \A s, t \in Tasks : spawning'[s] = spawning'[t] => s = t \/ spawning'[s] = None
    BY <2>1 DEF RankInv, SpawnersHold
  <2>6. \A s \in Tasks : pc'[s] = "spawnLink" => spawning'[s] \in stacks
    BY <2>2 DEF RankInv, SpawnersHold, SpawnLink, TypeOK
  <2> QED
    BY <1>6, <2>3, <2>4, <2>5, <2>6 DEF SpawnersHold
<1> QED
  BY <1>3, <1>8, <1>9, <1>11, <1>12 DEF RankInv

(* The collector unlinks every task numbered above previousTask up to      *)
(* nextTask: the dead one, and any spawned behind previousTask meanwhile.  *)
LEMMA UnlinkRank ==
    ASSUME TypeOK, ServiceTasks, NEW r \in [Tasks -> Int], RankInv(r), CollectorUnlink
    PROVE  \E q \in [Tasks -> Int] : RankInv(q)'
<1> USE ConstantFacts
<1> DEFINE L == LinkedBy(r)
<1>1. /\ gcPrev \in L /\ gcNext \in L /\ L \subseteq Tasks /\ r[gcPrev] < r[gcNext]
      /\ \A f \in Fixed : ~(r[gcPrev] < r[f] /\ r[f] <= r[gcNext])
      /\ gcNext # GCTask /\ gcNext # KernelTask
  <2>1. pc[GCTask] = "gcUnlink"
    BY DEF CollectorUnlink, CollectorAt
  <2>2. \A x, y \in L : r[x] = r[y] => x = y
    BY DEF RankInv, RingOrdered
  <2>3. Fixed \subseteq L /\ \A t \in Tasks : r[t] \in Int
    BY DEF RankInv, LinkedAllocated
  <2>4. /\ gcPrev \in L /\ gcNext \in L /\ gcNext \notin Fixed
        /\ gcNext = GCTask \/ r[gcPrev] < r[gcNext]
        /\ \A f \in Fixed : ~(r[gcPrev] < r[f] /\ r[f] < r[gcNext])
    BY <2>1 DEF RankInv, CollectorHolds
  <2>5. L \subseteq Tasks
    BY DEF LinkedBy
  <2> HIDE DEF L
  <2> QED
    BY <2>2, <2>3, <2>4, <2>5 DEF Fixed
<1>2. /\ r[GCTask] = 0 /\ GCTask \in L
      /\ \A x, y \in L : r[x] = r[y] => x = y
      /\ \A x \in L : /\ next[x] \in L
                      /\ next[x] = GCTask \/ r[x] < r[next[x]]
      /\ \A x, y \in L : r[x] < r[y] => next[x] # GCTask /\ r[next[x]] <= r[y]
      /\ \A t \in Tasks : t \in L <=> r[t] >= 0
      /\ \A t \in Tasks : r[t] \in Int
  BY DEF RankInv, RingOrdered, LinkedAllocated, LinkedBy, Fixed
<1>3. PICK q \in [Tasks -> Int] :
        \A t \in Tasks : q[t] = IF r[gcPrev] < r[t] /\ r[t] <= r[gcNext] THEN -1
                                ELSE r[t]
  <2> DEFINE f == [t \in Tasks |-> IF r[gcPrev] < r[t] /\ r[t] <= r[gcNext] THEN -1
                                   ELSE r[t]]
  <2>1. f \in [Tasks -> Int]
    BY <1>2
  <2> QED
    BY <2>1
<1> DEFINE K == LinkedBy(q)
<1>4. K = {t \in L : ~(r[gcPrev] < r[t] /\ r[t] <= r[gcNext])}
  BY <1>2, <1>3 DEF LinkedBy
<1> HIDE DEF L
<1>5. /\ next'[gcPrev] = next[gcNext]
      /\ \A t \in Tasks : t # gcPrev => next'[t] = next[t]
  BY <1>1 DEF CollectorUnlink, TypeOK
<1>6. LinkedBy(q)' = K
  BY DEF LinkedBy
<1>7. \A t \in K : t \in L /\ q[t] = r[t]
  BY <1>1, <1>3, <1>4
<1>8. RingOrdered(q)'
  <2>1. q[GCTask] = 0
    BY <1>1, <1>2, <1>3
  <2>2. \A x, y \in K : q[x] = q[y] => x = y
    BY <1>2, <1>7
  <2>3. \A x \in K : /\ next'[x] \in K
                     /\ next'[x] = GCTask \/ q[x] < q[next'[x]]
    <3>1. TAKE x \in K
    <3>2. CASE x = gcPrev
      BY <1>1, <1>2, <1>4, <1>5, <1>7, <3>2
    <3>3. CASE x # gcPrev
      BY <1>1, <1>2, <1>4, <1>5, <1>7, <3>3
    <3> QED
      BY <3>2, <3>3
  <2>4. \A x, y \in K : q[x] < q[y] => next'[x] # GCTask /\ q[next'[x]] <= q[y]
    <3>1. TAKE x, y \in K
    <3>2. CASE x = gcPrev
      BY <1>1, <1>2, <1>4, <1>5, <1>7, <2>3, <3>2
    <3>3. CASE x # gcPrev
      BY <1>1, <1>2, <1>4, <1>5, <1>7, <2>3, <3>3
    <3> QED
      BY <3>2, <3>3
  <2> QED
    BY <2>1, <2>2, <2>3, <2>4 DEF RingOrdered
<1>9. LinkedAllocated(q)'
  BY <1>1, <1>4, <1>6, <1>7
     DEF CollectorUnlink, CollectorAt, RankInv, LinkedAllocated, L, Fixed
<1>10. pc'[GCTask] = "gcFreeStack"
  BY DEF CollectorUnlink, TypeOK
<1>11. CollectorHolds(q)'
  <2>1. gcPrev \in K /\ gcNext \in allocated \ K /\ gcNext \in stacks
    BY <1>1, <1>2, <1>4 DEF RankInv, LinkedAllocated, L
  <2>2. \A s \in Tasks : spawning[s] # gcNext
    BY <1>1 DEF RankInv, SpawnersHold, L
  <2> QED
    BY <1>6, <1>10, <2>1, <2>2 DEF CollectorHolds, CollectorUnlink, gc
<1>12. SpawnersHold(q)'
  <2>1. \A s \in Tasks : pc'[s] = "spawnLink" => pc[s] = "spawnLink"
    BY DEF CollectorUnlink, TypeOK
  <2> QED
    BY <1>6, <1>7, <2>1 DEF RankInv, SpawnersHold, CollectorUnlink, L
<1> QED
  BY <1>3, <1>8, <1>9, <1>11, <1>12 DEF RankInv

-----------------------------------------------------------------------------
(* The inductive invariant and what follows from it. *)

IInv ==
    /\ TypeOK /\ ServiceTasks /\ AlwaysRunnable
    /\ \E r \in [Tasks -> Int] : RankInv(r)

(* The service tasks keep their roles in every step.                       *)
LEMMA NextService ==
    ASSUME TypeOK, ServiceTasks, Fixed \subseteq allocated,
           Next, NEW r \in [Tasks -> Int], RankInv(r)
    PROVE  ServiceTasks'
<1> USE ConstantFacts
<1>1. ASSUME OSSchedulerNext, pc'[GCTask] \in {pc[GCTask], "gcStart"},
             pc'[IdleTask] = "run"
      PROVE  ServiceTasks'
  <2>1. PICK t \in Tasks : CanRun(t) /\ SwitchTo(t)
    BY <1>1, SwitchFindsTask DEF LinkedBy
  <2> QED
    BY <1>1, <2>1 DEF SwitchTo, ServiceTasks, TypeOK
<1>2. CASE TimerInterrupt
  BY <1>1, <1>2 DEF TimerInterrupt, ServiceTasks
<1>3. CASE SoftwareInterrupt
  <2>1. pc'[GCTask] \in {pc[GCTask], "gcStart"} /\ pc'[IdleTask] = "run"
    BY <1>3 DEF SoftwareInterrupt, ResumeLabel, ServiceTasks, TypeOK
  <2> QED
    BY <1>1, <1>3, <2>1 DEF SoftwareInterrupt
<1>4. ASSUME NEW n, YieldTicks(n), pc[current] # "run" \/ current # IdleTask
      PROVE  ServiceTasks'
  BY <1>4 DEF YieldTicks, ServiceTasks, TypeOK
<1>5. CASE Yield \/ SpawnYield \/ CollectorYield
  BY <1>4, <1>5 DEF Yield, SpawnYield, CollectorYield, ServiceTasks
<1>6. CASE YieldState
  BY <1>6 DEF YieldState, ServiceTasks, TypeOK
<1>7. CASE OSSchedulerBlock
  BY <1>7 DEF OSSchedulerBlock, ServiceTasks, TypeOK
<1>8. CASE OSSchedulerTerminate
  <2>1. current \notin Fixed
    BY <1>8 DEF OSSchedulerTerminate, ServiceTasks, Fixed
  <2> QED
    BY <1>8, <2>1 DEF OSSchedulerTerminate, Woken, ServiceTasks, TypeOK, Fixed
<1>9. CASE SpawnBegin
  <2>1. current # GCTask /\ current # IdleTask
    BY <1>9 DEF SpawnBegin, ServiceTasks
  <2>2. CASE SpawnNoCell
    BY <1>9, <2>1, <2>2 DEF SpawnBegin, SpawnNoCell, ServiceTasks, TypeOK
  <2>3. ASSUME NEW task \in Tasks \ allocated, NEW kind, SpawnCell(task, kind)
        PROVE  ServiceTasks'
    BY <1>9, <2>1, <2>3 DEF SpawnBegin, SpawnCell, ServiceTasks, TypeOK, Fixed
  <2> QED
    BY <1>9, <2>2, <2>3 DEF SpawnBegin
<1>10. CASE SpawnStack
  BY <1>10 DEF sOSSchedulerPostGarbageCollectorSignal,
        SpawnStack, TakeStack, ServiceTasks, TypeOK
<1>11. CASE SpawnRetry
  BY <1>11 DEF SpawnRetry, TakeStack, ServiceTasks, TypeOK, ring
<1>12. CASE SpawnLink
  <2>1. current # GCTask /\ current # IdleTask
    BY <1>12 DEF SpawnLink, ServiceTasks
  <2>2. spawning[current] \in Tasks \ Fixed
    BY <1>12 DEF SpawnLink, TypeOK, SpawnLabels, RankInv, SpawnersHold,
                 LinkedAllocated, Fixed
  <2> QED
    BY <1>12, <2>1, <2>2 DEF SpawnLink, ServiceTasks, TypeOK, Fixed
<1>13. CASE Collector
  BY <1>13 DEF Collector, CollectorStart, CollectorTest, CollectorUnlink,
     CollectorFreeStack, CollectorFreeTask, CollectorReload, CollectorAt,
     ServiceTasks, TypeOK, ring
<1> QED
  BY <1>2, <1>3, <1>5, <1>6, <1>7, <1>8, <1>9, <1>10, <1>11, <1>12, <1>13
     DEF Next, Continue, Request

(* A cell goes to a spawner, gets a stack, or goes back to the heap.       *)
LEMMA SpawnRank ==
    ASSUME TypeOK, ServiceTasks, NEW r \in [Tasks -> Int], RankInv(r),
           SpawnBegin \/ SpawnStack \/ SpawnRetry
    PROVE  RankInv(r)'
<1> USE ConstantFacts
<1> DEFINE c == current
<1>1. /\ c \in LinkedBy(r) /\ LinkedBy(r) \subseteq allocated /\ c \in Tasks
      /\ c # GCTask
  BY DEF sOSSchedulerPostGarbageCollectorSignal,
        SpawnBegin, SpawnStack, SpawnRetry, RankInv, LinkedAllocated, ServiceTasks,
     TypeOK
<1>2. CASE SpawnNoCell /\ SpawnBegin
  BY <1>1, <1>2, CounterStep DEF SpawnNoCell, SpawnBegin, SpawnDone, TypeOK
<1>3. ASSUME NEW task \in Tasks \ allocated, NEW kind, SpawnCell(task, kind), SpawnBegin
      PROVE  RankInv(r)'
  <2>1. RingOrdered(r)' /\ LinkedAllocated(r)'
    BY <1>3 DEF SpawnBegin, SpawnCell, RankInv, RingOrdered, LinkedAllocated, LinkedBy
  <2>2. pc'[GCTask] = pc[GCTask]
    BY <1>1, <1>3 DEF SpawnCell, TypeOK
  <2>3. spawning' = [spawning EXCEPT ![c] = task]
    BY <1>3 DEF SpawnCell
  <2>4. CollectorHolds(r)'
    <3>1. pc[GCTask] \in {"gcFreeStack", "gcFreeTask"} =>
            gcNext # task /\ \A s \in Tasks : spawning'[s] # gcNext
      BY <1>3, <2>3 DEF RankInv, CollectorHolds, TypeOK
    <3> QED
      BY <1>3, <2>2, <3>1
         DEF SpawnBegin, SpawnCell, RankInv, CollectorHolds, LinkedBy, gc
  <2>5. SpawnersHold(r)'
    <3>1. \A s \in Tasks : spawning'[s] # None =>
              spawning'[s] \in (allocated \cup {task}) \ LinkedBy(r)
      BY <1>1, <1>3, <2>3 DEF RankInv, SpawnersHold, TypeOK
    <3>2. \A s, t \in Tasks : spawning'[s] = spawning'[t] => s = t \/ spawning'[s] = None
      BY <1>1, <1>3, <2>3 DEF RankInv, SpawnersHold, TypeOK
    <3>3. \A s \in Tasks : pc'[s] = "spawnLink" => spawning'[s] \in stacks
      BY <1>1, <1>3, <2>3 DEF RankInv, SpawnersHold, SpawnCell, TypeOK
    <3>4. allocated' = allocated \cup {task} /\ stacks' = stacks
      BY <1>3 DEF SpawnBegin, SpawnCell
    <3> QED
      BY <3>1, <3>2, <3>3, <3>4 DEF SpawnersHold, LinkedBy
  <2> QED
    BY <2>1, <2>4, <2>5 DEF RankInv
<1>4. ASSUME TakeStack, UNCHANGED <<allocated, next, current, spawning, gc>>,
             spawning[c] # None
      PROVE  RankInv(r)'
  <2>1. pc'[GCTask] = pc[GCTask] /\ stacks \subseteq stacks'
    BY <1>1, <1>4 DEF TakeStack, TypeOK
  <2>2. RingOrdered(r)' /\ LinkedAllocated(r)'
    BY <1>4, <2>1 DEF RankInv, RingOrdered, LinkedAllocated, LinkedBy
  <2>3. CollectorHolds(r)'
    BY <1>4, <2>1 DEF RankInv, CollectorHolds, LinkedBy, gc
  <2>4. SpawnersHold(r)'
    <3>1. \A s \in Tasks : pc'[s] = "spawnLink" => spawning[s] \in stacks'
      BY <1>1, <1>4, <2>1 DEF RankInv, SpawnersHold, TakeStack, TypeOK
    <3> QED
      BY <1>4, <3>1 DEF RankInv, SpawnersHold, LinkedBy
  <2> QED
    BY <2>2, <2>3, <2>4 DEF RankInv
<1>5. CASE SpawnStack
  <2>1. CASE TakeStack
    BY <1>4, <1>5, <2>1 DEF sOSSchedulerPostGarbageCollectorSignal,
          SpawnStack, TypeOK, SpawnLabels
  <2>2. CASE pc' = [pc EXCEPT ![current] = "spawnYield"] /\ UNCHANGED stacks
    BY <1>1, <1>5, <2>2, CounterStep DEF sOSSchedulerPostGarbageCollectorSignal,
          SpawnStack, TypeOK
  <2> QED
    BY <1>5, <2>1, <2>2 DEF sOSSchedulerPostGarbageCollectorSignal,
          SpawnStack
<1>6. CASE SpawnRetry
  <2>1. CASE TakeStack /\ UNCHANGED <<allocated, spawning>>
    BY <1>4, <1>6, <2>1 DEF SpawnRetry, TypeOK, SpawnLabels, ring
  <2>2. CASE /\ allocated' = allocated \ {spawning[c]}
             /\ spawning' = [spawning EXCEPT ![c] = None]
             /\ pc' = [pc EXCEPT ![c] = SpawnDone(c)]
             /\ UNCHANGED stacks
    <3>1. /\ spawning[c] # None /\ spawning[c] \notin LinkedBy(r)
          /\ pc'[GCTask] = pc[GCTask]
          /\ \A s \in Tasks : spawning'[s] = IF s = c THEN None ELSE spawning[s]
          /\ \A s \in Tasks : pc'[s] = "spawnLink" => pc[s] = "spawnLink" /\ s # c
      <4>1. spawning[c] # None
        BY <1>1, <1>6 DEF SpawnRetry, TypeOK, SpawnLabels
      <4>2. spawning[c] \notin LinkedBy(r)
        BY <1>1, <4>1 DEF RankInv, SpawnersHold
      <4>3. \A s \in Tasks : spawning'[s] = IF s = c THEN None ELSE spawning[s]
        BY <2>2 DEF TypeOK
      <4>4. \A s \in Tasks : pc'[s] = IF s = c THEN SpawnDone(c) ELSE pc[s]
        BY <2>2 DEF TypeOK
      <4>5. SpawnDone(c) # "spawnLink"
        BY DEF SpawnDone
      <4> QED
        BY <1>1, <4>1, <4>2, <4>3, <4>4, <4>5
    <3>2. RingOrdered(r)'
      BY <1>6 DEF SpawnRetry, RankInv, RingOrdered, LinkedBy, ring
    <3>5. LinkedAllocated(r)'
      <4>1. current' = current
        BY <1>6 DEF SpawnRetry
      <4> QED
        BY <2>2, <3>1, <4>1 DEF RankInv, LinkedAllocated, LinkedBy
    <3>3. CollectorHolds(r)'
      <4>1. pc[GCTask] \in {"gcFreeStack", "gcFreeTask"} =>
              gcNext # spawning[c] /\ gcNext \in Tasks
              /\ \A s \in Tasks : spawning'[s] # gcNext
        BY <1>1, <3>1 DEF RankInv, CollectorHolds, TypeOK
      <4> QED
        BY <1>6, <2>2, <3>1, <4>1
           DEF SpawnRetry, RankInv, CollectorHolds, LinkedBy, ring, gc
    <3>4. SpawnersHold(r)'
      <4>1. \A s \in Tasks : spawning'[s] # None =>
                spawning'[s] \in (allocated \ {spawning[c]}) \ LinkedBy(r)
        BY <1>1, <3>1 DEF RankInv, SpawnersHold
      <4>2. \A s, t \in Tasks :
                spawning'[s] = spawning'[t] => s = t \/ spawning'[s] = None
        BY <1>1, <3>1 DEF RankInv, SpawnersHold
      <4>3. \A s \in Tasks : pc'[s] = "spawnLink" => spawning'[s] \in stacks
        BY <1>1, <3>1 DEF RankInv, SpawnersHold
      <4> QED
        BY <2>2, <4>1, <4>2, <4>3 DEF SpawnersHold, LinkedBy
    <3> QED
      BY <3>2, <3>3, <3>4, <3>5 DEF RankInv
  <2> QED
    BY <1>6, <2>1, <2>2 DEF SpawnRetry
<1> QED
  BY <1>2, <1>3, <1>5, <1>6 DEF SpawnBegin

(* The collector reads, frees and reads again.                             *)
LEMMA CollectorRank ==
    ASSUME TypeOK, ServiceTasks, NEW r \in [Tasks -> Int], RankInv(r),
           CollectorStart \/ CollectorTest \/ CollectorFreeStack
               \/ CollectorFreeTask \/ CollectorReload
    PROVE  RankInv(r)'
<1> USE ConstantFacts
<1>1. UNCHANGED <<next, current, spawning>>
  BY DEF CollectorStart, CollectorTest, CollectorFreeStack, CollectorFreeTask,
         CollectorReload, ring
<1>2. \A s \in Tasks : pc'[s] = "spawnLink" => pc[s] = "spawnLink" /\ s # GCTask
  BY DEF CollectorStart, CollectorTest, CollectorFreeStack, CollectorFreeTask,
         CollectorReload, ServiceTasks, TypeOK
<1>3. RingOrdered(r)'
  BY <1>1 DEF RankInv, RingOrdered, LinkedBy
<1>4. /\ r[GCTask] = 0 /\ Fixed \subseteq LinkedBy(r)
      /\ \A t \in LinkedBy(r) : r[t] \in Int /\ r[t] >= 0
      /\ \A x \in LinkedBy(r) : /\ next[x] \in LinkedBy(r)
                                /\ next[x] = GCTask \/ r[x] < r[next[x]]
      /\ \A x, y \in LinkedBy(r) :
            r[x] < r[y] => next[x] # GCTask /\ r[next[x]] <= r[y]
  BY DEF RankInv, RingOrdered, LinkedAllocated, LinkedBy
<1>5. ASSUME UNCHANGED <<allocated, stacks>>, CollectorHolds(r)'
      PROVE  RankInv(r)'
  <2>1. LinkedAllocated(r)' /\ SpawnersHold(r)'
    BY <1>1, <1>2, <1>5 DEF RankInv, LinkedAllocated, SpawnersHold, LinkedBy
  <2> QED
    BY <1>3, <1>5, <2>1 DEF RankInv
<1>6. ASSUME NEW x \in LinkedBy(r), gcPrev' = x, gcNext' = next[x],
             UNCHANGED <<allocated, stacks>>, pc'[GCTask] = "gcTest"
      PROVE  RankInv(r)'
  <2>1. \A f \in Fixed : ~(r[x] < r[f] /\ r[f] < r[next[x]])
    BY <1>4
  <2>2. CollectorHolds(r)'
    BY <1>4, <1>6, <2>1 DEF CollectorHolds, LinkedBy
  <2> QED
    BY <1>5, <1>6, <2>2
<1>7. gcPrev \in LinkedBy(r) /\ GCTask \in LinkedBy(r)
  BY <1>4 DEF RankInv, CollectorHolds, Fixed
<1>8. CASE CollectorStart
  BY <1>6, <1>7, <1>8 DEF CollectorStart, ring, TypeOK
<1>9. CASE CollectorReload
  BY <1>6, <1>7, <1>9 DEF CollectorReload, ring, TypeOK
<1>10. CASE CollectorTest
  <2>1. gcNext \in LinkedBy(r)
    BY <1>10 DEF CollectorTest, CollectorAt, RankInv, CollectorHolds
  <2>2. CASE gcPrev' = gcNext /\ gcNext' = next[gcNext] /\ UNCHANGED pc
    BY <1>6, <1>10, <2>1, <2>2 DEF CollectorTest, CollectorAt
  <2>3. CASE pc' = [pc EXCEPT ![GCTask] = "gcYield"] /\ UNCHANGED gc
    <3>1. CollectorHolds(r)'
      BY <1>7, <2>3 DEF CollectorHolds, LinkedBy, gc, TypeOK
    <3> QED
      BY <1>5, <1>10, <3>1 DEF CollectorTest
  <2>4. CASE /\ gcNext # GCTask /\ taskState[gcNext] = "Dead"
             /\ pc' = [pc EXCEPT ![GCTask] = "gcUnlink"] /\ UNCHANGED gc
    <3>1. gcNext \notin Fixed
      BY <2>4 DEF ServiceTasks, Fixed
    <3>2. pc'[GCTask] = "gcUnlink" /\ pc[GCTask] = "gcTest"
      BY <1>10, <2>4 DEF CollectorTest, CollectorAt, TypeOK
    <3>3. CollectorHolds(r)'
      BY <2>4, <3>1, <3>2 DEF RankInv, CollectorHolds, LinkedBy, gc
    <3> QED
      BY <1>5, <1>10, <3>3 DEF CollectorTest
  <2> QED
    BY <1>10, <2>2, <2>3, <2>4 DEF CollectorTest
<1>11. CASE CollectorFreeStack
  <2>1. /\ pc[GCTask] = "gcFreeStack" /\ pc'[GCTask] = "gcFreeTask"
        /\ UNCHANGED <<allocated, gc>> /\ stacks' = stacks \ {gcNext}
    BY <1>11 DEF CollectorFreeStack, CollectorAt, TypeOK
  <2>2. /\ gcNext \in allocated \ LinkedBy(r)
        /\ \A s \in Tasks : spawning[s] # gcNext
    BY <2>1 DEF RankInv, CollectorHolds
  <2>3. CollectorHolds(r)'
    BY <1>1, <1>7, <2>1, <2>2 DEF CollectorHolds, LinkedBy, gc
  <2>4. LinkedAllocated(r)'
    <3>1. LinkedBy(r) \ {KernelTask} \subseteq stacks'
      BY <2>1, <2>2 DEF RankInv, LinkedAllocated
    <3> QED
      BY <1>1, <2>1, <3>1 DEF RankInv, LinkedAllocated, LinkedBy
  <2>5. SpawnersHold(r)'
    <3>1. \A s \in Tasks : pc'[s] = "spawnLink" => spawning[s] \in stacks'
      BY <1>2, <2>1, <2>2 DEF RankInv, SpawnersHold
    <3> QED
      BY <1>1, <2>1, <3>1 DEF RankInv, SpawnersHold, LinkedBy
  <2> QED
    BY <1>3, <2>3, <2>4, <2>5 DEF RankInv
<1>12. CASE CollectorFreeTask
  <2>1. /\ pc[GCTask] = "gcFreeTask" /\ pc'[GCTask] = "gcReload"
        /\ UNCHANGED <<stacks, gc>> /\ allocated' = allocated \ {gcNext}
    BY <1>12 DEF CollectorFreeTask, CollectorAt, TypeOK
  <2>2. /\ gcNext \in allocated \ LinkedBy(r)
        /\ \A s \in Tasks : spawning[s] # gcNext
    BY <2>1 DEF RankInv, CollectorHolds
  <2>3. CollectorHolds(r)'
    BY <1>1, <1>7, <2>1, <2>2 DEF CollectorHolds, LinkedBy, gc
  <2>4. LinkedAllocated(r)'
    BY <1>1, <2>1, <2>2 DEF RankInv, LinkedAllocated, LinkedBy
  <2>5. SpawnersHold(r)'
    BY <1>1, <1>2, <2>1, <2>2 DEF RankInv, SpawnersHold, LinkedBy
  <2> QED
    BY <1>3, <2>3, <2>4, <2>5 DEF RankInv
<1> QED
  BY <1>8, <1>9, <1>10, <1>11, <1>12

(* Every step keeps the ring ordered, for some numbering.                  *)
LEMMA NextRank ==
    ASSUME TypeOK, ServiceTasks, NEW r \in [Tasks -> Int], RankInv(r), Next
    PROVE  \E q \in [Tasks -> Int] : RankInv(q)'
<1> USE ConstantFacts
<1>1. current \in LinkedBy(r)
  BY DEF RankInv, LinkedAllocated
<1>2. ASSUME OSSchedulerNext,
             \A t \in Tasks : pc'[t] = "spawnLink" => pc[t] = "spawnLink",
             pc'[GCTask] \in {pc[GCTask], "gcStart"}
      PROVE  RankInv(r)'
  <2>1. PICK t \in LinkedBy(r) : CanRun(t) /\ SwitchTo(t)
    BY <1>2, SwitchFindsTask
  <2>2. UNCHANGED <<allocated, stacks, next, spawning, gc>> /\ current' = t
    BY <2>1 DEF SwitchTo
  <2> QED
    BY <1>2, <2>1, <2>2, CounterStep
<1>3. CASE TimerInterrupt
  BY <1>2, <1>3 DEF TimerInterrupt
<1>4. CASE SoftwareInterrupt
  <2>1. /\ \A t \in Tasks : pc'[t] = "spawnLink" => pc[t] = "spawnLink"
        /\ pc'[GCTask] \in {pc[GCTask], "gcStart"}
    BY <1>4 DEF SoftwareInterrupt, ResumeLabel, TypeOK
  <2> QED
    BY <1>2, <1>4, <2>1 DEF SoftwareInterrupt
<1>5. ASSUME NEW label \in {"yieldState", "yieldInt", "int"},
             pc' = [pc EXCEPT ![current] = label],
             UNCHANGED <<allocated, stacks, next, spawning, gc, current>>
      PROVE  RankInv(r)'
  BY <1>1, <1>5, CounterStep DEF TypeOK
<1>6. CASE Yield \/ SpawnYield \/ CollectorYield
  BY <1>5, <1>6 DEF Yield, SpawnYield, CollectorYield, YieldTicks
<1>7. CASE YieldState \/ OSSchedulerBlock \/ OSSchedulerTerminate
  BY <1>5, <1>7 DEF YieldState, OSSchedulerBlock, OSSchedulerTerminate
<1>8. CASE SpawnBegin \/ SpawnStack \/ SpawnRetry
  BY <1>8, SpawnRank
<1>9. CASE SpawnLink
  BY <1>9, SpawnLinkRank
<1>10. CASE CollectorUnlink
  BY <1>10, UnlinkRank
<1>11. CASE CollectorStart \/ CollectorTest \/ CollectorFreeStack
            \/ CollectorFreeTask \/ CollectorReload
  BY <1>11, CollectorRank
<1> QED
  BY <1>3, <1>4, <1>6, <1>7, <1>8, <1>9, <1>10, <1>11
     DEF Next, Continue, Request, Collector

(* The switch never runs out of tasks, and nothing else panics that way.   *)
LEMMA NextRunnable ==
    ASSUME TypeOK, ServiceTasks, AlwaysRunnable, NEW r \in [Tasks -> Int], RankInv(r),
           Next
    PROVE  AlwaysRunnable'
<1>1. CASE OSSchedulerNext
  <2>1. PICK t \in LinkedBy(r) : CanRun(t) /\ SwitchTo(t)
    BY <1>1, SwitchFindsTask
  <2> QED
    BY <2>1 DEF SwitchTo, AlwaysRunnable
<1>2. CASE ~OSSchedulerNext
  BY <1>2 DEF Next, Continue, Request, Collector, TimerInterrupt, SoftwareInterrupt,
     Yield, SpawnYield, CollectorYield, YieldTicks, YieldState, OSSchedulerBlock,
     OSSchedulerTerminate, SpawnBegin, SpawnNoCell, SpawnCell, SpawnFailure,
     sOSSchedulerPostGarbageCollectorSignal,
     SpawnStack, SpawnRetry, SpawnLink, CollectorStart, CollectorTest,
     CollectorUnlink, CollectorFreeStack, CollectorFreeTask, CollectorReload,
     AlwaysRunnable
<1> QED
  BY <1>1, <1>2

LEMMA IInvInductive == IInv /\ [Next]_vars => IInv'
<1> SUFFICES ASSUME IInv, [Next]_vars PROVE IInv'
  OBVIOUS
<1>1. TypeOK'
  BY NextType DEF IInv
<1>2. PICK r \in [Tasks -> Int] : RankInv(r)
  BY DEF IInv
<1>3. CASE Next
  <2>1. Fixed \subseteq allocated
    BY <1>2 DEF RankInv, LinkedAllocated
  <2>2. ServiceTasks' /\ AlwaysRunnable'
    BY <1>2, <1>3, <2>1, NextService, NextRunnable DEF IInv
  <2>3. \E q \in [Tasks -> Int] : RankInv(q)'
    BY <1>2, <1>3, NextRank DEF IInv
  <2> QED
    BY <1>1, <2>2, <2>3 DEF IInv
<1>4. CASE UNCHANGED vars
  <2>1. RankInv(r)'
    BY <1>2, <1>4 DEF RankInv, RingOrdered, LinkedAllocated, CollectorHolds,
       SpawnersHold, LinkedBy, vars, ring, gc
  <2>2. ServiceTasks' /\ AlwaysRunnable'
    BY <1>4 DEF IInv, ServiceTasks, AlwaysRunnable, vars, ring
  <2> QED
    BY <1>1, <1>2, <2>1, <2>2 DEF IInv
<1> QED
  BY <1>3, <1>4

LEMMA IInvHolds == Spec => []IInv
<1>1. OSSchedulerInitialize => IInv
  BY InitType, InitRank DEF IInv
<1> QED
  BY <1>1, IInvInductive, PTL DEF Spec

(* No interleaving of the collector, the spawners and the timer makes the  *)
(* kernel use a freed task or stack, or free one that is still linked.     *)
THEOREM MemorySafe == Spec => []NoUseAfterFree
<1>1. IInv => NoUseAfterFree
  BY RankInvSafe DEF IInv
<1> QED
  BY <1>1, IInvHolds, PTL

(* OSPanic("no running tasks") in OSSchedulerNext is unreachable.          *)
THEOREM NeverOutOfTasks == Spec => []AlwaysRunnable
<1>1. IInv => AlwaysRunnable
  BY DEF IInv
<1> QED
  BY <1>1, IInvHolds, PTL

-----------------------------------------------------------------------------
(* The states of the tasks. *)

(* A switch gives the CPU to a task that runs, and wakes nobody blocked.   *)
LEMMA SwitchStates ==
    ASSUME TypeOK, ServiceTasks, NEW r \in [Tasks -> Int], RankInv(r), OSSchedulerNext
    PROVE  /\ taskState'[current'] = "Running"
           /\ \A t \in Tasks : /\ taskState[t] \in {"Dead", "Blocked"} =>
                                     taskState'[t] = taskState[t]
                               /\ taskState'[t] = "Blocked" => taskState[t] = "Blocked"
<1>1. PICK t \in LinkedBy(r) : CanRun(t) /\ SwitchTo(t)
  BY SwitchFindsTask
<1>2. t \in Tasks
  BY DEF LinkedBy
<1>3. current' = t /\ taskState' = [taskState EXCEPT ![t] = "Running"]
  BY <1>1, <1>2 DEF SwitchTo
<1>4. taskState[t] \in {"Running", "Sleeping"}
  BY <1>1 DEF CanRun
<1> QED
  BY <1>2, <1>3, <1>4 DEF TypeOK

(* A task that is not on its way to the switch is running.                 *)
LEMMA CurrentRuns ==
    ASSUME TaskStates, pc[current] \notin {"yieldInt", "int"}
    PROVE  taskState[current] = "Running"
BY DEF TaskStates

(* The cell a spawner links is dead, and neither linked nor held by anybody*)
(* else.                                                                   *)
LEMMA LinkedCell ==
    ASSUME TypeOK, ServiceTasks, TaskStates, NEW r \in [Tasks -> Int], RankInv(r),
           SpawnLink
    PROVE  /\ spawning[current] \in (Tasks \cap allocated) \ LinkedBy(r)
           /\ taskState[spawning[current]] = "Dead"
           /\ \A s \in Tasks : spawning[s] = spawning[current] => s = current
           /\ pc[GCTask] \in {"gcUnlink", "gcFreeStack", "gcFreeTask"} =>
                  gcNext # spawning[current]
<1>1. current \in Tasks /\ spawning[current] # None
  BY DEF SpawnLink, TypeOK, SpawnLabels
<1>2. spawning[current] \in (Tasks \cap allocated) \ LinkedBy(r)
  BY <1>1 DEF RankInv, SpawnersHold, TypeOK
<1>3. \A s \in Tasks : spawning[s] = spawning[current] => s = current
  BY <1>1 DEF RankInv, SpawnersHold
<1>4. pc[GCTask] \in {"gcUnlink", "gcFreeStack", "gcFreeTask"} =>
          gcNext # spawning[current]
  BY <1>1, <1>2 DEF RankInv, CollectorHolds
<1> QED
  BY <1>1, <1>2, <1>3, <1>4 DEF TaskStates

(* Every step keeps the states of the tasks as TaskStates says.            *)
LEMMA NextStates ==
    ASSUME TypeOK, ServiceTasks, TaskStates, NEW r \in [Tasks -> Int], RankInv(r), Next
    PROVE  TaskStates'
<1> USE ConstantFacts
<1> DEFINE Freeing == {"gcUnlink", "gcFreeStack", "gcFreeTask"}
<1>1. current \in Tasks /\ current \in LinkedBy(r) /\ LinkedBy(r) \subseteq allocated
  BY DEF TypeOK, RankInv, LinkedAllocated
<1>2. ASSUME UNCHANGED <<taskState, current>>,
             taskState[current] = "Running",
             \A t \in Tasks \ allocated' : taskState[t] = "Dead",
             \A s \in Tasks : spawning'[s] # None => taskState[spawning'[s]] = "Dead",
             pc'[GCTask] \in Freeing => taskState[gcNext'] = "Dead"
      PROVE  TaskStates'
  BY <1>2 DEF TaskStates
<1>3. ASSUME OSSchedulerNext, pc'[GCTask] \in {pc[GCTask], "gcStart"}
      PROVE  TaskStates'
  <2>1. UNCHANGED <<allocated, spawning, gcNext>>
    BY <1>3 DEF OSSchedulerNext, SwitchTo, gc
  <2>2. /\ taskState'[current'] = "Running"
        /\ \A t \in Tasks : /\ taskState[t] = "Dead" => taskState'[t] = "Dead"
                            /\ taskState'[t] = "Blocked" => taskState[t] = "Blocked"
    BY <1>3, SwitchStates
  <2> QED
    BY <1>3, <2>1, <2>2 DEF TaskStates, TypeOK
<1>4. CASE TimerInterrupt
  BY <1>3, <1>4 DEF TimerInterrupt
<1>5. CASE SoftwareInterrupt
  <2>1. pc'[GCTask] \in {pc[GCTask], "gcStart"}
    BY <1>1, <1>5 DEF SoftwareInterrupt, ResumeLabel, TypeOK
  <2> QED
    BY <1>3, <1>5, <2>1 DEF SoftwareInterrupt
<1>6. CASE Yield \/ SpawnYield \/ CollectorYield
  <2>1. PICK n : YieldTicks(n)
    BY <1>6 DEF Yield, SpawnYield, CollectorYield
  <2>2. taskState[current] = "Running"
    BY <1>6, CurrentRuns DEF Yield, SpawnYield, CollectorYield
  <2>3. UNCHANGED <<taskState, current, allocated, spawning, gcNext>>
    BY <2>1 DEF YieldTicks, gc
  <2>4. pc'[GCTask] \in {pc[GCTask], "yieldState"}
    BY <1>1, <2>1 DEF YieldTicks, TypeOK
  <2> QED
    BY <1>2, <2>2, <2>3, <2>4 DEF TaskStates
<1>7. ASSUME NEW state \in {"Sleeping", "Blocked"}, NEW label \in {"yieldInt", "int"},
             taskState[current] = "Running",
             state = "Sleeping" <=> label = "yieldInt",
             state = "Blocked" => current # GCTask,
             taskState' = [taskState EXCEPT ![current] = state],
             pc' = [pc EXCEPT ![current] = label],
             UNCHANGED <<allocated, current, spawning, gc>>
      PROVE  TaskStates'
  <2>1. \A t \in Tasks : taskState[t] = "Dead" => taskState'[t] = "Dead"
    BY <1>7 DEF TypeOK
  <2>2. taskState'[current] = state /\ pc'[current] = label
    BY <1>1, <1>7 DEF TypeOK
  <2>3. pc'[GCTask] \in {pc[GCTask], "yieldInt", "int"} /\ taskState'[GCTask] # "Blocked"
    BY <1>1, <1>7 DEF TypeOK, TaskStates
  <2> QED
    BY <1>7, <2>1, <2>2, <2>3 DEF TaskStates, TypeOK, gc
<1>8. CASE YieldState
  BY <1>7, <1>8, CurrentRuns DEF YieldState
<1>9. CASE OSSchedulerBlock
  BY <1>7, <1>9, CurrentRuns DEF OSSchedulerBlock, ServiceTasks
<1>10. CASE OSSchedulerTerminate
  <2>1. current # GCTask
    BY <1>10 DEF OSSchedulerTerminate, ServiceTasks
  <2>2. \A t \in Tasks : /\ t = current => taskState'[t] = "Dead"
                         /\ t = GCTask => taskState'[t] = "Running"
                         /\ taskState[t] = "Dead" /\ t # GCTask => taskState'[t] = "Dead"
    BY <1>10, <2>1 DEF OSSchedulerTerminate, Woken
  <2>3. taskState[GCTask] # "Dead"
    BY DEF ServiceTasks
  <2>4. pc'[current] = "int" /\ pc'[GCTask] = pc[GCTask]
    BY <1>1, <1>10, <2>1 DEF OSSchedulerTerminate, TypeOK
  <2>5. UNCHANGED <<allocated, current, spawning, gcNext>>
    BY <1>10 DEF OSSchedulerTerminate, gc
  <2> QED
    BY <1>1, <2>2, <2>3, <2>4, <2>5 DEF TaskStates, TypeOK
<1>11. CASE SpawnBegin
  <2>1. taskState[current] = "Running" /\ current # GCTask
    BY <1>11, CurrentRuns DEF SpawnBegin, ServiceTasks
  <2>2. UNCHANGED <<taskState, current, gcNext>>
    BY <1>11 DEF SpawnBegin, gc
  <2>3. CASE SpawnNoCell
    <3>1. pc'[GCTask] = pc[GCTask] /\ UNCHANGED <<allocated, spawning>>
      BY <1>1, <2>1, <2>3 DEF SpawnNoCell, TypeOK
    <3> QED
      BY <1>2, <2>1, <2>2, <3>1 DEF TaskStates
  <2>4. ASSUME NEW task \in Tasks \ allocated, NEW kind, SpawnCell(task, kind)
        PROVE  TaskStates'
    <3>1. pc'[GCTask] = pc[GCTask]
      BY <1>1, <2>1, <2>4 DEF SpawnCell, TypeOK
    <3>2. \A s \in Tasks : spawning'[s] # None => taskState[spawning'[s]] = "Dead"
      BY <2>4 DEF SpawnCell, TaskStates, TypeOK
    <3>3. allocated \subseteq allocated'
      BY <2>4 DEF SpawnCell
    <3> QED
      BY <1>2, <2>1, <2>2, <3>1, <3>2, <3>3 DEF TaskStates
  <2> QED
    BY <1>11, <2>3, <2>4 DEF SpawnBegin
<1>12. CASE SpawnStack
  <2>1. taskState[current] = "Running" /\ current # GCTask
    BY <1>12, CurrentRuns DEF SpawnStack, ServiceTasks
  <2>2. UNCHANGED <<allocated, current, spawning, gcNext>>
    BY <1>12 DEF SpawnStack, gc
  <2>3. pc'[GCTask] = pc[GCTask]
    BY <1>1, <1>12, <2>1 DEF SpawnStack, TakeStack, TypeOK
  <2>4. \/ UNCHANGED taskState
        \/ taskState' = [taskState EXCEPT ![GCTask] = "Running"]
    BY <1>12 DEF SpawnStack, sOSSchedulerPostGarbageCollectorSignal
  <2>5. CASE UNCHANGED taskState
    BY <1>2, <2>1, <2>2, <2>3, <2>5 DEF TaskStates
  <2>6. CASE taskState' = [taskState EXCEPT ![GCTask] = "Running"]
    <3>1. \A t \in Tasks : taskState[t] = "Dead" => taskState'[t] = "Dead"
      BY <2>6 DEF TypeOK, ServiceTasks
    <3>2. taskState'[current] = "Running" /\ taskState'[GCTask] = "Running"
      BY <1>1, <2>1, <2>6 DEF TypeOK
    <3> QED
      BY <2>2, <2>3, <3>1, <3>2 DEF TaskStates, TypeOK
  <2> QED
    BY <2>4, <2>5, <2>6
<1>13. CASE SpawnRetry
  <2>1. taskState[current] = "Running" /\ current # GCTask
    BY <1>13, CurrentRuns DEF SpawnRetry, ServiceTasks
  <2>2. UNCHANGED <<taskState, current, gcNext>>
    BY <1>13 DEF SpawnRetry, ring, gc
  <2>3. pc'[GCTask] = pc[GCTask]
    BY <1>1, <1>13, <2>1 DEF SpawnRetry, TakeStack, TypeOK
  <2>4. spawning[current] \in Tasks /\ taskState[spawning[current]] = "Dead"
    BY <1>1, <1>13 DEF SpawnRetry, TypeOK, SpawnLabels, TaskStates
  <2>5. \A t \in Tasks \ allocated' : taskState[t] = "Dead"
    BY <1>13, <2>4 DEF SpawnRetry, TaskStates
  <2>6. \A s \in Tasks : spawning'[s] # None => taskState[spawning'[s]] = "Dead"
    BY <1>13 DEF SpawnRetry, TaskStates, TypeOK
  <2> QED
    BY <1>2, <2>1, <2>2, <2>3, <2>5, <2>6 DEF TaskStates
<1>14. CASE SpawnLink
  <2> DEFINE c == current
             task == spawning[current]
  <2>1. taskState[c] = "Running" /\ c # GCTask
    BY <1>14, CurrentRuns DEF SpawnLink, ServiceTasks
  <2>2. /\ task \in (Tasks \cap allocated) \ LinkedBy(r)
        /\ \A s \in Tasks : spawning[s] = task => s = c
        /\ pc[GCTask] \in Freeing => gcNext # task
    BY <1>14, LinkedCell
  <2>3. task # GCTask /\ task # c /\ task \in Tasks
    BY <1>1, <2>2 DEF RankInv, LinkedAllocated, Fixed
  <2>4. UNCHANGED <<allocated, current, gcNext>>
    BY <1>14 DEF SpawnLink, gc
  <2>5. \A t \in Tasks \ {task} : taskState'[t] = taskState[t]
    BY <1>14 DEF SpawnLink, TypeOK
  <2>6. pc'[GCTask] = pc[GCTask]
    BY <1>1, <1>14, <2>1, <2>3 DEF SpawnLink, TypeOK
  <2>7. \A s \in Tasks : spawning'[s] = IF s = c THEN None ELSE spawning[s]
    BY <1>14 DEF SpawnLink, TypeOK
  <2>8. \A s \in Tasks : spawning'[s] # None => taskState'[spawning'[s]] = "Dead"
    BY <2>2, <2>5, <2>7 DEF TaskStates, TypeOK
  <2>9. \A t \in Tasks \ allocated : taskState'[t] = "Dead"
    BY <2>2, <2>5 DEF TaskStates
  <2>10. pc[GCTask] \in Freeing => taskState'[gcNext] = "Dead"
    BY <2>2, <2>5 DEF TaskStates, TypeOK
  <2>11. taskState'[c] = "Running" /\ taskState'[GCTask] # "Blocked"
    BY <1>1, <2>1, <2>3, <2>5 DEF TaskStates
  <2> QED
    BY <2>4, <2>6, <2>8, <2>9, <2>10, <2>11 DEF TaskStates
<1>15. CASE Collector
  <2>1. UNCHANGED <<taskState, current, spawning>> /\ current = GCTask
    BY <1>15 DEF Collector, CollectorStart, CollectorTest, CollectorUnlink,
       CollectorFreeStack, CollectorFreeTask, CollectorReload, CollectorAt, ring
  <2>2. taskState[current] = "Running"
    BY <1>15, CurrentRuns DEF Collector, CollectorStart, CollectorTest,
       CollectorUnlink, CollectorFreeStack, CollectorFreeTask, CollectorReload,
       CollectorAt
  <2>3. CASE CollectorFreeTask
    <3>1. /\ allocated' = allocated \ {gcNext} /\ taskState[gcNext] = "Dead"
          /\ pc'[GCTask] = "gcReload"
      BY <2>3 DEF CollectorFreeTask, CollectorAt, TaskStates, TypeOK
    <3> QED
      BY <1>2, <2>1, <2>2, <3>1 DEF TaskStates
  <2>4. CASE ~CollectorFreeTask
    <3>1. UNCHANGED allocated
      BY <1>15, <2>4 DEF Collector, CollectorStart, CollectorTest, CollectorUnlink,
         CollectorFreeStack, CollectorReload
    <3>2. pc'[GCTask] \in Freeing => taskState[gcNext'] = "Dead"
      BY <1>15, <2>4 DEF Collector, CollectorStart, CollectorTest, CollectorUnlink,
         CollectorFreeStack, CollectorReload, CollectorAt, TypeOK, TaskStates, gc
    <3> QED
      BY <1>2, <2>1, <2>2, <3>1, <3>2 DEF TaskStates
  <2> QED
    BY <2>3, <2>4
<1> QED
  BY <1>4, <1>5, <1>6, <1>8, <1>9, <1>10, <1>11, <1>12, <1>13, <1>14, <1>15
     DEF Next, Continue, Request

(* One step of BlockedUntilExit, without the ring.                         *)
WakesOnlyAtExit(r) ==
    \A t \in Tasks :
        /\ taskState[t] = "Blocked" /\ taskState'[t] # "Blocked" =>
               \E s \in Tasks : /\ taskState[s] # "Dead" /\ taskState'[s] = "Dead"
                                /\ id[s] = waitingForProcess[t]
        /\ taskState[t] = "Dead" /\ taskState'[t] # "Dead" => t \notin LinkedBy(r)

(* The exit of a process is the one step that wakes a blocked task, and a  *)
(* spawn the one that revives a dead cell.                                 *)
LEMMA StepWakes ==
    ASSUME TypeOK, ServiceTasks, TaskStates, NEW r \in [Tasks -> Int], RankInv(r), Next
    PROVE  WakesOnlyAtExit(r)
<1> USE ConstantFacts
<1>1. current \in Tasks
  BY DEF TypeOK
<1>2. ASSUME \A t \in Tasks : taskState[t] \in {"Dead", "Blocked"} =>
                                  taskState'[t] = taskState[t]
      PROVE  WakesOnlyAtExit(r)
  BY <1>2 DEF WakesOnlyAtExit
<1>3. CASE OSSchedulerNext
  BY <1>2, <1>3, SwitchStates
<1>4. CASE YieldState \/ OSSchedulerBlock
  <2>1. taskState[current] = "Running"
    BY <1>4, CurrentRuns DEF YieldState, OSSchedulerBlock
  <2> QED
    BY <1>2, <1>4, <2>1 DEF YieldState, OSSchedulerBlock, TypeOK
<1>5. CASE OSSchedulerTerminate
  <2>1. taskState[current] = "Running"
    BY <1>5, CurrentRuns DEF OSSchedulerTerminate
  <2>2. taskState'[current] = "Dead"
    BY <1>1, <1>5 DEF OSSchedulerTerminate
  <2>3. \A t \in Woken(id[current]) : waitingForProcess[t] = id[current]
    BY DEF Woken
  <2>4. \A t \in Tasks : taskState[t] = "Blocked" /\ taskState'[t] # "Blocked" =>
                             t \in Woken(id[current])
    BY <1>5, <2>1 DEF OSSchedulerTerminate, TaskStates
  <2>5. \A t \in Tasks : taskState[t] = "Dead" => taskState'[t] = "Dead"
    BY <1>5 DEF OSSchedulerTerminate, Woken, ServiceTasks
  <2> QED
    BY <1>1, <2>1, <2>2, <2>3, <2>4, <2>5 DEF WakesOnlyAtExit
<1>6. CASE SpawnStack
  BY <1>2, <1>6 DEF SpawnStack, sOSSchedulerPostGarbageCollectorSignal, TypeOK,
     ServiceTasks, TaskStates
<1>7. CASE SpawnLink
  <2>1. /\ spawning[current] \in Tasks \ LinkedBy(r)
        /\ taskState[spawning[current]] = "Dead"
    BY <1>7, LinkedCell
  <2>2. \A t \in Tasks \ {spawning[current]} : taskState'[t] = taskState[t]
    BY <1>7 DEF SpawnLink, TypeOK
  <2> QED
    BY <2>1, <2>2 DEF WakesOnlyAtExit
<1>8. CASE Yield \/ SpawnYield \/ CollectorYield \/ SpawnBegin \/ SpawnRetry \/ Collector
  <2>1. UNCHANGED taskState
    BY <1>8 DEF Yield, SpawnYield, CollectorYield, YieldTicks, SpawnBegin, SpawnRetry,
       Collector, CollectorStart, CollectorTest, CollectorUnlink, CollectorFreeStack,
       CollectorFreeTask, CollectorReload, ring
  <2> QED
    BY <1>2, <2>1
<1> QED
  BY <1>3, <1>4, <1>5, <1>6, <1>7, <1>8
     DEF Next, Continue, Request, TimerInterrupt, SoftwareInterrupt

LEMMA StatesHold == Spec => [](IInv /\ TaskStates)
<1>1. OSSchedulerInitialize => TaskStates
  <2> SUFFICES ASSUME OSSchedulerInitialize PROVE TaskStates
    OBVIOUS
  <2>1. /\ allocated = Fixed /\ current = KernelTask
        /\ taskState = [t \in Tasks |-> IF t \in Fixed THEN "Running" ELSE "Dead"]
        /\ pc = [t \in Tasks |-> IF t = GCTask THEN "gcStart" ELSE "run"]
        /\ spawning = [t \in Tasks |-> None]
    BY DEF OSSchedulerInitialize
  <2> QED
    BY <2>1, ConstantFacts DEF TaskStates, Fixed
<1>2. IInv /\ TaskStates /\ [Next]_vars => TaskStates'
  <2> SUFFICES ASSUME IInv, TaskStates, [Next]_vars PROVE TaskStates'
    OBVIOUS
  <2>1. CASE Next
    BY <2>1, NextStates DEF IInv
  <2>2. CASE UNCHANGED vars
    BY <2>2 DEF TaskStates, vars, ring, gc
  <2> QED
    BY <2>1, <2>2
<1> QED
  BY <1>1, <1>2, IInvHolds, PTL DEF Spec

(* sys_wait returns no earlier than the exit it waits for: nothing but the *)
(* death of a task of that process wakes a blocked task, and no linked task*)
(* comes back from the dead.                                               *)
THEOREM WaitUntilExit == Spec => BlockedUntilExit
<1> DEFINE Wakes ==
        \A t \in Tasks :
            /\ taskState[t] = "Blocked" /\ taskState'[t] # "Blocked" =>
                   \E s \in Tasks : /\ taskState[s] # "Dead" /\ taskState'[s] = "Dead"
                                    /\ id[s] = waitingForProcess[t]
            /\ taskState[t] = "Dead" /\ taskState'[t] # "Dead" => t \notin Ring
<1>1. IInv /\ TaskStates /\ [Next]_vars => [Wakes]_vars
  <2> SUFFICES ASSUME IInv, TaskStates, Next PROVE Wakes
    OBVIOUS
  <2>1. PICK r \in [Tasks -> Int] : RankInv(r)
    BY DEF IInv
  <2>2. WakesOnlyAtExit(r)
    BY <2>1, StepWakes DEF IInv
  <2>3. Ring \subseteq LinkedBy(r)
    BY <2>1, WalkLinked DEF IInv, Ring, RankInv, LinkedAllocated
  <2> QED
    BY <2>2, <2>3 DEF WakesOnlyAtExit
<1> QED
  BY <1>1, StatesHold, PTL DEF Spec, BlockedUntilExit
=============================================================================
