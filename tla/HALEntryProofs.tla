--------------------------- MODULE HALEntryProofs ---------------------------
(***************************************************************************)
(* For every set of tasks and of faults: whatever interrupts it, and       *)
(* whoever runs in between, a program gets back what it left; its faults in*)
(* ring 3 stay its own, and those of a service with its pointer panic.     *)
(*                                                                         *)
(* The invariant is about states of the CPU (its registers, a record)      *)
(* rather than about words: a task that has been interrupted has on its    *)
(* stack the words of a state in which it fits, and the way out makes that *)
(* state the CPU's again.                                                  *)
(***************************************************************************)
EXTENDS HALEntry, TLAPS

-----------------------------------------------------------------------------
(* The invariant.  c is a state of the CPU, s the words on the kernel stack*)
(* of the task t, x the registers t should see.                            *)

IsCpu(c) ==
    /\ c = [regs |-> c.regs, rip |-> c.rip, cs |-> c.cs, flag |-> c.flag, rsp |-> c.rsp,
            ss |-> c.ss]
    /\ c.regs = [r \in Registers |-> c.regs[r]]

InKernel(c) == c.cs = KernelCS /\ c.ss = KernelSS

(* The registers of a program in a system call.                            *)
Calling(x) ==
    /\ x.rax \in DOMAIN OSServices /\ x.rcx = <<"program">> /\ x.r11 = TRUE
    /\ x = [r \in Registers |-> x[r]]

(* What syscall_entry pushed. *)
SyscallFrame(t, s, x) ==
    /\ Len(s) >= 15 /\ s[1] = Rsp(UserStack(t), 0)
    /\ \A i \in 1 .. 14 : s[1 + i] = x[SyscallPushed[i]]

ProgramFits(t, c, x) ==
    /\ t \in UserTasks
    /\ c.rip = <<"program">> /\ c.cs = UserCS /\ c.ss = UserSS /\ c.flag = TRUE
    /\ c.rsp = Rsp(UserStack(t), 0) /\ c.regs = x

KernelFits(t, c) ==
    /\ t = KernelTask
    /\ c.rip = <<"kernel">> /\ InKernel(c) /\ c.flag = TRUE
    /\ c.rsp = Rsp(KernelStack(t), 0)

(* A service that waits for a key runs with interrupts.                    *)
FlagFits(c, x) == c.flag \in BOOLEAN /\ (c.flag = TRUE => x.rax = "IORead")

ServiceFits(t, c, s, x) ==
    /\ t \in UserTasks /\ Calling(x)
    /\ c.rip = <<x.rax>> /\ InKernel(c) /\ FlagFits(c, x)
    /\ c.rsp = Rsp(KernelStack(t), 15) /\ SyscallFrame(t, s, x)

(* The CPU runs t where it can be interrupted, or t can be taken up again. *)
Fits(t, c, s, x) ==
    ProgramFits(t, c, x) \/ KernelFits(t, c) \/ ServiceFits(t, c, s, x)

(* How many words of its kernel stack are in use. *)
Depth(c) == IF FromUser(c.cs) THEN 0 ELSE c.rsp.depth

(* The words of a state on a stack, the topmost at d. *)
FrameIs(s, d, c) ==
    /\ s[d - 21] = c.ss /\ s[d - 20] = c.rsp /\ s[d - 19] = c.flag
    /\ s[d - 18] = c.cs /\ s[d - 17] = c.rip
    /\ \A i \in 1 .. 15 : s[d - 15 + i] = c.regs[PUSHALL[i]]

(* t was interrupted. *)
Saved(t, sp, s, x) ==
    \E c : /\ IsCpu(c) /\ Fits(t, c, s, x)
           /\ sp = Rsp(KernelStack(t), Depth(c) + 22)
           /\ Depth(c) + 22 <= Len(s) /\ FrameIs(s, Depth(c) + 22, c)

(* SYSCALL has been executed, GS not yet swapped.  The arguments are in    *)
(* their registers.                                                        *)
Arguments(t, x) == \A r \in Registers \ {"rax", "rcx", "r11"} : x[r] = <<t, r>>

AtEntry(t, c, x) ==
    /\ t \in UserTasks /\ Calling(x) /\ Arguments(t, x)
    /\ c.rip = <<"entry">> /\ InKernel(c) /\ c.flag = FALSE
    /\ c.rsp = Rsp(UserStack(t), 0)
    /\ c.regs = [x EXCEPT !.rax = <<"number", OSServices[x.rax]>>]

AtDispatch(t, c, s, x) ==
    /\ t \in UserTasks /\ Calling(x)
    /\ c.rip = <<"dispatch">> /\ InKernel(c) /\ c.flag = FALSE
    /\ c.rsp = Rsp(KernelStack(t), 15) /\ SyscallFrame(t, s, x)
    /\ c.regs.rdi = <<"number", OSServices[x.rax]>>
    /\ <<c.regs.rsi, c.regs.rdx, c.regs.rcx, c.regs.r8, c.regs.r9>> =
           << <<t, "rdi">>, <<t, "rsi">>, <<t, "rdx">>, <<t, "r10">>, <<t, "r8">> >>

(* Behind `pop rsp`. *)
Returning(t, c, x) ==
    /\ t \in UserTasks /\ Calling(x)
    /\ c.rip = <<"return", x.rax>> /\ InKernel(c) /\ FlagFits(c, x)
    /\ c.rsp = Rsp(UserStack(t), 0) /\ c.regs = x

(* The GS base of the kernel is where the code expects it.                 *)
GSFits(c, g) ==
    IF FromUser(c.cs) \/ c.rip = <<"entry">> THEN g.kernel = "cpu" ELSE g.base = "cpu"

IsStack(s) == \E S : s \in Seq(S)

Memory(m) == m = [s \in Stacks |-> m[s]] /\ \A s \in Stacks : IsStack(m[s])

MemoryInv ==
    /\ Memory(mem)
    /\ context = [t \in Tasks |-> context[t]]
    /\ \A t \in Tasks : context[t] = [r \in Registers |-> context[t][r]]
    /\ gs = [base |-> gs.base, kernel |-> gs.kernel]

SchedulerInv ==
    /\ alive \subseteq Tasks /\ KernelTask \in alive /\ current \in alive
    /\ rsp0 = current /\ kernelStackPointer = current
    /\ stackPointer = [t \in Tasks |-> stackPointer[t]]

CpuInv ==
    LET s == mem[KernelStack(current)]
        x == context[current]
    IN  /\ IsCpu(cpu) /\ GSFits(cpu, gs)
        /\ \/ Fits(current, cpu, s, x)
           \/ AtEntry(current, cpu, x)
           \/ AtDispatch(current, cpu, s, x)
           \/ Returning(current, cpu, x)

SavedInv ==
    \A t \in alive \ {current} : Saved(t, stackPointer[t], mem[KernelStack(t)], context[t])

EntryInv == MemoryInv /\ SchedulerInv /\ CpuInv /\ SavedInv /\ FaultContained

-----------------------------------------------------------------------------
(* Lists of registers.  What is popped last was pushed first.              *)

LEMMA AllRegisters ==
    /\ Len(PUSHALL) = 15
    /\ Len(POPALL) = 15
    /\ \A i \in 1 .. 15 : POPALL[i] = PUSHALL[16 - i]
    /\ \A i, j \in 1 .. 15 : POPALL[i] = POPALL[j] => i = j
<1>1. Len(PUSHALL) = 15
  BY DEF PUSHALL
<1>2. Len(POPALL) = 15
  BY DEF POPALL
<1>3. /\ PUSHALL[1] = "r15" /\ PUSHALL[2] = "r14" /\ PUSHALL[3] = "r13" /\ PUSHALL[4] = "r12"
      /\ PUSHALL[5] = "r11" /\ PUSHALL[6] = "r10" /\ PUSHALL[7] = "r9" /\ PUSHALL[8] = "r8"
      /\ PUSHALL[9] = "rbp" /\ PUSHALL[10] = "rdi" /\ PUSHALL[11] = "rsi" /\ PUSHALL[12] = "rdx"
      /\ PUSHALL[13] = "rcx" /\ PUSHALL[14] = "rbx" /\ PUSHALL[15] = "rax"
  BY DEF PUSHALL
<1>4. /\ POPALL[1] = "rax" /\ POPALL[2] = "rbx" /\ POPALL[3] = "rcx" /\ POPALL[4] = "rdx"
      /\ POPALL[5] = "rsi" /\ POPALL[6] = "rdi" /\ POPALL[7] = "rbp" /\ POPALL[8] = "r8"
      /\ POPALL[9] = "r9" /\ POPALL[10] = "r10" /\ POPALL[11] = "r11" /\ POPALL[12] = "r12"
      /\ POPALL[13] = "r13" /\ POPALL[14] = "r14" /\ POPALL[15] = "r15"
  BY DEF POPALL
<1>5. \A i \in 1 .. 15 : i \in {1, 2, 3, 4, 5, 6, 7, 8, 9, 10, 11, 12, 13, 14, 15}
  OBVIOUS
<1>6. \A i \in 1 .. 15 : POPALL[i] = PUSHALL[16 - i]
  BY <1>3, <1>4, <1>5
<1>7. \A i, j \in 1 .. 15 : POPALL[i] = POPALL[j] => i = j
  BY <1>4, <1>5
<1> QED
  BY <1>1, <1>2, <1>6, <1>7

LEMMA RegistersAre ==
    Registers = {"rax", "rbx", "rcx", "rdx", "rsi", "rdi", "rbp", "r8", "r9", "r10", "r11",
                 "r12", "r13", "r14", "r15"}
<1>1. DOMAIN PUSHALL = 1 .. 15
  BY AllRegisters
<1> QED
  BY <1>1 DEF Registers, ToSet, PUSHALL

LEMMA PoppedRegisters ==
    /\ \A i \in 1 .. 15 : POPALL[i] \in Registers
    /\ \A r \in Registers : \E i \in 1 .. 15 : r = POPALL[i]
<1>1. \A i \in 1 .. 15 : POPALL[i] \in Registers
  BY RegistersAre DEF POPALL
<1>2. \A r \in Registers : \E i \in 1 .. 15 : r = POPALL[i]
  BY RegistersAre DEF POPALL
<1> QED
  BY <1>1, <1>2

LEMMA SyscallRegisters ==
    /\ Len(SyscallPushed) = 14
    /\ Len(SyscallPopped) = 14
    /\ \A i \in 1 .. 14 : SyscallPopped[i] = SyscallPushed[15 - i]
    /\ \A i, j \in 1 .. 14 : SyscallPopped[i] = SyscallPopped[j] => i = j
<1>1. Len(SyscallPushed) = 14
  BY DEF SyscallPushed
<1>2. Len(SyscallPopped) = 14
  BY DEF SyscallPopped
<1>3. /\ SyscallPushed[1] = "r11" /\ SyscallPushed[2] = "rcx" /\ SyscallPushed[3] = "rbp"
      /\ SyscallPushed[4] = "rbx" /\ SyscallPushed[5] = "rdi" /\ SyscallPushed[6] = "rsi"
      /\ SyscallPushed[7] = "rdx" /\ SyscallPushed[8] = "r10" /\ SyscallPushed[9] = "r8"
      /\ SyscallPushed[10] = "r9" /\ SyscallPushed[11] = "r12" /\ SyscallPushed[12] = "r13"
      /\ SyscallPushed[13] = "r14" /\ SyscallPushed[14] = "r15"
  BY DEF SyscallPushed
<1>4. /\ SyscallPopped[1] = "r15" /\ SyscallPopped[2] = "r14" /\ SyscallPopped[3] = "r13"
      /\ SyscallPopped[4] = "r12" /\ SyscallPopped[5] = "r9" /\ SyscallPopped[6] = "r8"
      /\ SyscallPopped[7] = "r10" /\ SyscallPopped[8] = "rdx" /\ SyscallPopped[9] = "rsi"
      /\ SyscallPopped[10] = "rdi" /\ SyscallPopped[11] = "rbx" /\ SyscallPopped[12] = "rbp"
      /\ SyscallPopped[13] = "rcx" /\ SyscallPopped[14] = "r11"
  BY DEF SyscallPopped
<1>5. \A i \in 1 .. 14 : i \in {1, 2, 3, 4, 5, 6, 7, 8, 9, 10, 11, 12, 13, 14}
  OBVIOUS
<1>6. \A i \in 1 .. 14 : SyscallPopped[i] = SyscallPushed[15 - i]
  BY <1>3, <1>4, <1>5
<1>7. \A i, j \in 1 .. 14 : SyscallPopped[i] = SyscallPopped[j] => i = j
  BY <1>4, <1>5
<1> QED
  BY <1>1, <1>2, <1>6, <1>7

(* A system call keeps every register but rax. *)
LEMMA SyscallKeeps ==
    /\ \A i \in 1 .. 14 : SyscallPopped[i] \in Registers \ {"rax"}
    /\ \A r \in Registers \ {"rax"} : \E i \in 1 .. 14 : r = SyscallPopped[i]
<1>1. \A i \in 1 .. 14 : SyscallPopped[i] \in Registers \ {"rax"}
  BY RegistersAre DEF SyscallPopped
<1>2. \A r \in Registers \ {"rax"} : \E i \in 1 .. 14 : r = SyscallPopped[i]
  BY RegistersAre DEF SyscallPopped
<1> QED
  BY <1>1, <1>2

IsList(list) ==
    /\ Len(list) \in Nat
    /\ \A i, j \in 1 .. Len(list) : list[i] = list[j] => i = j
    /\ \A i \in 1 .. Len(list) : list[i] \in Registers

Pops(new, regs, m, rsp, list) ==
    /\ new = [r \in Registers |-> new[r]]
    /\ \A i \in 1 .. Len(list) : new[list[i]] = Word(m, rsp, i)
    /\ \A r \in Registers : ~Contains(list, r) => new[r] = regs[r]

(* A pop takes each register from its place on the stack.                  *)
LEMMA PopsEach ==
    ASSUME NEW regs, NEW m, NEW rsp, NEW list, IsList(list)
    PROVE  Pops(PopInto(regs, m, rsp, list), regs, m, rsp, list)
<1> DEFINE P == PopInto(regs, m, rsp, list)
<1>1. P = [r \in Registers |-> P[r]]
  BY Zenon DEF PopInto
<1>2. ASSUME NEW i \in 1 .. Len(list)
      PROVE  P[list[i]] = Word(m, rsp, i)
  <2> USE DEF IsList
  <2>1. {j \in 1 .. Len(list) : list[j] = list[i]} = {i}
    OBVIOUS
  <2>2. Min({i}) = i
    BY DEF Min
  <2>4. list[i] \in Registers
    OBVIOUS
  <2>5. \E j \in 1 .. Len(list) : list[j] = list[i]
    OBVIOUS
  <2> QED
    BY <2>1, <2>2, <2>4, <2>5, Zenon DEF PopInto, Contains, SelectInSeq
<1>3. \A r \in Registers : ~Contains(list, r) => P[r] = regs[r]
  BY Zenon DEF PopInto
<1> HIDE DEF P
<1>4. Pops(P, regs, m, rsp, list)
  BY <1>1, <1>2, <1>3, Zenon DEF Pops
<1> QED
  BY <1>4 DEF P

-----------------------------------------------------------------------------
(* Stacks.                                                                 *)

LEMMA StackLength ==
    ASSUME NEW a, IsStack(a)
    PROVE  Len(a) \in Nat
<1>1. PICK S : a \in Seq(S)
  BY DEF IsStack
<1> QED
  BY <1>1

LEMMA BiggerWords ==
    ASSUME NEW S, NEW T, NEW a \in Seq(S), S \subseteq T
    PROVE  a \in Seq(T)
<1>1. Len(a) \in Nat /\ a \in [1 .. Len(a) -> S]
  OBVIOUS
<1>2. a \in [1 .. Len(a) -> T]
  BY <1>1
<1> QED
  BY <1>1, <1>2

(* s is a with b behind it. *)
Joins(s, a, b) ==
    /\ IsStack(s) /\ Len(s) = Len(a) + Len(b)
    /\ \A i \in 1 .. Len(a) : s[i] = a[i]
    /\ \A i \in 1 .. Len(b) : s[Len(a) + i] = b[i]

LEMMA StacksAppend ==
    ASSUME NEW a, NEW b, IsStack(a), IsStack(b)
    PROVE  Joins(a \o b, a, b)
<1>1. PICK S : a \in Seq(S)
  BY DEF IsStack
<1>2. PICK T : b \in Seq(T)
  BY DEF IsStack
<1> DEFINE U == S \cup T
<1>3. a \in Seq(U) /\ b \in Seq(U)
  BY <1>1, <1>2, BiggerWords
<1> HIDE DEF U
<1>4. a \o b \in Seq(U) /\ Len(a \o b) = Len(a) + Len(b)
  BY <1>3
<1>5. \A i \in 1 .. Len(a) : (a \o b)[i] = a[i]
  BY <1>3
<1>6. \A i \in 1 .. Len(b) : (a \o b)[Len(a) + i] = b[i]
  BY <1>3
<1> QED
  BY <1>4, <1>5, <1>6 DEF IsStack, Joins

LEMMA StackPrefix ==
    ASSUME NEW a, IsStack(a), NEW n \in Nat, n <= Len(a)
    PROVE  /\ IsStack(SubSeq(a, 1, n)) /\ Len(SubSeq(a, 1, n)) = n
           /\ \A i \in 1 .. n : SubSeq(a, 1, n)[i] = a[i]
<1>1. PICK S : a \in Seq(S)
  BY DEF IsStack
<1>2. SubSeq(a, 1, n) \in Seq(S) /\ Len(SubSeq(a, 1, n)) = n
  BY <1>1
<1>3. \A i \in 1 .. n : SubSeq(a, 1, n)[i] = a[i]
  BY <1>1
<1> QED
  BY <1>2, <1>3 DEF IsStack

(* s is what a held up to d, and w above. *)
Above(s, a, d, w) ==
    /\ IsStack(s) /\ Len(s) = d + Len(w)
    /\ \A i \in 1 .. d : s[i] = a[i]
    /\ \A i \in 1 .. Len(w) : s[d + i] = w[i]

(* What a push leaves on the stack, and what is then above the pointer.    *)
LEMMA Pushes ==
    ASSUME NEW m, NEW rsp, NEW words, rsp.stack \in DOMAIN m,
           IsStack(m[rsp.stack]), IsStack(words),
           rsp.depth \in Nat, rsp.depth <= Len(m[rsp.stack])
    PROVE  /\ Above(Push(m, rsp, words)[rsp.stack], m[rsp.stack], rsp.depth, words)
           /\ Push(m, rsp, words) = [m EXCEPT ![rsp.stack] = Push(m, rsp, words)[rsp.stack]]
<1> DEFINE a == SubSeq(m[rsp.stack], 1, rsp.depth)
           s == Push(m, rsp, words)[rsp.stack]
<1>1. IsStack(a) /\ Len(a) = rsp.depth /\ \A i \in 1 .. rsp.depth : a[i] = m[rsp.stack][i]
  BY StackPrefix
<1>2. s = a \o words
  BY DEF Push
<1>3. Push(m, rsp, words) = [m EXCEPT ![rsp.stack] = a \o words]
  BY DEF Push
<1> HIDE DEF a, s
<1>4. Joins(a \o words, a, words)
  BY <1>1, StacksAppend, Zenon
<1>5. /\ IsStack(s) /\ Len(s) = rsp.depth + Len(words)
      /\ \A i \in 1 .. rsp.depth : s[i] = m[rsp.stack][i]
      /\ \A i \in 1 .. Len(words) : s[rsp.depth + i] = words[i]
      /\ Push(m, rsp, words) = [m EXCEPT ![rsp.stack] = s]
  BY <1>1, <1>2, <1>3, <1>4 DEF Joins
<1> QED
  BY <1>5, Zenon DEF s, Above

LEMMA PushChanges ==
    ASSUME NEW m, NEW rsp, NEW words, rsp.stack \in DOMAIN m
    PROVE  Push(m, rsp, words) = [m EXCEPT ![rsp.stack] = Push(m, rsp, words)[rsp.stack]]
  BY DEF Push

-----------------------------------------------------------------------------
(* Frames.                                                                 *)

(* The words Enter pushes of a state of the CPU. *)
EntryWords(c, n) ==
    <<c.ss, c.rsp, c.flag, c.cs, c.rip>> \o (IF n \in PushesCode THEN <<"code">> ELSE << >>)
        \o (IF n \in ISR_ERRCODE THEN <<n>> ELSE <<0, n>>)
        \o [i \in 1 .. 15 |-> c.regs[PUSHALL[i]]]

LEMMA Fifteen ==
    ASSUME NEW f
    PROVE  LET w == [i \in 1 .. 15 |-> f[PUSHALL[i]]] IN
           IsStack(w) /\ Len(w) = 15 /\ \A i \in 1 .. 15 : w[i] = f[PUSHALL[i]]
<1> DEFINE w == [i \in 1 .. 15 |-> f[PUSHALL[i]]]
           S == {f[PUSHALL[i]] : i \in 1 .. 15}
<1>1. w \in [1 .. 15 -> S]
  OBVIOUS
<1>2. w \in Seq(S) /\ Len(w) = 15
  BY <1>1
<1> QED
  BY <1>2 DEF IsStack

(* Every exception and interrupt leaves the same frame.                    *)
LEMMA EntryFrame ==
    ASSUME NEW c, NEW n
    PROVE  LET w == EntryWords(c, n) IN
           /\ IsStack(w) /\ Len(w) = 22
           /\ w[1] = c.ss /\ w[2] = c.rsp /\ w[3] = c.flag /\ w[4] = c.cs /\ w[5] = c.rip
           /\ w[7] = n
           /\ \A i \in 1 .. 15 : w[7 + i] = c.regs[PUSHALL[i]]
<1> DEFINE five == <<c.ss, c.rsp, c.flag, c.cs, c.rip>>
           code == IF n \in PushesCode THEN <<"code">> ELSE << >>
           number == IF n \in ISR_ERRCODE THEN <<n>> ELSE <<0, n>>
           regs == [i \in 1 .. 15 |-> c.regs[PUSHALL[i]]]
           seven == five \o code \o number
<1>1. IsStack(five) /\ Len(five) = 5
  <2>1. five \in Seq({c.ss, c.rsp, c.flag, c.cs, c.rip})
    OBVIOUS
  <2> QED
    BY <2>1 DEF IsStack
<1>2. IsStack(code) /\ IsStack(number) /\ IsStack(<<0, n>>)
  <2>1. <<"code">> \in Seq({"code"}) /\ << >> \in Seq({"code"})
    OBVIOUS
  <2>2. <<n>> \in Seq({0, n}) /\ <<0, n>> \in Seq({0, n})
    OBVIOUS
  <2> QED
    BY <2>1, <2>2 DEF IsStack
<1>3. PushesCode = ISR_ERRCODE
  BY DEF PushesCode, ISR_ERRCODE
<1>4. /\ Len(code) \in 0 .. 1 /\ Len(code) + Len(number) = 2
      /\ number[Len(number)] = n
  BY <1>3
<1> HIDE DEF five, code, number, regs
<1>5. Joins(five \o code, five, code)
  BY <1>1, <1>2, StacksAppend, Zenon
<1>6. IsStack(number)
  BY <1>2, Zenon DEF number
<1>66. IsStack(five \o code)
  BY <1>5, Zenon DEF Joins
<1>7. Joins(seven, five \o code, number)
  BY <1>66, <1>6, StacksAppend, Zenon
<1>8. IsStack(regs) /\ Len(regs) = 15 /\ \A i \in 1 .. 15 : regs[i] = c.regs[PUSHALL[i]]
  BY Fifteen DEF regs
<1> HIDE DEF seven
<1>85. IsStack(seven)
  BY <1>7, Zenon DEF Joins
<1>9. Joins(seven \o regs, seven, regs)
  BY <1>85, <1>8, StacksAppend, Zenon
<1>10. Len(number) \in Nat /\ Len(five \o code) = 5 + Len(code) /\ Len(seven) = 7
       /\ seven[7] = n /\ \A i \in 1 .. 5 : seven[i] = five[i]
  BY <1>1, <1>4, <1>5, <1>6, <1>7, StackLength DEF Joins
<1>11. EntryWords(c, n) = seven \o regs
  BY DEF EntryWords, seven, five, code, number, regs
<1>12. five[1] = c.ss /\ five[2] = c.rsp /\ five[3] = c.flag /\ five[4] = c.cs /\ five[5] = c.rip
  BY DEF five
<1> DEFINE w == seven \o regs
<1> HIDE DEF w
<1>13. /\ IsStack(w) /\ Len(w) = 7 + 15 /\ \A i \in 1 .. 7 : w[i] = seven[i]
       /\ \A i \in 1 .. 15 : w[7 + i] = regs[i]
  BY <1>8, <1>9, <1>10 DEF Joins, w
<1>14. IsStack(w) /\ Len(w) = 22
  BY <1>13
<1>15. w[1] = c.ss /\ w[2] = c.rsp /\ w[3] = c.flag /\ w[4] = c.cs /\ w[5] = c.rip
  <2>1. ASSUME NEW i \in 1 .. 5
        PROVE  w[i] = five[i]
    <3>1. i \in 1 .. 7
      OBVIOUS
    <3> QED
      BY <1>10, <1>13, <3>1, Zenon
  <2> QED
    BY <1>12, <2>1
<1>16. w[7] = n
  BY <1>10, <1>13
<1>17. \A i \in 1 .. 15 : w[7 + i] = c.regs[PUSHALL[i]]
  BY <1>8, <1>13, Zenon
<1> QED
  BY <1>11, <1>14, <1>15, <1>16, <1>17, Zenon DEF w

LEMMA Selectors ==
    /\ FromUser(UserCS) /\ ~FromUser(KernelCS)
    /\ UserCS # KernelCS
  BY DEF FromUser, UserCS, KernelCS, Selector

LEMMA FieldPlaces ==
    ASSUME NEW m, NEW rsp
    PROVE  /\ Field(m, rsp, "interruptNumber") = Word(m, rsp, 16)
           /\ Field(m, rsp, "cs") = Word(m, rsp, 19)
<1>1. Len(CPURegisters) = 22
  BY DEF CPURegisters
<1>2. /\ CPURegisters[1] = "rax" /\ CPURegisters[2] = "rbx" /\ CPURegisters[3] = "rcx"
      /\ CPURegisters[4] = "rdx" /\ CPURegisters[5] = "rbp" /\ CPURegisters[6] = "rsi"
      /\ CPURegisters[7] = "rdi" /\ CPURegisters[8] = "r8" /\ CPURegisters[9] = "r9"
      /\ CPURegisters[10] = "r10" /\ CPURegisters[11] = "r11" /\ CPURegisters[12] = "r12"
      /\ CPURegisters[13] = "r13" /\ CPURegisters[14] = "r14" /\ CPURegisters[15] = "r15"
      /\ CPURegisters[16] = "interruptNumber" /\ CPURegisters[17] = "errorCode"
      /\ CPURegisters[18] = "rip" /\ CPURegisters[19] = "cs" /\ CPURegisters[20] = "rflags"
      /\ CPURegisters[21] = "rsp" /\ CPURegisters[22] = "ss"
  BY DEF CPURegisters
<1>3. \A i \in 1 .. 22 : i \in {1, 2, 3, 4, 5, 6, 7, 8, 9, 10, 11, 12, 13, 14, 15, 16, 17, 18,
                                19, 20, 21, 22}
  OBVIOUS
<1>4. {i \in 1 .. Len(CPURegisters) : CPURegisters[i] = "cs"} = {19}
  BY <1>1, <1>2, <1>3
<1>5. {i \in 1 .. Len(CPURegisters) : CPURegisters[i] = "interruptNumber"} = {16}
  BY <1>1, <1>2, <1>3
<1>6. Min({19}) = 19 /\ Min({16}) = 16 /\ {19} # {} /\ {16} # {}
  BY DEF Min
<1>7. Field(m, rsp, "cs") = Word(m, rsp, 19)
  BY <1>4, <1>6, Zenon DEF Field, SelectInSeq
<1>8. Field(m, rsp, "interruptNumber") = Word(m, rsp, 16)
  BY <1>5, <1>6, Zenon DEF Field, SelectInSeq
<1> QED
  BY <1>7, <1>8

(* A frame holds the state it was made of. *)
LEMMA FrameWords ==
    ASSUME NEW m, NEW rsp, rsp.depth \in Nat, NEW c, FrameIs(m[rsp.stack], rsp.depth, c)
    PROVE  /\ Word(m, rsp, 18) = c.rip /\ Word(m, rsp, 19) = c.cs /\ Word(m, rsp, 20) = c.flag
           /\ Word(m, rsp, 21) = c.rsp /\ Word(m, rsp, 22) = c.ss
           /\ \A i \in 1 .. 15 : Word(m, rsp, i) = c.regs[POPALL[i]]
           /\ CameFromUser(m, rsp) <=> FromUser(c.cs)
<1> DEFINE s == m[rsp.stack]
           d == rsp.depth
<1>1. d \in Nat /\ s[d - 21] = c.ss /\ s[d - 20] = c.rsp /\ s[d - 19] = c.flag
      /\ s[d - 18] = c.cs /\ s[d - 17] = c.rip
  BY DEF FrameIs
<1>2. \A i \in 1 .. 15 : s[d - 15 + i] = c.regs[PUSHALL[i]]
  BY DEF FrameIs
<1>3. \A i \in Int : Word(m, rsp, i) = s[d - i + 1]
  BY DEF Word
<1> HIDE DEF s, d
<1>4. d - 18 + 1 = d - 17 /\ d - 19 + 1 = d - 18 /\ d - 20 + 1 = d - 19
      /\ d - 21 + 1 = d - 20 /\ d - 22 + 1 = d - 21
  BY <1>1
<1>5. /\ Word(m, rsp, 18) = c.rip /\ Word(m, rsp, 19) = c.cs /\ Word(m, rsp, 20) = c.flag
      /\ Word(m, rsp, 21) = c.rsp /\ Word(m, rsp, 22) = c.ss
  BY <1>1, <1>3, <1>4
<1>6. ASSUME NEW i \in 1 .. 15
      PROVE  Word(m, rsp, i) = c.regs[POPALL[i]]
  <2>1. 16 - i \in 1 .. 15 /\ i \in Int /\ d - 15 + (16 - i) = d - i + 1
    BY <1>1
  <2>2. POPALL[i] = PUSHALL[16 - i]
    BY AllRegisters
  <2>3. s[d - 15 + (16 - i)] = c.regs[PUSHALL[16 - i]]
    BY <1>2, <2>1, Zenon
  <2>4. Word(m, rsp, i) = s[d - i + 1]
    BY <1>3, <2>1, Zenon
  <2> QED
    BY <2>1, <2>2, <2>3, <2>4, Zenon
<1>7. CameFromUser(m, rsp) <=> FromUser(c.cs)
  BY <1>5, FieldPlaces, Zenon DEF CameFromUser
<1> QED
  BY <1>5, <1>6, <1>7, Zenon

(* A pushed frame is that of the state, above what was there.              *)
LEMMA PushedFrame ==
    ASSUME NEW m, NEW rsp, rsp.stack \in DOMAIN m, IsStack(m[rsp.stack]),
           rsp.depth \in Nat, rsp.depth <= Len(m[rsp.stack]), rsp = Rsp(rsp.stack, rsp.depth),
           NEW c, NEW n
    PROVE  LET w == EntryWords(c, n)
               s == Push(m, rsp, w)[rsp.stack]
           IN  /\ IsStack(s) /\ Len(s) = rsp.depth + 22
               /\ \A i \in 1 .. rsp.depth : s[i] = m[rsp.stack][i]
               /\ FrameIs(s, rsp.depth + 22, c)
               /\ Pushed(rsp, w) = Rsp(rsp.stack, rsp.depth + 22)
               /\ Word(Push(m, rsp, w), Pushed(rsp, w), 16) = n
               /\ Push(m, rsp, w) = [m EXCEPT ![rsp.stack] = s]
<1> DEFINE w == EntryWords(c, n)
           s == Push(m, rsp, w)[rsp.stack]
           d == rsp.depth
<1>1. /\ IsStack(w) /\ Len(w) = 22
      /\ w[1] = c.ss /\ w[2] = c.rsp /\ w[3] = c.flag /\ w[4] = c.cs /\ w[5] = c.rip
      /\ w[7] = n
      /\ \A i \in 1 .. 15 : w[7 + i] = c.regs[PUSHALL[i]]
  BY EntryFrame
<1> HIDE DEF w
<1>2. /\ Above(s, m[rsp.stack], d, w)
      /\ Push(m, rsp, w) = [m EXCEPT ![rsp.stack] = s]
  <2>1. IsStack(w)
    BY <1>1
  <2>2. Above(s, m[rsp.stack], d, w)
    BY <2>1, Pushes
  <2>3. Push(m, rsp, w) = [m EXCEPT ![rsp.stack] = s]
    BY <2>1, Pushes
  <2> QED
    BY <2>2, <2>3
<1>3. Pushed(rsp, w) = Rsp(rsp.stack, d + 22)
  BY <1>1 DEF Pushed
<1>4. Pushed(rsp, w).stack = rsp.stack /\ Pushed(rsp, w).depth = d + 22
  BY <1>3 DEF Rsp
<1>5. Word(Push(m, rsp, w), Pushed(rsp, w), 16) = s[d + 7]
  BY <1>4 DEF Word
<1> HIDE DEF s, d
<1>6. d \in Nat /\ \A i \in 1 .. 22 : s[d + i] = w[i]
  BY <1>1, <1>2 DEF Above, d
<1>7. s[d + 7] = n
  BY <1>1, <1>6
<1>8. s[d + 1] = c.ss /\ s[d + 2] = c.rsp /\ s[d + 3] = c.flag /\ s[d + 4] = c.cs
      /\ s[d + 5] = c.rip
  <2>1. 1 \in 1 .. 22 /\ 2 \in 1 .. 22 /\ 3 \in 1 .. 22 /\ 4 \in 1 .. 22 /\ 5 \in 1 .. 22
    OBVIOUS
  <2> QED
    BY <1>1, <1>6, <2>1, Zenon
<1>9. ASSUME NEW i \in 1 .. 15
      PROVE  s[(d + 22) - 15 + i] = c.regs[PUSHALL[i]]
  <2>1. 7 + i \in 1 .. 22 /\ (d + 22) - 15 + i = d + (7 + i)
    BY <1>6
  <2> QED
    BY <1>1, <1>6, <2>1, Zenon
<1>10. (d + 22) - 21 = d + 1 /\ (d + 22) - 20 = d + 2 /\ (d + 22) - 19 = d + 3
       /\ (d + 22) - 18 = d + 4 /\ (d + 22) - 17 = d + 5
  BY <1>6
<1>11. FrameIs(s, d + 22, c)
  BY <1>8, <1>9, <1>10, Zenon DEF FrameIs
<1>12. IsStack(s) /\ Len(s) = d + 22 /\ \A i \in 1 .. d : s[i] = m[rsp.stack][i]
  BY <1>1, <1>2, Zenon DEF Above
<1> QED
  BY <1>2, <1>3, <1>5, <1>7, <1>11, <1>12, Zenon DEF w, s, d

-----------------------------------------------------------------------------
(* The way in and the way out.                                             *)

LEMMA StacksApart ==
    /\ \A t, u : t # u => KernelStack(t) # KernelStack(u)
    /\ \A t, u : KernelStack(t) # UserStack(u)
    /\ \A t : KernelStack(t) # gHALDoubleFaultStack /\ UserStack(t) # gHALDoubleFaultStack
    /\ \A t \in Tasks : KernelStack(t) \in Stacks
    /\ \A t \in UserTasks : UserStack(t) \in Stacks
    /\ gHALDoubleFaultStack \in Stacks
  BY DEF KernelStack, UserStack, gHALDoubleFaultStack, Stacks

LEMMA ServiceNames ==
    /\ DOMAIN OSServices = {"ProcessExit", "ProcessSpawn", "MemoryAllocate", "IOWrite", "IORead",
                            "ProcessWait"}
    /\ \A name \in {"program", "kernel", "entry", "dispatch", "return"} :
           name \notin DOMAIN OSServices
    /\ \A service \in DOMAIN OSServices : syscall_dispatch[OSServices[service] + 1] = service
<1>1. DOMAIN OSServices = {"ProcessExit", "ProcessSpawn", "MemoryAllocate", "IOWrite", "IORead",
                           "ProcessWait"}
  BY DEF OSServices
<1>2. \A name \in {"program", "kernel", "entry", "dispatch", "return"} :
          name \notin DOMAIN OSServices
  BY <1>1
<1>3. /\ OSServices["ProcessExit"] = 0 /\ OSServices["ProcessSpawn"] = 1
      /\ OSServices["MemoryAllocate"] = 2 /\ OSServices["IOWrite"] = 3
      /\ OSServices["IORead"] = 4 /\ OSServices["ProcessWait"] = 5
  BY DEF OSServices
<1>4. /\ syscall_dispatch[1] = "ProcessExit" /\ syscall_dispatch[2] = "ProcessSpawn"
      /\ syscall_dispatch[3] = "MemoryAllocate" /\ syscall_dispatch[4] = "IOWrite"
      /\ syscall_dispatch[5] = "IORead" /\ syscall_dispatch[6] = "ProcessWait"
  BY DEF syscall_dispatch
<1>5. \A service \in DOMAIN OSServices : syscall_dispatch[OSServices[service] + 1] = service
  BY <1>1, <1>3, <1>4
<1> QED
  BY <1>1, <1>2, <1>5

LEMMA ServiceIs ==
    /\ cpu.rip[1] \in DOMAIN OSServices => Service = cpu.rip[1]
    /\ Service \in DOMAIN OSServices => Service = cpu.rip[1]
    /\ Service \in Switching => Service \in DOMAIN OSServices
<1>1. "" \notin DOMAIN OSServices
  BY ServiceNames, Zenon
<1>2. cpu.rip[1] \in DOMAIN OSServices => Service = cpu.rip[1]
  BY Zenon DEF Service
<1>3. Service \in DOMAIN OSServices => Service = cpu.rip[1]
  BY <1>1, Zenon DEF Service
<1>4. Service \in Switching => Service \in DOMAIN OSServices
  BY ServiceNames, Zenon DEF Switching
<1> QED
  BY <1>2, <1>3, <1>4, Zenon

LEMMA ServiceThere == Service \notin {"", "ProcessExit"} => Service \in DOMAIN OSServices
  BY Zenon DEF Service

LEMMA RspParts ==
    ASSUME NEW stack, NEW depth
    PROVE  /\ Rsp(stack, depth).stack = stack /\ Rsp(stack, depth).depth = depth
           /\ Rsp(stack, depth) = Rsp(Rsp(stack, depth).stack, Rsp(stack, depth).depth)
  BY DEF Rsp

(* The frame of the CPU is on the stack st of e, above d words.            *)
EntersOn(e, n, st, d) ==
    /\ e.mem = [mem EXCEPT ![st] = e.mem[st]] /\ e.rsp = Rsp(st, d + 22)
    /\ IsStack(e.mem[st]) /\ Len(e.mem[st]) = d + 22
    /\ \A i \in 1 .. d : e.mem[st][i] = mem[st][i]
    /\ FrameIs(e.mem[st], d + 22, cpu)
    /\ Field(e.mem, e.rsp, "interruptNumber") = n
    /\ Field(e.mem, e.rsp, "cs") = cpu.cs
    /\ e.gs = IF FromUser(cpu.cs) THEN SwapGS(gs) ELSE gs

(* What Enter does, on a stack with room for d words below.                *)
LEMMA Entered ==
    ASSUME NEW n, NEW st \in Stacks, NEW d \in Nat, EntryStack(n) = Rsp(st, d),
           MemoryInv, d <= Len(mem[st])
    PROVE  EntersOn(Enter(n), n, st, d)
<1> DEFINE e == Enter(n)
           rsp == Rsp(st, d)
           w == EntryWords(cpu, n)
           s == Push(mem, rsp, w)[st]
<1>1. /\ e.mem = Push(mem, rsp, w) /\ e.rsp = Pushed(rsp, w)
      /\ e.gs = IF CameFromUser(Push(mem, rsp, w), Pushed(rsp, w)) THEN SwapGS(gs) ELSE gs
  BY Zenon DEF Enter, EntryWords
<1>2. rsp.stack = st /\ rsp.depth = d /\ rsp = Rsp(rsp.stack, rsp.depth)
  BY RspParts
<1>3. st \in DOMAIN mem /\ IsStack(mem[st])
  BY DEF MemoryInv, Memory
<1> HIDE DEF rsp
<1>4. /\ IsStack(s) /\ Len(s) = d + 22
      /\ \A i \in 1 .. d : s[i] = mem[st][i]
      /\ FrameIs(s, d + 22, cpu)
      /\ Pushed(rsp, w) = Rsp(st, d + 22)
      /\ Word(Push(mem, rsp, w), Pushed(rsp, w), 16) = n
      /\ Push(mem, rsp, w) = [mem EXCEPT ![st] = s]
  BY <1>2, <1>3, PushedFrame
<1>5. Field(e.mem, e.rsp, "interruptNumber") = n
  BY <1>1, <1>4, FieldPlaces, Zenon
<1>6. e.rsp.stack = st /\ e.rsp.depth = d + 22 /\ e.rsp.depth \in Nat
  BY <1>1, <1>4, RspParts
<1>7. FrameIs(e.mem[e.rsp.stack], e.rsp.depth, cpu)
  BY <1>1, <1>4, <1>6, Zenon
<1>8. /\ Word(e.mem, e.rsp, 19) = cpu.cs
      /\ CameFromUser(e.mem, e.rsp) <=> FromUser(cpu.cs)
  <2>1. \A m, sp, c : sp.depth \in Nat /\ FrameIs(m[sp.stack], sp.depth, c) =>
            Word(m, sp, 19) = c.cs /\ (CameFromUser(m, sp) <=> FromUser(c.cs))
    BY FrameWords
  <2> QED
    BY <1>6, <1>7, <2>1
<1>9. Field(e.mem, e.rsp, "cs") = cpu.cs
  BY <1>8, FieldPlaces, Zenon
<1>10. e.gs = IF FromUser(cpu.cs) THEN SwapGS(gs) ELSE gs
  BY <1>1, <1>8
<1>11. e.mem[st] = s
  BY <1>1
<1> HIDE DEF e, s
<1>12. EntersOn(e, n, st, d)
  BY <1>1, <1>4, <1>5, <1>9, <1>10, <1>11, Zenon DEF EntersOn
<1> QED
  BY <1>12 DEF e

(* The way out makes the state on the stack the state of the CPU.          *)
LEMMA Left ==
    ASSUME NEW e, NEW rsp, Leave(e, rsp), rsp.depth \in Nat,
           NEW c, IsCpu(c), FrameIs(e.mem[rsp.stack], rsp.depth, c)
    PROVE  /\ cpu' = c
           /\ gs' = IF FromUser(c.cs) THEN SwapGS(e.gs) ELSE e.gs
           /\ mem' = [e.mem EXCEPT ![rsp.stack] = SubSeq(@, 1, rsp.depth - 22)]
<1> DEFINE P == PopInto(cpu.regs, e.mem, rsp, POPALL)
<1>1. /\ cpu' = [regs |-> P, rip |-> Word(e.mem, rsp, 18), cs |-> Word(e.mem, rsp, 19),
                 flag |-> Word(e.mem, rsp, 20), rsp |-> Word(e.mem, rsp, 21),
                 ss |-> Word(e.mem, rsp, 22)]
      /\ gs' = IF CameFromUser(e.mem, rsp) THEN SwapGS(e.gs) ELSE e.gs
      /\ mem' = [e.mem EXCEPT ![rsp.stack] = SubSeq(@, 1, rsp.depth - 22)]
  BY Zenon DEF Leave
<1>2. /\ Word(e.mem, rsp, 18) = c.rip /\ Word(e.mem, rsp, 19) = c.cs
      /\ Word(e.mem, rsp, 20) = c.flag
      /\ Word(e.mem, rsp, 21) = c.rsp /\ Word(e.mem, rsp, 22) = c.ss
      /\ \A i \in 1 .. 15 : Word(e.mem, rsp, i) = c.regs[POPALL[i]]
      /\ CameFromUser(e.mem, rsp) <=> FromUser(c.cs)
  BY FrameWords
<1>3. /\ P = [r \in Registers |-> P[r]]
      /\ \A i \in 1 .. 15 : P[POPALL[i]] = Word(e.mem, rsp, i)
  <2>1. Len(POPALL) = 15 /\ IsList(POPALL)
    BY AllRegisters, PoppedRegisters DEF IsList
  <2>2. Pops(P, cpu.regs, e.mem, rsp, POPALL)
    BY <2>1, PopsEach, Zenon
  <2> QED
    BY <2>1, <2>2, Zenon DEF Pops
<1> HIDE DEF P
<1>4. ASSUME NEW r \in Registers
      PROVE  P[r] = c.regs[r]
  <2>1. PICK i \in 1 .. 15 : r = POPALL[i]
    BY PoppedRegisters
  <2>2. P[POPALL[i]] = Word(e.mem, rsp, i) /\ Word(e.mem, rsp, i) = c.regs[POPALL[i]]
    BY <1>2, <1>3, <2>1
  <2> QED
    BY <2>1, <2>2
<1>5. P = c.regs
  <2>1. c.regs = [r \in Registers |-> c.regs[r]]
    BY DEF IsCpu
  <2>2. [r \in Registers |-> P[r]] = [r \in Registers |-> c.regs[r]]
    BY <1>4
  <2> QED
    BY <1>3, <2>1, <2>2, Zenon
<1>6. c = [regs |-> c.regs, rip |-> c.rip, cs |-> c.cs, flag |-> c.flag, rsp |-> c.rsp,
           ss |-> c.ss]
  BY DEF IsCpu
<1>7. cpu' = c
  BY <1>1, <1>2, <1>5, <1>6, Zenon
<1> QED
  BY <1>1, <1>2, <1>7

-----------------------------------------------------------------------------
(* States in which a task can be interrupted.                              *)

LEMMA DepthOfFits ==
    ASSUME NEW t, NEW c, NEW s, NEW x, IsStack(s), Fits(t, c, s, x)
    PROVE  /\ Depth(c) \in {0, 15} /\ Depth(c) <= Len(s)
           /\ c.rip # <<"entry">> /\ (FromUser(c.cs) => t \in UserTasks)
<1>1. Len(s) \in Nat
  BY StackLength
<1>2. CASE ProgramFits(t, c, x)
  <2>1. FromUser(c.cs) /\ c.rip = <<"program">> /\ t \in UserTasks
    BY <1>2, Selectors DEF ProgramFits
  <2> QED
    BY <1>1, <2>1 DEF Depth
<1>3. CASE KernelFits(t, c)
  <2>1. ~FromUser(c.cs) /\ c.rip = <<"kernel">> /\ c.rsp.depth = 0
    BY <1>3, Selectors, RspParts DEF KernelFits, InKernel
  <2> QED
    BY <1>1, <2>1 DEF Depth
<1>4. CASE ServiceFits(t, c, s, x)
  <2>1. ~FromUser(c.cs) /\ c.rip = <<x.rax>> /\ c.rsp.depth = 15 /\ Len(s) >= 15
    BY <1>4, Selectors, RspParts DEF ServiceFits, InKernel, SyscallFrame
  <2>2. x.rax # "entry"
    BY <1>4, ServiceNames DEF ServiceFits, Calling
  <2>3. c.rip # <<"entry">>
    BY <2>1, <2>2
  <2> QED
    BY <1>1, <2>1, <2>3 DEF Depth
<1> QED
  BY <1>2, <1>3, <1>4 DEF Fits

(* Only the words up to its depth are a task's. *)
LEMMA FitsStays ==
    ASSUME NEW t, NEW c, NEW s, NEW x, IsStack(s), Fits(t, c, s, x),
           NEW z, IsStack(z), Depth(c) <= Len(z),
           \A i \in 1 .. Depth(c) : z[i] = s[i]
    PROVE  Fits(t, c, z, x)
<1>1. CASE ServiceFits(t, c, s, x)
  <2>1. Depth(c) = 15 /\ Len(z) \in Nat
    BY <1>1, Selectors, RspParts, StackLength DEF ServiceFits, InKernel, Depth
  <2>2. z[1] = s[1] /\ \A i \in 1 .. 14 : z[1 + i] = s[1 + i]
    BY <2>1
  <2>3. SyscallFrame(t, s, x)
    BY <1>1 DEF ServiceFits
  <2>4. SyscallFrame(t, z, x)
    BY <2>1, <2>2, <2>3 DEF SyscallFrame
  <2> QED
    BY <1>1, <2>4 DEF ServiceFits, Fits
<1> QED
  BY <1>1 DEF Fits

LEMMA SavedNow ==
    ASSUME NEW t, NEW c, NEW s, NEW x, IsStack(s), IsCpu(c), Fits(t, c, s, x),
           NEW z, IsStack(z), Len(z) = Depth(c) + 22,
           \A i \in 1 .. Depth(c) : z[i] = s[i],
           FrameIs(z, Depth(c) + 22, c)
    PROVE  Saved(t, Rsp(KernelStack(t), Depth(c) + 22), z, x)
<1>1. Depth(c) \in {0, 15} /\ Depth(c) <= Len(z) /\ Depth(c) + 22 <= Len(z)
  BY DepthOfFits
<1>2. Fits(t, c, z, x)
  BY <1>1, FitsStays
<1> QED
  BY <1>1, <1>2, Zenon DEF Saved

(* The modes of the CPU tell themselves by rip, and by the flag.           *)
LEMMA Modes ==
    ASSUME MemoryInv, SchedulerInv, CpuInv
    PROVE  LET t == current
               s == mem[KernelStack(current)]
               x == context[current]
           IN  /\ current \in Tasks
               /\ InUser => ProgramFits(t, cpu, x)
               /\ cpu.rip = <<"kernel">> => KernelFits(t, cpu)
               /\ cpu.rip = <<"entry">> => AtEntry(t, cpu, x)
               /\ cpu.rip = <<"dispatch">> => AtDispatch(t, cpu, s, x)
               /\ Service \in DOMAIN OSServices => ServiceFits(t, cpu, s, x) /\ Service = x.rax
               /\ cpu.rip[1] = "return" => Returning(t, cpu, x)
               /\ cpu.flag => Fits(t, cpu, s, x) \/ (Returning(t, cpu, x) /\ x.rax = "IORead")
<1> DEFINE t == current
           s == mem[KernelStack(current)]
           x == context[current]
<1>1. current \in Tasks
  BY DEF SchedulerInv
<1>2. CASE ProgramFits(t, cpu, x)
  <2>1. FromUser(cpu.cs) /\ cpu.rip = <<"program">> /\ cpu.rip[1] = "program"
    BY <1>2, Selectors DEF ProgramFits
  <2>2. Service \notin DOMAIN OSServices
    BY <2>1, ServiceNames, ServiceIs
  <2> QED
    BY <1>1, <1>2, <2>1, <2>2 DEF Fits
<1>3. CASE KernelFits(t, cpu)
  <2>1. ~FromUser(cpu.cs) /\ cpu.rip = <<"kernel">> /\ cpu.rip[1] = "kernel"
    BY <1>3, Selectors DEF KernelFits, InKernel
  <2>2. Service \notin DOMAIN OSServices
    BY <2>1, ServiceNames, ServiceIs
  <2> QED
    BY <1>1, <1>3, <2>1, <2>2 DEF Fits, InUser
<1>4. CASE ServiceFits(t, cpu, s, x)
  <2>1. ~FromUser(cpu.cs) /\ cpu.rip = <<x.rax>> /\ cpu.rip[1] = x.rax
    BY <1>4, Selectors DEF ServiceFits, InKernel
  <2>2. x.rax \in DOMAIN OSServices
    BY <1>4 DEF ServiceFits, Calling
  <2>3. /\ x.rax # "kernel" /\ x.rax # "entry" /\ x.rax # "dispatch" /\ x.rax # "return"
    BY <2>2, ServiceNames
  <2>4. Service = x.rax
    BY <2>1, <2>2, ServiceIs
  <2>5. cpu.rip # <<"kernel">> /\ cpu.rip # <<"entry">> /\ cpu.rip # <<"dispatch">>
    BY <2>1, <2>3
  <2> QED
    BY <1>1, <1>4, <2>1, <2>3, <2>4, <2>5 DEF Fits, InUser
<1>5. CASE AtEntry(t, cpu, x)
  <2>1. ~FromUser(cpu.cs) /\ cpu.rip = <<"entry">> /\ cpu.rip[1] = "entry" /\ cpu.flag = FALSE
    BY <1>5, Selectors DEF AtEntry, InKernel
  <2>2. Service \notin DOMAIN OSServices
    BY <2>1, ServiceNames, ServiceIs
  <2> QED
    BY <1>1, <1>5, <2>1, <2>2 DEF InUser
<1>6. CASE AtDispatch(t, cpu, s, x)
  <2>1. /\ ~FromUser(cpu.cs) /\ cpu.rip = <<"dispatch">> /\ cpu.rip[1] = "dispatch"
        /\ cpu.flag = FALSE
    BY <1>6, Selectors DEF AtDispatch, InKernel
  <2>2. Service \notin DOMAIN OSServices
    BY <2>1, ServiceNames, ServiceIs
  <2> QED
    BY <1>1, <1>6, <2>1, <2>2 DEF InUser
<1>7. CASE Returning(t, cpu, x)
  <2>1. ~FromUser(cpu.cs) /\ cpu.rip = <<"return", x.rax>> /\ cpu.rip[1] = "return"
    BY <1>7, Selectors DEF Returning, InKernel
  <2>2. Service \notin DOMAIN OSServices
    BY <2>1, ServiceNames, ServiceIs
  <2>3. cpu.flag \in BOOLEAN /\ (cpu.flag = TRUE => x.rax = "IORead")
    BY <1>7 DEF Returning, FlagFits
  <2>4. cpu.rip # <<"kernel">> /\ cpu.rip # <<"entry">> /\ cpu.rip # <<"dispatch">>
    BY <2>1
  <2>5. cpu.flag => x.rax = "IORead"
    BY <2>3
  <2> QED
    BY <1>1, <1>7, <2>1, <2>2, <2>4, <2>5 DEF InUser
<1> QED
  BY <1>2, <1>3, <1>4, <1>5, <1>6, <1>7 DEF CpuInv, Fits

(* An interrupt that does not change to the fault stack continues on the   *)
(* kernel stack of the task.                                               *)
LEMMA EntryPlace ==
    ASSUME MemoryInv, SchedulerInv, NEW n, ~OnFaultStack(n),
           Fits(current, cpu, mem[KernelStack(current)], context[current])
    PROVE  EntryStack(n) = Rsp(KernelStack(current), Depth(cpu))
<1>1. rsp0 = current
  BY DEF SchedulerInv
<1>2. CASE ProgramFits(current, cpu, context[current])
  <2>1. FromUser(cpu.cs)
    BY <1>2, Selectors DEF ProgramFits
  <2> QED
    BY <1>1, <2>1 DEF EntryStack, Depth
<1>3. CASE KernelFits(current, cpu)
  <2>1. ~FromUser(cpu.cs) /\ cpu.rsp = Rsp(KernelStack(current), 0)
    BY <1>3, Selectors DEF KernelFits, InKernel
  <2> QED
    BY <2>1, RspParts DEF EntryStack, Depth
<1>4. CASE ServiceFits(current, cpu, mem[KernelStack(current)], context[current])
  <2>1. ~FromUser(cpu.cs) /\ cpu.rsp = Rsp(KernelStack(current), 15)
    BY <1>4, Selectors DEF ServiceFits, InKernel
  <2> QED
    BY <2>1, RspParts DEF EntryStack, Depth
<1> QED
  BY <1>2, <1>3, <1>4 DEF Fits

-----------------------------------------------------------------------------
(* The steps. *)

(* What memory looks like when st has been cut back to d words.           *)
PoppedTo(new, m, st, d) ==
    /\ Memory(new)
    /\ Len(new[st]) = d /\ \A i \in 1 .. d : new[st][i] = m[st][i]
    /\ \A s \in Stacks : s # st => new[s] = m[s]

LEMMA Popped ==
    ASSUME NEW m, Memory(m), NEW st \in Stacks, NEW d \in Nat, d <= Len(m[st]),
           NEW n, n = [m EXCEPT ![st] = SubSeq(@, 1, d)]
    PROVE  PoppedTo(n, m, st, d)
<1> DEFINE z == SubSeq(m[st], 1, d)
<1>1. IsStack(z) /\ Len(z) = d /\ \A i \in 1 .. d : z[i] = m[st][i]
  <2>1. IsStack(m[st])
    BY DEF Memory
  <2> QED
    BY <2>1, StackPrefix
<1>2. n = [m EXCEPT ![st] = z]
  OBVIOUS
<1> HIDE DEF z
<1>3. /\ n = [s \in Stacks |-> n[s]] /\ n[st] = z
      /\ \A s \in Stacks : s # st => n[s] = m[s]
  BY <1>2 DEF Memory
<1>4. \A s \in Stacks : IsStack(n[s])
  BY <1>1, <1>3 DEF Memory
<1> QED
  BY <1>1, <1>3, <1>4, Zenon DEF PoppedTo, Memory

LEMMA SwapsGS ==
    ASSUME NEW g, g = [base |-> g.base, kernel |-> g.kernel]
    PROVE  /\ SwapGS(g) = [base |-> SwapGS(g).base, kernel |-> SwapGS(g).kernel]
           /\ SwapGS(g).base = g.kernel /\ SwapGS(g).kernel = g.base
           /\ SwapGS(SwapGS(g)) = g
  BY DEF SwapGS

(* Only st differs between the memory of an entry and the one before.      *)
LEMMA EntryMemory ==
    ASSUME NEW e, NEW n, NEW st \in Stacks, NEW d \in Nat, Memory(mem), EntersOn(e, n, st, d)
    PROVE  Memory(e.mem) /\ \A s \in Stacks : s # st => e.mem[s] = mem[s]
<1>1. e.mem = [mem EXCEPT ![st] = e.mem[st]] /\ IsStack(e.mem[st])
  BY Zenon DEF EntersOn
<1>2. /\ e.mem = [s \in Stacks |-> e.mem[s]]
      /\ \A s \in Stacks : s # st => e.mem[s] = mem[s]
  BY <1>1 DEF Memory
<1>3. \A s \in Stacks : IsStack(e.mem[s])
  BY <1>1, <1>2 DEF Memory
<1> QED
  BY <1>2, <1>3, Zenon DEF Memory

(* An interrupt that returns to what it interrupted changes nothing that   *)
(* counts.                                                                 *)
LEMMA SameAgain ==
    ASSUME EntryInv, NEW n, NEW st \in Stacks, NEW d \in Nat, EntryStack(n) = Rsp(st, d),
           d <= Len(mem[st]), Leave(Enter(n), Enter(n).rsp)
    PROVE  cpu' = cpu /\ gs' = gs /\ PoppedTo(mem', mem, st, d)
<1>1. MemoryInv /\ IsCpu(cpu) /\ Memory(mem)
  BY DEF EntryInv, CpuInv, MemoryInv
<1> DEFINE e == Enter(n)
<1>2. EntersOn(e, n, st, d)
  BY <1>1, Entered
<1> HIDE DEF e
<1>3. e.rsp.stack = st /\ e.rsp.depth = d + 22 /\ e.rsp.depth \in Nat
  BY <1>2, RspParts DEF EntersOn
<1>4. Leave(e, e.rsp)
  BY DEF e
<1>5. FrameIs(e.mem[e.rsp.stack], e.rsp.depth, cpu)
  BY <1>2, <1>3, Zenon DEF EntersOn
<1>6. /\ cpu' = cpu
      /\ gs' = IF FromUser(cpu.cs) THEN SwapGS(e.gs) ELSE e.gs
      /\ mem' = [e.mem EXCEPT ![e.rsp.stack] = SubSeq(@, 1, e.rsp.depth - 22)]
  BY <1>1, <1>3, <1>4, <1>5, Left
<1>7. gs' = gs
  BY <1>1, <1>2, <1>6, SwapsGS DEF MemoryInv, EntersOn
<1>8. Memory(e.mem) /\ \A s \in Stacks : s # st => e.mem[s] = mem[s]
  BY <1>1, <1>2, EntryMemory
<1>9. mem' = [e.mem EXCEPT ![st] = SubSeq(@, 1, d)] /\ d <= Len(e.mem[st])
  BY <1>2, <1>3, <1>6 DEF EntersOn
<1>10. PoppedTo(mem', e.mem, st, d)
  BY <1>8, <1>9, Popped
<1>11. \A i \in 1 .. d : e.mem[st][i] = mem[st][i]
  BY <1>2, Zenon DEF EntersOn
<1>12. PoppedTo(mem', mem, st, d)
  BY <1>8, <1>10, <1>11, Zenon DEF PoppedTo
<1> QED
  BY <1>6, <1>7, <1>12

(* After a switch: the task that was interrupted is saved, unless it died, *)
(* and the task chosen runs where it was.                                  *)
LEMMA Switched ==
    ASSUME EntryInv, NEW e, NEW st \in Stacks, Memory(e.mem),
           \A s \in Stacks : s # st => e.mem[s] = mem[s],
           e.gs = [base |-> "cpu", kernel |-> e.gs.kernel],
           NEW t, t \in alive', alive' \subseteq alive, KernelTask \in alive',
           \/ current \notin alive' /\ st \in {KernelStack(current), gHALDoubleFaultStack}
           \/ st = KernelStack(current) /\ Saved(current, e.rsp, e.mem[st], context[current]),
           SwitchTo(t, e), UNCHANGED <<context, halted>>
    PROVE  EntryInv'
<1>1. /\ current' = t /\ rsp0' = t /\ kernelStackPointer' = t
      /\ stackPointer' = [stackPointer EXCEPT ![current] = e.rsp]
      /\ Leave(e, stackPointer'[t])
  BY Zenon DEF SwitchTo, UseStackOf
<1>2. /\ alive \subseteq Tasks /\ current \in alive /\ current \in Tasks /\ t \in Tasks
      /\ stackPointer = [u \in Tasks |-> stackPointer[u]]
  BY DEF EntryInv, SchedulerInv
<1>3. KernelStack(t) \in Stacks
  BY <1>2, StacksApart
<1>4. \A u \in alive' : u # current => e.mem[KernelStack(u)] = mem[KernelStack(u)]
  <2>1. SUFFICES ASSUME NEW u \in alive', u # current
                 PROVE  e.mem[KernelStack(u)] = mem[KernelStack(u)]
    OBVIOUS
  <2>2. KernelStack(u) # st /\ KernelStack(u) \in Stacks
    BY <1>2, <2>1, StacksApart
  <2> QED
    BY <2>2
(* Whoever may run is saved in the new memory. *)
<1>5. ASSUME NEW u \in alive'
      PROVE  Saved(u, stackPointer'[u], e.mem[KernelStack(u)], context[u])
  <2>1. CASE u = current
    BY <1>1, <1>2, <1>5, <2>1
  <2>2. CASE u # current
    <3>1. Saved(u, stackPointer[u], mem[KernelStack(u)], context[u])
      BY <1>5, <2>2 DEF EntryInv, SavedInv
    <3>2. stackPointer'[u] = stackPointer[u]
      BY <1>1, <1>2, <2>2
    <3> QED
      BY <1>4, <1>5, <2>2, <3>1, <3>2, Zenon
  <2> QED
    BY <2>1, <2>2
<1> DEFINE s == e.mem[KernelStack(t)]
           x == context[t]
           sp == stackPointer'[t]
<1>6. PICK c : /\ IsCpu(c) /\ Fits(t, c, s, x)
               /\ sp = Rsp(KernelStack(t), Depth(c) + 22)
               /\ Depth(c) + 22 <= Len(s) /\ FrameIs(s, Depth(c) + 22, c)
  BY <1>5, Zenon DEF Saved
<1>7. IsStack(s) /\ Len(s) \in Nat
  BY <1>3, StackLength DEF Memory
<1>8. /\ Depth(c) \in {0, 15} /\ Depth(c) \in Nat /\ Depth(c) <= Len(s)
      /\ c.rip # <<"entry">> /\ (FromUser(c.cs) => t \in UserTasks)
  BY <1>6, <1>7, DepthOfFits
<1>9. sp.stack = KernelStack(t) /\ sp.depth = Depth(c) + 22 /\ sp.depth \in Nat
      /\ sp.depth - 22 = Depth(c)
  BY <1>6, <1>8, RspParts
<1>10. Leave(e, sp) /\ FrameIs(e.mem[sp.stack], sp.depth, c)
  BY <1>1, <1>6, <1>9, Zenon
<1>11. /\ cpu' = c
       /\ gs' = IF FromUser(c.cs) THEN SwapGS(e.gs) ELSE e.gs
       /\ mem' = [e.mem EXCEPT ![sp.stack] = SubSeq(@, 1, sp.depth - 22)]
  BY <1>6, <1>9, <1>10, Left
<1> HIDE DEF s, x, sp
<1>12. mem' = [e.mem EXCEPT ![KernelStack(t)] = SubSeq(@, 1, Depth(c))]
  BY <1>9, <1>11
<1>13. PoppedTo(mem', e.mem, KernelStack(t), Depth(c))
  BY <1>3, <1>8, <1>12, Popped DEF s
<1>14. MemoryInv'
  <2>1. Memory(mem')
    BY <1>13, Zenon DEF PoppedTo
  <2>2. /\ context' = [u \in Tasks |-> context'[u]]
        /\ \A u \in Tasks : context'[u] = [r \in Registers |-> context'[u][r]]
    BY Zenon DEF EntryInv, MemoryInv
  <2>3. gs' = [base |-> gs'.base, kernel |-> gs'.kernel]
    BY <1>11 DEF SwapGS
  <2> QED
    BY <2>1, <2>2, <2>3, Zenon DEF MemoryInv, Memory
<1>15. SchedulerInv'
  BY <1>1, <1>2 DEF SchedulerInv
<1>16. CpuInv'
  <2>1. Fits(t, c, mem'[KernelStack(t)], x)
    <3>1. /\ IsStack(mem'[KernelStack(t)]) /\ Len(mem'[KernelStack(t)]) = Depth(c)
          /\ \A i \in 1 .. Depth(c) : mem'[KernelStack(t)][i] = s[i]
      BY <1>3, <1>13 DEF PoppedTo, Memory, s
    <3> QED
      BY <1>6, <1>7, <1>8, <3>1, FitsStays
  <2>2. Fits(current', cpu', mem'[KernelStack(current')], context'[current'])
    BY <1>1, <1>11, <2>1 DEF x
  <2>3. IsCpu(cpu')
    BY <1>6, <1>11
  <2>4. GSFits(cpu', gs')
    BY <1>8, <1>11 DEF GSFits, SwapGS
  <2> QED
    BY <2>2, <2>3, <2>4, Zenon DEF CpuInv
<1>17. SavedInv'
  <2>1. SUFFICES ASSUME NEW u \in alive', u # t
                 PROVE  Saved(u, stackPointer'[u], mem'[KernelStack(u)], context'[u])
    BY <1>1 DEF SavedInv
  <2>2. KernelStack(u) # KernelStack(t) /\ KernelStack(u) \in Stacks
    BY <1>2, <2>1, StacksApart
  <2>3. mem'[KernelStack(u)] = e.mem[KernelStack(u)]
    BY <1>13, <2>2 DEF PoppedTo
  <2> QED
    BY <1>5, <2>3
<1>18. FaultContained'
  <2>1. \A u \in alive' : stackPointer'[u].stack # gHALDoubleFaultStack
    <3>1. SUFFICES ASSUME NEW u \in alive'
                   PROVE  stackPointer'[u].stack # gHALDoubleFaultStack
      OBVIOUS
    <3>2. PICK b : stackPointer'[u] = Rsp(KernelStack(u), Depth(b) + 22)
      BY <1>5, Zenon DEF Saved
    <3> QED
      BY <3>2, RspParts, StacksApart
  <2> QED
    BY <2>1 DEF EntryInv, FaultContained
<1> QED
  BY <1>14, <1>15, <1>16, <1>17, <1>18 DEF EntryInv

(* The kernel's GS base, as an entry leaves it. *)
LEMMA EntryGS ==
    ASSUME MemoryInv, GSFits(cpu, gs), cpu.rip # <<"entry">>,
           NEW e, NEW n, NEW st, NEW d, EntersOn(e, n, st, d)
    PROVE  e.gs = [base |-> "cpu", kernel |-> e.gs.kernel]
<1>1. e.gs = IF FromUser(cpu.cs) THEN SwapGS(gs) ELSE gs
  BY Zenon DEF EntersOn
<1>2. gs = [base |-> gs.base, kernel |-> gs.kernel]
  BY DEF MemoryInv
<1>3. CASE FromUser(cpu.cs)
  BY <1>1, <1>2, <1>3, SwapsGS DEF GSFits
<1>4. CASE ~FromUser(cpu.cs)
  BY <1>1, <1>2, <1>4 DEF GSFits
<1> QED
  BY <1>3, <1>4

(* The frame of an interrupt on the task's kernel stack.                   *)
LEMMA Interrupted ==
    ASSUME EntryInv, NEW n, ~OnFaultStack(n),
           Fits(current, cpu, mem[KernelStack(current)], context[current])
    PROVE  LET e == Enter(n)
               st == KernelStack(current)
           IN  /\ st \in Stacks /\ Depth(cpu) \in Nat /\ Depth(cpu) <= Len(mem[st])
               /\ EntryStack(n) = Rsp(st, Depth(cpu))
               /\ EntersOn(e, n, st, Depth(cpu))
               /\ Memory(e.mem) /\ \A s \in Stacks : s # st => e.mem[s] = mem[s]
               /\ e.gs = [base |-> "cpu", kernel |-> e.gs.kernel]
               /\ Saved(current, e.rsp, e.mem[st], context[current])
<1> DEFINE e == Enter(n)
           st == KernelStack(current)
<1>1. MemoryInv /\ SchedulerInv /\ IsCpu(cpu) /\ GSFits(cpu, gs) /\ Memory(mem)
  BY DEF EntryInv, CpuInv, MemoryInv
<1>2. st \in Stacks /\ IsStack(mem[st])
  BY <1>1, StacksApart DEF SchedulerInv, Memory
<1>3. Depth(cpu) \in {0, 15} /\ Depth(cpu) <= Len(mem[st]) /\ cpu.rip # <<"entry">>
  BY <1>2, DepthOfFits
<1>4. EntryStack(n) = Rsp(st, Depth(cpu)) /\ Depth(cpu) \in Nat
  BY <1>1, <1>3, EntryPlace
<1>5. EntersOn(e, n, st, Depth(cpu))
  BY <1>1, <1>2, <1>3, <1>4, Entered
<1> HIDE DEF e
<1>6. Memory(e.mem) /\ \A s \in Stacks : s # st => e.mem[s] = mem[s]
  BY <1>1, <1>2, <1>4, <1>5, EntryMemory
<1>7. e.gs = [base |-> "cpu", kernel |-> e.gs.kernel]
  BY <1>1, <1>3, <1>5, EntryGS
<1> HIDE DEF st
<1>8. /\ IsStack(e.mem[st]) /\ Len(e.mem[st]) = Depth(cpu) + 22
      /\ \A i \in 1 .. Depth(cpu) : e.mem[st][i] = mem[st][i]
      /\ FrameIs(e.mem[st], Depth(cpu) + 22, cpu)
      /\ e.rsp = Rsp(st, Depth(cpu) + 22)
  BY <1>5, Zenon DEF EntersOn
<1>9. Fits(current, cpu, mem[st], context[current])
  BY DEF st
<1>10. Saved(current, Rsp(KernelStack(current), Depth(cpu) + 22), e.mem[st], context[current])
  BY <1>1, <1>2, <1>8, <1>9, SavedNow
<1>11. Saved(current, e.rsp, e.mem[st], context[current])
  BY <1>8, <1>10, Zenon DEF st
<1> QED
  BY <1>2, <1>3, <1>4, <1>5, <1>6, <1>7, <1>11, Zenon DEF e, st

(* Behind `pop rsp`, an interrupt continues on the program's stack.        *)
LEMMA InterruptedReturning ==
    ASSUME EntryInv, NEW n, ~OnFaultStack(n),
           Returning(current, cpu, context[current])
    PROVE  LET st == UserStack(current) IN
           /\ st \in Stacks /\ 0 \in Nat /\ 0 <= Len(mem[st])
           /\ EntryStack(n) = Rsp(st, 0) /\ Enter(n).rsp = Rsp(st, 22)
<1> DEFINE st == UserStack(current)
<1>1. MemoryInv /\ SchedulerInv /\ Memory(mem)
  BY DEF EntryInv, CpuInv, MemoryInv
<1>2. current \in UserTasks /\ ~FromUser(cpu.cs) /\ cpu.rsp = Rsp(st, 0)
  BY Selectors DEF Returning, InKernel
<1>3. st \in Stacks /\ IsStack(mem[st])
  BY <1>1, <1>2, StacksApart DEF Memory
<1>4. Len(mem[st]) \in Nat
  BY <1>3, StackLength
<1>5. EntryStack(n) = Rsp(st, 0)
  BY <1>2 DEF EntryStack
<1>6. 0 \in Nat /\ 0 <= Len(mem[st])
  BY <1>4
<1>7. EntersOn(Enter(n), n, st, 0)
  BY <1>1, <1>3, <1>5, <1>6, Entered
<1>8. Enter(n).rsp = Rsp(st, 0 + 22)
  BY <1>7, Zenon DEF EntersOn
<1> QED
  BY <1>3, <1>5, <1>6, <1>8

LEMMA Returned ==
    ASSUME EntryInv, NEW n, ~OnFaultStack(n), Leave(Enter(n), Enter(n).rsp),
           \/ Fits(current, cpu, mem[KernelStack(current)], context[current])
           \/ Returning(current, cpu, context[current]),
           UNCHANGED <<alive, current, rsp0, kernelStackPointer, context, halted>>,
           stackPointer' = [t \in Tasks |-> stackPointer'[t]],
           \A t \in alive \ {current} : stackPointer'[t] = stackPointer[t],
           stackPointer'[current].stack # gHALDoubleFaultStack
    PROVE  EntryInv'
<1> DEFINE k == KernelStack(current)
           x == context[current]
<1>1. MemoryInv /\ SchedulerInv /\ IsCpu(cpu) /\ GSFits(cpu, gs) /\ Memory(mem)
  BY DEF EntryInv, CpuInv, MemoryInv
<1>2. k \in Stacks /\ IsStack(mem[k]) /\ current \in Tasks
  BY <1>1, StacksApart DEF SchedulerInv, Memory
<1>3. /\ cpu' = cpu /\ gs' = gs /\ Memory(mem')
      /\ \A t \in Tasks \ {current} : mem'[KernelStack(t)] = mem[KernelStack(t)]
      /\ \/ Fits(current, cpu, mem'[k], x)
         \/ Returning(current, cpu, x)
  <2>1. CASE Fits(current, cpu, mem[k], x)
    <3>1. /\ Depth(cpu) \in Nat /\ Depth(cpu) <= Len(mem[k])
          /\ EntryStack(n) = Rsp(k, Depth(cpu))
      BY <2>1, Interrupted
    <3>2. cpu' = cpu /\ gs' = gs /\ PoppedTo(mem', mem, k, Depth(cpu))
      BY <1>2, <3>1, SameAgain
    <3>3. /\ Memory(mem') /\ Len(mem'[k]) = Depth(cpu)
          /\ \A i \in 1 .. Depth(cpu) : mem'[k][i] = mem[k][i]
          /\ \A s \in Stacks : s # k => mem'[s] = mem[s]
      BY <3>2, Zenon DEF PoppedTo
    <3>4. IsStack(mem'[k])
      BY <1>2, <3>3 DEF Memory
    <3>5. Fits(current, cpu, mem'[k], x)
      BY <1>2, <2>1, <3>1, <3>3, <3>4, FitsStays
    <3>6. \A t \in Tasks \ {current} : KernelStack(t) \in Stacks /\ KernelStack(t) # k
      BY StacksApart
    <3> QED
      BY <3>2, <3>3, <3>5, <3>6
  <2>2. CASE Returning(current, cpu, x)
    <3> DEFINE st == UserStack(current)
    <3>1. st \in Stacks /\ 0 \in Nat /\ 0 <= Len(mem[st]) /\ EntryStack(n) = Rsp(st, 0)
      BY <2>2, InterruptedReturning
    <3>2. cpu' = cpu /\ gs' = gs /\ PoppedTo(mem', mem, st, 0)
      BY <3>1, SameAgain
    <3>3. Memory(mem') /\ \A s \in Stacks : s # st => mem'[s] = mem[s]
      BY <3>2, Zenon DEF PoppedTo
    <3>4. \A t \in Tasks \ {current} : KernelStack(t) \in Stacks /\ KernelStack(t) # st
      BY StacksApart
    <3> QED
      BY <2>2, <3>2, <3>3, <3>4
  <2> QED
    BY <2>1, <2>2
<1>4. MemoryInv'
  BY <1>1, <1>3, Zenon DEF MemoryInv, Memory
<1>5. SchedulerInv'
  BY <1>1 DEF SchedulerInv
<1>6. CpuInv'
  <2>1. IsCpu(cpu') /\ GSFits(cpu', gs')
    BY <1>1, <1>3
  <2>2. \/ Fits(current', cpu', mem'[KernelStack(current')], context'[current'])
        \/ Returning(current', cpu', context'[current'])
    BY <1>3
  <2> QED
    BY <2>1, <2>2, Zenon DEF CpuInv
<1>7. SavedInv'
  <2>1. SUFFICES ASSUME NEW t \in alive \ {current}
                 PROVE  Saved(t, stackPointer'[t], mem'[KernelStack(t)], context'[t])
    BY Zenon DEF SavedInv
  <2>2. t \in Tasks \ {current} /\ Saved(t, stackPointer[t], mem[KernelStack(t)], context[t])
    BY <1>1, <2>1 DEF EntryInv, SavedInv, SchedulerInv
  <2> QED
    BY <1>3, <2>1, <2>2
<1>8. FaultContained'
  BY DEF EntryInv, FaultContained
<1> QED
  BY <1>4, <1>5, <1>6, <1>7, <1>8 DEF EntryInv

LEMMA Interrupt32Step ==
    ASSUME EntryInv, Interrupt32, UNCHANGED context, KernelTask \in alive', alive' \subseteq alive,
           \/ Fits(current, cpu, mem[KernelStack(current)], context[current])
           \/ /\ Returning(current, cpu, context[current]) /\ alive' = alive
              /\ context[current].rax = "IORead"
    PROVE  EntryInv'
<1> DEFINE e == Enter(32)
<1>1. PICK t \in alive' :
          IF StackLost(t, e)
          THEN halted' = cpu.rip /\ UNCHANGED <<cpu, gs, mem, scheduler>>
          ELSE SwitchTo(t, e) /\ UNCHANGED halted
  BY Zenon DEF Interrupt32
<1>2. ~OnFaultStack(32)
  BY DEF OnFaultStack
<1>3. CASE Fits(current, cpu, mem[KernelStack(current)], context[current])
  <2> DEFINE st == KernelStack(current)
  <2>1. /\ st \in Stacks /\ EntersOn(e, 32, st, Depth(cpu))
        /\ Memory(e.mem) /\ \A s \in Stacks : s # st => e.mem[s] = mem[s]
        /\ e.gs = [base |-> "cpu", kernel |-> e.gs.kernel]
        /\ Saved(current, e.rsp, e.mem[st], context[current])
    BY <1>2, <1>3, Interrupted
  <2> HIDE DEF e
  <2>2. e.rsp.stack = st
    BY <2>1, RspParts DEF EntersOn
  <2>3. ~StackLost(t, e)
    BY <2>2, StacksApart DEF StackLost
  <2>4. SwitchTo(t, e) /\ UNCHANGED halted
    BY <1>1, <2>3
  <2> QED
    BY <1>1, <2>1, <2>4, Switched
<1>4. CASE Returning(current, cpu, context[current]) /\ alive' = alive
           /\ context[current].rax = "IORead"
  <2>1. e.rsp = Rsp(UserStack(current), 22)
    BY <1>2, <1>4, InterruptedReturning
  <2>2. SchedulerInv
    BY DEF EntryInv
  <2>3. CASE StackLost(t, e)
    <3>1. halted' = cpu.rip /\ UNCHANGED <<cpu, gs, mem, scheduler>>
      BY <1>1, <2>3
    <3>2. halted' = <<"return", "IORead">>
      BY <1>4, <3>1 DEF Returning
    <3>3. FaultContained'
      BY <1>4, <3>1, <3>2 DEF EntryInv, FaultContained, scheduler
    <3>4. MemoryInv' /\ SchedulerInv' /\ CpuInv' /\ SavedInv'
      BY <1>4, <3>1, Zenon
      DEF EntryInv, MemoryInv, Memory, SchedulerInv, CpuInv, SavedInv, scheduler
    <3> QED
      BY <3>3, <3>4 DEF EntryInv
  <2>4. CASE ~StackLost(t, e)
    <3>1. SwitchTo(t, e) /\ UNCHANGED halted
      BY <1>1, <2>4
    <3>2. t = current
      BY <2>1, <2>4, RspParts DEF StackLost
    <3>3. /\ current' = current /\ rsp0' = current /\ kernelStackPointer' = current
          /\ stackPointer' = [stackPointer EXCEPT ![current] = e.rsp]
          /\ Leave(e, stackPointer'[current])
      BY <3>1, <3>2, Zenon DEF SwitchTo, UseStackOf
    <3>4. /\ stackPointer' = [u \in Tasks |-> stackPointer'[u]]
          /\ stackPointer'[current] = e.rsp
          /\ \A u \in alive \ {current} : stackPointer'[u] = stackPointer[u]
          /\ rsp0' = rsp0 /\ kernelStackPointer' = kernelStackPointer
      BY <2>2, <3>3 DEF SchedulerInv
    <3>5. stackPointer'[current].stack # gHALDoubleFaultStack
      BY <2>1, <3>4, RspParts, StacksApart
    <3> QED
      BY <1>2, <1>4, <3>1, <3>3, <3>4, <3>5, Returned
  <2> QED
    BY <2>3, <2>4
<1> QED
  BY <1>3, <1>4

LEMMA TimerStep ==
    ASSUME EntryInv, TimerInterrupt
    PROVE  EntryInv'
<1>1. cpu.flag /\ alive' = alive /\ Interrupt32 /\ UNCHANGED context
  BY Zenon DEF TimerInterrupt
<1>2. MemoryInv /\ SchedulerInv /\ CpuInv
  BY DEF EntryInv
<1>3. \/ Fits(current, cpu, mem[KernelStack(current)], context[current])
      \/ Returning(current, cpu, context[current]) /\ context[current].rax = "IORead"
  BY <1>1, <1>2, Modes, Zenon
<1>4. KernelTask \in alive'
  BY <1>1, <1>2 DEF SchedulerInv
<1> QED
  BY <1>1, <1>3, <1>4, Interrupt32Step

LEMMA KeyboardStep ==
    ASSUME EntryInv, KeyboardInterrupt
    PROVE  EntryInv'
<1>1. /\ cpu.flag /\ Leave(Enter(33), Enter(33).rsp)
      /\ UNCHANGED <<alive, scheduler, context, halted>>
  BY Zenon DEF KeyboardInterrupt
<1>2. MemoryInv /\ SchedulerInv /\ CpuInv
  BY DEF EntryInv
<1>3. \/ Fits(current, cpu, mem[KernelStack(current)], context[current])
      \/ Returning(current, cpu, context[current])
  BY <1>1, <1>2, Modes, Zenon
<1>4. /\ UNCHANGED <<alive, current, rsp0, kernelStackPointer, context, halted>>
      /\ stackPointer' = stackPointer
  BY <1>1 DEF scheduler
<1>5. /\ stackPointer = [t \in Tasks |-> stackPointer[t]]
      /\ stackPointer[current].stack # gHALDoubleFaultStack
  BY <1>2 DEF EntryInv, SchedulerInv, FaultContained
<1>6. ~OnFaultStack(33)
  BY DEF OnFaultStack
<1> QED
  BY <1>1, <1>3, <1>4, <1>5, <1>6, Returned

(* isr_handler_c's breakpoint. *)
LEMMA BreakpointReturns ==
    ASSUME EntryInv, Leave(Enter(3), Enter(3).rsp),
           Fits(current, cpu, mem[KernelStack(current)], context[current]),
           UNCHANGED <<alive, scheduler, context, halted>>
    PROVE  EntryInv'
<1>1. /\ UNCHANGED <<alive, current, rsp0, kernelStackPointer, context, halted>>
      /\ stackPointer' = stackPointer
  BY DEF scheduler
<1>2. /\ stackPointer = [t \in Tasks |-> stackPointer[t]]
      /\ stackPointer[current].stack # gHALDoubleFaultStack
  BY DEF EntryInv, SchedulerInv, FaultContained
<1>3. ~OnFaultStack(3)
  BY DEF OnFaultStack
<1> QED
  BY <1>1, <1>2, <1>3, Returned

LEMMA BreakpointStep ==
    ASSUME EntryInv, Breakpoint
    PROVE  EntryInv'
<1> DEFINE e == Enter(3)
<1>1. cpu.rip = <<"kernel">> /\ Exception(3) /\ UNCHANGED context
  BY Zenon DEF Breakpoint
<1>2. MemoryInv /\ SchedulerInv /\ CpuInv
  BY DEF EntryInv
<1>3. Fits(current, cpu, mem[KernelStack(current)], context[current])
  BY <1>1, <1>2, Modes, Zenon DEF Fits
<1>4. ~OnFaultStack(3)
  BY DEF OnFaultStack
<1>5. EntersOn(e, 3, KernelStack(current), Depth(cpu))
  BY <1>3, <1>4, Interrupted
<1>6. Field(e.mem, e.rsp, "interruptNumber") = 3
  BY <1>5, Zenon DEF EntersOn
<1>7. Leave(e, e.rsp) /\ UNCHANGED <<alive, scheduler, halted>>
  BY <1>1, <1>6, Zenon DEF Exception
<1> QED
  BY <1>1, <1>3, <1>7, BreakpointReturns

(* The frame of the switch inside the handler. *)
LEMMA SwitchFrame ==
    ASSUME NEW rsp, NEW words,
           words = <<KernelSS, rsp, FALSE, KernelCS, <<"exit">>, 0, 32>>
                      \o [i \in 1 .. 15 |-> "c"]
    PROVE  IsStack(words)
<1> DEFINE S == {KernelSS, rsp, FALSE, KernelCS, <<"exit">>, 0, 32}
           seven == <<KernelSS, rsp, FALSE, KernelCS, <<"exit">>, 0, 32>>
           regs == [i \in 1 .. 15 |-> "c"]
<1>1. seven \in Seq(S)
  OBVIOUS
<1>2. regs \in [1 .. 15 -> {"c"}]
  OBVIOUS
<1>3. regs \in Seq({"c"})
  BY <1>2
<1>4. IsStack(seven) /\ IsStack(regs)
  BY <1>1, <1>3 DEF IsStack
<1> HIDE DEF seven, regs
<1>5. Joins(seven \o regs, seven, regs)
  BY <1>4, StacksAppend
<1> QED
  BY <1>5 DEF Joins, seven, regs

LEMMA UserFaultStep ==
    ASSUME EntryInv, UserFault
    PROVE  EntryInv'
<1>1. PICK n \in Faults : InUser /\ Exception(n) /\ UNCHANGED context
  BY Zenon DEF UserFault
<1> DEFINE e == Enter(n)
           switch == <<KernelSS, e.rsp, FALSE, KernelCS, <<"exit">>, 0, 32>>
                         \o [i \in 1 .. 15 |-> "c"]
           nested == [e EXCEPT !.mem = Push(@, e.rsp, switch), !.rsp = Pushed(@, switch)]
<1>2. MemoryInv /\ SchedulerInv /\ CpuInv /\ Memory(mem) /\ GSFits(cpu, gs)
  BY DEF EntryInv, MemoryInv, CpuInv
<1>3. /\ ProgramFits(current, cpu, context[current]) /\ FromUser(cpu.cs)
      /\ Fits(current, cpu, mem[KernelStack(current)], context[current])
  BY <1>1, <1>2, Modes, Zenon DEF InUser, Fits
<1>4. /\ current \in UserTasks /\ current \in Tasks /\ current # KernelTask
      /\ cpu.rip = <<"program">>
  BY <1>3, EntryAssumption DEF ProgramFits, Tasks
<1>5. CASE n = 3
  <2>1. ~OnFaultStack(3)
    BY DEF OnFaultStack
  <2>2. EntersOn(e, 3, KernelStack(current), Depth(cpu))
    BY <1>3, <1>5, <2>1, Interrupted
  <2>3. Field(e.mem, e.rsp, "interruptNumber") = 3
    BY <2>2, Zenon DEF EntersOn
  <2>4. Leave(e, e.rsp) /\ UNCHANGED <<alive, scheduler, halted>>
    BY <1>1, <2>3, Zenon DEF Exception
  <2> QED
    BY <1>1, <1>3, <1>5, <2>4, BreakpointReturns
<1>6. CASE n # 3
  <2>1. PICK st \in {KernelStack(current), gHALDoubleFaultStack} : EntryStack(n) = Rsp(st, 0)
    BY <1>2, <1>3 DEF EntryStack, SchedulerInv
  <2>2. st \in Stacks /\ IsStack(mem[st])
    BY <1>2, <1>4, <2>1, StacksApart DEF Memory
  <2>3. 0 \in Nat /\ 0 <= Len(mem[st])
    BY <2>2, StackLength
  <2>4. EntersOn(e, n, st, 0)
    BY <1>2, <2>1, <2>2, <2>3, Entered
  <2>5. /\ Field(e.mem, e.rsp, "interruptNumber") # 3
        /\ FromUser(Field(e.mem, e.rsp, "cs"))
    BY <1>3, <1>6, <2>4, Zenon DEF EntersOn
  <2>6. /\ alive' = alive \ {current} /\ UNCHANGED halted
        /\ \E t \in alive' : SwitchTo(t, nested)
    BY <1>1, <2>5, Zenon DEF Exception
  <2>7. PICK t \in alive' : SwitchTo(t, nested)
    BY <2>6
  <2>8. Memory(e.mem) /\ \A s \in Stacks : s # st => e.mem[s] = mem[s]
    BY <1>2, <2>2, <2>3, <2>4, EntryMemory
  <2>9. e.gs = [base |-> "cpu", kernel |-> e.gs.kernel]
    <3>1. cpu.rip # <<"entry">>
      BY <1>4
    <3> QED
      BY <1>2, <2>4, <3>1, EntryGS
  <2>10. IsStack(switch)
    BY SwitchFrame
  <2>11. /\ e.rsp.stack = st /\ e.rsp.depth = 22 /\ e.rsp.depth \in Nat
         /\ Len(e.mem[st]) = 22
    <3>1. e.rsp = Rsp(st, 0 + 22) /\ Len(e.mem[st]) = 0 + 22
      BY <2>4, Zenon DEF EntersOn
    <3> QED
      BY <3>1, RspParts
  <2> DEFINE m == Push(e.mem, e.rsp, switch)
  <2>12. nested.mem = m /\ nested.gs = e.gs
    BY DEF Enter
  <2> HIDE DEF e, switch
  <2>13. e.rsp.stack \in DOMAIN e.mem /\ IsStack(e.mem[e.rsp.stack])
         /\ e.rsp.depth <= Len(e.mem[e.rsp.stack])
    <3>1. e.mem = [s \in Stacks |-> e.mem[s]] /\ IsStack(e.mem[st])
      BY <2>2, <2>8, Zenon DEF Memory
    <3>2. st \in DOMAIN e.mem
      BY <2>2, <3>1
    <3>3. e.rsp.stack \in DOMAIN e.mem /\ IsStack(e.mem[e.rsp.stack])
      BY <2>11, <3>1, <3>2, Zenon
    <3>4. e.rsp.depth <= Len(e.mem[e.rsp.stack])
      <4>1. Len(e.mem[e.rsp.stack]) = 22
        BY <2>11, Zenon
      <4> QED
        BY <2>11, <4>1
    <3> QED
      BY <3>3, <3>4
  <2>14. Above(m[e.rsp.stack], e.mem[e.rsp.stack], e.rsp.depth, switch)
    BY <2>10, <2>11, <2>13, Pushes
  <2>15. m = [e.mem EXCEPT ![e.rsp.stack] = m[e.rsp.stack]]
    BY <2>13, PushChanges
  <2> HIDE DEF m
  <2>16. IsStack(m[st]) /\ m = [e.mem EXCEPT ![st] = m[st]]
    BY <2>11, <2>14, <2>15, Zenon DEF Above
  <2>17. /\ m = [s \in Stacks |-> m[s]]
         /\ \A s \in Stacks : s # st => m[s] = e.mem[s]
    BY <2>2, <2>8, <2>16 DEF Memory
  <2>18. Memory(m)
    BY <2>8, <2>16, <2>17 DEF Memory
  <2> HIDE DEF nested
  <2>19. Memory(nested.mem) /\ \A s \in Stacks : s # st => nested.mem[s] = mem[s]
    BY <2>8, <2>12, <2>17, <2>18
  <2>20. nested.gs = [base |-> "cpu", kernel |-> nested.gs.kernel]
    BY <2>9, <2>12
  <2>21. current \notin alive' /\ alive' \subseteq alive /\ KernelTask \in alive'
    BY <1>2, <1>4, <2>6 DEF SchedulerInv
  <2> QED
    BY <1>1, <2>1, <2>2, <2>6, <2>7, <2>19, <2>20, <2>21, Switched
<1> QED
  BY <1>5, <1>6

(* A fault of a service finds the handler's panic: nothing else changes,   *)
(* and the machine stops with that service running.                        *)
LEMMA ServiceFaultStep ==
    ASSUME EntryInv, ServiceFault
    PROVE  EntryInv'
<1>1. PICK n \in {13, 14} : Exception(n)
  BY Zenon DEF ServiceFault
<1> DEFINE e == Enter(n)
<1>2. Service \in UsesPointer /\ UNCHANGED context
  BY Zenon DEF ServiceFault
<1>3. MemoryInv /\ SchedulerInv /\ CpuInv /\ Memory(mem)
  BY DEF EntryInv, MemoryInv
<1>4. Service \in DOMAIN OSServices
  BY <1>2, ServiceNames, Zenon DEF UsesPointer
<1>5. cpu.rip[1] \in UsesPointer
  BY <1>2, <1>4, ServiceIs, Zenon
<1>6. ~FromUser(cpu.cs)
  <2>1. ServiceFits(current, cpu, mem[KernelStack(current)], context[current])
    BY <1>3, <1>4, Modes, Zenon
  <2> QED
    BY <2>1, Selectors DEF ServiceFits, InKernel
<1>7. EntersOn(e, n, gHALDoubleFaultStack, 0)
  <2>1. EntryStack(n) = Rsp(gHALDoubleFaultStack, 0)
    BY DEF EntryStack, OnFaultStack
  <2>2. gHALDoubleFaultStack \in Stacks /\ IsStack(mem[gHALDoubleFaultStack])
    BY <1>3, StacksApart DEF Memory
  <2>3. 0 \in Nat /\ 0 <= Len(mem[gHALDoubleFaultStack])
    BY <2>2, StackLength
  <2> QED
    BY <1>3, <2>1, <2>2, <2>3, Entered
<1>8. /\ Field(e.mem, e.rsp, "interruptNumber") # 3
      /\ ~FromUser(Field(e.mem, e.rsp, "cs"))
  <2>1. Field(e.mem, e.rsp, "interruptNumber") = n /\ Field(e.mem, e.rsp, "cs") = cpu.cs
    BY <1>7, Zenon DEF EntersOn
  <2>2. n # 3
    OBVIOUS
  <2> QED
    BY <1>6, <2>1, <2>2, Zenon
<1>9. /\ halted' = <<"panic", cpu.rip[1]>>
      /\ UNCHANGED <<cpu, gs, mem, alive, scheduler>>
  BY <1>1, <1>8, Zenon DEF Exception
<1>10. FaultContained'
  BY <1>5, <1>9, Zenon DEF EntryInv, FaultContained, scheduler
<1>11. MemoryInv' /\ SchedulerInv' /\ CpuInv' /\ SavedInv'
  BY <1>2, <1>9, Zenon
  DEF EntryInv, MemoryInv, Memory, SchedulerInv, CpuInv, SavedInv, scheduler
<1> QED
  BY <1>10, <1>11 DEF EntryInv

LEMMA ServiceSwitchesStep ==
    ASSUME EntryInv, ServiceSwitches
    PROVE  EntryInv'
<1>1. /\ Service \in Switching /\ Interrupt32 /\ UNCHANGED context
      /\ alive' = IF Service = "ProcessExit" THEN alive \ {current} ELSE alive
  BY Zenon DEF ServiceSwitches
<1>2. MemoryInv /\ SchedulerInv /\ CpuInv
  BY DEF EntryInv
<1>3. ServiceFits(current, cpu, mem[KernelStack(current)], context[current])
  BY <1>1, <1>2, ServiceIs, Modes, Zenon
<1>4. current # KernelTask
  BY <1>3, EntryAssumption DEF ServiceFits
<1>5. KernelTask \in alive' /\ alive' \subseteq alive
  BY <1>1, <1>2, <1>4 DEF SchedulerInv
<1> QED
  BY <1>1, <1>3, <1>5, Interrupt32Step DEF Fits

(* Steps between the program and the service leave the other tasks alone.  *)
LEMMA SameTasks ==
    ASSUME EntryInv, UNCHANGED <<alive, scheduler, halted>>, MemoryInv', CpuInv',
           \A t \in Tasks \ {current} : /\ mem'[KernelStack(t)] = mem[KernelStack(t)]
                                        /\ context'[t] = context[t]
    PROVE  EntryInv'
<1>1. UNCHANGED <<current, stackPointer, rsp0, kernelStackPointer>>
  BY DEF scheduler
<1>2. SchedulerInv'
  BY <1>1 DEF EntryInv, SchedulerInv
<1>3. SavedInv'
  <2>1. SUFFICES ASSUME NEW t \in alive \ {current}
                 PROVE  Saved(t, stackPointer'[t], mem'[KernelStack(t)], context'[t])
    BY <1>1, Zenon DEF SavedInv
  <2>2. t \in Tasks \ {current} /\ Saved(t, stackPointer[t], mem[KernelStack(t)], context[t])
    BY <2>1 DEF EntryInv, SavedInv, SchedulerInv
  <2> QED
    BY <1>1, <2>2
<1>4. FaultContained'
  BY <1>1 DEF EntryInv, FaultContained
<1> QED
  BY <1>2, <1>3, <1>4 DEF EntryInv

(* The registers of a call, with its name or with its number in rax.       *)
CallRegisters(t, result) ==
    [r \in Registers |-> CASE r = "rax" -> result
                           [] r = "rcx" -> <<"program">>
                           [] r = "r11" -> TRUE
                           [] OTHER -> <<t, r>>]

LEMMA CallRegistersAre ==
    ASSUME NEW t, NEW service \in DOMAIN OSServices, NEW number
    PROVE  LET x == CallRegisters(t, service) IN
           /\ Calling(x) /\ Arguments(t, x) /\ x.rax = service
           /\ CallRegisters(t, number) = [x EXCEPT !.rax = number]
<1> DEFINE x == CallRegisters(t, service)
           y == CallRegisters(t, number)
<1>1. "rax" \in Registers /\ "rcx" \in Registers /\ "r11" \in Registers
  BY RegistersAre
<1>2. x = [r \in Registers |-> x[r]] /\ y = [r \in Registers |-> y[r]]
  BY DEF CallRegisters
<1>3. /\ x.rax = service /\ x.rcx = <<"program">> /\ x.r11 = TRUE
      /\ y.rax = number /\ y.rcx = <<"program">> /\ y.r11 = TRUE
  BY <1>1 DEF CallRegisters
<1>4. \A r \in Registers \ {"rax", "rcx", "r11"} : x[r] = <<t, r>> /\ y[r] = <<t, r>>
  BY DEF CallRegisters
<1> HIDE DEF x, y
<1>5. Calling(x) /\ Arguments(t, x)
  BY <1>2, <1>3, <1>4 DEF Calling, Arguments
<1>6. y = [x EXCEPT !.rax = number]
  <2>1. \A r \in Registers : y[r] = IF r = "rax" THEN number ELSE x[r]
    BY <1>3, <1>4
  <2> QED
    BY <1>1, <1>2, <2>1
<1> QED
  BY <1>3, <1>5, <1>6 DEF x, y

LEMMA SyscallStep ==
    ASSUME EntryInv, Syscall
    PROVE  EntryInv'
<1>1. MemoryInv /\ SchedulerInv /\ CpuInv /\ GSFits(cpu, gs) /\ current \in Tasks
  BY DEF EntryInv, CpuInv, SchedulerInv
<1>2. InUser
  BY Zenon DEF Syscall
<1>3. ProgramFits(current, cpu, context[current]) /\ FromUser(cpu.cs)
  BY <1>1, <1>2, Modes, Zenon DEF InUser
<1>4. cpu.rip = <<"program">> /\ cpu.flag = TRUE /\ cpu.rsp = Rsp(UserStack(current), 0)
      /\ current \in UserTasks
  BY <1>3, Zenon DEF ProgramFits
<1>5. PICK service \in DOMAIN OSServices :
          /\ cpu' = [regs |-> CallRegisters(current, <<"number", OSServices[service]>>),
                     rip |-> <<"entry">>, cs |-> Selector(Star.kernel),
                     ss |-> Selector(Star.kernel + 8), flag |-> FALSE, rsp |-> cpu.rsp]
          /\ context' = [context EXCEPT ![current] = CallRegisters(current, service)]
  BY <1>4, Zenon DEF Syscall, CallRegisters, FlagAfterSyscall
<1>6. UNCHANGED <<gs, mem, alive, scheduler, halted>>
  BY Zenon DEF Syscall
<1>7. UNCHANGED current
  BY <1>6 DEF scheduler
<1> DEFINE x == CallRegisters(current, service)
           number == <<"number", OSServices[service]>>
           y == CallRegisters(current, number)
<1>8. Calling(x) /\ Arguments(current, x) /\ x.rax = service /\ y = [x EXCEPT !.rax = number]
  BY CallRegistersAre
<1>9. x = [r \in Registers |-> x[r]] /\ y = [r \in Registers |-> y[r]]
  BY DEF CallRegisters
<1>10. cpu' = [regs |-> y, rip |-> <<"entry">>, cs |-> Selector(Star.kernel),
               ss |-> Selector(Star.kernel + 8), flag |-> FALSE, rsp |-> cpu.rsp]
       /\ context' = [context EXCEPT ![current] = x]
  BY <1>5
<1> HIDE DEF x, y
<1>11. /\ context' = [t \in Tasks |-> context'[t]]
       /\ context'[current] = x
       /\ \A t \in Tasks \ {current} : context'[t] = context[t]
       /\ \A t \in Tasks : context'[t] = [r \in Registers |-> context'[t][r]]
  BY <1>1, <1>9, <1>10 DEF MemoryInv
<1>12. MemoryInv'
  BY <1>1, <1>6, <1>11, Zenon DEF MemoryInv, Memory
<1>13. Selector(Star.kernel) = KernelCS /\ Selector(Star.kernel + 8) = KernelSS
  BY DEF Star, KernelCS, KernelSS
<1>14. /\ cpu'.regs = y /\ cpu'.rip = <<"entry">> /\ cpu'.cs = KernelCS /\ cpu'.ss = KernelSS
       /\ cpu'.flag = FALSE /\ cpu'.rsp = cpu.rsp
       /\ cpu' = [regs |-> cpu'.regs, rip |-> cpu'.rip, cs |-> cpu'.cs, flag |-> cpu'.flag,
                  rsp |-> cpu'.rsp, ss |-> cpu'.ss]
  BY <1>10, <1>13
<1>15. IsCpu(cpu')
  BY <1>9, <1>14, Zenon DEF IsCpu
<1>16. AtEntry(current, cpu', x)
  BY <1>4, <1>8, <1>14, Zenon DEF AtEntry, InKernel, number
<1>17. GSFits(cpu', gs')
  BY <1>1, <1>3, <1>6, <1>14 DEF GSFits
<1>18. CpuInv'
  BY <1>7, <1>11, <1>15, <1>16, <1>17, Zenon DEF CpuInv
<1> QED
  BY <1>6, <1>11, <1>12, <1>18, SameTasks

Moved(new, regs, to, from) ==
    /\ new = [r \in Registers |-> new[r]]
    /\ new[to] = regs[from]
    /\ \A r \in Registers \ {to} : new[r] = regs[r]

LEMMA MovedRegister ==
    ASSUME NEW regs, regs = [r \in Registers |-> regs[r]],
           NEW to \in Registers, NEW from
    PROVE  Moved(Move(regs, to, from), regs, to, from)
<1> DEFINE n == Move(regs, to, from)
<1>1. /\ n = [r \in Registers |-> n[r]]
      /\ n[to] = regs[from]
      /\ \A r \in Registers \ {to} : n[r] = regs[r]
  BY DEF Move
<1> QED
  BY <1>1, Zenon DEF Moved

(* The arguments in the registers of C. *)
LEMMA Shuffled ==
    ASSUME NEW regs, regs = [r \in Registers |-> regs[r]]
    PROVE  /\ Shuffle(regs) = [r \in Registers |-> Shuffle(regs)[r]]
           /\ Shuffle(regs).rdi = regs.rax /\ Shuffle(regs).rsi = regs.rdi
           /\ Shuffle(regs).rdx = regs.rsi /\ Shuffle(regs).rcx = regs.rdx
           /\ Shuffle(regs).r8 = regs.r10 /\ Shuffle(regs).r9 = regs.r8
<1> DEFINE a == Move(regs, "r9", "r8")
           b == Move(a, "r8", "r10")
           c == Move(b, "rcx", "rdx")
           d == Move(c, "rdx", "rsi")
           e == Move(d, "rsi", "rdi")
           f == Move(e, "rdi", "rax")
<1>1. /\ "rax" \in Registers /\ "rdi" \in Registers /\ "rsi" \in Registers
      /\ "rdx" \in Registers /\ "rcx" \in Registers /\ "r8" \in Registers
      /\ "r9" \in Registers /\ "r10" \in Registers
  BY RegistersAre
<1>2. Shuffle(regs) = f
  BY Zenon DEF Shuffle
<1>3. Moved(a, regs, "r9", "r8")
  BY <1>1, MovedRegister
<1> HIDE DEF a
<1>4. Moved(b, a, "r8", "r10")
  BY <1>1, <1>3, MovedRegister DEF Moved
<1> HIDE DEF b
<1>5. Moved(c, b, "rcx", "rdx")
  BY <1>1, <1>4, MovedRegister DEF Moved
<1> HIDE DEF c
<1>6. Moved(d, c, "rdx", "rsi")
  BY <1>1, <1>5, MovedRegister DEF Moved
<1> HIDE DEF d
<1>7. Moved(e, d, "rsi", "rdi")
  BY <1>1, <1>6, MovedRegister DEF Moved
<1> HIDE DEF e
<1>8. Moved(f, e, "rdi", "rax")
  BY <1>1, <1>7, MovedRegister DEF Moved
<1> HIDE DEF f
<1>9. /\ f.rdi = regs.rax /\ f.rsi = regs.rdi /\ f.rdx = regs.rsi /\ f.rcx = regs.rdx
      /\ f.r8 = regs.r10 /\ f.r9 = regs.r8
  BY <1>1, <1>3, <1>4, <1>5, <1>6, <1>7, <1>8 DEF Moved
<1>10. f = [r \in Registers |-> f[r]]
  BY <1>8, Zenon DEF Moved
<1> QED
  BY <1>2, <1>9, <1>10, Zenon

(* What syscall_entry pushes. *)
CallWords(sp, regs) == <<sp>> \o [i \in 1 .. 14 |-> regs[SyscallPushed[i]]]

LEMMA CallWordsAre ==
    ASSUME NEW sp, NEW regs, NEW w, w = CallWords(sp, regs)
    PROVE  /\ IsStack(w) /\ Len(w) = 15 /\ w[1] = sp
           /\ \A i \in 1 .. 14 : w[1 + i] = regs[SyscallPushed[i]]
<1> DEFINE f == [i \in 1 .. 14 |-> regs[SyscallPushed[i]]]
           one == <<sp>>
           S == {regs[SyscallPushed[i]] : i \in 1 .. 14}
<1>1. f \in [1 .. 14 -> S]
  OBVIOUS
<1>2. f \in Seq(S) /\ Len(f) = 14
  BY <1>1
<1>3. one \in Seq({sp}) /\ Len(one) = 1 /\ one[1] = sp
  OBVIOUS
<1>4. IsStack(f) /\ IsStack(one)
  BY <1>2, <1>3 DEF IsStack
<1>5. \A i \in 1 .. 14 : f[i] = regs[SyscallPushed[i]]
  OBVIOUS
<1> HIDE DEF f, one
<1>6. Joins(one \o f, one, f)
  BY <1>4, StacksAppend
<1>7. w = one \o f
  BY Zenon DEF one, f, CallWords
<1>71. /\ IsStack(w) /\ Len(w) = Len(one) + Len(f)
       /\ \A i \in 1 .. Len(one) : w[i] = one[i]
       /\ \A i \in 1 .. Len(f) : w[Len(one) + i] = f[i]
  BY <1>6, <1>7, Zenon DEF Joins
<1>72. Len(one) = 1 /\ Len(f) = 14
  BY <1>2, <1>3
<1>8. /\ IsStack(w) /\ Len(w) = 15
      /\ \A i \in 1 .. 1 : w[i] = one[i]
      /\ \A i \in 1 .. 14 : w[1 + i] = f[i]
  BY <1>71, <1>72
<1>9. w[1] = sp
  BY <1>3, <1>8
<1> QED
  BY <1>5, <1>8, <1>9

(* A system call pushes every register but rax. *)
LEMMA PushedRegisters ==
    \A i \in 1 .. 14 : SyscallPushed[i] \in Registers \ {"rax"}
<1>1. SUFFICES ASSUME NEW i \in 1 .. 14
               PROVE  SyscallPushed[i] \in Registers \ {"rax"}
  OBVIOUS
<1>2. 15 - i \in 1 .. 14 /\ 15 - (15 - i) = i
  OBVIOUS
<1>3. SyscallPopped[15 - i] = SyscallPushed[15 - (15 - i)]
  BY <1>2, SyscallRegisters, Zenon
<1> QED
  BY <1>2, <1>3, SyscallKeeps

LEMMA EntryStep ==
    ASSUME EntryInv, syscall_entry
    PROVE  EntryInv'
<1> DEFINE k == KernelStack(current)
           x == context[current]
           rsp == Rsp(k, 0)
           w == CallWords(cpu.rsp, cpu.regs)
<1>1. MemoryInv /\ SchedulerInv /\ CpuInv /\ IsCpu(cpu) /\ GSFits(cpu, gs) /\ Memory(mem)
  BY DEF EntryInv, CpuInv, MemoryInv
<1>2. current \in Tasks /\ kernelStackPointer = current
  BY <1>1 DEF SchedulerInv
<1>3. /\ cpu.rip = <<"entry">>
      /\ mem' = Push(mem, rsp, w)
      /\ cpu' = [cpu EXCEPT !.rsp = Pushed(rsp, w), !.regs = Shuffle(@), !.rip = <<"dispatch">>]
      /\ gs' = SwapGS(gs) /\ UNCHANGED <<alive, scheduler, context, halted>>
  BY <1>2, Zenon DEF syscall_entry, CallWords
<1>4. UNCHANGED current
  BY <1>3 DEF scheduler
<1>5. AtEntry(current, cpu, x)
  BY <1>1, <1>3, Modes, Zenon
<1>6. k \in Stacks /\ IsStack(mem[k]) /\ k \in DOMAIN mem
  <2>1. k \in Stacks
    BY <1>2, StacksApart
  <2> QED
    BY <1>1, <2>1 DEF Memory
<1>7. Len(mem[k]) \in Nat
  BY <1>6, StackLength
<1>8. rsp.stack = k /\ rsp.depth = 0
  BY RspParts
<1>9. /\ IsStack(w) /\ Len(w) = 15 /\ w[1] = cpu.rsp
      /\ \A i \in 1 .. 14 : w[1 + i] = cpu.regs[SyscallPushed[i]]
  BY CallWordsAre
<1> HIDE DEF rsp, w
<1>10. /\ Above(mem'[k], mem[k], 0, w)
       /\ mem' = [mem EXCEPT ![k] = mem'[k]]
  <2>1. rsp.depth \in Nat /\ rsp.depth <= Len(mem[rsp.stack])
    BY <1>7, <1>8
  <2>2. rsp.stack \in DOMAIN mem /\ IsStack(mem[rsp.stack])
    BY <1>6, <1>8, Zenon
  <2>3. Above(Push(mem, rsp, w)[rsp.stack], mem[rsp.stack], rsp.depth, w)
    BY <1>9, <2>1, <2>2, Pushes
  <2>4. Push(mem, rsp, w) = [mem EXCEPT ![rsp.stack] = Push(mem, rsp, w)[rsp.stack]]
    BY <2>2, PushChanges
  <2> QED
    BY <1>3, <1>8, <2>3, <2>4, Zenon
<1> DEFINE s == mem'[k]
<1>11. /\ IsStack(s) /\ Len(s) = 15 /\ s[1] = cpu.rsp
       /\ \A i \in 1 .. 14 : s[1 + i] = cpu.regs[SyscallPushed[i]]
  <2>1. /\ IsStack(s) /\ Len(s) = 0 + Len(w) /\ \A i \in 1 .. Len(w) : s[0 + i] = w[i]
    BY <1>10, Zenon DEF Above
  <2> HIDE DEF s
  <2>2. Len(s) = 15 /\ \A i \in 1 .. 15 : s[i] = w[i]
    BY <1>9, <2>1
  <2>3. s[1] = w[1] /\ \A i \in 1 .. 14 : s[1 + i] = w[1 + i]
    BY <2>2
  <2> QED
    BY <1>9, <2>1, <2>2, <2>3, Zenon
<1>12. MemoryInv'
  <2>1. /\ mem' = [z \in Stacks |-> mem'[z]]
        /\ \A z \in Stacks : z # k => mem'[z] = mem[z]
    BY <1>1, <1>10 DEF Memory
  <2>2. \A z \in Stacks : IsStack(mem'[z])
    BY <1>1, <1>11, <2>1 DEF Memory
  <2>3. Memory(mem)'
    BY <2>1, <2>2 DEF Memory
  <2>4. (gs = [base |-> gs.base, kernel |-> gs.kernel])'
    BY <1>3 DEF SwapGS
  <2>5. UNCHANGED context
    BY <1>3
  <2> QED
    BY <1>1, <2>3, <2>4, <2>5, Zenon DEF MemoryInv
<1>13. \A t \in Tasks \ {current} : /\ mem'[KernelStack(t)] = mem[KernelStack(t)]
                                    /\ context'[t] = context[t]
  <2>1. \A t \in Tasks \ {current} : KernelStack(t) \in Stacks /\ KernelStack(t) # k
    BY StacksApart
  <2>2. \A z \in Stacks : z # k => mem'[z] = mem[z]
    BY <1>1, <1>10 DEF Memory
  <2> QED
    BY <1>3, <2>1, <2>2
<1>14. Pushed(rsp, w) = Rsp(k, 15)
  BY <1>8, <1>9 DEF Pushed
<1>15. /\ cpu.regs = [r \in Registers |-> cpu.regs[r]]
       /\ cpu = [regs |-> cpu.regs, rip |-> cpu.rip, cs |-> cpu.cs, flag |-> cpu.flag,
                 rsp |-> cpu.rsp, ss |-> cpu.ss]
  BY <1>1, Zenon DEF IsCpu
<1>16. /\ cpu'.regs = Shuffle(cpu.regs) /\ cpu'.rip = <<"dispatch">> /\ cpu'.cs = cpu.cs
       /\ cpu'.ss = cpu.ss /\ cpu'.flag = cpu.flag /\ cpu'.rsp = Rsp(k, 15)
       /\ cpu' = [regs |-> cpu'.regs, rip |-> cpu'.rip, cs |-> cpu'.cs, flag |-> cpu'.flag,
                  rsp |-> cpu'.rsp, ss |-> cpu'.ss]
  BY <1>3, <1>14, <1>15
<1> DEFINE regs == cpu.regs
           new == cpu'.regs
<1>17. /\ new = [r \in Registers |-> new[r]]
       /\ new.rdi = regs.rax /\ new.rsi = regs.rdi /\ new.rdx = regs.rsi
       /\ new.rcx = regs.rdx /\ new.r8 = regs.r10 /\ new.r9 = regs.r8
  BY <1>15, <1>16, Shuffled
<1>18. /\ regs.rax = <<"number", OSServices[x.rax]>>
       /\ \A r \in Registers \ {"rax"} : regs[r] = x[r]
  <2>1. regs = [x EXCEPT !.rax = <<"number", OSServices[x.rax]>>]
        /\ x = [r \in Registers |-> x[r]]
    BY <1>5 DEF AtEntry, Calling
  <2>2. "rax" \in Registers
    BY RegistersAre
  <2> HIDE DEF regs, x
  <2> QED
    BY <2>1, <2>2
<1>19. IsCpu(cpu')
  BY <1>16, <1>17, Zenon DEF IsCpu
<1>20. SyscallFrame(current, s, x)
  <2>1. \A i \in 1 .. 14 : s[1 + i] = x[SyscallPushed[i]]
    BY <1>11, <1>18, PushedRegisters, Zenon
  <2>2. s[1] = Rsp(UserStack(current), 0) /\ Len(s) >= 15
    BY <1>5, <1>11 DEF AtEntry
  <2> QED
    BY <2>1, <2>2, Zenon DEF SyscallFrame
<1>21. /\ regs.rdi = <<current, "rdi">> /\ regs.rsi = <<current, "rsi">>
       /\ regs.rdx = <<current, "rdx">> /\ regs.r10 = <<current, "r10">>
       /\ regs.r8 = <<current, "r8">>
  <2>1. \A r \in Registers \ {"rax", "rcx", "r11"} : x[r] = <<current, r>>
    BY <1>5, Zenon DEF AtEntry, Arguments
  <2>2. \A r \in {"rdi", "rsi", "rdx", "r10", "r8"} :
            r \in Registers \ {"rax", "rcx", "r11"} /\ r \in Registers \ {"rax"}
    BY RegistersAre
  <2>3. \A r \in {"rdi", "rsi", "rdx", "r10", "r8"} : regs[r] = <<current, r>>
    BY <1>18, <2>1, <2>2, Zenon
  <2> HIDE DEF regs
  <2> QED
    BY <2>3
<1>22. AtDispatch(current, cpu', s, x)
  <2>1. <<new.rsi, new.rdx, new.rcx, new.r8, new.r9>> =
            << <<current, "rdi">>, <<current, "rsi">>, <<current, "rdx">>, <<current, "r10">>,
               <<current, "r8">> >>
    BY <1>17, <1>21, Zenon
  <2>2. new.rdi = <<"number", OSServices[x.rax]>>
    BY <1>17, <1>18, Zenon
  <2> QED
    BY <1>5, <1>16, <1>20, <2>1, <2>2, Zenon DEF AtEntry, AtDispatch, InKernel
<1>23. GSFits(cpu', gs')
  <2>1. ~FromUser(cpu'.cs)
    BY <1>5, <1>16, Selectors DEF AtEntry, InKernel
  <2>2. cpu'.rip # <<"entry">>
    BY <1>16
  <2>3. gs'.base = "cpu"
    BY <1>1, <1>3 DEF GSFits, SwapGS
  <2> QED
    BY <2>1, <2>2, <2>3, Zenon DEF GSFits
<1>24. CpuInv'
  BY <1>3, <1>4, <1>19, <1>22, <1>23, Zenon DEF CpuInv
<1> QED
  BY <1>3, <1>12, <1>13, <1>24, SameTasks

(* Steps that move no words. *)
LEMMA SameWords ==
    ASSUME EntryInv, UNCHANGED <<mem, alive, scheduler, context, halted>>,
           gs' = [base |-> gs'.base, kernel |-> gs'.kernel],
           IsCpu(cpu'), GSFits(cpu', gs'),
           LET s == mem[KernelStack(current)]
               x == context[current]
           IN  \/ Fits(current, cpu', s, x)
               \/ Returning(current, cpu', x)
    PROVE  EntryInv'
<1>1. UNCHANGED current
  BY DEF scheduler
<1>2. MemoryInv'
  BY Zenon DEF EntryInv, MemoryInv, Memory
<1>3. CpuInv'
  BY <1>1, Zenon DEF CpuInv
<1> QED
  BY <1>2, <1>3, SameTasks

LEMMA DispatchStep ==
    ASSUME EntryInv, Dispatch
    PROVE  EntryInv'
<1> DEFINE s == mem[KernelStack(current)]
           x == context[current]
           regs == [r \in Registers |-> "c"]
<1>1. MemoryInv /\ SchedulerInv /\ CpuInv /\ IsCpu(cpu) /\ GSFits(cpu, gs)
  BY DEF EntryInv, CpuInv
<1>2. /\ cpu.rip = <<"dispatch">>
      /\ cpu' = [cpu EXCEPT !.rip = <<syscall_dispatch[cpu.regs.rdi[2] + 1]>>, !.regs = regs]
      /\ UNCHANGED <<gs, mem, alive, scheduler, context, halted>>
  BY Zenon DEF Dispatch
<1>3. AtDispatch(current, cpu, s, x)
  BY <1>1, <1>2, Modes, Zenon
<1>4. cpu.regs.rdi[2] = OSServices[x.rax] /\ x.rax \in DOMAIN OSServices
  BY <1>3 DEF AtDispatch, Calling
<1>5. syscall_dispatch[cpu.regs.rdi[2] + 1] = x.rax
  BY <1>4, ServiceNames, Zenon
<1>6. /\ cpu = [regs |-> cpu.regs, rip |-> cpu.rip, cs |-> cpu.cs, flag |-> cpu.flag,
                rsp |-> cpu.rsp, ss |-> cpu.ss]
  BY <1>1, Zenon DEF IsCpu
<1>7. regs = [r \in Registers |-> regs[r]]
  OBVIOUS
<1> HIDE DEF regs
<1>8. /\ cpu'.regs = regs /\ cpu'.rip = <<x.rax>> /\ cpu'.cs = cpu.cs
      /\ cpu'.ss = cpu.ss /\ cpu'.flag = cpu.flag /\ cpu'.rsp = cpu.rsp
      /\ cpu' = [regs |-> cpu'.regs, rip |-> cpu'.rip, cs |-> cpu'.cs, flag |-> cpu'.flag,
                 rsp |-> cpu'.rsp, ss |-> cpu'.ss]
  BY <1>2, <1>5, <1>6
<1>9. IsCpu(cpu')
  BY <1>7, <1>8, Zenon DEF IsCpu
<1>10. FlagFits(cpu', x)
  BY <1>3, <1>8 DEF AtDispatch, FlagFits
<1>11. ServiceFits(current, cpu', s, x)
  BY <1>3, <1>8, <1>10, Zenon DEF AtDispatch, ServiceFits, InKernel
<1>12. GSFits(cpu', gs')
  <2>1. ~FromUser(cpu.cs) /\ ~FromUser(cpu'.cs) /\ cpu.rip # <<"entry">>
    BY <1>2, <1>3, <1>8, Selectors DEF AtDispatch, InKernel
  <2>2. x.rax # "entry"
    BY <1>4, ServiceNames
  <2>3. cpu'.rip # <<"entry">>
    BY <1>8, <2>2
  <2> QED
    BY <1>1, <1>2, <2>1, <2>3 DEF GSFits
<1>13. gs' = [base |-> gs'.base, kernel |-> gs'.kernel]
  BY <1>1, <1>2 DEF MemoryInv
<1> QED
  BY <1>2, <1>9, <1>11, <1>12, <1>13, SameWords DEF Fits

LEMMA EnablesStep ==
    ASSUME EntryInv, ServiceEnablesInterrupts
    PROVE  EntryInv'
<1> DEFINE s == mem[KernelStack(current)]
           x == context[current]
<1>1. MemoryInv /\ SchedulerInv /\ CpuInv /\ IsCpu(cpu) /\ GSFits(cpu, gs)
  BY DEF EntryInv, CpuInv
<1>2. /\ Service = "IORead" /\ cpu' = [cpu EXCEPT !.flag = TRUE]
      /\ UNCHANGED <<gs, mem, alive, scheduler, context, halted>>
  BY Zenon DEF ServiceEnablesInterrupts
<1>3. Service \in DOMAIN OSServices
  BY <1>2, ServiceNames
<1>4. ServiceFits(current, cpu, s, x) /\ Service = x.rax
  BY <1>1, <1>3, Modes, Zenon
<1>5. /\ cpu.regs = [r \in Registers |-> cpu.regs[r]]
      /\ cpu = [regs |-> cpu.regs, rip |-> cpu.rip, cs |-> cpu.cs, flag |-> cpu.flag,
                rsp |-> cpu.rsp, ss |-> cpu.ss]
  BY <1>1, Zenon DEF IsCpu
<1>6. /\ cpu'.regs = cpu.regs /\ cpu'.rip = cpu.rip /\ cpu'.cs = cpu.cs
      /\ cpu'.ss = cpu.ss /\ cpu'.flag = TRUE /\ cpu'.rsp = cpu.rsp
      /\ cpu' = [regs |-> cpu'.regs, rip |-> cpu'.rip, cs |-> cpu'.cs, flag |-> cpu'.flag,
                 rsp |-> cpu'.rsp, ss |-> cpu'.ss]
  BY <1>2, <1>5
<1>7. IsCpu(cpu')
  BY <1>5, <1>6, Zenon DEF IsCpu
<1>8. FlagFits(cpu', x)
  BY <1>2, <1>4, <1>6 DEF FlagFits
<1>9. ServiceFits(current, cpu', s, x)
  BY <1>4, <1>6, <1>8, Zenon DEF ServiceFits, InKernel
<1>10. GSFits(cpu', gs') /\ gs' = [base |-> gs'.base, kernel |-> gs'.kernel]
  BY <1>1, <1>2, <1>6 DEF GSFits, MemoryInv
<1> QED
  BY <1>2, <1>7, <1>9, <1>10, SameWords DEF Fits

LEMMA ReturnsStep ==
    ASSUME EntryInv, ServiceReturns
    PROVE  EntryInv'
<1> DEFINE k == KernelStack(current)
           s == mem[k]
           x == context[current]
           regs == [cpu.regs EXCEPT !.rax = Service]
           P == PopInto(regs, mem, cpu.rsp, SyscallPopped)
<1>1. MemoryInv /\ SchedulerInv /\ CpuInv /\ IsCpu(cpu) /\ GSFits(cpu, gs) /\ Memory(mem)
  BY DEF EntryInv, CpuInv, MemoryInv
<1>2. /\ cpu' = [cpu EXCEPT !.regs = P, !.rsp = Word(mem, cpu.rsp, 15),
                            !.rip = <<"return", Service>>]
      /\ mem' = [mem EXCEPT ![cpu.rsp.stack] = SubSeq(@, 1, cpu.rsp.depth - 15)]
      /\ UNCHANGED <<gs, alive, scheduler, context, halted>>
  BY Zenon DEF ServiceReturns
<1>3. Service \in DOMAIN OSServices
  BY ServiceThere, Zenon DEF ServiceReturns
<1>4. ServiceFits(current, cpu, s, x) /\ Service = x.rax
  BY <1>1, <1>3, Modes, Zenon
<1>5. /\ cpu.rsp = Rsp(k, 15) /\ cpu.rsp.stack = k /\ cpu.rsp.depth = 15
      /\ SyscallFrame(current, s, x) /\ Calling(x) /\ current \in UserTasks
  BY <1>4, RspParts DEF ServiceFits
<1>6. /\ cpu.regs = [r \in Registers |-> cpu.regs[r]]
      /\ cpu = [regs |-> cpu.regs, rip |-> cpu.rip, cs |-> cpu.cs, flag |-> cpu.flag,
                rsp |-> cpu.rsp, ss |-> cpu.ss]
  BY <1>1, Zenon DEF IsCpu
<1>7. "rax" \in Registers
  BY RegistersAre
<1>8. regs["rax"] = x.rax
  BY <1>4, <1>6, <1>7
<1>9. Pops(P, regs, mem, cpu.rsp, SyscallPopped)
  <2>1. IsList(SyscallPopped)
    BY SyscallRegisters, SyscallKeeps DEF IsList
  <2> QED
    BY <2>1, PopsEach, Zenon
<1> HIDE DEF P, regs
<1>10. /\ P = [r \in Registers |-> P[r]]
       /\ \A i \in 1 .. 14 : P[SyscallPopped[i]] = Word(mem, cpu.rsp, i)
       /\ \A r \in Registers : ~Contains(SyscallPopped, r) => P[r] = regs[r]
  BY <1>9, SyscallRegisters DEF Pops
<1>11. ASSUME NEW i \in 1 .. 14
       PROVE  Word(mem, cpu.rsp, i) = x[SyscallPopped[i]]
  <2>1. Word(mem, cpu.rsp, i) = s[15 - i + 1]
    BY <1>5, Zenon DEF Word
  <2>2. 15 - i + 1 = 1 + (15 - i) /\ 15 - i \in 1 .. 14
    OBVIOUS
  <2>3. s[1 + (15 - i)] = x[SyscallPushed[15 - i]]
    BY <1>5, <2>2, Zenon DEF SyscallFrame
  <2>4. SyscallPopped[i] = SyscallPushed[15 - i]
    BY SyscallRegisters
  <2> QED
    BY <2>1, <2>2, <2>3, <2>4, Zenon
<1>12. P = x
  <2>1. ASSUME NEW r \in Registers
        PROVE  P[r] = x[r]
    <3>1. CASE r = "rax"
      <4>1. ~Contains(SyscallPopped, "rax")
        BY SyscallRegisters, SyscallKeeps DEF Contains
      <4> QED
        BY <1>7, <1>8, <1>10, <3>1, <4>1, Zenon
    <3>2. CASE r # "rax"
      <4>1. PICK i \in 1 .. 14 : r = SyscallPopped[i]
        BY <3>2, SyscallKeeps
      <4> QED
        BY <1>10, <1>11, <4>1, Zenon
    <3> QED
      BY <3>1, <3>2
  <2>2. x = [r \in Registers |-> x[r]]
    BY <1>5, Zenon DEF Calling
  <2>3. [r \in Registers |-> P[r]] = [r \in Registers |-> x[r]]
    BY <2>1
  <2> QED
    BY <1>10, <2>2, <2>3, Zenon
<1>13. Word(mem, cpu.rsp, 15) = Rsp(UserStack(current), 0)
  <2>1. Word(mem, cpu.rsp, 15) = s[15 - 15 + 1]
    BY <1>5, Zenon DEF Word
  <2>2. 15 - 15 + 1 = 1
    OBVIOUS
  <2> QED
    BY <1>5, <2>1, <2>2, Zenon DEF SyscallFrame
<1>14. /\ cpu'.regs = x /\ cpu'.rip = <<"return", x.rax>> /\ cpu'.cs = cpu.cs
       /\ cpu'.ss = cpu.ss /\ cpu'.flag = cpu.flag /\ cpu'.rsp = Rsp(UserStack(current), 0)
       /\ cpu' = [regs |-> cpu'.regs, rip |-> cpu'.rip, cs |-> cpu'.cs, flag |-> cpu'.flag,
                  rsp |-> cpu'.rsp, ss |-> cpu'.ss]
  <2>1. cpu' = [cpu EXCEPT !.regs = x, !.rsp = Rsp(UserStack(current), 0),
                           !.rip = <<"return", x.rax>>]
    BY <1>2, <1>4, <1>12, <1>13, Zenon
  <2> QED
    BY <1>6, <2>1
<1>15. IsCpu(cpu')
  BY <1>5, <1>14, Zenon DEF IsCpu, Calling
<1>16. FlagFits(cpu', x)
  BY <1>4, <1>14 DEF ServiceFits, FlagFits
<1>17. Returning(current, cpu', x)
  BY <1>4, <1>5, <1>14, <1>16, Zenon DEF Returning, ServiceFits, InKernel
<1>18. UNCHANGED current
  BY <1>2 DEF scheduler
<1>19. GSFits(cpu', gs')
  <2>1. ~FromUser(cpu.cs) /\ ~FromUser(cpu'.cs)
    BY <1>4, <1>14, Selectors DEF ServiceFits, InKernel
  <2>2. x.rax # "entry"
    BY <1>3, <1>4, ServiceNames
  <2>3. cpu.rip # <<"entry">> /\ cpu'.rip # <<"entry">>
    BY <1>4, <1>14, <2>2 DEF ServiceFits
  <2> QED
    BY <1>1, <1>2, <2>1, <2>3 DEF GSFits
<1>20. k \in Stacks
  BY <1>5, StacksApart DEF Tasks
<1>21. PoppedTo(mem', mem, k, 0)
  <2>1. 0 \in Nat /\ 0 <= Len(mem[k]) /\ 15 - 15 = 0
    BY <1>5 DEF SyscallFrame
  <2>2. mem' = [mem EXCEPT ![k] = SubSeq(@, 1, 0)]
    BY <1>2, <1>5, <2>1, Zenon
  <2> QED
    BY <1>1, <1>20, <2>1, <2>2, Popped
<1>22. Memory(mem') /\ \A z \in Stacks : z # k => mem'[z] = mem[z]
  BY <1>21, Zenon DEF PoppedTo
<1>23. MemoryInv'
  BY <1>1, <1>2, <1>22, Zenon DEF MemoryInv, Memory
<1>24. CpuInv'
  BY <1>2, <1>15, <1>17, <1>18, <1>19, Zenon DEF CpuInv
<1>25. \A t \in Tasks \ {current} : /\ mem'[KernelStack(t)] = mem[KernelStack(t)]
                                    /\ context'[t] = context[t]
  <2>1. \A t \in Tasks \ {current} : KernelStack(t) \in Stacks /\ KernelStack(t) # k
    BY StacksApart
  <2> QED
    BY <1>2, <1>22, <2>1
<1> QED
  BY <1>2, <1>23, <1>24, <1>25, SameTasks

LEMMA SysretStep ==
    ASSUME EntryInv, Sysret
    PROVE  EntryInv'
<1> DEFINE s == mem[KernelStack(current)]
           x == context[current]
<1>1. MemoryInv /\ SchedulerInv /\ CpuInv /\ IsCpu(cpu) /\ GSFits(cpu, gs)
  BY DEF EntryInv, CpuInv
<1>2. /\ cpu.rip[1] = "return" /\ gs' = SwapGS(gs)
      /\ cpu' = [cpu EXCEPT !.rip = cpu.regs.rcx, !.flag = cpu.regs.r11,
                            !.cs = Selector(Star.user + 16), !.ss = Selector(Star.user + 8)]
      /\ UNCHANGED <<mem, alive, scheduler, context, halted>>
  BY Zenon DEF Sysret
<1>3. Returning(current, cpu, x)
  BY <1>1, <1>2, Modes, Zenon
<1>4. /\ cpu.regs = x /\ x.rcx = <<"program">> /\ x.r11 = TRUE /\ current \in UserTasks
      /\ x = [r \in Registers |-> x[r]] /\ cpu.rsp = Rsp(UserStack(current), 0)
  BY <1>3, Zenon DEF Returning, Calling
<1>5. Selector(Star.user + 16) = UserCS /\ Selector(Star.user + 8) = UserSS
  BY DEF Star, UserCS, UserSS
<1>6. cpu = [regs |-> cpu.regs, rip |-> cpu.rip, cs |-> cpu.cs, flag |-> cpu.flag,
             rsp |-> cpu.rsp, ss |-> cpu.ss]
  BY <1>1, Zenon DEF IsCpu
<1> HIDE DEF x
<1>7. /\ cpu'.regs = x /\ cpu'.rip = <<"program">> /\ cpu'.cs = UserCS /\ cpu'.ss = UserSS
      /\ cpu'.flag = TRUE /\ cpu'.rsp = Rsp(UserStack(current), 0)
      /\ cpu' = [regs |-> cpu'.regs, rip |-> cpu'.rip, cs |-> cpu'.cs, flag |-> cpu'.flag,
                 rsp |-> cpu'.rsp, ss |-> cpu'.ss]
  <2>1. cpu' = [cpu EXCEPT !.rip = <<"program">>, !.flag = TRUE, !.cs = UserCS, !.ss = UserSS]
    BY <1>2, <1>4, <1>5, Zenon
  <2> QED
    BY <1>4, <1>6, <2>1
<1>8. IsCpu(cpu')
  BY <1>4, <1>7, Zenon DEF IsCpu
<1>9. ProgramFits(current, cpu', x)
  BY <1>4, <1>7, Zenon DEF ProgramFits
<1>10. GSFits(cpu', gs') /\ gs' = [base |-> gs'.base, kernel |-> gs'.kernel]
  <2>1. ~FromUser(cpu.cs) /\ FromUser(cpu'.cs)
    BY <1>3, <1>7, Selectors DEF Returning, InKernel
  <2>2. cpu.rip # <<"entry">>
    BY <1>2
  <2>3. gs.base = "cpu"
    BY <1>1, <2>1, <2>2 DEF GSFits
  <2> QED
    BY <1>2, <2>1, <2>3 DEF GSFits, SwapGS
<1>11. Fits(current, cpu', s, x)
  BY <1>9 DEF Fits
<1> QED
  BY <1>2, <1>8, <1>10, <1>11, SameWords, Zenon DEF x

LEMMA LoadsGSStep ==
    ASSUME EntryInv, ProgramLoadsGS
    PROVE  EntryInv'
<1>1. MemoryInv /\ SchedulerInv /\ CpuInv /\ IsCpu(cpu) /\ GSFits(cpu, gs)
  BY DEF EntryInv, CpuInv
<1>2. /\ InUser /\ gs' = [gs EXCEPT !.base = "program"]
      /\ UNCHANGED <<cpu, mem, alive, scheduler, context, halted>>
  BY Zenon DEF ProgramLoadsGS
<1>3. Fits(current, cpu, mem[KernelStack(current)], context[current])
  BY <1>1, <1>2, Modes, Zenon DEF Fits
<1>4. GSFits(cpu', gs') /\ gs' = [base |-> gs'.base, kernel |-> gs'.kernel]
  BY <1>1, <1>2 DEF GSFits, MemoryInv, InUser
<1>5. IsCpu(cpu') /\ Fits(current, cpu', mem[KernelStack(current)], context[current])
  BY <1>1, <1>2, <1>3
<1> QED
  BY <1>2, <1>4, <1>5, SameWords

-----------------------------------------------------------------------------
(* The invariant. *)

(* The frame of a program that has not run yet.                            *)
NotRunYet(t) ==
    [regs |-> Zeroed, rip |-> <<"program">>, cs |-> UserCS, flag |-> TRUE,
     rsp |-> Rsp(UserStack(t), 0), ss |-> UserSS]

LEMMA SpawnFrameIs ==
    ASSUME NEW t
    PROVE  IsStack(SpawnFrame(t)) /\ Len(SpawnFrame(t)) = 22
           /\ FrameIs(SpawnFrame(t), 22, NotRunYet(t))
<1> DEFINE S == {UserSS, Rsp(UserStack(t), 0), TRUE, UserCS, <<"program">>, 0}
           a == <<UserSS, Rsp(UserStack(t), 0), TRUE, UserCS, <<"program">>, 0, 0>>
           b == [i \in 1 .. 15 |-> 0]
           w == SpawnFrame(t)
<1>1. a \in Seq(S) /\ Len(a) = 7
  OBVIOUS
<1>2. b \in [1 .. 15 -> {0}]
  OBVIOUS
<1>3. b \in Seq({0}) /\ Len(b) = 15 /\ \A i \in 1 .. 15 : b[i] = 0
  BY <1>2
<1>4. /\ a[1] = UserSS /\ a[2] = Rsp(UserStack(t), 0) /\ a[3] = TRUE /\ a[4] = UserCS
      /\ a[5] = <<"program">>
  OBVIOUS
<1>5. IsStack(a) /\ IsStack(b)
  BY <1>1, <1>3 DEF IsStack
<1>6. w = a \o b
  BY Zenon DEF SpawnFrame
<1> HIDE DEF a, b, w
<1>7. Joins(w, a, b)
  BY <1>5, <1>6, StacksAppend, Zenon
<1>8. /\ IsStack(w) /\ Len(w) = Len(a) + Len(b) /\ \A i \in 1 .. Len(a) : w[i] = a[i]
      /\ \A i \in 1 .. Len(b) : w[Len(a) + i] = b[i]
  BY <1>7, Zenon DEF Joins
<1>9. /\ Len(w) = 22 /\ \A i \in 1 .. 7 : w[i] = a[i]
      /\ \A i \in 1 .. 15 : w[7 + i] = 0
  BY <1>1, <1>3, <1>8
<1>10. /\ w[1] = UserSS /\ w[2] = Rsp(UserStack(t), 0) /\ w[3] = TRUE /\ w[4] = UserCS
       /\ w[5] = <<"program">>
  <2>1. 1 \in 1 .. 7 /\ 2 \in 1 .. 7 /\ 3 \in 1 .. 7 /\ 4 \in 1 .. 7 /\ 5 \in 1 .. 7
    OBVIOUS
  <2> QED
    BY <1>4, <1>9, <2>1, Zenon
<1> DEFINE c == NotRunYet(t)
<1>11. /\ c.regs = Zeroed /\ c.rip = <<"program">> /\ c.cs = UserCS /\ c.flag = TRUE
       /\ c.rsp = Rsp(UserStack(t), 0) /\ c.ss = UserSS
  BY DEF NotRunYet
<1> HIDE DEF c
<1>12. \A i \in 1 .. 15 : Zeroed[PUSHALL[i]] = 0
  <2>1. \A i \in 1 .. 15 : PUSHALL[i] \in Registers
    BY RegistersAre DEF PUSHALL
  <2> QED
    BY <2>1 DEF Zeroed
<1>13. ASSUME NEW i \in 1 .. 15
       PROVE  w[22 - 15 + i] = c.regs[PUSHALL[i]]
  <2>1. 22 - 15 + i = 7 + i
    OBVIOUS
  <2> QED
    BY <1>9, <1>11, <1>12, <2>1, Zenon
<1>14. 22 - 21 = 1 /\ 22 - 20 = 2 /\ 22 - 19 = 3 /\ 22 - 18 = 4 /\ 22 - 17 = 5
  OBVIOUS
<1>15. FrameIs(w, 22, c)
  BY <1>10, <1>11, <1>13, <1>14, Zenon DEF FrameIs
<1> QED
  BY <1>8, <1>9, <1>15 DEF w, c

LEMMA InitiallyEntryInv == Init => EntryInv
<1> SUFFICES ASSUME Init
             PROVE  EntryInv
  OBVIOUS
<1>1. /\ cpu = [regs |-> Zeroed, rip |-> <<"kernel">>, cs |-> KernelCS, ss |-> KernelSS,
                flag |-> TRUE, rsp |-> Rsp(KernelStack(KernelTask), 0)]
      /\ gs = [base |-> "cpu", kernel |-> "cpu"]
      /\ mem = [s \in Stacks |-> IF \E t \in UserTasks : s = KernelStack(t)
                                THEN SpawnFrame(s[2]) ELSE << >>]
      /\ current = KernelTask /\ alive = Tasks
      /\ stackPointer = [t \in Tasks |-> Rsp(KernelStack(t), IF t = KernelTask THEN 0 ELSE 22)]
      /\ rsp0 = KernelTask /\ kernelStackPointer = KernelTask
      /\ context = [t \in Tasks |-> Zeroed]
      /\ halted = << >>
  BY Zenon DEF Init
<1>2. KernelTask \in Tasks
  BY DEF Tasks
<1>3. Zeroed = [r \in Registers |-> Zeroed[r]]
  BY DEF Zeroed
<1>4. \A s \in Stacks : mem[s] = IF \E t \in UserTasks : s = KernelStack(t)
                                 THEN SpawnFrame(s[2]) ELSE << >>
  BY <1>1
<1>5. IsStack(<< >>)
  <2>1. << >> \in Seq({})
    OBVIOUS
  <2> QED
    BY <2>1 DEF IsStack
<1>6. MemoryInv
  <2>1. mem = [s \in Stacks |-> mem[s]]
    BY <1>1
  <2>2. \A s \in Stacks : IsStack(mem[s])
    <3>1. \A t : IsStack(SpawnFrame(t))
      BY SpawnFrameIs, Zenon
    <3>2. SUFFICES ASSUME NEW s \in Stacks
                   PROVE  IsStack(mem[s])
      OBVIOUS
    <3>3. CASE \E t \in UserTasks : s = KernelStack(t)
      BY <1>4, <3>1, <3>3, Zenon
    <3>4. CASE ~\E t \in UserTasks : s = KernelStack(t)
      BY <1>4, <1>5, <3>4, Zenon
    <3> QED
      BY <3>3, <3>4
  <2>3. Memory(mem)
    BY <2>1, <2>2, Zenon DEF Memory
  <2>4. /\ context = [t \in Tasks |-> context[t]]
        /\ \A t \in Tasks : context[t] = [r \in Registers |-> context[t][r]]
    BY <1>1, <1>3
  <2>5. gs = [base |-> gs.base, kernel |-> gs.kernel]
    BY <1>1
  <2> QED
    BY <2>3, <2>4, <2>5, Zenon DEF MemoryInv
<1>7. SchedulerInv
  BY <1>1, <1>2 DEF SchedulerInv
<1>8. CpuInv
  <2>1. cpu.regs = Zeroed /\ cpu.rip = <<"kernel">> /\ cpu.cs = KernelCS /\ cpu.ss = KernelSS
        /\ cpu.flag = TRUE /\ cpu.rsp = Rsp(KernelStack(KernelTask), 0)
        /\ cpu = [regs |-> cpu.regs, rip |-> cpu.rip, cs |-> cpu.cs, flag |-> cpu.flag,
                  rsp |-> cpu.rsp, ss |-> cpu.ss]
    BY <1>1
  <2>2. IsCpu(cpu)
    BY <1>3, <2>1, Zenon DEF IsCpu
  <2>3. GSFits(cpu, gs)
    BY <1>1 DEF GSFits
  <2>4. KernelFits(current, cpu)
    BY <1>1, <2>1, Zenon DEF KernelFits, InKernel
  <2> QED
    BY <2>2, <2>3, <2>4, Zenon DEF CpuInv, Fits
<1>9. SavedInv
  <2>1. SUFFICES ASSUME NEW t \in alive \ {current}
                 PROVE  Saved(t, stackPointer[t], mem[KernelStack(t)], context[t])
    BY Zenon DEF SavedInv
  <2>2. t \in UserTasks /\ t \in Tasks /\ t # KernelTask
    BY <1>1, <2>1 DEF Tasks
  <2>3. mem[KernelStack(t)] = SpawnFrame(t)
    <3>1. KernelStack(t) \in Stacks
      BY <2>2, StacksApart
    <3>2. KernelStack(t)[2] = t
      BY DEF KernelStack
    <3>3. \E u \in UserTasks : KernelStack(t) = KernelStack(u)
      BY <2>2, Zenon
    <3> QED
      BY <1>4, <3>1, <3>2, <3>3, Zenon
  <2>4. stackPointer[t] = Rsp(KernelStack(t), 22) /\ context[t] = Zeroed
    BY <1>1, <2>2
  <2> DEFINE c == NotRunYet(t)
  <2>5. /\ c.regs = Zeroed /\ c.rip = <<"program">> /\ c.cs = UserCS /\ c.flag = TRUE
        /\ c.rsp = Rsp(UserStack(t), 0) /\ c.ss = UserSS
        /\ c = [regs |-> c.regs, rip |-> c.rip, cs |-> c.cs, flag |-> c.flag,
                rsp |-> c.rsp, ss |-> c.ss]
    BY DEF NotRunYet
  <2> HIDE DEF c
  <2>6. IsCpu(c)
    BY <1>3, <2>5, Zenon DEF IsCpu
  <2>7. Fits(t, c, mem[KernelStack(t)], context[t])
    BY <2>2, <2>4, <2>5, Zenon DEF Fits, ProgramFits
  <2>8. Depth(c) = 0
    BY <2>5, Selectors DEF Depth
  <2>9. /\ stackPointer[t] = Rsp(KernelStack(t), Depth(c) + 22)
        /\ Depth(c) + 22 <= Len(mem[KernelStack(t)])
        /\ FrameIs(mem[KernelStack(t)], Depth(c) + 22, c)
    <3>1. 0 + 22 = 22 /\ 22 <= 22
      OBVIOUS
    <3>2. Len(mem[KernelStack(t)]) = 22 /\ FrameIs(mem[KernelStack(t)], 22, c)
      BY <2>3, SpawnFrameIs, Zenon DEF c
    <3> QED
      BY <2>4, <2>8, <3>1, <3>2, Zenon
  <2> QED
    BY <2>6, <2>7, <2>9, Zenon DEF Saved
<1>10. FaultContained
  <2>1. SUFFICES ASSUME NEW t \in alive
                 PROVE  stackPointer[t].stack # gHALDoubleFaultStack
    BY <1>1 DEF FaultContained
  <2>2. \E d : stackPointer[t] = Rsp(KernelStack(t), d)
    BY <1>1, <2>1
  <2> QED
    BY <2>2, RspParts, StacksApart
<1> QED
  BY <1>6, <1>7, <1>8, <1>9, <1>10 DEF EntryInv

LEMMA EntryInvKept == EntryInv /\ [Next]_vars => EntryInv'
<1>1. ASSUME EntryInv, Next
      PROVE  EntryInv'
  BY <1>1, TimerStep, KeyboardStep, UserFaultStep, BreakpointStep, SyscallStep, EntryStep,
     DispatchStep, EnablesStep, ServiceSwitchesStep, ServiceFaultStep, ReturnsStep, SysretStep,
     LoadsGSStep, Zenon
  DEF Next
<1>2. ASSUME EntryInv, UNCHANGED vars
      PROVE  EntryInv'
  BY <1>2, Zenon
  DEF EntryInv, MemoryInv, Memory, SchedulerInv, CpuInv, SavedInv, FaultContained, vars, scheduler
<1> QED
  BY <1>1, <1>2

LEMMA EntryInvariant == Spec => []EntryInv
  BY InitiallyEntryInv, EntryInvKept, PTL DEF Spec

LEMMA ContextIsKept == EntryInv => ContextKept
<1> SUFFICES ASSUME EntryInv
             PROVE  ContextKept
  OBVIOUS
<1> DEFINE s == mem[KernelStack(current)]
           x == context[current]
<1>1. MemoryInv /\ SchedulerInv /\ CpuInv
  BY DEF EntryInv
<1>2. InUser => /\ cpu.regs = x /\ cpu.rip = <<"program">> /\ cpu.flag
                /\ cpu.rsp = Rsp(UserStack(current), 0)
  <2>1. InUser => ProgramFits(current, cpu, x)
    BY <1>1, Modes, Zenon
  <2> QED
    BY <2>1 DEF ProgramFits
<1>3. ASSUME cpu.rip = <<"dispatch">>
      PROVE  /\ cpu.regs.rdi = <<"number", OSServices[x.rax]>>
             /\ syscall_dispatch[cpu.regs.rdi[2] + 1] = x.rax
             /\ <<cpu.regs.rsi, cpu.regs.rdx, cpu.regs.rcx, cpu.regs.r8, cpu.regs.r9>> =
                    << <<current, "rdi">>, <<current, "rsi">>, <<current, "rdx">>,
                       <<current, "r10">>, <<current, "r8">> >>
  <2>1. AtDispatch(current, cpu, s, x)
    BY <1>1, <1>3, Modes, Zenon
  <2>2. cpu.regs.rdi = <<"number", OSServices[x.rax]>> /\ x.rax \in DOMAIN OSServices
    BY <2>1, Zenon DEF AtDispatch, Calling
  <2>3. cpu.regs.rdi[2] = OSServices[x.rax]
    BY <2>2
  <2>4. syscall_dispatch[cpu.regs.rdi[2] + 1] = x.rax
    BY <2>2, <2>3, ServiceNames, Zenon
  <2>5. <<cpu.regs.rsi, cpu.regs.rdx, cpu.regs.rcx, cpu.regs.r8, cpu.regs.r9>> =
            << <<current, "rdi">>, <<current, "rsi">>, <<current, "rdx">>,
               <<current, "r10">>, <<current, "r8">> >>
    BY <2>1, Zenon DEF AtDispatch
  <2> QED
    BY <2>2, <2>4, <2>5
<1> QED
  BY <1>2, <1>3, Zenon DEF ContextKept

(* Whatever interrupts a program, and whoever runs meanwhile: when it runs *)
(* again its registers, stack, place and interrupt flag are what it left,  *)
(* and syscall_dispatch gets the number and the arguments of its call      *)
(* where C expects them (interrupts.asm, syscall.asm, OSSchedulerSpawn's   *)
(* frame), for any number of tasks and any exceptions.                     *)
THEOREM ContextAlwaysKept == Spec => []ContextKept
  BY EntryInvariant, ContextIsKept, PTL

(* Whatever faults programs raise in ring 3 and whatever pointers they pass*)
(* to the services: isr_handler_c panics only where a service followed such*)
(* a pointer in ring 0, never for a fault of ring 3, which ends its program*)
(* only; no task that goes on keeps its frame on the one fault stack; and  *)
(* the stack is lost nowhere but behind the `pop rsp` of a read that had to*)
(* wait.                                                                   *)
THEOREM FaultsAlwaysContained == Spec => []FaultContained
<1>1. EntryInv => FaultContained
  BY DEF EntryInv
<1> QED
  BY <1>1, EntryInvariant, PTL

(* Wherever the kernel uses GS or may be interrupted, swapgs has made it   *)
(* gOSBootCPU, whatever a program has loaded into the selector: no path    *)
(* into or out of the kernel swaps once too often or not at all.           *)
THEOREM KernelGSAlwaysFound == Spec => []KernelGSFound
<1>1. EntryInv => KernelGSFound
  <2> SUFFICES ASSUME EntryInv
               PROVE  KernelGSFound
    OBVIOUS
  <2>1. GSFits(cpu, gs)
    BY DEF EntryInv, CpuInv
  <2>2. cpu.rip[1] # "entry" => cpu.rip # <<"entry">>
    OBVIOUS
  <2> QED
    BY <2>1, <2>2 DEF KernelGSFound, GSFits, InUser
<1> QED
  BY <1>1, EntryInvariant, PTL
=============================================================================
