----------------------------- MODULE IOKeyboard -----------------------------
(***************************************************************************)
(* The keyboard driver (src/kernel/src/IO/IOKeyboard.c): the interrupt     *)
(* handler that translates scancodes into a ring buffer, and the readers   *)
(* that take characters out of it, kernel tasks (the kernel shell) and     *)
(* processes inside OSServiceIORead.  Both use the controller's spinlock   *)
(* (OSSpinlock.c); there is one CPU.                                       *)
(*                                                                         *)
(* A reader is interrupted between any two steps while its interrupt flag  *)
(* is set.  The handler runs behind an interrupt gate, flag clear, so it is*)
(* one step, unless it finds the lock held: then it spins for ever.        *)
(***************************************************************************)
EXTENDS Integers, Sequences

CONSTANTS
    Readers,        \* tasks that read the keyboard
    UserReaders,    \* those that are processes, and read by a system call
    Nobody,         \* no reader: the CPU is with some other task
    BufferSize,     \* kIOKeyboardBufferSize
    MaxCount,       \* largest count of one read (bound)
    MaxWire         \* scancodes the keyboard controller holds (bound)

ASSUME IOKeyboardAssumption ==
    /\ UserReaders \subseteq Readers /\ Nobody \notin Readers
    /\ BufferSize \in Nat /\ BufferSize >= 2
    /\ MaxCount \in Nat /\ MaxWire \in Nat

VARIABLES
    head, tail, buffer, lock,   \* gIOKeyboardController
    shift,                      \* sIOKeyboardIsShiftPressed
    wire,                       \* scancodes not yet read from port 0x60
    running,                    \* the reader on the CPU, or Nobody
    interrupts,                 \* the interrupt flag of each reader
    saved,                      \* OSSpinlockState of each reader
    pc, ascii, remaining,       \* where each reader is, and its locals
    spinning                    \* the handler waits for the lock, for ever

controller == <<head, tail, buffer>>
reader == <<interrupts, saved, pc, ascii, remaining>>
vars == <<controller, lock, shift, wire, running, reader, spinning>>

(* Scancodes: a letter key, left shift down and up, and a key without a    *)
(* character.  0 is the character of a key that has none.                  *)
LetterMake == 30        \* 0x1E
ShiftMake == 42         \* 0x2A
ShiftBreak == 170       \* 0xAA
LetterBreak == 158      \* 0x9E
Scancodes == {LetterMake, ShiftMake, ShiftBreak, LetterBreak}
Characters == {"a", "A"}
NoCharacter == ""

sIOKeyboardMap(s) == IF s = LetterMake THEN "a" ELSE NoCharacter
sIOKeyboardMapShifted(s) == IF s = LetterMake THEN "A" ELSE NoCharacter

Init ==
    /\ head = 0 /\ tail = 0 /\ lock = 0
    /\ buffer = [i \in 0 .. BufferSize - 1 |-> NoCharacter]
    /\ shift = FALSE /\ spinning = FALSE
    /\ wire = << >>
    /\ running = Nobody
    /\ interrupts = [r \in Readers |-> TRUE]
    /\ saved = [r \in Readers |-> FALSE]
    /\ pc = [r \in Readers |-> "idle"]
    /\ ascii = [r \in Readers |-> NoCharacter]
    /\ remaining = [r \in Readers |-> 0]

-----------------------------------------------------------------------------
(* The keyboard and the interrupts.                                        *)

(* A key goes down or up.  (The keyboard's own buffer is not modelled      *)
(* beyond MaxWire scancodes.)                                              *)
KeyStroke ==
    /\ ~spinning /\ Len(wire) < MaxWire
    /\ \E s \in Scancodes : wire' = Append(wire, s)
    /\ UNCHANGED <<controller, lock, shift, running, reader, spinning>>

InterruptsEnabled == running # Nobody => interrupts[running]

nextHead == (head + 1) % BufferSize

(* Mutant: a full buffer is not noticed.                                   *)
HandleMakeUnchecked(s) ==
    LET keyMap(c) == IF shift THEN sIOKeyboardMapShifted(c) ELSE sIOKeyboardMap(c)
    IN  IF keyMap(s) # NoCharacter
        THEN /\ buffer' = [buffer EXCEPT ![head] = keyMap(s)]
             /\ head' = nextHead
             /\ UNCHANGED shift
        ELSE /\ shift' = (shift \/ s = ShiftMake)
             /\ UNCHANGED <<buffer, head>>

(* A make code: keep the character if there is one and there is room.      *)
HandleMake(s) ==
    LET keyMap(c) == IF shift THEN sIOKeyboardMapShifted(c) ELSE sIOKeyboardMap(c)
    IN  IF keyMap(s) # NoCharacter /\ nextHead # tail
        THEN /\ buffer' = [buffer EXCEPT ![head] = keyMap(s)]
             /\ head' = nextHead
             /\ UNCHANGED shift
        ELSE /\ shift' = (shift \/ s = ShiftMake)
             /\ UNCHANGED <<buffer, head>>

HandleBreak(s) ==
    /\ shift' = (shift /\ s # ShiftBreak)
    /\ UNCHANGED <<buffer, head>>

IOKeyboardInterruptsHandler ==
    /\ ~spinning /\ InterruptsEnabled /\ wire # << >>
    /\ \/ /\ lock = 1
          /\ spinning' = TRUE
          /\ UNCHANGED <<buffer, head, shift, wire>>
       \/ /\ lock = 0
          /\ wire' = Tail(wire)
          /\ IF Head(wire) < 128 THEN HandleMake(Head(wire)) ELSE HandleBreak(Head(wire))
          /\ UNCHANGED spinning
    /\ UNCHANGED <<tail, lock, running, reader>>

(* The timer: the scheduler goes on with any task.                         *)
TimerInterrupt(t) ==
    /\ ~spinning /\ InterruptsEnabled
    /\ running' = t
    /\ UNCHANGED <<controller, lock, shift, wire, reader, spinning>>

-----------------------------------------------------------------------------
(* The readers.                                                            *)

At(r, label) == ~spinning /\ running = r /\ pc[r] = label
Goto(r, label) == pc' = [pc EXCEPT ![r] = label]

(* OSServiceIORead, or a kernel task's call of IOKeyboardGetCharacter.     *)
(* SYSCALL clears the interrupt flag (FMASK).                              *)
Read(r) ==
    /\ At(r, "idle")
    /\ \E count \in 1 .. IF r \in UserReaders THEN MaxCount ELSE 1 :
           remaining' = [remaining EXCEPT ![r] = count]
    /\ interrupts' = [interrupts EXCEPT ![r] = r \notin UserReaders]
    /\ Goto(r, "lock")
    /\ UNCHANGED <<controller, lock, shift, wire, running, saved, ascii, spinning>>

(* Mutant: interrupts stay enabled while the lock is held.                 *)
LockIRQNoCli(r) ==
    /\ At(r, "lock")
    /\ saved' = [saved EXCEPT ![r] = interrupts[r]]
    /\ Goto(r, "acquire")
    /\ UNCHANGED <<controller, lock, shift, wire, running, interrupts, ascii,
                   remaining, spinning>>

(* OSSpinlockLockIRQ: save the flag and clear it, then take the lock.      *)
LockIRQ(r) ==
    /\ At(r, "lock")
    /\ saved' = [saved EXCEPT ![r] = interrupts[r]]
    /\ interrupts' = [interrupts EXCEPT ![r] = FALSE]
    /\ Goto(r, "acquire")
    /\ UNCHANGED <<controller, lock, shift, wire, running, ascii, remaining,
                   spinning>>

Acquire(r) ==
    /\ At(r, "acquire") /\ lock = 0
    /\ lock' = 1
    /\ Goto(r, "test")
    /\ UNCHANGED <<controller, shift, wire, running, interrupts, saved, ascii,
                   remaining, spinning>>

(* Mutant: a single waiting character is not noticed.                      *)
TestOffByOne(r) ==
    /\ At(r, "test")
    /\ \/ /\ head # tail /\ head # (tail + 1) % BufferSize
          /\ ascii' = [ascii EXCEPT ![r] = buffer[tail]]
          /\ Goto(r, "advance")
       \/ /\ head = tail \/ head = (tail + 1) % BufferSize
          /\ Goto(r, "unlockEmpty")
          /\ UNCHANGED ascii
    /\ UNCHANGED <<controller, lock, shift, wire, running, interrupts, saved,
                   remaining, spinning>>

Test(r) ==
    /\ At(r, "test")
    /\ \/ /\ head # tail
          /\ ascii' = [ascii EXCEPT ![r] = buffer[tail]]
          /\ Goto(r, "advance")
       \/ /\ head = tail
          /\ Goto(r, "unlockEmpty")
          /\ UNCHANGED ascii
    /\ UNCHANGED <<controller, lock, shift, wire, running, interrupts, saved,
                   remaining, spinning>>

Advance(r) ==
    /\ At(r, "advance")
    /\ tail' = (tail + 1) % BufferSize
    /\ Goto(r, "unlock")
    /\ UNCHANGED <<head, buffer, lock, shift, wire, running, interrupts, saved,
                   ascii, remaining, spinning>>

(* OSSpinlockUnlockIRQ: release, then set the flag if it was set before.   *)
Unlock(r) ==
    /\ \/ At(r, "unlock") /\ Goto(r, "restore")
       \/ At(r, "unlockEmpty") /\ Goto(r, "restoreEmpty")
    /\ lock' = 0
    /\ UNCHANGED <<controller, shift, wire, running, interrupts, saved, ascii,
                   remaining, spinning>>

(* (The saved flag is dead from here on; it is cleared to save states.)    *)
RestoreFlag(r) ==
    /\ interrupts' = [interrupts EXCEPT ![r] = @ \/ saved[r]]
    /\ saved' = [saved EXCEPT ![r] = FALSE]

(* The character is returned; the read goes on until it has them all.      *)
Restore(r) ==
    /\ At(r, "restore")
    /\ RestoreFlag(r)
    /\ remaining' = [remaining EXCEPT ![r] = @ - 1]
    /\ ascii' = [ascii EXCEPT ![r] = NoCharacter]
    /\ Goto(r, IF remaining[r] > 1 THEN "lock" ELSE "return")
    /\ UNCHANGED <<controller, lock, shift, wire, running, spinning>>

RestoreEmpty(r) ==
    /\ At(r, "restoreEmpty")
    /\ RestoreFlag(r)
    /\ Goto(r, "sti")
    /\ UNCHANGED <<controller, lock, shift, wire, running, ascii, remaining,
                   spinning>>

Sti(r) ==
    /\ At(r, "sti")
    /\ interrupts' = [interrupts EXCEPT ![r] = TRUE]
    /\ Goto(r, "yield")
    /\ UNCHANGED <<controller, lock, shift, wire, running, saved, ascii,
                   remaining, spinning>>

(* OSSchedulerYield(1): some other task runs, this one comes back later.   *)
Yield(r, t) ==
    /\ At(r, "yield")
    /\ Goto(r, "lock")
    /\ running' = t
    /\ UNCHANGED <<controller, lock, shift, wire, interrupts, saved, ascii,
                   remaining, spinning>>

(* Back to the caller: syscall_entry switches to the user's stack and      *)
(* SYSRET restores the user's flags.                                       *)
Return(r) ==
    /\ At(r, "return")
    /\ interrupts' = [interrupts EXCEPT ![r] = TRUE]
    /\ Goto(r, "idle")
    /\ UNCHANGED <<controller, lock, shift, wire, running, saved, ascii,
                   remaining, spinning>>

GetCharacter(r) ==
    \/ LockIRQ(r) \/ Acquire(r) \/ Test(r) \/ Advance(r) \/ Unlock(r)
    \/ Restore(r) \/ RestoreEmpty(r) \/ Sti(r) \/ Return(r)
    \/ \E t \in Readers \cup {Nobody} : Yield(r, t)

Next ==
    \/ KeyStroke \/ IOKeyboardInterruptsHandler
    \/ \E t \in Readers \cup {Nobody} : TimerInterrupt(t)
    \/ \E r \in Readers : Read(r) \/ GetCharacter(r)

Spec == Init /\ [][Next]_vars

(* A reader gets on while it has the CPU, gets the CPU again and again     *)
(* (OSScheduler's EveryReadyTaskRuns), and pending interrupts are taken    *)
(* when the flag is set again and again.                                   *)
FairSpec ==
    /\ Spec
    /\ SF_vars(IOKeyboardInterruptsHandler)
    /\ \A r \in Readers : SF_vars(GetCharacter(r)) /\ SF_vars(TimerInterrupt(r))

-----------------------------------------------------------------------------
(* Properties. *)

(* Nobody waits for the spinlock: with one CPU its holder could not run to *)
(* release it.  The handler never finds it held, nor does a reader.        *)
NobodySpins ==
    /\ ~spinning
    /\ \A r \in Readers : running = r /\ pc[r] = "acquire" => lock = 0

(* Whether shift is held when the i-th scancode on the wire is read: it    *)
(* went down behind the last break, or is down and there is no break.      *)
ShiftBefore(i) ==
    LET NoBreak(from) == \A k \in from .. i - 1 : wire[k] # ShiftBreak
    IN  \/ shift /\ NoBreak(1)
        \/ \E j \in 1 .. i - 1 : wire[j] = ShiftMake /\ NoBreak(j + 1)

(* The characters on the wire, translated with the shift state each one    *)
(* was typed in.                                                           *)
Typing ==
    [i \in 1 .. Len(wire) |-> IF wire[i] # LetterMake THEN NoCharacter
                              ELSE IF ShiftBefore(i) THEN "A" ELSE "a"]

(* The waiting characters: the ring buffer from tail up to head.           *)
Queue ==
    [i \in 1 .. (head - tail + BufferSize) % BufferSize |->
        buffer[(tail + i - 1) % BufferSize]]

(* What each reader has taken in the call it is in.                        *)
Result ==
    [r \in Readers |-> IF pc[r] \in {"unlock", "restore"} THEN ascii[r] ELSE NoCharacter]

(* The driver is a bounded queue: in order, each character once, upper case*)
(* exactly when shift was held, lost only with BufferSize - 1 waiting.     *)
Q == INSTANCE InputQueue WITH Capacity <- BufferSize - 1, NoResult <- NoCharacter,
                              typing <- Typing, queue <- Queue, result <- Result

ImplementsInputQueue == Q!Spec

(* A waiting character is taken as long as somebody is reading.            *)
BufferDrains ==
    (head # tail /\ \E r \in Readers : remaining[r] > 0)
        ~> (\/ \E r \in Readers : pc[r] = "advance"
            \/ \A r \in Readers : remaining[r] = 0)
=============================================================================
