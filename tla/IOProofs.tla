------------------------------ MODULE IOProofs ------------------------------
(***************************************************************************)
(* Proofs about the console and the keyboard driver.  For every screen and *)
(* font, the cursor stays on the screen and nothing is drawn outside the   *)
(* framebuffer (IOConsole).  For every set of readers and every buffer     *)
(* size, the spinlock of the keyboard driver is never waited for, and the  *)
(* driver is a bounded queue of characters (IOKeyboard.c, OSSpinlock.c).   *)
(***************************************************************************)
EXTENDS IOConsole, IOKeyboard, TLAPS

-----------------------------------------------------------------------------
(* The console. *)

(* A remainder is a natural number below its modulus. *)
LEMMA ModType ==
    ASSUME NEW n \in Int
    PROVE  n % Word \in Nat /\ n % Word < Word
  BY ConsoleAssumption

(* What is known of the constants. *)
LEMMA Constants ==
    /\ Word \in Nat \ {0}
    /\ FontWidth \in Nat \ {0} /\ FontHeight \in Nat \ {0}
    /\ FontWidth < Word /\ FontHeight < Word
  BY ConsoleAssumption

(* What is known of a screen. *)
LEMMA ScreenFacts ==
    ASSUME NEW s \in Screens
    PROVE  /\ s.width \in Nat \ {0} /\ s.height \in Nat \ {0} /\ s.pixelsPerScanLine \in Nat
           /\ s.width <= s.pixelsPerScanLine /\ s.height * s.pixelsPerScanLine <= Word
           /\ s.width + FontWidth <= Word /\ s.height + FontHeight <= Word
<1>1. s \in IOGraphicsContext
  BY ConsoleAssumption
<1>2. /\ s.width <= s.pixelsPerScanLine /\ s.height * s.pixelsPerScanLine <= Word
      /\ s.width + FontWidth * 4 <= Word /\ s.height + 2 * FontHeight <= Word
  BY ConsoleAssumption
<1> QED
  BY <1>1, <1>2, Constants DEF IOGraphicsContext

(* A point is a pair of natural numbers. *)
LEMMA PointType ==
    ASSUME NEW px \in Int, NEW py \in Int
    PROVE  /\ Point(px, py) \in [x : Nat, y : Nat]
           /\ Point(px, py).x = px % Word /\ Point(px, py).y = py % Word
  BY ModType DEF Point

(* The invariant: the cursor is on the screen, and so is every position    *)
(* that the running call still has to set.                                 *)
ConsoleInv ==
    /\ context \in Screens
    /\ cursor \in [x : Nat, y : Nat]
    /\ OnScreen(cursor)
    /\ output \in Seq(Operation)

(* The corner of the screen is on it. *)
LEMMA CornerOnScreen ==
    ASSUME context \in Screens
    PROVE  Point(0, 0) \in [x : Nat, y : Nat] /\ OnScreen(Point(0, 0))
<1>1. Point(0, 0) \in [x : Nat, y : Nat] /\ Point(0, 0).x = 0 /\ Point(0, 0).y = 0
  BY PointType, Constants
<1> QED
  BY <1>1, ScreenFacts DEF OnScreen

(* A character leaves the cursor on the screen. *)
LEMMA PutcharacterStays ==
    ASSUME ConsoleInv, NEW c, IOConsolePutcharacter(c)
    PROVE  cursor' \in [x : Nat, y : Nat] /\ cursor'.x < context.width /\ cursor'.y < context.height
<1> DEFINE a == CursorAfter(c)
           p == Wrapped(a)
<1>1. a \in [x : Nat, y : Nat]
  <2>1. cursor.x \in Nat /\ cursor.y \in Nat
    BY DEF ConsoleInv
  <2>2. /\ cursor.y + FontHeight \in Int /\ cursor.x + FontWidth * 4 \in Int
        /\ cursor.x + Word - FontWidth \in Int /\ cursor.x + FontWidth \in Int
    BY <2>1, Constants
  <2>3. /\ Point(0, cursor.y + FontHeight) \in [x : Nat, y : Nat]
        /\ Point(cursor.x + FontWidth * 4, cursor.y) \in [x : Nat, y : Nat]
        /\ Point(cursor.x + Word - FontWidth, cursor.y) \in [x : Nat, y : Nat]
        /\ Point(cursor.x + FontWidth, cursor.y) \in [x : Nat, y : Nat]
    <3>1. 0 \in Int /\ cursor.y \in Int
      BY <2>1
    <3> QED
      BY <2>2, <3>1, PointType, Zenon
  <2>4. CASE c = "newline"
    BY <2>3, <2>4 DEF CursorAfter
  <2>5. CASE c = "tab"
    BY <2>3, <2>5 DEF CursorAfter
  <2>6. CASE c = "backspace"
    BY <2>3, <2>6 DEF CursorAfter
  <2>7. CASE c # "newline" /\ c # "tab" /\ c # "backspace"
    BY <2>3, <2>7 DEF CursorAfter
  <2> QED
    BY <2>4, <2>5, <2>6, <2>7
<1>2. p \in [x : Nat, y : Nat] /\ p.x < context.width
  <2>1. a.y + FontHeight \in Int
    BY <1>1, Constants
  <2>2. Point(0, a.y + FontHeight) \in [x : Nat, y : Nat] /\ Point(0, a.y + FontHeight).x = 0
    <3> HIDE DEF a
    <3>1. 0 % Word = 0
      BY Constants
    <3> QED
      BY <2>1, <3>1, PointType
  <2>3. context.width \in Nat \ {0}
    BY ScreenFacts DEF ConsoleInv
  <2> HIDE DEF a
  <2>4. CASE a.x >= context.width
    BY <2>2, <2>3, <2>4 DEF Wrapped
  <2>5. CASE ~(a.x >= context.width)
    BY <1>1, <2>3, <2>5 DEF Wrapped
  <2> QED
    BY <2>4, <2>5
<1>3. context.height \in Nat
  BY ScreenFacts DEF ConsoleInv
<1> HIDE DEF a, p
<1>4. CASE p.y >= context.height
  <2>1. cursor' = Point(0, 0)
    BY <1>4 DEF IOConsolePutcharacter, IOConsoleClear, p, a
  <2> QED
    BY <2>1, CornerOnScreen DEF OnScreen, ConsoleInv
<1>5. CASE ~(p.y >= context.height)
  <2>1. cursor' = p
    BY <1>5 DEF IOConsolePutcharacter, p, a
  <2> QED
    BY <1>2, <1>3, <1>5, <2>1
<1> QED
  BY <1>4, <1>5

(* The initial state has the invariant. *)
LEMMA InitialConsole ==
    ASSUME ConsoleInit
    PROVE  ConsoleInv
<1>1. << >> \in Seq(Operation)
  OBVIOUS
<1> QED
  BY <1>1, CornerOnScreen DEF ConsoleInit, ConsoleInv

(* Every step keeps it. *)
LEMMA StepKeepsConsole ==
    ASSUME ConsoleInv, [Emit \/ Calls]_console
    PROVE  ConsoleInv'
<1>1. CASE UNCHANGED console
  BY <1>1 DEF ConsoleInv, OnScreen, Operation, console
<1>2. CASE Calls
  BY <1>2 DEF Calls, ConsoleInv, OnScreen, Operation
<1>3. CASE Emit
  <2>1. context' = context /\ Operation' = Operation
    BY <1>3 DEF Emit, Operation, OnScreen
  <2>2. output # << >>
    BY <1>3 DEF Emit, DoPut, DoColor, DoClear, DoCursor, DoImage, Is
  <2>3. output[1] \in Operation /\ Tail(output) \in Seq(Operation)
    BY <2>2 DEF ConsoleInv
  <2>4. output' \in Seq(Operation')
    BY <1>3, <2>1, <2>3 DEF Emit
  <2>5. cursor' \in [x : Nat, y : Nat] /\ cursor'.x < context.width /\ cursor'.y < context.height
    <3>1. CASE DoPut
      BY <3>1, PutcharacterStays DEF DoPut
    <3>2. CASE DoColor \/ DoImage
      BY <3>2 DEF DoColor, DoImage, ConsoleInv, OnScreen
    <3>3. CASE DoClear
      BY <3>3, CornerOnScreen DEF DoClear, IOConsoleClear, ConsoleInv, OnScreen
    <3>4. CASE DoCursor
      <4>1. output[1][1] = "cursor" /\ cursor' = output[1][2]
        BY <3>4 DEF DoCursor, Is, Argument
      <4>2. output[1] \in {"cursor"} \X {p \in [x : Nat, y : Nat] : OnScreen(p)}
        BY <2>3, <4>1 DEF Operation
      <4> QED
        BY <4>1, <4>2 DEF OnScreen
    <3> QED
      BY <1>3, <3>1, <3>2, <3>3, <3>4 DEF Emit
  <2> QED
    BY <2>1, <2>4, <2>5 DEF ConsoleInv, OnScreen
<1> QED
  BY <1>1, <1>2, <1>3

(* Whatever is printed, wrapped, erased or cleared, the cursor is on the   *)
(* screen, for every mode and font.                                        *)
THEOREM CursorStaysOnScreen == ConsoleSpec => []CursorOnScreen
<1>1. ConsoleInit => ConsoleInv
  BY InitialConsole
<1>2. ConsoleInv /\ [Emit \/ Calls]_console => ConsoleInv'
  BY StepKeepsConsole
<1>3. ConsoleInv => CursorOnScreen
  BY DEF ConsoleInv, CursorOnScreen
<1> QED
  BY <1>1, <1>2, <1>3, PTL DEF ConsoleSpec

(* Multiplication is monotone. *)
LEMMA RowsBelow ==
    ASSUME NEW a \in Nat, NEW b \in Nat, NEW k \in Nat, a + 1 <= b
    PROVE  a * k + k <= b * k
<1>1. b = a + 1 + (b - a - 1) /\ b - a - 1 \in Nat
  OBVIOUS
<1>2. PICK d \in Nat : b = a + 1 + d
  BY <1>1
<1>3. b * k = a * k + k + d * k
  BY <1>2
<1>4. d * k \in Nat /\ a * k \in Nat
  BY <1>2
<1> QED
  BY <1>3, <1>4

(* What is left of a glyph after clipping ends with the row or column.     *)
LEMMA ClipEnds ==
    ASSUME NEW start \in Nat, NEW draw \in Nat, NEW limit \in Nat,
           start < limit, limit + draw <= Word
    PROVE  Clip(start, draw, limit) \in Nat /\ start + Clip(start, draw, limit) <= limit
<1>1. start + draw \in Nat /\ start + draw < Word
  BY Constants
<1>2. (start + draw) % Word = start + draw
  BY <1>1, Constants
<1>3. CASE start + draw > limit
  BY <1>2, <1>3 DEF Clip
<1>4. CASE ~(start + draw > limit)
  BY <1>2, <1>4 DEF Clip
<1> QED
  BY <1>3, <1>4

(* The pixels of a glyph at the cursor are on the screen and in the        *)
(* framebuffer, without the 32-bit index wrapping around.                  *)
LEMMA GlyphInside ==
    ASSUME ConsoleInv
    PROVE  DrawnInside
<1>1. /\ context.width \in Nat /\ context.height \in Nat /\ context.pixelsPerScanLine \in Nat
      /\ context.width <= context.pixelsPerScanLine
      /\ context.height * context.pixelsPerScanLine <= Word
      /\ context.width + FontWidth <= Word /\ context.height + FontHeight <= Word
  BY ScreenFacts DEF ConsoleInv
<1>2. /\ cursor.x \in Nat /\ cursor.y \in Nat
      /\ cursor.x < context.width /\ cursor.y < context.height
  BY DEF ConsoleInv, OnScreen
<1>3. FontWidth \in Nat /\ FontHeight \in Nat /\ Word \in Nat \ {0}
  BY Constants
<1> DEFINE w == Clip(cursor.x, FontWidth, context.width)
           h == Clip(cursor.y, FontHeight, context.height)
<1>4. w \in Nat /\ cursor.x + w <= context.width
  BY <1>1, <1>2, <1>3, ClipEnds
<1>5. h \in Nat /\ cursor.y + h <= context.height
  BY <1>1, <1>2, <1>3, ClipEnds
<1>6. SUFFICES ASSUME NEW pixel \in Drawn(context, cursor, Font)
               PROVE  /\ pixel[1] < context.width
                      /\ Index(context, pixel) = pixel[2] * context.pixelsPerScanLine + pixel[1]
                      /\ Index(context, pixel) < context.height * context.pixelsPerScanLine
  BY DEF DrawnInside
<1>a. ~(cursor.x >= context.width \/ cursor.y >= context.height)
  BY <1>1, <1>2
<1>b. PICK dx \in 0 .. w - 1, dy \in 0 .. h - 1 : pixel = <<cursor.x + dx, cursor.y + dy>>
  BY <1>a DEF Drawn, Font
<1> HIDE DEF w, h
<1> DEFINE px == cursor.x + dx
           py == cursor.y + dy
           k == context.pixelsPerScanLine
<1>7. px \in Nat /\ py \in Nat /\ px < context.width /\ py + 1 <= context.height
  BY <1>1, <1>2, <1>4, <1>5
<1> HIDE DEF px, py
<1>8. py * k + k <= context.height * k /\ py * k \in Nat /\ context.height * k \in Nat
  BY <1>1, <1>7, RowsBelow
<1>9. py * k + px \in Nat /\ py * k + px < context.height * k /\ py * k + px < Word
  BY <1>1, <1>3, <1>7, <1>8
<1>10. (py * k + px) % Word = py * k + px
  <2> DEFINE n == py * k + px
  <2>1. n \in Nat /\ n < Word
    BY <1>9
  <2> HIDE DEF n
  <2>2. n % Word = n
    BY <2>1, <1>3
  <2> QED
    BY <2>2 DEF n
<1> QED
  BY <1>b, <1>7, <1>9, <1>10 DEF Index, px, py

(* Nothing is drawn outside the framebuffer, for every mode and font.      *)
THEOREM DrawsInsideFramebuffer == ConsoleSpec => []DrawnInside
<1>1. ConsoleInit => ConsoleInv
  BY InitialConsole
<1>2. ConsoleInv /\ [Emit \/ Calls]_console => ConsoleInv'
  BY StepKeepsConsole
<1>3. ConsoleInv => DrawnInside
  BY GlyphInside
<1> QED
  BY <1>1, <1>2, <1>3, PTL DEF ConsoleSpec

-----------------------------------------------------------------------------
(* The keyboard driver. *)

(* Where a reader is with the interrupt flag clear because of the lock,    *)
(* and where it has the lock.                                              *)
Holding == {"test", "advance", "unlock", "unlockEmpty"}
Critical == Holding \cup {"acquire"}
Labels == Critical \cup {"idle", "lock", "restore", "restoreEmpty", "sti", "yield", "return"}

(* Only the reader on the CPU is at the lock, with its interrupts off, and *)
(* a lock that is taken is taken by it.                                    *)
LockInv ==
    /\ ~spinning
    /\ lock \in {0, 1}
    /\ pc \in [Readers -> Labels]
    /\ interrupts \in [Readers -> BOOLEAN]
    /\ saved \in [Readers -> BOOLEAN]
    /\ \A r \in Readers : pc[r] \in Critical => running = r /\ ~interrupts[r]
    /\ lock = 1 => running \in Readers /\ pc[running] \in Holding

USE IOKeyboardAssumption

LEMMA LockInit ==
    ASSUME Init
    PROVE  LockInv
<1>1. ~spinning /\ lock = 0
  BY Zenon DEF Init
<1>2. pc = [r \in Readers |-> "idle"]
  BY Zenon DEF Init
<1>3. pc \in [Readers -> Labels] /\ \A r \in Readers : pc[r] \notin Critical
  BY <1>2 DEF Critical, Holding, Labels
<1>4. interrupts \in [Readers -> BOOLEAN] /\ saved \in [Readers -> BOOLEAN]
  BY Zenon DEF Init
<1>5. lock \in {0, 1} /\ lock # 1
  BY <1>1
<1> QED
  BY <1>1, <1>3, <1>4, <1>5, Zenon DEF LockInv

(* The handler runs with the lock free, and leaves the readers alone. *)
LEMMA LockHandler ==
    ASSUME LockInv, IOKeyboardInterruptsHandler
    PROVE  LockInv' /\ lock = 0
<1>1. lock = 0
  BY DEF LockInv, IOKeyboardInterruptsHandler, InterruptsEnabled, Critical
<1>2. ~spinning' /\ UNCHANGED <<lock, running, reader>>
  BY <1>1 DEF LockInv, IOKeyboardInterruptsHandler
<1> QED
  BY <1>1, <1>2 DEF LockInv, reader

LEMMA LockTimer ==
    ASSUME LockInv, NEW t \in Readers \cup {Nobody}, TimerInterrupt(t)
    PROVE  LockInv'
<1>1. UNCHANGED <<lock, spinning, reader>> /\ running' = t
  BY DEF TimerInterrupt
<1>2. \A r \in Readers : pc[r] \notin Critical
  BY Nobody \notin Readers DEF LockInv, TimerInterrupt, InterruptsEnabled
<1> QED
  BY <1>1, <1>2 DEF LockInv, reader, Critical

(* Setting one reader's flag. *)
LEMMA FlagSet ==
    ASSUME NEW f \in [Readers -> BOOLEAN], NEW r \in Readers, NEW v \in BOOLEAN
    PROVE  /\ [f EXCEPT ![r] = v] \in [Readers -> BOOLEAN]
           /\ [f EXCEPT ![r] = v][r] = v
  BY Zenon

(* A step of the reader on the CPU, from what it leaves behind. *)
LEMMA LockReaderTo ==
    ASSUME LockInv, NEW r \in Readers, NEW label \in Labels,
           running = r, Goto(r, label), UNCHANGED spinning, lock' \in {0, 1},
           interrupts' \in [Readers -> BOOLEAN], saved' \in [Readers -> BOOLEAN],
           label \notin Critical \/ (running' = r /\ interrupts'[r] = FALSE),
           lock' = 0 \/ (running' = r /\ label \in Holding)
    PROVE  LockInv'
<1>1. /\ pc' \in [Readers -> Labels] /\ pc'[r] = label
      /\ \A q \in Readers \ {r} : pc'[q] = pc[q] /\ pc[q] \notin Critical
  BY DEF LockInv, Goto
<1>2. \A q \in Readers : pc'[q] \in Critical => running' = q /\ ~interrupts'[q]
  BY <1>1, Zenon
<1>3. lock' = 1 => running' \in Readers /\ pc'[running'] \in Holding
  BY <1>1
<1>4. ~spinning'
  BY Zenon DEF LockInv
<1> QED
  BY <1>1, <1>2, <1>3, <1>4, Zenon DEF LockInv

(* A reader's steps, outside the lock and at it. *)
LEMMA LockReader ==
    ASSUME LockInv, NEW r \in Readers, Read(r) \/ GetCharacter(r)
    PROVE  LockInv'
<1>0. /\ interrupts \in [Readers -> BOOLEAN] /\ saved \in [Readers -> BOOLEAN]
      /\ interrupts[r] \in BOOLEAN /\ saved[r] \in BOOLEAN
      /\ lock \in {0, 1}
      /\ pc[r] \in Critical => interrupts[r] = FALSE
  BY Zenon DEF LockInv
<1>l. lock = 0 \/ (running = r => pc[r] \in Holding)
  BY DEF LockInv
<1>s. /\ \A l \in {"idle", "lock", "yield", "sti", "return", "restore", "restoreEmpty"} :
            l \in Labels /\ l \notin Critical
      /\ \A l \in Holding : l \in Labels /\ l \in Critical
      /\ "acquire" \in Labels /\ "acquire" \in Critical /\ "acquire" \notin Holding
      /\ \A l \in {"test", "advance", "unlock", "unlockEmpty"} : l \in Holding
  BY DEF Critical, Holding, Labels
<1>1. CASE Read(r)
  <2>1. PICK label \in {"lock"} : Goto(r, label)
    BY <1>1 DEF Read, At
  <2>2. running = r /\ pc[r] = "idle" /\ UNCHANGED <<running, spinning>> /\ lock' = lock
    BY <1>1 DEF Read, At
  <2>3. /\ interrupts' \in [Readers -> BOOLEAN]
        /\ saved' \in [Readers -> BOOLEAN]
    BY <1>0, <1>1, FlagSet, Zenon DEF Read
  <2>4. label \in Labels /\ label \notin Critical /\ lock' = 0
    BY <1>0, <1>l, <1>s, <2>1, <2>2, <2>3
  <2>5. lock' \in {0, 1}
    BY <1>0, <2>2, <2>4
  <2> QED
    BY <1>0, <2>1, <2>2, <2>3, <2>4, <2>5, LockReaderTo, Zenon
<1>2. CASE LockIRQ(r)
  <2>1. PICK label \in {"acquire"} : Goto(r, label)
    BY <1>2 DEF LockIRQ, At
  <2>2. running = r /\ pc[r] = "lock" /\ UNCHANGED <<running, spinning>> /\ lock' = lock
    BY <1>2 DEF LockIRQ, At
  <2>3. /\ interrupts' \in [Readers -> BOOLEAN] /\ interrupts'[r] = FALSE
        /\ saved' \in [Readers -> BOOLEAN]
    BY <1>0, <1>2, FlagSet, Zenon DEF LockIRQ
  <2>4. label \in Labels /\ lock' = 0
    BY <1>0, <1>l, <1>s, <2>1, <2>2, <2>3
  <2>5. lock' \in {0, 1}
    BY <1>0, <2>2, <2>4
  <2> QED
    BY <1>0, <2>1, <2>2, <2>3, <2>4, <2>5, LockReaderTo, Zenon
<1>3. CASE Acquire(r)
  <2>1. PICK label \in {"test"} : Goto(r, label)
    BY <1>3 DEF Acquire, At
  <2>2. running = r /\ pc[r] = "acquire" /\ UNCHANGED <<running, spinning>> /\ lock' \in {0, 1}
    BY <1>3 DEF Acquire, At
  <2>3. UNCHANGED <<interrupts, saved>>
    BY <1>3 DEF Acquire
  <2>4. label \in Labels /\ label \in Holding /\ interrupts'[r] = FALSE
    BY <1>0, <1>l, <1>s, <2>1, <2>2, <2>3
  <2>5. lock' \in {0, 1}
    BY <1>0, <2>2, <2>4
  <2> QED
    BY <1>0, <2>1, <2>2, <2>3, <2>4, <2>5, LockReaderTo, Zenon
<1>4. CASE Test(r)
  <2>1. PICK label \in {"advance", "unlockEmpty"} : Goto(r, label)
    BY <1>4 DEF Test, At
  <2>2. running = r /\ pc[r] = "test" /\ UNCHANGED <<running, spinning>> /\ lock' = lock
    BY <1>4 DEF Test, At
  <2>3. UNCHANGED <<interrupts, saved>>
    BY <1>4 DEF Test
  <2>4. label \in Labels /\ label \in Holding /\ interrupts'[r] = FALSE
    BY <1>0, <1>l, <1>s, <2>1, <2>2, <2>3
  <2>5. lock' \in {0, 1}
    BY <1>0, <2>2, <2>4
  <2> QED
    BY <1>0, <2>1, <2>2, <2>3, <2>4, <2>5, LockReaderTo, Zenon
<1>5. CASE Advance(r)
  <2>1. PICK label \in {"unlock"} : Goto(r, label)
    BY <1>5 DEF Advance, At
  <2>2. running = r /\ pc[r] = "advance" /\ UNCHANGED <<running, spinning>> /\ lock' = lock
    BY <1>5 DEF Advance, At
  <2>3. UNCHANGED <<interrupts, saved>>
    BY <1>5 DEF Advance
  <2>4. label \in Labels /\ label \in Holding /\ interrupts'[r] = FALSE
    BY <1>0, <1>l, <1>s, <2>1, <2>2, <2>3
  <2>5. lock' \in {0, 1}
    BY <1>0, <2>2, <2>4
  <2> QED
    BY <1>0, <2>1, <2>2, <2>3, <2>4, <2>5, LockReaderTo, Zenon
<1>6. CASE Unlock(r)
  <2>1. PICK label \in {"restore", "restoreEmpty"} : Goto(r, label)
    BY <1>6 DEF Unlock, At
  <2>2. running = r /\ UNCHANGED <<running, spinning>> /\ lock' = 0
    BY <1>6 DEF Unlock, At
  <2>3. UNCHANGED <<interrupts, saved>>
    BY <1>6 DEF Unlock
  <2>4. label \in Labels /\ label \notin Critical /\ lock' = 0
    BY <1>0, <1>l, <1>s, <2>1, <2>2, <2>3
  <2>5. lock' \in {0, 1}
    BY <1>0, <2>2, <2>4
  <2> QED
    BY <1>0, <2>1, <2>2, <2>3, <2>4, <2>5, LockReaderTo, Zenon
<1>7. CASE Restore(r)
  <2>1. PICK label \in {"lock", "return"} : Goto(r, label)
    BY <1>7 DEF Restore, At
  <2>2. running = r /\ pc[r] = "restore" /\ UNCHANGED <<running, spinning>> /\ lock' = lock
    BY <1>7 DEF Restore, At
  <2>3. /\ interrupts' \in [Readers -> BOOLEAN]
        /\ saved' \in [Readers -> BOOLEAN]
    BY <1>0, <1>7, FlagSet, Zenon DEF Restore, RestoreFlag
  <2>4. label \in Labels /\ label \notin Critical /\ lock' = 0
    BY <1>0, <1>l, <1>s, <2>1, <2>2, <2>3
  <2>5. lock' \in {0, 1}
    BY <1>0, <2>2, <2>4
  <2> QED
    BY <1>0, <2>1, <2>2, <2>3, <2>4, <2>5, LockReaderTo, Zenon
<1>8. CASE RestoreEmpty(r)
  <2>1. PICK label \in {"sti"} : Goto(r, label)
    BY <1>8 DEF RestoreEmpty, At
  <2>2. running = r /\ pc[r] = "restoreEmpty" /\ UNCHANGED <<running, spinning>> /\ lock' = lock
    BY <1>8 DEF RestoreEmpty, At
  <2>3. /\ interrupts' \in [Readers -> BOOLEAN]
        /\ saved' \in [Readers -> BOOLEAN]
    BY <1>0, <1>8, FlagSet, Zenon DEF RestoreEmpty, RestoreFlag
  <2>4. label \in Labels /\ label \notin Critical /\ lock' = 0
    BY <1>0, <1>l, <1>s, <2>1, <2>2, <2>3
  <2>5. lock' \in {0, 1}
    BY <1>0, <2>2, <2>4
  <2> QED
    BY <1>0, <2>1, <2>2, <2>3, <2>4, <2>5, LockReaderTo, Zenon
<1>9. CASE Sti(r)
  <2>1. PICK label \in {"yield"} : Goto(r, label)
    BY <1>9 DEF Sti, At
  <2>2. running = r /\ pc[r] = "sti" /\ UNCHANGED <<running, spinning>> /\ lock' = lock
    BY <1>9 DEF Sti, At
  <2>3. /\ interrupts' \in [Readers -> BOOLEAN]
        /\ saved' \in [Readers -> BOOLEAN]
    BY <1>0, <1>9, FlagSet, Zenon DEF Sti
  <2>4. label \in Labels /\ label \notin Critical /\ lock' = 0
    BY <1>0, <1>l, <1>s, <2>1, <2>2, <2>3
  <2>5. lock' \in {0, 1}
    BY <1>0, <2>2, <2>4
  <2> QED
    BY <1>0, <2>1, <2>2, <2>3, <2>4, <2>5, LockReaderTo, Zenon
<1>10. CASE Return(r)
  <2>1. PICK label \in {"idle"} : Goto(r, label)
    BY <1>10 DEF Return, At
  <2>2. running = r /\ pc[r] = "return" /\ UNCHANGED <<running, spinning>> /\ lock' = lock
    BY <1>10 DEF Return, At
  <2>3. /\ interrupts' \in [Readers -> BOOLEAN]
        /\ saved' \in [Readers -> BOOLEAN]
    BY <1>0, <1>10, FlagSet, Zenon DEF Return
  <2>4. label \in Labels /\ label \notin Critical /\ lock' = 0
    BY <1>0, <1>l, <1>s, <2>1, <2>2, <2>3
  <2>5. lock' \in {0, 1}
    BY <1>0, <2>2, <2>4
  <2> QED
    BY <1>0, <2>1, <2>2, <2>3, <2>4, <2>5, LockReaderTo, Zenon
<1>11. CASE \E t \in Readers \cup {Nobody} : Yield(r, t)
  <2>1. Goto(r, "lock") /\ running = r /\ pc[r] = "yield" /\ UNCHANGED <<spinning, lock>>
    BY <1>11 DEF Yield, At
  <2>2. UNCHANGED <<interrupts, saved>>
    BY <1>11 DEF Yield
  <2>3. "lock" \in Labels /\ "lock" \notin Critical /\ lock' = 0
    BY <1>l, <1>s, <2>1
  <2> QED
    BY <1>0, <2>1, <2>2, <2>3, LockReaderTo, Zenon
<1> QED
  BY <1>1, <1>2, <1>3, <1>4, <1>5, <1>6, <1>7, <1>8, <1>9, <1>10, <1>11 DEF GetCharacter

LEMMA LockStep ==
    ASSUME LockInv, [Next]_vars
    PROVE  LockInv'
<1>1. CASE UNCHANGED vars
  BY <1>1 DEF LockInv, vars, controller, reader
<1>2. CASE KeyStroke
  BY <1>2 DEF LockInv, KeyStroke, controller, reader
<1> QED
  BY <1>1, <1>2, LockHandler, LockTimer, LockReader DEF Next

(* Interrupts off while the lock is held is enough on one CPU: neither the *)
(* handler nor a reader ever waits for it (OSSpinlockLockIRQ), whatever    *)
(* the number of readers and whenever the timer takes the CPU away.        *)
THEOREM SpinlockNeverWaits == Spec => []NobodySpins
<1>1. LockInv => NobodySpins
  BY DEF LockInv, NobodySpins, Holding
<1> QED
  BY <1>1, LockInit, LockStep, PTL DEF Spec

-----------------------------------------------------------------------------
(* Sequences, and remainders of numbers below twice the divisor. *)

LEMMA AppendIs ==
    ASSUME NEW S, NEW s \in Seq(S), NEW c \in S, NEW q \in Seq(S),
           Len(q) = Len(s) + 1, \A i \in 1 .. Len(s) : q[i] = s[i], q[Len(s) + 1] = c
    PROVE  q = Append(s, c)
  OBVIOUS

LEMMA TailIs ==
    ASSUME NEW S, NEW s \in Seq(S), NEW q \in Seq(S), s # << >>,
           Len(q) = Len(s) - 1, \A i \in 1 .. Len(q) : q[i] = s[i + 1]
    PROVE  q = Tail(s) /\ Head(s) = s[1]
  OBVIOUS

LEMMA SequenceIs ==
    ASSUME NEW S, NEW n \in Nat, NEW q, q = [i \in 1 .. n |-> q[i]],
           \A i \in 1 .. n : q[i] \in S
    PROVE  q \in Seq(S) /\ Len(q) = n
  OBVIOUS

LEMMA ModuloTwice ==
    ASSUME NEW b \in Nat, b > 0, NEW a \in 0 .. 2 * b - 1
    PROVE  a % b = IF a < b THEN a ELSE a - b
<1> DEFINE q == a \div b
<1>1. q \in Int /\ a % b \in 0 .. b - 1 /\ a = b * q + (a % b)
  OBVIOUS
<1>2. q >= 0
  <2>1. ASSUME q <= -1 PROVE FALSE
    <3>1. b * q <= b * (-1)
      BY <1>1, <2>1
    <3> QED
      BY <3>1, <1>1
  <2> QED
    BY <2>1, <1>1
<1>3. q <= 1
  <2>1. ASSUME q >= 2 PROVE FALSE
    <3>1. b * q >= b * 2
      BY <1>1, <2>1
    <3> QED
      BY <3>1, <1>1
  <2> QED
    BY <2>1, <1>1
<1>4. b * 0 = 0 /\ b * 1 = b
  OBVIOUS
<1>5. CASE q = 0
  BY <1>1, <1>4, <1>5
<1>6. CASE q = 1
  BY <1>1, <1>4, <1>6
<1> QED
  BY <1>1, <1>2, <1>3, <1>5, <1>6

-----------------------------------------------------------------------------
(* The ring buffer: how many characters wait, and where the i-th one is.   *)
Waiting(h, t) == IF h >= t THEN h - t ELSE h - t + BufferSize
Slot(t, i) == IF t + i - 1 < BufferSize THEN t + i - 1 ELSE t + i - 1 - BufferSize

(* Head h and tail t are inside buffer b, and what waits between them are  *)
(* characters.                                                             *)
Ring(h, t, b) ==
    /\ h \in 0 .. BufferSize - 1 /\ t \in 0 .. BufferSize - 1
    /\ b \in [0 .. BufferSize - 1 -> Characters \cup {NoCharacter}]
    /\ \A i \in 1 .. Waiting(h, t) : b[Slot(t, i)] \in Characters

QueueOf(h, t, b) ==
    [i \in 1 .. (h - t + BufferSize) % BufferSize |-> b[(t + i - 1) % BufferSize]]

(* A reader between its look and its step has what is at the tail; behind  *)
(* its step it has a character.                                            *)
RingInv ==
    /\ Ring(head, tail, buffer)
    /\ ascii \in [Readers -> Characters \cup {NoCharacter}]
    /\ \A r \in Readers : pc[r] = "advance" => head # tail /\ ascii[r] = buffer[tail]
    /\ \A r \in Readers : pc[r] \in {"unlock", "restore"} => ascii[r] \in Characters

WireInv == wire \in Seq(Scancodes) /\ shift \in BOOLEAN

KeyboardInv == LockInv /\ RingInv /\ WireInv

LEMMA NextPlace ==
    ASSUME NEW p \in 0 .. BufferSize - 1
    PROVE  (p + 1) % BufferSize = IF p + 1 < BufferSize THEN p + 1 ELSE 0
<1>1. (p + 1) % BufferSize = IF p + 1 < BufferSize THEN p + 1 ELSE p + 1 - BufferSize
  BY ModuloTwice, p + 1 \in 0 .. 2 * BufferSize - 1
<1> QED
  BY <1>1

(* QueueOf is the sequence of what waits. *)
LEMMA QueueFacts ==
    ASSUME NEW h, NEW t, NEW b, Ring(h, t, b)
    PROVE  /\ QueueOf(h, t, b) \in Seq(Characters)
           /\ Len(QueueOf(h, t, b)) = Waiting(h, t)
           /\ Waiting(h, t) \in 0 .. BufferSize - 1
           /\ \A i \in 1 .. Waiting(h, t) :
                /\ Slot(t, i) \in 0 .. BufferSize - 1
                /\ QueueOf(h, t, b)[i] = b[Slot(t, i)]
<1> DEFINE n == Waiting(h, t)
           q == QueueOf(h, t, b)
<1>1. h \in 0 .. BufferSize - 1 /\ t \in 0 .. BufferSize - 1
  BY DEF Ring
<1>2. n \in 0 .. BufferSize - 1
  BY <1>1 DEF Waiting
<1>3. (h - t + BufferSize) % BufferSize = n
  <2>1. h - t + BufferSize \in 0 .. 2 * BufferSize - 1
    BY <1>1
  <2> QED
    BY <1>1, <2>1, ModuloTwice DEF Waiting
<1>4. ASSUME NEW i \in 1 .. n
      PROVE  /\ Slot(t, i) \in 0 .. BufferSize - 1
             /\ (t + i - 1) % BufferSize = Slot(t, i)
  <2>1. t + i - 1 \in 0 .. 2 * BufferSize - 1
    BY <1>1, <1>2
  <2> QED
    BY <1>1, <2>1, ModuloTwice DEF Slot
<1>5. q = [i \in 1 .. n |-> b[(t + i - 1) % BufferSize]]
  BY <1>3 DEF QueueOf
<1> HIDE DEF n, q
<1>6. \A i \in 1 .. n : q[i] = b[Slot(t, i)]
  BY <1>4, <1>5
<1>7. \A i \in 1 .. n : q[i] \in Characters
  BY <1>6 DEF Ring, n
<1>8. q = [i \in 1 .. n |-> q[i]]
  BY <1>5
<1>9. q \in Seq(Characters) /\ Len(q) = n
  BY <1>2, <1>7, <1>8, SequenceIs
<1> QED
  BY <1>2, <1>4, <1>6, <1>9 DEF n, q

(* A character at the head: the queue is longer by it. *)
LEMMA QueueAppend ==
    ASSUME NEW h, NEW t, NEW b, Ring(h, t, b), NEW c \in Characters,
           (h + 1) % BufferSize # t
    PROVE  /\ Ring((h + 1) % BufferSize, t, [b EXCEPT ![h] = c])
           /\ QueueOf((h + 1) % BufferSize, t, [b EXCEPT ![h] = c]) =
                  Append(QueueOf(h, t, b), c)
           /\ Len(QueueOf(h, t, b)) < BufferSize - 1
<1> DEFINE n == Waiting(h, t)
           hh == (h + 1) % BufferSize
           bb == [b EXCEPT ![h] = c]
<1>1. h \in 0 .. BufferSize - 1 /\ t \in 0 .. BufferSize - 1
  BY DEF Ring
<1>2. hh = IF h + 1 < BufferSize THEN h + 1 ELSE 0
  BY <1>1, NextPlace
<1> HIDE DEF hh, bb
<1>3. n \in 0 .. BufferSize - 2 /\ Waiting(hh, t) = n + 1 /\ Slot(t, n + 1) = h
  BY <1>1, <1>2 DEF Waiting, Slot, hh
<1>4. \A i \in 1 .. n : Slot(t, i) # h /\ Slot(t, i) \in 0 .. BufferSize - 1
  BY <1>1, <1>3 DEF Waiting, Slot
<1>5. \A i \in 1 .. n : bb[Slot(t, i)] = b[Slot(t, i)]
  BY <1>1, <1>4 DEF Ring, bb
<1>6. bb[h] = c
  BY <1>1 DEF Ring, bb
<1>7. \A i \in 1 .. n + 1 : bb[Slot(t, i)] \in Characters
  BY <1>3, <1>5, <1>6 DEF Ring
<1>8. Ring(hh, t, bb)
  <2>1. bb \in [0 .. BufferSize - 1 -> Characters \cup {NoCharacter}]
    BY <1>1 DEF Ring, bb
  <2>2. hh \in 0 .. BufferSize - 1
    BY <1>1, <1>2
  <2> QED
    BY <1>1, <1>3, <1>7, <2>1, <2>2 DEF Ring
<1>9. /\ QueueOf(hh, t, bb) \in Seq(Characters) /\ Len(QueueOf(hh, t, bb)) = n + 1
      /\ \A i \in 1 .. n + 1 : QueueOf(hh, t, bb)[i] = bb[Slot(t, i)]
  BY <1>3, <1>8, QueueFacts
<1>10. /\ QueueOf(h, t, b) \in Seq(Characters) /\ Len(QueueOf(h, t, b)) = n
       /\ \A i \in 1 .. n : QueueOf(h, t, b)[i] = b[Slot(t, i)]
  BY QueueFacts
<1> HIDE DEF n
<1>11. \A i \in 1 .. n : QueueOf(hh, t, bb)[i] = QueueOf(h, t, b)[i]
  BY <1>3, <1>5, <1>9, <1>10
<1>12. QueueOf(hh, t, bb)[n + 1] = c
  BY <1>3, <1>6, <1>9
<1>13. QueueOf(hh, t, bb) = Append(QueueOf(h, t, b), c)
  BY <1>9, <1>10, <1>11, <1>12, AppendIs
<1>14. Len(QueueOf(h, t, b)) < BufferSize - 1
  BY <1>3, <1>10
<1> QED
  BY <1>8, <1>13, <1>14, Zenon DEF hh, bb

(* No room: the queue has all it can hold. *)
LEMMA QueueFull ==
    ASSUME NEW h, NEW t, NEW b, Ring(h, t, b), (h + 1) % BufferSize = t
    PROVE  Len(QueueOf(h, t, b)) = BufferSize - 1
<1>1. h \in 0 .. BufferSize - 1 /\ t \in 0 .. BufferSize - 1
  BY DEF Ring
<1>2. t = IF h + 1 < BufferSize THEN h + 1 ELSE 0
  BY <1>1, NextPlace
<1>3. Waiting(h, t) = BufferSize - 1
  BY <1>1, <1>2 DEF Waiting
<1> QED
  BY <1>3, QueueFacts

(* A step of the tail: the queue is shorter by its first character. *)
LEMMA QueueTail ==
    ASSUME NEW h, NEW t, NEW b, Ring(h, t, b), h # t
    PROVE  LET tt == (t + 1) % BufferSize
           IN  /\ Ring(h, tt, b) /\ QueueOf(h, t, b) # << >>
               /\ Head(QueueOf(h, t, b)) = b[t] /\ b[t] \in Characters
               /\ QueueOf(h, tt, b) = Tail(QueueOf(h, t, b))
<1> DEFINE n == Waiting(h, t)
           tt == (t + 1) % BufferSize
<1>1. h \in 0 .. BufferSize - 1 /\ t \in 0 .. BufferSize - 1
  BY DEF Ring
<1>2. tt = IF t + 1 < BufferSize THEN t + 1 ELSE 0
  BY <1>1, NextPlace
<1> HIDE DEF tt
<1>3. /\ n \in 1 .. BufferSize - 1 /\ Waiting(h, tt) = n - 1 /\ Slot(t, 1) = t
      /\ \A i \in 1 .. n - 1 : Slot(tt, i) = Slot(t, i + 1)
  BY <1>1, <1>2 DEF Waiting, Slot
<1>4. Ring(h, tt, b)
  <2>1. tt \in 0 .. BufferSize - 1
    BY <1>1, <1>2
  <2>2. \A i \in 1 .. n - 1 : b[Slot(tt, i)] \in Characters
    BY <1>3 DEF Ring
  <2> QED
    BY <1>3, <2>1, <2>2 DEF Ring
<1>5. /\ QueueOf(h, tt, b) \in Seq(Characters) /\ Len(QueueOf(h, tt, b)) = n - 1
      /\ \A i \in 1 .. n - 1 : QueueOf(h, tt, b)[i] = b[Slot(tt, i)]
  BY <1>3, <1>4, QueueFacts
<1>6. /\ QueueOf(h, t, b) \in Seq(Characters) /\ Len(QueueOf(h, t, b)) = n
      /\ \A i \in 1 .. n : QueueOf(h, t, b)[i] = b[Slot(t, i)]
  BY QueueFacts
<1> HIDE DEF n
<1>7. QueueOf(h, t, b) # << >> /\ QueueOf(h, t, b)[1] = b[t] /\ b[t] \in Characters
  BY <1>3, <1>6
<1>8. \A i \in 1 .. n - 1 : QueueOf(h, tt, b)[i] = QueueOf(h, t, b)[i + 1]
  BY <1>3, <1>5, <1>6
<1>9. /\ QueueOf(h, tt, b) = Tail(QueueOf(h, t, b))
      /\ Head(QueueOf(h, t, b)) = QueueOf(h, t, b)[1]
  BY <1>3, <1>5, <1>6, <1>7, <1>8, TailIs
<1> QED
  BY <1>4, <1>7, <1>9 DEF tt

-----------------------------------------------------------------------------
(* The wire.  Whether shift is held when the i-th scancode of w is read, if*)
(* it is s now; what is being typed; shift behind the first scancode.      *)
Held(w, s, i) ==
    \/ s /\ \A k \in 1 .. i - 1 : w[k] # ShiftBreak
    \/ \E j \in 1 .. i - 1 : /\ w[j] = ShiftMake
                             /\ \A k \in j + 1 .. i - 1 : w[k] # ShiftBreak

Typed(w, s, i) ==
    IF w[i] # LetterMake THEN NoCharacter ELSE IF Held(w, s, i) THEN "A" ELSE "a"

TypingOf(w, s) == [i \in 1 .. Len(w) |-> Typed(w, s, i)]

ShiftBehind(c, s) == (s \/ c = ShiftMake) /\ c # ShiftBreak

LEMMA TypingFacts ==
    ASSUME NEW w \in Seq(Scancodes), NEW s
    PROVE  /\ TypingOf(w, s) \in Seq(Characters \cup {NoCharacter})
           /\ Len(TypingOf(w, s)) = Len(w)
           /\ \A i \in 1 .. Len(w) : TypingOf(w, s)[i] = Typed(w, s, i)
<1> DEFINE q == TypingOf(w, s)
<1>1. \A i \in 1 .. Len(w) : Typed(w, s, i) \in Characters \cup {NoCharacter}
  BY DEF Typed, Characters
<1>2. q = [i \in 1 .. Len(w) |-> Typed(w, s, i)]
  BY DEF TypingOf
<1> HIDE DEF q
<1>3. \A i \in 1 .. Len(w) : q[i] = Typed(w, s, i)
  BY <1>2
<1>4. q = [i \in 1 .. Len(w) |-> q[i]] /\ Len(w) \in Nat
  BY <1>2
<1>5. q \in Seq(Characters \cup {NoCharacter}) /\ Len(q) = Len(w)
  BY <1>1, <1>3, <1>4, SequenceIs
<1> QED
  BY <1>3, <1>5 DEF q

(* A key: one more entry, and the ones before it as they were. *)
LEMMA TypingAppend ==
    ASSUME NEW w \in Seq(Scancodes), NEW s, NEW c \in Scancodes
    PROVE  \E k \in Characters \cup {NoCharacter} :
               TypingOf(Append(w, c), s) = Append(TypingOf(w, s), k)
<1> DEFINE v == Append(w, c)
<1>1. v \in Seq(Scancodes) /\ Len(v) = Len(w) + 1 /\ \A i \in 1 .. Len(w) : v[i] = w[i]
  OBVIOUS
<1> HIDE DEF v
<1>2. ASSUME NEW i \in 1 .. Len(w)
      PROVE  Typed(v, s, i) = Typed(w, s, i)
  <2>1. Held(v, s, i) <=> Held(w, s, i)
    BY <1>1 DEF Held
  <2> QED
    BY <1>1, <2>1 DEF Typed
<1> DEFINE k == TypingOf(v, s)[Len(w) + 1]
<1>3. /\ TypingOf(v, s) \in Seq(Characters \cup {NoCharacter})
      /\ Len(TypingOf(v, s)) = Len(w) + 1
      /\ \A i \in 1 .. Len(w) : TypingOf(v, s)[i] = Typed(v, s, i)
  BY <1>1, TypingFacts
<1>4. k \in Characters \cup {NoCharacter}
  BY <1>3
<1>5. TypingOf(v, s) = Append(TypingOf(w, s), k)
  BY <1>2, <1>3, <1>4, TypingFacts, AppendIs
<1> QED
  BY <1>4, <1>5 DEF v

(* A scancode read: what is typed behind it stays the same, with shift as  *)
(* the scancode leaves it.                                                 *)
LEMMA TypingTail ==
    ASSUME NEW w \in Seq(Scancodes), NEW s, w # << >>
    PROVE  /\ TypingOf(w, s) # << >>
           /\ TypingOf(Tail(w), ShiftBehind(Head(w), s)) = Tail(TypingOf(w, s))
           /\ Head(TypingOf(w, s)) = IF Head(w) # LetterMake THEN NoCharacter
                                     ELSE IF s THEN "A" ELSE "a"
<1> DEFINE v == Tail(w)
           z == ShiftBehind(Head(w), s)
<1>1. /\ v \in Seq(Scancodes) /\ Len(v) = Len(w) - 1 /\ Head(w) = w[1]
      /\ \A i \in 1 .. Len(v) : v[i] = w[i + 1]
  OBVIOUS
<1> HIDE DEF v
<1>2. ASSUME NEW i \in 1 .. Len(v)
      PROVE  Held(v, z, i) <=> Held(w, s, i + 1)
  <2>1. ASSUME Held(v, z, i)
        PROVE  Held(w, s, i + 1)
    <3>1. CASE z /\ \A k \in 1 .. i - 1 : v[k] # ShiftBreak
      <4>1. \A k \in 2 .. i : w[k] # ShiftBreak
        <5>1. ASSUME NEW k \in 2 .. i
              PROVE  w[k] # ShiftBreak
          BY <1>1, <3>1, k - 1 \in 1 .. i - 1, w[(k - 1) + 1] = v[k - 1]
        <5> QED
          BY <5>1
      <4>2. w[1] # ShiftBreak /\ (s \/ w[1] = ShiftMake)
        BY <1>1, <3>1 DEF ShiftBehind
      <4> QED
        BY <1>1, <4>1, <4>2 DEF Held
    <3>2. CASE \E j \in 1 .. i - 1 : /\ v[j] = ShiftMake
                                     /\ \A k \in j + 1 .. i - 1 : v[k] # ShiftBreak
      <4>1. PICK j \in 1 .. i - 1 : /\ v[j] = ShiftMake
                                    /\ \A k \in j + 1 .. i - 1 : v[k] # ShiftBreak
        BY <3>2
      <4>2. j + 1 \in 1 .. i /\ w[j + 1] = ShiftMake
        BY <1>1, <4>1
      <4>3. \A k \in j + 2 .. i : w[k] # ShiftBreak
        <5>1. ASSUME NEW k \in j + 2 .. i
              PROVE  w[k] # ShiftBreak
          BY <1>1, <4>1, k - 1 \in j + 1 .. i - 1, w[(k - 1) + 1] = v[k - 1]
        <5> QED
          BY <5>1
      <4>4. j + 1 \in 1 .. (i + 1) - 1 /\ (j + 1) + 1 = j + 2 /\ (i + 1) - 1 = i
        BY <1>1, <4>2
      <4> QED
        BY <4>2, <4>3, <4>4, Zenon DEF Held
    <3> QED
      BY <2>1, <3>1, <3>2 DEF Held
  <2>2. ASSUME Held(w, s, i + 1)
        PROVE  Held(v, z, i)
    <3>1. CASE s /\ \A k \in 1 .. i : w[k] # ShiftBreak
      <4>1. \A k \in 1 .. i - 1 : v[k] # ShiftBreak
        BY <1>1, <3>1
      <4> QED
        BY <1>1, <3>1, <4>1 DEF Held, ShiftBehind
    <3>2. CASE \E j \in 1 .. i : /\ w[j] = ShiftMake
                                 /\ \A k \in j + 1 .. i : w[k] # ShiftBreak
      <4>1. PICK j \in 1 .. i : /\ w[j] = ShiftMake
                                /\ \A k \in j + 1 .. i : w[k] # ShiftBreak
        BY <3>2
      <4>2. CASE j = 1
        <5>1. \A k \in 1 .. i - 1 : v[k] # ShiftBreak
          BY <1>1, <4>1, <4>2
        <5> QED
          BY <1>1, <4>1, <4>2, <5>1 DEF Held, ShiftBehind, ShiftMake, ShiftBreak
      <4>3. CASE j # 1
        <5>1. j - 1 \in 1 .. i - 1 /\ v[j - 1] = ShiftMake
          BY <1>1, <4>1, <4>3
        <5>2. \A k \in (j - 1) + 1 .. i - 1 : v[k] # ShiftBreak
          BY <1>1, <4>1, <4>3
        <5> QED
          BY <5>1, <5>2 DEF Held
      <4> QED
        BY <4>2, <4>3
    <3> QED
      BY <2>2, <3>1, <3>2 DEF Held
  <2> QED
    BY <2>1, <2>2
<1>3. \A i \in 1 .. Len(v) : Typed(v, z, i) = Typed(w, s, i + 1)
  BY <1>1, <1>2 DEF Typed
<1> HIDE DEF z
<1>4. /\ TypingOf(w, s) \in Seq(Characters \cup {NoCharacter})
      /\ Len(TypingOf(w, s)) = Len(w)
      /\ \A i \in 1 .. Len(w) : TypingOf(w, s)[i] = Typed(w, s, i)
  BY TypingFacts
<1>5. /\ TypingOf(v, z) \in Seq(Characters \cup {NoCharacter})
      /\ Len(TypingOf(v, z)) = Len(v)
      /\ \A i \in 1 .. Len(v) : TypingOf(v, z)[i] = Typed(v, z, i)
  BY <1>1, TypingFacts
<1>6. TypingOf(w, s) # << >> /\ Len(w) >= 1
  BY <1>4
<1>7. \A i \in 1 .. Len(v) : TypingOf(v, z)[i] = TypingOf(w, s)[i + 1]
  BY <1>1, <1>3, <1>4, <1>5
<1>8. /\ TypingOf(v, z) = Tail(TypingOf(w, s))
      /\ Head(TypingOf(w, s)) = TypingOf(w, s)[1]
  BY <1>1, <1>4, <1>5, <1>6, <1>7, TailIs
<1>9. TypingOf(w, s)[1] = IF w[1] # LetterMake THEN NoCharacter ELSE IF s THEN "A" ELSE "a"
  BY <1>4, <1>6 DEF Typed, Held
<1> QED
  BY <1>1, <1>6, <1>8, <1>9 DEF v, z

-----------------------------------------------------------------------------
(* The steps: each keeps the invariant and is a step of the queue.         *)

LEMMA Views ==
    /\ Queue = QueueOf(head, tail, buffer) /\ Queue' = QueueOf(head', tail', buffer')
    /\ Typing = TypingOf(wire, shift) /\ Typing' = TypingOf(wire', shift')
  BY DEF Queue, QueueOf, Typing, TypingOf, Typed, ShiftBefore, Held

LEMMA KeyStrokeStep ==
    ASSUME KeyboardInv, KeyStroke
    PROVE  RingInv' /\ WireInv' /\ Q!Type
<1>1. PICK c \in Scancodes : wire' = Append(wire, c)
  BY DEF KeyStroke
<1>2. UNCHANGED <<head, tail, buffer, ascii, pc, shift>>
  BY DEF KeyStroke, controller, reader
<1>3. RingInv' /\ Queue' = Queue /\ Result' = Result
  BY <1>2, Views DEF KeyboardInv, RingInv, Result
<1>4. wire \in Seq(Scancodes) /\ wire' \in Seq(Scancodes)
  BY <1>1 DEF KeyboardInv, WireInv
<1>5. \E k \in Characters \cup {NoCharacter} : Typing' = Append(Typing, k)
  BY <1>1, <1>2, <1>4, Views, TypingAppend
<1>6. WireInv'
  BY <1>2, <1>4 DEF KeyboardInv, WireInv
<1> QED
  BY <1>3, <1>5, <1>6 DEF Q!Type

(* The handler keeps a character, loses it because the buffer is full, or  *)
(* has none.                                                               *)
LEMMA HandlerStep ==
    ASSUME KeyboardInv, IOKeyboardInterruptsHandler
    PROVE  RingInv' /\ WireInv' /\ Q!Next
<1> DEFINE c == Head(wire)
<1>1. /\ lock = 0 /\ wire # << >> /\ wire' = Tail(wire)
      /\ IF c < 128 THEN HandleMake(c) ELSE HandleBreak(c)
      /\ UNCHANGED <<tail, ascii, pc>>
  <2>1. lock = 0
    BY LockHandler DEF KeyboardInv
  <2> QED
    BY <2>1 DEF IOKeyboardInterruptsHandler, reader
<1>2. /\ wire \in Seq(Scancodes) /\ c \in Scancodes /\ wire' \in Seq(Scancodes)
  BY <1>1 DEF KeyboardInv, WireInv
<1>3. \A r \in Readers : pc[r] # "advance"
  <2>1. InterruptsEnabled /\ LockInv
    BY DEF IOKeyboardInterruptsHandler, KeyboardInv
  <2>2. ASSUME NEW r \in Readers, pc[r] \in Critical
        PROVE  FALSE
    <3>1. running = r /\ ~interrupts[r]
      BY <2>1, <2>2, Zenon DEF LockInv
    <3>2. r # Nobody
      OBVIOUS
    <3> QED
      BY <2>1, <3>1, <3>2, Zenon DEF InterruptsEnabled
  <2> QED
    BY <2>2 DEF Critical, Holding
<1>4. Result' = Result
  BY <1>1 DEF Result
<1>5. shift' = ShiftBehind(c, shift)
  <2>1. shift \in BOOLEAN
    BY DEF KeyboardInv, WireInv
  <2>2. CASE c < 128
    <3>1. c \in {LetterMake, ShiftMake} /\ c # ShiftBreak
      BY <1>2, <2>2 DEF Scancodes, LetterMake, ShiftMake, ShiftBreak, LetterBreak
    <3>2. \/ UNCHANGED shift /\ c # ShiftMake
          \/ shift' = (shift \/ c = ShiftMake)
      <4>1. LetterMake # ShiftMake
        BY DEF LetterMake, ShiftMake
      <4>2. sIOKeyboardMap(ShiftMake) = NoCharacter /\ sIOKeyboardMapShifted(ShiftMake) = NoCharacter
        BY <4>1 DEF sIOKeyboardMap, sIOKeyboardMapShifted
      <4> QED
        BY <1>1, <2>2, <4>2, Zenon DEF HandleMake
    <3> QED
      BY <2>1, <3>1, <3>2, Zenon DEF ShiftBehind
  <2>3. CASE ~(c < 128)
    <3>1. c # ShiftMake
      BY <2>3 DEF ShiftMake
    <3>2. shift' = (shift /\ c # ShiftBreak)
      BY <1>1, <2>3, Zenon DEF HandleBreak
    <3> QED
      BY <2>1, <3>1, <3>2, Zenon DEF ShiftBehind
  <2> QED
    BY <2>2, <2>3
<1>6. /\ Typing # << >> /\ Typing' = Tail(Typing)
      /\ Head(Typing) = IF c # LetterMake THEN NoCharacter ELSE IF shift THEN "A" ELSE "a"
  BY <1>1, <1>2, <1>5, TypingTail, Views, Zenon
<1>7. WireInv'
  <2>1. shift' \in BOOLEAN
    BY <1>5, Zenon DEF ShiftBehind
  <2> QED
    BY <1>2, <2>1, Zenon DEF WireInv
<1>8. Ring(head, tail, buffer)
  BY DEF KeyboardInv, RingInv
<1> HIDE DEF c
<1>9. CASE c # LetterMake
  <2>1. UNCHANGED <<head, buffer>>
    <3>1. sIOKeyboardMap(c) = NoCharacter /\ sIOKeyboardMapShifted(c) = NoCharacter
      BY <1>9 DEF sIOKeyboardMap, sIOKeyboardMapShifted
    <3> QED
      BY <1>1, <3>1, Zenon DEF HandleMake, HandleBreak
  <2>2. RingInv' /\ Queue' = Queue
    BY <1>1, <2>1, Views DEF KeyboardInv, RingInv
  <2>3. Q!Skip
    BY <1>4, <1>6, <1>9, <2>2 DEF Q!Skip
  <2> QED
    BY <1>7, <2>2, <2>3 DEF Q!Next
<1>10. CASE c = LetterMake
  <2> DEFINE k == IF shift THEN "A" ELSE "a"
  <2>1. k \in Characters /\ k # NoCharacter /\ Head(Typing) = k
    BY <1>6, <1>10 DEF Characters, NoCharacter
  <2>2. \/ /\ nextHead # tail
           /\ buffer' = [buffer EXCEPT ![head] = k] /\ head' = nextHead
        \/ /\ nextHead = tail
           /\ UNCHANGED <<buffer, head>>
    <3>1. sIOKeyboardMap(c) = "a" /\ sIOKeyboardMapShifted(c) = "A"
      BY <1>10 DEF sIOKeyboardMap, sIOKeyboardMapShifted
    <3>2. HandleMake(c)
      BY <1>1, <1>10 DEF LetterMake
    <3> HIDE DEF k
    <3>3. (IF shift THEN sIOKeyboardMapShifted(c) ELSE sIOKeyboardMap(c)) = k
      BY <3>1, Zenon DEF k
    <3> QED
      BY <2>1, <3>2, <3>3, Zenon DEF HandleMake
  <2> HIDE DEF k
  <2>3. CASE nextHead # tail
    <3>1. /\ Ring(head', tail, buffer') /\ Len(Queue) < BufferSize - 1
          /\ QueueOf(head', tail, buffer') = Append(QueueOf(head, tail, buffer), k)
      <4>1. /\ head' = (head + 1) % BufferSize /\ (head + 1) % BufferSize # tail
            /\ buffer' = [buffer EXCEPT ![head] = k]
        BY <2>2, <2>3, Zenon DEF nextHead
      <4>2. Queue = QueueOf(head, tail, buffer)
        BY Views
      <4>3. k \in Characters
        BY <2>1
      <4>4. (head + 1) % BufferSize # tail
        BY <4>1
      <4>5. /\ Ring((head + 1) % BufferSize, tail, [buffer EXCEPT ![head] = k])
            /\ QueueOf((head + 1) % BufferSize, tail, [buffer EXCEPT ![head] = k]) =
                   Append(QueueOf(head, tail, buffer), k)
            /\ Len(QueueOf(head, tail, buffer)) < BufferSize - 1
        BY <1>8, <4>3, <4>4, QueueAppend, Zenon
      <4> QED
        BY <4>1, <4>2, <4>5, Zenon
    <3>2. RingInv'
      BY <1>1, <1>3, <3>1 DEF KeyboardInv, RingInv
    <3>3. Q!Keep
      BY <1>1, <1>4, <1>6, <2>1, <3>1, Views DEF Q!Keep
    <3> QED
      BY <1>7, <3>2, <3>3 DEF Q!Next
  <2>4. CASE nextHead = tail
    <3>1. RingInv' /\ Queue' = Queue
      BY <1>1, <2>2, <2>4, Views DEF KeyboardInv, RingInv
    <3>2. Len(Queue) = BufferSize - 1
      BY <1>8, <2>4, QueueFull, Views DEF nextHead
    <3>3. Q!Lose
      BY <1>4, <1>6, <3>1, <3>2 DEF Q!Lose
    <3> QED
      BY <1>7, <3>1, <3>3 DEF Q!Next
  <2> QED
    BY <2>3, <2>4
<1> QED
  BY <1>9, <1>10

(* A reader's steps that leave the ring and its result alone. *)
LEMMA ReaderAside ==
    ASSUME KeyboardInv, NEW r \in Readers,
           Read(r) \/ LockIRQ(r) \/ Acquire(r) \/ Test(r) \/ Unlock(r) \/ RestoreEmpty(r)
               \/ Sti(r) \/ Return(r) \/ \E t \in Readers \cup {Nobody} : Yield(r, t)
    PROVE  RingInv' /\ WireInv' /\ UNCHANGED Q!vars
<1>1. UNCHANGED <<head, tail, buffer, wire, shift>>
  BY DEF Read, LockIRQ, Acquire, Test, Unlock, RestoreEmpty, Sti, Return, Yield, controller
<1>2. PICK label \in Labels : Goto(r, label)
  BY DEF Read, LockIRQ, Acquire, Test, Unlock, RestoreEmpty, Sti, Return, Yield,
         Labels, Critical, Holding
<1>3. /\ pc' = [pc EXCEPT ![r] = label] /\ pc \in [Readers -> Labels]
  BY <1>2 DEF Goto, KeyboardInv, LockInv
<1>4. \/ /\ UNCHANGED ascii /\ label \notin {"advance", "unlock", "restore"}
         /\ pc[r] \notin {"unlock", "restore"}
      \/ UNCHANGED ascii /\ label = "restore" /\ pc[r] = "unlock"
      \/ /\ label = "advance" /\ pc[r] = "test" /\ head # tail
         /\ ascii' = [ascii EXCEPT ![r] = buffer[tail]]
  BY <1>3 DEF Read, LockIRQ, Acquire, Test, Unlock, RestoreEmpty, Sti, Return, Yield, At, Goto
<1>5. RingInv
  BY DEF KeyboardInv
<1>6. RingInv'
  BY <1>1, <1>3, <1>4, <1>5 DEF RingInv, Ring
<1>7. Result' = Result
  BY <1>3, <1>4, <1>5 DEF RingInv, Result
<1> QED
  BY <1>1, <1>6, <1>7, Views DEF KeyboardInv, WireInv, Q!vars

(* The tail moves: the character is this reader's. *)
LEMMA AdvanceStep ==
    ASSUME KeyboardInv, NEW r \in Readers, Advance(r)
    PROVE  RingInv' /\ WireInv' /\ Q!Take(r)
<1>1. /\ pc[r] = "advance" /\ running = r
      /\ tail' = (tail + 1) % BufferSize /\ pc' = [pc EXCEPT ![r] = "unlock"]
      /\ UNCHANGED <<head, buffer, wire, shift, ascii>>
  BY DEF Advance, At, Goto
<1>2. LockInv /\ RingInv
  BY DEF KeyboardInv
<1>3. pc \in [Readers -> Labels] /\ \A q \in Readers \ {r} : pc[q] # "advance"
  BY <1>1, <1>2 DEF LockInv, Critical, Holding
<1>4. Ring(head, tail, buffer) /\ head # tail /\ ascii[r] = buffer[tail]
  BY <1>1, <1>2 DEF RingInv
<1>5. /\ Ring(head, tail', buffer) /\ Queue # << >> /\ Head(Queue) = buffer[tail]
      /\ buffer[tail] \in Characters /\ Queue' = Tail(Queue)
  BY <1>1, <1>4, QueueTail, Views
<1>6. RingInv'
  BY <1>1, <1>2, <1>3, <1>4, <1>5 DEF RingInv
<1>7. Result[r] = NoCharacter /\ Result' = [Result EXCEPT ![r] = ascii[r]]
  BY <1>1, <1>3 DEF Result
<1>8. Typing' = Typing
  BY <1>1, Views
<1> QED
  BY <1>1, <1>4, <1>5, <1>6, <1>7, <1>8 DEF KeyboardInv, WireInv, Q!Take

(* The character is returned. *)
LEMMA RestoreStep ==
    ASSUME KeyboardInv, NEW r \in Readers, Restore(r)
    PROVE  RingInv' /\ WireInv' /\ Q!Return(r)
<1>1. PICK label \in {"lock", "return"} : pc' = [pc EXCEPT ![r] = label]
  BY DEF Restore, Goto
<1>2. /\ pc[r] = "restore" /\ ascii' = [ascii EXCEPT ![r] = NoCharacter]
      /\ UNCHANGED <<head, tail, buffer, wire, shift>>
  BY DEF Restore, At, controller
<1>3. pc \in [Readers -> Labels] /\ RingInv
  BY DEF KeyboardInv, LockInv
<1>4. RingInv'
  BY <1>1, <1>2, <1>3 DEF RingInv, Ring
<1>5. Result[r] # NoCharacter /\ Result' = [Result EXCEPT ![r] = NoCharacter]
  BY <1>1, <1>2, <1>3 DEF RingInv, Result, Characters, NoCharacter
<1> QED
  BY <1>2, <1>4, <1>5, Views DEF KeyboardInv, WireInv, Q!Return

LEMMA KeyboardStep ==
    ASSUME KeyboardInv, [Next]_vars
    PROVE  KeyboardInv' /\ [Q!Next]_(Q!vars)
<1>0. LockInv'
  BY LockStep DEF KeyboardInv
<1>1. CASE UNCHANGED vars \/ \E t \in Readers \cup {Nobody} : TimerInterrupt(t)
  <2>1. UNCHANGED <<head, tail, buffer, wire, shift, pc, ascii>>
    BY <1>1 DEF vars, controller, reader, TimerInterrupt
  <2> QED
    BY <1>0, <2>1, Views DEF KeyboardInv, RingInv, WireInv, Result, Q!vars
<1>2. CASE KeyStroke
  BY <1>0, <1>2, KeyStrokeStep DEF KeyboardInv, Q!Next
<1>3. CASE IOKeyboardInterruptsHandler
  BY <1>0, <1>3, HandlerStep DEF KeyboardInv
<1>4. ASSUME NEW r \in Readers, Read(r) \/ GetCharacter(r)
      PROVE  KeyboardInv' /\ [Q!Next]_(Q!vars)
  BY <1>0, <1>4, ReaderAside, AdvanceStep, RestoreStep DEF GetCharacter, KeyboardInv, Q!Next
<1> QED
  BY <1>1, <1>2, <1>3, <1>4 DEF Next

LEMMA KeyboardInit ==
    ASSUME Init
    PROVE  KeyboardInv /\ Q!Init
<1>1. /\ head = 0 /\ tail = 0 /\ wire = << >>
      /\ buffer = [i \in 0 .. BufferSize - 1 |-> NoCharacter]
      /\ pc = [r \in Readers |-> "idle"] /\ ascii = [r \in Readers |-> NoCharacter]
  BY Zenon DEF Init
<1>2. WireInv
  <2>1. shift \in BOOLEAN
    BY Zenon DEF Init
  <2>2. wire \in Seq(Scancodes)
    BY <1>1
  <2> QED
    BY <2>1, <2>2, Zenon DEF WireInv
<1>3. RingInv
  BY <1>1 DEF RingInv, Ring, Waiting
<1>4. LockInv
  BY LockInit
<1>5. Typing = << >>
  BY <1>1 DEF Typing
<1>6. Queue = << >>
  <2>1. Len(Queue) = 0 /\ Queue \in Seq(Characters)
    BY <1>1, <1>3, QueueFacts, Views DEF RingInv, Waiting
  <2> QED
    BY <2>1
<1>7. Result = [r \in Readers |-> NoCharacter]
  BY <1>1 DEF Result
<1> QED
  BY <1>2, <1>3, <1>4, <1>5, <1>6, <1>7 DEF KeyboardInv, Q!Init

(* The driver is the bounded queue its readers rely on: characters in the  *)
(* order they were typed, in the case shift had, each to one reader and    *)
(* once, and none lost while there is room (IOKeyboardInterruptsHandler,   *)
(* IOKeyboardGetCharacter), for every buffer size and any readers.         *)
THEOREM KeyboardIsQueue == Spec => ImplementsInputQueue
  BY KeyboardInit, KeyboardStep, PTL DEF Spec, ImplementsInputQueue, Q!Spec
=============================================================================
