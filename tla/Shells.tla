------------------------------- MODULE Shells -------------------------------
(***************************************************************************)
(* The programs a user meets on the console: the kernel's rescue shell ksh *)
(* (src/kernel/src/KSH), or init and its shell termosh (src/userspace) that*)
(* read and write through the I/O services; and the panic screen           *)
(* (OS/OSPanic.c), which may end any of them at any moment.                *)
(*                                                                         *)
(* Command words are abstracted: a line that is not empty may be any       *)
(* command.                                                                *)
(***************************************************************************)
EXTENDS IOConsole, SequencesExt

CONSTANTS
    Limit,          \* the size of the line buffer, 256 or 512
    Keys,           \* what can be typed
    MaxKeys         \* how many keys are typed (bound)

VARIABLES
    shell,          \* "ksh" or "termosh"
    pc,             \* where it is
    line,           \* the buffer of IOConsoleReadLine or ConsoleReadLine
    keys,           \* how many keys were typed
    begun           \* where the line starts on the screen; what happened to it

vars == <<console, shell, pc, line, keys, begun>>

-----------------------------------------------------------------------------
(* Texts. *)

Letters(n) == [i \in 1 .. n |-> Put("a")]
Tabs(n) == [i \in 1 .. n |-> Put("tab")]
Newline == <<Put("newline")>>
In(name, text) == <<Color(name)>> \o text \o <<RestoreColor>>
Lines(n, text) == FlattenSeq([i \in 1 .. n |-> text \o Newline])
Rubout == <<Put("backspace"), Put("space"), Put("backspace")>>

(* Mutant: the text starts lower, where small screens end.                 *)
SplashShowLow ==
    <<Image(0, 10), Cursor(75, 55)>> \o Letters(2) \o Newline \o <<Cursor(0, 140)>>

(* SplashShow. *)
SplashShow ==
    <<Image(0, 10), Cursor(75, 55)>> \o Letters(2) \o In("pink", Letters(1)) \o Letters(1)
        \o Newline \o <<Cursor(0, 120)>>

(* Mutant: the last line does not restore the colour.                      *)
KSHCommandKernelFetchBlack ==
    Newline \o Newline
        \o <<Color("pink")>> \o Letters(1) \o <<RestoreColor>> \o Tabs(2) \o In("green", Letters(1))
        \o Newline \o <<Color("black")>>

(* The first line ends in black, which the next one takes back.            *)
KSHCommandKernelFetch ==
    LET art == In("pink", Letters(1)) \o Tabs(2) IN
    Newline \o Newline
        \o art \o In("green", Letters(1)) \o Newline \o <<Color("black")>>
        \o Lines(7, art \o In("green", Letters(1)) \o Letters(1)) \o <<RestoreColor>>
        \o Newline \o Newline

KSHCommandHelp ==
    LET entry == Tabs(2) \o In("yellow", Letters(1)) \o Tabs(2) \o Letters(1) IN
    Lines(3, Letters(1)) \o Lines(1, Tabs(1) \o In("red", Letters(1))) \o Lines(6, entry)
        \o Lines(1, Tabs(1) \o In("pink", Letters(1))) \o Lines(3, entry)
        \o Lines(1, Tabs(1) \o In("blue", Letters(1))) \o Lines(4, entry)

(* isr_handler_c for the breakpoint of KSHCommandRegisters.                *)
KSHCommandRegisters ==
    Lines(1, Letters(1)) \o Lines(1, Tabs(2) \o In("green", Letters(1))) \o Lines(1, Letters(1))
        \o Lines(8, In("green", Letters(1)) \o Letters(1)) \o Lines(1, Letters(1))

(* CommandMap and what KSHEntry does for each token, but for the panics.   *)
KSHEntry(token) ==
    CASE token = "clear" -> <<Clear(background)>>      \* the low half of IOConsoleGetColors
      [] token = "rand" -> Letters(1) \o In("yellow", Letters(1)) \o Newline
      [] token = "ver" -> Lines(3, Letters(1))
      [] token = "sleep" -> << >>
      [] token = "dbg" -> Newline \o Lines(1, Letters(1))
      [] token = "regs" -> KSHCommandRegisters
      [] token = "splash" -> SplashShow
      [] token = "kfetch" -> KSHCommandKernelFetch
      [] token = "meow" -> Lines(1, Letters(1)) \o Newline \o Lines(4, Letters(1)) \o Newline
      [] token = "help" -> KSHCommandHelp
      [] OTHER -> Lines(1, Letters(1))                  \* Unknown command!!

Builtins == {"clear", "rand", "ver", "sleep", "dbg", "regs", "splash", "kfetch", "meow", "help",
             "unknown"}

(* sOSPanicFunMessages: a short one and the longest, of two lines.         *)
FunMessages == {Letters(6), Letters(18) \o Newline \o Tabs(4) \o Letters(90)}

Rule == Tabs(2) \o Letters(32)

sOSPanicDrawPanicBackground(message) ==
    <<Clear("black"), Color("white"), Standard("white")>> \o Newline \o Newline
        \o Tabs(4) \o In("blue", <<Put("K")>> \o Letters(11)) \o Letters(5) \o Newline
        \o Lines(1, Rule) \o Lines(1, Tabs(2) \o In("yellow", message)) \o Lines(1, Rule)

OSPanic(message) ==
    sOSPanicDrawPanicBackground(message)
        \o Lines(1, Tabs(2) \o In("yellow", Letters(6)) \o Letters(30)) \o Lines(1, Rule)
        \o Lines(1, Tabs(4) \o In("blue", Letters(14)))

(* Mutant: a line for each register.                                       *)
OSPanicExceptionLong(message) ==
    sOSPanicDrawPanicBackground(message)
        \o Lines(19, Tabs(2) \o Letters(50))
        \o Lines(15, Tabs(2) \o In("yellow", Letters(3)) \o Letters(20))
        \o Lines(1, Rule) \o Lines(1, Tabs(4) \o In("blue", Letters(14)))

(* With the helper for page faults, where both optional lines are shown.   *)
OSPanicException(message) ==
    LET value == Tabs(2) \o In("yellow", Letters(20)) \o Letters(20) IN
    sOSPanicDrawPanicBackground(message)
        \o Lines(6, value)
        \o Lines(3, Rule) \o Lines(2, value) \o Lines(5, Tabs(3) \o Letters(50))
        \o Lines(3, Rule)
        \o Lines(8, Tabs(2) \o In("yellow", Letters(3)) \o Letters(20) \o In("yellow", Letters(3))
                        \o Letters(20))
        \o Lines(1, Rule) \o Lines(1, Tabs(4) \o In("blue", Letters(14)))

-----------------------------------------------------------------------------
(* Reading a line. *)

Nowhere == [x |-> 0, y |-> 0, widest |-> 0, clean |-> FALSE]
Idle == output = << >>

Prompt ==
    /\ pc = "prompt" /\ Idle
    /\ output' = Letters(IF shell = "ksh" THEN 5 ELSE 9) \o <<Put("space")>>
    /\ pc' = "prompted" /\ line' = << >> /\ begun' = Nowhere
    /\ UNCHANGED <<context, cursor, colors, glyphs, shell, keys>>

(* The call that prints the prompt returns. *)
ReadBegins ==
    /\ pc = "prompted" /\ Idle
    /\ begun' = [x |-> cursor.x, y |-> cursor.y, widest |-> 0,
                 clean |-> {g \in glyphs : g.y + FontHeight > cursor.y /\ g.x + FontWidth > cursor.x} = {}]
    /\ pc' = "read"
    /\ UNCHANGED <<console, shell, line, keys>>

Typed(key) ==
    /\ pc = "read" /\ Idle /\ keys < MaxKeys
    /\ keys' = keys + 1
    /\ UNCHANGED <<context, cursor, colors, glyphs, shell>>

(* ConsoleReadLine stops reading when its buffer is full. *)
Full == shell = "termosh" /\ Len(line) = Limit - 1

EndLine ==
    /\ \/ ~Full /\ Typed("newline")
       \/ Full /\ pc = "read" /\ Idle /\ UNCHANGED <<context, cursor, colors, glyphs, shell, keys>>
    /\ output' = Newline /\ pc' = "run"
    /\ UNCHANGED <<line, begun>>

(* Mutant: the cursor stays behind the erased character.                   *)
EraseKeyStays ==
    /\ ~Full /\ Typed("backspace")
    /\ IF line = << >> THEN UNCHANGED <<line, output>>
       ELSE line' = Front(line) /\ output' = <<Put("backspace"), Put("space")>>
    /\ UNCHANGED <<pc, begun>>

EraseKey ==
    /\ ~Full /\ Typed("backspace")
    /\ IF line = << >> THEN UNCHANGED <<line, output>>
       ELSE line' = Front(line) /\ output' = Rubout
    /\ UNCHANGED <<pc, begun>>

(* IOConsoleReadLine drops what does not fit.  A tab is echoed as a tab but*)
(* erased as one column.                                                   *)
LetterKey(key) ==
    /\ ~Full /\ Typed(key)
    /\ IF Len(line) >= Limit - 1 THEN UNCHANGED <<line, output, begun>>
       ELSE /\ line' = Append(line, key) /\ output' = <<Put(key)>>
            /\ begun' = [begun EXCEPT !.clean = @ /\ key # "tab",
                                      !.widest = IF @ > Len(line) THEN @ ELSE Len(line) + 1]
    /\ UNCHANGED pc

(* Another process writes to the console while termosh waits for a key.    *)
OtherWrites ==
    /\ shell = "termosh" /\ Typed("other")
    /\ output' = <<Put("a")>> /\ begun' = [begun EXCEPT !.clean = FALSE]
    /\ UNCHANGED <<pc, line>>

-----------------------------------------------------------------------------
(* Running a command. *)

RunBuiltin ==
    /\ shell = "ksh" /\ pc = "run" /\ Idle
    /\ IF line = << >> THEN UNCHANGED output
       ELSE \E token \in Builtins : output' = KSHEntry(token)
    /\ pc' = "prompt"
    /\ UNCHANGED <<context, cursor, colors, glyphs, shell, line, keys, begun>>

(* A blank line and `spawn` alone do nothing; clear and help say that they *)
(* are not there yet; anything else is a program.                          *)
RunCommand ==
    /\ shell = "termosh" /\ pc = "run" /\ Idle
    /\ \/ pc' = "prompt" /\ UNCHANGED output
       \/ \E i \in DOMAIN line : line[i] # "tab" /\ pc' = "prompt" /\ output' = Lines(1, Letters(1))
       \/ \E i \in DOMAIN line : line[i] # "tab" /\ pc' \in {"spawn", "quit"} /\ UNCHANGED output
    /\ UNCHANGED <<context, cursor, colors, glyphs, shell, line, keys, begun>>

(* The program is not found or cannot be started, or it runs and the shell *)
(* waits for it.                                                           *)
cmd_spawn ==
    /\ pc = "spawn" /\ Idle
    /\ \/ output' = Lines(1, Letters(2)) /\ pc' = "prompt"
       \/ pc' = "waiting" /\ UNCHANGED output
    /\ UNCHANGED <<context, cursor, colors, glyphs, shell, line, keys, begun>>

(* The program wrote something and has ended, which the kernel reports,    *)
(* and the wait for it has returned.                                       *)
ProgramEnds ==
    /\ pc = "waiting" /\ Idle
    /\ output' = Letters(1) \o Newline \o Lines(1, Letters(2)) /\ pc' = "prompt"
    /\ UNCHANGED <<context, cursor, colors, glyphs, shell, line, keys, begun>>

(* Mutant: init does not start the shell again.                            *)
InitWaitedOnce ==
    /\ pc = "quit" /\ Idle
    /\ output' = Newline \o Lines(1, Letters(2)) /\ pc' = "ended"
    /\ UNCHANGED <<context, cursor, colors, glyphs, shell, line, keys, begun>>

(* init: the shell has ended and the wait for it has returned; the next one*)
(* is spawned, or init ends too.                                           *)
InitWaited ==
    /\ pc = "quit" /\ Idle
    /\ output' = Newline \o Lines(1, Letters(2)) /\ pc' \in {"prompt", "failed"}
    /\ UNCHANGED <<context, cursor, colors, glyphs, shell, line, keys, begun>>

(* A panic may strike at any time.  It sets the screen and the colours up  *)
(* anew, so it is enough to let it strike between two calls.               *)
Panic ==
    /\ pc # "halted" /\ Idle /\ pc' = "halted"
    /\ \E message \in FunMessages : output' \in {OSPanic(message), OSPanicException(message)}
    /\ line' = << >> /\ begun' = Nowhere /\ keys' = MaxKeys
    /\ UNCHANGED <<context, cursor, colors, glyphs, shell>>

-----------------------------------------------------------------------------
Init ==
    /\ ConsoleInit
    /\ shell \in {"ksh", "termosh"} /\ pc = "start" /\ line = << >> /\ keys = 0
    /\ begun = Nowhere

(* kmain shows the splash and starts a shell. *)
Start ==
    /\ pc = "start" /\ pc' = "prompt" /\ output' = SplashShow
    /\ UNCHANGED <<context, cursor, colors, glyphs, shell, line, keys, begun>>

Emits == Emit /\ UNCHANGED <<shell, pc, line, keys, begun>>

Types == EndLine \/ EraseKey \/ (\E key \in Keys : LetterKey(key)) \/ OtherWrites

Runs == RunBuiltin \/ RunCommand \/ cmd_spawn

Waits == ProgramEnds \/ InitWaited

Next == Start \/ Emits \/ Prompt \/ ReadBegins \/ Types \/ Runs \/ Waits \/ Panic

(* The CPU goes on with the shell and with its output; keys and panics come*)
(* as they like.  Nothing is assumed of Waits: a program may run for ever, *)
(* and OSSchedulerBlock waits for ever for a process that is already dead. *)
Spec == Init /\ [][Next]_vars /\ WF_vars(Start \/ Emits \/ Prompt \/ ReadBegins \/ Runs)

-----------------------------------------------------------------------------
(* Properties. *)

(* Shells, services and panics use the console as it expects: what is set  *)
(* as the cursor's position is on the screen.                              *)
UsesConsole == ConsoleSpec

(* While a line is edited the screen shows it: the cursor stands behind it,*)
(* each of its characters in its column and nothing on top of it.  (As long*)
(* as the line fits the row, holds no tab, and nobody writes or wrote      *)
(* there.)                                                                 *)
ScreenShowsLine ==
    pc = "read" /\ Idle /\ begun.clean /\ begun.x + begun.widest * FontWidth < context.width =>
        /\ cursor = Point(begun.x + Len(line) * FontWidth, begun.y)
        /\ {g \in glyphs : g.y = begun.y /\ g.x >= begun.x} =
               {[x |-> begun.x + (i - 1) * FontWidth, y |-> begun.y, c |-> line[i]] : i \in DOMAIN line}

(* A prompt can be read: whatever was printed before, the colour is back to*)
(* the standard one and is not the background's.                           *)
PromptVisible ==
    pc \in {"prompted", "read"} => foreground = standard /\ foreground # background

(* A panic screen keeps its heading on a screen of 800 by 600 and more: the*)
(* longest report is not so long that the console, which does not scroll,  *)
(* wipes its beginning.                                                    *)
PanicReadable ==
    pc = "halted" /\ Idle /\ context.width >= 800 /\ context.height >= 600 =>
        \E g \in glyphs : g.c = "K"

(* No wait lasts for ever.  (The code does not see to that.)               *)
WaitsReturn == []<>(pc \notin {"waiting", "quit"})

(* After a line there is another prompt, unless the machine stops, no shell*)
(* can be started, or somebody waits; if waits return, also after a command*)
(* that ran a program and after the shell was left.                        *)
PromptReturns ==
    /\ pc = "run" ~> pc \in {"read", "halted", "failed", "waiting", "quit"}
    /\ WaitsReturn => (pc = "run" ~> pc \in {"read", "halted", "failed"})
=============================================================================
