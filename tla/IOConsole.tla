----------------------------- MODULE IOConsole -----------------------------
(***************************************************************************)
(* The console (src/kernel/src/IO/IOConsole.c) on a framebuffer            *)
(* (IO/IOGraphics.c).  Positions are pixels in 32-bit arithmetic, as in the*)
(* code.  What is on the screen is the set `glyphs` of the characters drawn*)
(* with the position of their corner: drawing adds to what is there (only  *)
(* the set bits of a glyph are written) and filling a rectangle removes.   *)
(*                                                                         *)
(* `output` is what the running call of IOConsoleLog or OSServiceIOWrite   *)
(* has still to do, a list of operations; a step performs the first one.   *)
(* Texts are kept as far as colours, tabs and ends of lines go.            *)
(***************************************************************************)
EXTENDS Integers, Sequences

CONSTANTS
    Screens,        \* the modes the firmware may have set
    FontWidth,      \* sIOConsoleFont.size
    FontHeight,
    Word            \* 2^32

IOGraphicsContext == [width : Nat \ {0}, height : Nat \ {0}, pixelsPerScanLine : Nat]

(* A scan line holds a row, and neither a row and the glyph after it nor   *)
(* the whole buffer is beyond 32 bits.                                     *)
ASSUME ConsoleAssumption ==
    /\ FontWidth \in Nat \ {0} /\ FontHeight \in Nat \ {0} /\ Word \in Nat
    /\ FontWidth * 4 < Word /\ FontHeight < Word
    /\ Screens \subseteq IOGraphicsContext
    /\ \A s \in Screens :
        /\ s.width <= s.pixelsPerScanLine /\ s.height * s.pixelsPerScanLine <= Word
        /\ s.width + FontWidth * 4 <= Word /\ s.height + 2 * FontHeight <= Word

VARIABLES
    context,        \* *sIOGraphicsContextPointer
    cursor,         \* sIOConsoleCursorPosition
    foreground,     \* sIOConsoleForegroundColor
    standard,       \* sIOConsoleDefaultForegroundColor
    background,     \* sIOConsoleBackgroundColor
    glyphs,         \* what is on the screen
    output          \* what the running call has still to do

colors == <<foreground, standard, background>>
console == <<context, cursor, colors, glyphs, output>>

-----------------------------------------------------------------------------
(* IOGraphics. *)

(* Mutant: a glyph that starts on the screen is drawn whole.               *)
ClipNot(start, draw, limit) == draw

(* drawW and drawH after clipping.                                         *)
Clip(start, draw, limit) == IF (start + draw) % Word > limit THEN limit - start ELSE draw

(* The pixels IOGraphicsDrawRectangle, DrawCharacter and DrawImage write   *)
(* for a rectangle of that size.                                           *)
Drawn(screen, point, size) ==
    IF point.x >= screen.width \/ point.y >= screen.height THEN {}
    ELSE {<<point.x + dx, point.y + dy>> :
              dx \in 0 .. Clip(point.x, size.width, screen.width) - 1,
              dy \in 0 .. Clip(point.y, size.height, screen.height) - 1}

(* Where a pixel is in the framebuffer.                                    *)
Index(screen, pixel) == (pixel[2] * screen.pixelsPerScanLine + pixel[1]) % Word

OnScreen(p) == p.x < context.width /\ p.y < context.height

(* The glyphs a rectangle or an image at p touches.                        *)
Touched(p, size) ==
    {g \in glyphs : /\ g.x < p.x + size.width /\ p.x < g.x + FontWidth
                    /\ g.y < p.y + size.height /\ p.y < g.y + FontHeight}

logoImage == [width |-> 100, height |-> 100]

Font == [width |-> FontWidth, height |-> FontHeight]

-----------------------------------------------------------------------------
(* IOConsole. *)

Point(px, py) == [x |-> px % Word, y |-> py % Word]

IOConsoleClear == cursor' = Point(0, 0) /\ glyphs' = {}

(* Where a character takes the cursor, before the ends are looked at.      *)
CursorAfter(character) ==
    CASE character = "newline" -> Point(0, cursor.y + FontHeight)
      [] character = "tab" -> Point(cursor.x + FontWidth * 4, cursor.y)
      [] character = "backspace" -> Point(cursor.x + Word - FontWidth, cursor.y)
      [] OTHER -> Point(cursor.x + FontWidth, cursor.y)

(* What a character leaves on the screen.                                  *)
Inked(character) ==
    CASE character \in {"newline", "tab", "space"} -> glyphs
      [] character = "backspace" ->
            LET p == CursorAfter(character)
            IN  IF OnScreen(p) THEN glyphs \ Touched(p, Font) ELSE glyphs
      [] OTHER -> IF OnScreen(cursor)
                  THEN glyphs \cup {[x |-> cursor.x, y |-> cursor.y, c |-> character]} ELSE glyphs

Wrapped(p) == IF p.x >= context.width THEN Point(0, p.y + FontHeight) ELSE p

(* Mutant: the end of the screen is looked at before the end of the line.  *)
PutcharacterOrder(character) ==
    IF CursorAfter(character).y >= context.height THEN IOConsoleClear
    ELSE cursor' = Wrapped(CursorAfter(character)) /\ glyphs' = Inked(character)

IOConsolePutcharacter(character) ==
    LET p == Wrapped(CursorAfter(character)) IN
    IF p.y >= context.height THEN IOConsoleClear
    ELSE cursor' = p /\ glyphs' = Inked(character)

(* The operations a text is made of: a character, the codes of IOConsoleLog*)
(* that set a colour or restore the standard one, and the other calls.     *)
Put(character) == <<"put", character>>
Color(name) == <<"color", name>>                \* ^r, ^g, ...
RestoreColor == <<"restore", "">>                    \* ^!
Standard(name) == <<"standard", name>>          \* IOConsoleSetDefaultForegroundColor
Clear(name) == <<"clear", name>>                \* IOConsoleClear
Cursor(px, py) == <<"cursor", Point(px, py)>>   \* IOConsoleSetCursorPosition
Image(px, py) == <<"image", Point(px, py)>>     \* IOGraphicsDrawImage

Is(kind) == output # << >> /\ output[1][1] = kind
Argument == output[1][2]

DoPut ==
    /\ Is("put") /\ IOConsolePutcharacter(Argument)
    /\ UNCHANGED colors

DoColor ==
    /\ \/ Is("color") /\ foreground' = Argument /\ UNCHANGED standard
       \/ Is("restore") /\ foreground' = standard /\ UNCHANGED standard
       \/ Is("standard") /\ standard' = Argument /\ UNCHANGED foreground
    /\ UNCHANGED <<cursor, background, glyphs>>

DoClear ==
    /\ Is("clear") /\ IOConsoleClear /\ background' = Argument
    /\ UNCHANGED <<foreground, standard>>

DoCursor ==
    /\ Is("cursor") /\ cursor' = Argument
    /\ UNCHANGED <<colors, glyphs>>

(* What the picture covers is gone.                                        *)
DoImage ==
    /\ Is("image") /\ glyphs' = glyphs \ Touched(Argument, logoImage)
    /\ UNCHANGED <<cursor, colors>>

Emit ==
    /\ DoPut \/ DoColor \/ DoClear \/ DoCursor \/ DoImage
    /\ output' = Tail(output)
    /\ UNCHANGED context

(* IOConsoleInit and the calls of kmain when it knows the framebuffer.     *)
ConsoleInit ==
    /\ context \in Screens
    /\ cursor = Point(0, 0) /\ glyphs = {}
    /\ foreground = "white" /\ standard = "white" /\ background = "dark"
    /\ output = << >>

(* Whoever has the console makes a call, or ends one for good (OSPanic); a *)
(* position that is set is on the screen.                                  *)
Operation ==
    ({"put", "color", "restore", "standard", "clear"} \X STRING)
        \cup ({"image"} \X [x : Nat, y : Nat])
        \cup ({"cursor"} \X {p \in [x : Nat, y : Nat] : OnScreen(p)})

Calls == output' \in Seq(Operation) /\ UNCHANGED <<context, cursor, colors, glyphs>>

ConsoleSpec == ConsoleInit /\ [][Emit \/ Calls]_console

-----------------------------------------------------------------------------
(* Properties. *)

(* The cursor is on the screen whenever the next character is drawn; also a*)
(* backspace in the first column, where the position wraps around to 2^32  *)
(* less a glyph, ends there.  (Where the splash puts the cursor is on the  *)
(* screens of the instance.)                                               *)
CursorOnScreen == OnScreen(cursor)

(* Wherever the cursor stands, a glyph drawn there stays in the framebuffer*)
(* and in the rows and columns of the screen.                              *)
DrawnInside ==
    \A pixel \in Drawn(context, cursor, Font) :
        /\ pixel[1] < context.width
        /\ Index(context, pixel) = pixel[2] * context.pixelsPerScanLine + pixel[1]
        /\ Index(context, pixel) < context.height * context.pixelsPerScanLine
=============================================================================
