------------------------------ MODULE Strings ------------------------------
(***************************************************************************)
(* The pure part of the C libraries: memory and strings                    *)
(* (kernel/src/lib/String.c and its copy, userspace/libterm/src/String.c), *)
(* the shell's parser (termosh/src/modules/parser.c) and the formatting of *)
(* numbers and messages (libterm/src/Console.c, IOConsole.c).              *)
(*                                                                         *)
(* A memory is a function from addresses to bytes; a text is a sequence of *)
(* bytes none of which is Nul.  What a function writes is its new memory.  *)
(***************************************************************************)
EXTENDS Integers, Sequences, FiniteSetsExt, SequencesExt

CONSTANTS
    Chunk,          \* sizeof(UInt64), what MemoryCopy moves at once
    NameSize,       \* sizeof(OSProcess.name), 32
    Unsigned,       \* 2^64, the modulus of UInt64
    IntMax          \* INT_MAX

(* Characters are numbers: a digit is its value, the others that matter    *)
(* have numbers of their own.                                              *)
Nul == -1
Minus == -2
Percent == -3
LetterX == -4
Slash == 9
nullptr == -1       \* no address

-----------------------------------------------------------------------------
(* String.c *)

MemorySet(memory, destination, value, count) ==
    [a \in DOMAIN memory |->
        IF a \in destination .. destination + count - 1 THEN value ELSE memory[a]]

(* What a copy of one unit of `size` bytes leaves. *)
Moved(memory, destination, from, source, size) ==
    [a \in DOMAIN memory |->
        IF a \in destination .. destination + size - 1
        THEN from[source + a - destination] ELSE memory[a]]

(* Whole words first, then the bytes that are left.  `from` is the memory  *)
(* the source is in.                                                       *)
MemoryCopy(memory, destination, from, source, count) ==
    LET words == count \div Chunk
        at(i) == IF i <= words THEN (i - 1) * Chunk ELSE words * Chunk + i - words - 1
        copied[i \in 0 .. words + (count % Chunk)] ==
            IF i = 0 THEN memory
            ELSE Moved(copied[i - 1], destination + at(i), from, source + at(i),
                       IF i <= words THEN Chunk ELSE 1)
    IN  copied[words + (count % Chunk)]

(* The addresses at which a string at s could end. *)
Ends(memory, s) == {a \in DOMAIN memory : a >= s /\ memory[a] = Nul}

StringGetLength(memory, s) == Min(Ends(memory, s)) - s

StringAt(memory, s) == [i \in 1 .. StringGetLength(memory, s) |-> memory[s + i - 1]]

(* Of a string in memory with a literal. *)
StringCompare(memory, s, text) ==
    LET Byte(k) == IF k < Len(text) THEN text[k + 1] ELSE Nul
        stop == Min({k \in 0 .. StringGetLength(memory, s) :
                        memory[s + k] = Nul \/ memory[s + k] # Byte(k)})
    IN  memory[s + stop] - Byte(stop)

(* Of two texts, up to the limit.                                          *)
StringCompareWithLimit(first, second, limit) ==
    LET Byte(text, k) == IF k <= Len(text) THEN text[k] ELSE Nul
        stops == {k \in 1 .. limit : Byte(first, k) # Byte(second, k) \/ Byte(first, k) = Nul}
    IN  IF stops = {} THEN 0 ELSE Byte(first, Min(stops)) - Byte(second, Min(stops))

(* A text and its Nul, however much room there is.                         *)
StringCopy(memory, destination, source) ==
    [a \in DOMAIN memory |->
        IF a \notin destination .. destination + Len(source) THEN memory[a]
        ELSE IF a - destination < Len(source) THEN source[a - destination + 1] ELSE Nul]

(* The rest of the limit is filled with Nul; at the limit there is none.   *)
StringCopyWithLimit(memory, destination, source, limit) ==
    [a \in DOMAIN memory |->
        IF a \notin destination .. destination + limit - 1 THEN memory[a]
        ELSE IF a - destination < Len(source) THEN source[a - destination + 1]
        ELSE Nul]

(* The index of the last separator in the text, 0 for none.                *)
StringFindLastOccurrenceOfCharacter(text, separator) ==
    Max({0} \cup {i \in 1 .. Len(text) : text[i] = separator})

sStringIsInSet(character, set) == character \in set

StringGetInitialSpan(memory, s, set) ==
    Min({a \in DOMAIN memory : a >= s /\ ~sStringIsInSet(memory[a], set)}) - s

StringFindFirstCharacterFromSet(memory, s, set) ==
    LET found == {a \in s .. s + StringGetLength(memory, s) : sStringIsInSet(memory[a], set)}
    IN  IF found = {} THEN nullptr ELSE Min(found)

(* Mutant: the next call starts at the delimiter's place again.            *)
StringTokenizeStays(memory, string, delimiters) ==
    LET token == string + StringGetInitialSpan(memory, string, delimiters)
        end == StringFindFirstCharacterFromSet(memory, token, delimiters)
    IN  IF memory[token] = Nul THEN [memory |-> memory, olds |-> token, token |-> nullptr]
        ELSE IF end = nullptr
        THEN [memory |-> memory, token |-> token, olds |-> token + StringGetLength(memory, token)]
        ELSE [memory |-> [memory EXCEPT ![end] = Nul], token |-> token, olds |-> end]

(* The token found from `string` on, cut off by a Nul, and the place where *)
(* the next call goes on.                                                  *)
StringTokenize(memory, string, delimiters) ==
    LET token == string + StringGetInitialSpan(memory, string, delimiters)
        end == StringFindFirstCharacterFromSet(memory, token, delimiters)
    IN  IF memory[token] = Nul THEN [memory |-> memory, olds |-> token, token |-> nullptr]
        ELSE IF end = nullptr
        THEN [memory |-> memory, token |-> token, olds |-> token + StringGetLength(memory, token)]
        ELSE [memory |-> [memory EXCEPT ![end] = Nul], token |-> token, olds |-> end + 1]

-----------------------------------------------------------------------------
(* parser.c *)

delim == {3, 4}

(* Three of the commands: one is the beginning of another, like q and quit.*)
token_map == << <<1>>, <<1, 2>>, <<2, 1>> >>

TOKEN_ILLEGAL == 0

(* The index in the table of the first entry that matches.                 *)
char2token(memory, token) ==
    Min({i \in 1 .. Len(token_map) : StringCompare(memory, token, token_map[i]) = 0}
            \cup {Len(token_map) + 1}) % (Len(token_map) + 1)

(* The loop asks for one token more than it keeps. *)
tokenize(buffer, max_tokens) ==
    LET call[i \in 0 .. max_tokens] ==
            IF i = 0 THEN StringTokenize(buffer, 0, delim)
            ELSE StringTokenize(call[i - 1].memory, call[i - 1].olds, delim)
        count == Min({i \in 0 .. max_tokens : call[i].token = nullptr} \cup {max_tokens})
    IN  [memory |-> call[count].memory, tokens |-> [i \in 1 .. count |-> call[i - 1].token]]

-----------------------------------------------------------------------------
(* OSServiceProcessSpawn and OSLoaderProcessSpawn: the name of a process is*)
(* the path after its last slash, in a field that was set to zero.         *)

ProcessName(path, before) ==
    LET name == SubSeq(path, StringFindLastOccurrenceOfCharacter(path, Slash) + 1, Len(path))
    IN  StringCopyWithLimit(MemorySet(before, 0, Nul, NameSize), 0, name, NameSize - 1)

-----------------------------------------------------------------------------
(* Numbers as digits, most significant first.  A digit is its value.       *)

(* The loop of both printers: the digits, at least one.                    *)
Digits(n, base) ==
    LET rest[k \in 0 .. n] ==
            IF k < base THEN <<k>> ELSE Append(rest[k \div base], k % base)
    IN  rest[n]

(* abs(int), which has no value for INT_MIN. *)
abs(n) == IF n < 0 THEN -n ELSE n

sIOConsolePrintDecimal(n) == (IF n < 0 THEN <<Minus>> ELSE << >>) \o Digits(abs(n), 10)

(* The two characters 0x first, then zeros up to the padding. *)
sIOConsolePrintHexadecimal(n, padding) ==
    LET digits == Digits(n, 16)
        zeros == IF Len(digits) < padding THEN padding - Len(digits) ELSE 0
    IN  <<0, LetterX>> \o [i \in 1 .. zeros |-> 0] \o digits

-----------------------------------------------------------------------------
(* Console.c: formatting into a buffer.  The state is what has been written*)
(* where, and the count, which goes on when the buffer is full.            *)

(* Mutant: a buffer of size 0 counts as one of 2^64 bytes.                 *)
sConsoleBufferAddWraps(state, size, character) ==
    [string |-> IF state.written < (size - 1) % Unsigned
                THEN [i \in DOMAIN state.string \cup {state.written} |->
                        IF i = state.written THEN character ELSE state.string[i]]
                ELSE state.string,
     written |-> state.written + 1]

sConsoleBufferAdd(state, size, character) ==
    [string |-> IF state.written < (size - 1) % Unsigned /\ size > 0
                THEN [i \in DOMAIN state.string \cup {state.written} |->
                        IF i = state.written THEN character ELSE state.string[i]]
                ELSE state.string,
     written |-> state.written + 1]

(* The text of one directive with its argument, and of a plain character.  *)
(* A missing string is "(null)"; %X pads to 16 digits, %x does not.        *)
Expanded(item) ==
    CASE item[1] = "text" -> <<item[2]>>
      [] item[1] = "s" -> item[2]
      [] item[1] = "c" -> <<item[2]>>
      [] item[1] = "d" -> (IF item[2] < 0 THEN <<Minus>> ELSE << >>) \o Digits(abs(item[2]), 10)
      [] item[1] = "x" -> Digits(item[2], 16)
      [] item[1] = "X" -> LET digits == Digits(item[2], 16)
                          IN  [i \in 1 .. 16 - Len(digits) |-> 0] \o digits
      [] item[1] = "%" -> <<Percent>>
      [] item[1] = "other" -> <<Percent, item[2]>>

(* A lone % at the end ends the format. *)
sStringFormatVariadic(size, format) ==
    LET text == FlattenSeq([i \in 1 .. Len(format) |-> Expanded(format[i])])
        full == FoldLeft(LAMBDA state, character : sConsoleBufferAdd(state, size, character),
                         [string |-> [i \in {} |-> Nul], written |-> 0], text)
        last == IF full.written < size THEN full.written ELSE size - 1
    IN  [string |-> IF size = 0 THEN full.string
                    ELSE [i \in DOMAIN full.string \cup {last} |->
                            IF i = last THEN Nul ELSE full.string[i]],
         written |-> full.written]

(* How much of a buffer of `size` bytes ConsolePrint writes out.           *)
ConsolePrint(size, format) ==
    LET length == sStringFormatVariadic(size, format).written
    IN  IF length < size THEN length ELSE size - 1

-----------------------------------------------------------------------------
(* What the functions compute, against what a reader would call it.        *)

(* A text in a buffer, with its Nul.                                       *)
Buffer(text) == [a \in 0 .. Len(text) |-> IF a < Len(text) THEN text[a + 1] ELSE Nul]

(* The words of a line: the longest runs without a delimiter, in order.    *)
Words(text) ==
    LET first(i) == text[i] \notin delim /\ (i = 1 \/ text[i - 1] \in delim)
        last(i) == text[i] \notin delim /\ (i = Len(text) \/ text[i + 1] \in delim)
        starts == SetToSortSeq({i \in 1 .. Len(text) : first(i)}, <)
        ends == SetToSortSeq({i \in 1 .. Len(text) : last(i)}, <)
    IN  [k \in 1 .. Len(starts) |-> SubSeq(text, starts[k], ends[k])]

(* After all calls, the tokens the shell kept are the first words of the   *)
(* line, none cut short or lengthened by a later call, and a word is a     *)
(* command exactly when it is one as a whole.                              *)
LineParsed(text, max_tokens) ==
    LET parsed == tokenize(Buffer(text), max_tokens)
        words == Words(text)
        kept == IF Len(words) < max_tokens THEN Len(words) ELSE max_tokens
    IN  /\ Len(parsed.tokens) = kept
        /\ \A k \in 1 .. kept :
            /\ StringAt(parsed.memory, parsed.tokens[k]) = words[k]
            /\ LET command == char2token(parsed.memory, parsed.tokens[k]) IN
               IF words[k] \in ToSet(token_map) THEN token_map[command] = words[k]
               ELSE command = TOKEN_ILLEGAL

(* The name of a process ends inside its field, whatever the field held    *)
(* before, and is what follows the last slash, cut to fit.                 *)
NameFits(path, before) ==
    LET field == ProcessName(path, before)
        slashes == {0} \cup {i \in 1 .. Len(path) : path[i] = Slash}
        name == SubSeq(path, Max(slashes) + 1, Len(path))
    IN  /\ \E a \in Ends(field, 0) : a < NameSize
        /\ StringAt(field, 0) = SubSeq(name, 1, IF Len(name) < NameSize THEN Len(name) ELSE NameSize - 1)

(* Comparing up to a limit tells whether two texts begin alike, as far as  *)
(* the limit goes, and a copied text reads back.                           *)
BeginningCompared(first, second, limit) ==
    LET cut(text) == SubSeq(text, 1, IF Len(text) < limit THEN Len(text) ELSE limit) IN
    /\ StringCompareWithLimit(first, second, limit) = 0 <=> cut(first) = cut(second)
    /\ StringAt(StringCopy([a \in 0 .. Len(first) + 1 |-> 5], 0, first), 0) = first

Value(digits, base) == FoldLeft(LAMBDA v, d : v * base + d, 0, digits)

(* Numbers read back as what was printed, by the kernel and by programs,   *)
(* negative ones too, and padded ones have their width.                    *)
NumberReadsBack(n) ==
    LET Signed(text) == IF text[1] = Minus THEN -Value(Tail(text), 10) ELSE Value(text, 10) IN
    /\ Expanded(<<"d", n>>) # << >>
    /\ n > -IntMax - 1 => Signed(sIOConsolePrintDecimal(n)) = n
    /\ Signed(Expanded(<<"d", n>>)) = n
    /\ n >= 0 => \A padding \in {0, 16} :
        LET text == sIOConsolePrintHexadecimal(n, padding) IN
        /\ Len(text) >= padding + 2
        /\ Value(SubSeq(text, 3, Len(text)), 16) = n
        /\ Value(Expanded(<<IF padding = 0 THEN "x" ELSE "X", n>>), 16) = n

(* Formatting stays in the buffer, ends it with a Nul, keeps the beginning *)
(* of the text, counts all of it, and what is printed is what is kept.     *)
FormatKeeps(size, format) ==
    LET result == sStringFormatVariadic(size, format)
        text == FlattenSeq([i \in 1 .. Len(format) |-> Expanded(format[i])])
        kept == IF Len(text) < size THEN Len(text) ELSE size - 1
    IN  /\ DOMAIN result.string \subseteq 0 .. size - 1
        /\ result.written = Len(text)
        /\ size > 0 => /\ result.string[kept] = Nul
                       /\ \A i \in 1 .. kept : result.string[i - 1] = text[i]
                       /\ ConsolePrint(size, format) = kept
=============================================================================
