----------------------------- MODULE MCLibrary -----------------------------
(***************************************************************************)
(* The library code and the serial port for TLC: the heap of a process, the*)
(* random numbers and the tasks that print, which share nothing (each is   *)
(* explored while the others have not begun), and the pure functions,      *)
(* evaluated once on bounded inputs.                                       *)
(***************************************************************************)
EXTENDS ProcessHeap, HOT, Rand, PosixUEFI, IOSerial

CONSTANTS
    LineLength,     \* of the lines that are parsed
    PathLength      \* of the paths of programs

MCSizes == {1, 17, 60, 100}
MCMagic == {0, 2, 3}

NothingAllocated == brk = 0 /\ frames = Frames
NothingDrawn == sPseudorandState = BOOTINFO_MAGIC
NothingPrinted == SerialInit

MCInit == MemoryInit /\ RandInitialize /\ SerialInit

MCNext ==
    \/ NothingDrawn /\ NothingPrinted /\ MemoryNext /\ UNCHANGED <<sPseudorandState, serial>>
    \/ NothingAllocated /\ NothingPrinted /\ Rand /\ UNCHANGED <<memory, serial>>
    \/ NothingAllocated /\ NothingDrawn /\ SerialNext /\ UNCHANGED <<memory, sPseudorandState>>

MCSpec == MCInit /\ [][MCNext]_<<memory, sPseudorandState, serial>>

(* The pure functions need one state. *)
AtRest == NothingAllocated /\ NothingDrawn /\ NothingPrinted

Texts(characters, length) == UNION {[1 .. n -> characters] : n \in 0 .. length}

-----------------------------------------------------------------------------
(* Every short line of letters, blanks and tabs is split into its words.   *)
LinesParsed ==
    AtRest => \A text \in Texts({1, 2, 3, 4}, LineLength), max_tokens \in 1 .. 3 :
                LineParsed(text, max_tokens)

MCItems == {<<"text", 20>>, <<"s", << >> >>, <<"s", <<21, 22>> >>, <<"c", 23>>, <<"d", -IntMax - 1>>,
            <<"d", 0>>, <<"x", 0>>, <<"X", IntMax>>, <<"%", 0>>, <<"other", 24>>}

(* The ends of the ranges of characters that take one, two, three bytes.   *)
MCArguments == Texts({1, 127, 128, 2047, 2048, 65535}, 2)

(* What is written into a buffer ends inside it and reads back: every short*)
(* path gives a process a name that ends inside its field, which was not   *)
(* zero before; every number of the int range reads back as printed;       *)
(* messages of up to three parts fit buffers of every size from 0 to past  *)
(* their end; texts are told apart up to a limit and copied whole; and the *)
(* bootloader's arguments fit the block that was allocated for them.       *)
TextsFit ==
    AtRest =>
        /\ \A path \in Texts({1, 2, Slash}, PathLength) :
               NameFits(path, [a \in 0 .. NameSize + 1 |-> 5])
        /\ \A n \in -IntMax - 1 .. IntMax : NumberReadsBack(n)
        /\ \A format \in Texts(MCItems, 3), size \in {0, 1, 2, 3, 7, 40} :
               FormatKeeps(size, format)
        /\ \A first, second \in Texts({1, 2}, 3), limit \in 0 .. 4 :
               BeginningCompared(first, second, limit)
        /\ \A first, second \in MCArguments :
               ArgumentsFit(<<first, second>>) /\ ArgumentsFit(<<first>>)

(* Two loadable segments at every place in a page, with the header of a    *)
(* segment that is not loaded between them.                                *)
MCHeaders(vaddrs) ==
    {[load |-> TRUE, offset |-> 1, vaddr |-> v, filesz |-> s[1], memsz |-> s[2]] :
        v \in vaddrs, s \in {t \in {0, 1, 3, 6} \X {0, 1, 4, 6} : t[1] <= t[2]}}

MCAddresses == 0 .. 31

(* Every such program is loaded as its ELF file says.                      *)
ImagesLoaded ==
    AtRest => \A first \in MCHeaders(0 .. 3), second \in MCHeaders(8 .. 14) :
        ImageLoaded([entry |-> 4, bytes |-> [i \in 1 .. 16 |-> i],
                     headers |-> <<first, [first EXCEPT !.load = FALSE], [second EXCEPT !.offset = 8]>>])
=============================================================================
