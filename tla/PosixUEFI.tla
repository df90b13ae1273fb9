----------------------------- MODULE PosixUEFI -----------------------------
(***************************************************************************)
(* The arguments of the bootloader's main: uefi_init of posix-uefi         *)
(* (src/bootloader/src/uefi/crt_x86_64.c) turns the 16-bit characters of   *)
(* the UEFI shell into UTF-8, in one block that holds the pointers, a null *)
(* pointer and the strings.  (What else uefi_init does is in Boot.)        *)
(***************************************************************************)
EXTENDS Integers, Sequences, SequencesExt

PointerSize == 8        \* sizeof(uintptr_t)

(* What the first loop counts for a character,                             *)
UTF8Size(c) == IF c < 128 THEN 1 ELSE IF c < 2048 THEN 2 ELSE 3

(* and what the second one writes.                                         *)
UTF8(c) ==
    IF c < 128 THEN <<c>>
    ELSE IF c < 2048 THEN <<192 + ((c \div 64) % 32), 128 + (c % 64)>>
    ELSE <<224 + ((c \div 4096) % 16), 128 + ((c \div 64) % 64), 128 + (c % 64)>>

UTF8Text(text) == FlattenSeq([j \in 1 .. Len(text) |-> UTF8(text[j])])

(* The size that is allocated; a missing argument counts as an empty one.  *)
BlockSize(argv) ==
    FoldLeft(LAMBDA ret, text : FoldLeft(LAMBDA r, c : r + UTF8Size(c), ret, text),
             (Len(argv) + 1) * (PointerSize + 1), argv)

(* The block: pointers are offsets in it, the null pointer is 0, and the   *)
(* strings, each with its Nul, begin at (argc + 1) * PointerSize.          *)
ArgumentBlock(argv) ==
    LET argc == Len(argv)
        strings == [i \in 1 .. argc |-> Append(UTF8Text(argv[i]), 0)]
        s == (argc + 1) * PointerSize
    IN  [pointers |-> [i \in 1 .. argc + 1 |->
                         IF i > argc THEN 0 ELSE s + Len(FlattenSeq(SubSeq(strings, 1, i - 1)))],
         start |-> s, bytes |-> FlattenSeq(strings)]

-----------------------------------------------------------------------------
(* The characters that the UTF-8 of bytes from position k on stands for.   *)
Decoded(bytes, k) ==
    LET from[j \in k .. Len(bytes)] ==
            LET b == bytes[j] IN
            IF b = 0 THEN << >>
            ELSE IF b < 128 THEN <<b>> \o from[j + 1]
            ELSE IF b < 224 THEN <<(b - 192) * 64 + bytes[j + 1] - 128>> \o from[j + 2]
            ELSE <<(b - 224) * 4096 + (bytes[j + 1] - 128) * 64 + bytes[j + 2] - 128>>
                     \o from[j + 3]
    IN  from[k]

(* The block is large enough, the pointers end with a null pointer, and the*)
(* strings they lead to read back as the arguments.                        *)
ArgumentsFit(argv) ==
    LET block == ArgumentBlock(argv) IN
    /\ block.start + Len(block.bytes) <= BlockSize(argv)
    /\ block.pointers[Len(argv) + 1] = 0
    /\ \A i \in 1 .. Len(argv) :
        Decoded(block.bytes, block.pointers[i] - block.start + 1) = argv[i]
=============================================================================
