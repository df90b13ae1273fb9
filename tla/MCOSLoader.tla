---------------------------- MODULE MCOSLoader ----------------------------
(* Instances of OSLoader for TLC.  Page tables have four entries: 256      *)
(* pages, the upper 128 of them the kernel's.  User heap and stack share a *)
(* page directory pointer, six pages apart, as in the kernel they share one*)
(* further apart.  The kernel takes frames 2 to 4, its guard page is 3.    *)
EXTENDS OSLoader

CONSTANT Memories       \* numbers of frames of memory (bound)

Stretch(t, s, n) == [type |-> t, start |-> s, pageCount |-> n]

(* Some of the memory is the loader's: the initial file system.            *)
MCMaps ==
    { << Stretch("Conventional", 0, 2), Stretch("Other", 2, 3),
         Stretch("Conventional", 5, 9), Stretch("Other", 14, 2),
         Stretch("Conventional", 16, n - 16), Stretch("Ignored", 100, 2) >>
      : n \in Memories }

MCKernelFrames == 2 .. 4

(* A program of two segments, the second with .bss on a page of its own,   *)
(* and an empty one between them; one of a single page; one without an     *)
(* entry point; a file of another kind.                                    *)
Program ==
    [magic |-> TRUE, entry_point |-> 16,
     segments |-> << [vaddr |-> 16, memsz |-> 3], [vaddr |-> 20, memsz |-> 0],
                     [vaddr |-> 21, memsz |-> 5] >>]
Small == [magic |-> TRUE, entry_point |-> 16,
          segments |-> << [vaddr |-> 16, memsz |-> 4] >>]
NoEntry == [magic |-> TRUE, entry_point |-> 0, segments |-> << >>]
Text == [magic |-> FALSE, entry_point |-> 0, segments |-> << >>]

MCImages == {Program, Small, NoEntry, Text}
=============================================================================
