-------------------------------- MODULE HOT --------------------------------
(***************************************************************************)
(* The executable format: the converter of the build                       *)
(* (tools/elf2hot/src/main.rs) writes it, HOTLoad                          *)
(* (kernel/src/OS/Exec/HOTLoader.c) reads it.  An ELF file is its bytes    *)
(* and its program headers; an image is its table of segments and, by      *)
(* offset, the bytes behind the table.  A program's memory is a function   *)
(* from virtual addresses to bytes.  (OSLoader has the loading of pages as *)
(* steps that can fail; here are the bytes.)                               *)
(***************************************************************************)
EXTENDS Strings

CONSTANTS
    ImagePage,      \* kVMPageSize
    Addresses       \* the virtual addresses, whole pages from 0 on

HotHeaderSize == 32
HotSegmentSize == 40

Sum(s, field(_)) == FoldLeft(LAMBDA sum, x : sum + field(x), 0, s)

-----------------------------------------------------------------------------
(* Mutant: the offset does not move on from segment to segment.            *)
elf2hotOneOffset(elf) ==
    LET load == SelectSeq(elf.headers, LAMBDA ph : ph.load)
        table == HotHeaderSize + Len(load) * HotSegmentSize
        data == FlattenSeq([i \in 1 .. Len(load) |->
                    SubSeq(elf.bytes, load[i].offset + 1, load[i].offset + load[i].filesz)])
    IN  [entry_point |-> elf.entry,
         segments |-> [i \in 1 .. Len(load) |->
            [vaddr |-> load[i].vaddr, offset |-> table,
             filesz |-> load[i].filesz, memsz |-> load[i].memsz]],
         data |-> [a \in table .. table + Len(data) - 1 |-> data[a - table + 1]]]

(* The loadable segments, the offsets of their bytes counted on from the   *)
(* end of the table, and the bytes.                                        *)
elf2hot(elf) ==
    LET load == SelectSeq(elf.headers, LAMBDA ph : ph.load)
        table == HotHeaderSize + Len(load) * HotSegmentSize
        offset(i) == table + Sum(SubSeq(load, 1, i - 1), LAMBDA ph : ph.filesz)
        data == FlattenSeq([i \in 1 .. Len(load) |->
                    SubSeq(elf.bytes, load[i].offset + 1, load[i].offset + load[i].filesz)])
    IN  [entry_point |-> elf.entry,
         segments |-> [i \in 1 .. Len(load) |->
            [vaddr |-> load[i].vaddr, offset |-> offset(i),
             filesz |-> load[i].filesz, memsz |-> load[i].memsz]],
         data |-> [a \in table .. table + Len(data) - 1 |-> data[a - table + 1]]]

(* The pages of a segment. *)
PageStart(segment) == segment.vaddr - (segment.vaddr % ImagePage)
PageEnd(segment) ==
    LET end == segment.vaddr + segment.memsz + ImagePage - 1 IN end - (end % ImagePage)
Pages(segment) ==
    IF segment.memsz = 0 THEN {}
    ELSE {a \in PageStart(segment) .. PageEnd(segment) - 1 : a % ImagePage = 0}

(* Loading one page: a fresh frame of zeros and, of the segment's bytes in *)
(* the file, the ones that belong to the page.                             *)
LoadPage(memory, image, segment, address) ==
    LET overleapStart == Max({address, segment.vaddr})
        overleapEnd == Min({address + ImagePage, segment.vaddr + segment.filesz})
        fresh == MemorySet(memory, address, 0, ImagePage)
    IN  IF overleapStart >= overleapEnd THEN fresh
        ELSE MemoryCopy(fresh, overleapStart, image.data,
                        segment.offset + overleapStart - segment.vaddr,
                        overleapEnd - overleapStart)

(* The memory of a program after HOTLoad: Nul is an address not mapped.    *)
HOTLoad(image) ==
    LET LoadSegment(memory, segment) ==
            FoldLeft(LAMBDA m, address : LoadPage(m, image, segment, address), memory,
                     SetToSortSeq(Pages(segment), <))
    IN  [memory |-> FoldLeft(LoadSegment, [a \in Addresses |-> Nul], image.segments),
         entry_point |-> image.entry_point]

-----------------------------------------------------------------------------
(* A program starts with the memory its ELF file describes: every byte of  *)
(* every loadable segment at its address, zeros up to the segment's size,  *)
(* also where a segment begins or ends inside a page, if no two segments   *)
(* share a page: the second one's frame replaces the first one's.          *)
ImageLoaded(elf) ==
    LET loaded == HOTLoad(elf2hot(elf))
        load == {i \in 1 .. Len(elf.headers) : elf.headers[i].load}
        apart == \A i, j \in load : i # j => Pages(elf.headers[i]) \cap Pages(elf.headers[j]) = {}
    IN  apart =>
        /\ loaded.entry_point = elf.entry
        /\ \A i \in load : LET ph == elf.headers[i] IN
            \A k \in 0 .. ph.memsz - 1 :
                loaded.memory[ph.vaddr + k] =
                    IF k < ph.filesz THEN elf.bytes[ph.offset + k + 1] ELSE 0
=============================================================================
