------------------------------- MODULE FSCPIO -------------------------------
(***************************************************************************)
(* The file system: the startup volume is a cpio archive in memory, mounted*)
(* as a list of nodes (FS/CPIO.c) that paths are looked up in (FS/VFS.c).  *)
(*                                                                         *)
(* An archive is a function from offsets to the headers that stand there;  *)
(* the contents of files are ranges of offsets.  Names are atoms with a    *)
(* length.                                                                 *)
(***************************************************************************)
EXTENDS Integers, Sequences, SequencesExt

CONSTANTS
    HeaderSize,     \* sizeof(FSCPIOHeader), 110
    Trailer,        \* the name "TRAILER!!!"
    Word            \* 2^64, the modulus of UInt64

(* Mutant: a size that is a multiple of four gets four more.               *)
FSCPIO_ALIGN4Up(x) == ((x + 4) \div 4) * 4

FSCPIO_ALIGN4(x) == ((x + 3) \div 4) * 4

(* Digits are numbers up to 15; a character that is none counts as 0.      *)
sFSCPIOHexadecimalToUInt64(digits) ==
    FoldLeft(LAMBDA result, digit : result * 16 + digit, 0, digits)

(* A node of the file system: what tells nodes apart, and the operations   *)
(* its implementation provides.  (No owners, no mount points; the list of  *)
(* children is the sequence the mount returns.)                            *)
FSVNode(name, directory, dataLength, implementationData, operations) ==
    [name |-> name, directory |-> directory, dataLength |-> dataLength,
     implementationData |-> implementationData, operations |-> operations]

(* An archive can be read, and neither written, opened nor closed.         *)
gFSCPIOOperations == {"read"}

(* The node of a header.                                                   *)
FSCPIONode(header, offset) ==
    FSVNode(header.name, header.directory, sFSCPIOHexadecimalToUInt64(header.fileLength),
            offset + FSCPIO_ALIGN4(HeaderSize + sFSCPIOHexadecimalToUInt64(header.nameLength)),
            gFSCPIOOperations)

(* The panic, as the last node of the list, when there is no header where  *)
(* the walk expects one.                                                   *)
InvalidMagic == FSVNode("panic", FALSE, 0, 0, {})

(* The children of the root, in the order of the archive.                  *)
FSCPIOMount(archive, totalSize) ==
    LET walk[p \in 0 .. totalSize + 400] ==
            IF p >= totalSize THEN << >>
            ELSE IF p \notin DOMAIN archive THEN <<InvalidMagic>>
            ELSE IF archive[p].name = Trailer THEN << >>
            ELSE LET node == FSCPIONode(archive[p], p)
                 IN  <<node>> \o walk[node.implementationData + FSCPIO_ALIGN4(node.dataLength)]
    IN  walk[0]

(* A path is a name, with or without a slash before it; the first node of  *)
(* that name answers.  The result is a sequence of at most one node.       *)
FSVirtualFileSystemOpenPath(nodes, name) ==
    LET named == SelectSeq(nodes, LAMBDA n : n.name = name)
    IN  SubSeq(named, 1, IF named = << >> THEN 0 ELSE 1)

(* The range a read copies. *)
FSCPIORead(node, offset, size) ==
    [from |-> node.implementationData + offset,
     size |-> IF offset > node.dataLength THEN 0
              ELSE IF (offset + size) % Word > node.dataLength
                   THEN node.dataLength - offset ELSE size]

(* Through the node's operations; a node that was not found reads nothing. *)
FSVNodeRead(opened, offset, size) ==
    IF opened # << >> /\ "read" \in opened[1].operations
    THEN FSCPIORead(opened[1], offset, size) ELSE [from |-> 0, size |-> 0]

-----------------------------------------------------------------------------
(* The reference: how an archiver lays files out (the newc format): header *)
(* and name, padded to a multiple of four, then the contents, padded too.  *)

Digits(n) == [i \in 1 .. 8 |-> IF i < 6 THEN 0 ELSE (n \div 16^(8 - i)) % 16]

Padding(n) == (4 - (n % 4)) % 4

Padded(n) == n + Padding(n)

WithTrailer(files) ==
    Append(files, [name |-> Trailer, nameLength |-> 11, size |-> 0, directory |-> FALSE])

Starts(files) ==
    LET start[i \in 1 .. Len(files) + 1] ==
            IF i = 1 THEN 0
            ELSE Padded(Padded(start[i - 1] + HeaderSize + files[i - 1].nameLength)
                            + files[i - 1].size)
    IN  start

ContentsAt(files, i) == Padded(Starts(files)[i] + HeaderSize + files[i].nameLength)

(* The fields of a header that count: numbers are eight digits, `mode` is  *)
(* kept as far as it tells directories from files.                         *)
FSCPIOHeader(file) ==
    [name |-> file.name, directory |-> file.directory,
     nameLength |-> Digits(file.nameLength), fileLength |-> Digits(file.size)]

Archive(files) ==
    LET all == WithTrailer(files)
        start == Starts(all)
        at(p) == all[CHOOSE i \in 1 .. Len(all) : start[i] = p]
    IN  [p \in {start[i] : i \in 1 .. Len(all)} |-> FSCPIOHeader(at(p))]

ArchiveSize(files) == Starts(WithTrailer(files))[Len(files) + 2]

(* Every file of an archive is found by its name and reads back: the ranges*)
(* that reads copy lie inside the file's contents and are as long as the   *)
(* file allows, from every position; of files of one name the first counts.*)
FilesReadBack(files) ==
    LET nodes == FSCPIOMount(Archive(files), ArchiveSize(files)) IN
    /\ Len(nodes) = Len(files)
    /\ \A i \in 1 .. Len(files) :
        (\A j \in 1 .. i - 1 : files[j].name # files[i].name) =>
            LET opened == FSVirtualFileSystemOpenPath(nodes, files[i].name) IN
            /\ Len(opened) = 1
            /\ \A offset \in 0 .. files[i].size + 1, size \in 0 .. files[i].size + 1 :
                LET range == FSVNodeRead(opened, offset, size)
                    left == IF offset > files[i].size THEN 0 ELSE files[i].size - offset
                IN  /\ range.from = ContentsAt(files, i) + offset
                    /\ range.size = IF size <= left THEN size ELSE left
=============================================================================
