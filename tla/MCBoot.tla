------------------------------- MODULE MCBoot -------------------------------
(* An instance of Boot for TLC.  Ten frames: the first two are low memory, *)
(* the kernel wants two and three.  The firmware has none of them to begin *)
(* with, one where the kernel should go, or several behind it; or the last *)
(* frame is a hole or mapped I/O.                                          *)
EXTENDS Boot

Owned(s, who) == [f \in 0 .. 9 |-> IF f \in s THEN who ELSE "free"]
MCLayouts ==
    { Owned({}, "firmware"), Owned({3}, "firmware"),
      Owned({9}, "reserved"), Owned({4, 6, 8}, "firmware") }

(* A descriptor for each stretch of frames of one type, in two orders.     *)
MCMapsOf(types) ==
    LET n == Cardinality(DOMAIN types)
        starts == SelectSeq([i \in 1 .. n |-> i - 1], LAMBDA f : f = 0 \/ types[f] # types[f - 1])
        end(i) == IF i = Len(starts) THEN n ELSE starts[i + 1]
        map == [i \in DOMAIN starts |->
                  [type |-> types[starts[i]], start |-> starts[i], pageCount |-> end(i) - starts[i]]]
    IN  {map, Reverse(map)}

File(name, nameLength, size) ==
    [name |-> name, nameLength |-> nameLength, size |-> size, directory |-> FALSE]

(* Every remainder of lengths modulo four, one or two files, equal names.  *)
MCArchives ==
    {<<File("init", n, s)>> : n \in 2 .. 5, s \in 0 .. 4} \cup
    {<<File("a", n, s), File(second, 4, t)>> :
         second \in {"a", "init"}, n \in 2 .. 5, s \in 0 .. 4, t \in {0, 3}}
MCVolumes == {<<File("init", 5, 3)>>, <<File("a", 2, 4)>>}

(* Every file of these archives reads back (looked at in the first states).*)
ArchivesReadBack == pc = "firmware" => \A files1 \in MCArchives : FilesReadBack(files1)
=============================================================================
