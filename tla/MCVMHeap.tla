------------------------------ MODULE MCVMHeap ------------------------------
(* An instance of VMHeap for TLC: a heap with room for five small blocks.  *)
EXTENDS VMHeap

MCSizes == {0, 1, 17, 60}
=============================================================================
