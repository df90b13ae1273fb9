------------------------------ MODULE MCShells ------------------------------
(* An instance of Shells for TLC: a small screen, whose last column and row*)
(* are cut, and one of 800 by 600.                                         *)
EXTENDS Shells

MCScreens ==
    { [width |-> 84, height |-> 136, pixelsPerScanLine |-> 88],
      [width |-> 800, height |-> 600, pixelsPerScanLine |-> 800] }
=============================================================================
