-------------------------------- MODULE Rand --------------------------------
(***************************************************************************)
(* The random numbers of the kernel (src/kernel/src/lib/Rand.c): the CPU's *)
(* if it has an instruction for them and the instruction succeeds, else    *)
(* those of a xorshift generator, whose only dead state is 0.              *)
(*                                                                         *)
(* A word is the set of the positions of its bits that are 1.              *)
(***************************************************************************)
EXTENDS Integers

CONSTANTS
    Bits,               \* 64, the bits of a UInt64
    Shift1, Shift2, Shift3,     \* 13, 7, 17
    BOOTINFO_MAGIC      \* the seed where the time stamp counter is 0

Position == 0 .. Bits - 1

ASSUME RandAssumption ==
    /\ Bits \in Nat \ {0}
    /\ Shift1 \in Nat \ {0} /\ Shift2 \in Nat \ {0} /\ Shift3 \in Nat \ {0}
    /\ BOOTINFO_MAGIC \subseteq Position /\ BOOTINFO_MAGIC # {}

VARIABLE sPseudorandState

-----------------------------------------------------------------------------
Xor(x, y) == (x \ y) \cup (y \ x)
ShiftLeft(x, n) == {b \in Position : b - n \in x}
ShiftRight(x, n) == {b \in Position : b + n \in x}

(* Mutant: the second step forgets the word it shifts.                     *)
RandXorshiftAssigns(state) ==
    LET x == Xor(state, ShiftLeft(state, Shift1))
        y == ShiftRight(x, Shift2)
    IN  Xor(y, ShiftLeft(y, Shift3))

RandXorshift(state) ==
    LET x == Xor(state, ShiftLeft(state, Shift1))
        y == Xor(x, ShiftRight(x, Shift2))
    IN  Xor(y, ShiftLeft(y, Shift3))

(* The time stamp counter may be anything. *)
RandInitialize ==
    \E tsc \in SUBSET Position :
        sPseudorandState = IF tsc = {} THEN BOOTINFO_MAGIC ELSE tsc

(* A number of the hardware leaves the generator alone. *)
Rand == sPseudorandState' \in {sPseudorandState, RandXorshift(sPseudorandState)}

RandSpec == RandInitialize /\ [][Rand]_sPseudorandState

-----------------------------------------------------------------------------
(* Properties. *)

(* The generator never falls into the state it cannot leave.               *)
NeverStuck == sPseudorandState \subseteq Position /\ sPseudorandState # {}
=============================================================================
