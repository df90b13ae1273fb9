------------------------------ MODULE IOSerial ------------------------------
(***************************************************************************)
(* The serial port (src/kernel/src/IO/IOSerial.c).  Every character of the *)
(* console goes out through it, and nothing keeps two tasks from doing that*)
(* at a time: a task may be interrupted between finding the transmitter    *)
(* empty and writing to it.  The UART behind the ports is modelled from its*)
(* use; the first two registers change their meaning with DLAB, a bit of   *)
(* the line control register.                                              *)
(***************************************************************************)
EXTENDS Integers, Sequences, FiniteSets, SequencesExt

CONSTANTS
    Writers,        \* tasks that print
    FifoDepth,      \* characters the transmitter holds, 16
    MaxWritten      \* characters of each task (bound)

(* Few kernel tasks print (the shell and kmain, with interrupts enabled),  *)
(* and of the services, which run with interrupts masked, one at a time.   *)
ASSUME SerialAssumption ==
    /\ IsFiniteSet(Writers) /\ Cardinality(Writers) <= FifoDepth
    /\ FifoDepth \in Nat /\ MaxWritten \in Nat

VARIABLES
    uart,           \* the registers, and the characters to be transmitted
    at, written,    \* where each task is, and how many characters it wrote
    line            \* what has left the machine

serial == <<uart, at, written, line>>

kIOCom1Port == 1016     \* 0x3F8

-----------------------------------------------------------------------------
(* The device. *)

(* As the firmware may have left it: another speed, interrupts enabled, but*)
(* not with DLAB set (the first write would not reach the interrupts then).*)
Reset == [ier |-> 15, dlm |-> 1, dll |-> 12, fcr |-> 0, lcr |-> 3, mcr |-> 0, fifo |-> << >>]

DLAB(u) == u.lcr >= 128
Depth(u) == IF u.fcr % 2 = 1 THEN FifoDepth ELSE 1

(* A character that finds the transmitter full is lost.                    *)
Transmits(u, character) ==
    IF Len(u.fifo) < Depth(u) THEN [u EXCEPT !.fifo = Append(@, character)] ELSE u

IOPortWrite8(u, port, val) ==
    CASE port = kIOCom1Port     -> IF DLAB(u) THEN [u EXCEPT !.dll = val] ELSE Transmits(u, val)
      [] port = kIOCom1Port + 1 -> IF DLAB(u) THEN [u EXCEPT !.dlm = val]
                                   ELSE [u EXCEPT !.ier = val]
      [] port = kIOCom1Port + 2 -> [u EXCEPT !.fcr = val,
                                             !.fifo = IF (val \div 4) % 2 = 1 THEN << >> ELSE @]
      [] port = kIOCom1Port + 3 -> [u EXCEPT !.lcr = val]
      [] port = kIOCom1Port + 4 -> [u EXCEPT !.mcr = val]

(* The line status register, as far as it is read: bit 5, nothing waits.   *)
IOPortRead8(u, port) == IF u.fifo = << >> THEN 32 ELSE 0

-----------------------------------------------------------------------------
(* IOSerial.c *)

Written(u, writes) ==
    FoldLeft(LAMBDA v, w : IOPortWrite8(v, kIOCom1Port + w[1], w[2]), u, writes)

(* Mutant: the FIFO is cleared but not enabled.                            *)
IOSerialInitNoFifo(u) ==
    Written(u, << <<1, 0>>, <<3, 128>>, <<0, 3>>, <<1, 0>>, <<3, 3>>, <<2, 198>>, <<4, 11>> >>)

(* Interrupts off; DLAB on for the speed; 8N1 and DLAB off; the FIFO on,   *)
(* 0xC7; ready.                                                            *)
IOSerialInit(u) ==
    Written(u, << <<1, 0>>, <<3, 128>>, <<0, 3>>, <<1, 0>>, <<3, 3>>, <<2, 199>>, <<4, 11>> >>)

IOCheckIsTransmitEmpty(u) == (IOPortRead8(u, kIOCom1Port + 5) \div 32) % 2 # 0

SerialInit ==
    /\ uart = IOSerialInit(Reset)
    /\ at = [w \in Writers |-> "wait"]
    /\ written = [w \in Writers |-> 0]
    /\ line = << >>

(* IOSerialWriteChar waits until the transmitter is empty,                 *)
Wait(w) ==
    /\ at[w] = "wait" /\ written[w] < MaxWritten
    /\ IOCheckIsTransmitEmpty(uart)
    /\ at' = [at EXCEPT ![w] = "write"]
    /\ UNCHANGED <<uart, written, line>>

(* then writes; IOSerialWrite and the console go on with the next one.     *)
WriteChar(w) ==
    /\ at[w] = "write"
    /\ uart' = IOPortWrite8(uart, kIOCom1Port, <<w, written[w] + 1>>)
    /\ written' = [written EXCEPT ![w] = @ + 1]
    /\ at' = [at EXCEPT ![w] = "wait"]
    /\ UNCHANGED line

(* A character leaves. *)
Transmit ==
    /\ uart.fifo # << >>
    /\ line' = Append(line, Head(uart.fifo))
    /\ uart' = [uart EXCEPT !.fifo = Tail(@)]
    /\ UNCHANGED <<at, written>>

SerialNext == Transmit \/ \E w \in Writers : Wait(w) \/ WriteChar(w)

SerialSpec == SerialInit /\ [][SerialNext]_serial

-----------------------------------------------------------------------------
(* Properties. *)

(* The port runs at 38400 baud, 8N1, without interrupts, for which there is*)
(* no gate; and although test and write are two steps, every character a   *)
(* task has written is on the line or waits for it, once and in the task's *)
(* order: the transmitter holds one for each task that found it empty.     *)
SerialKeepsAll ==
    /\ <<uart.dlm, uart.dll, uart.lcr, uart.ier>> = <<0, 3, 3, 0>>
    /\ \A w \in Writers :
        SelectSeq(line \o uart.fifo, LAMBDA c : c[1] = w) = [i \in 1 .. written[w] |-> <<w, i>>]
=============================================================================
