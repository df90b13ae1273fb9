----------------------------- MODULE InputQueue -----------------------------
(***************************************************************************)
(* What the keyboard driver promises: characters are handed out in the     *)
(* order they were typed, each to one reader and once; one is lost only    *)
(* when it arrives while Capacity characters are waiting.  IOKeyboard      *)
(* implements it.                                                          *)
(***************************************************************************)
EXTENDS Naturals, Sequences

CONSTANTS Readers, Characters, Capacity, NoResult

VARIABLES
    typing,     \* typed, not yet seen by the driver; NoResult for a key without
                \* a character
    queue,      \* kept for the readers
    result      \* what a reader's call is about to return, or NoResult

vars == <<typing, queue, result>>

Init ==
    /\ typing = << >> /\ queue = << >>
    /\ result = [r \in Readers |-> NoResult]

Type ==
    /\ \E c \in Characters \cup {NoResult} : typing' = Append(typing, c)
    /\ UNCHANGED <<queue, result>>

Skip ==
    /\ typing # << >> /\ Head(typing) = NoResult
    /\ typing' = Tail(typing)
    /\ UNCHANGED <<queue, result>>

Keep ==
    /\ typing # << >> /\ Head(typing) # NoResult /\ Len(queue) < Capacity
    /\ queue' = Append(queue, Head(typing))
    /\ typing' = Tail(typing)
    /\ UNCHANGED result

Lose ==
    /\ typing # << >> /\ Len(queue) = Capacity
    /\ typing' = Tail(typing)
    /\ UNCHANGED <<queue, result>>

Take(r) ==
    /\ queue # << >> /\ result[r] = NoResult
    /\ result' = [result EXCEPT ![r] = Head(queue)]
    /\ queue' = Tail(queue)
    /\ UNCHANGED typing

Return(r) ==
    /\ result[r] # NoResult
    /\ result' = [result EXCEPT ![r] = NoResult]
    /\ UNCHANGED <<typing, queue>>

Next == Type \/ Skip \/ Keep \/ Lose \/ \E r \in Readers : Take(r) \/ Return(r)

Spec == Init /\ [][Next]_vars
=============================================================================
