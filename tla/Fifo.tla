---------------------------------- MODULE Fifo ----------------------------------
(* What Queue<T> promises: first in, first out, without loss. *)
EXTENDS Integers, Sequences

VARIABLES
    items,    \* what the queue holds, oldest first
    count,    \* how much was pushed; the n-th thing pushed is labelled n
    result    \* what the last Pop returned

vars == <<items, count, result>>

Init == items = <<>> /\ count = 0 /\ result = 0

Push ==
    /\ count' = count + 1
    /\ items' = Append(items, count')
    /\ UNCHANGED result

Pop ==
    /\ items # <<>>
    /\ result' = Head(items)
    /\ items' = Tail(items)
    /\ UNCHANGED count

Clear ==
    /\ items' = <<>>
    /\ UNCHANGED <<count, result>>

Next == Push \/ Pop \/ Clear

Spec == Init /\ [][Next]_vars
================================================================================
