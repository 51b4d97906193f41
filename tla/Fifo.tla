-------------------------------- MODULE Fifo --------------------------------
(***************************************************************************)
(* What the ring buffer of RINGBUF.H promises its users: a bounded FIFO    *)
(* queue.  `queue' is the content, oldest first; `result' is what the last *)
(* call returned.                                                          *)
(***************************************************************************)
EXTENDS Naturals, Sequences

CONSTANTS
    Capacity,    \* the largest number of entries
    Elements,    \* what may be stored
    Ok, Refused, \* the return codes 0 and -1 of enqueue
    Nothing      \* the NULL that dequeue returns from an empty queue

VARIABLES queue, result

vars == <<queue, result>>

Init == queue = << >> /\ result = Nothing

\* An element is appended when there is room, otherwise nothing changes.
Put(x) ==
    \/ /\ Len(queue) < Capacity
       /\ queue' = Append(queue, x)
       /\ result' = Ok
    \/ /\ Len(queue) = Capacity
       /\ result' = Refused
       /\ UNCHANGED queue

\* The oldest element leaves, if there is one.
Take ==
    \/ /\ queue # << >>
       /\ result' = Head(queue)
       /\ queue' = Tail(queue)
    \/ /\ queue = << >>
       /\ result' = Nothing
       /\ UNCHANGED queue

\* The oldest element is looked at.
Look ==
    /\ result' = IF queue = << >> THEN Nothing ELSE Head(queue)
    /\ UNCHANGED queue

Next == (\E x \in Elements : Put(x)) \/ Take \/ Look

Spec == Init /\ [][Next]_vars
=============================================================================
