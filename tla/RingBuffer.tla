----------------------------- MODULE RingBuffer -----------------------------
(***************************************************************************)
(* The ring buffer class of TCPINC/RINGBUF.H, which holds the outgoing,    *)
(* sent and incoming queues of every TCP socket.  The caller's operations  *)
(* are the only steps; `result' is what the last of them returned.         *)
(***************************************************************************)
EXTENDS Naturals, Sequences

CONSTANTS
    Size,        \* RINGBUFFER_SIZE
    Data,        \* the pointers that are stored
    Ok, Refused, \* the return codes 0 and -1 of enqueue
    NULL         \* what dequeue and peek return when there is nothing

ASSUME SizeAssumption == Size \in Nat \ {0}
ASSUME NullAssumption == NULL \notin Data

VARIABLES
    first,    \* index of the first item to be dequeued
    next,     \* index of the next place to enqueue
    entries,  \* number of items
    ring,     \* the slots; a slot keeps its pointer after a dequeue
    result

vars == <<first, next, entries, ring, result>>

\* Size is a power of two, so the bit mask Size-1 is a remainder.
Mask(i) == i % Size

\* init(): only the counters are set, the slots hold anything.
Init ==
    /\ first = 0 /\ next = 0 /\ entries = 0
    /\ ring \in [0..Size-1 -> Data \cup {NULL}]
    /\ result = NULL

enqueue(data) ==
    \/ /\ entries = Size
       /\ result' = Refused
       /\ UNCHANGED <<first, next, entries, ring>>
    \/ /\ entries # Size
       /\ ring' = [ring EXCEPT ![next] = data]
       /\ next' = Mask(next + 1)
       /\ entries' = entries + 1
       /\ result' = Ok
       /\ UNCHANGED first

\* Slip: the item count is lowered, the index stays.
dequeue_KeepsIndex ==
    /\ entries # 0
    /\ result' = ring[first]
    /\ entries' = entries - 1
    /\ UNCHANGED <<first, next, ring>>

dequeue ==
    \/ /\ entries = 0
       /\ result' = NULL
       /\ UNCHANGED <<first, next, entries, ring>>
    \/ /\ entries # 0
       /\ result' = ring[first]
       /\ first' = Mask(first + 1)
       /\ entries' = entries - 1
       /\ UNCHANGED <<next, ring>>

peek ==
    /\ result' = IF entries = 0 THEN NULL ELSE ring[first]
    /\ UNCHANGED <<first, next, entries, ring>>

hasRoom == entries < Size

Next == (\E data \in Data : enqueue(data)) \/ dequeue \/ peek

Spec == Init /\ [][Next]_vars
-----------------------------------------------------------------------------
\* The index and counter ranges, which the array accesses of RINGBUF.H rely on.
TypeOK ==
    /\ first \in 0..Size-1
    /\ next \in 0..Size-1
    /\ entries \in 0..Size
    /\ ring \in [0..Size-1 -> Data \cup {NULL}]
    /\ result \in Data \cup {NULL, Ok, Refused}

\* `entries' agrees with the indexes: next is `entries' slots after first, so
\* that equal indexes mean either empty or full and the counter tells which.
IndexesAgree == next = Mask(first + entries)

\* The live slots hold real pointers: neither dequeue nor peek ever hands out
\* NULL while `entries' says that there is an item.
LiveSlotsFilled == \A i \in 0..Size-1 : i < entries => ring[Mask(first + i)] \in Data

\* The ring stays sound over any sequence of enqueue, dequeue and peek: the
\* indexes are inside, agree with the count, and what they enclose is filled.
Inv == TypeOK /\ IndexesAgree /\ LiveSlotsFilled

\* The abstract queue: the live slots, oldest first.
contents == [i \in 1..entries |-> ring[Mask(first + (i - 1))]]

F == INSTANCE Fifo WITH Capacity <- Size, Elements <- Data, Nothing <- NULL,
                        queue <- contents

\* The ring buffer is a bounded FIFO queue: whatever order the socket code
\* enqueues, dequeues and peeks in, pointers come out in the order they went in,
\* none is lost, duplicated or overwritten, across any number of wraps.
RefinesFifo == F!Spec
=============================================================================
