--------------------------- MODULE PacketBuffers ----------------------------
(***************************************************************************)
(* The receive buffers of TCPLIB/PACKET.CPP, shared between the packet     *)
(* driver's interrupt and the main program: the free stack Buffer_fs, the  *)
(* ring Buffer of arrived packets, the buffer the driver is copying into,  *)
(* and the buffers the stack (or the bot) is holding.                      *)
(*                                                                         *)
(* The driver's two upcalls may be separated by steps of the main program  *)
(* and come between any two of its statements; what runs with interrupts   *)
(* disabled is one step.  The bytes of a packet are abstracted to its      *)
(* arrival number.  The statistics Packets_sent and the like are left out. *)
(***************************************************************************)
EXTENDS Integers, FiniteSets

CONSTANTS
    PACKET_BUFFERS,  \* how many buffers there are
    MaxPackets,      \* bound: packets the driver delivers
    MaxDrops         \* bound: packets the driver drops

ASSUME BuffersAssumption == PACKET_BUFFERS \in Nat \ {0}
ASSUME BoundsAssumption == MaxPackets \in Nat /\ MaxDrops \in Nat

\* One slot more than there are buffers (GLOBAL.CFG).
PACKET_RB_SIZE == PACKET_BUFFERS + 1

Buffers == 1..PACKET_BUFFERS   \* the buffers, in the order of the allocation
NULL == 0                      \* what the ring slots and the pointer start as
Garbage == 0                   \* the content of a buffer the driver writes to

VARIABLES
    stage,       \* how far initStack/endStack have got
    fs, fsIndex, \* Buffer_fs, Buffer_fs_index: the free stack
    ring,        \* Buffer: the arrived packets
    first, next, \* Buffer_first, Buffer_next
    copying,     \* Buffer_packetBeingCopied
    inCopy,      \* the driver is between its two upcalls
    lowFree,     \* Buffer_lowFreeCount
    received,    \* Packets_received
    dropped,     \* Packets_dropped
    mem,         \* content of every buffer: the number of the packet in it
    held,        \* buffers handed to a protocol handler and not yet freed
    seen,        \* the packet number under which a held buffer was handed over
    processed,   \* how many packets have been handed over
    returned     \* history: the buffers freed since Buffer_stopReceiving

drvVars == <<copying, inCopy, received, dropped, lowFree>>
stkVars == <<fs, fsIndex>>
ringVars == <<ring, first, next>>
appVars == <<held, seen, processed, returned>>
vars == <<stage, stkVars, ringVars, drvVars, mem, appVars>>

\* Buffer_init: the free stack is filled but its index is 0, so that a packet
\* that comes before the stack is ready is tossed.
Init ==
    /\ stage = "buffers"
    /\ fs = [i \in 0..PACKET_BUFFERS-1 |-> i + 1]
    /\ fsIndex = 0
    /\ ring = [i \in 0..PACKET_RB_SIZE-1 |-> NULL]
    /\ first = 0 /\ next = 0
    /\ copying = NULL /\ inCopy = FALSE
    /\ lowFree = PACKET_BUFFERS
    /\ received = 0 /\ dropped = 0
    /\ mem = [b \in Buffers |-> Garbage]
    /\ held = {} /\ seen = [b \in Buffers |-> Garbage] /\ processed = 0
    /\ returned = {}

\* Slip: the ring is made as large as the number of buffers.
Wrap_NoSpareSlot(i) == IF i >= PACKET_BUFFERS THEN 0 ELSE i

Wrap(i) == IF i = PACKET_RB_SIZE THEN 0 ELSE i
-----------------------------------------------------------------------------
(* The packet driver's interrupt. *)

\* The driver is registered from Packet_init until Packet_release_type, and after
\* it if the driver refused.
Registered == stage \in {"hooked", "receiving", "stopped", "refused"}

TooLong == BOOLEAN  \* whether the packet exceeds PACKET_BUFFER_LEN

\* receiver with ax = 0, the packet refused.
receiverDrop(tooLong) ==
    /\ Registered /\ ~inCopy
    /\ tooLong \/ fsIndex = 0
    /\ dropped < MaxDrops
    /\ dropped' = dropped + 1
    /\ UNCHANGED <<stage, stkVars, ringVars, copying, inCopy, received, lowFree, mem, appVars>>

\* Slip: the index is lowered after the buffer has been picked.
receiverGive_Peeks(tooLong) ==
    /\ Registered /\ ~inCopy
    /\ ~tooLong /\ fsIndex # 0
    /\ received < MaxPackets
    /\ fsIndex' = fsIndex
    /\ copying' = fs[fsIndex - 1]
    /\ inCopy' = TRUE
    /\ mem' = [mem EXCEPT ![copying'] = Garbage]
    /\ UNCHANGED <<stage, fs, ringVars, received, dropped, lowFree, appVars>>

\* receiver with ax = 0, a buffer given; the driver starts writing to it.
receiverGive(tooLong) ==
    /\ Registered /\ ~inCopy
    /\ ~tooLong /\ fsIndex # 0
    /\ received < MaxPackets
    /\ fsIndex' = fsIndex - 1
    /\ copying' = fs[fsIndex']
    /\ inCopy' = TRUE
    /\ mem' = [mem EXCEPT ![copying'] = Garbage]
    /\ UNCHANGED <<stage, fs, ringVars, received, dropped, lowFree, appVars>>

\* receiver with ax # 0: the packet is complete and joins the ring.
receiverDone ==
    /\ Registered /\ inCopy
    /\ received' = received + 1
    /\ mem' = [mem EXCEPT ![copying] = received']
    /\ ring' = [ring EXCEPT ![next] = copying]
    /\ next' = Wrap(next + 1)
    /\ lowFree' = IF lowFree > fsIndex THEN fsIndex ELSE lowFree
    /\ inCopy' = FALSE
    /\ UNCHANGED <<stage, stkVars, first, copying, dropped, appVars>>
-----------------------------------------------------------------------------
(* The main program. *)

\* Packet_init: the packet driver may call the receiver from here on.
Packet_init ==
    /\ stage = "buffers"
    /\ stage' = "hooked"
    /\ UNCHANGED <<stkVars, ringVars, drvVars, mem, appVars>>

Buffer_startReceiving ==
    /\ stage = "hooked"
    /\ stage' = "receiving"
    /\ fsIndex' = PACKET_BUFFERS
    /\ UNCHANGED <<fs, ringVars, drvVars, mem, appVars>>

\* Slip: the last waiting packet is not seen.
Packet_process_internal_LeavesLast ==
    /\ stage = "receiving"
    /\ first # next /\ Wrap(first + 1) # next
    /\ held' = held \cup {ring[first]}
    /\ seen' = [seen EXCEPT ![ring[first]] = mem[ring[first]]]
    /\ processed' = processed + 1
    /\ first' = Wrap(first + 1)
    /\ UNCHANGED <<stage, stkVars, ring, next, drvVars, mem, returned>>

\* PACKET_PROCESS_SINGLE with a packet in the ring: Packet_process_internal
\* takes the oldest one and calls a handler, which holds the buffer until it
\* calls Buffer_free (at once or, for TCP data and IP fragments, later).
Packet_process_internal ==
    /\ stage = "receiving"
    /\ first # next
    /\ held' = held \cup {ring[first]}
    /\ seen' = [seen EXCEPT ![ring[first]] = mem[ring[first]]]
    /\ processed' = processed + 1
    /\ first' = Wrap(first + 1)
    /\ UNCHANGED <<stage, stkVars, ring, next, drvVars, mem, returned>>

\* Slip: endStack gives the fragments back before it releases the driver.
Buffer_free_Early(b) ==
    /\ stage \in {"receiving", "stopped", "released", "refused"}
    /\ b \in held
    /\ held' = held \ {b}
    /\ fs' = [fs EXCEPT ![fsIndex] = b]
    /\ fsIndex' = fsIndex + 1
    /\ returned' = IF stage = "receiving" THEN {} ELSE returned \cup {b}
    /\ UNCHANGED <<stage, ringVars, drvVars, mem, seen, processed>>

\* Slip: a handler frees a packet and goes on using it.
Buffer_free_StillUsed(b) ==
    /\ stage = "receiving"
    /\ b \in held
    /\ fsIndex < PACKET_BUFFERS
    /\ fs' = [fs EXCEPT ![fsIndex] = b]
    /\ fsIndex' = fsIndex + 1
    /\ UNCHANGED <<stage, held, ringVars, drvVars, mem, seen, processed, returned>>

\* While receiving, a handler or the bot is done with a buffer; after
\* Packet_release_type, whatever it returned, endStack gives back the buffers of
\* unfinished fragments.  Interrupts are disabled.
Buffer_free(b) ==
    /\ stage \in {"receiving", "released", "refused"}
    /\ b \in held
    /\ held' = held \ {b}
    /\ fs' = [fs EXCEPT ![fsIndex] = b]
    /\ fsIndex' = fsIndex + 1
    /\ returned' = IF stage = "receiving" THEN {} ELSE returned \cup {b}
    /\ UNCHANGED <<stage, ringVars, drvVars, mem, seen, processed>>

\* endStack begins, from a running program or from a failed initStack.
Buffer_stopReceiving ==
    /\ stage \in {"hooked", "receiving"}
    /\ stage' = "stopped"
    /\ fsIndex' = 0
    /\ UNCHANGED <<fs, ringVars, drvVars, mem, appVars>>

\* Packet_release_type: no upcall comes any more, not even the second one.  Or
\* the driver answers with the carry flag: the handle stays live, and endStack
\* does not look at the -1 it is given.
Packet_release_type ==
    /\ stage = "stopped"
    /\ \/ stage' = "released" /\ inCopy' = FALSE
       \/ stage' = "refused" /\ inCopy' = inCopy
    /\ UNCHANGED <<stkVars, ringVars, copying, received, dropped, lowFree, mem, appVars>>

receiver ==
    \/ \E tooLong \in TooLong : receiverDrop(tooLong) \/ receiverGive(tooLong)
    \/ receiverDone

Next ==
    \/ receiver
    \/ Packet_init \/ Buffer_startReceiving
    \/ Packet_process_internal
    \/ \E b \in Buffers : Buffer_free(b)
    \/ Buffer_stopReceiving \/ Packet_release_type

\* The bot's loops call PACKET_PROCESS_SINGLE over and over.
Fairness == WF_vars(Packet_process_internal)

Spec == Init /\ [][Next]_vars /\ Fairness
-----------------------------------------------------------------------------
\* How far slot i is behind the oldest packet, and how many packets wait.
Age(i) == IF i >= first THEN i - first ELSE i + PACKET_RB_SIZE - first
RingCount == Age(next)
Live(i) == Age(i) < RingCount

\* The ranges of the indexes and counters.
TypeOK ==
    /\ stage \in {"buffers", "hooked", "receiving", "stopped", "released", "refused"}
    /\ fs \in [0..PACKET_BUFFERS-1 -> Buffers]
    /\ fsIndex \in 0..PACKET_BUFFERS
    /\ ring \in [0..PACKET_RB_SIZE-1 -> Buffers \cup {NULL}]
    /\ first \in 0..PACKET_RB_SIZE-1 /\ next \in 0..PACKET_RB_SIZE-1
    /\ inCopy \in BOOLEAN /\ copying \in IF inCopy THEN Buffers ELSE Buffers \cup {NULL}
    /\ lowFree \in 0..PACKET_BUFFERS
    /\ received \in Nat /\ dropped \in Nat /\ processed \in Nat
    /\ mem \in [Buffers -> Nat] /\ seen \in [Buffers -> Nat]
    /\ held \in SUBSET Buffers /\ returned \in SUBSET Buffers
    /\ \A i \in 0..PACKET_RB_SIZE-1 : Live(i) => ring[i] # NULL

\* No buffer is in two places: on the free stack, in the ring, in the driver's
\* hands or held by the stack, nor twice in one of them.
OneOwner ==
    /\ \A i, j \in 0..PACKET_BUFFERS-1 :
          i < fsIndex /\ j < fsIndex /\ fs[i] = fs[j] => i = j
    /\ \A i, j \in 0..PACKET_RB_SIZE-1 :
          Live(i) /\ Live(j) /\ ring[i] = ring[j] => i = j
    /\ \A i \in 0..PACKET_BUFFERS-1 : i < fsIndex => fs[i] \notin held
    /\ \A j \in 0..PACKET_RB_SIZE-1 : Live(j) => ring[j] \notin held
    /\ \A i \in 0..PACKET_BUFFERS-1, j \in 0..PACKET_RB_SIZE-1 :
          i < fsIndex /\ Live(j) => fs[i] # ring[j]
    /\ inCopy =>
          /\ copying \notin held
          /\ \A i \in 0..PACKET_BUFFERS-1 : i < fsIndex => fs[i] # copying
          /\ \A j \in 0..PACKET_RB_SIZE-1 : Live(j) => ring[j] # copying

InFlight == IF inCopy THEN 1 ELSE 0

\* While packets flow no buffer is lost: the buffers on the free stack, in the
\* ring, in the driver's hands and held by the stack are all of them.  With the
\* spare slot this is why an arriving packet can never make a full ring look
\* empty.  Before and after that the sum never exceeds the number of buffers,
\* so Buffer_free cannot push past the end of Buffer_fs.
NoneLost ==
    /\ fsIndex + RingCount + InFlight + Cardinality(held) <= PACKET_BUFFERS
    /\ stage = "receiving" =>
          fsIndex + RingCount + InFlight + Cardinality(held) = PACKET_BUFFERS

\* Packets are handed over in the order of arrival, none skipped and none twice:
\* the slots between first and next hold exactly the packets that have arrived
\* and were not handed over yet, oldest first.
InOrder ==
    /\ received = processed + RingCount
    /\ \A i \in 0..PACKET_RB_SIZE-1 : Live(i) => mem[ring[i]] = processed + Age(i) + 1

\* The driver never writes into a packet the stack still holds.
HeldIntact == \A b \in held : mem[b] = seen[b]

\* Until Buffer_startReceiving every buffer rests in the unused part of
\* Buffer_fs, and after Buffer_stopReceiving the free stack stays empty until
\* Packet_release_type, and if that failed holds only what was freed since.
Quiescent ==
    /\ stage \in {"buffers", "hooked"} =>
          /\ fsIndex = 0 /\ first = next /\ ~inCopy /\ held = {}
          /\ fs = [i \in 0..PACKET_BUFFERS-1 |-> i + 1]
    /\ stage = "stopped" => fsIndex = 0
    /\ stage = "refused" => \A i \in 0..PACKET_BUFFERS-1 : i < fsIndex => fs[i] \in returned

\* The inductive invariant.
Inv == TypeOK /\ OneOwner /\ NoneLost /\ InOrder /\ HeldIntact /\ Quiescent

\* After Buffer_stopReceiving the driver gets no buffer, also when endStack later
\* frees buffers, unless it refused to be released.  Even then it can get only the
\* buffers freed since: none of those that were on the free stack at the stop.
NoneGivenAfterStop ==
    [][~inCopy /\ inCopy' /\ stage \notin {"hooked", "receiving"} =>
          stage = "refused" /\ copying' \in returned]_vars

\* A packet that has arrived is handed over, unless the program shuts down.
EventuallyProcessed ==
    \A k \in 1..MaxPackets : (received >= k) ~> (processed >= k \/ stage # "receiving")
=============================================================================
