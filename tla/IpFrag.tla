------------------------------- MODULE IpFrag -------------------------------
(***************************************************************************)
(* Reassembly of IP fragments, TCPLIB/IP.CPP: the table of fragment        *)
(* controls, the packet buffers the fragments stay in, and the big packets *)
(* a complete datagram is copied to.                                       *)
(*                                                                         *)
(* Offsets and lengths are in units of 8 bytes.  The senders and the       *)
(* network are external: a datagram has a key (source address, ident) of   *)
(* its own, and any part of it may arrive as a fragment at any time and    *)
(* any number of times, since it may be cut differently on different ways. *)
(* What the upper layers do with a packet is open: TCP keeps it for the    *)
(* bot or frees it, UDP's handler frees it.                                *)
(***************************************************************************)
EXTENDS Integers, SequencesExt, FiniteSetsExt

CONSTANTS
    Datagrams,                   \* what is sent in fragments, by key
    SizeOf,                      \* length of the payload of each
    IP_MAX_FRAG_PACKETS,
    IP_MAX_FRAGS_PER_PACKET,
    IP_BIGPACKET_SIZE,
    IP_FRAG_REASSEMBLY_TIMEOUT,  \* in ticks
    PACKET_BUFFERS,
    MaxHeld                      \* packets kept upstream: the incoming ring and recvPacket

ASSUME SizesAssumption ==
    /\ {IP_MAX_FRAG_PACKETS, PACKET_BUFFERS} \subseteq Nat \ {0}
    /\ IP_MAX_FRAGS_PER_PACKET \in Nat \ {0, 1}
    /\ {IP_BIGPACKET_SIZE, IP_FRAG_REASSEMBLY_TIMEOUT, MaxHeld} \subseteq Nat
    /\ SizeOf \in [Datagrams -> Nat]

VARIABLES
    ip,        \* the state of IP.CPP and the free packet buffers
    upstream   \* the packets TCP and the bot keep

vars == <<ip, upstream>>

Slots == 1..IP_MAX_FRAG_PACKETS
BigPackets == 1..IP_MAX_FRAG_PACKETS

\* The parts of a datagram, without the whole of it, which is not a fragment.
FragmentsOf(d) ==
    {f \in [key : {d}, offset : 0..SizeOf[d], length : 1..SizeOf[d], isLast : BOOLEAN] :
        /\ f.offset + f.length <= SizeOf[d] /\ f.length < SizeOf[d]
        /\ f.isLast = (f.offset + f.length = SizeOf[d])}
Fragments == UNION {FragmentsOf(d) : d \in Datagrams}

\* A fragment control.  age is the time since startTime; a control that is not in
\* use keeps nothing that is looked at.
Unused == [inUse |-> FALSE, lastFragRcvd |-> FALSE, age |-> 0, frags |-> << >>]
InUse(s) == {i \in Slots : s.fragControl[i].inUse}

\* initForReassembly, when its memory is there, and Buffer_startReceiving.
Init ==
    /\ ip = [fragControl |-> [i \in Slots |-> Unused], fragsInReassembly |-> 0,
             BigPacketFreeList |-> [i \in BigPackets |-> i],
             data |-> [b \in BigPackets |-> << >>],
             freeBuffers |-> PACKET_BUFFERS]
    /\ upstream = [big |-> {}, small |-> 0]
-----------------------------------------------------------------------------
(* The tables. *)

\* Key of a control: that of its first fragment.
Key(fc) == fc.frags[1].key

findFragControl(s, key) == {i \in InUse(s) : Key(s.fragControl[i]) = key}

findOpenFragControl(s) == LET open == Slots \ InUse(s) IN IF open = {} THEN {} ELSE {Min(open)}

\* The places of the controls that hold a fragment, and with it its packet buffer.
Places(s) == UNION {{i} \X DOMAIN s.fragControl[i].frags : i \in Slots}

\* n packet buffers go back to the free stack.
Buffer_free(s, n) == [s EXCEPT !.freeBuffers = @ + n]

\* Slip: the counter is left alone.
killFragmentControl_KeepsCount(s, i) ==
    [Buffer_free(s, Len(s.fragControl[i].frags)) EXCEPT !.fragControl[i] = Unused]

\* Slip: the last fragment that came is forgotten.
killFragmentControl_KeepsOne(s, i) ==
    [Buffer_free(s, Len(s.fragControl[i].frags) - 1) EXCEPT
        !.fragControl[i] = Unused, !.fragsInReassembly = @ - 1]

killFragmentControl(s, i) ==
    [Buffer_free(s, Len(s.fragControl[i].frags)) EXCEPT
        !.fragControl[i] = Unused, !.fragsInReassembly = @ - 1]

\* returnBigPacket, reached from Buffer_free by the address.
returnBigPacket(s, b) ==
    [s EXCEPT !.BigPacketFreeList = Append(@, b), !.data[b] = << >>]

\* The loop of purgeOverdue: each control in use that is overdue is given up.
Overdue(fc) == fc.inUse /\ fc.age > IP_FRAG_REASSEMBLY_TIMEOUT

purge(s) ==
    LET purged[n \in 0..IP_MAX_FRAG_PACKETS] ==
            CASE n = 0 -> s
              [] n # 0 /\ Overdue(s.fragControl[n]) -> killFragmentControl(purged[n - 1], n)
              [] OTHER -> purged[n - 1]
    IN  purged[IP_MAX_FRAG_PACKETS]

\* The loops call it behind the test of IP_FRAGS_CHECK_OVERDUE.
purgeOverdue(s) == IF s.fragsInReassembly = 0 THEN s ELSE purge(s)
-----------------------------------------------------------------------------
(* A fragment.  The result has the state and the big packet that takes the   *)
(* fragment's place, if any.                                                 *)

Held(s) == [ip |-> s, packet |-> 0]

\* The units that the fragments of a list carry, one after the other.
Payload(frags) ==
    FlattenSeq([j \in DOMAIN frags |->
        [u \in 1..frags[j].length |-> <<frags[j].key, frags[j].offset + u - 1>>]])

\* makeBigPacket: without a big packet the datagram is thrown away.
makeBigPacket(s, i) ==
    IF s.BigPacketFreeList = << >> THEN Held(killFragmentControl(s, i))
    ELSE LET b == Last(s.BigPacketFreeList)
         IN  [ip |-> killFragmentControl([s EXCEPT !.BigPacketFreeList = Front(@),
                                                   !.data[b] = Payload(s.fragControl[i].frags)], i),
              packet |-> b]

\* Slip: only the offsets count.
Complete_NoLast(fc) ==
    \A j \in DOMAIN fc.frags :
        fc.frags[j].offset = IF j = 1 THEN 0 ELSE fc.frags[j-1].offset + fc.frags[j-1].length

\* The last fragment was seen, and each one starts where the one before it ends.
Complete(fc) ==
    /\ fc.lastFragRcvd
    /\ \A j \in DOMAIN fc.frags :
          fc.frags[j].offset = IF j = 1 THEN 0 ELSE fc.frags[j-1].offset + fc.frags[j-1].length

TooBig(f) == f.offset + f.length > IP_BIGPACKET_SIZE

\* The first fragment of a datagram: no control is free, it is too big, or a
\* control is set up for it.
startReassembly(s, f) ==
    IF findOpenFragControl(s) = {} \/ TooBig(f) THEN Held(Buffer_free(s, 1))
    ELSE LET i == Min(findOpenFragControl(s))
         IN  Held([s EXCEPT !.fragsInReassembly = @ + 1,
                            !.fragControl[i] = [inUse |-> TRUE, lastFragRcvd |-> f.isLast,
                                                age |-> 0, frags |-> <<f>>]])

\* The first fragment of the list that does not start before f, or its end.
insertPos(frags, f) ==
    Min({j \in DOMAIN frags : f.offset <= frags[j].offset} \cup {Len(frags) + 1})

\* Slip: the time starts anew with every fragment.
LastSeen_Restarts(fc, f) == [fc EXCEPT !.lastFragRcvd = @ \/ f.isLast, !.age = 0]

\* Slip: whether the last one was seen is decided by each fragment anew.
LastSeen_Anew(fc, f) == [fc EXCEPT !.lastFragRcvd = f.isLast]

\* What is noted of a fragment before its place is looked for.
LastSeen(fc, f) == [fc EXCEPT !.lastFragRcvd = @ \/ f.isLast]

Inserted(fc, f) == [LastSeen(fc, f) EXCEPT !.frags = InsertAt(@, insertPos(@, f), f)]

\* The list after f was inserted: it is complete, or full, or waits for more.
checkComplete(s, i) ==
    CASE Complete(s.fragControl[i]) -> makeBigPacket(s, i)
      [] ~Complete(s.fragControl[i]) /\ Len(s.fragControl[i].frags) = IP_MAX_FRAGS_PER_PACKET ->
            Held(killFragmentControl(s, i))
      [] OTHER -> Held(s)

\* A further fragment of the datagram of control i: one that is there already is
\* dropped, one that does not fit ends the reassembly.  The overlap with the
\* fragment before it is not looked for: such a list never becomes complete.
addFragment(s, i, f) ==
    LET fc == s.fragControl[i]
        pos == insertPos(fc.frags, f)
        middle == pos <= Len(fc.frags)
        duplicate == middle /\ f.offset = fc.frags[pos].offset /\ f.length = fc.frags[pos].length
        overlap == middle /\ ~duplicate /\ f.offset + f.length > fc.frags[pos].offset
    IN  CASE TooBig(f) \/ overlap -> Held(killFragmentControl(Buffer_free(s, 1), i))
          [] ~TooBig(f) /\ duplicate -> Held(Buffer_free([s EXCEPT !.fragControl[i] = LastSeen(@, f)], 1))
          [] OTHER -> checkComplete([s EXCEPT !.fragControl[i] = Inserted(@, f)], i)

processFragment(s, f) ==
    IF findFragControl(s, f.key) = {} THEN startReassembly(s, f)
    ELSE addFragment(s, Min(findFragControl(s, f.key)), f)
-----------------------------------------------------------------------------
(* The turns of the loops. *)

\* receiver and Packet_process_internal: a packet needs a free buffer.
Taken == [ip EXCEPT !.freeBuffers = @ - 1]
HeldUpstream == Cardinality(upstream.big) + upstream.small

\* A turn with a fragment: what comes of it goes upstream, where it is kept or
\* freed, and the overdue ones are purged.
turnFragment(f, kept) ==
    /\ ip.freeBuffers > 0
    /\ kept => HeldUpstream < MaxHeld
    /\ LET r == processFragment(Taken, f)
       IN  IF r.packet # 0 /\ kept
           THEN /\ ip' = purgeOverdue(r.ip)
                /\ upstream' = [upstream EXCEPT !.big = @ \cup {r.packet}]
           ELSE /\ ip' = purgeOverdue(IF r.packet = 0 THEN r.ip ELSE returnBigPacket(r.ip, r.packet))
                /\ UNCHANGED upstream

\* A turn with a packet that is not a fragment and that upstream keeps.
turnPacket ==
    /\ ip.freeBuffers > 0 /\ HeldUpstream < MaxHeld
    /\ ip' = purgeOverdue(Taken)
    /\ upstream' = [upstream EXCEPT !.small = @ + 1]

\* A turn without a packet, or with one that is freed: a bad checksum, a protocol
\* that is not handled, or nothing to keep it for.
turn ==
    /\ ip' = purgeOverdue(ip)
    /\ UNCHANGED upstream

\* The bot or TCP is done with a packet.
doneBig(b) ==
    /\ b \in upstream.big
    /\ ip' = returnBigPacket(ip, b)
    /\ upstream' = [upstream EXCEPT !.big = @ \ {b}]

donePacket ==
    /\ upstream.small > 0
    /\ ip' = Buffer_free(ip, 1)
    /\ upstream' = [upstream EXCEPT !.small = @ - 1]

\* The clock goes on for a control in use; ages beyond the timeout are all the same.
Older(fc) ==
    IF fc.inUse /\ fc.age <= IP_FRAG_REASSEMBLY_TIMEOUT THEN [fc EXCEPT !.age = @ + 1] ELSE fc

\* A tick of the clock that some control in use sees.
tick ==
    /\ \E i \in InUse(ip) : ip.fragControl[i].age <= IP_FRAG_REASSEMBLY_TIMEOUT
    /\ ip' = [ip EXCEPT !.fragControl = [i \in Slots |-> Older(ip.fragControl[i])]]
    /\ UNCHANGED upstream

Next ==
    \/ \E f \in Fragments, kept \in BOOLEAN : turnFragment(f, kept)
    \/ turnPacket \/ turn
    \/ \E b \in BigPackets : doneBig(b)
    \/ donePacket \/ tick

\* The loops go round and the clock goes on; nothing is assumed of the network.
Spec == Init /\ [][Next]_vars /\ WF_vars(turn) /\ WF_vars(tick)
-----------------------------------------------------------------------------
(* Properties. *)

\* No early return of processFragment loses a packet buffer or frees one twice,
\* and every big packet is either on the free list, once, or with its reader.
BuffersConserved ==
    /\ ip.freeBuffers + upstream.small + Cardinality(Places(ip)) = PACKET_BUFFERS
    /\ \A b \in BigPackets :
          Cardinality({j \in DOMAIN ip.BigPacketFreeList : ip.BigPacketFreeList[j] = b})
            = IF b \in upstream.big THEN 0 ELSE 1

\* fragsInReassembly, by which the loops decide whether to purge at all, counts
\* the controls in use; no datagram has two; and a list that stays has fewer
\* fragments than its arrays have places, in the order of their offsets.
TablesSound ==
    /\ ip.fragsInReassembly = Cardinality(InUse(ip))
    /\ \A i, j \in InUse(ip) : Key(ip.fragControl[i]) = Key(ip.fragControl[j]) => i = j
    /\ \A i \in InUse(ip) :
          LET frags == ip.fragControl[i].frags
          IN  /\ Len(frags) \in 1..(IP_MAX_FRAGS_PER_PACKET - 1)
              /\ \A j, k \in DOMAIN frags : j < k => frags[j].offset < frags[k].offset

\* The payload of a datagram, as it was sent.
Sent(d) == [u \in 1..SizeOf[d] |-> <<d, u - 1>>]

\* What a reader gets is a datagram as it was sent, from its first unit to its
\* last, in whatever order and cut the fragments came, and it stays so while it
\* is read (makeBigPacket).
ReassembledIsSent ==
    \A b \in upstream.big :
        \E d \in Datagrams : ip.data[b] = Sent(d)

\* Every unit of a datagram of the given size is in a fragment of the list.
Covers(frags, size) ==
    \A u \in 0..(size - 1) : \E j \in DOMAIN frags :
        frags[j].offset <= u /\ u < frags[j].offset + frags[j].length

\* Some fragment starts before the one in front of it has ended.
Overlapped(frags) ==
    \E j \in DOMAIN frags : j > 1 /\ frags[j].offset < frags[j-1].offset + frags[j-1].length

\* A datagram of which every unit has come waits in the table only when a fragment
\* overlaps the one before it, which the code does not look for when it inserts
\* (IP.CPP:908): such a list never passes the test of checkComplete, waits for its
\* time-out and is thrown away.  A datagram cut without overlaps never waits once
\* it is there.
OnlyOverlappedWaits ==
    \A i \in InUse(ip) :
        LET frags == ip.fragControl[i].frags
        IN  Covers(frags, SizeOf[frags[1].key]) => Overlapped(frags)

\* A control does not stay in use: even while fragments of the same datagram come
\* again and again, its datagram becomes complete or is given up.
ReassemblyEnds ==
    \A i \in Slots : ip.fragControl[i].inUse ~> ~ip.fragControl[i].inUse
=============================================================================
