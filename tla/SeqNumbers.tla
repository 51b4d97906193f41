----------------------------- MODULE SeqNumbers -----------------------------
(***************************************************************************)
(* The 32-bit sequence numbers of a connected TCP socket and their wrap:   *)
(* which acknowledgements process2 accepts, and which packets of the sent  *)
(* queue removeSentPackets then releases.  In TcpSocket they do not wrap;  *)
(* that the socket's own packet may be on two queues at once is in there.  *)
(*                                                                         *)
(* seqNum, oldestUnackedSeq and the numbers in the packets are the code's, *)
(* modulo Wrap.  What they stand for is kept beside them, without a wrap:  *)
(* `total', `best', and the first and last number of each packet.          *)
(***************************************************************************)
EXTENDS Integers, Sequences

CONSTANTS
    Wrap,                  \* 2^32
    MaxLen,                \* the most numbers that a packet takes
    TCP_SOCKET_RING_SIZE

\* What can be outstanding is less than a whole turn of the numbers.
WrapAssumption ==
    /\ Wrap \in Nat /\ MaxLen \in Nat \ {0} /\ TCP_SOCKET_RING_SIZE \in Nat \ {0}
    /\ TCP_SOCKET_RING_SIZE * MaxLen < Wrap

VARIABLES
    seqNum,            \* the next number to send
    oldestUnackedSeq,  \* the first number of the oldest packet that is not acknowledged
    sent,              \* the queue of packets that wait for their acknowledgement
    total,             \* what seqNum stands for
    best               \* the last number that was passed to removeSentPackets

numbers == <<seqNum, oldestUnackedSeq, sent, total, best>>

\* Arithmetic of uint32_t.
Wrapped(n) == n % Wrap

\* A connection whose numbers have all been acknowledged; rand() never sets the
\* high bit.
NumbersInit ==
    /\ total \in 0..(Wrap \div 2) - 1
    /\ seqNum = Wrapped(total) /\ oldestUnackedSeq = seqNum
    /\ sent = << >> /\ best = total

\* sendPacket, and then to the sent queue.  A packet takes a number for each byte, and
\* one for a FIN; without any it is an ACK, which does not go to that queue.  seq is
\* the number in the header, seqNum the field of TcpBuffer, its last number.  When it
\* is sent again nothing of this changes.
sendPacket(len) ==
    /\ Len(sent) < TCP_SOCKET_RING_SIZE
    /\ seqNum' = Wrapped(seqNum + len)
    /\ sent' = Append(sent, [seq |-> seqNum, seqNum |-> Wrapped(seqNum + len - 1),
                             from |-> total, to |-> total + len - 1])
    /\ total' = total + len
    /\ UNCHANGED <<oldestUnackedSeq, best>>

\* process2: isIncomingAckProper.
AckProper(ack) ==
    IF oldestUnackedSeq < seqNum
    THEN ack >= oldestUnackedSeq /\ ack <= seqNum
    ELSE ack >= oldestUnackedSeq \/ ack <= seqNum

\* The packet p of the sent queue is released by an acknowledgement.
Acked(p, target) ==
    \/ p.seqNum < target
    \/ p.seqNum > target /\ target < oldestUnackedSeq /\ p.seqNum >= oldestUnackedSeq

\* Packets are released from the head up to the first one that is not acknowledged.
removeSentPackets(target) ==
    \E k \in 0..Len(sent) :
        /\ \A i \in 1..k : Acked(sent[i], target)
        /\ k < Len(sent) => ~Acked(sent[k + 1], target)
        /\ sent' = SubSeq(sent, k + 1, Len(sent))
        /\ oldestUnackedSeq' = IF k = Len(sent) THEN seqNum ELSE sent[k + 1].seq

\* The server may acknowledge whatever has been sent, the middle of a packet included
\* (its window may be small), and its acknowledgements may be repeated and late, but
\* none is about for a whole turn of the numbers.
Acks == {a \in 0..total : a > total - Wrap}

\* process2, as far as it looks at these numbers (the other side's may make it ignore
\* the packet); with nothing in the sent queue nothing here changes.
process2(a) ==
    /\ AckProper(Wrapped(a)) /\ sent # << >>
    /\ removeSentPackets(Wrapped(a))
    /\ best' = a
    /\ UNCHANGED <<seqNum, total>>

NumbersNext ==
    \/ \E len \in 1..MaxLen : sendPacket(len)
    \/ \E a \in Acks : process2(a)

Numbers == NumbersInit /\ [][NumbersNext]_numbers
-----------------------------------------------------------------------------
\* The first number that a packet of the sent queue has, or the next one.
Oldest == IF sent = << >> THEN total ELSE sent[1].from

Packets == [seq : 0..Wrap-1, seqNum : 0..Wrap-1, from : Nat, to : Nat]
Follows(p, q) == q.from = p.to + 1

\* The code's numbers are the true ones modulo Wrap, and the sent packets follow
\* each other up to the next number.
NumbersOK ==
    /\ total \in Nat /\ best \in 0..total
    /\ seqNum = Wrapped(total) /\ seqNum \in 0..Wrap-1
    /\ oldestUnackedSeq = Wrapped(Oldest) /\ oldestUnackedSeq \in 0..Wrap-1
    /\ sent \in Seq(Packets) /\ Len(sent) <= TCP_SOCKET_RING_SIZE
    /\ \A i \in DOMAIN sent :
          /\ sent[i].seq = Wrapped(sent[i].from) /\ sent[i].seqNum = Wrapped(sent[i].to)
          /\ sent[i].to \in sent[i].from..sent[i].from + MaxLen - 1
          /\ IF i = Len(sent) THEN sent[i].to = total - 1 ELSE Follows(sent[i], sent[i + 1])

\* As long as something is outstanding, exactly the acknowledgements from the oldest
\* outstanding number on are accepted, wherever the wrap lies (TCP.CPP:1693).
AcksAreJudged == sent # << >> => \A a \in Acks : AckProper(Wrapped(a)) <=> a >= Oldest

\* What has been acknowledged does not stay in the sent queue, to be sent again,
\* wherever the wrap lies (the second condition of TCP.CPP:2239).
AckedAreReleased == sent # << >> => sent[1].to >= best

\* A packet is released before it is acknowledged only if the wrap lies between
\* the acknowledgement and the end of the packet.
EarlyOnlyAcrossWrap == best < Oldest => \E n \in best + 1..Oldest - 1 : Wrapped(n) = 0
=============================================================================
