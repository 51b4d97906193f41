------------------------------ MODULE TcpSocket -----------------------------
(***************************************************************************)
(* One TCP socket of TCPLIB/TCP.CPP and the transmit buffers it shares     *)
(* with its user.  Each operator is a function of that file from the       *)
(* socket's state (a record) to its next state; BotTcp.tla puts them       *)
(* together into the loops of the bot.                                     *)
(*                                                                         *)
(* Sequence numbers start at 0 and do not wrap (SeqNumbers.tla does        *)
(* that); a message of the user occupies one of them, so that dataLen      *)
(* is 1, and 0 for the socket's own packet.  The clock is left open: a     *)
(* packet may become overdue at any time.  Not modelled: the advertised    *)
(* window and the RTT estimate, listening sockets, the copying receive     *)
(* buffer and shutdown(), none of which the bot uses.                      *)
(***************************************************************************)
EXTENDS Integers, Sequences, FiniteSets, SequencesExt

CONSTANTS
    Pool,                  \* the transmit buffers (TcpBuffer::init)
    connectPacket,         \* the socket's own packet: SYN, FIN and pure ACKs
    TCP_SOCKET_RING_SIZE,
    TCP_RETRANS_COUNT,
    CounterSize            \* the values of a uint16_t

ASSUME PoolAssumption == connectPacket \notin Pool /\ IsFiniteSet(Pool)
ASSUME RingAssumption == TCP_SOCKET_RING_SIZE \in Nat \ {0}
ASSUME RetransAssumption == TCP_RETRANS_COUNT \in Nat
ASSUME CounterAssumption == CounterSize \in Nat /\ CounterSize > TCP_SOCKET_RING_SIZE

States == {"CLOSED", "SYN_SENT", "SYN_RECVED", "ESTABLISHED", "SEND_FIN1", "SEND_FIN2",
           "SEND_FIN3", "FIN_WAIT_1", "FIN_WAIT_2", "CLOSING", "CLOSE_WAIT", "LAST_ACK", "TIME_WAIT"}

Buffers == Pool \cup {connectPacket}

\* TcpBuffer: the header it was last sent with (seq, syn, fin), seqNum (the last
\* sequence number it occupies), dataLen and the user's data, wasAckOnly,
\* pendingArp and attempts.
EmptyBuffer == [seq |-> 0, syn |-> FALSE, fin |-> FALSE, seqNum |-> 0, dataLen |-> 0, data |-> 0,
                wasAckOnly |-> FALSE, pendingArp |-> FALSE, attempts |-> 0]

\* The counters of what is pending wrap.
Counter(n) == n % CounterSize

\* reinit(), with all buffers in the pool and no packets pending.  `wire' is
\* what has been put on the wire: pairs of a sequence number and its content.
\* `replaced' is the number of ACKs that enqueue has put another packet in the
\* place of.
reinit ==
    [state |-> "CLOSED", active |-> FALSE, closeReason |-> 0,
     seqNum |-> 0, oldestUnackedSeq |-> 0, ackNum |-> 0, remoteWindow |-> 0, macCached |-> FALSE,
     outgoing |-> << >>, sent |-> << >>, incoming |-> << >>,
     buf |-> [b \in Buffers |-> EmptyBuffer], free |-> Pool,
     Pending_Outgoing |-> 0, Pending_Sent |-> 0, replaced |-> 0, wire |-> {}]

isConnectComplete(s) == s.state \in {"ESTABLISHED", "CLOSE_WAIT"}
isRemoteClosed(s) ==
    s.state \in {"CLOSED", "CLOSE_WAIT", "LAST_ACK", "SEND_FIN2", "CLOSING", "TIME_WAIT"}

\* Slip: one entry too many fits.
hasRoom_OffByOne(q) == Len(q) <= TCP_SOCKET_RING_SIZE

hasRoom(q) == Len(q) < TCP_SOCKET_RING_SIZE

\* Buffers that do not belong to the pool are not put there.  What a free buffer
\* holds is not looked at again, so it is cleared here.
returnXmitBufs(s, bs) ==
    [s EXCEPT !.free = @ \cup (bs \cap Pool),
              !.buf = [b \in Buffers |-> IF b \in bs \cap Pool THEN EmptyBuffer ELSE @[b]]]
-----------------------------------------------------------------------------
(* Queueing *)

Refuses(s, b) ==
    \/ s.state \in {"CLOSED", "CLOSING"}
    \/ s.state = "TIME_WAIT" /\ b # connectPacket

\* TCP_OPT_ENQUEUED_ACKS: a lone empty packet is replaced by the new one.
PiggybacksOnAck(s) ==
    /\ Len(s.outgoing) = 1 /\ s.state = "ESTABLISHED"
    /\ s.buf[Head(s.outgoing)].dataLen = 0

\* enqueue, when the state accepts the packet.  The replaced ACK is not
\* subtracted from Pending_Outgoing.  The buffer's flags are reset even if it
\* is still on a queue.
enqueueAccepted(s, b) ==
    LET s1 == IF PiggybacksOnAck(s)
              THEN returnXmitBufs([s EXCEPT !.outgoing = << >>, !.replaced = @ + 1], {Head(s.outgoing)})
              ELSE s
        s2 == [s1 EXCEPT !.buf[b].attempts = 0, !.buf[b].pendingArp = FALSE, !.buf[b].wasAckOnly = FALSE]
    IN  IF hasRoom(s2.outgoing)
        THEN [s2 EXCEPT !.outgoing = Append(@, b), !.Pending_Outgoing = Counter(@ + 1)]
        ELSE s2

enqueueGood(s, b) == ~Refuses(s, b) /\ (hasRoom(s.outgoing) \/ PiggybacksOnAck(s))

enqueue(s, b) == IF Refuses(s, b) THEN s ELSE enqueueAccepted(s, b)

\* The packets a socket makes itself are the one connectPacket.
enqueueOwn(s) == enqueue([s EXCEPT !.buf[connectPacket].dataLen = 0], connectPacket)
-----------------------------------------------------------------------------
(* Sending *)

\* What a packet puts on the wire, per sequence number; the user's messages are
\* numbered from 1.
SYN == 0
FIN == -1
Content(p) ==
    (IF p.syn THEN {<<p.seq, SYN>>} ELSE {})
      \cup (IF p.dataLen = 1 THEN {<<p.seq, p.data>>} ELSE {})
      \cup (IF p.fin THEN {<<p.seq + p.dataLen, FIN>>} ELSE {})

transmit(s, b) == [s EXCEPT !.wire = @ \cup Content(s.buf[b])]

FinStates == {"SEND_FIN1", "SEND_FIN2", "SEND_FIN3"}

\* Slip: the FIN goes out with the first packet, not with the last one.
AddsFin_Early(s) == s.state \in FinStates

AddsFin(s) == s.state \in FinStates /\ Len(s.outgoing) = 1

\* The headers of a packet that is sent for the first time, with what they take
\* from the window and the sequence numbers; `arp' is whether it has to wait.
fillHeaders(s, b, arp) ==
    LET p == s.buf[b]
        syn == s.state \in {"SYN_SENT", "SYN_RECVED"}
        fin == AddsFin(s)
        nextSeq == s.seqNum + p.dataLen + (IF syn \/ fin THEN 1 ELSE 0)
    IN  [s EXCEPT
            !.seqNum = nextSeq,
            !.state = IF ~fin THEN @ ELSE IF @ = "SEND_FIN2" THEN "LAST_ACK" ELSE "FIN_WAIT_1",
            !.remoteWindow = IF p.dataLen <= @ THEN @ - p.dataLen ELSE 0,
            !.buf[b] = [p EXCEPT !.seq = s.seqNum, !.syn = syn, !.fin = fin,
                                 !.seqNum = nextSeq - 1, !.pendingArp = arp,
                                 !.wasAckOnly = @ \/ (p.dataLen = 0 /\ ~syn /\ ~fin)]]

\* sendPacket for the packet b at the head of outgoing; `resolved' is whether
\* ARP knows the next hop.  The address is only cached after a retry.
sendPacket(s, b, resolved) ==
    LET retried == [s EXCEPT !.buf[b].pendingArp = ~resolved, !.macCached = @ \/ resolved]
        s1 == IF s.buf[b].pendingArp THEN retried ELSE fillHeaders(s, b, ~s.macCached /\ ~resolved)
    IN  IF s1.buf[b].pendingArp THEN s1 ELSE transmit(s1, b)

\* One turn of the loop of drivePackets2.  A turn that finds the window closed
\* or the next hop unknown changes nothing when it is repeated, so the break is
\* as good as going on.  (A window probe changes nothing in the socket.)
sendHead(s, resolved) ==
    IF s.outgoing # << >> /\ hasRoom(s.sent) /\ s.buf[Head(s.outgoing)].dataLen <= s.remoteWindow
    THEN LET b == Head(s.outgoing)
             s1 == sendPacket(s, b, resolved)
             s2 == [s1 EXCEPT !.buf[b].attempts = @ + 1, !.outgoing = Tail(@), !.Pending_Outgoing = Counter(@ - 1)]
         IN  CASE s1.buf[b].pendingArp -> s1
               [] ~s1.buf[b].pendingArp /\ s1.buf[b].wasAckOnly -> returnXmitBufs(s2, {b})
               [] OTHER -> [s2 EXCEPT !.sent = Append(@, b), !.Pending_Sent = Counter(@ + 1)]
    ELSE s

\* outgoing only shrinks, so as many turns as it has packets are enough.
sendLoop(s, resolved) ==
    LET after[n \in 0..Len(s.outgoing)] == IF n = 0 THEN s ELSE sendHead(after[n - 1], resolved)
    IN  after[Len(s.outgoing)]

\* Slip: the header is filled in again, with the next number.
resendPacket_FreshNumber(s, b) == transmit([s EXCEPT !.buf[b].attempts = @ + 1, !.buf[b].seq = s.seqNum], b)

\* resendPacket: the header goes out as it is in the buffer now.
resendPacket(s, b) == transmit([s EXCEPT !.buf[b].attempts = @ + 1], b)

\* Slip: the entries of the sent queue are not subtracted.
clearQueues_KeepsSent(s) ==
    returnXmitBufs([s EXCEPT !.outgoing = << >>, !.sent = << >>, !.incoming = << >>,
                             !.Pending_Outgoing = Counter(@ - Len(s.outgoing))],
                   Range(s.outgoing) \cup Range(s.sent))

\* Slip: only the sent packets go back to the pool.
clearQueues_LosesOutgoing(s) ==
    returnXmitBufs([s EXCEPT !.outgoing = << >>, !.sent = << >>, !.incoming = << >>,
                             !.Pending_Outgoing = Counter(@ - Len(s.outgoing)),
                             !.Pending_Sent = Counter(@ - Len(s.sent))],
                   Range(s.sent))

clearQueues(s) ==
    returnXmitBufs([s EXCEPT !.outgoing = << >>, !.sent = << >>, !.incoming = << >>,
                             !.Pending_Outgoing = Counter(@ - Len(s.outgoing)),
                             !.Pending_Sent = Counter(@ - Len(s.sent))],
                   Range(s.outgoing) \cup Range(s.sent))

destroy(s, reason) ==
    [clearQueues(s) EXCEPT !.state = "CLOSED", !.active = FALSE, !.closeReason = reason]

\* drivePackets: drivePackets2 for the one socket, if it is in the active table.
drivePackets(s, overdue, resolved) ==
    IF s.active /\ (s.Pending_Sent # 0 \/ s.Pending_Outgoing # 0)
    THEN IF s.sent # << >> /\ overdue
         THEN IF s.buf[Head(s.sent)].attempts > TCP_RETRANS_COUNT
              THEN destroy(s, 4)
              ELSE resendPacket(s, Head(s.sent))
         ELSE sendLoop(s, resolved)
    ELSE s
-----------------------------------------------------------------------------
(* Receiving.  A segment is [syn, fin, rst, isAck, seq, ack, dataLen, window]. *)

\* Slip: a packet counts as acknowledged when its last number is.
Acked_OffByOne(p, target, oldest) == p.seqNum <= target

\* removeSentPackets: when a packet of the sent queue may go.
Acked(p, target, oldest) ==
    \/ p.seqNum < target
    \/ p.seqNum > target /\ target < oldest /\ p.seqNum >= oldest

\* Packets are removed from the head up to the first one not acknowledged.
removeSentPackets(s, target) ==
    LET gone == {i \in DOMAIN s.sent : \A j \in 1..i : Acked(s.buf[s.sent[j]], target, s.oldestUnackedSeq)}
        k == Cardinality(gone)
        rest == SubSeq(s.sent, k + 1, Len(s.sent))
    IN  returnXmitBufs([s EXCEPT !.sent = rest, !.Pending_Sent = Counter(@ - k),
                                 !.oldestUnackedSeq = IF rest = << >> THEN s.seqNum ELSE s.buf[Head(rest)].seq],
                       {s.sent[i] : i \in gone})

AckCurrent(s, seg) == seg.isAck /\ seg.ack = s.seqNum

\* A segment while the SYN is out.  A reset is only answered on the wire.
processSynSent(s, seg) ==
    CASE seg.rst /\ AckCurrent(s, seg) -> destroy(s, 1)
      [] ~seg.rst /\ seg.syn /\ AckCurrent(s, seg) ->
            enqueueOwn([removeSentPackets(s, seg.ack) EXCEPT
                          !.state = "ESTABLISHED", !.ackNum = seg.seq + 1, !.remoteWindow = seg.window])
      [] ~seg.rst /\ seg.syn /\ ~seg.isAck ->
            enqueueOwn(clearQueues([s EXCEPT !.state = "SYN_RECVED", !.ackNum = seg.seq + 1,
                                             !.seqNum = @ - 1]))
      [] OTHER -> s

AckProper(s, seg) ==
    /\ seg.isAck
    /\ IF s.oldestUnackedSeq < s.seqNum
       THEN seg.ack >= s.oldestUnackedSeq /\ seg.ack <= s.seqNum
       ELSE seg.ack >= s.oldestUnackedSeq \/ seg.ack <= s.seqNum

\* Slip: anything not older than expected is taken.
SeqProper_NotOlder(s, seg) == seg.seq >= s.ackNum

SeqProper(s, seg) ==
    seg.seq = s.ackNum \/ (s.state = "SYN_RECVED" /\ seg.seq = s.ackNum - 1)

InRing(seg) == [seq |-> seg.seq, dataLen |-> seg.dataLen]

\* Slip: the data is acknowledged although the incoming ring is full.
processPacketData_AcksDropped(s, seg) ==
    [stored |-> TRUE,
     sock |-> [s EXCEPT !.ackNum = @ + seg.dataLen,
                        !.incoming = IF hasRoom(@) THEN Append(@, InRing(seg)) ELSE @]]

\* processPacketData: the packet is kept if the incoming ring has room, and
\* otherwise not acknowledged.
processPacketData(s, seg) ==
    [stored |-> hasRoom(s.incoming),
     sock |-> IF hasRoom(s.incoming)
              THEN [s EXCEPT !.ackNum = @ + seg.dataLen, !.incoming = Append(@, InRing(seg))]
              ELSE s]

\* The states a segment moves the socket to, once its data has been stored.
NewState(s, seg) ==
    CASE s.state = "ESTABLISHED" /\ seg.fin -> "CLOSE_WAIT"
      [] s.state = "SEND_FIN1" /\ seg.fin -> "SEND_FIN2"
      [] s.state = "SYN_RECVED" /\ AckCurrent(s, seg) -> "ESTABLISHED"
      [] s.state = "LAST_ACK" -> "CLOSED"
      [] s.state = "FIN_WAIT_1" /\ seg.fin -> IF AckCurrent(s, seg) THEN "TIME_WAIT" ELSE "CLOSING"
      [] s.state = "FIN_WAIT_1" /\ ~seg.fin /\ AckCurrent(s, seg) -> "FIN_WAIT_2"
      [] s.state = "FIN_WAIT_2" /\ seg.fin -> "TIME_WAIT"
      [] s.state = "CLOSING" /\ AckCurrent(s, seg) -> "TIME_WAIT"
      [] OTHER -> s.state

TakesFin(s, seg) == seg.fin /\ s.state \in {"ESTABLISHED", "SEND_FIN1", "FIN_WAIT_1", "FIN_WAIT_2"}

\* A segment with acceptable numbers: acknowledgement, window, data, state, and
\* at last the ACK that is to be sent.
processGood(s, seg) ==
    LET s1 == IF s.sent # << >> THEN removeSentPackets(s, seg.ack) ELSE s
        s2 == IF s1.sent = << >> THEN [s1 EXCEPT !.remoteWindow = seg.window] ELSE s1
        data == processPacketData(s2, seg)
        s3 == IF seg.dataLen # 0 THEN data.sock ELSE s2
        ack == \/ seg.dataLen # 0 /\ s3.outgoing = << >>
               \/ TakesFin(s3, seg) /\ s3.state # "SEND_FIN1"
        s4 == CASE s3.state = "SYN_RECVED" /\ ~AckCurrent(s3, seg) -> clearQueues(s3)
                [] s3.state = "SYN_RECVED" /\ AckCurrent(s3, seg) ->
                      [s3 EXCEPT !.state = "ESTABLISHED", !.remoteWindow = seg.window]
                [] OTHER -> [s3 EXCEPT !.state = NewState(s3, seg),
                                       !.ackNum = IF TakesFin(s3, seg) THEN @ + 1 ELSE @]
    IN  CASE seg.dataLen # 0 /\ ~data.stored -> s2   \* play dead
          [] OTHER -> IF ack THEN enqueueOwn(s4) ELSE s4

\* A reset counts only with exactly the number that is expected.
processReset(s, seg) == IF SeqProper(s, seg) THEN destroy(s, 1) ELSE s

\* Tcp::process and process2.  Segments for a socket that is closed get a
\* reset, unacceptable ones an ACK that is not queued.
process(s, seg) ==
    CASE ~s.active \/ s.state \in {"CLOSED", "TIME_WAIT"} -> s
      [] s.active /\ s.state = "SYN_SENT" -> processSynSent(s, seg)
      [] s.active /\ s.state \notin {"CLOSED", "TIME_WAIT", "SYN_SENT"} /\ seg.rst ->
            processReset(s, seg)
      [] OTHER -> IF AckProper(s, seg) /\ SeqProper(s, seg) THEN processGood(s, seg) ELSE s
-----------------------------------------------------------------------------
(* Opening and closing *)

connect2(s) == enqueueOwn([s EXCEPT !.state = "SYN_SENT", !.active = TRUE])

\* A FIN of its own is only queued when no packet is waiting to carry it.
closeLocal(s) ==
    LET fins == [SYN_RECVED |-> "SEND_FIN3", ESTABLISHED |-> "SEND_FIN1", CLOSE_WAIT |-> "SEND_FIN2"]
    IN  CASE s.state \in DOMAIN fins ->
                LET s1 == [s EXCEPT !.state = fins[s.state]]
                IN  IF s1.outgoing = << >> THEN enqueueOwn(s1) ELSE s1
          [] s.state \in {"CLOSED", "TIME_WAIT", "SYN_SENT"} -> [s EXCEPT !.state = "CLOSED"]
          [] OTHER -> s

\* isCloseDone: peaceful, forced after TCP_CLOSE_TIMEOUT, or not yet.
closedItself(s) == s.state \in {"TIME_WAIT", "CLOSED"}
isCloseDone(s, timedOut) ==
    CASE closedItself(s) -> destroy(s, 0)
      [] ~closedItself(s) /\ timedOut -> destroy(s, 2)
      [] OTHER -> s
=============================================================================
