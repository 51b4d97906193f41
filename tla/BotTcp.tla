------------------------------- MODULE BotTcp -------------------------------
(***************************************************************************)
(* The bot's connection: the loops of BOT/BOT.CPP (connect, recvNewPacket, *)
(* sendNewBuffer, close) over the TCP socket of TcpSocket.tla, a network   *)
(* that loses, duplicates and reorders segments, and the server.           *)
(*                                                                         *)
(* The program is single threaded: one turn of a loop processes at most    *)
(* one packet, drives the queues and then looks at the socket.             *)
(*                                                                         *)
(* The server is external: a TCP endpoint that acknowledges what it has    *)
(* received in order and may send, and send again, any stretch of its      *)
(* stream.  Since the network may delay and repeat segments for ever, what *)
(* can arrive is everything that could have been sent so far.              *)
(***************************************************************************)
EXTENDS TcpSocket

CONSTANTS
    NULL,       \* no transmit buffer
    MaxSend,    \* bound: messages the bot sends
    MaxPeer,    \* bound: units of data the server sends
    MaxSeg,     \* bound: units of data in a segment
    Windows,    \* window sizes the server advertises
    SimultaneousOpen  \* whether the server may open the connection itself

ASSUME ModelAssumption == /\ NULL \notin Buffers
                          /\ MaxSend \in Nat /\ MaxPeer \in Nat /\ MaxSeg \in Nat
                          /\ Windows \subseteq Nat /\ SimultaneousOpen \in BOOLEAN

VARIABLES
    sock,        \* the socket, see TcpSocket.tla
    app,         \* where the bot is
    sendBuffer,  \* the transmit buffer the bot fills next
    accepted,    \* the messages enqueue took, in order
    got,         \* the units of data recvNewPacket returned, in order
    leaked,      \* transmit buffers nobody refers to any more
    peer         \* the server

botVars == <<sock, app, sendBuffer, accepted, got, leaked>>
vars == <<sock, app, sendBuffer, accepted, got, leaked, peer>>

Init ==
    /\ sock = reinit
    /\ app = "start" /\ sendBuffer = NULL
    /\ accepted = << >> /\ got = << >> /\ leaked = {}
    /\ peer = [rcv |-> 0, got |-> << >>, next |-> 1, fin |-> FALSE, firstAck |-> <<1>>]
-----------------------------------------------------------------------------
(* The server. *)

\* It takes the next unit of the bot's stream, if that is on the wire.
PeerReceive ==
    /\ \E u \in sock.wire :
          /\ u[1] = peer.rcv
          /\ peer' = [peer EXCEPT !.rcv = @ + 1,
                                  !.got = IF u[2] = SYN THEN @ ELSE Append(@, u[2])]
    /\ UNCHANGED botVars

\* firstAck[n] is the acknowledgement at the time unit n - 1 became sendable: a
\* segment that reaches up to there carries this one or a later one.
PeerWrite ==
    /\ peer.rcv > 0 /\ ~peer.fin /\ peer.next <= MaxPeer
    /\ peer' = [peer EXCEPT !.next = @ + 1, !.firstAck = Append(@, peer.rcv)]
    /\ UNCHANGED botVars

PeerClose ==
    /\ peer.rcv > 0 /\ ~peer.fin
    /\ peer' = [peer EXCEPT !.fin = TRUE, !.firstAck = Append(@, peer.rcv)]
    /\ UNCHANGED botVars

Segments(syn, fin, rst, isAck, seqs, acks, lens) ==
    [syn : {syn}, fin : {fin}, rst : {rst}, isAck : {isAck}, seq : seqs, ack : acks, dataLen : lens,
     window : Windows]

\* Everything that can arrive from the server, once it has the bot's SYN.
ArrivingOpen ==
    LET after == IF peer.fin THEN peer.next + 1 ELSE peer.next
        synAcks == Segments(TRUE, FALSE, FALSE, TRUE, {0}, {1}, {0})
        refusals == Segments(FALSE, FALSE, TRUE, TRUE, {0}, {1}, {0})
        data == {g \in Segments(FALSE, FALSE, FALSE, TRUE, 1..after, 1..peer.rcv, 0..MaxSeg) :
                    /\ g.seq + g.dataLen <= peer.next \/ (g.dataLen = 0 /\ g.seq = after)
                    /\ g.ack >= peer.firstAck[g.seq + g.dataLen]}
        fins == {g \in Segments(FALSE, TRUE, FALSE, TRUE, 1..peer.next, 1..peer.rcv, 0..MaxSeg) :
                    peer.fin /\ g.seq + g.dataLen = peer.next /\ g.ack >= peer.firstAck[after]}
        resets == Segments(FALSE, FALSE, TRUE, TRUE, 1..after, {peer.rcv}, {0})
    IN  synAcks \cup refusals \cup data \cup fins \cup resets

\* What can arrive: before that, only the SYN of a server that opens by itself.
Arriving ==
    (IF SimultaneousOpen THEN Segments(TRUE, FALSE, FALSE, FALSE, {0}, {0}, {0}) ELSE {})
      \cup (IF peer.rcv > 0 THEN ArrivingOpen ELSE {})

\* PACKET_PROCESS_SINGLE (a packet or none) and drivePackets, from socket state s.
Turns(s) ==
    LET received == {s} \cup {process(s, seg) : seg \in Arriving}
    IN  {drivePackets(s1, overdue, resolved) : s1 \in received, overdue \in BOOLEAN, resolved \in BOOLEAN}
-----------------------------------------------------------------------------
(* The bot. *)

connect ==
    /\ app = "start"
    /\ sock' = connect2(sock)
    /\ app' = "connecting"
    /\ UNCHANGED <<sendBuffer, accepted, got, leaked, peer>>

\* The bot's next transmit buffer is taken from the pool of s, if one is there.
getXmitBuf(s) ==
    \/ s.free = {} /\ sendBuffer' = NULL /\ sock' = s
    \/ \E b \in s.free : sendBuffer' = b /\ sock' = [s EXCEPT !.free = @ \ {b}]

\* A turn of connect's loop that finds the connection made; main then takes
\* the first transmit buffer.
connected ==
    /\ app = "connecting"
    /\ \E s \in Turns(sock) : isConnectComplete(s) /\ getXmitBuf(s)
    /\ app' = "init"
    /\ UNCHANGED <<accepted, got, leaked, peer>>

\* A turn that does not; after the timeout main goes on to cleanupSocket.
connectLoop ==
    /\ app = "connecting"
    /\ \E s \in Turns(sock) : ~isConnectComplete(s) /\ sock' = s
    /\ app' \in {"connecting", "close"}
    /\ UNCHANGED <<sendBuffer, accepted, got, leaked, peer>>

\* Where the assembly part goes on after a message was sent: the greeting is
\* followed by the first read, the farewell by the end.
afterSend == [init |-> "recv", work |-> "work", quit |-> "close"]

\* The message in the buffer b, as sendNewBuffer hands it to enqueue.
Filled(s, b) == [s EXCEPT !.buf[b].dataLen = 1, !.buf[b].data = Len(accepted) + 1]

\* sendNewBuffer, when enqueue takes the buffer: the next one is taken before
\* the turn that sends the message.
sendNewBuffer ==
    /\ app \in DOMAIN afterSend /\ sendBuffer # NULL /\ Len(accepted) < MaxSend
    /\ enqueueGood(Filled(sock, sendBuffer), sendBuffer)
    /\ LET s1 == enqueue(Filled(sock, sendBuffer), sendBuffer)
       IN  \/ s1.free = {} /\ sendBuffer' = NULL /\ sock' \in Turns(s1)
           \/ \E b \in s1.free : sendBuffer' = b /\ sock' \in Turns([s1 EXCEPT !.free = @ \ {b}])
    /\ accepted' = Append(accepted, Len(accepted) + 1)
    /\ app' = afterSend[app]
    /\ UNCHANGED <<got, leaked, peer>>

\* enqueue refuses the buffer, for the state, the room or the size (larger than
\* the server's MSS).  The bot forgets the buffer, takes another and gives up.
sendNewBufferFails ==
    /\ app \in DOMAIN afterSend /\ sendBuffer # NULL
    /\ getXmitBuf(IF enqueueGood(sock, sendBuffer) THEN sock
                  ELSE enqueue(Filled(sock, sendBuffer), sendBuffer))
    /\ leaked' = leaked \cup {sendBuffer}
    /\ app' = "close"
    /\ UNCHANGED <<accepted, got, peer>>

\* Nothing can be sent: no authentication details, or more than a packet holds
\* (currentSendBuffer returns 0).
cannotSend ==
    /\ app \in DOMAIN afterSend
    /\ app' = "close"
    /\ UNCHANGED <<sock, sendBuffer, accepted, got, leaked, peer>>

\* currentSendBuffer does not check for NULL: the message is written over
\* whatever is near address 0, and that address goes on the queue.
sendWithoutBuffer ==
    /\ app \in DOMAIN afterSend /\ sendBuffer = NULL
    /\ app' = "wild"
    /\ UNCHANGED <<sock, sendBuffer, accepted, got, leaked, peer>>

\* The packet has been read to its end.
packetDone ==
    /\ app = "work"
    /\ app' = "recv"
    /\ UNCHANGED <<sock, sendBuffer, accepted, got, leaked, peer>>

\* recvNewPacket returns a packet.
recvNewPacket ==
    /\ app = "recv" /\ sock.incoming # << >>
    /\ LET p == Head(sock.incoming)
       IN  got' = got \o [i \in 1..p.dataLen |-> p.seq + i - 1]
    /\ sock' = [sock EXCEPT !.incoming = Tail(@)]
    /\ app' = "work"
    /\ UNCHANGED <<sendBuffer, accepted, leaked, peer>>

\* A turn of its loop: it goes round again, Alt-X is hit, or the server has
\* closed.  It does not look at the queue before it returns.
recvLoop ==
    /\ app = "recv" /\ sock.incoming = << >>
    /\ \E s \in Turns(sock) :
          /\ sock' = s
          /\ app' \in IF isRemoteClosed(s) THEN {"close"} ELSE {"recv", "quit"}
    /\ UNCHANGED <<sendBuffer, accepted, got, leaked, peer>>

\* cleanupSocket: close.
close ==
    /\ app = "close"
    /\ sock' = closeLocal(sock)
    /\ app' = "closing"
    /\ UNCHANGED <<sendBuffer, accepted, got, leaked, peer>>

closeLoop ==
    /\ app = "closing" /\ ~closedItself(sock)
    /\ sock' \in Turns(sock)
    /\ UNCHANGED <<app, sendBuffer, accepted, got, leaked, peer>>

\* Slip: a close that takes too long is not given up.
closeDone_NoTimeout ==
    /\ app = "closing" /\ closedItself(sock)
    /\ sock' = isCloseDone(sock, TRUE)
    /\ app' = "done"
    /\ UNCHANGED <<sendBuffer, accepted, got, leaked, peer>>

\* The socket has closed, or TCP_CLOSE_TIMEOUT is over.
closeDone ==
    /\ app = "closing"
    /\ sock' = isCloseDone(sock, TRUE)
    /\ app' = "done"
    /\ UNCHANGED <<sendBuffer, accepted, got, leaked, peer>>

PeerNext == PeerReceive \/ PeerWrite \/ PeerClose

BotNext ==
    \/ connect \/ connected \/ connectLoop
    \/ sendNewBuffer \/ sendNewBufferFails \/ cannotSend \/ sendWithoutBuffer
    \/ packetDone \/ recvNewPacket \/ recvLoop
    \/ close \/ closeLoop \/ closeDone

Next == PeerNext \/ BotNext

\* The bot is the only program, so cleanupSocket goes on; and the clock runs on
\* while it waits for the close.  Nothing is assumed of the server or the network.
Fairness == WF_vars(close) /\ WF_vars(closeDone)

Spec == Init /\ [][Next]_vars /\ Fairness
-----------------------------------------------------------------------------
(* Properties. *)

PacketType == [seq : Int, dataLen : 1..MaxSeg]

\* Every field of the socket and every variable of the bot has a value of its
\* kind; the rings of the socket never hold more than TCP_SOCKET_RING_SIZE.
TypeOK ==
    /\ sock.state \in States /\ sock.active \in BOOLEAN /\ sock.closeReason \in 0..4
    /\ {sock.seqNum, sock.oldestUnackedSeq, sock.ackNum} \subseteq Int /\ sock.remoteWindow \in Nat
    /\ \A q \in {sock.outgoing, sock.sent} : q \in Seq(Buffers) /\ Len(q) <= TCP_SOCKET_RING_SIZE
    /\ sock.incoming \in Seq(PacketType) /\ Len(sock.incoming) <= TCP_SOCKET_RING_SIZE
    /\ sock.free \subseteq Pool
    /\ app \in DOMAIN afterSend \cup {"start", "connecting", "recv", "close", "closing", "done", "wild"}
    /\ sendBuffer \in Pool \cup {NULL} /\ leaked \subseteq Pool

\* The stack's place of a transmit buffer: TCP.CPP's queues, the pool of TCP.H,
\* BOT.CPP's sendBuffer, or lost.
Places(b) ==
    {<<"outgoing", i>> : i \in {j \in DOMAIN sock.outgoing : sock.outgoing[j] = b}}
      \cup {<<"sent", i>> : i \in {j \in DOMAIN sock.sent : sock.sent[j] = b}}
      \cup {<<"pool", 0>> : x \in {b} \cap sock.free}
      \cup {<<"sendBuffer", 0>> : x \in {b} \cap {sendBuffer}}
      \cup {<<"leaked", 0>> : x \in {b} \cap leaked}

\* Every transmit buffer is in exactly one place: no step of enqueue, sending,
\* acknowledgement, retransmission or destroy loses one or returns one twice.
BufferInOnePlace == \A b \in Pool : Cardinality(Places(b)) = 1

\* The bot reads the server's stream from its start, without a gap, a repetition
\* or a swap, whatever the network does; and what is still in the incoming ring
\* continues it (processPacketData, recvNewPacket).
Unread == FlattenSeq([j \in DOMAIN sock.incoming |->
              [i \in 1..sock.incoming[j].dataLen |-> sock.incoming[j].seq + i - 1]])
StreamInOrder ==
    LET stream == got \o Unread
    IN  \A i \in DOMAIN stream : stream[i] = i

\* What has been acknowledged to the server was stored (plus its SYN and FIN):
\* the server may forget it, and nothing else can bring it back.
AcknowledgedIsStored ==
    sock.active /\ sock.ackNum > 0 => sock.ackNum - 1 - Len(got \o Unread) \in {0, IF peer.fin THEN 1 ELSE 0}

\* The server gets the messages that enqueue accepted, each once and in order,
\* then perhaps the FIN, after the last of them.
DeliveredInOrder ==
    LET n == Len(peer.got)
        data == IF n > 0 /\ Last(peer.got) = FIN THEN Front(peer.got) ELSE peer.got
    IN  IsPrefix(data, accepted) /\ (data # peer.got => data = accepted)

\* A sequence number is never used for two different things, even across
\* retransmission of a buffer that was used again.
SequenceNumbersUsedOnce == \A u, v \in sock.wire : u[1] = v[1] => u = v

\* The counters that decide whether drivePackets does anything: Pending_Sent is
\* exact, and Pending_Outgoing not too small, as long as enqueue has not replaced
\* nearly as many ACKs as a uint16_t counts.  After that it wraps, and may be 0
\* while a packet waits.
CountersCover ==
    /\ sock.Pending_Sent = Len(sock.sent)
    /\ sock.replaced + TCP_SOCKET_RING_SIZE < CounterSize =>
          sock.Pending_Outgoing >= Len(sock.outgoing)

\* A message that enqueue accepted is with the server or still in a queue of the
\* socket, until the connection is destroyed.
AcceptedNotForgotten ==
    sock.active =>
        \A m \in Range(accepted) :
            \/ m \in Range(peer.got)
            \/ \E b \in Range(sock.outgoing) \cup Range(sock.sent) : sock.buf[b].dataLen = 1 /\ sock.buf[b].data = m

\* cleanupSocket ends, whatever the server and the network do.
CloseEnds == (app = "close") ~> (app = "done")
(* Stated by the repository's comments, and not what the code does. *)

\* state.nas:19 of sendPacket: "rets 0 if good, positive int if bad", and so it
\* comes back when the pool is empty and getXmitBuf gave no buffer.
SendPacketReturns == app # "wild"
=============================================================================
