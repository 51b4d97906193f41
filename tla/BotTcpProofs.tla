---------------------------- MODULE BotTcpProofs ----------------------------
(***************************************************************************)
(* For every pool of transmit buffers, every size of the rings, every      *)
(* server and every network: the connection of the bot.                    *)
(***************************************************************************)
EXTENDS BotTcp, SequenceTheorems, NatLemmas

BufferRecords ==
    [seq : Int, syn : BOOLEAN, fin : BOOLEAN, seqNum : Int, dataLen : {0, 1}, data : Nat,
     wasAckOnly : BOOLEAN, pendingArp : BOOLEAN, attempts : Nat]

Sockets ==
    [state : States, active : BOOLEAN, closeReason : 0..4,
     seqNum : Int, oldestUnackedSeq : Int, ackNum : Int, remoteWindow : Nat, macCached : BOOLEAN,
     outgoing : Seq(Buffers), sent : Seq(Buffers), incoming : Seq(PacketType),
     buf : [Buffers -> BufferRecords], free : SUBSET Pool,
     Pending_Outgoing : Int, Pending_Sent : Int, replaced : Nat, wire : SUBSET (Int \X Int)]

\* A buffer of the pool is in a queue at most once.
Distinct(q) == \A j, k \in DOMAIN q : q[j] = q[k] /\ q[j] \in Pool => j = k

\* Each buffer of the pool is in one place: the queues outgoing and sent, the free
\* ones, and the ones that are away from the socket.
Owned(outgoing, sent, free, away) ==
    /\ Distinct(outgoing) /\ Distinct(sent)
    /\ \A j \in DOMAIN outgoing, k \in DOMAIN sent : outgoing[j] = sent[k] => outgoing[j] \notin Pool
    /\ free \cap away = {}
    /\ \A j \in DOMAIN outgoing : outgoing[j] \notin free /\ outgoing[j] \notin away
    /\ \A j \in DOMAIN sent : sent[j] \notin free /\ sent[j] \notin away
    /\ \A b \in Pool : \/ b \in free \/ b \in away
                       \/ \E j \in DOMAIN outgoing : outgoing[j] = b
                       \/ \E j \in DOMAIN sent : sent[j] = b

\* Pending_Outgoing is the length of the queue and the ACKs replaced, as long as
\* these cannot make it wrap.
Counted(pending, length, replaced) ==
    replaced + TCP_SOCKET_RING_SIZE < CounterSize => pending = length + replaced

\* No ACK is replaced before the connection is established.
Early(state, replaced) == state \in {"SYN_SENT", "SYN_RECVED"} => replaced = 0

\* The socket s while the buffers away are with the bot or lost.
Clean(s, away) ==
    /\ s \in Sockets
    /\ Len(s.outgoing) <= TCP_SOCKET_RING_SIZE /\ Len(s.sent) <= TCP_SOCKET_RING_SIZE
    /\ Len(s.incoming) <= TCP_SOCKET_RING_SIZE
    /\ s.Pending_Sent = Len(s.sent) /\ Counted(s.Pending_Outgoing, Len(s.outgoing), s.replaced)
    /\ Early(s.state, s.replaced)
    /\ Owned(s.outgoing, s.sent, s.free, away)

\* What is for the receiver is not touched.
SameInput(s, t) ==
    t.active = s.active /\ t.closeReason = s.closeReason /\ t.ackNum = s.ackNum /\ t.incoming = s.incoming

\* What is for the sender, but for its buffers and queues, is not touched.
SameNumbers(s, t) ==
    /\ t.state = s.state /\ t.seqNum = s.seqNum /\ t.wire = s.wire
    /\ t.remoteWindow = s.remoteWindow /\ t.macCached = s.macCached
-----------------------------------------------------------------------------
(* The operations of the socket. *)

LEMMA BufferTypes ==
  /\ connectPacket \in Buffers /\ Pool \subseteq Buffers /\ connectPacket \notin Pool
  /\ EmptyBuffer \in BufferRecords /\ TCP_SOCKET_RING_SIZE \in Nat /\ TCP_SOCKET_RING_SIZE # 0
  /\ TCP_RETRANS_COUNT \in Nat
  BY PoolAssumption, RingAssumption, RetransAssumption DEF Buffers, EmptyBuffer, BufferRecords

\* The counters.
LEMMA Counters ==
  ASSUME NEW n \in Int
  PROVE  Counter(n) \in Int /\ (0 <= n /\ n < CounterSize => Counter(n) = n)
<1>1. CounterSize \in Nat /\ CounterSize > 0
  BY CounterAssumption, RingAssumption
<1> QED BY <1>1 DEF Counter

\* returnXmitBufs
LEMMA Returned ==
  ASSUME NEW s \in Sockets, NEW bs \in SUBSET Buffers, NEW t, t = returnXmitBufs(s, bs)
  PROVE  /\ t \in Sockets /\ SameInput(s, t) /\ SameNumbers(s, t)
         /\ t.oldestUnackedSeq = s.oldestUnackedSeq
         /\ t.outgoing = s.outgoing /\ t.sent = s.sent
         /\ t.Pending_Outgoing = s.Pending_Outgoing /\ t.replaced = s.replaced /\ t.Pending_Sent = s.Pending_Sent
         /\ t.free = s.free \cup (bs \cap Pool)
         /\ \A b \in Buffers : t.buf[b] = IF b \in bs \cap Pool THEN EmptyBuffer ELSE s.buf[b]
<1>1. PICK f \in SUBSET Pool : f = s.free \cup (bs \cap Pool)
  BY DEF Sockets
<1>2. PICK u \in [Buffers -> BufferRecords] :
          u = [b \in Buffers |-> IF b \in bs \cap Pool THEN EmptyBuffer ELSE s.buf[b]]
  BY BufferTypes DEF Sockets
<1>3. t = [s EXCEPT !.free = f, !.buf = u]
  BY <1>1, <1>2 DEF returnXmitBufs, Sockets
<1>4. t \in Sockets /\ t.free = f /\ t.buf = u
  BY <1>3 DEF Sockets
<1>5. /\ SameInput(s, t) /\ SameNumbers(s, t)
      /\ t.oldestUnackedSeq = s.oldestUnackedSeq
      /\ t.outgoing = s.outgoing /\ t.sent = s.sent
      /\ t.Pending_Outgoing = s.Pending_Outgoing /\ t.replaced = s.replaced /\ t.Pending_Sent = s.Pending_Sent
  BY <1>3 DEF Sockets, SameInput, SameNumbers
<1> QED BY <1>1, <1>2, <1>4, <1>5

-----------------------------------------------------------------------------
(* The places of the buffers. *)

\* A buffer goes to the end of outgoing.
LEMMA OwnedAppend ==
  ASSUME NEW o \in Seq(Buffers), NEW t \in Seq(Buffers), NEW free \in SUBSET Pool, NEW away \in SUBSET Pool,
         Owned(o, t, free, away), NEW b \in Buffers, b \in away \/ b = connectPacket
  PROVE  Owned(Append(o, b), t, free, away \ {b})
<1>1. PICK n \in Nat : n = Len(o) /\ DOMAIN o = 1..n
  BY LenProperties
<1>2. PICK r : r = Append(o, b)
  OBVIOUS
<1>3. DOMAIN r = 1..(n + 1) /\ r[n + 1] = b /\ \A j \in 1..n : r[j] = o[j]
  BY <1>1, <1>2, AppendProperties
<1>4. b \in Pool => b \in away
  BY BufferTypes
<1>5. \A j \in 1..n : o[j] # b \/ b \notin Pool
  BY <1>1, <1>4 DEF Owned
<1>6. Distinct(r)
  BY <1>1, <1>3, <1>5 DEF Owned, Distinct
<1>7. \A j \in DOMAIN r, k \in DOMAIN t : r[j] = t[k] => r[j] \notin Pool
  BY <1>1, <1>3, <1>4 DEF Owned
<1>8. \A j \in DOMAIN r : r[j] \notin free /\ r[j] \notin away \ {b}
  <2>1. b \notin free
    BY <1>4, BufferTypes DEF Owned
  <2> QED BY <1>1, <1>3, <2>1 DEF Owned
<1>9. ASSUME NEW c \in Pool
      PROVE  \/ c \in free \/ c \in away \ {b}
             \/ \E j \in DOMAIN r : r[j] = c
             \/ \E j \in DOMAIN t : t[j] = c
  <2>1. n + 1 \in DOMAIN r /\ \A j \in DOMAIN o : j \in DOMAIN r
    BY <1>1, <1>3
  <2> QED BY <1>1, <1>3, <2>1 DEF Owned
<1> QED BY <1>2, <1>6, <1>7, <1>8, <1>9 DEF Owned

\* The head of outgoing goes to the end of sent.
LEMMA OwnedSent ==
  ASSUME NEW o \in Seq(Buffers), o # << >>, NEW t \in Seq(Buffers), NEW free, NEW away,
         Owned(o, t, free, away)
  PROVE  Owned(Tail(o), Append(t, Head(o)), free, away)
<1>1. PICK n \in Nat : n = Len(o) /\ DOMAIN o = 1..n /\ n # 0
  BY LenProperties, EmptySeq
<1>2. PICK m \in Nat : m = Len(t) /\ DOMAIN t = 1..m
  BY LenProperties
<1>3. PICK b \in Buffers : b = Head(o) /\ b = o[1]
  BY <1>1, HeadTailProperties
<1>4. PICK u : u = Append(t, b)
  OBVIOUS
<1>5. DOMAIN u = 1..(m + 1) /\ u[m + 1] = b /\ \A j \in 1..m : u[j] = t[j]
  BY <1>2, <1>4, AppendProperties
<1>6. PICK r : r = Tail(o)
  OBVIOUS
<1>7. DOMAIN r = 1..(n - 1) /\ \A j \in 1..(n - 1) : r[j] = o[j + 1]
  BY <1>1, <1>6, HeadTailProperties
<1>8. \A j \in 1..(n - 1) : j + 1 \in 1..n /\ j + 1 # 1
  BY <1>1
<1>9. Distinct(r)
  <2>1. ASSUME NEW j \in 1..(n - 1), NEW k \in 1..(n - 1), r[j] = r[k], r[j] \in Pool PROVE j = k
    <3>1. j + 1 = k + 1
      BY <1>1, <1>7, <1>8, <2>1 DEF Owned, Distinct
    <3> QED BY <3>1
  <2> QED BY <1>7, <2>1 DEF Distinct
<1>10. 1 \in 1..n /\ \A k \in 1..m : t[k] = b => b \notin Pool
  BY <1>1, <1>2, <1>3 DEF Owned
<1>11. Distinct(u)
  BY <1>2, <1>5, <1>10 DEF Owned, Distinct
<1>12. \A j \in DOMAIN r, k \in DOMAIN u : r[j] = u[k] => r[j] \notin Pool
  <2>1. \A j \in 1..(n - 1) : r[j] = b => b \notin Pool
    BY <1>1, <1>3, <1>7, <1>8, <1>10 DEF Owned, Distinct
  <2>2. ASSUME NEW j \in 1..(n - 1), NEW k \in 1..(m + 1), r[j] = u[k] PROVE r[j] \notin Pool
    <3>1. CASE k = m + 1
      BY <1>5, <2>1, <2>2, <3>1
    <3>2. CASE k # m + 1
      <4>1. k \in 1..m
        BY <1>2, <3>2
      <4>2. PICK i \in DOMAIN o : i = j + 1 /\ r[j] = o[i]
        BY <1>1, <1>7, <1>8
      <4>3. k \in DOMAIN t /\ o[i] = t[k]
        BY <1>2, <1>5, <2>2, <4>1, <4>2
      <4> QED BY <4>2, <4>3 DEF Owned
    <3> QED BY <3>1, <3>2
  <2> QED BY <1>5, <1>7, <2>2
<1>13. \A j \in DOMAIN r : r[j] \notin free /\ r[j] \notin away
  BY <1>1, <1>7, <1>8 DEF Owned
<1>14. \A j \in DOMAIN u : u[j] \notin free /\ u[j] \notin away
  BY <1>1, <1>2, <1>3, <1>5, <1>10 DEF Owned
<1>15. ASSUME NEW c \in Pool
       PROVE  \/ c \in free \/ c \in away
              \/ \E j \in DOMAIN r : r[j] = c
              \/ \E j \in DOMAIN u : u[j] = c
  <2>1. CASE \E j \in DOMAIN o : o[j] = c
    <3>1. PICK j \in 1..n : o[j] = c
      BY <1>1, <2>1
    <3>2. j = 1 \/ (j - 1 \in 1..(n - 1) /\ j - 1 + 1 = j)
      BY <1>1, <3>1
    <3>3. m + 1 \in 1..(m + 1)
      BY <1>2
    <3> QED BY <1>3, <1>5, <1>7, <3>1, <3>2, <3>3
  <2>2. CASE \E j \in DOMAIN t : t[j] = c
    BY <1>2, <1>5, <2>2
  <2> QED BY <2>1, <2>2 DEF Owned
<1> QED BY <1>3, <1>4, <1>6, <1>9, <1>11, <1>12, <1>13, <1>14, <1>15 DEF Owned

\* The head of outgoing goes back to the pool.
LEMMA OwnedDropped ==
  ASSUME NEW o \in Seq(Buffers), o # << >>, NEW t, NEW free, NEW away \in SUBSET Pool,
         Owned(o, t, free, away)
  PROVE  Owned(Tail(o), t, free \cup ({Head(o)} \cap Pool), away)
<1>1. PICK n \in Nat : n = Len(o) /\ DOMAIN o = 1..n /\ n # 0
  BY LenProperties, EmptySeq
<1>3. PICK b \in Buffers : b = Head(o) /\ b = o[1]
  BY <1>1, HeadTailProperties
<1>6. PICK r : r = Tail(o)
  OBVIOUS
<1>7. DOMAIN r = 1..(n - 1) /\ \A j \in 1..(n - 1) : r[j] = o[j + 1]
  BY <1>1, <1>6, HeadTailProperties
<1>8. 1 \in 1..n /\ \A j \in 1..(n - 1) : j + 1 \in 1..n /\ j + 1 # 1
  BY <1>1
<1>9. Distinct(r)
  <2>1. ASSUME NEW j \in 1..(n - 1), NEW k \in 1..(n - 1), r[j] = r[k], r[j] \in Pool PROVE j = k
    <3>1. j + 1 = k + 1
      BY <1>1, <1>7, <1>8, <2>1 DEF Owned, Distinct
    <3> QED BY <3>1
  <2> QED BY <1>7, <2>1 DEF Distinct
<1>10. \A j \in 1..(n - 1) : r[j] = b => b \notin Pool
  BY <1>1, <1>3, <1>7, <1>8 DEF Owned, Distinct
<1>11. PICK f : f = free \cup ({b} \cap Pool)
  OBVIOUS
<1>12. \A j \in DOMAIN r : r[j] \notin f /\ r[j] \notin away
  BY <1>1, <1>7, <1>8, <1>10, <1>11 DEF Owned
<1>13. \A j \in DOMAIN t : t[j] \notin f /\ t[j] \notin away
  BY <1>1, <1>3, <1>8, <1>11 DEF Owned
<1>14. f \cap away = {}
  BY <1>1, <1>3, <1>8, <1>11 DEF Owned
<1>15. ASSUME NEW c \in Pool
       PROVE  \/ c \in f \/ c \in away
              \/ \E j \in DOMAIN r : r[j] = c
              \/ \E j \in DOMAIN t : t[j] = c
  <2>1. CASE \E j \in DOMAIN o : o[j] = c
    <3>1. PICK j \in 1..n : o[j] = c
      BY <1>1, <2>1
    <3>2. j = 1 \/ (j - 1 \in 1..(n - 1) /\ j - 1 + 1 = j)
      BY <1>1, <3>1
    <3> QED BY <1>3, <1>7, <1>11, <3>1, <3>2
  <2> QED BY <1>11, <2>1 DEF Owned
<1>16. \A j \in DOMAIN r, k \in DOMAIN t : r[j] = t[k] => r[j] \notin Pool
  BY <1>1, <1>7, <1>8 DEF Owned
<1> QED BY <1>3, <1>6, <1>9, <1>11, <1>12, <1>13, <1>14, <1>15, <1>16 DEF Owned

\* Both queues are emptied into the pool.
LEMMA OwnedCleared ==
  ASSUME NEW o \in Seq(Buffers), NEW t \in Seq(Buffers), NEW free, NEW away \in SUBSET Pool,
         Owned(o, t, free, away)
  PROVE  Owned(<< >>, << >>, free \cup ((Range(o) \cup Range(t)) \cap Pool), away)
<1>1. DOMAIN << >> = {}
  OBVIOUS
<1>2. PICK f : f = free \cup ((Range(o) \cup Range(t)) \cap Pool)
  OBVIOUS
<1>3. f \cap away = {}
  BY <1>2 DEF Owned, Range
<1>4. \A b \in Pool : b \in f \/ b \in away
  BY <1>2 DEF Owned, Range
<1>5. Distinct(<< >>)
  BY <1>1 DEF Distinct
<1>6. Owned(<< >>, << >>, f, away)
  BY <1>1, <1>3, <1>4, <1>5, Zenon DEF Owned
<1> QED BY <1>2, <1>6

\* The only packet of outgoing goes back to the pool.
LEMMA OwnedReplaced ==
  ASSUME NEW o \in Seq(Buffers), Len(o) = 1, NEW t, NEW free, NEW away \in SUBSET Pool,
         Owned(o, t, free, away)
  PROVE  Owned(<< >>, t, free \cup ({Head(o)} \cap Pool), away)
<1>1. o # << >>
  BY EmptySeq
<1>2. Tail(o) = << >>
  <2>1. Tail(o) \in Seq(Buffers) /\ Len(Tail(o)) = 0
    BY <1>1, HeadTailProperties
  <2> QED BY <2>1, EmptySeq
<1> QED BY <1>1, <1>2, OwnedDropped

\* What is left of t without its first k.
IsRest(rest, t, n, k) ==
    rest \in Seq(Buffers) /\ Len(rest) = n - k /\ \A j \in 1..(n - k) : rest[j] = t[j + k]

\* The first k packets of sent go back to the pool.
LEMMA OwnedAcked ==
  ASSUME NEW o \in Seq(Buffers), NEW t \in Seq(Buffers), NEW free, NEW away \in SUBSET Pool,
         Owned(o, t, free, away), NEW n \in Nat, n = Len(t), NEW k \in Nat, k <= n,
         NEW rest, rest = SubSeq(t, k + 1, n), NEW bs, bs = {t[i] : i \in 1..k}
  PROVE  IsRest(rest, t, n, k) /\ Owned(o, rest, free \cup (bs \cap Pool), away)
<1>1. DOMAIN t = 1..n /\ k <= n
  BY LenProperties
<1>2. PICK q \in Nat : q = k + 1 /\ n - q + 1 = n - k
  BY <1>1
<1>3. PICK r \in Seq(Buffers) : /\ r = SubSeq(t, q, n) /\ Len(r) = n - k /\ DOMAIN r = 1..(n - k)
                                /\ \A j \in 1..(n - k) : r[j] = t[j + k]
  <2>1. q \in Int /\ n \in Int /\ \A j \in q..n : t[j] \in Buffers
    BY <1>1, <1>2
  <2>2. /\ SubSeq(t, q, n) \in Seq(Buffers)
        /\ Len(SubSeq(t, q, n)) = IF q <= n THEN n - q + 1 ELSE 0
        /\ \A j \in 1..(n - q + 1) : SubSeq(t, q, n)[j] = t[q + j - 1]
    BY <2>1, SubSeqProperties, SMTT(30)
  <2>3. PICK r : r = SubSeq(t, q, n)
    OBVIOUS
  <2>4. /\ r \in Seq(Buffers) /\ Len(r) = IF q <= n THEN n - q + 1 ELSE 0
        /\ \A j \in 1..(n - q + 1) : r[j] = t[q + j - 1]
    BY <2>2, <2>3, Zenon
  <2>5. Len(r) = n - k /\ DOMAIN r = 1..(n - k)
    BY <1>1, <1>2, <2>4
  <2>6. \A j \in 1..(n - k) : r[j] = t[j + k]
    <3>1. \A j \in 1..(n - k) : q + j - 1 = j + k
      BY <1>1, <1>2
    <3> QED BY <1>2, <2>4, <3>1
  <2> QED BY <2>3, <2>4, <2>5, <2>6
<1>4. \A j \in 1..(n - k) : j + k \in 1..n /\ j + k \notin 1..k
  BY <1>1
<1>5. Distinct(r)
  <2>1. ASSUME NEW i \in 1..(n - k), NEW j \in 1..(n - k), r[i] = r[j], r[i] \in Pool PROVE i = j
    <3>1. PICK x \in DOMAIN t : x = i + k /\ r[i] = t[x]
      BY <1>1, <1>3, <1>4
    <3>2. PICK y \in DOMAIN t : y = j + k /\ r[j] = t[y]
      BY <1>1, <1>3, <1>4
    <3>3. x = y
      BY <2>1, <3>1, <3>2 DEF Owned, Distinct
    <3> QED BY <3>1, <3>2, <3>3
  <2> QED BY <1>3, <2>1, ZenonT(40) DEF Distinct
<1>6. PICK f : f = free \cup ({t[i] : i \in 1..k} \cap Pool)
  OBVIOUS
<1>7. \A i \in 1..k : i \in DOMAIN t
  BY <1>1
<1>8. ASSUME NEW j \in 1..(n - k) PROVE r[j] \notin f /\ r[j] \notin away
  <2>1. PICK i \in DOMAIN t : i = j + k /\ r[j] = t[i] /\ i \notin 1..k
    BY <1>1, <1>3, <1>4
  <2> QED BY <1>6, <1>7, <2>1, ZenonT(40) DEF Owned, Distinct
<1>9. f \cap away = {}
  BY <1>6, <1>7 DEF Owned
<1>10. \A j \in DOMAIN o : o[j] \notin f /\ o[j] \notin away
  BY <1>6, <1>7 DEF Owned
<1>11. ASSUME NEW c \in Pool
       PROVE  \/ c \in f \/ c \in away
              \/ \E j \in DOMAIN o : o[j] = c
              \/ \E j \in DOMAIN r : r[j] = c
  <2>1. CASE \E j \in DOMAIN t : t[j] = c
    <3>1. PICK j \in 1..n : t[j] = c
      BY <1>1, <2>1
    <3>2. j \in 1..k \/ (j - k \in 1..(n - k) /\ (j - k) + k = j)
      BY <1>1, <3>1
    <3> QED BY <1>3, <1>6, <3>1, <3>2
  <2> QED BY <1>6, <2>1 DEF Owned
<1>12. \A j \in DOMAIN o, i \in DOMAIN r : o[j] = r[i] => o[j] \notin Pool
  <2>1. ASSUME NEW j \in DOMAIN o, NEW i \in 1..(n - k), o[j] = r[i] PROVE o[j] \notin Pool
    <3>1. PICK x \in DOMAIN t : x = i + k /\ r[i] = t[x]
      BY <1>1, <1>3, <1>4
    <3> QED BY <2>1, <3>1 DEF Owned
  <2> QED BY <1>3, <2>1
<1>13. Owned(o, r, f, away)
  BY <1>3, <1>5, <1>8, <1>9, <1>10, <1>11, <1>12 DEF Owned
<1> QED BY <1>2, <1>3, <1>6, <1>13 DEF IsRest

-----------------------------------------------------------------------------
(* Queueing *)

\* A field of a buffer is set.
LEMMA BufferSet ==
  ASSUME NEW s \in Sockets, NEW u \in [Buffers -> BufferRecords], NEW t, t = [s EXCEPT !.buf = u]
  PROVE  /\ t \in Sockets /\ SameInput(s, t) /\ SameNumbers(s, t)
         /\ t.oldestUnackedSeq = s.oldestUnackedSeq
         /\ t.outgoing = s.outgoing /\ t.sent = s.sent /\ t.free = s.free /\ t.buf = u
         /\ t.Pending_Outgoing = s.Pending_Outgoing /\ t.replaced = s.replaced /\ t.Pending_Sent = s.Pending_Sent
  BY DEF Sockets, SameInput, SameNumbers

\* The bot's buffers are away, the socket's own packet is not one of the pool.
Enqueues(away, b) == b \in away \/ b = connectPacket

\* enqueue with the flags cleared: what is queued before the packet.
Fresh(p) == [p EXCEPT !.attempts = 0, !.pendingArp = FALSE, !.wasAckOnly = FALSE]

\* What the buffer c holds when a lone empty packet has been taken out of outgoing.
Unless(s, c) == IF PiggybacksOnAck(s) /\ c = Head(s.outgoing) /\ c \in Pool THEN EmptyBuffer ELSE s.buf[c]

Enqueued(s, t, b, away) ==
    /\ SameInput(s, t) /\ SameNumbers(s, t) /\ t.sent = s.sent
    /\ t.oldestUnackedSeq = s.oldestUnackedSeq
    /\ IF hasRoom(s.outgoing) \/ PiggybacksOnAck(s)
       THEN /\ Clean(t, away \ {b})
            /\ t.outgoing = IF PiggybacksOnAck(s) THEN <<b>> ELSE Append(s.outgoing, b)
       ELSE Clean(t, away) /\ t.outgoing = s.outgoing
    /\ t.buf[b] = Fresh(s.buf[b]) /\ \A c \in Buffers \ {b} : t.buf[c] = Unless(s, c)

LEMMA EnqueueAccepted ==
  ASSUME NEW away \in SUBSET Pool, NEW s, Clean(s, away), NEW b \in Buffers, Enqueues(away, b),
         NEW t, t = enqueueAccepted(s, b)
  PROVE  Enqueued(s, t, b, away)
<1>1. s \in Sockets /\ away \subseteq Pool
  BY DEF Clean
<1> DEFINE gone == [s EXCEPT !.outgoing = << >>, !.replaced = @ + 1]
           s1 == IF PiggybacksOnAck(s) THEN returnXmitBufs(gone, {Head(s.outgoing)}) ELSE s
<1>2. /\ s1 \in Sockets /\ SameInput(s, s1) /\ SameNumbers(s, s1) /\ s1.sent = s.sent
      /\ s1.oldestUnackedSeq = s.oldestUnackedSeq
      /\ s1.Pending_Outgoing = s.Pending_Outgoing /\ s1.Pending_Sent = s.Pending_Sent
      /\ s1.replaced = IF PiggybacksOnAck(s) THEN s.replaced + 1 ELSE s.replaced
      /\ s1.outgoing = IF PiggybacksOnAck(s) THEN << >> ELSE s.outgoing
      /\ Owned(s1.outgoing, s1.sent, s1.free, away)
      /\ \A c \in Buffers : s1.buf[c] = Unless(s, c)
  <2>1. CASE PiggybacksOnAck(s)
    <3>1. << >> \in Seq(Buffers) /\ s.outgoing \in Seq(Buffers)
      BY <1>1, EmptySeq DEF Sockets
    <3>9. PICK k \in Nat : k = s.replaced + 1
      BY <1>1 DEF Sockets
    <3>10. gone = [s EXCEPT !.outgoing = << >>, !.replaced = k]
      BY <1>1, <3>9
    <3> HIDE DEF gone
    <3>2. /\ gone \in Sockets /\ SameInput(s, gone) /\ SameNumbers(s, gone) /\ gone.sent = s.sent
          /\ gone.oldestUnackedSeq = s.oldestUnackedSeq /\ gone.free = s.free
          /\ gone.Pending_Outgoing = s.Pending_Outgoing /\ gone.replaced = k /\ gone.Pending_Sent = s.Pending_Sent
          /\ gone.outgoing = << >> /\ gone.buf = s.buf
      BY <1>1, <3>1, <3>10 DEF Sockets, SameInput, SameNumbers
    <3>3. Len(s.outgoing) = 1 /\ s.outgoing # << >>
      BY <2>1, EmptySeq DEF PiggybacksOnAck
    <3>4. {Head(s.outgoing)} \in SUBSET Buffers
      BY <3>1, <3>3, HeadTailProperties
    <3>5. Owned(<< >>, s.sent, s.free \cup ({Head(s.outgoing)} \cap Pool), away)
      BY <3>1, <3>3, OwnedReplaced DEF Clean
    <3>6. s1 = returnXmitBufs(gone, {Head(s.outgoing)})
      BY <2>1
    <3> HIDE DEF s1
    <3>7. /\ s1 \in Sockets /\ SameInput(gone, s1) /\ SameNumbers(gone, s1)
          /\ s1.oldestUnackedSeq = gone.oldestUnackedSeq
          /\ s1.outgoing = gone.outgoing /\ s1.sent = gone.sent
          /\ s1.Pending_Outgoing = gone.Pending_Outgoing /\ s1.replaced = gone.replaced /\ s1.Pending_Sent = gone.Pending_Sent
          /\ s1.free = gone.free \cup ({Head(s.outgoing)} \cap Pool)
          /\ \A c \in Buffers : s1.buf[c] = IF c \in {Head(s.outgoing)} \cap Pool THEN EmptyBuffer ELSE gone.buf[c]
      BY <3>2, <3>4, <3>6, Returned
    <3>8. \A c \in Buffers : s1.buf[c] = Unless(s, c)
      BY <2>1, <3>2, <3>7 DEF Unless
    <3> QED BY <2>1, <3>2, <3>5, <3>7, <3>8, <3>9 DEF SameInput, SameNumbers
  <2>2. CASE ~PiggybacksOnAck(s)
    BY <1>1, <2>2 DEF SameInput, SameNumbers, Clean, Unless
  <2> QED BY <2>1, <2>2
<1> HIDE DEF s1
<1> DEFINE s2 == [s1 EXCEPT !.buf[b].attempts = 0, !.buf[b].pendingArp = FALSE, !.buf[b].wasAckOnly = FALSE]
<1>3. PICK u \in [Buffers -> BufferRecords] :
         /\ s2 = [s1 EXCEPT !.buf = u]
         /\ u[b] = Fresh(s1.buf[b]) /\ \A c \in Buffers \ {b} : u[c] = s1.buf[c]
  <2>1. PICK old \in [Buffers -> BufferRecords] : old = s1.buf
    BY <1>2 DEF Sockets
  <2>2. Fresh(old[b]) \in BufferRecords
    BY DEF BufferRecords, Fresh
  <2>3. PICK u \in [Buffers -> BufferRecords] : u = [old EXCEPT ![b] = Fresh(old[b])]
    BY <2>2
  <2>4. s2 = [s1 EXCEPT !.buf = u]
    BY <1>2, <2>1, <2>3 DEF Fresh, Sockets
  <2> QED BY <2>1, <2>3, <2>4
<1> HIDE DEF s2
<1>4. /\ s2 \in Sockets /\ SameInput(s1, s2) /\ SameNumbers(s1, s2)
      /\ s2.oldestUnackedSeq = s1.oldestUnackedSeq
      /\ s2.outgoing = s1.outgoing /\ s2.sent = s1.sent /\ s2.free = s1.free
      /\ s2.Pending_Outgoing = s1.Pending_Outgoing /\ s2.replaced = s1.replaced /\ s2.Pending_Sent = s1.Pending_Sent
      /\ s2.buf = u
  BY <1>2, <1>3, BufferSet
<1>5. t = IF hasRoom(s2.outgoing)
          THEN [s2 EXCEPT !.outgoing = Append(@, b), !.Pending_Outgoing = Counter(@ + 1)]
          ELSE s2
  BY DEF enqueueAccepted, s1, s2, gone
<1>6. s2.buf[b] = Fresh(s.buf[b]) /\ \A c \in Buffers \ {b} : s2.buf[c] = Unless(s, c)
  <2>1. Unless(s, b) = s.buf[b]
    <3> SUFFICES ASSUME PiggybacksOnAck(s), b = Head(s.outgoing), b \in Pool PROVE FALSE
      BY DEF Unless
    <3>1. s.outgoing \in Seq(Buffers) /\ Len(s.outgoing) = 1
      BY <1>1 DEF Sockets, PiggybacksOnAck
    <3>2. 1 \in DOMAIN s.outgoing /\ b = s.outgoing[1]
      BY <3>1
    <3> QED BY <3>2, BufferTypes DEF Clean, Owned, Enqueues
  <2> QED BY <1>2, <1>3, <1>4, <2>1
<1>7. CASE hasRoom(s2.outgoing)
  <2>1. PICK n \in Int : n = Counter(s2.Pending_Outgoing + 1)
    <3>1. s2.Pending_Outgoing + 1 \in Int
      BY <1>4 DEF Sockets
    <3> QED BY <3>1, Counters
  <2>2. PICK o \in Seq(Buffers) : o = Append(s2.outgoing, b) /\ Len(o) = Len(s2.outgoing) + 1
    <3>1. s2.outgoing \in Seq(Buffers)
      BY <1>4 DEF Sockets
    <3>2. Append(s2.outgoing, b) \in Seq(Buffers) /\ Len(Append(s2.outgoing, b)) = Len(s2.outgoing) + 1
      BY <3>1, AppendProperties
    <3> QED BY <3>2, Zenon
  <2>3. t = [s2 EXCEPT !.outgoing = o, !.Pending_Outgoing = n]
    BY <1>4, <1>5, <1>7, <2>1, <2>2 DEF Sockets
  <2>4. /\ t \in Sockets /\ SameInput(s2, t) /\ SameNumbers(s2, t) /\ t.sent = s2.sent
        /\ t.oldestUnackedSeq = s2.oldestUnackedSeq /\ t.free = s2.free
        /\ t.Pending_Sent = s2.Pending_Sent /\ t.outgoing = o /\ t.Pending_Outgoing = n
        /\ t.replaced = s2.replaced
        /\ t.buf = s2.buf
    BY <1>4, <2>3, ZenonT(40) DEF Sockets, SameInput, SameNumbers
  <2>5. Owned(o, t.sent, t.free, away \ {b})
    <3>1. s2.outgoing \in Seq(Buffers) /\ s2.sent \in Seq(Buffers) /\ s2.free \in SUBSET Pool
      BY <1>4 DEF Sockets
    <3>2. Owned(s2.outgoing, s2.sent, s2.free, away) /\ (b \in away \/ b = connectPacket)
      BY <1>2, <1>4 DEF Enqueues
    <3>3. Owned(Append(s2.outgoing, b), s2.sent, s2.free, away \ {b})
      BY <3>1, <3>2, OwnedAppend
    <3> QED BY <2>2, <2>4, <3>3
  <2>6. Len(o) <= TCP_SOCKET_RING_SIZE /\ Counted(n, Len(o), s2.replaced)
    <3>0. s2.outgoing \in Seq(Buffers) /\ s2.Pending_Outgoing \in Int /\ s2.replaced \in Nat
      BY <1>4 DEF Sockets
    <3>5. s.Pending_Outgoing \in Int /\ s.replaced \in Nat
      BY <1>1 DEF Sockets
    <3>1. /\ Len(s2.outgoing) \in Nat /\ s2.Pending_Outgoing \in Int /\ s2.replaced \in Nat
          /\ s.Pending_Outgoing \in Int /\ s.replaced \in Nat
      BY <3>0, <3>5
    <3>2. Counted(s2.Pending_Outgoing, Len(s2.outgoing), s2.replaced)
      <4>1. CASE PiggybacksOnAck(s)
        <5>1. /\ Len(s.outgoing) = 1 /\ Len(s2.outgoing) = 0 /\ s2.Pending_Outgoing = s.Pending_Outgoing
              /\ s2.replaced = s.replaced + 1
          BY <1>2, <1>4, <4>1, EmptySeq DEF PiggybacksOnAck
        <5>2. Counted(s.Pending_Outgoing, 1, s.replaced)
          BY <5>1 DEF Clean
        <5> QED BY <3>1, <5>1, <5>2, BufferTypes, CounterAssumption DEF Counted
      <4>2. CASE ~PiggybacksOnAck(s)
        BY <1>2, <1>4, <4>2 DEF Clean
      <4> QED BY <4>1, <4>2
    <3>3. Len(o) <= TCP_SOCKET_RING_SIZE
      BY <1>7, <2>2, <3>1, BufferTypes DEF hasRoom
    <3>4. ASSUME s2.replaced + TCP_SOCKET_RING_SIZE < CounterSize PROVE n = Len(o) + s2.replaced
      <4>1. s2.Pending_Outgoing = Len(s2.outgoing) + s2.replaced
        BY <3>2, <3>4 DEF Counted
      <4>2. PICK m \in Int : m = s2.Pending_Outgoing + 1
        BY <3>1
      <4>3. m = Len(o) + s2.replaced /\ 0 <= m /\ m < CounterSize
        <5>1. PICK len \in Nat : len = Len(s2.outgoing)
          BY <3>1
        <5>2. Len(o) = len + 1
          BY <2>2, <5>1
        <5>3. PICK ring \in Nat, size \in Nat, old \in Int, k \in Nat :
                  /\ ring = TCP_SOCKET_RING_SIZE /\ size = CounterSize
                  /\ old = s2.Pending_Outgoing /\ k = s2.replaced
          BY <3>1, BufferTypes, CounterAssumption
        <5>4. len + 1 <= ring /\ k + ring < size /\ old = len + k /\ m = old + 1
          BY <3>3, <3>4, <4>1, <4>2, <5>1, <5>2, <5>3
        <5>5. m = (len + 1) + k /\ 0 <= m /\ m < size
          BY <4>2, <5>1, <5>3, <5>4, SMTT(30)
        <5> QED BY <5>2, <5>3, <5>5
      <4>4. Counter(m) = m
        BY <4>3, Counters
      <4> QED BY <2>1, <4>2, <4>3, <4>4
    <3> QED BY <3>3, <3>4 DEF Counted
  <2>7. Clean(t, away \ {b})
    <3>1. t.state = s.state /\ Early(s.state, s.replaced) /\ (s2.replaced # s.replaced => s.state = "ESTABLISHED")
      BY <1>2, <1>4, <2>4 DEF SameNumbers, Clean, PiggybacksOnAck
    <3>2. Early(t.state, t.replaced)
      BY <2>4, <3>1 DEF Early
    <3> QED BY <1>2, <1>4, <2>4, <2>5, <2>6, <3>2 DEF Clean, SameInput
  <2>8. hasRoom(s.outgoing) \/ PiggybacksOnAck(s)
    BY <1>2, <1>4, <1>7
  <2>9. o = IF PiggybacksOnAck(s) THEN <<b>> ELSE Append(s.outgoing, b)
    BY <1>2, <1>4, <2>2
  <2> QED BY <1>2, <1>4, <1>6, <2>4, <2>7, <2>8, <2>9 DEF Enqueued, SameInput, SameNumbers
<1>8. CASE ~hasRoom(s2.outgoing)
  <2>1. t = s2
    BY <1>5, <1>8
  <2>2. ~PiggybacksOnAck(s)
    <3> SUFFICES ASSUME PiggybacksOnAck(s) PROVE FALSE
      OBVIOUS
    <3>1. Len(s2.outgoing) = 0
      BY <1>2, <1>4, EmptySeq
    <3> QED BY <1>8, <3>1, BufferTypes DEF hasRoom
  <2> QED BY <1>2, <1>4, <1>6, <1>8, <2>1, <2>2 DEF Enqueued, Clean, SameInput, SameNumbers
<1> QED BY <1>7, <1>8

\* enqueueOwn: the socket's own packet.
LEMMA EnqueueOwn ==
  ASSUME NEW away \in SUBSET Pool, NEW s, Clean(s, away), NEW t, t = enqueueOwn(s)
  PROVE  /\ Clean(t, away) /\ SameInput(s, t) /\ SameNumbers(s, t) /\ t.sent = s.sent
         /\ t.oldestUnackedSeq = s.oldestUnackedSeq
<1>1. s \in Sockets /\ connectPacket \in Buffers /\ connectPacket \notin away
  BY BufferTypes DEF Clean
<1>2. PICK old \in [Buffers -> BufferRecords] : old = s.buf
  BY <1>1 DEF Sockets
<1>3. [old[connectPacket] EXCEPT !.dataLen = 0] \in BufferRecords
  BY <1>1 DEF BufferRecords
<1>4. PICK u \in [Buffers -> BufferRecords] :
          u = [old EXCEPT ![connectPacket] = [old[connectPacket] EXCEPT !.dataLen = 0]]
  BY <1>3
<1>5. PICK s1 : s1 = [s EXCEPT !.buf[connectPacket].dataLen = 0]
  OBVIOUS
<1>6. s1 = [s EXCEPT !.buf = u]
  BY <1>1, <1>2, <1>4, <1>5 DEF Sockets
<1>7. /\ s1 \in Sockets /\ SameInput(s, s1) /\ SameNumbers(s, s1)
      /\ s1.oldestUnackedSeq = s.oldestUnackedSeq
      /\ s1.outgoing = s.outgoing /\ s1.sent = s.sent /\ s1.free = s.free
      /\ s1.Pending_Outgoing = s.Pending_Outgoing /\ s1.replaced = s.replaced /\ s1.Pending_Sent = s.Pending_Sent
  BY <1>1, <1>6, BufferSet
<1>8. Clean(s1, away)
  BY <1>7 DEF Clean, SameInput, SameNumbers
<1>9. t = enqueue(s1, connectPacket)
  BY <1>5 DEF enqueueOwn
<1>10. CASE Refuses(s1, connectPacket)
  BY <1>7, <1>8, <1>9, <1>10 DEF enqueue
<1>11. CASE ~Refuses(s1, connectPacket)
  <2>1. t = enqueueAccepted(s1, connectPacket)
    BY <1>9, <1>11 DEF enqueue
  <2>2. away \ {connectPacket} = away
    BY <1>1
  <2>3. Enqueues(away, connectPacket)
    BY DEF Enqueues
  <2>4. Enqueued(s1, t, connectPacket, away)
    BY <1>1, <1>8, <2>1, <2>3, EnqueueAccepted
  <2>5. /\ SameInput(s1, t) /\ SameNumbers(s1, t) /\ t.sent = s1.sent
        /\ t.oldestUnackedSeq = s1.oldestUnackedSeq
        /\ Clean(t, away \ {connectPacket}) \/ Clean(t, away)
    BY <2>4 DEF Enqueued
  <2> QED BY <1>7, <2>2, <2>5 DEF SameInput, SameNumbers
<1> QED BY <1>10, <1>11
-----------------------------------------------------------------------------
(* Sending *)

\* The state of a socket that has just sent its FIN.
AfterFin(state) == IF state = "SEND_FIN2" THEN "LAST_ACK" ELSE "FIN_WAIT_1"

SynState(s) == s.state \in {"SYN_SENT", "SYN_RECVED"}

\* The header of a packet that is sent for the first time.
Headed(s, p, syn, fin, last, arp) ==
    [p EXCEPT !.seq = s.seqNum, !.syn = syn, !.fin = fin, !.seqNum = last, !.pendingArp = arp,
              !.wasAckOnly = @ \/ (p.dataLen = 0 /\ ~syn /\ ~fin)]

LEMMA FilledHeaders ==
  ASSUME NEW s \in Sockets, NEW b \in Buffers, NEW arp \in BOOLEAN, NEW t, t = fillHeaders(s, b, arp)
  PROVE  /\ t \in Sockets /\ SameInput(s, t)
         /\ t.oldestUnackedSeq = s.oldestUnackedSeq /\ t.macCached = s.macCached
         /\ t.outgoing = s.outgoing /\ t.sent = s.sent /\ t.free = s.free /\ t.wire = s.wire
         /\ t.Pending_Outgoing = s.Pending_Outgoing /\ t.replaced = s.replaced /\ t.Pending_Sent = s.Pending_Sent
         /\ t.state = IF AddsFin(s) THEN AfterFin(s.state) ELSE s.state
         /\ t.seqNum = s.seqNum + s.buf[b].dataLen
                         + (IF SynState(s) \/ AddsFin(s) THEN 1 ELSE 0)
         /\ t.buf[b] = Headed(s, s.buf[b], SynState(s), AddsFin(s), t.seqNum - 1, arp)
         /\ \A c \in Buffers \ {b} : t.buf[c] = s.buf[c]
<1>1. PICK p \in BufferRecords : p = s.buf[b]
  BY DEF Sockets
<1>2. PICK syn \in BOOLEAN : syn = SynState(s)
  <2>1. SynState(s) \in BOOLEAN
    BY DEF SynState
  <2> QED BY <2>1
<1>3. PICK fin \in BOOLEAN : fin = AddsFin(s)
  BY DEF AddsFin
<1>4. PICK nextSeq \in Int : nextSeq = s.seqNum + p.dataLen + (IF syn \/ fin THEN 1 ELSE 0)
  <2>1. s.seqNum \in Int /\ p.dataLen \in Int
    BY DEF Sockets, BufferRecords
  <2>2. PICK one \in Int : one = IF syn \/ fin THEN 1 ELSE 0
    OBVIOUS
  <2> QED BY <2>1, <2>2
<1>5. PICK last \in Int : last = nextSeq - 1
  OBVIOUS
<1>6. PICK st \in States : st = IF ~fin THEN s.state ELSE AfterFin(s.state)
  BY DEF Sockets, AfterFin, States
<1>7. PICK w \in Nat : w = IF p.dataLen <= s.remoteWindow THEN s.remoteWindow - p.dataLen ELSE 0
  BY SMTT(30) DEF Sockets, BufferRecords
<1>8. PICK h \in BufferRecords : h = Headed(s, p, syn, fin, last, arp)
  <2>1. PICK ao \in BOOLEAN : ao = (p.wasAckOnly \/ (p.dataLen = 0 /\ ~syn /\ ~fin))
    BY DEF BufferRecords
  <2>2. s.seqNum \in Int
    BY DEF Sockets
  <2>3. [p EXCEPT !.seq = s.seqNum, !.syn = syn, !.fin = fin, !.seqNum = last, !.pendingArp = arp,
                  !.wasAckOnly = ao] \in BufferRecords
    BY <2>2 DEF BufferRecords
  <2>4. Headed(s, p, syn, fin, last, arp)
          = [p EXCEPT !.seq = s.seqNum, !.syn = syn, !.fin = fin, !.seqNum = last, !.pendingArp = arp,
                      !.wasAckOnly = ao]
    BY <2>1 DEF Headed, BufferRecords
  <2> QED BY <2>3, <2>4
<1>9. PICK u \in [Buffers -> BufferRecords] : u = [s.buf EXCEPT ![b] = h]
  BY DEF Sockets
<1>10. t = [s EXCEPT !.seqNum = nextSeq, !.state = st, !.remoteWindow = w, !.buf = u]
  <2>1. t = [s EXCEPT !.seqNum = nextSeq,
                      !.state = IF ~fin THEN @ ELSE IF @ = "SEND_FIN2" THEN "LAST_ACK" ELSE "FIN_WAIT_1",
                      !.remoteWindow = IF p.dataLen <= @ THEN @ - p.dataLen ELSE 0,
                      !.buf[b] = [p EXCEPT !.seq = s.seqNum, !.syn = syn, !.fin = fin,
                                 !.seqNum = nextSeq - 1, !.pendingArp = arp,
                                 !.wasAckOnly = @ \/ (p.dataLen = 0 /\ ~syn /\ ~fin)]]
    BY <1>1, <1>2, <1>3, <1>4 DEF fillHeaders, SynState
  <2>2. h = [p EXCEPT !.seq = s.seqNum, !.syn = syn, !.fin = fin,
                                 !.seqNum = nextSeq - 1, !.pendingArp = arp,
                                 !.wasAckOnly = @ \/ (p.dataLen = 0 /\ ~syn /\ ~fin)]
    BY <1>1, <1>5, <1>8 DEF Headed
  <2>3. st = IF ~fin THEN s.state ELSE IF s.state = "SEND_FIN2" THEN "LAST_ACK" ELSE "FIN_WAIT_1"
    BY <1>6 DEF AfterFin
  <2>4. u = [s.buf EXCEPT ![b] = [p EXCEPT !.seq = s.seqNum, !.syn = syn, !.fin = fin,
                                 !.seqNum = nextSeq - 1, !.pendingArp = arp,
                                 !.wasAckOnly = @ \/ (p.dataLen = 0 /\ ~syn /\ ~fin)]]
    BY <1>9, <2>2
  <2> QED BY <1>7, <2>1, <2>3, <2>4 DEF Sockets
<1>11. /\ t \in Sockets /\ SameInput(s, t)
       /\ t.oldestUnackedSeq = s.oldestUnackedSeq /\ t.macCached = s.macCached
       /\ t.outgoing = s.outgoing /\ t.sent = s.sent /\ t.free = s.free /\ t.wire = s.wire
       /\ t.Pending_Outgoing = s.Pending_Outgoing /\ t.replaced = s.replaced /\ t.Pending_Sent = s.Pending_Sent
       /\ t.state = st /\ t.seqNum = nextSeq /\ t.buf = u
  BY <1>10, ZenonT(40) DEF Sockets, SameInput
<1>12. u[b] = h /\ \A c \in Buffers \ {b} : u[c] = s.buf[c]
  BY <1>9 DEF Sockets
<1> QED BY <1>1, <1>2, <1>3, <1>4, <1>5, <1>6, <1>8, <1>11, <1>12

SameQueues(s, t) ==
    /\ t.outgoing = s.outgoing /\ t.sent = s.sent /\ t.free = s.free
    /\ t.Pending_Outgoing = s.Pending_Outgoing /\ t.replaced = s.replaced /\ t.Pending_Sent = s.Pending_Sent
    /\ t.oldestUnackedSeq = s.oldestUnackedSeq

LEMMA ContentTyped ==
  ASSUME NEW p \in BufferRecords
  PROVE  Content(p) \in SUBSET (Int \X Int)
<1>1. p.seq \in Int /\ p.data \in Int /\ p.seq + p.dataLen \in Int
  BY DEF BufferRecords
<1> QED BY <1>1 DEF Content, SYN, FIN

LEMMA Transmitted ==
  ASSUME NEW s \in Sockets, NEW b \in Buffers, NEW t, t = transmit(s, b)
  PROVE  /\ t \in Sockets /\ SameInput(s, t) /\ SameQueues(s, t)
         /\ t.state = s.state /\ t.seqNum = s.seqNum /\ t.buf = s.buf
         /\ t.wire = s.wire \cup Content(s.buf[b])
<1>1. s.buf[b] \in BufferRecords
  BY DEF Sockets
<1>2. PICK w \in SUBSET (Int \X Int) : w = s.wire \cup Content(s.buf[b])
  BY <1>1, ContentTyped DEF Sockets
<1>3. t = [s EXCEPT !.wire = w]
  BY <1>2 DEF transmit, Sockets
<1> QED BY <1>2, <1>3 DEF Sockets, SameInput, SameQueues

\* What sendPacket does to the packet b and the numbers.
Retried(s, t, b) ==
    /\ s.buf[b].pendingArp /\ t.state = s.state /\ t.seqNum = s.seqNum
    /\ t.buf[b] = [s.buf[b] EXCEPT !.pendingArp = t.buf[b].pendingArp]

SentFirst(s, t, b) ==
    /\ ~s.buf[b].pendingArp
    /\ t.state = IF AddsFin(s) THEN AfterFin(s.state) ELSE s.state
    /\ t.seqNum = s.seqNum + s.buf[b].dataLen + (IF SynState(s) \/ AddsFin(s) THEN 1 ELSE 0)
    /\ t.buf[b] = Headed(s, s.buf[b], SynState(s), AddsFin(s), t.seqNum - 1, t.buf[b].pendingArp)

PacketSent(s, t, b) ==
    /\ t \in Sockets /\ SameInput(s, t) /\ SameQueues(s, t)
    /\ \A c \in Buffers \ {b} : t.buf[c] = s.buf[c]
    /\ Retried(s, t, b) \/ SentFirst(s, t, b)
    /\ t.wire = IF t.buf[b].pendingArp THEN s.wire ELSE s.wire \cup Content(t.buf[b])

LEMMA SendPacket ==
  ASSUME NEW s \in Sockets, NEW b \in Buffers, NEW resolved \in BOOLEAN, NEW t, t = sendPacket(s, b, resolved)
  PROVE  PacketSent(s, t, b)
<1> DEFINE retried == [s EXCEPT !.buf[b].pendingArp = ~resolved, !.macCached = @ \/ resolved]
           s1 == IF s.buf[b].pendingArp THEN retried ELSE fillHeaders(s, b, ~s.macCached /\ ~resolved)
<1>1. t = IF s1.buf[b].pendingArp THEN s1 ELSE transmit(s1, b)
  BY DEF sendPacket
<1>2. /\ s1 \in Sockets /\ SameInput(s, s1) /\ SameQueues(s, s1) /\ s1.wire = s.wire
      /\ \A c \in Buffers \ {b} : s1.buf[c] = s.buf[c]
      /\ Retried(s, s1, b) \/ SentFirst(s, s1, b)
  <2>1. CASE s.buf[b].pendingArp
    <3>1. PICK wait \in BOOLEAN : wait = ~resolved
      OBVIOUS
    <3>2. PICK old \in [Buffers -> BufferRecords] : old = s.buf
      BY DEF Sockets
    <3>3. PICK p \in BufferRecords : p = [old[b] EXCEPT !.pendingArp = wait] /\ p.pendingArp = wait
      <4>1. old[b] \in BufferRecords
        OBVIOUS
      <4>2. [old[b] EXCEPT !.pendingArp = wait] \in BufferRecords /\ [old[b] EXCEPT !.pendingArp = wait].pendingArp = wait
        BY <4>1 DEF BufferRecords
      <4> QED BY <4>2
    <3>4. PICK u \in [Buffers -> BufferRecords] : u = [old EXCEPT ![b] = p]
      OBVIOUS
    <3>5. PICK mac \in BOOLEAN : mac = (s.macCached \/ resolved)
      BY DEF Sockets
    <3>6. s1 = [s EXCEPT !.buf = u, !.macCached = mac]
      BY <2>1, <3>1, <3>2, <3>3, <3>4, <3>5 DEF Sockets
    <3> HIDE DEF s1
    <3>7. /\ s1 \in Sockets /\ SameInput(s, s1) /\ SameQueues(s, s1) /\ s1.wire = s.wire
          /\ s1.buf = u /\ s1.state = s.state /\ s1.seqNum = s.seqNum
      BY <3>6 DEF Sockets, SameInput, SameQueues
    <3>8. u[b] = p /\ \A c \in Buffers \ {b} : u[c] = s.buf[c]
      BY <3>2, <3>4
    <3> QED BY <2>1, <3>2, <3>3, <3>7, <3>8 DEF Retried
  <2>2. CASE ~s.buf[b].pendingArp
    <3>1. PICK arp \in BOOLEAN : arp = (~s.macCached /\ ~resolved)
      BY DEF Sockets
    <3>2. s1 = fillHeaders(s, b, arp)
      BY <2>2, <3>1
    <3> HIDE DEF s1
    <3>3. /\ s1 \in Sockets /\ SameInput(s, s1)
          /\ s1.oldestUnackedSeq = s.oldestUnackedSeq /\ s1.macCached = s.macCached
          /\ s1.outgoing = s.outgoing /\ s1.sent = s.sent /\ s1.free = s.free /\ s1.wire = s.wire
          /\ s1.Pending_Outgoing = s.Pending_Outgoing /\ s1.replaced = s.replaced /\ s1.Pending_Sent = s.Pending_Sent
          /\ s1.state = IF AddsFin(s) THEN AfterFin(s.state) ELSE s.state
          /\ s1.seqNum = s.seqNum + s.buf[b].dataLen + (IF SynState(s) \/ AddsFin(s) THEN 1 ELSE 0)
          /\ s1.buf[b] = Headed(s, s.buf[b], SynState(s), AddsFin(s), s1.seqNum - 1, arp)
          /\ \A c \in Buffers \ {b} : s1.buf[c] = s.buf[c]
      BY <3>2, FilledHeaders
    <3>4. s1.buf[b].pendingArp = arp
      <4>1. PICK p \in BufferRecords : p = s.buf[b]
        BY DEF Sockets
      <4>2. Headed(s, p, SynState(s), AddsFin(s), s1.seqNum - 1, arp).pendingArp = arp
        BY DEF Headed, BufferRecords
      <4> QED BY <3>3, <4>1, <4>2
    <3>5. SentFirst(s, s1, b)
      BY <2>2, <3>3, <3>4 DEF SentFirst
    <3> QED BY <3>3, <3>5 DEF SameQueues
  <2> QED BY <2>1, <2>2
<1> HIDE DEF s1
<1>3. CASE s1.buf[b].pendingArp
  BY <1>1, <1>2, <1>3 DEF PacketSent
<1>4. CASE ~s1.buf[b].pendingArp
  <2>1. t = transmit(s1, b)
    BY <1>1, <1>4
  <2>2. /\ t \in Sockets /\ SameInput(s1, t) /\ SameQueues(s1, t)
        /\ t.state = s1.state /\ t.seqNum = s1.seqNum /\ t.buf = s1.buf
        /\ t.wire = s1.wire \cup Content(s1.buf[b])
    BY <1>2, <2>1, Transmitted
  <2>3. Retried(s, t, b) \/ SentFirst(s, t, b)
    BY <1>2, <2>2 DEF Retried, SentFirst
  <2>4. SameInput(s, t) /\ SameQueues(s, t)
    BY <1>2, <2>2 DEF SameInput, SameQueues
  <2> QED BY <1>2, <1>4, <2>2, <2>3, <2>4 DEF PacketSent
<1> QED BY <1>3, <1>4

\* sendHead sends the packet b at the head of outgoing.
Sends(s) ==
    s.outgoing # << >> /\ hasRoom(s.sent) /\ s.buf[Head(s.outgoing)].dataLen <= s.remoteWindow

\* The state only changes by the FIN that goes out.
StateMoved(s, t) == t.state = s.state \/ (s.state \in FinStates /\ t.state = AfterFin(s.state))

\* A packet that was sent leaves outgoing; s1 is the state in which it was sent.
HeadLeaves(s1, t, b) ==
    /\ t \in Sockets /\ SameInput(s1, t) /\ SameNumbers(s1, t) /\ t.oldestUnackedSeq = s1.oldestUnackedSeq
    /\ t.outgoing = Tail(s1.outgoing) /\ t.Pending_Outgoing = Counter(s1.Pending_Outgoing - 1)
    /\ t.replaced = s1.replaced
    /\ \A c \in Buffers \ {b} : t.buf[c] = s1.buf[c]
    /\ \/ /\ s1.buf[b].wasAckOnly /\ t.sent = s1.sent /\ t.Pending_Sent = s1.Pending_Sent
          /\ t.free = s1.free \cup ({b} \cap Pool)
          /\ t.buf[b] = IF b \in Pool THEN EmptyBuffer ELSE [s1.buf[b] EXCEPT !.attempts = @ + 1]
       \/ /\ ~s1.buf[b].wasAckOnly /\ t.sent = Append(s1.sent, b) /\ t.Pending_Sent = Counter(s1.Pending_Sent + 1)
          /\ t.free = s1.free /\ t.buf[b] = [s1.buf[b] EXCEPT !.attempts = @ + 1]

LEMMA AttemptCounted ==
  ASSUME NEW p \in BufferRecords
  PROVE  [p EXCEPT !.attempts = @ + 1] \in BufferRecords
<1>1. PICK n \in Nat : n = p.attempts + 1
  BY DEF BufferRecords
<1>2. [p EXCEPT !.attempts = n] \in BufferRecords
  BY DEF BufferRecords
<1>3. [p EXCEPT !.attempts = @ + 1] = [p EXCEPT !.attempts = n]
  BY <1>1
<1> QED BY <1>2, <1>3

\* One turn of the loop, with what becomes of the packet.
LEMMA SendHead ==
  ASSUME NEW s \in Sockets, NEW resolved \in BOOLEAN, Sends(s), NEW b, b = Head(s.outgoing),
         NEW s1, s1 = sendPacket(s, b, resolved), NEW t, t = sendHead(s, resolved)
  PROVE  /\ b \in Buffers /\ PacketSent(s, s1, b)
         /\ IF s1.buf[b].pendingArp THEN t = s1 ELSE HeadLeaves(s1, t, b)
<1>1. s.outgoing \in Seq(Buffers) /\ s.outgoing # << >>
  BY DEF Sockets, Sends
<1>2. b \in Buffers
  BY <1>1, HeadTailProperties
<1>3. PacketSent(s, s1, b)
  BY <1>2, SendPacket
<1>4. s1 \in Sockets /\ s1.outgoing = s.outgoing
  BY <1>3 DEF PacketSent, SameQueues
<1> DEFINE s2 == [s1 EXCEPT !.buf[b].attempts = @ + 1, !.outgoing = Tail(@), !.Pending_Outgoing = Counter(@ - 1)]
<1>5. t = CASE s1.buf[b].pendingArp -> s1
            [] ~s1.buf[b].pendingArp /\ s1.buf[b].wasAckOnly -> returnXmitBufs(s2, {b})
            [] OTHER -> [s2 EXCEPT !.sent = Append(@, b), !.Pending_Sent = Counter(@ + 1)]
  BY DEF sendHead, Sends
<1>6. CASE s1.buf[b].pendingArp
  BY <1>2, <1>3, <1>5, <1>6
<1>7. CASE ~s1.buf[b].pendingArp
  <2>1. PICK old \in [Buffers -> BufferRecords] : old = s1.buf
    BY <1>4 DEF Sockets
  <2>2. PICK p \in BufferRecords : p = [old[b] EXCEPT !.attempts = @ + 1]
    <3>1. old[b] \in BufferRecords
      BY <1>2
    <3> QED BY <3>1, AttemptCounted
  <2>3. PICK u \in [Buffers -> BufferRecords] : u = [old EXCEPT ![b] = p]
    OBVIOUS
  <2>4. PICK o \in Seq(Buffers) : o = Tail(s1.outgoing)
    BY <1>1, <1>4, HeadTailProperties
  <2>5. PICK n \in Int : n = Counter(s1.Pending_Outgoing - 1)
    <3>1. s1.Pending_Outgoing \in Int
      BY <1>4 DEF Sockets
    <3>2. s1.Pending_Outgoing - 1 \in Int
      BY <3>1
    <3> QED BY <3>2, Counters
  <2>6. s2 = [s1 EXCEPT !.buf = u, !.outgoing = o, !.Pending_Outgoing = n]
    BY <1>4, <2>1, <2>2, <2>3, <2>4, <2>5 DEF Sockets
  <2> HIDE DEF s2
  <2>7. /\ s2 \in Sockets /\ SameInput(s1, s2) /\ SameNumbers(s1, s2)
        /\ s2.oldestUnackedSeq = s1.oldestUnackedSeq /\ s2.sent = s1.sent /\ s2.free = s1.free
        /\ s2.Pending_Sent = s1.Pending_Sent /\ s2.replaced = s1.replaced
        /\ s2.buf = u /\ s2.outgoing = o /\ s2.Pending_Outgoing = n
    BY <1>4, <2>6 DEF Sockets, SameInput, SameNumbers
  <2>8. u[b] = p /\ \A c \in Buffers \ {b} : u[c] = s1.buf[c]
    BY <1>2, <2>1, <2>3
  <2>9. CASE s1.buf[b].wasAckOnly
    <3>1. t = returnXmitBufs(s2, {b}) /\ {b} \in SUBSET Buffers
      BY <1>2, <1>5, <1>7, <2>9
    <3>2. /\ t \in Sockets /\ SameInput(s2, t) /\ SameNumbers(s2, t)
          /\ t.oldestUnackedSeq = s2.oldestUnackedSeq
          /\ t.outgoing = s2.outgoing /\ t.sent = s2.sent
          /\ t.Pending_Outgoing = s2.Pending_Outgoing /\ t.replaced = s2.replaced /\ t.Pending_Sent = s2.Pending_Sent
          /\ t.free = s2.free \cup ({b} \cap Pool)
          /\ \A c \in Buffers : t.buf[c] = IF c \in {b} \cap Pool THEN EmptyBuffer ELSE s2.buf[c]
      BY <2>7, <3>1, Returned
    <3>3. /\ \A c \in Buffers \ {b} : t.buf[c] = s1.buf[c]
          /\ t.buf[b] = IF b \in Pool THEN EmptyBuffer ELSE [s1.buf[b] EXCEPT !.attempts = @ + 1]
      BY <1>2, <2>1, <2>2, <2>7, <2>8, <3>2, ZenonT(40)
    <3>4. SameInput(s1, t) /\ SameNumbers(s1, t)
      BY <2>7, <3>2 DEF SameInput, SameNumbers
    <3>5. HeadLeaves(s1, t, b)
      BY <2>4, <2>5, <2>7, <2>9, <3>2, <3>3, <3>4 DEF HeadLeaves
    <3> QED BY <1>2, <1>3, <1>7, <3>5
  <2>10. CASE ~s1.buf[b].wasAckOnly
    <3>1. t = [s2 EXCEPT !.sent = Append(@, b), !.Pending_Sent = Counter(@ + 1)]
      BY <1>5, <1>7, <2>10
    <3>2. s2.sent \in Seq(Buffers)
      BY <2>7 DEF Sockets
    <3>3. PICK q \in Seq(Buffers) : q = Append(s2.sent, b)
      BY <1>2, <3>2, AppendProperties
    <3>4. PICK m \in Int : m = Counter(s2.Pending_Sent + 1)
      <4>1. s2.Pending_Sent \in Int
        BY <2>7 DEF Sockets
      <4>2. s2.Pending_Sent + 1 \in Int
        BY <4>1
      <4> QED BY <4>2, Counters
    <3>5. t = [s2 EXCEPT !.sent = q, !.Pending_Sent = m]
      BY <2>7, <3>1, <3>3, <3>4 DEF Sockets
    <3>6. /\ t \in Sockets /\ SameInput(s2, t) /\ SameNumbers(s2, t)
          /\ t.oldestUnackedSeq = s2.oldestUnackedSeq /\ t.free = s2.free
          /\ t.outgoing = s2.outgoing /\ t.sent = q /\ t.buf = u
          /\ t.Pending_Outgoing = s2.Pending_Outgoing /\ t.replaced = s2.replaced /\ t.Pending_Sent = m
      BY <2>7, <3>5, ZenonT(40) DEF Sockets, SameInput, SameNumbers
    <3>7. SameInput(s1, t) /\ SameNumbers(s1, t)
      BY <2>7, <3>6 DEF SameInput, SameNumbers
    <3>8. t.sent = Append(s1.sent, b) /\ t.Pending_Sent = Counter(s1.Pending_Sent + 1) /\ t.free = s1.free
      BY <2>7, <3>3, <3>4, <3>6
    <3>9. t.buf[b] = [s1.buf[b] EXCEPT !.attempts = @ + 1] /\ \A c \in Buffers \ {b} : t.buf[c] = s1.buf[c]
      BY <2>1, <2>2, <2>8, <3>6
    <3>10. /\ t.outgoing = Tail(s1.outgoing) /\ t.Pending_Outgoing = Counter(s1.Pending_Outgoing - 1)
           /\ t.replaced = s1.replaced
           /\ t.oldestUnackedSeq = s1.oldestUnackedSeq
      BY <2>4, <2>5, <2>7, <3>6
    <3>11. HeadLeaves(s1, t, b)
      BY <2>10, <3>6, <3>7, <3>8, <3>9, <3>10 DEF HeadLeaves
    <3> QED BY <1>2, <1>3, <1>7, <3>11
  <2> QED BY <2>9, <2>10
<1> QED BY <1>6, <1>7

\* The states the loop of drivePackets2 goes through.
LoopStates(after, s, resolved, len) ==
    after = [n \in 0..len |-> IF n = 0 THEN s ELSE sendHead(after[n - 1], resolved)]

LEMMA LoopTurns ==
  ASSUME NEW s, NEW resolved, NEW len \in Nat, len = Len(s.outgoing)
  PROVE  \E after : LoopStates(after, s, resolved, len) /\ sendLoop(s, resolved) = after[len]
<1> DEFINE Step(n, before) == IF n = 0 THEN s ELSE sendHead(before, resolved)
           Runs(g, k) == g = [n \in 0..k |-> Step(n, g[n - 1])]
           T == {k \in Nat : \E g : Runs(g, k)}
<1>1. 0 \in T
  <2> DEFINE g == [n \in 0..0 |-> s]
  <2>1. g = [n \in 0..0 |-> Step(n, g[n - 1])]
    OBVIOUS
  <2> QED BY <2>1
<1>2. ASSUME NEW k \in T PROVE k + 1 \in T
  <2> HIDE DEF Step
  <2>1. PICK g : Runs(g, k)
    BY <1>2
  <2> DEFINE h == [n \in 0..(k + 1) |-> IF n = k + 1 THEN Step(k + 1, g[k]) ELSE g[n]]
  <2>2. ASSUME NEW n \in 0..(k + 1) PROVE h[n] = Step(n, h[n - 1])
    <3>1. CASE n = k + 1
      <4>1. h[n - 1] = g[k] /\ h[n] = Step(k + 1, g[k])
        BY <3>1
      <4> QED BY <3>1, <4>1
    <3>2. CASE n # k + 1
      <4>1. n \in 0..k /\ h[n] = g[n] /\ g[n] = Step(n, g[n - 1])
        BY <2>1, <3>2
      <4>2. n # 0 => h[n - 1] = g[n - 1]
        BY <4>1
      <4>3. n = 0 => \A x, y : Step(n, x) = Step(n, y)
        BY DEF Step
      <4> QED BY <4>1, <4>2, <4>3
    <3> QED BY <3>1, <3>2
  <2>3. h = [n \in 0..(k + 1) |-> h[n]]
    OBVIOUS
  <2>4. Runs(h, k + 1)
    <3> HIDE DEF h
    <3> QED BY <2>2, <2>3
  <2>5. k + 1 \in Nat /\ \E f : Runs(f, k + 1)
    <3> HIDE DEF Runs
    <3> QED BY <1>2, <2>4
  <2> QED BY <2>5
<1>3. T = Nat
  <2> HIDE DEF T
  <2>1. T \in SUBSET Nat
    BY DEF T
  <2> QED BY <1>1, <1>2, <2>1, SetInduction
<1>4. \E g : Runs(g, len)
  <2>1. len \in T
    BY <1>3
  <2> HIDE DEF Runs
  <2> QED BY <2>1
<1>5. Runs(CHOOSE g : Runs(g, len), len)
  <2> HIDE DEF Runs
  <2> QED BY <1>4
<1> QED BY <1>5 DEF sendLoop, LoopStates

\* What every turn preserves, the loop preserves.
LEMMA LoopInvariant ==
  ASSUME NEW s, NEW resolved, Len(s.outgoing) \in Nat, NEW T, s \in T,
         \A x \in T : sendHead(x, resolved) \in T
  PROVE  sendLoop(s, resolved) \in T
<1>1. PICK len \in Nat : len = Len(s.outgoing)
  OBVIOUS
<1>2. PICK after : LoopStates(after, s, resolved, len) /\ sendLoop(s, resolved) = after[len]
  BY <1>1, LoopTurns
<1> DEFINE N == {n \in Nat : n <= len => after[n] \in T}
<1>3. 0 \in N
  <2>1. after[0] = s
    BY <1>1, <1>2 DEF LoopStates
  <2> QED BY <2>1
<1>4. ASSUME NEW n \in N PROVE n + 1 \in N
  <2>1. SUFFICES ASSUME n + 1 <= len PROVE after[n + 1] \in T
    OBVIOUS
  <2>2. PICK m \in 0..len : m = n + 1 /\ m # 0 /\ m - 1 = n
    BY <1>1, <2>1
  <2>3. after[m] = sendHead(after[m - 1], resolved)
    BY <1>2, <2>2 DEF LoopStates
  <2>4. after[n] \in T
    BY <1>1, <2>1
  <2> QED BY <2>2, <2>3, <2>4
<1>5. N = Nat
  <2> HIDE DEF N
  <2>1. N \in SUBSET Nat
    BY DEF N
  <2> QED BY <1>3, <1>4, <2>1, SetInduction
<1>6. len \in N
  BY <1>1, <1>5
<1> QED BY <1>1, <1>2, <1>6

\* One packet, one turn.
LEMMA LoopOnce ==
  ASSUME NEW s, NEW resolved, Len(s.outgoing) \in Nat
  PROVE  Len(s.outgoing) = 1 => sendLoop(s, resolved) = sendHead(s, resolved)
<1>1. PICK len \in Nat : len = Len(s.outgoing)
  OBVIOUS
<1>2. PICK after : LoopStates(after, s, resolved, len) /\ sendLoop(s, resolved) = after[len]
  BY <1>1, LoopTurns
<1>3. SUFFICES ASSUME len = 1 PROVE sendLoop(s, resolved) = sendHead(s, resolved)
  BY <1>1
<1>4. \A n \in 0..len : after[n] = IF n = 0 THEN s ELSE sendHead(after[n - 1], resolved)
  BY <1>2 DEF LoopStates
<1>5. 0 \in 0..len /\ 1 \in 0..len /\ 1 - 1 = 0 /\ 1 # 0
  BY <1>3
<1>6. after[1] = sendHead(after[1 - 1], resolved) /\ after[0] = s
  BY <1>4, <1>5
<1> QED BY <1>2, <1>3, <1>5, <1>6

\* One turn keeps the places of the buffers.
LEMMA HeadClean ==
  ASSUME NEW away \in SUBSET Pool, NEW s, Clean(s, away), NEW resolved \in BOOLEAN, NEW t, t = sendHead(s, resolved)
  PROVE  Clean(t, away) /\ SameInput(s, t) /\ StateMoved(s, t)
<1>1. s \in Sockets
  BY DEF Clean
<1>2. CASE ~Sends(s)
  <2>1. t = s
    BY <1>2 DEF sendHead, Sends
  <2> QED BY <2>1 DEF SameInput, StateMoved
<1>3. CASE Sends(s)
  <2>1. PICK b : b = Head(s.outgoing)
    OBVIOUS
  <2>2. PICK s1 : s1 = sendPacket(s, b, resolved)
    OBVIOUS
  <2>3. /\ b \in Buffers /\ PacketSent(s, s1, b)
        /\ IF s1.buf[b].pendingArp THEN t = s1 ELSE HeadLeaves(s1, t, b)
    BY <1>1, <1>3, <2>1, <2>2, SendHead
  <2>4. /\ s1 \in Sockets /\ SameInput(s, s1) /\ SameQueues(s, s1) /\ StateMoved(s, s1)
    BY <2>3 DEF PacketSent, Retried, SentFirst, StateMoved, AddsFin
  <2>5. Clean(s1, away)
    <3>1. Early(s1.state, s1.replaced)
      BY <2>4 DEF Clean, SameQueues, StateMoved, FinStates, AfterFin, Early
    <3> QED BY <2>4, <3>1 DEF Clean, SameQueues, SameInput
  <2>6. CASE s1.buf[b].pendingArp
    BY <2>3, <2>4, <2>5, <2>6
  <2>7. CASE ~s1.buf[b].pendingArp
    <3>1. HeadLeaves(s1, t, b)
      BY <2>3, <2>7
    <3>2. PICK o \in Seq(Buffers) : o = s1.outgoing /\ o # << >> /\ b = Head(o)
      BY <1>3, <2>1, <2>4 DEF Sockets, Sends, SameQueues
    <3>3. PICK q \in Seq(Buffers) : q = s1.sent
      BY <2>4 DEF Sockets
    <3>4. Len(o) \in Nat /\ Len(o) # 0 /\ Len(Tail(o)) = Len(o) - 1 /\ Len(q) \in Nat
      BY <3>2, EmptySeq, HeadTailProperties
    <3>5. Owned(o, q, s1.free, away)
      BY <2>5, <3>2, <3>3 DEF Clean
    <3>6. Len(q) < TCP_SOCKET_RING_SIZE
      BY <1>3, <2>4, <3>3 DEF Sends, SameQueues, hasRoom
    <3>7. /\ Len(o) <= TCP_SOCKET_RING_SIZE /\ s1.Pending_Outgoing \in Int /\ s1.replaced \in Nat
          /\ Counted(s1.Pending_Outgoing, Len(o), s1.replaced)
          /\ s1.Pending_Sent = Len(q) /\ Len(s1.incoming) <= TCP_SOCKET_RING_SIZE
      BY <2>4, <2>5, <3>2, <3>3 DEF Clean, Sockets
    <3>8. /\ t \in Sockets /\ SameInput(s1, t) /\ t.state = s1.state /\ t.replaced = s1.replaced
          /\ t.outgoing = Tail(o) /\ t.Pending_Outgoing = Counter(s1.Pending_Outgoing - 1)
      BY <3>1, <3>2 DEF HeadLeaves, SameNumbers
    <3>9. /\ Len(t.outgoing) <= TCP_SOCKET_RING_SIZE
          /\ Counted(t.Pending_Outgoing, Len(t.outgoing), t.replaced)
          /\ Len(t.incoming) <= TCP_SOCKET_RING_SIZE
      <4>1. ASSUME t.replaced + TCP_SOCKET_RING_SIZE < CounterSize
            PROVE  t.Pending_Outgoing = Len(t.outgoing) + t.replaced
        <5>1. s1.Pending_Outgoing = Len(o) + s1.replaced
          BY <3>7, <3>8, <4>1 DEF Counted
        <5>2. PICK m \in Int : m = s1.Pending_Outgoing - 1
          BY <3>7
        <5>3. m = Len(t.outgoing) + t.replaced /\ 0 <= m /\ m < CounterSize
          BY <3>4, <3>7, <3>8, <4>1, <5>1, <5>2, BufferTypes, CounterAssumption, SMTT(30)
        <5>4. Counter(m) = m
          BY <5>3, Counters
        <5> QED BY <3>8, <5>2, <5>3, <5>4
      <4> QED BY <3>4, <3>7, <3>8, <4>1, BufferTypes DEF SameInput, Counted
    <3>10. /\ Len(t.sent) <= TCP_SOCKET_RING_SIZE /\ t.Pending_Sent = Len(t.sent)
           /\ Owned(t.outgoing, t.sent, t.free, away)
      <4>1. CASE s1.buf[b].wasAckOnly
        <5>1. t.sent = q /\ t.Pending_Sent = s1.Pending_Sent /\ t.free = s1.free \cup ({b} \cap Pool)
          BY <3>1, <3>3, <4>1 DEF HeadLeaves
        <5>2. Owned(Tail(o), q, s1.free \cup ({b} \cap Pool), away)
          BY <3>2, <3>5, OwnedDropped
        <5> QED BY <3>4, <3>6, <3>7, <3>8, <5>1, <5>2, BufferTypes
      <4>2. CASE ~s1.buf[b].wasAckOnly
        <5>1. t.sent = Append(q, b) /\ t.Pending_Sent = Counter(s1.Pending_Sent + 1) /\ t.free = s1.free
          BY <3>1, <3>3, <4>2 DEF HeadLeaves
        <5>2. Owned(Tail(o), Append(q, b), s1.free, away)
          BY <3>2, <3>5, OwnedSent
        <5>3. Len(Append(q, b)) = Len(q) + 1
          BY <2>3, AppendProperties
        <5>4. PICK m \in Int : m = Len(q) + 1 /\ 0 <= m /\ m < CounterSize
          BY <3>4, <3>6, BufferTypes, CounterAssumption
        <5>5. Counter(m) = m
          BY <5>4, Counters
        <5> QED BY <3>4, <3>6, <3>7, <3>8, <5>1, <5>2, <5>3, <5>4, <5>5, BufferTypes
      <4> QED BY <4>1, <4>2
    <3>11. Clean(t, away)
      BY <2>5, <3>8, <3>9, <3>10 DEF Clean
    <3> QED BY <2>4, <3>8, <3>11 DEF SameInput, StateMoved
  <2> QED BY <2>6, <2>7
<1> QED BY <1>2, <1>3

\* sendLoop
LEMMA LoopClean ==
  ASSUME NEW away \in SUBSET Pool, NEW s, Clean(s, away), NEW resolved \in BOOLEAN, NEW t, t = sendLoop(s, resolved)
  PROVE  Clean(t, away) /\ SameInput(s, t) /\ StateMoved(s, t)
<1> DEFINE T == {x \in Sockets : Clean(x, away) /\ SameInput(s, x) /\ StateMoved(s, x)}
<1>1. s \in T
  BY DEF Clean, SameInput, StateMoved
<1>2. ASSUME NEW x \in T PROVE sendHead(x, resolved) \in T
  <2>1. PICK y : y = sendHead(x, resolved)
    OBVIOUS
  <2>2. Clean(y, away) /\ SameInput(x, y) /\ StateMoved(x, y)
    BY <1>2, <2>1, HeadClean
  <2>3. SameInput(s, y) /\ StateMoved(s, y)
    BY <1>2, <2>2 DEF SameInput, StateMoved, FinStates, AfterFin
  <2> QED BY <2>1, <2>2, <2>3 DEF Clean
<1>3. Len(s.outgoing) \in Nat
  BY DEF Clean, Sockets
<1>4. t \in T
  <2> HIDE DEF T
  <2> QED BY <1>1, <1>2, <1>3, LoopInvariant
<1> QED BY <1>4

-----------------------------------------------------------------------------
(* What gives buffers back *)

QueuesCleared(s, t) ==
    /\ t \in Sockets /\ SameNumbers(s, t) /\ t.oldestUnackedSeq = s.oldestUnackedSeq
    /\ t.active = s.active /\ t.closeReason = s.closeReason /\ t.ackNum = s.ackNum
    /\ t.outgoing = << >> /\ t.sent = << >> /\ t.incoming = << >>
    /\ \A c \in Buffers \ Pool : t.buf[c] = s.buf[c]

LEMMA ClearQueues ==
  ASSUME NEW away \in SUBSET Pool, NEW s, Clean(s, away), NEW t, t = clearQueues(s)
  PROVE  Clean(t, away) /\ QueuesCleared(s, t)
<1>1. s \in Sockets
  BY DEF Clean
<1>2. PICK o \in Seq(Buffers), q \in Seq(Buffers) : o = s.outgoing /\ q = s.sent
  BY <1>1 DEF Sockets
<1>3. PICK n \in Int : n = Counter(s.Pending_Outgoing - Len(o)) /\ Counted(n, 0, s.replaced)
  <2>1. s.Pending_Outgoing \in Int /\ s.replaced \in Nat /\ Len(o) \in Nat
    BY <1>1, <1>2 DEF Sockets
  <2>2. PICK k \in Int : k = s.Pending_Outgoing - Len(o)
    BY <2>1
  <2>3. ASSUME s.replaced + TCP_SOCKET_RING_SIZE < CounterSize PROVE Counter(k) = s.replaced
    <3>1. s.Pending_Outgoing = Len(o) + s.replaced
      BY <1>2, <2>3 DEF Clean, Counted
    <3>2. k = s.replaced /\ 0 <= k /\ k < CounterSize
      BY <2>1, <2>2, <2>3, <3>1, BufferTypes, CounterAssumption
    <3> QED BY <3>2, Counters
  <2>4. PICK n \in Int : n = Counter(k)
    BY <2>2, Counters
  <2>5. Counted(n, 0, s.replaced)
    BY <2>1, <2>3, <2>4 DEF Counted
  <2> QED BY <2>2, <2>4, <2>5
<1>4. PICK m \in Int : m = Counter(s.Pending_Sent - Len(q)) /\ m = 0
  <2>1. s.Pending_Sent \in Int /\ Len(q) \in Nat
    BY <1>1, <1>2 DEF Sockets
  <2>2. s.Pending_Sent - Len(q) = 0
    BY <1>2, <2>1 DEF Clean
  <2> QED BY <2>2, Counters, BufferTypes, CounterAssumption
<1>5. << >> \in Seq(Buffers) /\ << >> \in Seq(PacketType) /\ Len(<< >>) = 0
  BY EmptySeq
<1>6. PICK s1 : s1 = [s EXCEPT !.outgoing = << >>, !.sent = << >>, !.incoming = << >>,
                               !.Pending_Outgoing = n, !.Pending_Sent = m]
  OBVIOUS
<1>7. /\ s1 \in Sockets /\ SameNumbers(s, s1) /\ s1.oldestUnackedSeq = s.oldestUnackedSeq
      /\ s1.active = s.active /\ s1.closeReason = s.closeReason /\ s1.ackNum = s.ackNum
      /\ s1.outgoing = << >> /\ s1.sent = << >> /\ s1.incoming = << >>
      /\ s1.Pending_Outgoing = n /\ s1.Pending_Sent = m /\ s1.replaced = s.replaced
      /\ s1.free = s.free /\ s1.buf = s.buf
  BY <1>1, <1>5, <1>6 DEF Sockets, SameNumbers
<1>8. PICK bs \in SUBSET Buffers : bs = Range(o) \cup Range(q)
  <2>1. \A j \in DOMAIN o : o[j] \in Buffers
    BY <1>2
  <2>2. \A j \in DOMAIN q : q[j] \in Buffers
    BY <1>2
  <2>3. Range(o) \cup Range(q) \in SUBSET Buffers
    BY <2>1, <2>2, Zenon DEF Range
  <2> QED BY <2>3
<1>9. t = returnXmitBufs(s1, bs)
  BY <1>1, <1>2, <1>3, <1>4, <1>6, <1>8 DEF clearQueues, Sockets
<1>10. /\ t \in Sockets /\ SameInput(s1, t) /\ SameNumbers(s1, t)
       /\ t.oldestUnackedSeq = s1.oldestUnackedSeq
       /\ t.outgoing = s1.outgoing /\ t.sent = s1.sent
       /\ t.Pending_Outgoing = s1.Pending_Outgoing /\ t.replaced = s1.replaced /\ t.Pending_Sent = s1.Pending_Sent
       /\ t.free = s1.free \cup (bs \cap Pool)
       /\ \A b \in Buffers : t.buf[b] = IF b \in bs \cap Pool THEN EmptyBuffer ELSE s1.buf[b]
  BY <1>7, <1>9, Returned
<1>11. Owned(<< >>, << >>, t.free, away)
  BY <1>2, <1>7, <1>8, <1>10, OwnedCleared DEF Clean
<1>12. Clean(t, away)
  BY <1>3, <1>4, <1>5, <1>7, <1>10, <1>11, BufferTypes DEF Clean, SameInput, SameNumbers
<1>13. QueuesCleared(s, t)
  BY <1>7, <1>10 DEF QueuesCleared, SameInput, SameNumbers
<1> QED BY <1>12, <1>13

\* destroy: the socket is closed, inactive, and has no packets.
Destroyed(s, t) ==
    /\ t.state = "CLOSED" /\ ~t.active
    /\ t.outgoing = << >> /\ t.sent = << >> /\ t.incoming = << >>
    /\ t.wire = s.wire /\ t.seqNum = s.seqNum

LEMMA Destroy ==
  ASSUME NEW away \in SUBSET Pool, NEW s, Clean(s, away), NEW reason \in 0..4, NEW t, t = destroy(s, reason)
  PROVE  Clean(t, away) /\ Destroyed(s, t)
<1>1. PICK s1 : s1 = clearQueues(s)
  OBVIOUS
<1>2. Clean(s1, away) /\ QueuesCleared(s, s1)
  BY <1>1, ClearQueues
<1>3. s1 \in Sockets /\ "CLOSED" \in States
  BY <1>2 DEF Clean, States
<1>4. t = [s1 EXCEPT !.state = "CLOSED", !.active = FALSE, !.closeReason = reason]
  BY <1>1 DEF destroy
<1>5. /\ t \in Sockets /\ t.state = "CLOSED" /\ ~t.active
      /\ t.outgoing = s1.outgoing /\ t.sent = s1.sent /\ t.incoming = s1.incoming
      /\ t.free = s1.free /\ t.wire = s1.wire /\ t.seqNum = s1.seqNum
      /\ t.Pending_Outgoing = s1.Pending_Outgoing /\ t.replaced = s1.replaced /\ t.Pending_Sent = s1.Pending_Sent
  BY <1>3, <1>4 DEF Sockets
<1>6. Clean(t, away)
  BY <1>2, <1>5 DEF Clean, Early
<1> QED BY <1>2, <1>5, <1>6 DEF Destroyed, QueuesCleared, SameNumbers

\* resendPacket: only the count of the attempts and the wire change.
Resent(s, t, b) ==
    /\ t \in Sockets /\ SameInput(s, t) /\ SameQueues(s, t) /\ t.state = s.state /\ t.seqNum = s.seqNum
    /\ t.buf[b] = [s.buf[b] EXCEPT !.attempts = @ + 1] /\ \A c \in Buffers \ {b} : t.buf[c] = s.buf[c]
    /\ t.wire = s.wire \cup Content(t.buf[b])

LEMMA ResendPacket ==
  ASSUME NEW s \in Sockets, NEW b \in Buffers, NEW t, t = resendPacket(s, b)
  PROVE  Resent(s, t, b)
<1>1. PICK old \in [Buffers -> BufferRecords] : old = s.buf
  BY DEF Sockets
<1>2. PICK p \in BufferRecords : p = [old[b] EXCEPT !.attempts = @ + 1]
  BY AttemptCounted
<1>3. PICK u \in [Buffers -> BufferRecords] : u = [old EXCEPT ![b] = p]
  OBVIOUS
<1>4. PICK s1 : s1 = [s EXCEPT !.buf[b].attempts = @ + 1]
  OBVIOUS
<1>5. s1 = [s EXCEPT !.buf = u]
  BY <1>1, <1>2, <1>3, <1>4 DEF Sockets
<1>6. /\ s1 \in Sockets /\ SameInput(s, s1) /\ SameNumbers(s, s1)
      /\ s1.oldestUnackedSeq = s.oldestUnackedSeq
      /\ s1.outgoing = s.outgoing /\ s1.sent = s.sent /\ s1.free = s.free /\ s1.buf = u
      /\ s1.Pending_Outgoing = s.Pending_Outgoing /\ s1.replaced = s.replaced /\ s1.Pending_Sent = s.Pending_Sent
  BY <1>5, BufferSet
<1>7. t = transmit(s1, b)
  BY <1>4 DEF resendPacket
<1>8. /\ t \in Sockets /\ SameInput(s1, t) /\ SameQueues(s1, t)
      /\ t.state = s1.state /\ t.seqNum = s1.seqNum /\ t.buf = s1.buf
      /\ t.wire = s1.wire \cup Content(s1.buf[b])
  BY <1>6, <1>7, Transmitted
<1>9. u[b] = [s.buf[b] EXCEPT !.attempts = @ + 1] /\ \A c \in Buffers \ {b} : u[c] = s.buf[c]
  BY <1>1, <1>2, <1>3
<1> QED BY <1>6, <1>8, <1>9 DEF Resent, SameInput, SameQueues, SameNumbers

\* drivePackets
LEMMA DrivePackets ==
  ASSUME NEW away \in SUBSET Pool, NEW s, Clean(s, away), NEW overdue \in BOOLEAN, NEW resolved \in BOOLEAN,
         NEW t, t = drivePackets(s, overdue, resolved)
  PROVE  Clean(t, away) /\ (Destroyed(s, t) \/ (SameInput(s, t) /\ StateMoved(s, t)))
<1>1. CASE t = s
  BY <1>1 DEF SameInput, StateMoved
<1>2. CASE t = destroy(s, 4)
  BY <1>2, Destroy
<1>3. CASE s.sent # << >> /\ t = resendPacket(s, Head(s.sent))
  <2>1. PICK b \in Buffers : b = Head(s.sent)
    <3>1. s.sent \in Seq(Buffers)
      BY DEF Clean, Sockets
    <3> QED BY <1>3, <3>1, HeadTailProperties
  <2>2. Resent(s, t, b)
    BY <1>3, <2>1, ResendPacket DEF Clean
  <2> QED BY <2>2 DEF Resent, Clean, SameQueues, SameInput, StateMoved
<1>4. CASE t = sendLoop(s, resolved)
  BY <1>4, LoopClean
<1> QED BY <1>1, <1>2, <1>3, <1>4 DEF drivePackets

\* removeSentPackets: the first k packets of sent are acknowledged and go.
SentRemoved(s, t, target, k) ==
    /\ t \in Sockets /\ SameInput(s, t) /\ SameNumbers(s, t) /\ t.outgoing = s.outgoing
    /\ \A i \in 1..k : Acked(s.buf[s.sent[i]], target, s.oldestUnackedSeq)
    /\ Len(t.sent) = Len(s.sent) - k /\ \A j \in 1..(Len(s.sent) - k) : t.sent[j] = s.sent[j + k]
    /\ \A b \in Buffers : t.buf[b] = IF b \in {s.sent[i] : i \in 1..k} \cap Pool THEN EmptyBuffer ELSE s.buf[b]

LEMMA RemoveSentPackets ==
  ASSUME NEW away \in SUBSET Pool, NEW s, Clean(s, away), NEW target, NEW t, t = removeSentPackets(s, target)
  PROVE  Clean(t, away) /\ \E k \in 0..Len(s.sent) : SentRemoved(s, t, target, k)
<1>1. s \in Sockets
  BY DEF Clean
<1>2. PICK q \in Seq(Buffers), n \in Nat : q = s.sent /\ n = Len(q) /\ DOMAIN q = 1..n
  BY <1>1, LenProperties DEF Sockets
<1>3. PICK G \in SUBSET (1..n) :
          G = {i \in DOMAIN q : \A j \in 1..i : Acked(s.buf[q[j]], target, s.oldestUnackedSeq)}
  BY <1>2
<1>4. PICK k \in 0..n : k = Cardinality(G) /\ G = 1..k
  <2>1. \A i \in G : \A j \in 1..i : j \in G
    BY <1>2, <1>3
  <2> QED BY <1>2, <2>1, FirstNumbers
<1>5. k \in Nat /\ k <= n
  BY <1>2, <1>4
<1>6. PICK rest : rest = SubSeq(q, k + 1, n)
  OBVIOUS
<1>7. PICK bs \in SUBSET Buffers : bs = {q[i] : i \in 1..k}
  <2>1. ASSUME NEW i \in 1..k PROVE q[i] \in Buffers
    <3>1. i \in DOMAIN q
      BY <1>2, <1>5
    <3> QED BY <3>1
  <2> QED BY <2>1
<1>8. /\ rest \in Seq(Buffers) /\ Len(rest) = n - k
      /\ \A j \in 1..(n - k) : rest[j] = q[j + k]
      /\ Owned(s.outgoing, rest, s.free \cup (bs \cap Pool), away)
  <2>1. s.outgoing \in Seq(Buffers) /\ Owned(s.outgoing, q, s.free, away)
    BY <1>1, <1>2 DEF Sockets, Clean
  <2>2. IsRest(rest, q, n, k) /\ Owned(s.outgoing, rest, s.free \cup (bs \cap Pool), away)
    <3>1. n = Len(q) /\ k \in Nat /\ k <= n
      BY <1>2, <1>5
    <3> QED BY <1>6, <1>7, <2>1, <3>1, OwnedAcked, Zenon
  <2> QED BY <2>2 DEF IsRest
<1>9. PICK m \in Int : m = Counter(s.Pending_Sent - k) /\ m = n - k
  <2>1. s.Pending_Sent = n /\ n <= TCP_SOCKET_RING_SIZE
    BY <1>2 DEF Clean
  <2>2. PICK j \in Int : j = n - k /\ 0 <= j /\ j < CounterSize
    BY <1>2, <1>5, <2>1, BufferTypes, CounterAssumption
  <2>3. Counter(j) = j
    BY <2>2, Counters
  <2> QED BY <2>1, <2>2, <2>3
<1>10. PICK oldest \in Int : oldest = IF rest = << >> THEN s.seqNum ELSE s.buf[Head(rest)].seq
  <2>1. rest # << >> => Head(rest) \in Buffers
    BY <1>8, HeadTailProperties
  <2> QED BY <1>1, <2>1 DEF Sockets, BufferRecords
<1>11. PICK s1 : s1 = [s EXCEPT !.sent = rest, !.Pending_Sent = m, !.oldestUnackedSeq = oldest]
  OBVIOUS
<1>12. /\ s1 \in Sockets /\ SameInput(s, s1) /\ SameNumbers(s, s1) /\ s1.outgoing = s.outgoing
       /\ s1.sent = rest /\ s1.Pending_Sent = m /\ s1.Pending_Outgoing = s.Pending_Outgoing /\ s1.replaced = s.replaced
       /\ s1.free = s.free /\ s1.buf = s.buf
  BY <1>1, <1>8, <1>11 DEF Sockets, SameInput, SameNumbers
<1>13. t = returnXmitBufs(s1, bs)
  <2>1. t = LET gone == {i \in DOMAIN s.sent : \A j \in 1..i : Acked(s.buf[s.sent[j]], target, s.oldestUnackedSeq)}
                c == Cardinality(gone)
                r == SubSeq(s.sent, c + 1, Len(s.sent))
            IN  returnXmitBufs([s EXCEPT !.sent = r, !.Pending_Sent = Counter(@ - c),
                                         !.oldestUnackedSeq = IF r = << >> THEN s.seqNum ELSE s.buf[Head(r)].seq],
                               {s.sent[i] : i \in gone})
    BY DEF removeSentPackets
  <2>2. t = returnXmitBufs([s EXCEPT !.sent = SubSeq(q, k + 1, n), !.Pending_Sent = Counter(@ - k),
                                     !.oldestUnackedSeq = IF SubSeq(q, k + 1, n) = << >> THEN s.seqNum
                                                          ELSE s.buf[Head(SubSeq(q, k + 1, n))].seq],
                           {q[i] : i \in G})
    BY <1>2, <1>3, <1>4, <2>1
  <2>3. [s EXCEPT !.sent = SubSeq(q, k + 1, n), !.Pending_Sent = Counter(@ - k),
                  !.oldestUnackedSeq = IF SubSeq(q, k + 1, n) = << >> THEN s.seqNum
                                       ELSE s.buf[Head(SubSeq(q, k + 1, n))].seq] = s1
    BY <1>1, <1>6, <1>9, <1>10, <1>11 DEF Sockets
  <2>4. {q[i] : i \in G} = bs
    BY <1>4, <1>7
  <2> QED BY <2>2, <2>3, <2>4
<1>14. /\ t \in Sockets /\ SameInput(s1, t) /\ SameNumbers(s1, t)
       /\ t.outgoing = s1.outgoing /\ t.sent = s1.sent
       /\ t.Pending_Outgoing = s1.Pending_Outgoing /\ t.replaced = s1.replaced /\ t.Pending_Sent = s1.Pending_Sent
       /\ t.free = s1.free \cup (bs \cap Pool)
       /\ \A b \in Buffers : t.buf[b] = IF b \in bs \cap Pool THEN EmptyBuffer ELSE s1.buf[b]
  BY <1>12, <1>13, Returned
<1>15. n <= TCP_SOCKET_RING_SIZE /\ n - k <= TCP_SOCKET_RING_SIZE
  BY <1>2, <1>5, BufferTypes DEF Clean
<1>16. Clean(t, away)
  BY <1>8, <1>9, <1>12, <1>14, <1>15, SMTT(30) DEF Clean, SameInput, SameNumbers
<1>17. SentRemoved(s, t, target, k)
  <2>1. \A i \in 1..k : Acked(s.buf[s.sent[i]], target, s.oldestUnackedSeq)
    <3>1. ASSUME NEW i \in 1..k PROVE Acked(s.buf[q[i]], target, s.oldestUnackedSeq)
      <4>1. i \in G
        BY <1>4
      <4>2. i \in 1..i
        OBVIOUS
      <4> QED BY <1>3, <4>1, <4>2
    <3> QED BY <1>2, <3>1
  <2>2. SameInput(s, t) /\ SameNumbers(s, t)
    BY <1>12, <1>14 DEF SameInput, SameNumbers
  <2>3. Len(t.sent) = Len(s.sent) - k /\ \A j \in 1..(Len(s.sent) - k) : t.sent[j] = s.sent[j + k]
    BY <1>2, <1>8, <1>12, <1>14
  <2>4. bs = {s.sent[i] : i \in 1..k}
    BY <1>2, <1>7
  <2> QED BY <1>12, <1>14, <2>1, <2>2, <2>3, <2>4 DEF SentRemoved
<1> QED BY <1>2, <1>4, <1>16, <1>17

-----------------------------------------------------------------------------
(* Receiving *)

SegmentType ==
    [syn : BOOLEAN, fin : BOOLEAN, rst : BOOLEAN, isAck : BOOLEAN, seq : Int, ack : Int,
     dataLen : 0..MaxSeg, window : Nat]

\* What a segment does while the SYN is out.
SynSentInput(s, t, seg) ==
    \/ Destroyed(s, t)
    \/ SameInput(s, t) /\ t.state = s.state
    \/ /\ seg.syn /\ seg.isAck /\ t.state = "ESTABLISHED" /\ t.ackNum = seg.seq + 1
       /\ t.incoming = s.incoming /\ t.active = s.active
    \/ /\ seg.syn /\ ~seg.isAck /\ t.state = "SYN_RECVED" /\ t.ackNum = seg.seq + 1
       /\ t.incoming = << >> /\ t.active = s.active

LEMMA ProcessSynSent ==
  ASSUME NEW away \in SUBSET Pool, NEW s, Clean(s, away), s.state = "SYN_SENT", NEW seg \in SegmentType,
         NEW t, t = processSynSent(s, seg)
  PROVE  Clean(t, away) /\ SynSentInput(s, t, seg)
<1>1. s \in Sockets /\ seg.seq \in Int /\ seg.window \in Nat /\ s.seqNum \in Int
  BY DEF Clean, Sockets, SegmentType
<1>2. PICK a \in Int, m \in Int : a = seg.seq + 1 /\ m = s.seqNum - 1
  BY <1>1
<1>3. "ESTABLISHED" \in States /\ "SYN_RECVED" \in States
  BY DEF States
<1>4. CASE seg.rst /\ AckCurrent(s, seg)
  <2>1. t = destroy(s, 1)
    BY <1>4 DEF processSynSent
  <2> QED BY <2>1, Destroy DEF SynSentInput
<1>5. CASE ~seg.rst /\ seg.syn /\ AckCurrent(s, seg)
  <2>1. PICK s1 : s1 = removeSentPackets(s, seg.ack)
    OBVIOUS
  <2>2. PICK k \in 0..Len(s.sent) : Clean(s1, away) /\ SentRemoved(s, s1, seg.ack, k)
    BY <2>1, RemoveSentPackets
  <2>3. PICK s2 : s2 = [s1 EXCEPT !.state = "ESTABLISHED", !.ackNum = a, !.remoteWindow = seg.window]
    OBVIOUS
  <2>4. s1 \in Sockets /\ SameInput(s, s1)
    BY <2>2 DEF SentRemoved
  <2>5. /\ s2 \in Sockets /\ SameQueues(s1, s2) /\ s2.incoming = s1.incoming /\ s2.active = s1.active
        /\ s2.state = "ESTABLISHED" /\ s2.ackNum = a
    BY <1>1, <1>2, <1>3, <2>3, <2>4 DEF Sockets, SameQueues
  <2>6. Clean(s2, away)
    BY <2>2, <2>5 DEF Clean, SameQueues, Early
  <2>7. t = enqueueOwn(s2)
    <3>1. s2 = [removeSentPackets(s, seg.ack) EXCEPT
                  !.state = "ESTABLISHED", !.ackNum = seg.seq + 1, !.remoteWindow = seg.window]
      BY <1>2, <2>1, <2>3
    <3>2. seg.isAck
      BY <1>5 DEF AckCurrent
    <3> QED BY <1>5, <3>1, <3>2 DEF processSynSent
  <2>8. Clean(t, away) /\ SameInput(s2, t) /\ SameNumbers(s2, t)
    BY <2>6, <2>7, EnqueueOwn
  <2>9. seg.isAck
    BY <1>5 DEF AckCurrent
  <2> QED BY <1>2, <1>5, <2>4, <2>5, <2>8, <2>9 DEF SynSentInput, SameInput, SameNumbers
<1>6. CASE ~seg.rst /\ seg.syn /\ ~seg.isAck
  <2>1. PICK s1 : s1 = [s EXCEPT !.state = "SYN_RECVED", !.ackNum = a, !.seqNum = m]
    OBVIOUS
  <2>2. s1 \in Sockets /\ SameQueues(s, s1) /\ s1.incoming = s.incoming /\ s1.state = "SYN_RECVED"
    BY <1>1, <1>2, <1>3, <2>1 DEF Sockets, SameQueues
  <2>3. Clean(s1, away)
    <3>1. Early(s1.state, s1.replaced)
      BY <2>2 DEF Clean, SameQueues, Early
    <3> QED BY <2>2, <3>1 DEF Clean, SameQueues
  <2>4. PICK s2 : s2 = clearQueues(s1)
    OBVIOUS
  <2>5. Clean(s2, away) /\ QueuesCleared(s1, s2)
    BY <2>3, <2>4, ClearQueues
  <2>6. ~AckCurrent(s, seg)
    BY <1>6 DEF AckCurrent
  <2>7. t = enqueueOwn(s2)
    <3>1. s1 = [s EXCEPT !.state = "SYN_RECVED", !.ackNum = seg.seq + 1, !.seqNum = @ - 1]
      BY <1>2, <2>1
    <3> QED BY <1>6, <2>4, <2>6, <3>1 DEF processSynSent
  <2>8. Clean(t, away) /\ SameInput(s2, t) /\ SameNumbers(s2, t)
    BY <2>5, <2>7, EnqueueOwn
  <2>9. s1.state = "SYN_RECVED" /\ s1.ackNum = seg.seq + 1 /\ s1.active = s.active
    BY <1>1, <1>2, <2>1 DEF Sockets
  <2>10. t.state = "SYN_RECVED" /\ t.ackNum = seg.seq + 1 /\ t.incoming = << >> /\ t.active = s.active
    BY <2>5, <2>8, <2>9 DEF QueuesCleared, SameInput, SameNumbers
  <2> QED BY <1>6, <2>8, <2>10 DEF SynSentInput
<1>7. CASE t = s
  BY <1>7 DEF SynSentInput, SameInput
<1> QED BY <1>4, <1>5, <1>6, <1>7 DEF processSynSent

\* What a segment with acceptable numbers does, once the SYN has been answered.
GoodInput(s, t, seg) ==
    /\ t.active = s.active
    /\ \/ /\ seg.dataLen # 0 /\ ~hasRoom(s.incoming)
          /\ t.state = s.state /\ t.ackNum = s.ackNum /\ t.incoming = s.incoming
       \/ /\ t.incoming = IF seg.dataLen # 0 THEN Append(s.incoming, InRing(seg)) ELSE s.incoming
          /\ t.ackNum = s.ackNum + seg.dataLen + (IF TakesFin(s, seg) THEN 1 ELSE 0)
          /\ t.state = NewState(s, seg)

\* The acknowledgement and the window of an acceptable segment.
Acknowledged(s, seg) ==
    LET s1 == IF s.sent # << >> THEN removeSentPackets(s, seg.ack) ELSE s
    IN  IF s1.sent = << >> THEN [s1 EXCEPT !.remoteWindow = seg.window] ELSE s1

LEMMA AcknowledgedClean ==
  ASSUME NEW away \in SUBSET Pool, NEW s, Clean(s, away), NEW seg \in SegmentType, NEW t, t = Acknowledged(s, seg)
  PROVE  /\ Clean(t, away) /\ SameInput(s, t) /\ t.state = s.state /\ t.seqNum = s.seqNum
         /\ t.outgoing = s.outgoing /\ t.wire = s.wire
<1>1. PICK s1 : s1 = IF s.sent # << >> THEN removeSentPackets(s, seg.ack) ELSE s
  OBVIOUS
<1>2. Clean(s1, away) /\ SameInput(s, s1) /\ SameNumbers(s, s1) /\ s1.outgoing = s.outgoing
  <2>1. CASE s.sent # << >>
    <3>1. s1 = removeSentPackets(s, seg.ack)
      BY <1>1, <2>1
    <3>2. PICK k \in 0..Len(s.sent) : Clean(s1, away) /\ SentRemoved(s, s1, seg.ack, k)
      BY <3>1, RemoveSentPackets
    <3> QED BY <3>2 DEF SentRemoved
  <2>2. CASE s.sent = << >>
    BY <1>1, <2>2 DEF SameInput, SameNumbers
  <2> QED BY <2>1, <2>2
<1>3. t = IF s1.sent = << >> THEN [s1 EXCEPT !.remoteWindow = seg.window] ELSE s1
  BY <1>1 DEF Acknowledged
<1>4. CASE s1.sent = << >>
  <2>1. s1 \in Sockets /\ seg.window \in Nat
    BY <1>2 DEF Clean, SegmentType
  <2>2. t = [s1 EXCEPT !.remoteWindow = seg.window]
    BY <1>3, <1>4
  <2>3. /\ t \in Sockets /\ SameQueues(s1, t) /\ SameInput(s1, t) /\ t.state = s1.state /\ t.seqNum = s1.seqNum
        /\ t.wire = s1.wire
    BY <2>1, <2>2 DEF Sockets, SameQueues, SameInput
  <2>4. Clean(t, away)
    BY <1>2, <2>3 DEF Clean, SameQueues, SameInput
  <2> QED BY <1>2, <2>3, <2>4 DEF SameInput, SameNumbers, SameQueues
<1>5. CASE s1.sent # << >>
  BY <1>2, <1>3, <1>5 DEF SameNumbers
<1> QED BY <1>4, <1>5

\* processPacketData, for a segment that carries data.
LEMMA ProcessPacketData ==
  ASSUME NEW away, NEW s, Clean(s, away), NEW seg \in SegmentType, seg.dataLen # 0, hasRoom(s.incoming),
         NEW t, t = processPacketData(s, seg).sock
  PROVE  /\ Clean(t, away) /\ t.active = s.active /\ t.state = s.state /\ t.seqNum = s.seqNum
         /\ t.outgoing = s.outgoing
         /\ t.incoming = Append(s.incoming, InRing(seg)) /\ t.ackNum = s.ackNum + seg.dataLen
<1>1. s \in Sockets /\ s.incoming \in Seq(PacketType) /\ s.ackNum \in Int /\ s.Pending_Outgoing \in Int
  BY DEF Clean, Sockets
<1>2. InRing(seg) \in PacketType
  <2>1. seg.seq \in Int /\ seg.dataLen \in 1..MaxSeg
    BY ModelAssumption DEF SegmentType
  <2> QED BY <2>1 DEF InRing, PacketType
<1>3. Append(s.incoming, InRing(seg)) \in Seq(PacketType) /\ Len(Append(s.incoming, InRing(seg))) = Len(s.incoming) + 1
  BY <1>1, <1>2, AppendProperties
<1>4. PICK q \in Seq(PacketType) : q = Append(s.incoming, InRing(seg)) /\ Len(q) <= TCP_SOCKET_RING_SIZE
  <2>1. Len(s.incoming) \in Nat
    BY <1>1
  <2>2. Len(s.incoming) + 1 <= TCP_SOCKET_RING_SIZE
    BY <2>1, BufferTypes DEF hasRoom
  <2> QED BY <1>3, <2>2
<1>5. PICK a \in Int : a = s.ackNum + seg.dataLen
  <2>1. seg.dataLen \in Int
    BY DEF SegmentType
  <2> QED BY <1>1, <2>1
<1>6. t = [s EXCEPT !.ackNum = a, !.incoming = q]
  BY <1>1, <1>4, <1>5 DEF processPacketData, Sockets
<1>7. /\ t \in Sockets /\ SameQueues(s, t) /\ t.active = s.active /\ t.state = s.state /\ t.seqNum = s.seqNum
      /\ t.incoming = q /\ t.ackNum = a
  BY <1>1, <1>6 DEF Sockets, SameQueues
<1>8. Clean(t, away)
  BY <1>4, <1>7 DEF Clean, SameQueues
<1> QED BY <1>4, <1>5, <1>7, <1>8 DEF SameQueues

\* processGood
LEMMA ProcessGood ==
  ASSUME NEW away \in SUBSET Pool, NEW s, Clean(s, away), NEW seg \in SegmentType, NEW t, t = processGood(s, seg)
  PROVE  Clean(t, away) /\ (s.state # "SYN_RECVED" \/ AckCurrent(s, seg) => GoodInput(s, t, seg))
<1>1. PICK s2 : s2 = Acknowledged(s, seg)
  OBVIOUS
<1>2. /\ Clean(s2, away) /\ SameInput(s, s2) /\ s2.state = s.state /\ s2.seqNum = s.seqNum
      /\ s2.outgoing = s.outgoing
  BY <1>1, AcknowledgedClean
<1> DEFINE s3 == IF seg.dataLen # 0 THEN processPacketData(s2, seg).sock ELSE s2
           ack == \/ seg.dataLen # 0 /\ s3.outgoing = << >>
                  \/ TakesFin(s3, seg) /\ s3.state # "SEND_FIN1"
           s4 == CASE s3.state = "SYN_RECVED" /\ ~AckCurrent(s3, seg) -> clearQueues(s3)
                   [] s3.state = "SYN_RECVED" /\ AckCurrent(s3, seg) ->
                         [s3 EXCEPT !.state = "ESTABLISHED", !.remoteWindow = seg.window]
                   [] OTHER -> [s3 EXCEPT !.state = NewState(s3, seg),
                                          !.ackNum = IF TakesFin(s3, seg) THEN @ + 1 ELSE @]
<1>3. t = CASE seg.dataLen # 0 /\ ~processPacketData(s2, seg).stored -> s2
            [] OTHER -> IF ack THEN enqueueOwn(s4) ELSE s4
  BY <1>1 DEF processGood, Acknowledged
<1>4. processPacketData(s2, seg).stored <=> hasRoom(s2.incoming)
  BY DEF processPacketData
<1>5. CASE seg.dataLen # 0 /\ ~hasRoom(s2.incoming)
  <2>1. t = s2
    BY <1>3, <1>4, <1>5
  <2> QED BY <1>2, <1>5, <2>1 DEF GoodInput, SameInput
<1>6. CASE ~(seg.dataLen # 0 /\ ~hasRoom(s2.incoming))
  <2>1. t = IF ack THEN enqueueOwn(s4) ELSE s4
    BY <1>3, <1>4, <1>6
  <2>2. seg.dataLen \in Int /\ s.ackNum \in Int
    BY DEF SegmentType, Clean, Sockets
  <2>3. /\ Clean(s3, away) /\ s3.active = s.active /\ s3.state = s.state /\ s3.seqNum = s.seqNum
        /\ s3.incoming = IF seg.dataLen # 0 THEN Append(s.incoming, InRing(seg)) ELSE s.incoming
        /\ s3.ackNum = s.ackNum + seg.dataLen
    <3>1. CASE seg.dataLen # 0
      <4>1. s3 = processPacketData(s2, seg).sock /\ hasRoom(s2.incoming)
        BY <1>6, <3>1
      <4> HIDE DEF s3
      <4> QED BY <1>2, <3>1, <4>1, ProcessPacketData DEF SameInput
    <3>2. CASE seg.dataLen = 0
      BY <1>2, <2>2, <3>2 DEF SameInput
    <3> QED BY <3>1, <3>2
  <2> HIDE DEF s3
  <2>4. s3 \in Sockets /\ seg.window \in Nat /\ "ESTABLISHED" \in States
    BY <2>3 DEF Clean, SegmentType, States
  <2>5. /\ Clean(s4, away)
        /\ s3.state # "SYN_RECVED" \/ AckCurrent(s3, seg) =>
              /\ s4.active = s3.active /\ s4.incoming = s3.incoming
              /\ s4.state = NewState(s3, seg)
              /\ s4.ackNum = IF TakesFin(s3, seg) THEN s3.ackNum + 1 ELSE s3.ackNum
    <3>1. CASE s3.state = "SYN_RECVED" /\ ~AckCurrent(s3, seg)
      <4>1. s4 = clearQueues(s3)
        BY <3>1
      <4> HIDE DEF s4
      <4> QED BY <2>3, <3>1, <4>1, ClearQueues
    <3>2. CASE s3.state = "SYN_RECVED" /\ AckCurrent(s3, seg)
      <4>1. s4 = [s3 EXCEPT !.state = "ESTABLISHED", !.remoteWindow = seg.window]
        BY <3>2
      <4> HIDE DEF s4
      <4>2. /\ s4 \in Sockets /\ SameQueues(s3, s4) /\ s4.incoming = s3.incoming
            /\ s4.active = s3.active /\ s4.state = "ESTABLISHED" /\ s4.ackNum = s3.ackNum
        BY <2>4, <4>1 DEF Sockets, SameQueues
      <4>3. Clean(s4, away)
        BY <2>3, <4>2 DEF Clean, SameQueues, Early
      <4>4. NewState(s3, seg) = "ESTABLISHED" /\ ~TakesFin(s3, seg)
        BY <3>2 DEF NewState, TakesFin
      <4> QED BY <4>2, <4>3, <4>4
    <3>3. CASE s3.state # "SYN_RECVED"
      <4>1. s4 = [s3 EXCEPT !.state = NewState(s3, seg), !.ackNum = IF TakesFin(s3, seg) THEN @ + 1 ELSE @]
        BY <3>3
      <4> HIDE DEF s4
      <4>2. PICK st \in States : st = NewState(s3, seg)
        BY <2>4 DEF Sockets, NewState, States
      <4>3. PICK a \in Int : a = IF TakesFin(s3, seg) THEN s3.ackNum + 1 ELSE s3.ackNum
        <5>1. s3.ackNum \in Int
          BY <2>4 DEF Sockets
        <5> QED BY <5>1
      <4>4. s4 = [s3 EXCEPT !.state = st, !.ackNum = a]
        BY <4>1, <4>2, <4>3
      <4>5. /\ s4 \in Sockets /\ SameQueues(s3, s4) /\ s4.incoming = s3.incoming /\ s4.active = s3.active
            /\ s4.state = st /\ s4.ackNum = a
        BY <2>4, <4>4 DEF Sockets, SameQueues
      <4>6. Clean(s4, away)
        <5>1. Early(s4.state, s4.replaced)
          BY <2>3, <4>2, <4>5 DEF Clean, SameQueues, NewState, Early
        <5> QED BY <2>3, <4>5, <5>1 DEF Clean, SameQueues
      <4> QED BY <4>2, <4>3, <4>5, <4>6
    <3> QED BY <3>1, <3>2, <3>3
  <2> HIDE DEF s4, ack
  <2>6. Clean(t, away) /\ SameInput(s4, t) /\ t.state = s4.state
    <3>1. CASE ack
      <4>1. t = enqueueOwn(s4)
        BY <2>1, <3>1
      <4> QED BY <2>5, <4>1, EnqueueOwn DEF SameNumbers
    <3>2. CASE ~ack
      <4>1. t = s4
        BY <2>1, <3>2
      <4> QED BY <2>5, <4>1 DEF SameInput
    <3> QED BY <3>1, <3>2
  <2>7. ASSUME s.state # "SYN_RECVED" \/ AckCurrent(s, seg) PROVE GoodInput(s, t, seg)
    <3>0. AckCurrent(s3, seg) <=> AckCurrent(s, seg)
      BY <2>3 DEF AckCurrent
    <3>1. TakesFin(s3, seg) <=> TakesFin(s, seg)
      BY <2>3 DEF TakesFin
    <3>2. NewState(s3, seg) = NewState(s, seg)
      BY <2>3, <3>0 DEF NewState
    <3>3. s3.ackNum \in Int
      BY <2>4 DEF Sockets
    <3>4. t.ackNum = s.ackNum + seg.dataLen + (IF TakesFin(s, seg) THEN 1 ELSE 0)
      BY <2>2, <2>3, <2>5, <2>6, <2>7, <3>0, <3>1, <3>3 DEF SameInput
    <3> QED BY <2>3, <2>5, <2>6, <2>7, <3>0, <3>2, <3>4 DEF GoodInput, SameInput
  <2> QED BY <2>6, <2>7
<1> QED BY <1>5, <1>6

\* process
Processed(s, t, seg) ==
    \/ Destroyed(s, t)
    \/ SameInput(s, t) /\ t.state = s.state
    \/ s.state = "SYN_SENT" /\ SynSentInput(s, t, seg)
    \/ s.state \notin {"SYN_SENT", "CLOSED", "TIME_WAIT"} /\ ~seg.rst /\ seg.isAck /\ SeqProper(s, seg)
         /\ (s.state # "SYN_RECVED" \/ AckCurrent(s, seg) => GoodInput(s, t, seg))

LEMMA Process ==
  ASSUME NEW away \in SUBSET Pool, NEW s, Clean(s, away), NEW seg \in SegmentType, NEW t, t = process(s, seg)
  PROVE  Clean(t, away) /\ Processed(s, t, seg)
<1>1. CASE t = s
  BY <1>1 DEF Processed, SameInput
<1>2. CASE s.state = "SYN_SENT" /\ t = processSynSent(s, seg)
  BY <1>2, ProcessSynSent DEF Processed
<1>3. CASE t = processReset(s, seg)
  <2>1. CASE SeqProper(s, seg)
    <3>1. t = destroy(s, 1)
      BY <1>3, <2>1 DEF processReset
    <3> QED BY <3>1, Destroy DEF Processed
  <2>2. CASE ~SeqProper(s, seg)
    BY <1>1, <1>3, <2>2 DEF processReset
  <2> QED BY <2>1, <2>2
<1>4. CASE /\ s.state \notin {"SYN_SENT", "CLOSED", "TIME_WAIT"} /\ ~seg.rst /\ AckProper(s, seg) /\ SeqProper(s, seg)
           /\ t = processGood(s, seg)
  BY <1>4, ProcessGood DEF Processed, AckProper
<1> QED BY <1>1, <1>2, <1>3, <1>4 DEF process

-----------------------------------------------------------------------------
(* Opening, closing, and a turn of a loop *)

LEMMA Connect2 ==
  ASSUME NEW away \in SUBSET Pool, NEW s, Clean(s, away), s.replaced = 0, NEW t, t = connect2(s)
  PROVE  /\ Clean(t, away) /\ t.state = "SYN_SENT" /\ t.active
         /\ t.ackNum = s.ackNum /\ t.incoming = s.incoming
<1>1. s \in Sockets /\ "SYN_SENT" \in States
  BY DEF Clean, States
<1>2. PICK s1 : s1 = [s EXCEPT !.state = "SYN_SENT", !.active = TRUE]
  OBVIOUS
<1>3. /\ s1 \in Sockets /\ SameQueues(s, s1) /\ s1.incoming = s.incoming /\ s1.ackNum = s.ackNum
      /\ s1.state = "SYN_SENT" /\ s1.active
  BY <1>1, <1>2 DEF Sockets, SameQueues
<1>4. Clean(s1, away)
  BY <1>3 DEF Clean, SameQueues, Early
<1>5. Clean(t, away) /\ SameInput(s1, t) /\ SameNumbers(s1, t)
  BY <1>2, <1>4, EnqueueOwn DEF connect2
<1> QED BY <1>3, <1>5 DEF SameInput, SameNumbers

\* closeLocal: the states of the FIN that is to be sent.
FinOf(state) == CASE state = "SYN_RECVED" -> "SEND_FIN3" [] state = "ESTABLISHED" -> "SEND_FIN1"
                  [] state = "CLOSE_WAIT" -> "SEND_FIN2"

LEMMA CloseLocal ==
  ASSUME NEW away \in SUBSET Pool, NEW s, Clean(s, away), NEW t, t = closeLocal(s)
  PROVE  /\ Clean(t, away) /\ SameInput(s, t)
         /\ \/ t.state = s.state
            \/ t.state = "CLOSED" /\ s.state \in {"TIME_WAIT", "SYN_SENT"}
            \/ s.state \in {"SYN_RECVED", "ESTABLISHED", "CLOSE_WAIT"} /\ t.state = FinOf(s.state)
<1>1. s \in Sockets /\ "CLOSED" \in States
  BY DEF Clean, States
<1>2. CASE s.state \in {"SYN_RECVED", "ESTABLISHED", "CLOSE_WAIT"}
  <2>1. PICK st \in States : st = FinOf(s.state)
    BY <1>2 DEF FinOf, States
  <2>2. PICK s1 : s1 = [s EXCEPT !.state = st]
    OBVIOUS
  <2>3. s1 \in Sockets /\ SameQueues(s, s1) /\ SameInput(s, s1) /\ s1.state = st
    BY <1>1, <2>2 DEF Sockets, SameQueues, SameInput
  <2>4. Clean(s1, away)
    BY <1>2, <2>1, <2>3 DEF Clean, SameQueues, SameInput, FinOf, Early
  <2>5. t = IF s1.outgoing = << >> THEN enqueueOwn(s1) ELSE s1
    BY <1>2, <2>1, <2>2 DEF closeLocal, FinOf
  <2>6. Clean(t, away) /\ SameInput(s1, t) /\ t.state = s1.state
    <3>1. CASE s1.outgoing = << >>
      <4>1. t = enqueueOwn(s1)
        BY <2>5, <3>1
      <4> QED BY <2>4, <4>1, EnqueueOwn DEF SameNumbers
    <3>2. CASE s1.outgoing # << >>
      <4>1. t = s1
        BY <2>5, <3>2
      <4> QED BY <2>4, <4>1 DEF SameInput
    <3> QED BY <3>1, <3>2
  <2> QED BY <1>2, <2>1, <2>3, <2>6 DEF SameInput
<1>3. CASE s.state \in {"CLOSED", "TIME_WAIT", "SYN_SENT"}
  <2>1. t = [s EXCEPT !.state = "CLOSED"]
    BY <1>3 DEF closeLocal
  <2>2. t \in Sockets /\ SameQueues(s, t) /\ SameInput(s, t) /\ t.state = "CLOSED"
    BY <1>1, <2>1 DEF Sockets, SameQueues, SameInput
  <2> QED BY <1>3, <2>2 DEF Clean, SameQueues, SameInput, Early
<1>4. CASE s.state \notin {"SYN_RECVED", "ESTABLISHED", "CLOSE_WAIT", "CLOSED", "TIME_WAIT", "SYN_SENT"}
  <2>1. t = s
    BY <1>4 DEF closeLocal
  <2> QED BY <2>1 DEF SameInput
<1> QED BY <1>2, <1>3, <1>4

LEMMA CloseDone ==
  ASSUME NEW away \in SUBSET Pool, NEW s, Clean(s, away), NEW t, t = isCloseDone(s, TRUE)
  PROVE  Clean(t, away) /\ Destroyed(s, t)
<1>1. t = destroy(s, 0) \/ t = destroy(s, 2)
  BY DEF isCloseDone
<1>2. 0 \in 0..4 /\ 2 \in 0..4
  OBVIOUS
<1>3. CASE t = destroy(s, 0)
  BY <1>2, <1>3, Destroy
<1>4. CASE t = destroy(s, 2)
  BY <1>2, <1>4, Destroy
<1> QED BY <1>1, <1>3, <1>4

\* The server.
PeerType ==
    /\ peer \in [rcv : Nat, got : Seq(Int), next : Nat, fin : BOOLEAN, firstAck : Seq(Nat)]
    /\ peer.next # 0

LEMMA ArrivingTyped ==
  ASSUME PeerType
  PROVE  Arriving \in SUBSET SegmentType
<1>1. peer.rcv \in Nat /\ peer.next \in Nat /\ peer.fin \in BOOLEAN
  BY DEF PeerType
<1>2. Windows \subseteq Nat /\ MaxSeg \in Nat
  BY ModelAssumption
<1>3. PICK after \in Nat : after = IF peer.fin THEN peer.next + 1 ELSE peer.next
  BY <1>1
<1>4. ASSUME NEW g, NEW syn \in BOOLEAN, NEW fin \in BOOLEAN, NEW rst \in BOOLEAN, NEW isAck \in BOOLEAN,
             NEW seqs \in SUBSET Int, NEW acks \in SUBSET Int, NEW lens \in SUBSET (0..MaxSeg),
             g \in Segments(syn, fin, rst, isAck, seqs, acks, lens)
      PROVE  g \in SegmentType
  BY <1>2, <1>4 DEF Segments, SegmentType
<1>5. /\ {0} \in SUBSET Int /\ {1} \in SUBSET Int /\ {0} \in SUBSET (0..MaxSeg) /\ 0..MaxSeg \in SUBSET (0..MaxSeg)
      /\ 1..after \in SUBSET Int /\ 1..peer.rcv \in SUBSET Int /\ 1..peer.next \in SUBSET Int
      /\ {peer.rcv} \in SUBSET Int
  BY <1>1, <1>2, <1>3
<1>6. ASSUME NEW g \in Arriving
      PROVE  \/ g \in Segments(TRUE, FALSE, FALSE, FALSE, {0}, {0}, {0})
             \/ g \in Segments(TRUE, FALSE, FALSE, TRUE, {0}, {1}, {0})
             \/ g \in Segments(FALSE, FALSE, TRUE, TRUE, {0}, {1}, {0})
             \/ g \in Segments(FALSE, FALSE, FALSE, TRUE, 1..after, 1..peer.rcv, 0..MaxSeg)
             \/ g \in Segments(FALSE, TRUE, FALSE, TRUE, 1..peer.next, 1..peer.rcv, 0..MaxSeg)
             \/ g \in Segments(FALSE, FALSE, TRUE, TRUE, 1..after, {peer.rcv}, {0})
  BY <1>3, <1>6 DEF Arriving, ArrivingOpen
<1>7. TRUE \in BOOLEAN /\ FALSE \in BOOLEAN
  OBVIOUS
<1> QED BY <1>4, <1>5, <1>6, <1>7

\* A turn: perhaps a segment, then the queues.
Turned(s, t, s1) ==
    /\ s1 = s \/ \E seg \in Arriving : Processed(s, s1, seg)
    /\ Destroyed(s1, t) \/ (SameInput(s1, t) /\ StateMoved(s1, t))

\* A turn in its two parts.
TurnParts(s, t, s1) ==
    /\ \E overdue \in BOOLEAN : \E resolved \in BOOLEAN : t = drivePackets(s1, overdue, resolved)
    /\ s1 = s \/ \E seg \in Arriving : s1 = process(s, seg)

LEMMA TurnSplit ==
  ASSUME NEW s, NEW t \in Turns(s)
  PROVE  \E s1 : TurnParts(s, t, s1)
<1> DEFINE received == {s} \cup {process(s, seg) : seg \in Arriving}
<1>0. t \in {drivePackets(s1, overdue, resolved) : s1 \in received, overdue \in BOOLEAN, resolved \in BOOLEAN}
  BY DEF Turns
<1> HIDE DEF received
<1>1. PICK s1 \in received : \E overdue \in BOOLEAN : \E resolved \in BOOLEAN :
          t = drivePackets(s1, overdue, resolved)
  BY <1>0, SMT
<1>2. s1 = s \/ \E seg \in Arriving : s1 = process(s, seg)
  BY <1>1, Zenon DEF received
<1> QED BY <1>1, <1>2, Zenon DEF TurnParts

LEMMA TurnClean ==
  ASSUME PeerType, NEW away \in SUBSET Pool, NEW s, Clean(s, away), NEW t \in Turns(s)
  PROVE  Clean(t, away) /\ \E s1 : Turned(s, t, s1)
<1>1. PICK s1 : /\ \E overdue \in BOOLEAN : \E resolved \in BOOLEAN : t = drivePackets(s1, overdue, resolved)
                /\ s1 = s \/ \E seg \in Arriving : s1 = process(s, seg)
  BY TurnSplit DEF TurnParts
<1>2. Clean(s1, away) /\ (s1 = s \/ \E seg \in Arriving : Processed(s, s1, seg))
  <2>1. CASE s1 = s
    BY <2>1
  <2>2. ASSUME NEW seg \in Arriving, s1 = process(s, seg) PROVE Clean(s1, away) /\ Processed(s, s1, seg)
    BY <2>2, ArrivingTyped, Process
  <2> QED BY <1>1, <2>1, <2>2
<1>3. Clean(t, away) /\ (Destroyed(s1, t) \/ (SameInput(s1, t) /\ StateMoved(s1, t)))
  BY <1>1, <1>2, DrivePackets
<1> QED BY <1>2, <1>3 DEF Turned

\* A buffer is taken from the pool.
LEMMA TakenClean ==
  ASSUME NEW away \in SUBSET Pool, NEW s, Clean(s, away), NEW b \in s.free, NEW t, t = [s EXCEPT !.free = @ \ {b}]
  PROVE  Clean(t, away \cup {b}) /\ SameInput(s, t) /\ SameNumbers(s, t) /\ b \in Pool /\ b \notin away
<1>1. s \in Sockets /\ b \in Pool
  BY DEF Clean, Sockets
<1>2. PICK f \in SUBSET Pool : f = s.free \ {b}
  BY <1>1 DEF Sockets
<1>3. t = [s EXCEPT !.free = f]
  BY <1>1, <1>2 DEF Sockets
<1>4. /\ t \in Sockets /\ SameInput(s, t) /\ SameNumbers(s, t) /\ t.free = f
      /\ t.outgoing = s.outgoing /\ t.sent = s.sent
      /\ t.Pending_Outgoing = s.Pending_Outgoing /\ t.replaced = s.replaced /\ t.Pending_Sent = s.Pending_Sent
  BY <1>1, <1>3 DEF Sockets, SameInput, SameNumbers
<1>5. Owned(s.outgoing, s.sent, s.free, away)
  BY DEF Clean
<1>6. Owned(s.outgoing, s.sent, f, away \cup {b}) /\ b \notin away
  BY <1>2, <1>5 DEF Owned
<1>7. Clean(t, away \cup {b})
  BY <1>4, <1>6, SMTT(30) DEF Clean, SameInput
<1> QED BY <1>1, <1>4, <1>6, <1>7

-----------------------------------------------------------------------------
(* The bot's buffers *)

\* getXmitBuf
LEMMA GetBuffer ==
  ASSUME NEW away \in SUBSET Pool, NEW s, Clean(s, away), getXmitBuf(s)
  PROVE  /\ Clean(sock', away \cup ({sendBuffer'} \cap Pool))
         /\ sendBuffer' \in Pool \cup {NULL} /\ sendBuffer' \notin away
         /\ SameInput(s, sock') /\ SameNumbers(s, sock')
<1>1. NULL \notin Pool
  BY ModelAssumption DEF Buffers
<1>2. CASE s.free = {} /\ sendBuffer' = NULL /\ sock' = s
  <2>1. away \cup ({sendBuffer'} \cap Pool) = away
    BY <1>1, <1>2
  <2> QED BY <1>1, <1>2, <2>1 DEF SameInput, SameNumbers
<1>3. ASSUME NEW b \in s.free, sendBuffer' = b, sock' = [s EXCEPT !.free = @ \ {b}]
      PROVE  /\ Clean(sock', away \cup ({sendBuffer'} \cap Pool))
             /\ sendBuffer' \in Pool \cup {NULL} /\ sendBuffer' \notin away
             /\ SameInput(s, sock') /\ SameNumbers(s, sock')
  <2>1. PICK t : t = sock'
    OBVIOUS
  <2>2. t = [s EXCEPT !.free = @ \ {b}]
    BY <1>3, <2>1
  <2>3. Clean(t, away \cup {b}) /\ SameInput(s, t) /\ SameNumbers(s, t) /\ b \in Pool /\ b \notin away
    BY <2>2, TakenClean
  <2>4. {sendBuffer'} \cap Pool = {b}
    BY <1>3, <2>3
  <2> QED BY <1>3, <2>1, <2>3, <2>4
<1> QED BY <1>2, <1>3 DEF getXmitBuf

\* The message is written into the bot's buffer.
IsFilled(s, t, b) ==
    /\ SameInput(s, t) /\ SameNumbers(s, t) /\ t.outgoing = s.outgoing
    /\ t.sent = s.sent /\ t.oldestUnackedSeq = s.oldestUnackedSeq
    /\ t.buf[b] = [s.buf[b] EXCEPT !.dataLen = 1, !.data = Len(accepted) + 1]
    /\ \A c \in Buffers \ {b} : t.buf[c] = s.buf[c]

LEMMA FilledClean ==
  ASSUME accepted \in Seq(Nat), NEW away \in SUBSET Pool, NEW s, Clean(s, away), NEW b \in away,
         NEW t, t = Filled(s, b)
  PROVE  Clean(t, away) /\ IsFilled(s, t, b)
<1>1. s \in Sockets /\ b \in Buffers
  BY BufferTypes DEF Clean
<1>2. PICK old \in [Buffers -> BufferRecords] : old = s.buf
  BY <1>1 DEF Sockets
<1>3. PICK m \in Nat : m = Len(accepted) + 1
  BY LenProperties
<1>4. PICK r \in BufferRecords : r = [old[b] EXCEPT !.dataLen = 1, !.data = m]
  BY <1>1 DEF BufferRecords
<1>5. PICK u \in [Buffers -> BufferRecords] : u = [old EXCEPT ![b] = r]
  OBVIOUS
<1>6. t = [s EXCEPT !.buf = u]
  BY <1>1, <1>2, <1>3, <1>4, <1>5 DEF Filled, Sockets
<1>7. /\ t \in Sockets /\ SameInput(s, t) /\ SameNumbers(s, t)
      /\ t.oldestUnackedSeq = s.oldestUnackedSeq
      /\ t.outgoing = s.outgoing /\ t.sent = s.sent /\ t.free = s.free /\ t.buf = u
      /\ t.Pending_Outgoing = s.Pending_Outgoing /\ t.replaced = s.replaced /\ t.Pending_Sent = s.Pending_Sent
  BY <1>1, <1>6, BufferSet
<1>8. Clean(t, away)
  BY <1>7 DEF Clean, SameInput, SameNumbers
<1>9. t.buf[b] = [s.buf[b] EXCEPT !.dataLen = 1, !.data = Len(accepted) + 1]
  BY <1>1, <1>2, <1>3, <1>4, <1>5, <1>7
<1>10. \A c \in Buffers \ {b} : t.buf[c] = s.buf[c]
  BY <1>2, <1>5, <1>7
<1> QED BY <1>7, <1>8, <1>9, <1>10 DEF IsFilled

\* enqueue takes the bot's buffer, and it is no longer the bot's.
LEMMA EnqueuedClean ==
  ASSUME accepted \in Seq(Nat), NEW away \in SUBSET Pool, NEW s, Clean(s, away), NEW b \in away,
         enqueueGood(Filled(s, b), b), NEW t, t = enqueue(Filled(s, b), b)
  PROVE  Clean(t, away \ {b}) /\ SameInput(s, t) /\ SameNumbers(s, t)
<1>1. PICK f : f = Filled(s, b)
  OBVIOUS
<1>2. Clean(f, away) /\ SameInput(s, f) /\ SameNumbers(s, f)
  BY <1>1, FilledClean DEF IsFilled
<1>3. t = enqueueAccepted(f, b) /\ (hasRoom(f.outgoing) \/ PiggybacksOnAck(f))
  BY <1>1 DEF enqueue, enqueueGood
<1>4. b \in Buffers /\ Enqueues(away, b)
  BY BufferTypes DEF Enqueues
<1>5. Enqueued(f, t, b, away)
  BY <1>2, <1>3, <1>4, EnqueueAccepted
<1> QED BY <1>2, <1>3, <1>5 DEF Enqueued, SameInput, SameNumbers

\* The buffer b may have been written to.
Unqueued(s, t, b) ==
    /\ SameInput(s, t) /\ SameNumbers(s, t) /\ t.outgoing = s.outgoing /\ t.sent = s.sent
    /\ \A c \in Buffers \ {b} : t.buf[c] = s.buf[c]

\* enqueue refuses the bot's buffer: the socket keeps nothing of it.
LEMMA RefusedClean ==
  ASSUME accepted \in Seq(Nat), NEW away \in SUBSET Pool, NEW s, Clean(s, away), NEW b \in away,
         NEW t, t = IF enqueueGood(s, b) THEN s ELSE enqueue(Filled(s, b), b)
  PROVE  Clean(t, away) /\ Unqueued(s, t, b)
<1>1. CASE enqueueGood(s, b)
  BY <1>1 DEF SameInput, SameNumbers, Unqueued
<1>2. CASE ~enqueueGood(s, b)
  <2>1. PICK f : f = Filled(s, b)
    OBVIOUS
  <2>2. /\ Clean(f, away) /\ SameInput(s, f) /\ SameNumbers(s, f) /\ f.outgoing = s.outgoing
        /\ f.sent = s.sent /\ \A c \in Buffers \ {b} : f.buf[c] = s.buf[c]
    <3>1. Clean(f, away) /\ IsFilled(s, f, b)
      BY <2>1, FilledClean
    <3> QED BY <3>1 DEF IsFilled
  <2>3. t = enqueue(f, b)
    BY <1>2, <2>1
  <2>4. CASE Refuses(f, b)
    BY <2>2, <2>3, <2>4 DEF enqueue, Unqueued
  <2>5. CASE ~Refuses(f, b)
    <3>1. ~Refuses(s, b)
      BY <2>2, <2>5 DEF Refuses, SameNumbers
    <3>2. ~hasRoom(s.outgoing) /\ ~PiggybacksOnAck(s)
      BY <1>2, <3>1 DEF enqueueGood
    <3>3. ~PiggybacksOnAck(f)
      <4> SUFFICES ASSUME PiggybacksOnAck(f) PROVE FALSE
        OBVIOUS
      <4>1. s.outgoing \in Seq(Buffers) /\ Len(s.outgoing) = 1 /\ s.state = "ESTABLISHED"
        BY <2>2 DEF Clean, Sockets, PiggybacksOnAck, SameNumbers
      <4>2. 1 \in DOMAIN s.outgoing /\ Head(s.outgoing) = s.outgoing[1] /\ Head(s.outgoing) \in Buffers
        BY <4>1, EmptySeq, HeadTailProperties
      <4>3. Head(s.outgoing) # b
        BY <4>2 DEF Clean, Owned
      <4> QED BY <2>2, <3>2, <4>1, <4>2, <4>3 DEF PiggybacksOnAck
    <3>4. b \in Buffers /\ Enqueues(away, b) /\ t = enqueueAccepted(f, b)
      BY <2>3, <2>5, BufferTypes DEF Enqueues, enqueue
    <3>5. Enqueued(f, t, b, away)
      BY <2>2, <3>4, EnqueueAccepted
    <3>6. \A c \in Buffers \ {b} : t.buf[c] = s.buf[c]
      BY <2>2, <3>3, <3>5 DEF Enqueued, Unless
    <3>7. f.outgoing = s.outgoing /\ hasRoom(f.outgoing) = hasRoom(s.outgoing)
      BY <2>2
    <3> QED BY <2>2, <3>2, <3>3, <3>5, <3>6, <3>7 DEF Enqueued, SameInput, SameNumbers, Unqueued
  <2> QED BY <2>4, <2>5
<1> QED BY <1>1, <1>2

-----------------------------------------------------------------------------
(* The buffers and counters of the whole connection *)

AppStates == {"init", "work", "quit", "start", "connecting", "recv", "close", "closing", "done", "wild"}

\* The transmit buffers that are not with the socket.
Away == leaked \cup ({sendBuffer} \cap Pool)

\* The inductive invariant.  Before the connection is made the bot has no buffer,
\* so that the first one it takes does not replace another.
IInv ==
    /\ app \in AppStates /\ accepted \in Seq(Nat) /\ PeerType
    /\ sendBuffer \in Pool \cup {NULL} /\ leaked \in SUBSET Pool /\ sendBuffer \notin leaked
    /\ app \in {"start", "connecting"} => sendBuffer = NULL
    /\ app = "start" => sock.replaced = 0
    /\ Clean(sock, Away)

LEMMA InitIInv ==
  ASSUME Init
  PROVE  IInv
<1>1. PICK e \in Seq(Buffers) : e = << >> /\ Len(e) = 0 /\ DOMAIN e = {}
  <2>1. DOMAIN << >> = {}
    OBVIOUS
  <2>2. << >> \in Seq(Buffers) /\ Len(<< >>) = 0
    BY EmptySeq
  <2> QED BY <2>1, <2>2, Zenon
<1>2. << >> \in Seq(PacketType) /\ << >> \in Seq(Nat) /\ << >> \in Seq(Int) /\ <<1>> \in Seq(Nat)
  BY EmptySeq
<1>3. PICK u \in [Buffers -> BufferRecords] : u = [b \in Buffers |-> EmptyBuffer]
  BY BufferTypes
<1>4. "CLOSED" \in States /\ NULL \notin Pool
  BY ModelAssumption DEF States, Buffers
<1>5. /\ sock \in Sockets /\ sock.outgoing = e /\ sock.sent = e /\ sock.incoming = << >>
      /\ sock.free = Pool /\ sock.Pending_Sent = 0 /\ sock.Pending_Outgoing = 0
      /\ sock.replaced = 0
  BY <1>1, <1>2, <1>3, <1>4 DEF Init, reinit, Sockets
<1>6. Away = {} /\ sendBuffer = NULL /\ leaked = {} /\ app = "start" /\ accepted = << >>
  BY <1>4 DEF Init, Away
<1>7. Owned(e, e, Pool, {})
  BY <1>1, Zenon DEF Owned, Distinct
<1>8. Clean(sock, {})
  BY <1>1, <1>5, <1>7, BufferTypes DEF Clean, Counted, Early
<1>9. PeerType
  BY <1>2 DEF Init, PeerType
<1> QED BY <1>2, <1>5, <1>6, <1>8, <1>9 DEF IInv, AppStates

\* The server's steps.
LEMMA PeerStep ==
  ASSUME IInv, PeerNext
  PROVE  /\ PeerType' /\ UNCHANGED botVars
         /\ \/ peer'.fin = peer.fin /\ peer'.next = peer.next
            \/ ~peer.fin
<1>1. PICK n \in Nat, g \in Seq(Int), a \in Seq(Nat), x \in Nat :
          n = peer.rcv /\ g = peer.got /\ a = peer.firstAck /\ x = peer.next /\ x # 0
  BY DEF IInv, PeerType
<1>2. peer \in [rcv : Nat, got : Seq(Int), next : Nat, fin : BOOLEAN, firstAck : Seq(Nat)]
  BY DEF IInv, PeerType
<1>3. PICK n1 \in Nat, x1 \in Nat : n1 = n + 1 /\ x1 = x + 1 /\ x1 # 0
  OBVIOUS
<1>4. PICK a1 \in Seq(Nat) : a1 = Append(a, n)
  BY AppendProperties
<1>5. CASE PeerReceive
  <2>1. PICK u \in sock.wire :
            peer' = [peer EXCEPT !.rcv = @ + 1, !.got = IF u[2] = SYN THEN @ ELSE Append(@, u[2])]
    BY <1>5 DEF PeerReceive
  <2>2. u[2] \in Int
    BY <2>1 DEF IInv, Clean, Sockets
  <2>3. Append(g, u[2]) \in Seq(Int)
    BY <2>2, AppendProperties
  <2>4. PICK g1 \in Seq(Int) : g1 = IF u[2] = SYN THEN g ELSE Append(g, u[2])
    BY <2>3
  <2>5. peer' = [peer EXCEPT !.rcv = n1, !.got = g1]
    BY <1>1, <1>2, <1>3, <2>1, <2>4
  <2> QED BY <1>1, <1>2, <1>5, <2>5 DEF PeerReceive, PeerType
<1>6. CASE PeerWrite
  <2>1. peer' = [peer EXCEPT !.next = x1, !.firstAck = a1]
    BY <1>1, <1>2, <1>3, <1>4, <1>6 DEF PeerWrite
  <2> QED BY <1>2, <1>3, <1>6, <2>1 DEF PeerWrite, PeerType
<1>7. CASE PeerClose
  <2>1. peer' = [peer EXCEPT !.fin = TRUE, !.firstAck = a1]
    BY <1>1, <1>2, <1>4, <1>7 DEF PeerClose
  <2> QED BY <1>1, <1>2, <1>7, <2>1 DEF PeerClose, PeerType
<1> QED BY <1>5, <1>6, <1>7 DEF PeerNext

\* A turn of a loop that leaves the bot's buffers alone.
LEMMA TurnKeeps ==
  ASSUME IInv, sock' \in Turns(sock), UNCHANGED <<sendBuffer, leaked, accepted, peer>>, app' \in AppStates,
         app' # "start", app' = "connecting" => app = "connecting"
  PROVE  IInv'
<1>1. Away \in SUBSET Pool
  BY DEF IInv, Away
<1>2. PICK t \in Turns(sock) : t = sock'
  OBVIOUS
<1>3. Clean(t, Away)
  BY <1>1, TurnClean DEF IInv
<1> QED BY <1>2, <1>3 DEF IInv, Away, PeerType

\* Every step of the bot and of the server keeps the inductive invariant.
LEMMA StepIInv ==
  ASSUME IInv, [Next]_vars
  PROVE  IInv'
<1>1. Away \in SUBSET Pool /\ Clean(sock, Away) /\ NULL \notin Pool /\ accepted \in Seq(Nat)
  BY ModelAssumption DEF IInv, Away, Buffers
<1>2. CASE UNCHANGED vars
  BY <1>2 DEF vars, IInv, Away, PeerType
<1>3. CASE PeerNext
  BY <1>3, PeerStep DEF botVars, IInv, Away
<1>4. CASE connect
  <2>1. PICK t : t = sock' /\ t = connect2(sock)
    BY <1>4 DEF connect
  <2>2. Clean(t, Away)
    BY <1>1, <1>4, <2>1, Connect2 DEF connect, IInv
  <2> QED BY <1>4, <2>1, <2>2 DEF connect, IInv, Away, PeerType, AppStates
<1>5. CASE connected
  <2>1. PICK s \in Turns(sock) : getXmitBuf(s)
    BY <1>5 DEF connected
  <2>2. Clean(s, Away) /\ Away = leaked
    BY <1>1, <1>5, TurnClean DEF connected, IInv, Away
  <2>3. /\ Clean(sock', leaked \cup ({sendBuffer'} \cap Pool))
        /\ sendBuffer' \in Pool \cup {NULL} /\ sendBuffer' \notin leaked
    BY <1>1, <2>1, <2>2, GetBuffer
  <2> QED BY <1>5, <2>3 DEF connected, IInv, Away, PeerType, AppStates
<1>6. CASE connectLoop
  BY <1>6, TurnKeeps DEF connectLoop, AppStates
<1>7. CASE sendNewBuffer
  <2>1. /\ app \in DOMAIN afterSend /\ app' = afterSend[app] /\ sendBuffer \in Pool
        /\ accepted' = Append(accepted, Len(accepted) + 1) /\ UNCHANGED <<leaked, peer>>
    BY <1>7 DEF sendNewBuffer, IInv
  <2>2. app' \in AppStates /\ app' \notin {"start", "connecting"}
    BY <2>1 DEF afterSend, AppStates
  <2>3. accepted' \in Seq(Nat)
    <3>1. Len(accepted) + 1 \in Nat
      BY <1>1, LenProperties
    <3> QED BY <1>1, <2>1, <3>1, AppendProperties
  <2>4. PICK s1 : s1 = enqueue(Filled(sock, sendBuffer), sendBuffer)
    OBVIOUS
  <2>5. Clean(s1, Away \ {sendBuffer}) /\ Away \ {sendBuffer} = leaked /\ leaked \in SUBSET Pool
    <3>1. sendBuffer \in Away /\ Away \ {sendBuffer} = leaked /\ leaked \in SUBSET Pool
      BY <2>1 DEF Away, IInv
    <3>2. enqueueGood(Filled(sock, sendBuffer), sendBuffer)
      BY <1>7 DEF sendNewBuffer
    <3> QED BY <1>1, <2>4, <3>1, <3>2, EnqueuedClean
  <2>6. PICK s2 : \/ s2 = s1 /\ sendBuffer' = NULL /\ sock' \in Turns(s2)
                  \/ \E b \in s1.free : sendBuffer' = b /\ s2 = [s1 EXCEPT !.free = @ \ {b}] /\ sock' \in Turns(s2)
    BY <1>7, <2>4 DEF sendNewBuffer
  <2>7. /\ Clean(s2, leaked \cup ({sendBuffer'} \cap Pool))
        /\ sendBuffer' \in Pool \cup {NULL} /\ sendBuffer' \notin leaked
    <3>1. CASE s2 = s1 /\ sendBuffer' = NULL
      <4>1. leaked \cup ({sendBuffer'} \cap Pool) = leaked
        BY <1>1, <3>1
      <4> QED BY <1>1, <2>5, <3>1, <4>1
    <3>2. ASSUME NEW b \in s1.free, sendBuffer' = b, s2 = [s1 EXCEPT !.free = @ \ {b}]
          PROVE  /\ Clean(s2, leaked \cup ({sendBuffer'} \cap Pool))
                 /\ sendBuffer' \in Pool \cup {NULL} /\ sendBuffer' \notin leaked
      <4>1. Clean(s2, leaked \cup {b}) /\ b \in Pool /\ b \notin leaked
        BY <2>5, <3>2, TakenClean
      <4>2. {sendBuffer'} \cap Pool = {b}
        BY <3>2, <4>1
      <4> QED BY <3>2, <4>1, <4>2
    <3> QED BY <2>6, <3>1, <3>2
  <2>8. Clean(sock', leaked \cup ({sendBuffer'} \cap Pool))
    <3>1. PICK t \in Turns(s2), w \in SUBSET Pool : t = sock' /\ w = leaked \cup ({sendBuffer'} \cap Pool)
      BY <2>5, <2>6
    <3>2. Clean(t, w)
      BY <2>7, <3>1, TurnClean DEF IInv
    <3> QED BY <3>1, <3>2
  <2> QED BY <2>1, <2>2, <2>3, <2>5, <2>7, <2>8 DEF IInv, Away, PeerType
<1>8. CASE sendNewBufferFails
  <2>1. /\ sendBuffer \in Pool /\ app' = "close" /\ leaked' = leaked \cup {sendBuffer}
        /\ UNCHANGED <<accepted, peer>>
    BY <1>8 DEF sendNewBufferFails, IInv
  <2>2. PICK s : /\ s = IF enqueueGood(sock, sendBuffer) THEN sock ELSE enqueue(Filled(sock, sendBuffer), sendBuffer)
                 /\ getXmitBuf(s)
    BY <1>8 DEF sendNewBufferFails
  <2>3. sendBuffer \in Away /\ Away = leaked'
    BY <2>1 DEF Away
  <2>4. Clean(s, Away)
    BY <1>1, <2>2, <2>3, RefusedClean
  <2>5. /\ Clean(sock', Away \cup ({sendBuffer'} \cap Pool))
        /\ sendBuffer' \in Pool \cup {NULL} /\ sendBuffer' \notin Away
    BY <1>1, <2>2, <2>4, GetBuffer
  <2> QED BY <1>1, <2>1, <2>3, <2>5 DEF IInv, Away, PeerType, AppStates
<1>9. CASE cannotSend \/ sendWithoutBuffer \/ packetDone
  BY <1>9 DEF cannotSend, sendWithoutBuffer, packetDone, IInv, Away, PeerType, AppStates
<1>10. CASE recvNewPacket
  <2>1. sock.incoming \in Seq(PacketType) /\ sock.incoming # << >> /\ sock \in Sockets
    BY <1>1, <1>10 DEF Clean, Sockets, recvNewPacket
  <2>2. PICK q \in Seq(PacketType) : q = Tail(sock.incoming) /\ Len(q) = Len(sock.incoming) - 1
    BY <2>1, HeadTailProperties
  <2>3. PICK t : t = sock' /\ t = [sock EXCEPT !.incoming = q]
    BY <1>10, <2>2 DEF recvNewPacket
  <2>4. t \in Sockets /\ SameQueues(sock, t) /\ t.incoming = q /\ t.state = sock.state
    BY <2>1, <2>3 DEF Sockets, SameQueues
  <2>5. Len(q) <= TCP_SOCKET_RING_SIZE
    <3>1. Len(sock.incoming) \in Nat /\ Len(sock.incoming) <= TCP_SOCKET_RING_SIZE
      BY <1>1, <2>1 DEF Clean
    <3> QED BY <2>2, <3>1, BufferTypes
  <2>6. Clean(t, Away)
    BY <1>1, <2>4, <2>5 DEF Clean, SameQueues
  <2> QED BY <1>10, <2>3, <2>6 DEF recvNewPacket, IInv, Away, PeerType, AppStates
<1>11. CASE recvLoop
  <2>1. app' \in {"close", "recv", "quit"}
    BY <1>11 DEF recvLoop
  <2> QED BY <1>11, <2>1, TurnKeeps DEF recvLoop, AppStates
<1>12. CASE close
  <2>1. PICK t : t = sock' /\ t = closeLocal(sock)
    BY <1>12 DEF close
  <2>2. Clean(t, Away)
    BY <1>1, <2>1, CloseLocal
  <2> QED BY <1>12, <2>1, <2>2 DEF close, IInv, Away, PeerType, AppStates
<1>13. CASE closeLoop
  BY <1>13, TurnKeeps DEF closeLoop, AppStates, IInv
<1>14. CASE closeDone
  <2>1. PICK t : t = sock' /\ t = isCloseDone(sock, TRUE)
    BY <1>14 DEF closeDone
  <2>2. Clean(t, Away)
    BY <1>1, <2>1, CloseDone
  <2> QED BY <1>14, <2>1, <2>2 DEF closeDone, IInv, Away, PeerType, AppStates
<1> QED BY <1>2, <1>3, <1>4, <1>5, <1>6, <1>7, <1>8, <1>9, <1>10, <1>11, <1>12, <1>13, <1>14
        DEF Next, BotNext

LEMMA Invariant ==
  Spec => []IInv
<1>1. Init => IInv
  BY InitIInv
<1>2. IInv /\ [Next]_vars => IInv'
  BY StepIInv
<1> QED BY <1>1, <1>2, PTL DEF Spec

\* No step of the connection, whatever the server and the network do, takes a
\* field of the socket out of its range or overfills one of its rings
\* (TCP_SOCKET_RING_SIZE entries each).
THEOREM SocketTyped ==
  Spec => []TypeOK
<1>1. IInv => TypeOK
  <2> SUFFICES ASSUME IInv PROVE TypeOK
    OBVIOUS
  <2>1. sock \in Sockets /\ Clean(sock, Away)
    BY DEF IInv, Clean
  <2>2. /\ sock.state \in States /\ sock.active \in BOOLEAN /\ sock.closeReason \in 0..4
        /\ {sock.seqNum, sock.oldestUnackedSeq, sock.ackNum} \subseteq Int /\ sock.remoteWindow \in Nat
        /\ sock.outgoing \in Seq(Buffers) /\ sock.sent \in Seq(Buffers) /\ sock.incoming \in Seq(PacketType)
        /\ sock.free \subseteq Pool
    BY <2>1 DEF Sockets
  <2>3. DOMAIN afterSend = {"init", "work", "quit"}
    BY DEF afterSend
  <2> QED BY <2>1, <2>2, <2>3 DEF IInv, TypeOK, Clean, AppStates
<1> QED BY <1>1, Invariant, PTL

\* Pending_Sent is the length of the sent queue; and Pending_Outgoing, although it
\* wraps and counts every ACK that was replaced, is at least the length of the
\* outgoing one, for every number of replaced ACKs that leaves room for the queue
\* below the counter's size.  Until then drivePackets never passes over a socket
\* that has something to send or to repeat.
THEOREM CountersAreEnough ==
  Spec => []CountersCover
<1>1. IInv => CountersCover
  <2> SUFFICES ASSUME IInv PROVE CountersCover
    OBVIOUS
  <2>1. /\ sock.Pending_Sent = Len(sock.sent) /\ Len(sock.outgoing) \in Nat /\ sock.replaced \in Nat
        /\ Counted(sock.Pending_Outgoing, Len(sock.outgoing), sock.replaced)
    BY DEF IInv, Clean, Sockets
  <2> QED BY <2>1 DEF CountersCover, Counted
<1> QED BY <1>1, Invariant, PTL

\* Every transmit buffer of the pool is in exactly one place: enqueue, sending,
\* acknowledgement, retransmission and destroy lose none and return none twice.
THEOREM BufferIsInOnePlace ==
  Spec => []BufferInOnePlace
<1>1. IInv => BufferInOnePlace
  <2> SUFFICES ASSUME IInv, NEW b \in Pool PROVE Cardinality(Places(b)) = 1
    BY DEF BufferInOnePlace
  <2>1. PICK o \in Seq(Buffers), q \in Seq(Buffers), f \in SUBSET Pool :
            o = sock.outgoing /\ q = sock.sent /\ f = sock.free /\ Owned(o, q, f, Away)
    BY DEF IInv, Clean, Sockets
  <2>2. b \in Away <=> (b = sendBuffer \/ b \in leaked)
    BY DEF Away
  <2>3. Places(b) = {<<"outgoing", i>> : i \in {j \in DOMAIN o : o[j] = b}}
                      \cup {<<"sent", i>> : i \in {j \in DOMAIN q : q[j] = b}}
                      \cup {<<"pool", 0>> : x \in {b} \cap f}
                      \cup {<<"sendBuffer", 0>> : x \in {b} \cap {sendBuffer}}
                      \cup {<<"leaked", 0>> : x \in {b} \cap leaked}
    BY <2>1 DEF Places
  <2>4. \E p : Places(b) = {p}
    <3>1. CASE b \in f
      <4>1. /\ b \notin Away /\ \A j \in DOMAIN o : o[j] # b
            /\ \A j \in DOMAIN q : q[j] # b
        BY <2>1, <3>1 DEF Owned
      <4>2. Places(b) = {<<"pool", 0>>}
        BY <2>2, <2>3, <3>1, <4>1
      <4> QED BY <4>2
    <3>2. CASE b \in Away
      <4>1. /\ b \notin f /\ \A j \in DOMAIN o : o[j] # b
            /\ \A j \in DOMAIN q : q[j] # b
        BY <2>1, <3>2 DEF Owned
      <4>2. CASE b = sendBuffer
        <5>1. b \notin leaked
          BY <4>2 DEF IInv
        <5>2. Places(b) = {<<"sendBuffer", 0>>}
          BY <2>3, <4>1, <4>2, <5>1
        <5> QED BY <5>2
      <4>3. CASE b # sendBuffer
        <5>1. Places(b) = {<<"leaked", 0>>}
          BY <2>2, <2>3, <3>2, <4>1, <4>3
        <5> QED BY <5>1
      <4> QED BY <4>2, <4>3
    <3>3. ASSUME NEW k \in DOMAIN o, o[k] = b PROVE \E p : Places(b) = {p}
      <4>1. /\ b \notin f /\ b \notin Away /\ \A j \in DOMAIN o : o[j] = b => j = k
            /\ \A j \in DOMAIN q : q[j] # b
        BY <2>1, <3>3 DEF Owned, Distinct
      <4>2. {j \in DOMAIN o : o[j] = b} = {k} /\ {j \in DOMAIN q : q[j] = b} = {}
        BY <3>3, <4>1
      <4>3. Places(b) = {<<"outgoing", k>>}
        BY <2>2, <2>3, <4>1, <4>2
      <4> QED BY <4>3
    <3>4. ASSUME NEW k \in DOMAIN q, q[k] = b PROVE \E p : Places(b) = {p}
      <4>1. /\ b \notin f /\ b \notin Away /\ \A j \in DOMAIN q : q[j] = b => j = k
            /\ \A j \in DOMAIN o : o[j] # b
        BY <2>1, <3>4 DEF Owned, Distinct
      <4>2. {j \in DOMAIN q : q[j] = b} = {k} /\ {j \in DOMAIN o : o[j] = b} = {}
        BY <3>4, <4>1
      <4>3. Places(b) = {<<"sent", k>>}
        BY <2>2, <2>3, <4>1, <4>2
      <4> QED BY <4>3
    <3> QED BY <2>1, <3>1, <3>2, <3>3, <3>4 DEF Owned
  <2> QED BY <2>4, FS_Singleton
<1> QED BY <1>1, Invariant, PTL

-----------------------------------------------------------------------------
(* What the socket sends. *)

\* What may be on the wire, by its number: the bot's SYN has the number b, the
\* message m the number b + m, and the FIN, once the socket is closing, the next.
Allowed(b, n, cl) ==
    {<<b, SYN>>} \cup {<<b + m, m>> : m \in 1..n} \cup (IF cl THEN {<<b + n + 1, FIN>>} ELSE {})

Queued(q, c) == \E j \in DOMAIN q : q[j] = c

\* The packets whose header is kept: those that were sent, and one that waits for
\* ARP at the head of outgoing.
Live(out, sent, buf, c) ==
    Queued(sent, c) \/ \E j \in DOMAIN out : j = 1 /\ out[j] = c /\ buf[c].pendingArp

\* A header that goes out again still says what may be said.
HeadersSound(out, sent, buf, next, b, n, cl) ==
    /\ buf[connectPacket].dataLen = 0
    /\ \A c \in Buffers : Live(out, sent, buf, c) =>
          Content(buf[c]) \subseteq Allowed(b, n, cl) /\ buf[c].seqNum < next
    /\ \A j \in DOMAIN out : buf[out[j]].pendingArp => out[j] = out[1]

\* The messages wait in outgoing in their order, from the next number on.
MessagesSound(out, sent, buf, next, n) ==
    /\ \A c \in Pool : Queued(sent, c) \/ Queued(out, c) => buf[c].dataLen = 1 /\ buf[c].data \in 1..n
    /\ \A c \in Pool : Live(out, sent, buf, c) => buf[c].data <= buf[c].seqNum
    /\ \A j \in DOMAIN out : out[j] \in Pool =>
          /\ ~buf[out[j]].wasAckOnly
          /\ ~buf[out[j]].pendingArp => buf[out[j]].data >= next
    /\ \A j, k \in DOMAIN out : j < k /\ out[j] \in Pool /\ out[k] \in Pool =>
          buf[out[j]].data < buf[out[k]].data

\* None is missing: what was not sent is in outgoing, and what the server has not
\* received (it waits for rcv) is in one of the queues.
AllHeld(out, sent, buf, next, n, rcv) ==
    /\ \A m \in 1..n : m >= next => \E c \in Pool : Queued(out, c) /\ buf[c].data = m
    /\ \A m \in 1..n : m < rcv \/ \E c \in Pool : (Queued(sent, c) \/ Queued(out, c)) /\ buf[c].data = m

Sound(out, sent, buf, next, b, n, cl, rcv) ==
    /\ HeadersSound(out, sent, buf, next, b, n, cl)
    /\ MessagesSound(out, sent, buf, next, n)
    /\ AllHeld(out, sent, buf, next, n, rcv)

\* The SYN has to be sent, and it has been prepared or sent.
Unsent(s) == s.outgoing = <<connectPacket>> /\ ~s.buf[connectPacket].pendingArp /\ s.sent = << >>
Parked(s) == s.outgoing = << >> \/ (s.outgoing = <<connectPacket>> /\ s.buf[connectPacket].pendingArp)

FinSent == {"FIN_WAIT_1", "FIN_WAIT_2", "CLOSING", "LAST_ACK", "TIME_WAIT", "CLOSED"}

\* The next number, by the state: of the SYN or behind it, of a message or the FIN,
\* or behind the FIN.
Opening(s, b, n, cl, rcv) ==
    /\ SynState(s) /\ ~cl /\ n = 0 /\ (s.state = "SYN_SENT" => b = 0)
    /\ \/ s.seqNum = b /\ Unsent(s) /\ (s.state = "SYN_SENT" => s.wire = {} /\ rcv = 0)
       \/ s.seqNum = b + 1 /\ Parked(s)
Transfer(s, b, n, cl) ==
    /\ s.state \in {"ESTABLISHED", "CLOSE_WAIT"} \cup FinStates
    /\ b + 1 <= s.seqNum /\ s.seqNum <= b + n + 1
    /\ s.state \in FinStates => cl
    /\ s.state \in {"ESTABLISHED", "CLOSE_WAIT"} => b = 0
Ended(s, b, n, cl) == s.state \in FinSent /\ cl /\ s.seqNum = b + n + 2
\* Closed before the SYN was answered: its packet may still be sent, now empty, or
\* be sent again.
Aborted(s, n, cl) == s.state = "CLOSED" /\ cl /\ n = 0
Phase(s, b, n, cl, rcv) ==
    Opening(s, b, n, cl, rcv) \/ Transfer(s, b, n, cl) \/ Ended(s, b, n, cl) \/ Aborted(s, n, cl)

Sender(s, b, n, cl, rcv) ==
    /\ Sound(s.outgoing, s.sent, s.buf, s.seqNum, b, n, cl, rcv)
    /\ s.wire \subseteq Allowed(b, n, cl)
    /\ Phase(s, b, n, cl, rcv)

\* Between two turns the answer to a SYN has been sent.
Settled(s, b) == s.state = "SYN_RECVED" => s.seqNum = b + 1

\* What the server has received: the first messages, and perhaps the FIN.
ServerGot(p, b, n, cl) ==
    /\ IF b = 0 THEN (p.rcv = 0 /\ p.got = << >>) \/ p.rcv = Len(p.got) + 1
                ELSE p.rcv = Len(p.got)
    /\ \A i \in DOMAIN p.got : (p.got[i] = i /\ i <= n) \/ (cl /\ p.got[i] = FIN /\ i = n + 1)

\* The connection of the socket s with the server p, when n messages have been
\* accepted; cl is whether the bot has closed it.  The SYN has the number 0, or -1
\* if one of the server came first.
Connection(s, p, b, n, cl) ==
    /\ b \in {0, -1} /\ (b = 0 \/ n = 0)
    /\ ServerGot(p, b, n, cl)
    /\ s.wire \subseteq Allowed(b, n, cl)
    /\ s.active => Sender(s, b, n, cl, p.rcv) /\ Settled(s, b)
    /\ ~s.active => s.state = "CLOSED"

Sending(s, p, n, cl) == \E b \in {0, -1} : Connection(s, p, b, n, cl)

\* What the bot does once it is connected, it does on an open connection.
Open(s) == ~s.active \/ s.state \in {"ESTABLISHED", "CLOSE_WAIT"}

Closing == app \in {"closing", "done"}

\* The inductive invariant for the sender.
SInv ==
    /\ Sending(sock, peer, Len(accepted), Closing)
    /\ app = "start" => sock = reinit /\ accepted = << >> /\ peer.rcv = 0 /\ peer.got = << >>
    /\ app \in {"init", "work", "quit", "recv", "wild"} => Open(sock)
    /\ app \in {"start", "connecting"} => accepted = << >>
    /\ \A i \in DOMAIN accepted : accepted[i] = i

-----------------------------------------------------------------------------
(* What the queues say of the messages, under the steps of the sender. *)

SameHeader(p, q) ==
    /\ q.seq = p.seq /\ q.syn = p.syn /\ q.fin = p.fin /\ q.seqNum = p.seqNum
    /\ q.dataLen = p.dataLen /\ q.data = p.data

LEMMA ContentSame ==
  ASSUME NEW p, NEW q, SameHeader(p, q)
  PROVE  Content(q) = Content(p)
BY DEF SameHeader, Content

\* More may be said when a message is accepted and when the bot closes.
LEMMA AllowedGrows ==
  ASSUME NEW b, NEW n \in Nat, NEW k \in Nat, n <= k, NEW cl, NEW cl2, cl => cl2 /\ k = n
  PROVE  Allowed(b, n, cl) \subseteq Allowed(b, k, cl2)
<1>1. ASSUME NEW m \in 1..n PROVE m \in 1..k
  OBVIOUS
<1>2. {<<b + m, m>> : m \in 1..n} \subseteq {<<b + m, m>> : m \in 1..k}
  BY <1>1
<1> QED BY <1>2 DEF Allowed

\* The bot closes, and the server receives.
LEMMA SoundGrows ==
  ASSUME NEW out, NEW sent, NEW buf, NEW next, NEW b, NEW n \in Nat, NEW cl, NEW cl2, cl => cl2,
         NEW rcv \in Nat, NEW rcv2 \in Nat, rcv <= rcv2, Sound(out, sent, buf, next, b, n, cl, rcv)
  PROVE  Sound(out, sent, buf, next, b, n, cl2, rcv2)
<1>1. Allowed(b, n, cl) \subseteq Allowed(b, n, cl2)
  BY AllowedGrows
<1>2. HeadersSound(out, sent, buf, next, b, n, cl2)
  BY <1>1 DEF Sound, HeadersSound
<1>3. AllHeld(out, sent, buf, next, n, rcv2)
  <2>1. \A m \in 1..n : m < rcv => m < rcv2
    OBVIOUS
  <2> QED BY <2>1 DEF Sound, AllHeld
<1> QED BY <1>2, <1>3 DEF Sound

\* A packet is sent again.
LEMMA SoundResent ==
  ASSUME NEW out, NEW sent, NEW buf, NEW u, NEW next, NEW b, NEW n, NEW cl, NEW rcv,
         \A c \in Buffers : /\ SameHeader(buf[c], u[c]) /\ u[c].pendingArp = buf[c].pendingArp
                            /\ u[c].wasAckOnly = buf[c].wasAckOnly,
         out \in Seq(Buffers), Sound(out, sent, buf, next, b, n, cl, rcv)
  PROVE  Sound(out, sent, u, next, b, n, cl, rcv)
<1>1. \A c \in Buffers : Live(out, sent, u, c) <=> Live(out, sent, buf, c)
  BY DEF Live
<1>2. \A c \in Buffers : Content(u[c]) = Content(buf[c])
  BY ContentSame
<1>3. HeadersSound(out, sent, u, next, b, n, cl)
  <2>1. \A j \in DOMAIN out : out[j] \in Buffers
    OBVIOUS
  <2> QED BY <1>1, <1>2, <2>1, BufferTypes DEF Sound, HeadersSound, SameHeader
<1>4. \A c \in Buffers : u[c].dataLen = buf[c].dataLen /\ u[c].data = buf[c].data /\ u[c].seqNum = buf[c].seqNum
  BY DEF SameHeader
<1>5. \A j \in DOMAIN out : out[j] \in Buffers
  OBVIOUS
<1>6. MessagesSound(out, sent, u, next, n)
  BY <1>1, <1>4, <1>5, BufferTypes DEF Sound, MessagesSound
<1>7. AllHeld(out, sent, u, next, n, rcv)
  BY <1>4, BufferTypes DEF Sound, AllHeld
<1> QED BY <1>3, <1>6, <1>7 DEF Sound

\* The socket's own packet is put on outgoing, or is already there, or there is no
\* room for it.
OwnAdded(out, out2) ==
    \/ out2 = out
    \/ out2 = Append(out, connectPacket)

LEMMA SoundOwn ==
  ASSUME NEW out \in Seq(Buffers), NEW out2, NEW sent, NEW buf, NEW u, NEW next, NEW b, NEW n, NEW cl, NEW rcv,
         OwnAdded(out, out2), SameHeader(buf[connectPacket], u[connectPacket]),
         ~u[connectPacket].pendingArp, \A c \in Pool : u[c] = buf[c],
         Sound(out, sent, buf, next, b, n, cl, rcv)
  PROVE  Sound(out2, sent, u, next, b, n, cl, rcv)
<1>1. PICK len \in Nat : len = Len(out) /\ DOMAIN out = 1..len
  BY LenProperties
<1>2. /\ \A j \in DOMAIN out : j \in DOMAIN out2 /\ out2[j] = out[j]
      /\ \A j \in DOMAIN out2 : j \in DOMAIN out \/ out2[j] = connectPacket
  <2>1. CASE out2 = out
    BY <2>1
  <2>2. CASE out2 = Append(out, connectPacket)
    <3>1. /\ Len(out2) = len + 1 /\ out2[len + 1] = connectPacket
          /\ \A j \in 1..len : out2[j] = out[j]
      BY <1>1, <2>2, BufferTypes, AppendProperties
    <3>2. DOMAIN out2 = 1..(len + 1)
      BY <2>2, <3>1, BufferTypes, AppendProperties, LenProperties
    <3> QED BY <1>1, <3>1, <3>2
  <2> QED BY <2>1, <2>2 DEF OwnAdded
<1>3. \A c \in Pool : c # connectPacket /\ c \in Buffers
  BY BufferTypes
<1>4. \A c \in Pool : Queued(out2, c) <=> Queued(out, c)
  BY <1>2, <1>3 DEF Queued
<1>5. \A c \in Pool : Live(out2, sent, u, c) => Live(out, sent, buf, c)
  BY <1>2, <1>3 DEF Live
<1>6. Live(out2, sent, u, connectPacket) => Live(out, sent, buf, connectPacket)
  BY DEF Live
<1>7. Content(u[connectPacket]) = Content(buf[connectPacket])
  BY ContentSame
<1>8. Buffers = Pool \cup {connectPacket}
  BY DEF Buffers
<1>9. HeadersSound(out2, sent, u, next, b, n, cl)
  <2>1. HeadersSound(out, sent, buf, next, b, n, cl)
    BY DEF Sound
  <2>2. ASSUME NEW j \in DOMAIN out2, u[out2[j]].pendingArp PROVE out2[j] = out2[1]
    <3>1. out2[j] # connectPacket /\ j \in DOMAIN out /\ out2[j] = out[j] /\ out[j] \in Pool
      <4>1. out2[j] # connectPacket
        BY <2>2
      <4>2. j \in DOMAIN out
        BY <1>2, <4>1
      <4> QED BY <1>2, <1>8, <4>1, <4>2
    <3>2. 1 \in DOMAIN out
      BY <1>1, <3>1
    <3> QED BY <1>2, <2>1, <2>2, <3>1, <3>2 DEF HeadersSound
  <2> QED BY <1>5, <1>6, <1>7, <1>8, <2>1, <2>2 DEF HeadersSound, SameHeader
<1>10. MessagesSound(out2, sent, u, next, n)
  BY <1>2, <1>3, <1>4, <1>5 DEF Sound, MessagesSound
<1>11. AllHeld(out2, sent, u, next, n, rcv)
  BY <1>4 DEF Sound, AllHeld
<1> QED BY <1>9, <1>10, <1>11 DEF Sound

\* The packet c of the user, the message k = n + 1, is put on outgoing.
MessageAdded(out, out2, sent, buf, u, next, b, n, k, cl, rcv, c) ==
    /\ out \in Seq(Buffers) /\ sent \in Seq(Buffers) /\ next \in Int /\ n \in Nat /\ k = n + 1 /\ b = 0 /\ ~cl
    /\ c \in Pool /\ (out2 = Append(out, c) \/ (out = <<connectPacket>> /\ out2 = <<c>>))
    /\ ~Queued(out, c) /\ ~Queued(sent, c) /\ next <= k
    /\ u[c].dataLen = 1 /\ u[c].data = k /\ ~u[c].pendingArp /\ ~u[c].wasAckOnly
    /\ \A d \in Buffers \ {c} : u[d] = buf[d]
    /\ Sound(out, sent, buf, next, b, n, cl, rcv)

LEMMA SoundMessage ==
  ASSUME NEW out, NEW out2, NEW sent, NEW buf, NEW u, NEW next, NEW b, NEW n, NEW k, NEW cl, NEW rcv, NEW c,
         MessageAdded(out, out2, sent, buf, u, next, b, n, k, cl, rcv, c)
  PROVE  Sound(out2, sent, u, next, b, k, cl, rcv)
<1>a. /\ out \in Seq(Buffers) /\ sent \in Seq(Buffers) /\ next \in Int /\ n \in Nat /\ k = n + 1 /\ b = 0 /\ ~cl
      /\ c \in Pool /\ (out2 = Append(out, c) \/ (out = <<connectPacket>> /\ out2 = <<c>>))
      /\ ~Queued(out, c) /\ ~Queued(sent, c) /\ next <= k
      /\ u[c].dataLen = 1 /\ u[c].data = k /\ ~u[c].pendingArp /\ ~u[c].wasAckOnly
      /\ \A d \in Buffers \ {c} : u[d] = buf[d]
      /\ Sound(out, sent, buf, next, b, n, cl, rcv)
  BY DEF MessageAdded
<1> USE <1>a
<1>0. k \in Nat
  OBVIOUS
<1> USE <1>0
<1>1. PICK len \in Nat : len = Len(out) /\ DOMAIN out = 1..len
  BY LenProperties
<1>2. c \in Buffers /\ c # connectPacket
  BY BufferTypes
<1>3. PICK new \in DOMAIN out2 :
        /\ out2[new] = c
        /\ \A j \in DOMAIN out2 : j # new =>
              j \in DOMAIN out /\ out2[j] = out[j] /\ j < new /\ out2[1] = out[1]
        /\ \A j \in DOMAIN out : out[j] \in Pool => j \in DOMAIN out2 /\ out2[j] = out[j]
        /\ new \in Nat /\ DOMAIN out2 \subseteq Nat
  <2>1. CASE out2 = Append(out, c)
    <3>1. /\ Len(out2) = len + 1 /\ out2[len + 1] = c
          /\ \A j \in 1..len : out2[j] = out[j]
      BY <1>1, <1>2, <2>1, AppendProperties
    <3>2. DOMAIN out2 = 1..(len + 1)
      BY <1>2, <2>1, <3>1, AppendProperties, LenProperties
    <3>3. PICK new \in DOMAIN out2 : new = len + 1 /\ new \in Nat /\ DOMAIN out2 \subseteq Nat /\ out2[new] = c
      <4>1. len + 1 \in DOMAIN out2 /\ DOMAIN out2 \subseteq Nat /\ len + 1 \in Nat
        BY <3>2
      <4> QED BY <3>1, <4>1
    <3>4. ASSUME NEW j \in DOMAIN out2, j # new
          PROVE  j \in DOMAIN out /\ out2[j] = out[j] /\ j < new /\ out2[1] = out[1]
      <4>1. j \in 1..len /\ 1 \in 1..len
        BY <3>2, <3>3, <3>4
      <4> QED BY <1>1, <3>1, <3>3, <4>1
    <3>5. \A j \in DOMAIN out : j \in DOMAIN out2 /\ out2[j] = out[j]
      BY <1>1, <3>1, <3>2
    <3> QED BY <3>3, <3>4, <3>5
  <2>2. CASE out = <<connectPacket>> /\ out2 = <<c>>
    <3>1. DOMAIN out2 = {1} /\ out2[1] = c /\ DOMAIN out = {1} /\ out[1] = connectPacket
      BY <2>2
    <3> QED BY <3>1, BufferTypes
  <2> QED BY <2>1, <2>2
<1>4. \A d \in Pool : d # c => (Queued(out2, d) <=> Queued(out, d))
  BY <1>3 DEF Queued
<1>5. Queued(out2, c)
  BY <1>3 DEF Queued
<1>6. \A d \in Buffers : Live(out2, sent, u, d) => d # c /\ Live(out, sent, buf, d)
  <2>1. SUFFICES ASSUME NEW d \in Buffers, Live(out2, sent, u, d) PROVE d # c /\ Live(out, sent, buf, d)
    OBVIOUS
  <2>2. CASE Queued(sent, d)
    BY <2>2 DEF Live
  <2>3. CASE ~Queued(sent, d)
    <3>1. PICK j \in DOMAIN out2 : j = 1 /\ out2[j] = d /\ u[d].pendingArp
      BY <2>1, <2>3 DEF Live
    <3>2. d # c
      BY <3>1
    <3>3. j # new
      BY <1>3, <3>1, <3>2
    <3> QED BY <1>3, <3>1, <3>2, <3>3 DEF Live
  <2> QED BY <2>2, <2>3
<1>7. Allowed(b, n, cl) \subseteq Allowed(b, k, cl)
  <2>1. n <= k /\ (cl => cl /\ k = n)
    OBVIOUS
  <2> QED BY <2>1, AllowedGrows
<1>8. HeadersSound(out2, sent, u, next, b, k, cl)
  <2>1. HeadersSound(out, sent, buf, next, b, n, cl)
    BY DEF Sound
  <2>2. ASSUME NEW j \in DOMAIN out2, u[out2[j]].pendingArp PROVE out2[j] = out2[1]
    <3>1. j # new
      BY <1>3, <2>2
    <3>2. j \in DOMAIN out /\ out2[j] = out[j] /\ out2[1] = out[1] /\ out[j] # c
      BY <1>3, <3>1 DEF Queued
    <3>3. out[j] \in Buffers
      BY <3>2
    <3> QED BY <2>1, <2>2, <3>2, <3>3 DEF HeadersSound
  <2> QED BY <1>2, <1>6, <1>7, <2>1, <2>2, BufferTypes DEF HeadersSound
<1>9. MessagesSound(out2, sent, u, next, k)
  <2>1. MessagesSound(out, sent, buf, next, n)
    BY DEF Sound
  <2>2. \A d \in Pool : Queued(sent, d) \/ Queued(out2, d) => u[d].dataLen = 1 /\ u[d].data \in 1..k
    <3>1. SUFFICES ASSUME NEW d \in Pool, Queued(sent, d) \/ Queued(out2, d), d # c
                   PROVE  u[d].dataLen = 1 /\ u[d].data \in 1..k
      OBVIOUS
    <3>2. buf[d].dataLen = 1 /\ buf[d].data \in 1..n /\ u[d] = buf[d]
      BY <1>4, <2>1, <3>1, BufferTypes DEF MessagesSound
    <3> QED BY <3>2
  <2>3. \A d \in Pool : Live(out2, sent, u, d) => u[d].data <= u[d].seqNum
    BY <1>6, <2>1, BufferTypes DEF MessagesSound
  <2>4. ASSUME NEW j \in DOMAIN out2, out2[j] \in Pool, j # new
        PROVE  /\ j \in DOMAIN out /\ out2[j] = out[j] /\ u[out2[j]] = buf[out[j]] /\ buf[out[j]].data \in 1..n
    <3>1. j \in DOMAIN out /\ out2[j] = out[j]
      BY <1>3, <2>4
    <3>2. out[j] # c /\ Queued(out, out[j])
      BY <3>1 DEF Queued
    <3> QED BY <2>1, <2>4, <3>1, <3>2, BufferTypes DEF MessagesSound
  <2>5. \A j \in DOMAIN out2 : out2[j] \in Pool =>
          /\ ~u[out2[j]].wasAckOnly
          /\ ~u[out2[j]].pendingArp => u[out2[j]].data >= next
    <3>1. SUFFICES ASSUME NEW j \in DOMAIN out2, out2[j] \in Pool
                   PROVE  /\ ~u[out2[j]].wasAckOnly
                          /\ ~u[out2[j]].pendingArp => u[out2[j]].data >= next
      OBVIOUS
    <3>2. CASE j = new
      BY <1>3, <3>2
    <3>3. CASE j # new
      BY <2>1, <2>4, <3>1, <3>3 DEF MessagesSound
    <3> QED BY <3>2, <3>3
  <2>6. \A i, j \in DOMAIN out2 : i < j /\ out2[i] \in Pool /\ out2[j] \in Pool =>
          u[out2[i]].data < u[out2[j]].data
    <3>1. SUFFICES ASSUME NEW i \in DOMAIN out2, NEW j \in DOMAIN out2, i < j, out2[i] \in Pool, out2[j] \in Pool
                   PROVE  u[out2[i]].data < u[out2[j]].data
      OBVIOUS
    <3>2. i # new
      BY <1>3, <3>1
    <3>3. CASE j = new
      BY <1>3, <2>4, <3>1, <3>2, <3>3, SMTT(30)
    <3>4. CASE j # new
      BY <2>1, <2>4, <3>1, <3>2, <3>4 DEF MessagesSound
    <3> QED BY <3>3, <3>4
  <2> QED BY <2>2, <2>3, <2>5, <2>6 DEF MessagesSound
<1>10. AllHeld(out2, sent, u, next, k, rcv)
  <2>1. AllHeld(out, sent, buf, next, n, rcv)
    BY DEF Sound
  <2>2. \A m \in 1..k : m # k => m \in 1..n
    OBVIOUS
  <2>3. \A d \in Pool : Queued(out, d) \/ Queued(sent, d) => d # c /\ u[d] = buf[d]
    BY BufferTypes
  <2>4. \A m \in 1..k : m >= next => \E d \in Pool : Queued(out2, d) /\ u[d].data = m
    <3>1. SUFFICES ASSUME NEW m \in 1..k, m >= next PROVE \E d \in Pool : Queued(out2, d) /\ u[d].data = m
      OBVIOUS
    <3>2. CASE m = k
      BY <1>5, <3>2
    <3>3. CASE m # k
      <4>1. PICK d \in Pool : Queued(out, d) /\ buf[d].data = m
        BY <2>1, <2>2, <3>1, <3>3 DEF AllHeld
      <4> QED BY <1>4, <2>3, <4>1
    <3> QED BY <3>2, <3>3
  <2>5. \A m \in 1..k : m < rcv \/ \E d \in Pool : (Queued(sent, d) \/ Queued(out2, d)) /\ u[d].data = m
    <3>1. SUFFICES ASSUME NEW m \in 1..k, ~(m < rcv)
                   PROVE  \E d \in Pool : (Queued(sent, d) \/ Queued(out2, d)) /\ u[d].data = m
      OBVIOUS
    <3>2. CASE m = k
      BY <1>5, <3>2
    <3>3. CASE m # k
      <4>1. PICK d \in Pool : (Queued(sent, d) \/ Queued(out, d)) /\ buf[d].data = m
        BY <2>1, <2>2, <3>1, <3>3 DEF AllHeld
      <4> QED BY <1>4, <2>3, <4>1
    <3> QED BY <3>2, <3>3
  <2> QED BY <2>4, <2>5 DEF AllHeld
<1> QED BY <1>8, <1>9, <1>10 DEF Sound

\* Packets that the server has acknowledged are removed from sent.
\* The first k packets of sent were acknowledged and go.
AckedGo(out, sent, rest, k, buf, u, target, next, b, n, cl, rcv) ==
    /\ out \in Seq(Buffers) /\ sent \in Seq(Buffers) /\ rest \in Seq(Buffers) /\ k \in 0..Len(sent)
    /\ Len(rest) = Len(sent) - k /\ \A j \in 1..(Len(sent) - k) : rest[j] = sent[j + k]
    /\ Distinct(sent) /\ \A j \in DOMAIN out, i \in DOMAIN sent : out[j] = sent[i] => out[j] \notin Pool
    /\ buf \in [Buffers -> BufferRecords]
    /\ \A c \in Buffers : u[c] = IF c \in {sent[i] : i \in 1..k} \cap Pool THEN EmptyBuffer ELSE buf[c]
    /\ target \in Int /\ \A i \in 1..k : buf[sent[i]].seqNum < target
    /\ n \in Nat /\ rcv \in Nat /\ (n = 0 \/ target <= rcv)
    /\ Sound(out, sent, buf, next, b, n, cl, rcv)

LEMMA SoundAcked ==
  ASSUME NEW out, NEW sent, NEW rest, NEW k, NEW buf, NEW u, NEW target, NEW next, NEW b, NEW n, NEW cl, NEW rcv,
         AckedGo(out, sent, rest, k, buf, u, target, next, b, n, cl, rcv)
  PROVE  Sound(out, rest, u, next, b, n, cl, rcv)
<1>a. /\ out \in Seq(Buffers) /\ sent \in Seq(Buffers) /\ rest \in Seq(Buffers) /\ k \in 0..Len(sent)
      /\ Len(rest) = Len(sent) - k /\ \A j \in 1..(Len(sent) - k) : rest[j] = sent[j + k]
      /\ Distinct(sent) /\ \A j \in DOMAIN out, i \in DOMAIN sent : out[j] = sent[i] => out[j] \notin Pool
      /\ buf \in [Buffers -> BufferRecords]
      /\ \A c \in Buffers : u[c] = IF c \in {sent[i] : i \in 1..k} \cap Pool THEN EmptyBuffer ELSE buf[c]
      /\ target \in Int /\ \A i \in 1..k : buf[sent[i]].seqNum < target
      /\ n \in Nat /\ rcv \in Nat /\ (n = 0 \/ target <= rcv)
      /\ Sound(out, sent, buf, next, b, n, cl, rcv)
  BY DEF AckedGo
<1> USE <1>a
<1>1. PICK len \in Nat : len = Len(sent) /\ DOMAIN sent = 1..len /\ DOMAIN rest = 1..(len - k) /\ k \in 0..len
  BY LenProperties
<1>2. ASSUME NEW c \in Buffers, Queued(rest, c) PROVE Queued(sent, c) /\ u[c] = buf[c]
  <2>1. PICK j \in 1..(len - k) : c = sent[j + k]
    BY <1>1, <1>2 DEF Queued
  <2>2. j + k \in 1..len
    BY <1>1, <2>1
  <2>3. ASSUME NEW i \in 1..k, sent[i] = c, c \in Pool PROVE FALSE
    <3>1. i \in 1..len /\ i # j + k
      BY <1>1, <2>1
    <3> QED BY <1>1, <2>1, <2>2, <2>3, <3>1 DEF Distinct
  <2> QED BY <1>1, <2>1, <2>2, <2>3 DEF Queued
<1>3. ASSUME NEW c \in Buffers, Queued(out, c) PROVE u[c] = buf[c]
  <2>1. ASSUME NEW i \in 1..k, sent[i] = c PROVE c \notin Pool
    <3>1. i \in DOMAIN sent
      BY <1>1
    <3> QED BY <1>3, <2>1, <3>1 DEF Queued
  <2> QED BY <2>1
<1>4. \A c \in Buffers : Live(out, rest, u, c) => Live(out, sent, buf, c) /\ u[c] = buf[c]
  <2>1. SUFFICES ASSUME NEW c \in Buffers, Live(out, rest, u, c) PROVE Live(out, sent, buf, c) /\ u[c] = buf[c]
    OBVIOUS
  <2>2. CASE Queued(rest, c)
    BY <1>2, <2>2 DEF Live
  <2>3. CASE ~Queued(rest, c)
    <3>1. Queued(out, c)
      BY <2>1, <2>3 DEF Live, Queued
    <3> QED BY <1>3, <2>1, <2>3, <3>1 DEF Live
  <2> QED BY <2>2, <2>3
<1>5. HeadersSound(out, rest, u, next, b, n, cl)
  <2>1. u[connectPacket] = buf[connectPacket]
    BY BufferTypes
  <2>2. ASSUME NEW j \in DOMAIN out PROVE u[out[j]] = buf[out[j]]
    <3>1. out[j] \in Buffers /\ Queued(out, out[j])
      BY DEF Queued
    <3> QED BY <1>3, <3>1
  <2> QED BY <1>4, <2>1, <2>2 DEF Sound, HeadersSound
<1>6. MessagesSound(out, rest, u, next, n)
  <2>1. MessagesSound(out, sent, buf, next, n)
    BY DEF Sound
  <2>2. \A j \in DOMAIN out : out[j] \in Buffers /\ Queued(out, out[j])
    BY DEF Queued
  <2>3. \A c \in Pool : Queued(rest, c) \/ Queued(out, c) => u[c].dataLen = 1 /\ u[c].data \in 1..n
    BY <1>2, <1>3, <2>1, BufferTypes DEF MessagesSound
  <2>4. \A c \in Pool : Live(out, rest, u, c) => u[c].data <= u[c].seqNum
    BY <1>4, <2>1, BufferTypes DEF MessagesSound
  <2>5. \A j \in DOMAIN out : u[out[j]] = buf[out[j]]
    BY <1>3, <2>2
  <2> QED BY <2>1, <2>3, <2>4, <2>5 DEF MessagesSound
<1>7. AllHeld(out, rest, u, next, n, rcv)
  <2>1. AllHeld(out, sent, buf, next, n, rcv) /\ MessagesSound(out, sent, buf, next, n)
    BY DEF Sound
  <2>2. \A m \in 1..n : m >= next => \E c \in Pool : Queued(out, c) /\ u[c].data = m
    BY <1>3, <2>1, BufferTypes DEF AllHeld
  <2>3. ASSUME NEW m \in 1..n, ~(m < rcv)
        PROVE  \E c \in Pool : (Queued(rest, c) \/ Queued(out, c)) /\ u[c].data = m
    <3>1. PICK c \in Pool : (Queued(sent, c) \/ Queued(out, c)) /\ buf[c].data = m
      BY <2>1, <2>3 DEF AllHeld
    <3>2. c \in Buffers
      BY BufferTypes
    <3>3. CASE Queued(out, c)
      BY <1>3, <3>1, <3>2, <3>3
    <3>4. CASE Queued(sent, c)
      <4>1. PICK i \in 1..len : sent[i] = c
        BY <1>1, <3>4 DEF Queued
      <4>2. buf[c].data <= buf[c].seqNum
        BY <2>1, <3>4 DEF MessagesSound, Live
      <4>3. i \notin 1..k
        <5>1. SUFFICES ASSUME i \in 1..k PROVE FALSE
          OBVIOUS
        <5>2. buf[c].seqNum < target /\ target <= rcv
          BY <4>1, <5>1, <2>3
        <5>3. buf[c].seqNum \in Int
          BY <3>2 DEF BufferRecords
        <5> QED BY <2>3, <3>1, <4>2, <5>2, <5>3
      <4>4. i - k \in 1..(len - k) /\ rest[i - k] = c
        BY <1>1, <4>1, <4>3
      <4>5. Queued(rest, c)
        BY <1>1, <4>4 DEF Queued
      <4> QED BY <1>2, <3>1, <3>2, <4>5
    <3> QED BY <3>1, <3>3, <3>4
  <2> QED BY <2>2, <2>3 DEF AllHeld
<1> QED BY <1>5, <1>6, <1>7 DEF Sound

\* What Tail leaves of outgoing.
LEMMA TailOf ==
  ASSUME NEW out \in Seq(Buffers), out # << >>, NEW rest, rest = Tail(out), NEW h, h = Head(out)
  PROVE  /\ rest \in Seq(Buffers) /\ h \in Buffers /\ h = out[1] /\ 1 \in DOMAIN out
         /\ DOMAIN out \subseteq Nat /\ DOMAIN rest \subseteq Nat
         /\ \A j \in DOMAIN rest : j + 1 \in DOMAIN out /\ rest[j] = out[j + 1] /\ j + 1 # 1
         /\ \A j \in DOMAIN out : j # 1 => j - 1 \in DOMAIN rest /\ out[j] = rest[j - 1]
<1>1. PICK len \in Nat : len = Len(out) /\ DOMAIN out = 1..len /\ len # 0
  BY LenProperties, EmptySeq
<1>2. rest \in Seq(Buffers) /\ Len(rest) = len - 1 /\ \A i \in 1..Len(rest) : rest[i] = out[i + 1]
  BY <1>1, HeadTailProperties
<1>3. DOMAIN rest = 1..(len - 1)
  BY <1>2, LenProperties
<1>4. h \in Buffers /\ h = out[1]
  BY HeadTailProperties
<1> QED BY <1>1, <1>2, <1>3, <1>4

\* The head of outgoing, whose header is complete, was sent and moves to sent.
Leaving(out, sent, rest, sent2, h, buf, u, next, b, n, cl, rcv) ==
    /\ out \in Seq(Buffers) /\ out # << >> /\ Distinct(out) /\ h = Head(out) /\ rest = Tail(out)
    /\ sent \in Seq(Buffers) /\ sent2 = Append(sent, h)
    /\ buf \in [Buffers -> BufferRecords] /\ buf[h].pendingArp
    /\ SameHeader(buf[h], u[h]) /\ ~u[h].pendingArp /\ \A c \in Buffers \ {h} : u[c] = buf[c]
    /\ next \in Int /\ n \in Nat /\ Sound(out, sent, buf, next, b, n, cl, rcv)

LEMMA SoundLeaves ==
  ASSUME NEW out, NEW sent, NEW rest, NEW sent2, NEW h, NEW buf, NEW u, NEW next, NEW b, NEW n, NEW cl, NEW rcv,
         Leaving(out, sent, rest, sent2, h, buf, u, next, b, n, cl, rcv)
  PROVE  Sound(rest, sent2, u, next, b, n, cl, rcv)
<1>a. /\ out \in Seq(Buffers) /\ out # << >> /\ Distinct(out) /\ h = Head(out) /\ rest = Tail(out)
      /\ sent \in Seq(Buffers) /\ sent2 = Append(sent, h)
      /\ buf \in [Buffers -> BufferRecords] /\ buf[h].pendingArp
      /\ SameHeader(buf[h], u[h]) /\ ~u[h].pendingArp /\ \A c \in Buffers \ {h} : u[c] = buf[c]
      /\ next \in Int /\ n \in Nat /\ Sound(out, sent, buf, next, b, n, cl, rcv)
  BY DEF Leaving
<1> USE <1>a
<1>1. /\ h \in Buffers /\ h = out[1] /\ 1 \in DOMAIN out
      /\ DOMAIN out \subseteq Nat /\ DOMAIN rest \subseteq Nat
      /\ \A j \in DOMAIN rest : j + 1 \in DOMAIN out /\ rest[j] = out[j + 1] /\ j + 1 # 1
      /\ \A j \in DOMAIN out : j # 1 => j - 1 \in DOMAIN rest /\ out[j] = rest[j - 1]
  BY TailOf
<1>2. PICK len \in Nat : len = Len(sent) /\ DOMAIN sent = 1..len
  BY LenProperties
<1>3. /\ sent2[len + 1] = h /\ DOMAIN sent2 = 1..(len + 1)
      /\ \A j \in 1..len : sent2[j] = sent[j]
  BY <1>1, <1>2, AppendProperties, LenProperties
<1>4. \A c : Queued(sent2, c) <=> Queued(sent, c) \/ c = h
  <2>1. len + 1 \in DOMAIN sent2 /\ \A j \in DOMAIN sent : j \in DOMAIN sent2 /\ sent2[j] = sent[j]
    BY <1>2, <1>3
  <2>2. \A j \in DOMAIN sent2 : j = len + 1 \/ j \in DOMAIN sent
    BY <1>2, <1>3
  <2> QED BY <1>2, <1>3, <2>1, <2>2 DEF Queued
<1>5. \A c : Queued(rest, c) => Queued(out, c)
  BY <1>1 DEF Queued
<1>6. ASSUME NEW c, Queued(out, c), c # h PROVE Queued(rest, c)
  <2>1. PICK j \in DOMAIN out : out[j] = c
    BY <1>6 DEF Queued
  <2>2. j - 1 \in DOMAIN rest /\ rest[j - 1] = c
    BY <1>1, <1>6, <2>1
  <2> QED BY <2>2 DEF Queued
<1>7. Live(out, sent, buf, h)
  BY <1>1 DEF Live
<1>8. MessagesSound(out, sent, buf, next, n) /\ HeadersSound(out, sent, buf, next, b, n, cl)
  BY DEF Sound
<1>9. ASSUME NEW j \in DOMAIN rest
      PROVE  /\ j + 1 \in DOMAIN out /\ rest[j] = out[j + 1] /\ out[j + 1] \in Buffers
             /\ ~u[rest[j]].pendingArp
             /\ rest[j] \in Pool => rest[j] # h
             /\ rest[j] # h => u[rest[j]] = buf[out[j + 1]]
  <2>1. j + 1 \in DOMAIN out /\ rest[j] = out[j + 1] /\ j + 1 # 1 /\ out[j + 1] \in Buffers
    BY <1>1
  <2>2. rest[j] \in Pool => rest[j] # h
    BY <1>1, <2>1 DEF Distinct
  <2>3. rest[j] # h => u[rest[j]] = buf[out[j + 1]]
    BY <2>1
  <2>4. rest[j] # h => ~buf[out[j + 1]].pendingArp
    BY <1>1, <1>8, <2>1 DEF HeadersSound
  <2> QED BY <2>1, <2>2, <2>3, <2>4
<1>10. \A c \in Buffers : Live(rest, sent2, u, c) => Live(out, sent, buf, c)
  <2>1. SUFFICES ASSUME NEW c \in Buffers, Live(rest, sent2, u, c), c # h, ~Queued(sent, c) PROVE FALSE
    BY <1>7 DEF Live
  <2>2. PICK j \in DOMAIN rest : rest[j] = c /\ u[c].pendingArp
    BY <1>4, <2>1 DEF Live
  <2> QED BY <1>9, <2>2
<1>11. \A c \in Buffers : SameHeader(buf[c], u[c]) /\ Content(u[c]) = Content(buf[c])
  <2>1. \A c \in Buffers : SameHeader(buf[c], u[c])
    BY DEF SameHeader
  <2> QED BY <2>1, ContentSame
<1>12. HeadersSound(rest, sent2, u, next, b, n, cl)
  <2>1. u[connectPacket].dataLen = 0
    BY <1>8, <1>11, BufferTypes DEF HeadersSound, SameHeader
  <2> QED BY <1>8, <1>9, <1>10, <1>11, <2>1 DEF HeadersSound, SameHeader
<1>13. MessagesSound(rest, sent2, u, next, n)
  <2>1. \A c \in Pool : Queued(sent2, c) \/ Queued(rest, c) => Queued(sent, c) \/ Queued(out, c)
    BY <1>1, <1>4, <1>5 DEF Queued
  <2>2. \A c \in Pool : Queued(sent2, c) \/ Queued(rest, c) => u[c].dataLen = 1 /\ u[c].data \in 1..n
    BY <1>8, <1>11, <2>1, BufferTypes DEF MessagesSound, SameHeader
  <2>3. \A c \in Pool : Live(rest, sent2, u, c) => u[c].data <= u[c].seqNum
    BY <1>8, <1>10, <1>11, BufferTypes DEF MessagesSound, SameHeader
  <2>4. ASSUME NEW j \in DOMAIN rest, rest[j] \in Pool
        PROVE  ~u[rest[j]].wasAckOnly /\ u[rest[j]].data >= next
    <3>1. j + 1 \in DOMAIN out /\ rest[j] = out[j + 1] /\ u[rest[j]] = buf[out[j + 1]] /\ ~u[rest[j]].pendingArp
      BY <1>9, <2>4
    <3> QED BY <1>8, <2>4, <3>1 DEF MessagesSound
  <2>5. ASSUME NEW i \in DOMAIN rest, NEW j \in DOMAIN rest, i < j, rest[i] \in Pool, rest[j] \in Pool
        PROVE  u[rest[i]].data < u[rest[j]].data
    <3>1. /\ i + 1 \in DOMAIN out /\ rest[i] = out[i + 1] /\ u[rest[i]] = buf[out[i + 1]]
          /\ j + 1 \in DOMAIN out /\ rest[j] = out[j + 1] /\ u[rest[j]] = buf[out[j + 1]]
      BY <1>9, <2>5
    <3>2. i + 1 < j + 1
      BY <1>1, <2>5
    <3> QED BY <1>8, <2>5, <3>1, <3>2 DEF MessagesSound
  <2> QED BY <2>2, <2>3, <2>4, <2>5 DEF MessagesSound
<1>14. AllHeld(rest, sent2, u, next, n, rcv)
  <2>1. AllHeld(out, sent, buf, next, n, rcv)
    BY DEF Sound
  <2>2. \A c \in Pool : u[c].data = buf[c].data
    BY <1>11, BufferTypes DEF SameHeader
  <2>3. h \in Pool => buf[h].data < next
    <3>1. SUFFICES ASSUME h \in Pool PROVE buf[h].data < next
      OBVIOUS
    <3>2. buf[h].data <= buf[h].seqNum /\ buf[h].seqNum < next
      BY <1>1, <1>7, <1>8, <3>1 DEF MessagesSound, HeadersSound
    <3>3. buf[h].data \in Int /\ buf[h].seqNum \in Int
      BY <1>1 DEF BufferRecords
    <3> QED BY <3>2, <3>3
  <2>4. ASSUME NEW m \in 1..n, m >= next PROVE \E c \in Pool : Queued(rest, c) /\ u[c].data = m
    <3>1. PICK c \in Pool : Queued(out, c) /\ buf[c].data = m
      BY <2>1, <2>4 DEF AllHeld
    <3>2. c # h
      BY <2>3, <2>4, <3>1
    <3> QED BY <1>6, <2>2, <3>1, <3>2
  <2>5. ASSUME NEW m \in 1..n, ~(m < rcv)
        PROVE  \E c \in Pool : (Queued(sent2, c) \/ Queued(rest, c)) /\ u[c].data = m
    <3>1. PICK c \in Pool : (Queued(sent, c) \/ Queued(out, c)) /\ buf[c].data = m
      BY <2>1, <2>5 DEF AllHeld
    <3>2. Queued(sent2, c) \/ Queued(rest, c)
      BY <1>4, <1>6, <3>1
    <3> QED BY <2>2, <3>1, <3>2
  <2> QED BY <2>4, <2>5 DEF AllHeld
<1> QED BY <1>12, <1>13, <1>14 DEF Sound

\* The head of outgoing, a pure acknowledgement, was sent and is not kept.
LEMMA SoundDrops ==
  ASSUME NEW out \in Seq(Buffers), out # << >>, Distinct(out), NEW sent, connectPacket = Head(out),
         NEW rest, rest = Tail(out),
         NEW buf \in [Buffers -> BufferRecords], buf[connectPacket].pendingArp,
         NEW u, SameHeader(buf[connectPacket], u[connectPacket]), ~u[connectPacket].pendingArp,
         \A c \in Buffers \ {connectPacket} : u[c] = buf[c],
         NEW next \in Int, NEW b, NEW n \in Nat, NEW cl, NEW rcv, Sound(out, sent, buf, next, b, n, cl, rcv)
  PROVE  Sound(rest, sent, u, next, b, n, cl, rcv)
<1>1. /\ connectPacket \in Buffers /\ connectPacket = out[1] /\ 1 \in DOMAIN out
      /\ DOMAIN out \subseteq Nat /\ DOMAIN rest \subseteq Nat
      /\ \A j \in DOMAIN rest : j + 1 \in DOMAIN out /\ rest[j] = out[j + 1] /\ j + 1 # 1
      /\ \A j \in DOMAIN out : j # 1 => j - 1 \in DOMAIN rest /\ out[j] = rest[j - 1]
  BY TailOf
<1>2. \A c : Queued(rest, c) => Queued(out, c)
  BY <1>1 DEF Queued
<1>3. ASSUME NEW c \in Pool, Queued(out, c) PROVE Queued(rest, c)
  <2>1. PICK j \in DOMAIN out : out[j] = c
    BY <1>3 DEF Queued
  <2>2. j - 1 \in DOMAIN rest /\ rest[j - 1] = c
    BY <1>1, <1>3, <2>1, BufferTypes
  <2> QED BY <2>2 DEF Queued
<1>4. MessagesSound(out, sent, buf, next, n) /\ HeadersSound(out, sent, buf, next, b, n, cl)
  BY DEF Sound
<1>5. ASSUME NEW j \in DOMAIN rest
      PROVE  /\ j + 1 \in DOMAIN out /\ rest[j] = out[j + 1] /\ out[j + 1] \in Buffers
             /\ ~u[rest[j]].pendingArp
             /\ rest[j] # connectPacket => u[rest[j]] = buf[out[j + 1]]
  <2>1. j + 1 \in DOMAIN out /\ rest[j] = out[j + 1] /\ out[j + 1] \in Buffers
    BY <1>1
  <2>2. rest[j] # connectPacket => u[rest[j]] = buf[out[j + 1]]
    BY <2>1
  <2>3. rest[j] # connectPacket => ~buf[out[j + 1]].pendingArp
    BY <1>1, <1>4, <2>1 DEF HeadersSound
  <2> QED BY <2>1, <2>2, <2>3
<1>6. \A c \in Buffers : Live(rest, sent, u, c) => Live(out, sent, buf, c)
  <2>1. SUFFICES ASSUME NEW c \in Buffers, Live(rest, sent, u, c), ~Queued(sent, c) PROVE FALSE
    BY DEF Live
  <2>2. PICK j \in DOMAIN rest : rest[j] = c /\ u[c].pendingArp
    BY <2>1 DEF Live
  <2> QED BY <1>5, <2>2
<1>7. \A c \in Buffers : SameHeader(buf[c], u[c]) /\ Content(u[c]) = Content(buf[c])
  <2>1. \A c \in Buffers : SameHeader(buf[c], u[c])
    BY DEF SameHeader
  <2> QED BY <2>1, ContentSame
<1>8. HeadersSound(rest, sent, u, next, b, n, cl)
  BY <1>1, <1>4, <1>5, <1>6, <1>7 DEF HeadersSound, SameHeader
<1>9. MessagesSound(rest, sent, u, next, n)
  <2>1. \A c \in Pool : u[c] = buf[c] /\ c \in Buffers
    BY BufferTypes
  <2>2. \A c \in Pool : Queued(sent, c) \/ Queued(rest, c) => u[c].dataLen = 1 /\ u[c].data \in 1..n
    BY <1>2, <1>4, <2>1 DEF MessagesSound
  <2>3. \A c \in Pool : Live(rest, sent, u, c) => u[c].data <= u[c].seqNum
    BY <1>4, <1>6, <2>1 DEF MessagesSound
  <2>4. \A j \in DOMAIN rest : rest[j] \in Pool =>
          /\ ~u[rest[j]].wasAckOnly
          /\ ~u[rest[j]].pendingArp => u[rest[j]].data >= next
    BY <1>4, <1>5, <2>1 DEF MessagesSound
  <2>5. ASSUME NEW i \in DOMAIN rest, NEW j \in DOMAIN rest, i < j, rest[i] \in Pool, rest[j] \in Pool
        PROVE  u[rest[i]].data < u[rest[j]].data
    <3>1. i + 1 < j + 1
      BY <1>1, <2>5
    <3> QED BY <1>4, <1>5, <2>1, <2>5, <3>1 DEF MessagesSound
  <2> QED BY <2>2, <2>3, <2>4, <2>5 DEF MessagesSound
<1>10. AllHeld(rest, sent, u, next, n, rcv)
  <2>1. \A c \in Pool : u[c].data = buf[c].data
    BY BufferTypes
  <2>2. AllHeld(out, sent, buf, next, n, rcv)
    BY DEF Sound
  <2>3. ASSUME NEW m \in 1..n, m >= next PROVE \E c \in Pool : Queued(rest, c) /\ u[c].data = m
    <3>1. PICK c \in Pool : Queued(out, c) /\ buf[c].data = m
      BY <2>2, <2>3 DEF AllHeld
    <3> QED BY <1>3, <2>1, <3>1
  <2>4. ASSUME NEW m \in 1..n, ~(m < rcv)
        PROVE  \E c \in Pool : (Queued(sent, c) \/ Queued(rest, c)) /\ u[c].data = m
    <3>1. PICK c \in Pool : (Queued(sent, c) \/ Queued(out, c)) /\ buf[c].data = m
      BY <2>2, <2>4 DEF AllHeld
    <3> QED BY <1>3, <2>1, <3>1
  <2> QED BY <2>3, <2>4 DEF AllHeld
<1> QED BY <1>8, <1>9, <1>10 DEF Sound

\* What a packet with the number `next' may carry, and what follows it.
Fills(out, next, next2, b, n, cl, syn, fin, len) ==
    /\ next2 = next + len + (IF syn \/ fin THEN 1 ELSE 0)
    /\ syn => ~fin /\ n = 0 /\ next = b
    /\ ~syn => b + 1 <= next \/ (n = 0 /\ ~fin)
    /\ fin => Len(out) = 1 /\ cl /\ next <= b + n + 1

HeadFilled(buf, u, h, next, next2, syn, fin) ==
    /\ ~buf[h].pendingArp /\ \A c \in Buffers \ {h} : u[c] = buf[c]
    /\ u[h].seq = next /\ u[h].syn = syn /\ u[h].fin = fin /\ u[h].seqNum = next2 - 1 /\ u[h].pendingArp
    /\ u[h].dataLen = buf[h].dataLen /\ u[h].data = buf[h].data
    /\ h \in Pool => u[h].wasAckOnly = buf[h].wasAckOnly

\* Before the header of h, the head of outgoing, is filled in for the first time.
Filling(out, sent, buf, u, h, next, next2, b, n, cl, rcv, syn, fin, len) ==
    /\ out \in Seq(Buffers) /\ out # << >> /\ Distinct(out) /\ h = Head(out)
    /\ \A j \in DOMAIN out, i \in DOMAIN sent : out[j] = sent[i] => out[j] \notin Pool
    /\ buf \in [Buffers -> BufferRecords] /\ len \in {0, 1} /\ len = buf[h].dataLen
    /\ syn \in BOOLEAN /\ fin \in BOOLEAN /\ next \in Int
    /\ b \in {0, -1} /\ n \in Nat /\ (b = 0 \/ n = 0)
    /\ Fills(out, next, next2, b, n, cl, syn, fin, len)
    /\ HeadFilled(buf, u, h, next, next2, syn, fin)
    /\ Sound(out, sent, buf, next, b, n, cl, rcv)

LEMMA SoundFilled ==
  ASSUME NEW out, NEW sent, NEW buf, NEW u, NEW h, NEW next, NEW next2, NEW b, NEW n, NEW cl, NEW rcv,
         NEW syn, NEW fin, NEW len, Filling(out, sent, buf, u, h, next, next2, b, n, cl, rcv, syn, fin, len)
  PROVE  /\ Sound(out, sent, u, next2, b, n, cl, rcv)
         /\ syn => next2 = b + 1
         /\ fin => next2 = b + n + 2
         /\ ~syn /\ ~fin => next2 = next \/ (next2 = next + 1 /\ next <= b + n)
<1>a. /\ out \in Seq(Buffers) /\ out # << >> /\ Distinct(out) /\ h = Head(out)
      /\ \A j \in DOMAIN out, i \in DOMAIN sent : out[j] = sent[i] => out[j] \notin Pool
      /\ buf \in [Buffers -> BufferRecords] /\ len \in {0, 1} /\ len = buf[h].dataLen
      /\ syn \in BOOLEAN /\ fin \in BOOLEAN /\ next \in Int
      /\ b \in {0, -1} /\ n \in Nat /\ (b = 0 \/ n = 0)
      /\ Fills(out, next, next2, b, n, cl, syn, fin, len)
      /\ Sound(out, sent, buf, next, b, n, cl, rcv)
  BY DEF Filling
<1>b. /\ ~buf[h].pendingArp /\ \A c \in Buffers \ {h} : u[c] = buf[c]
      /\ u[h].seq = next /\ u[h].syn = syn /\ u[h].fin = fin /\ u[h].seqNum = next2 - 1 /\ u[h].pendingArp
      /\ u[h].dataLen = len /\ u[h].data = buf[h].data
      /\ h \in Pool => u[h].wasAckOnly = buf[h].wasAckOnly
  BY DEF Filling, HeadFilled
<1> USE <1>a, <1>b
<1>1. PICK ln \in Nat : ln = Len(out) /\ DOMAIN out = 1..ln /\ ln # 0
  BY LenProperties, EmptySeq
<1>2. h = out[1] /\ 1 \in DOMAIN out /\ h \in Buffers
  BY <1>1, HeadTailProperties
<1>3. MessagesSound(out, sent, buf, next, n) /\ HeadersSound(out, sent, buf, next, b, n, cl)
      /\ AllHeld(out, sent, buf, next, n, rcv)
  BY DEF Sound
<1>4. PICK d \in Nat : d = buf[h].data /\ u[h].data = d
  BY <1>2 DEF BufferRecords
\* The message at the head is the next one.
<1>5. h \in Pool => b = 0 /\ ~syn /\ len = 1 /\ d = next /\ next \in 1..n
  <2>1. SUFFICES ASSUME h \in Pool PROVE b = 0 /\ ~syn /\ len = 1 /\ d = next /\ next \in 1..n
    OBVIOUS
  <2>2. len = 1 /\ d \in 1..n
    BY <1>2, <1>3, <1>4, <2>1 DEF MessagesSound, Queued
  <2>3. b = 0 /\ ~syn /\ next >= 1
    BY <2>2 DEF Fills
  <2>4. d >= next
    BY <1>2, <1>3, <1>4, <2>1 DEF MessagesSound
  <2>5. next \in 1..n
    BY <2>2, <2>3, <2>4
  <2>6. PICK c \in Pool : Queued(out, c) /\ buf[c].data = next
    BY <1>3, <2>5 DEF AllHeld
  <2>7. PICK k \in 1..ln : out[k] = c
    BY <1>1, <2>6 DEF Queued
  <2>8. k # 1 => d < next
    <3>1. 1 < k \/ k = 1
      BY <1>1
    <3> QED BY <1>1, <1>2, <1>3, <1>4, <2>1, <2>6, <2>7, <3>1 DEF MessagesSound
  <2>9. d = next
    BY <1>2, <1>4, <2>4, <2>6, <2>7, <2>8
  <2> QED BY <2>2, <2>3, <2>5, <2>9
<1>6. h \notin Pool => len = 0
  BY <1>2, <1>3 DEF Buffers, HeadersSound
\* With the FIN goes the last message, or there is none to come.
<1>7. fin => next + len = b + n + 1
  <2>1. SUFFICES ASSUME fin PROVE next + len = b + n + 1
    OBVIOUS
  <2>2. ln = 1 /\ next <= b + n + 1 /\ b + 1 <= next
    BY <1>1, <2>1 DEF Fills
  <2>3. \A c : Queued(out, c) => c = h
    BY <1>1, <1>2, <2>2 DEF Queued
  <2>4. \A m \in 1..n : m >= next => h \in Pool /\ m = d
    BY <1>3, <1>4, <2>3 DEF AllHeld
  <2>5. CASE h \in Pool
    <3>1. n >= next => n = d
      BY <1>5, <2>4, <2>5
    <3> QED BY <1>5, <2>5, <3>1
  <2>6. CASE h \notin Pool
    <3>1. n >= 1 => ~(n >= next)
      BY <2>4, <2>6
    <3> QED BY <1>6, <2>2, <2>6, <3>1
  <2> QED BY <2>5, <2>6
<1>8. next2 \in Int /\ next <= next2 /\ (len = 1 => next < next2)
  <2>1. PICK e \in {0, 1} : e = IF syn \/ fin THEN 1 ELSE 0
    OBVIOUS
  <2>2. next2 = next + len + e
    BY <2>1 DEF Fills
  <2> QED BY <2>2, SMTT(30)
<1>9. Content(u[h]) \subseteq Allowed(b, n, cl)
  <2>1. syn => <<next, SYN>> \in Allowed(b, n, cl)
    BY DEF Fills, Allowed
  <2>2. len = 1 => <<next, d>> \in Allowed(b, n, cl)
    <3>1. SUFFICES ASSUME len = 1 PROVE <<next, d>> \in Allowed(b, n, cl)
      OBVIOUS
    <3>2. d = next /\ next \in 1..n /\ b = 0
      BY <1>5, <1>6, <3>1
    <3>3. <<b + d, d>> \in {<<b + m, m>> : m \in 1..n} /\ b + d = next
      BY <3>2
    <3> QED BY <3>3 DEF Allowed
  <2>3. fin => <<next + len, FIN>> \in Allowed(b, n, cl)
    BY <1>7 DEF Fills, Allowed
  <2> QED BY <1>4, <2>1, <2>2, <2>3 DEF Content
<1>10. \A c \in Buffers : c # h => (Live(out, sent, u, c) <=> Live(out, sent, buf, c))
  BY <1>2 DEF Live
<1>11. \A c \in Buffers : Live(out, sent, buf, c) => buf[c].seqNum < next2
  <2>1. \A c \in Buffers : buf[c].seqNum \in Int
    BY DEF BufferRecords
  <2> QED BY <1>3, <1>8, <2>1 DEF HeadersSound
<1>12. HeadersSound(out, sent, u, next2, b, n, cl)
  <2>1. u[connectPacket].dataLen = 0
    BY <1>3, BufferTypes DEF HeadersSound
  <2>2. u[h].seqNum < next2
    BY <1>8
  <2>3. \A c \in Buffers : Live(out, sent, u, c) => Content(u[c]) \subseteq Allowed(b, n, cl) /\ u[c].seqNum < next2
    BY <1>3, <1>9, <1>10, <1>11, <2>2 DEF HeadersSound
  <2>4. \A j \in DOMAIN out : u[out[j]].pendingArp => out[j] = out[1]
    BY <1>2, <1>3 DEF HeadersSound
  <2> QED BY <2>1, <2>3, <2>4 DEF HeadersSound
<1>13. MessagesSound(out, sent, u, next2, n)
  <2>1. \A c \in Pool : c \in Buffers /\ u[c].data = buf[c].data /\ u[c].dataLen = buf[c].dataLen
    BY BufferTypes
  <2>2. \A c \in Pool : Queued(sent, c) \/ Queued(out, c) => u[c].dataLen = 1 /\ u[c].data \in 1..n
    BY <1>3, <2>1 DEF MessagesSound
  <2>3. \A c \in Pool : Live(out, sent, u, c) => u[c].data <= u[c].seqNum
    <3>1. h \in Pool => d <= next2 - 1
      BY <1>5, <1>8
    <3> QED BY <1>3, <1>4, <1>10, <2>1, <3>1 DEF MessagesSound
  <2>4. ASSUME NEW j \in DOMAIN out, out[j] \in Pool, out[j] # h PROVE buf[out[j]].data \in 1..n
    BY <1>3, <2>4 DEF MessagesSound, Queued
  <2>5. ASSUME NEW j \in DOMAIN out, out[j] \in Pool, out[j] # h, ~u[out[j]].pendingArp PROVE u[out[j]].data >= next2
    <3>1. j # 1 /\ u[out[j]] = buf[out[j]] /\ 1 < j
      BY <1>1, <1>2, <2>5
    <3>2. PICK e \in 1..n : e = buf[out[j]].data
      BY <2>4, <2>5
    <3>3. ~fin /\ ~syn
      BY <1>1, <3>1, <3>2 DEF Fills
    <3>4. next2 = next + len
      BY <3>3 DEF Fills
    <3>5. e >= next
      BY <1>3, <2>5, <3>1, <3>2 DEF MessagesSound
    <3>6. h \in Pool => d < e
      BY <1>2, <1>3, <1>4, <2>5, <3>1, <3>2 DEF MessagesSound
    <3>7. e >= next2
      BY <1>5, <1>6, <3>4, <3>5, <3>6
    <3> QED BY <3>1, <3>2, <3>7
  <2>6. \A j \in DOMAIN out : out[j] \in Pool =>
          /\ ~u[out[j]].wasAckOnly
          /\ ~u[out[j]].pendingArp => u[out[j]].data >= next2
    BY <1>3, <2>1, <2>5 DEF MessagesSound
  <2> QED BY <1>3, <2>1, <2>2, <2>3, <2>6 DEF MessagesSound
<1>14. AllHeld(out, sent, u, next2, n, rcv)
  <2>1. \A c \in Pool : u[c].data = buf[c].data
    BY BufferTypes
  <2>2. \A m \in 1..n : m >= next2 => m >= next
    BY <1>8
  <2> QED BY <1>3, <2>1, <2>2 DEF AllHeld
<1>15. /\ syn => next2 = b + 1
       /\ fin => next2 = b + n + 2
       /\ ~syn /\ ~fin => next2 = next \/ (next2 = next + 1 /\ next <= b + n)
  BY <1>5, <1>6, <1>7 DEF Fills
<1> QED BY <1>12, <1>13, <1>14, <1>15 DEF Sound

-----------------------------------------------------------------------------
(* What the socket sends, under its operations. *)

\* What becomes of the packet h that was to be sent.
HeadDone(s1, t, h) == IF s1.buf[h].pendingArp THEN t = s1 ELSE HeadLeaves(s1, t, h)

\* u has the packet h as waiting.
HasWaiting(s1, u, h) ==
    u[h] = [s1.buf[h] EXCEPT !.pendingArp = TRUE] /\ \A c \in Buffers \ {h} : u[c] = s1.buf[c]

\* A header that is complete, which u has as waiting, and which sendPacket
\* transmits or leaves waiting.
Going(away, s, s1, t, h, u, b, n, cl, rcv) ==
    /\ Clean(s, away) /\ s.outgoing # << >> /\ h = Head(s.outgoing)
    /\ PacketSent(s, s1, h) /\ HeadDone(s1, t, h)
    /\ u \in [Buffers -> BufferRecords] /\ HasWaiting(s1, u, h)
    /\ n \in Nat /\ Sound(s.outgoing, s.sent, u, s1.seqNum, b, n, cl, rcv)
    /\ s.wire \subseteq Allowed(b, n, cl)

LEMMA HeadGoes ==
  ASSUME NEW away, NEW s, NEW s1, NEW t, NEW h, NEW u, NEW b, NEW n, NEW cl, NEW rcv,
         Going(away, s, s1, t, h, u, b, n, cl, rcv)
  PROVE  /\ Sound(t.outgoing, t.sent, t.buf, t.seqNum, b, n, cl, rcv)
         /\ t.wire \subseteq Allowed(b, n, cl) /\ t.seqNum = s1.seqNum /\ t.state = s1.state
         /\ t.outgoing = Tail(s.outgoing) \/ (t.outgoing = s.outgoing /\ t.buf[h].pendingArp)
<1>a. /\ Clean(s, away) /\ s.outgoing # << >> /\ h = Head(s.outgoing)
      /\ PacketSent(s, s1, h) /\ HeadDone(s1, t, h)
      /\ u \in [Buffers -> BufferRecords] /\ HasWaiting(s1, u, h)
      /\ n \in Nat /\ Sound(s.outgoing, s.sent, u, s1.seqNum, b, n, cl, rcv)
      /\ s.wire \subseteq Allowed(b, n, cl)
  BY DEF Going
<1> USE <1>a
<1>1. PICK out, sent, next :
        /\ out = s.outgoing /\ sent = s.sent /\ next = s1.seqNum
        /\ out \in Seq(Buffers) /\ sent \in Seq(Buffers) /\ next \in Int /\ Distinct(out)
  BY DEF Clean, Owned, Sockets, PacketSent
<1>2. PICK v \in [Buffers -> BufferRecords] : v = s1.buf
  BY DEF PacketSent, Sockets
<1>3. /\ s1.outgoing = out /\ s1.sent = sent
      /\ s1.wire = IF v[h].pendingArp THEN s.wire ELSE s.wire \cup Content(v[h])
  BY <1>1, <1>2 DEF PacketSent, SameQueues
<1>4. h \in Buffers /\ h = out[1] /\ 1 \in DOMAIN out
  BY <1>1, TailOf
<1>5. SameHeader(u[h], v[h]) /\ u[h].wasAckOnly = v[h].wasAckOnly /\ u[h].pendingArp
  BY <1>2, <1>4 DEF HasWaiting, SameHeader, BufferRecords
<1>6. Sound(out, sent, u, next, b, n, cl, rcv)
  BY <1>1
<1>7. Content(v[h]) \subseteq Allowed(b, n, cl)
  <2>1. Live(out, sent, u, h)
    BY <1>4, <1>5 DEF Live
  <2>2. Content(v[h]) = Content(u[h])
    BY <1>5, ContentSame
  <2> QED BY <1>4, <1>6, <2>1, <2>2 DEF Sound, HeadersSound
<1>8. CASE v[h].pendingArp
  <2>1. t = s1
    BY <1>2, <1>8 DEF HeadDone
  <2>2. \A c \in Buffers : /\ SameHeader(u[c], v[c]) /\ v[c].pendingArp = u[c].pendingArp
                           /\ v[c].wasAckOnly = u[c].wasAckOnly
    <3>1. v[h].pendingArp = u[h].pendingArp
      BY <1>4, <1>5, <1>8 DEF BufferRecords
    <3> QED BY <1>2, <1>5, <3>1 DEF SameHeader, HasWaiting
  <2>3. Sound(out, sent, v, next, b, n, cl, rcv)
    BY <1>1, <1>6, <2>2, SoundResent
  <2> QED BY <1>1, <1>2, <1>3, <1>8, <2>1, <2>3
<1>9. CASE ~v[h].pendingArp
  <2>1. HeadLeaves(s1, t, h)
    BY <1>2, <1>9 DEF HeadDone
  <2>2. PICK w \in [Buffers -> BufferRecords] : w = t.buf
    BY <2>1 DEF HeadLeaves, Sockets
  <2>3. PICK rest : rest = Tail(out)
    OBVIOUS
  <2>4. /\ t.outgoing = rest /\ t.seqNum = next /\ t.state = s1.state
        /\ t.wire = s.wire \cup Content(v[h]) /\ \A c \in Buffers \ {h} : w[c] = v[c]
    BY <1>1, <1>2, <1>3, <1>9, <2>1, <2>2, <2>3 DEF HeadLeaves, SameNumbers
  <2>5. \A c \in Buffers \ {h} : w[c] = u[c]
    BY <1>2, <2>4 DEF HasWaiting
  <2>6. Sound(rest, t.sent, w, next, b, n, cl, rcv)
    <3>1. CASE v[h].wasAckOnly
      <4>1. h = connectPacket
        BY <1>4, <1>5, <1>6, <3>1 DEF Sound, MessagesSound, Buffers
      <4>2. t.sent = sent /\ w[h] = [v[h] EXCEPT !.attempts = @ + 1]
        BY <1>2, <1>3, <2>1, <2>2, <3>1, <4>1, BufferTypes DEF HeadLeaves
      <4>3. SameHeader(u[h], w[h]) /\ ~w[h].pendingArp
        <5>1. v[h] \in BufferRecords
          BY <1>4
        <5>2. /\ w[h].seq = v[h].seq /\ w[h].syn = v[h].syn /\ w[h].fin = v[h].fin /\ w[h].seqNum = v[h].seqNum
              /\ w[h].dataLen = v[h].dataLen /\ w[h].data = v[h].data /\ w[h].pendingArp = v[h].pendingArp
          BY <4>2, <5>1 DEF BufferRecords
        <5> QED BY <1>5, <1>9, <5>2 DEF SameHeader
      <4> QED BY <1>1, <1>5, <1>6, <2>2, <2>3, <2>5, <4>1, <4>2, <4>3, SoundDrops
    <3>2. CASE ~v[h].wasAckOnly
      <4>1. PICK sent2 : sent2 = Append(sent, h)
        OBVIOUS
      <4>2. t.sent = sent2 /\ w[h] = [v[h] EXCEPT !.attempts = @ + 1]
        BY <1>2, <1>3, <2>1, <2>2, <3>2, <4>1 DEF HeadLeaves
      <4>3. SameHeader(u[h], w[h]) /\ ~w[h].pendingArp
        <5>1. v[h] \in BufferRecords
          BY <1>4
        <5>2. /\ w[h].seq = v[h].seq /\ w[h].syn = v[h].syn /\ w[h].fin = v[h].fin /\ w[h].seqNum = v[h].seqNum
              /\ w[h].dataLen = v[h].dataLen /\ w[h].data = v[h].data /\ w[h].pendingArp = v[h].pendingArp
          BY <4>2, <5>1 DEF BufferRecords
        <5> QED BY <1>5, <1>9, <5>2 DEF SameHeader
      <4>4. Sound(rest, sent2, w, next, b, n, cl, rcv)
        <5>1. Leaving(out, sent, rest, sent2, h, u, w, next, b, n, cl, rcv)
          BY <1>1, <1>5, <1>6, <2>3, <2>5, <4>1, <4>3 DEF Leaving
        <5> QED BY <5>1, SoundLeaves
      <4> QED BY <4>2, <4>4
    <3> QED BY <3>1, <3>2
  <2> QED BY <1>1, <1>7, <2>2, <2>3, <2>4, <2>6
<1> QED BY <1>8, <1>9

\* The parameters of Sender.
SenderTypes(b, n, rcv) == b \in {0, -1} /\ n \in Nat /\ (b = 0 \/ n = 0) /\ rcv \in Nat

\* A turn of the loop that sends the head of outgoing, or tries to.
LEMMA SenderSends ==
  ASSUME NEW b, NEW n, NEW cl, NEW rcv, SenderTypes(b, n, rcv),
         NEW away, NEW s, Clean(s, away), Sender(s, b, n, cl, rcv), Sends(s),
         NEW resolved \in BOOLEAN, NEW t, t = sendHead(s, resolved)
  PROVE  Sender(t, b, n, cl, rcv) /\ (SynState(s) => t.state = s.state /\ t.seqNum = b + 1)
<1>1. PICK h : h = Head(s.outgoing)
  OBVIOUS
<1>2. PICK s1 : s1 = sendPacket(s, h, resolved)
  OBVIOUS
<1>3. s \in Sockets /\ s.outgoing # << >> /\ b \in {0, -1} /\ n \in Nat /\ (b = 0 \/ n = 0) /\ rcv \in Nat
  BY DEF Clean, Sends, SenderTypes
<1>4. /\ h \in Buffers /\ PacketSent(s, s1, h)
      /\ HeadDone(s1, t, h)
  BY <1>1, <1>2, <1>3, SendHead DEF HeadDone
<1>5. PICK v \in [Buffers -> BufferRecords] : v = s1.buf
  BY <1>4 DEF PacketSent, Sockets
<1>6. PICK w \in [Buffers -> BufferRecords] : w = s.buf
  BY <1>3 DEF Sockets
<1>7. PICK u \in [Buffers -> BufferRecords] : u = [v EXCEPT ![h] = [v[h] EXCEPT !.pendingArp = TRUE]]
  <2>1. [v[h] EXCEPT !.pendingArp = TRUE] \in BufferRecords
    <3>1. v[h] \in BufferRecords
      BY <1>4
    <3> QED BY <3>1 DEF BufferRecords
  <2> QED BY <1>4, <2>1
<1>8. u[h] = [v[h] EXCEPT !.pendingArp = TRUE] /\ \A c \in Buffers \ {h} : u[c] = v[c] /\ v[c] = w[c]
  BY <1>4, <1>5, <1>6, <1>7 DEF PacketSent
<1>9. PICK out, sent : /\ out = s.outgoing /\ sent = s.sent /\ out # << >> /\ h = Head(out)
                       /\ out \in Seq(Buffers) /\ sent \in Seq(Buffers) /\ Distinct(out)
                       /\ \A j \in DOMAIN out, i \in DOMAIN sent : out[j] = sent[i] => out[j] \notin Pool
  BY <1>1, <1>3 DEF Clean, Owned, Sockets
<1>10. h = out[1] /\ 1 \in DOMAIN out
  BY <1>9, TailOf
<1>11. PICK next \in Int, next2 \in Int : next = s.seqNum /\ next2 = s1.seqNum
  BY <1>3, <1>4 DEF PacketSent, Sockets
<1>12. Sound(out, sent, w, next, b, n, cl, rcv) /\ s.wire \subseteq Allowed(b, n, cl) /\ Phase(s, b, n, cl, rcv)
  BY <1>6, <1>9, <1>11 DEF Sender
<1>13. ASSUME Sound(out, sent, u, next2, b, n, cl, rcv)
       PROVE  /\ Sound(t.outgoing, t.sent, t.buf, t.seqNum, b, n, cl, rcv)
              /\ t.wire \subseteq Allowed(b, n, cl) /\ t.seqNum = next2 /\ t.state = s1.state
              /\ t.outgoing = Tail(out) \/ (t.outgoing = out /\ t.buf[h].pendingArp)
  <2>1. Sound(s.outgoing, s.sent, u, s1.seqNum, b, n, cl, rcv)
    BY <1>9, <1>11, <1>13
  <2>2. HasWaiting(s1, u, h)
    BY <1>5, <1>8 DEF HasWaiting
  <2>3. Going(away, s, s1, t, h, u, b, n, cl, rcv)
    BY <1>1, <1>3, <1>4, <1>12, <2>1, <2>2 DEF Going
  <2>4. /\ Sound(t.outgoing, t.sent, t.buf, t.seqNum, b, n, cl, rcv)
        /\ t.wire \subseteq Allowed(b, n, cl) /\ t.seqNum = s1.seqNum /\ t.state = s1.state
        /\ t.outgoing = Tail(s.outgoing) \/ (t.outgoing = s.outgoing /\ t.buf[h].pendingArp)
    BY <2>3, HeadGoes
  <2> QED BY <1>9, <1>11, <2>4
\* When only the SYN was in outgoing, it is still there, and waits, or it has gone.
<1>14. ASSUME out = <<connectPacket>>, t.outgoing = Tail(out) \/ (t.outgoing = out /\ t.buf[h].pendingArp)
       PROVE  Parked(t)
  <2>1. h = connectPacket /\ Tail(out) = << >>
    BY <1>9, <1>10, <1>14
  <2> QED BY <1>14, <2>1 DEF Parked
<1>15. CASE Retried(s, s1, h)
  <2>1. w[h].pendingArp /\ s1.state = s.state /\ next2 = next
        /\ v[h] = [w[h] EXCEPT !.pendingArp = v[h].pendingArp]
    BY <1>5, <1>6, <1>11, <1>15 DEF Retried
  <2>2. \A c \in Buffers : /\ SameHeader(w[c], u[c]) /\ u[c].pendingArp = w[c].pendingArp
                           /\ u[c].wasAckOnly = w[c].wasAckOnly
    <3>1. u[h] = [w[h] EXCEPT !.pendingArp = TRUE] /\ w[h] \in BufferRecords
      BY <1>4, <1>8, <2>1 DEF BufferRecords
    <3>2. SameHeader(w[h], u[h]) /\ u[h].pendingArp = w[h].pendingArp /\ u[h].wasAckOnly = w[h].wasAckOnly
      BY <2>1, <3>1 DEF BufferRecords, SameHeader
    <3> QED BY <1>8, <3>2 DEF SameHeader
  <2>3. Sound(out, sent, u, next2, b, n, cl, rcv)
    BY <1>9, <1>12, <2>1, <2>2, SoundResent
  <2>4. Phase(t, b, n, cl, rcv) /\ (SynState(s) => t.state = s.state /\ t.seqNum = b + 1)
    <3>1. t.state = s.state /\ t.seqNum = s.seqNum
      BY <1>11, <1>13, <2>1, <2>3
    <3>2. CASE Opening(s, b, n, cl, rcv)
      <4>1. s.seqNum = b + 1 /\ out = <<connectPacket>>
        BY <1>6, <1>9, <1>10, <2>1, <3>2 DEF Opening, Unsent, Parked
      <4>2. Parked(t)
        BY <1>13, <1>14, <2>3, <4>1
      <4> QED BY <3>1, <3>2, <4>1, <4>2 DEF Opening, Phase, SynState
    <3>3. CASE Transfer(s, b, n, cl)
      BY <3>1, <3>3 DEF Transfer, Phase, SynState, FinStates
    <3>4. CASE Ended(s, b, n, cl)
      BY <3>1, <3>4 DEF Ended, FinSent, Phase, SynState
    <3>5. CASE Aborted(s, n, cl)
      BY <3>1, <3>5 DEF Aborted, Phase, SynState
    <3> QED BY <1>12, <3>2, <3>3, <3>4, <3>5 DEF Phase
  <2> QED BY <1>13, <2>3, <2>4 DEF Sender
<1>16. CASE SentFirst(s, s1, h)
  <2>1. PICK syn \in BOOLEAN, fin \in BOOLEAN : syn = SynState(s) /\ fin = AddsFin(s)
    <3>1. SynState(s) \in BOOLEAN
      BY DEF SynState
    <3>2. AddsFin(s) \in BOOLEAN
      BY DEF AddsFin
    <3> QED BY <3>1, <3>2
  <2>2. PICK len \in {0, 1} : len = w[h].dataLen
    BY <1>4 DEF BufferRecords
  <2>3. /\ ~w[h].pendingArp
        /\ s1.state = IF fin THEN AfterFin(s.state) ELSE s.state
        /\ next2 = next + len + (IF syn \/ fin THEN 1 ELSE 0)
        /\ v[h] = Headed(s, w[h], syn, fin, next2 - 1, v[h].pendingArp)
    BY <1>5, <1>6, <1>11, <1>16, <2>1, <2>2 DEF SentFirst
  <2>4. /\ u[h].seq = next /\ u[h].syn = syn /\ u[h].fin = fin /\ u[h].seqNum = next2 - 1 /\ u[h].pendingArp
        /\ u[h].dataLen = len /\ u[h].data = w[h].data
    <3>1. w[h] \in BufferRecords /\ v[h] \in BufferRecords
      BY <1>4
    <3>2. /\ v[h].seq = next /\ v[h].syn = syn /\ v[h].fin = fin /\ v[h].seqNum = next2 - 1
          /\ v[h].dataLen = w[h].dataLen /\ v[h].data = w[h].data
      BY <1>11, <2>3, <3>1 DEF Headed, BufferRecords
    <3> QED BY <1>8, <2>2, <3>1, <3>2 DEF BufferRecords
  <2>5. h \in Pool => u[h].wasAckOnly = w[h].wasAckOnly
    <3>1. SUFFICES ASSUME h \in Pool PROVE u[h].wasAckOnly = w[h].wasAckOnly
      OBVIOUS
    <3>2. w[h].dataLen # 0
      BY <1>10, <1>12, <3>1 DEF Sound, MessagesSound, Queued
    <3>3. w[h] \in BufferRecords /\ v[h] \in BufferRecords
      BY <1>4
    <3>4. v[h].wasAckOnly = (w[h].wasAckOnly \/ (w[h].dataLen = 0 /\ ~syn /\ ~fin))
      BY <2>3, <3>3 DEF Headed, BufferRecords
    <3>5. w[h].wasAckOnly \in BOOLEAN
      BY <3>3 DEF BufferRecords
    <3>6. v[h].wasAckOnly = w[h].wasAckOnly
      BY <3>2, <3>4, <3>5
    <3> QED BY <1>8, <3>3, <3>6 DEF BufferRecords
  <2>6. Fills(out, next, next2, b, n, cl, syn, fin, len)
    <3>1. CASE Opening(s, b, n, cl, rcv)
      <4>1. s.seqNum = b
        BY <1>6, <1>9, <1>10, <2>3, <3>1 DEF Opening, Parked
      <4>2. syn /\ ~fin
        BY <2>1, <3>1 DEF Opening, SynState, AddsFin, FinStates
      <4> QED BY <1>11, <2>3, <3>1, <4>1, <4>2 DEF Fills, Opening
    <3>2. CASE Transfer(s, b, n, cl)
      <4>1. ~syn /\ (fin => Len(out) = 1 /\ cl) /\ b + 1 <= next /\ next <= b + n + 1
        BY <1>9, <1>11, <2>1, <3>2 DEF Transfer, SynState, AddsFin, FinStates
      <4> QED BY <2>3, <4>1 DEF Fills
    <3>3. CASE Ended(s, b, n, cl)
      <4>1. ~syn /\ ~fin /\ next = b + n + 2
        BY <1>11, <2>1, <3>3 DEF Ended, FinSent, SynState, AddsFin, FinStates
      <4> QED BY <1>3, <2>3, <4>1 DEF Fills
    <3>4. CASE Aborted(s, n, cl)
      <4>1. ~syn /\ ~fin /\ n = 0
        BY <2>1, <3>4 DEF Aborted, SynState, AddsFin, FinStates
      <4> QED BY <2>3, <4>1 DEF Fills
    <3> QED BY <1>12, <3>1, <3>2, <3>3, <3>4 DEF Phase
  <2>7. \A c \in Buffers \ {h} : u[c] = w[c]
    BY <1>8
  <2>8. /\ Sound(out, sent, u, next2, b, n, cl, rcv)
        /\ syn => next2 = b + 1
        /\ fin => next2 = b + n + 2
        /\ ~syn /\ ~fin => next2 = next \/ (next2 = next + 1 /\ next <= b + n)
    <3>1. /\ b \in {0, -1} /\ n \in Nat /\ (b = 0 \/ n = 0) /\ syn \in BOOLEAN /\ fin \in BOOLEAN
          /\ out \in Seq(Buffers) /\ out # << >> /\ Distinct(out) /\ h = Head(out)
      BY <1>3, <1>9
    <3>2. HeadFilled(w, u, h, next, next2, syn, fin)
      BY <2>2, <2>3, <2>4, <2>5, <2>7 DEF HeadFilled
    <3>3. Filling(out, sent, w, u, h, next, next2, b, n, cl, rcv, syn, fin, len)
      BY <1>9, <1>12, <2>2, <2>6, <3>1, <3>2 DEF Filling
    <3> QED BY <3>3, SoundFilled
  <2>9. /\ t.seqNum = next2 /\ t.state = s1.state
        /\ t.outgoing = Tail(out) \/ (t.outgoing = out /\ t.buf[h].pendingArp)
    BY <1>13, <2>8
  <2>10. Phase(t, b, n, cl, rcv) /\ (SynState(s) => t.state = s.state /\ t.seqNum = b + 1)
    <3>1. CASE Opening(s, b, n, cl, rcv)
      <4>1. out = <<connectPacket>>
        BY <1>6, <1>9, <1>10, <2>3, <3>1 DEF Opening, Unsent, Parked
      <4>2. syn /\ ~fin
        BY <2>1, <3>1 DEF Opening, SynState, AddsFin, FinStates
      <4>3. t.state = s.state /\ t.seqNum = b + 1 /\ Parked(t)
        BY <1>14, <2>3, <2>8, <2>9, <4>1, <4>2
      <4> QED BY <3>1, <4>3 DEF Opening, Phase, SynState
    <3>2. CASE Transfer(s, b, n, cl)
      <4>1. ~SynState(s) /\ b + 1 <= next /\ next <= b + n + 1
        BY <1>11, <3>2 DEF Transfer, SynState, FinStates
      <4>2. CASE fin
        <5>1. t.state \in FinSent /\ cl /\ t.seqNum = b + n + 2
          BY <2>1, <2>3, <2>6, <2>8, <2>9, <4>2 DEF AfterFin, FinSent, Fills
        <5> QED BY <4>1, <5>1 DEF Phase, Ended
      <4>3. CASE ~fin
        <5>1. t.state = s.state /\ b + 1 <= next2 /\ next2 <= b + n + 1
          BY <1>3, <2>1, <2>3, <2>8, <2>9, <4>1, <4>3
        <5> QED BY <2>9, <3>2, <4>1, <5>1 DEF Phase, Transfer
      <4> QED BY <4>2, <4>3
    <3>3. CASE Ended(s, b, n, cl)
      <4>1. ~SynState(s) /\ ~fin /\ next = b + n + 2
        BY <1>11, <2>1, <3>3 DEF Ended, FinSent, SynState, AddsFin, FinStates
      <4>2. next2 = next /\ t.state = s.state
        BY <1>3, <2>1, <2>3, <2>8, <2>9, <4>1
      <4> QED BY <1>11, <2>9, <3>3, <4>1, <4>2 DEF Phase, Ended
    <3>4. CASE Aborted(s, n, cl)
      <4>1. ~SynState(s) /\ ~fin
        BY <2>1, <3>4 DEF Aborted, SynState, AddsFin, FinStates
      <4> QED BY <2>3, <2>9, <3>4, <4>1 DEF Phase, Aborted
    <3> QED BY <1>12, <3>1, <3>2, <3>3, <3>4 DEF Phase
  <2> QED BY <1>13, <2>8, <2>10 DEF Sender
<1> QED BY <1>4, <1>15, <1>16 DEF PacketSent

\* Every turn of the loop.
LEMMA SenderHead ==
  ASSUME NEW b, NEW n, NEW cl, NEW rcv, SenderTypes(b, n, rcv),
         NEW away \in SUBSET Pool, NEW s, Clean(s, away), Sender(s, b, n, cl, rcv), Settled(s, b),
         NEW resolved \in BOOLEAN, NEW t, t = sendHead(s, resolved)
  PROVE  Clean(t, away) /\ Sender(t, b, n, cl, rcv) /\ Settled(t, b)
<1>1. Clean(t, away) /\ StateMoved(s, t)
  BY HeadClean
<1>2. CASE Sends(s)
  <2>1. Sender(t, b, n, cl, rcv) /\ (SynState(s) => t.state = s.state /\ t.seqNum = b + 1)
    BY <1>2, SenderSends
  <2> QED BY <1>1, <2>1 DEF Settled, SynState, StateMoved, FinStates, AfterFin
<1>3. CASE ~Sends(s)
  <2>1. t = s
    BY <1>3 DEF sendHead, Sends
  <2> QED BY <1>1, <2>1
<1> QED BY <1>2, <1>3

\* The loop: also when it is the SYN of an answer to a SYN that it sends.
LEMMA SenderLoop ==
  ASSUME NEW b, NEW n, NEW cl, NEW rcv, SenderTypes(b, n, rcv),
         NEW away \in SUBSET Pool, NEW s, Clean(s, away), Sender(s, b, n, cl, rcv),
         NEW resolved \in BOOLEAN, NEW t, t = sendLoop(s, resolved)
  PROVE  Sender(t, b, n, cl, rcv) /\ Settled(t, b)
<1>1. s \in Sockets /\ Len(s.outgoing) \in Nat
  BY DEF Clean, Sockets
<1>2. CASE Settled(s, b)
  <2> DEFINE T == {x \in Sockets : Clean(x, away) /\ Sender(x, b, n, cl, rcv) /\ Settled(x, b)}
  <2>1. s \in T
    BY <1>1, <1>2
  <2>2. ASSUME NEW x \in T PROVE sendHead(x, resolved) \in T
    <3>1. PICK y : y = sendHead(x, resolved)
      OBVIOUS
    <3>2. Clean(y, away) /\ Sender(y, b, n, cl, rcv) /\ Settled(y, b)
      BY <2>2, <3>1, SenderHead
    <3> QED BY <3>1, <3>2 DEF Clean
  <2>3. t \in T
    <3> HIDE DEF T
    <3> QED BY <1>1, <2>1, <2>2, LoopInvariant
  <2> QED BY <2>3
<1>3. CASE ~Settled(s, b)
  <2>1. s.state = "SYN_RECVED" /\ Opening(s, b, n, cl, rcv) /\ Unsent(s)
    BY <1>3 DEF Settled, Sender, Phase, Opening, Transfer, Ended, Aborted, FinStates, FinSent
  <2>2. Sends(s)
    <3>1. s.outgoing # << >> /\ Head(s.outgoing) = connectPacket /\ Len(s.sent) = 0
      BY <2>1 DEF Unsent
    <3>2. s.buf[connectPacket].dataLen = 0
      BY DEF Sender, Sound, HeadersSound
    <3>3. s.remoteWindow \in Nat
      BY <1>1 DEF Sockets
    <3> QED BY <3>1, <3>2, <3>3, BufferTypes DEF Sends, hasRoom
  <2>3. t = sendHead(s, resolved)
    <3>1. Len(s.outgoing) = 1
      BY <2>1 DEF Unsent
    <3> QED BY <1>1, <3>1, LoopOnce
  <2> QED BY <2>1, <2>2, <2>3, SenderSends DEF Settled, SynState
<1> QED BY <1>2, <1>3

\* resendPacket
LEMMA SenderResends ==
  ASSUME NEW b, NEW n, NEW cl, NEW rcv,
         NEW away, NEW s, Clean(s, away), Sender(s, b, n, cl, rcv), s.sent # << >>,
         NEW t, t = resendPacket(s, Head(s.sent))
  PROVE  Sender(t, b, n, cl, rcv) /\ Settled(t, b)
<1>1. PICK c \in Buffers : c = Head(s.sent) /\ c = s.sent[1] /\ 1 \in DOMAIN s.sent
  <2>1. s.sent \in Seq(Buffers)
    BY DEF Clean, Sockets
  <2> QED BY <2>1, TailOf
<1>2. Resent(s, t, c)
  BY <1>1, ResendPacket DEF Clean
<1>3. PICK w \in [Buffers -> BufferRecords], v \in [Buffers -> BufferRecords] :
        w = s.buf /\ v = t.buf /\ s.outgoing \in Seq(Buffers)
  BY <1>2 DEF Resent, Clean, Sockets
<1>4. v[c] = [w[c] EXCEPT !.attempts = @ + 1] /\ \A d \in Buffers \ {c} : v[d] = w[d]
  BY <1>2, <1>3 DEF Resent
<1>5. \A d \in Buffers : /\ SameHeader(w[d], v[d]) /\ v[d].pendingArp = w[d].pendingArp
                         /\ v[d].wasAckOnly = w[d].wasAckOnly
  <2>1. w[c] \in BufferRecords
    BY <1>1
  <2>2. SameHeader(w[c], v[c]) /\ v[c].pendingArp = w[c].pendingArp /\ v[c].wasAckOnly = w[c].wasAckOnly
    BY <1>4, <2>1 DEF SameHeader, BufferRecords
  <2> QED BY <1>4, <2>2 DEF SameHeader
<1>6. t.outgoing = s.outgoing /\ t.sent = s.sent /\ t.seqNum = s.seqNum /\ t.state = s.state
  BY <1>2 DEF Resent, SameQueues
<1>7. Sound(s.outgoing, s.sent, w, s.seqNum, b, n, cl, rcv)
  BY <1>3 DEF Sender
<1>8. Sound(t.outgoing, t.sent, t.buf, t.seqNum, b, n, cl, rcv)
  BY <1>3, <1>5, <1>6, <1>7, SoundResent
<1>9. t.wire \subseteq Allowed(b, n, cl)
  <2>1. Live(s.outgoing, s.sent, w, c)
    BY <1>1 DEF Live, Queued
  <2>2. Content(v[c]) = Content(w[c])
    BY <1>5, ContentSame
  <2>3. Content(v[c]) \subseteq Allowed(b, n, cl)
    BY <1>1, <1>7, <2>1, <2>2 DEF Sound, HeadersSound
  <2> QED BY <1>2, <1>3, <2>3 DEF Resent, Sender
<1>10. Phase(t, b, n, cl, rcv) /\ Settled(t, b)
  <2>1. Parked(s) => Parked(t)
    BY <1>3, <1>5, <1>6, BufferTypes DEF Parked
  <2>2. ~Unsent(s)
    BY DEF Unsent
  <2>3. CASE Opening(s, b, n, cl, rcv)
    BY <1>6, <2>1, <2>2, <2>3 DEF Opening, Phase, Settled, SynState
  <2>4. CASE Transfer(s, b, n, cl)
    BY <1>6, <2>4 DEF Transfer, Phase, Settled, FinStates
  <2>5. CASE Ended(s, b, n, cl)
    BY <1>6, <2>5 DEF Ended, Phase, Settled, FinSent
  <2>6. CASE Aborted(s, n, cl)
    BY <1>6, <2>6 DEF Aborted, Phase, Settled
  <2> QED BY <2>3, <2>4, <2>5, <2>6 DEF Phase, Sender
<1> QED BY <1>8, <1>9, <1>10 DEF Sender

\* drivePackets
LEMMA SenderDriven ==
  ASSUME NEW b, NEW n, NEW cl, NEW rcv, SenderTypes(b, n, rcv),
         NEW away \in SUBSET Pool, NEW s, Clean(s, away), s.active, Sender(s, b, n, cl, rcv),
         NEW overdue \in BOOLEAN, NEW resolved \in BOOLEAN, NEW t, t = drivePackets(s, overdue, resolved)
  PROVE  Destroyed(s, t) \/ (Sender(t, b, n, cl, rcv) /\ Settled(t, b))
<1>1. CASE s.Pending_Sent = 0 /\ s.Pending_Outgoing = 0
  <2>1. t = s
    BY <1>1 DEF drivePackets
  <2>2. s.state = "SYN_RECVED" => s.outgoing = << >>
    <3>1. /\ s.outgoing \in Seq(Buffers) /\ s.replaced \in Nat
          /\ Counted(0, Len(s.outgoing), s.replaced) /\ Early(s.state, s.replaced)
      BY <1>1 DEF Clean, Sockets
    <3>2. s.state = "SYN_RECVED" => Len(s.outgoing) = 0
      BY <3>1, BufferTypes, CounterAssumption DEF Counted, Early
    <3> QED BY <3>1, <3>2, EmptySeq
  <2>3. Settled(s, b)
    <3> SUFFICES ASSUME s.state = "SYN_RECVED" PROVE s.seqNum = b + 1
      BY DEF Settled
    <3>1. Opening(s, b, n, cl, rcv)
      BY DEF Sender, Phase, Transfer, Ended, Aborted, FinStates, FinSent
    <3>2. s.outgoing = << >> /\ << >> # <<connectPacket>>
      BY <2>2
    <3>3. ~Unsent(s)
      BY Zenon, <3>2 DEF Unsent
    <3> QED BY <3>1, <3>3 DEF Opening
  <2> QED BY <2>1, <2>3
<1>2. CASE t = destroy(s, 4)
  <2>1. Destroyed(s, t)
    BY <1>2, Destroy
  <2> QED BY <2>1
<1>3. CASE s.sent # << >> /\ t = resendPacket(s, Head(s.sent))
  BY <1>3, SenderResends
<1>4. CASE t = sendLoop(s, resolved)
  BY <1>4, SenderLoop
<1> QED BY <1>1, <1>2, <1>3, <1>4 DEF drivePackets

-----------------------------------------------------------------------------
(* What the socket sends, when it receives. *)

SocketSound(s, b, n, cl, rcv) ==
    Sound(s.outgoing, s.sent, s.buf, s.seqNum, b, n, cl, rcv) /\ s.wire \subseteq Allowed(b, n, cl)

\* What enqueueOwn changes, in a socket whose queues are s.
OwnQueued(s, t) ==
    \/ t.outgoing = s.outgoing /\ t.buf = s.buf
    \/ /\ OwnAdded(s.outgoing, t.outgoing) /\ SameHeader(s.buf[connectPacket], t.buf[connectPacket])
       /\ ~t.buf[connectPacket].pendingArp /\ \A c \in Pool : t.buf[c] = s.buf[c]

\* The packet that enqueue replaces is the socket's own.
LEMMA PiggybackIsOwn ==
  ASSUME NEW away, NEW s, Clean(s, away), \A c \in Pool : Queued(s.outgoing, c) => s.buf[c].dataLen = 1,
         PiggybacksOnAck(s)
  PROVE  s.outgoing = <<connectPacket>>
<1>1. PICK out, h : out \in Seq(Buffers) /\ out = s.outgoing /\ h = Head(out)
  BY DEF Clean, Sockets
<1>2. Len(out) = 1 /\ s.buf[h].dataLen = 0
  BY <1>1 DEF PiggybacksOnAck
<1>3. out # << >>
  <2>1. out = << >> => Len(out) = 0
    OBVIOUS
  <2> QED BY <1>2, <2>1
<1>4. h \in Buffers /\ h = out[1] /\ 1 \in DOMAIN out
  BY <1>1, <1>3, TailOf
<1>5. out = <<h>>
  BY <1>1, <1>2, <1>4
<1>6. h \notin Pool
  BY <1>1, <1>2, <1>4 DEF Queued
<1> QED BY <1>1, <1>4, <1>5, <1>6 DEF Buffers

LEMMA EnqueueOwnQueues ==
  ASSUME NEW away \in SUBSET Pool, NEW s, Clean(s, away), s.buf[connectPacket].dataLen = 0,
         \A c \in Pool : Queued(s.outgoing, c) => s.buf[c].dataLen = 1, NEW t, t = enqueueOwn(s)
  PROVE  /\ OwnQueued(s, t)
         /\ s.outgoing = << >> /\ s.state \notin {"CLOSED", "CLOSING"} =>
               t.outgoing = <<connectPacket>> /\ ~t.buf[connectPacket].pendingArp
<1>1. s \in Sockets /\ connectPacket \in Buffers /\ Pool \subseteq Buffers /\ connectPacket \notin Pool
  BY BufferTypes DEF Clean
<1>2. PICK w \in [Buffers -> BufferRecords], out \in Seq(Buffers) : w = s.buf /\ out = s.outgoing
  BY <1>1 DEF Sockets
<1>3. w[connectPacket] \in BufferRecords
  BY <1>1
<1>4. w[connectPacket] = [w[connectPacket] EXCEPT !.dataLen = 0]
  BY <1>2, <1>3 DEF BufferRecords
<1>5. w = [w EXCEPT ![connectPacket] = [w[connectPacket] EXCEPT !.dataLen = 0]]
  BY <1>1, <1>4
<1>6. s = [s EXCEPT !.buf[connectPacket].dataLen = 0]
  BY <1>1, <1>2, <1>5 DEF Sockets
<1>7. t = enqueue(s, connectPacket)
  BY <1>6 DEF enqueueOwn
<1>8. CASE Refuses(s, connectPacket)
  <2>1. t = s
    BY <1>7, <1>8 DEF enqueue
  <2>2. s.state \in {"CLOSED", "CLOSING"}
    BY <1>8 DEF Refuses
  <2> QED BY <2>1, <2>2 DEF OwnQueued
<1>9. CASE ~Refuses(s, connectPacket)
  <2>1. t = enqueueAccepted(s, connectPacket)
    BY <1>7, <1>9 DEF enqueue
  <2>2. Enqueued(s, t, connectPacket, away)
    BY <1>1, <2>1, EnqueueAccepted DEF Enqueues
  <2>3. PICK v \in [Buffers -> BufferRecords] : v = t.buf
    BY <2>2 DEF Enqueued, Clean, Sockets
  <2>4. v[connectPacket] = Fresh(w[connectPacket])
    BY <1>2, <2>2, <2>3 DEF Enqueued
  <2>5. SameHeader(w[connectPacket], v[connectPacket]) /\ ~v[connectPacket].pendingArp
    BY <1>3, <2>4 DEF Fresh, SameHeader, BufferRecords
  <2>6. PiggybacksOnAck(s) => out = <<connectPacket>>
    BY <1>2, PiggybackIsOwn
  <2>7. OwnAdded(out, t.outgoing)
    BY <1>2, <2>2, <2>6 DEF Enqueued, OwnAdded
  <2>8. \A c \in Pool : v[c] = w[c]
    <3>1. SUFFICES ASSUME NEW c \in Pool PROVE v[c] = w[c]
      OBVIOUS
    <3>2. v[c] = Unless(s, c)
      BY <1>1, <2>2, <2>3 DEF Enqueued
    <3>3. PiggybacksOnAck(s) => c # Head(s.outgoing)
      BY <1>1, <1>2, <2>6
    <3> QED BY <1>2, <3>2, <3>3 DEF Unless
  <2>9. out = << >> => t.outgoing = <<connectPacket>>
    <3>1. SUFFICES ASSUME out = << >> PROVE t.outgoing = <<connectPacket>>
      OBVIOUS
    <3>2. hasRoom(out) /\ ~PiggybacksOnAck(s)
      BY <1>2, <2>6, <3>1, BufferTypes DEF hasRoom
    <3>3. t.outgoing = Append(out, connectPacket)
      BY <1>2, <2>2, <3>2 DEF Enqueued
    <3> QED BY <3>1, <3>3
  <2> QED BY <1>2, <2>3, <2>5, <2>7, <2>8, <2>9 DEF OwnQueued
<1> QED BY <1>8, <1>9

\* enqueueOwn
QueuesOwn(s, t, b, n, cl, rcv, away) ==
    away \in SUBSET Pool /\ Clean(s, away) /\ SocketSound(s, b, n, cl, rcv) /\ t = enqueueOwn(s)

LEMMA SoundOwnQueued ==
  ASSUME NEW s, NEW t, NEW b, NEW n, NEW cl, NEW rcv, NEW away, QueuesOwn(s, t, b, n, cl, rcv, away)
  PROVE  /\ Clean(t, away) /\ SameInput(s, t) /\ SameNumbers(s, t) /\ t.sent = s.sent
         /\ SocketSound(t, b, n, cl, rcv)
         /\ s.outgoing = << >> /\ s.state \notin {"CLOSED", "CLOSING"} =>
               t.outgoing = <<connectPacket>> /\ ~t.buf[connectPacket].pendingArp
<1>a. away \in SUBSET Pool /\ Clean(s, away) /\ SocketSound(s, b, n, cl, rcv) /\ t = enqueueOwn(s)
  BY DEF QueuesOwn
<1> USE <1>a
<1>1. Clean(t, away) /\ SameInput(s, t) /\ SameNumbers(s, t) /\ t.sent = s.sent
  BY EnqueueOwn
<1>2. s.buf[connectPacket].dataLen = 0 /\ \A c \in Pool : Queued(s.outgoing, c) => s.buf[c].dataLen = 1
  BY DEF SocketSound, Sound, HeadersSound, MessagesSound
<1>3. /\ OwnQueued(s, t)
      /\ s.outgoing = << >> /\ s.state \notin {"CLOSED", "CLOSING"} =>
            t.outgoing = <<connectPacket>> /\ ~t.buf[connectPacket].pendingArp
  BY <1>2, EnqueueOwnQueues
<1>4. Sound(t.outgoing, t.sent, t.buf, t.seqNum, b, n, cl, rcv)
  <2>1. CASE t.outgoing = s.outgoing /\ t.buf = s.buf
    BY <1>1, <2>1 DEF SocketSound, SameNumbers
  <2>2. CASE /\ OwnAdded(s.outgoing, t.outgoing) /\ SameHeader(s.buf[connectPacket], t.buf[connectPacket])
             /\ ~t.buf[connectPacket].pendingArp /\ \A c \in Pool : t.buf[c] = s.buf[c]
    <3>1. PICK out, out2, sent, w, v, next :
            /\ out \in Seq(Buffers) /\ out = s.outgoing /\ out2 = t.outgoing /\ sent = s.sent /\ w = s.buf /\ v = t.buf /\ next = s.seqNum
      BY DEF Clean, Sockets
    <3>2. Sound(out, sent, w, next, b, n, cl, rcv) /\ t.sent = sent /\ t.seqNum = next
      BY <1>1, <3>1 DEF SocketSound, SameNumbers
    <3>3. /\ OwnAdded(out, out2) /\ SameHeader(w[connectPacket], v[connectPacket])
          /\ ~v[connectPacket].pendingArp /\ \A c \in Pool : v[c] = w[c]
      BY <2>2, <3>1
    <3>4. Sound(out2, sent, v, next, b, n, cl, rcv)
      BY <3>1, <3>2, <3>3, SoundOwn
    <3> QED BY <3>1, <3>2, <3>4
  <2> QED BY <1>3, <2>1, <2>2 DEF OwnQueued
<1> QED BY <1>1, <1>3, <1>4 DEF SocketSound, SameNumbers

\* The acknowledgement `target' is one that the socket takes.
TakesAck(s, target) ==
    \/ target = s.seqNum
    \/ IF s.oldestUnackedSeq < s.seqNum THEN target >= s.oldestUnackedSeq
                                        ELSE target >= s.oldestUnackedSeq \/ target <= s.seqNum

\* removeSentPackets
LEMMA SoundRemoved ==
  ASSUME NEW b, NEW n \in Nat, NEW cl, NEW rcv \in Nat, NEW away \in SUBSET Pool, NEW s, Clean(s, away),
         SocketSound(s, b, n, cl, rcv), NEW target \in Int, TakesAck(s, target), n = 0 \/ target <= rcv,
         NEW t, t = removeSentPackets(s, target)
  PROVE  /\ Clean(t, away) /\ SameInput(s, t) /\ SameNumbers(s, t) /\ t.outgoing = s.outgoing
         /\ SocketSound(t, b, n, cl, rcv) /\ t.buf[connectPacket] = s.buf[connectPacket]
<1>1. PICK k \in 0..Len(s.sent) : Clean(t, away) /\ SentRemoved(s, t, target, k)
  BY RemoveSentPackets
<1>2. PICK out, sent, rest, w, v, next, oldest :
        out = s.outgoing /\ sent = s.sent /\ rest = t.sent /\ w = s.buf /\ v = t.buf /\ next = s.seqNum
        /\ oldest = s.oldestUnackedSeq
  OBVIOUS
<1>t. /\ out \in Seq(Buffers) /\ sent \in Seq(Buffers) /\ rest \in Seq(Buffers)
      /\ w \in [Buffers -> BufferRecords] /\ next \in Int /\ oldest \in Int
  BY <1>1, <1>2 DEF Clean, Sockets
<1>d. Distinct(sent) /\ \A j \in DOMAIN out, i \in DOMAIN sent : out[j] = sent[i] => out[j] \notin Pool
  BY <1>2 DEF Clean, Owned
<1>3. /\ SameInput(s, t) /\ SameNumbers(s, t) /\ t.outgoing = out /\ t.seqNum = next
      /\ \A i \in 1..k : Acked(w[sent[i]], target, oldest)
      /\ Len(rest) = Len(sent) - k /\ \A j \in 1..(Len(sent) - k) : rest[j] = sent[j + k]
      /\ \A c \in Buffers : v[c] = IF c \in {sent[i] : i \in 1..k} \cap Pool THEN EmptyBuffer ELSE w[c]
      /\ k \in 0..Len(sent)
  BY <1>1, <1>2 DEF SentRemoved, SameNumbers
<1>4. Sound(out, sent, w, next, b, n, cl, rcv)
  BY <1>2 DEF SocketSound
<1>5. ASSUME NEW i \in 1..k PROVE w[sent[i]].seqNum < target
  <2>1. i \in DOMAIN sent /\ sent[i] \in Buffers
    <3>1. DOMAIN sent = 1..Len(sent) /\ Len(sent) \in Nat
      BY <1>t, LenProperties
    <3>2. i \in DOMAIN sent
      BY <1>3, <3>1
    <3> QED BY <1>t, <3>2
  <2>2. Live(out, sent, w, sent[i])
    BY <2>1 DEF Live, Queued
  <2>3. w[sent[i]].seqNum < next
    BY <1>4, <2>1, <2>2 DEF Sound, HeadersSound
  <2>4. PICK num \in Int : num = w[sent[i]].seqNum
    BY <1>t, <2>1 DEF BufferRecords
  <2>5. num < target \/ (num > target /\ target < oldest /\ num >= oldest)
    BY <1>3, <2>4 DEF Acked
  <2>6. target = next \/ (IF oldest < next THEN target >= oldest ELSE target >= oldest \/ target <= next)
    BY <1>2 DEF TakesAck
  <2>7. num < next
    BY <2>3, <2>4
  <2>8. num < target
    <3>1. CASE target = next
      BY <2>7, <3>1
    <3>2. CASE target # next /\ oldest < next
      BY <1>t, <2>4, <2>5, <2>6, <3>2
    <3>3. CASE target # next /\ ~(oldest < next)
      BY <1>t, <2>4, <2>5, <2>7, <3>3
    <3> QED BY <3>1, <3>2, <3>3
  <2> QED BY <2>4, <2>8
<1>6. Sound(out, rest, v, next, b, n, cl, rcv)
  <2>1. AckedGo(out, sent, rest, k, w, v, target, next, b, n, cl, rcv)
    BY <1>t, <1>d, <1>3, <1>4, <1>5 DEF AckedGo
  <2> QED BY <2>1, SoundAcked
<1>7. v[connectPacket] = w[connectPacket]
  BY <1>3, BufferTypes
<1> QED BY <1>1, <1>2, <1>3, <1>6, <1>7 DEF SocketSound, SameNumbers

\* The queues, the numbers and the wire stay as they are.
SenderKept(s, t) ==
    /\ t.outgoing = s.outgoing /\ t.sent = s.sent /\ t.buf = s.buf /\ t.seqNum = s.seqNum /\ t.wire = s.wire

\* What a segment acknowledges.
LEMMA SoundAcknowledged ==
  ASSUME NEW b, NEW n \in Nat, NEW cl, NEW rcv \in Nat, NEW away \in SUBSET Pool, NEW s, Clean(s, away),
         SocketSound(s, b, n, cl, rcv), NEW seg \in SegmentType, TakesAck(s, seg.ack), n = 0 \/ seg.ack <= rcv,
         NEW t, t = Acknowledged(s, seg)
  PROVE  /\ Clean(t, away) /\ SameInput(s, t) /\ t.state = s.state /\ t.seqNum = s.seqNum
         /\ SocketSound(t, b, n, cl, rcv)
         /\ t.outgoing = s.outgoing /\ t.buf[connectPacket] = s.buf[connectPacket]
<1>1. PICK s1 : s1 = IF s.sent # << >> THEN removeSentPackets(s, seg.ack) ELSE s
  OBVIOUS
<1>2. seg.ack \in Int /\ seg.window \in Nat
  BY DEF SegmentType
<1>3. /\ Clean(s1, away) /\ SocketSound(s1, b, n, cl, rcv)
      /\ s1.outgoing = s.outgoing /\ s1.buf[connectPacket] = s.buf[connectPacket]
  <2>1. CASE s.sent # << >>
    <3>1. s1 = removeSentPackets(s, seg.ack)
      BY <1>1, <2>1
    <3> QED BY <1>2, <3>1, SoundRemoved
  <2>2. CASE s.sent = << >>
    BY <1>1, <2>2
  <2> QED BY <2>1, <2>2
<1>4. t = IF s1.sent = << >> THEN [s1 EXCEPT !.remoteWindow = seg.window] ELSE s1
  BY <1>1 DEF Acknowledged
<1>5. SenderKept(s1, t)
  <2>1. s1 \in Sockets
    BY <1>3 DEF Clean
  <2> QED BY <1>4, <2>1 DEF SenderKept, Sockets
<1>6. SocketSound(t, b, n, cl, rcv)
  BY <1>3, <1>5 DEF SocketSound, SenderKept
<1> QED BY <1>3, <1>5, <1>6, AcknowledgedClean DEF SenderKept

\* Nothing that was sent is left when nothing was accepted and the queues are
\* emptied.
LEMMA SoundCleared ==
  ASSUME NEW buf, buf[connectPacket].dataLen = 0, NEW next, NEW b, NEW cl, NEW rcv
  PROVE  Sound(<< >>, << >>, buf, next, b, 0, cl, rcv)
<1>1. PICK q : q = << >> /\ DOMAIN q = {}
  OBVIOUS
<1>2. PICK n : n = 0 /\ 1..n = {}
  OBVIOUS
<1>3. \A c : ~Queued(q, c) /\ ~Live(q, q, buf, c)
  BY <1>1 DEF Queued, Live
<1>4. HeadersSound(q, q, buf, next, b, n, cl)
  BY <1>1, <1>3 DEF HeadersSound
<1>5. MessagesSound(q, q, buf, next, n)
  BY <1>1, <1>3 DEF MessagesSound
<1>6. AllHeld(q, q, buf, next, n, rcv)
  BY <1>2 DEF AllHeld
<1>7. Sound(q, q, buf, next, b, n, cl, rcv)
  BY <1>4, <1>5, <1>6 DEF Sound
<1> QED BY <1>1, <1>2, <1>7

\* The next number keeps its meaning in the state that a segment leads to.
LEMMA PhaseNew ==
  ASSUME NEW s, NEW t, NEW b \in Int, NEW n \in Nat, NEW cl, NEW rcv, NEW seg, Phase(s, b, n, cl, rcv),
         s.state \notin {"SYN_SENT", "SYN_RECVED", "CLOSED"}, t.state = NewState(s, seg), t.seqNum = s.seqNum
  PROVE  Phase(t, b, n, cl, rcv) /\ t.state \notin {"SYN_SENT", "SYN_RECVED"}
<1>1. Transfer(s, b, n, cl) \/ Ended(s, b, n, cl)
  BY DEF Phase, Opening, SynState, Aborted
<1>2. CASE Transfer(s, b, n, cl)
  <2>1. s.state \in {"ESTABLISHED", "CLOSE_WAIT", "SEND_FIN1", "SEND_FIN2", "SEND_FIN3"}
    BY <1>2 DEF Transfer, FinStates
  <2>2. \/ t.state = s.state
        \/ s.state = "ESTABLISHED" /\ t.state = "CLOSE_WAIT"
        \/ s.state = "SEND_FIN1" /\ t.state = "SEND_FIN2"
    BY <2>1 DEF NewState
  <2> QED BY <1>2, <2>1, <2>2 DEF Phase, Transfer, FinStates
<1>3. CASE Ended(s, b, n, cl)
  <2>1. s.state \in {"FIN_WAIT_1", "FIN_WAIT_2", "CLOSING", "LAST_ACK", "TIME_WAIT"}
    BY <1>3 DEF Ended, FinSent
  <2>2. t.state \in FinSent
    BY <2>1 DEF NewState, FinSent
  <2> QED BY <1>3, <2>2 DEF Phase, Ended, FinSent
<1> QED BY <1>1, <1>2, <1>3

\* A segment with acceptable numbers that acknowledges no more than the server has
\* received; in SYN_RECVED it acknowledges the SYN.
GoodSegment(s, seg, b, n, cl, rcv, away) ==
    /\ away \in SUBSET Pool /\ Clean(s, away) /\ b \in Int /\ n \in Nat /\ rcv \in Nat
    /\ Sender(s, b, n, cl, rcv) /\ Settled(s, b) /\ s.state \notin {"SYN_SENT", "CLOSED", "TIME_WAIT"}
    /\ seg \in SegmentType /\ AckProper(s, seg) /\ seg.ack <= rcv
    /\ s.state = "SYN_RECVED" => AckCurrent(s, seg) /\ b = 0

LEMMA SenderGood ==
  ASSUME NEW away, NEW s, NEW seg, NEW b, NEW n, NEW cl, NEW rcv, GoodSegment(s, seg, b, n, cl, rcv, away),
         NEW t, t = processGood(s, seg)
  PROVE  Sender(t, b, n, cl, rcv) /\ Settled(t, b) /\ t.active = s.active
<1>a. /\ away \in SUBSET Pool /\ Clean(s, away) /\ b \in Int /\ n \in Nat /\ rcv \in Nat
      /\ Sender(s, b, n, cl, rcv) /\ Settled(s, b) /\ s.state \notin {"SYN_SENT", "CLOSED", "TIME_WAIT"}
      /\ seg \in SegmentType /\ AckProper(s, seg) /\ seg.ack <= rcv
      /\ s.state = "SYN_RECVED" => AckCurrent(s, seg) /\ b = 0
  BY DEF GoodSegment
<1> USE <1>a
<1>1. PICK s2 : s2 = Acknowledged(s, seg)
  OBVIOUS
<1>2. /\ Clean(s2, away) /\ s2.active = s.active /\ s2.state = s.state /\ s2.seqNum = s.seqNum
      /\ SocketSound(s2, b, n, cl, rcv)
      /\ s2.outgoing = s.outgoing /\ s2.buf[connectPacket] = s.buf[connectPacket]
  <2>1. TakesAck(s, seg.ack)
    BY DEF AckProper, TakesAck
  <2>2. SocketSound(s, b, n, cl, rcv)
    BY DEF SocketSound, Sender
  <2>3. n = 0 \/ seg.ack <= rcv
    OBVIOUS
  <2> QED BY <1>1, <2>1, <2>2, <2>3, SoundAcknowledged DEF SameInput
<1> DEFINE s3 == IF seg.dataLen # 0 THEN processPacketData(s2, seg).sock ELSE s2
           ack == \/ seg.dataLen # 0 /\ s3.outgoing = << >>
                  \/ TakesFin(s3, seg) /\ s3.state # "SEND_FIN1"
           s4 == CASE s3.state = "SYN_RECVED" /\ ~AckCurrent(s3, seg) -> clearQueues(s3)
                   [] s3.state = "SYN_RECVED" /\ AckCurrent(s3, seg) ->
                         [s3 EXCEPT !.state = "ESTABLISHED", !.remoteWindow = seg.window]
                   [] OTHER -> [s3 EXCEPT !.state = NewState(s3, seg),
                                          !.ackNum = IF TakesFin(s3, seg) THEN @ + 1 ELSE @]
<1>3. t = CASE seg.dataLen # 0 /\ ~processPacketData(s2, seg).stored -> s2
            [] OTHER -> IF ack THEN enqueueOwn(s4) ELSE s4
  BY <1>1 DEF processGood, Acknowledged
<1>4. processPacketData(s2, seg).stored <=> hasRoom(s2.incoming)
  BY DEF processPacketData
<1>5. CASE seg.dataLen # 0 /\ ~hasRoom(s2.incoming)
  <2>1. t = s2
    BY <1>3, <1>4, <1>5
  <2> HIDE DEF s3, ack, s4
  <2>2. Phase(s2, b, n, cl, rcv)
    <3>1. CASE Opening(s, b, n, cl, rcv)
      <4>1. s.state = "SYN_RECVED" /\ s.seqNum = b + 1 /\ s.seqNum # b
        BY <3>1 DEF Opening, SynState, Settled
      <4>2. Parked(s)
        BY <3>1, <4>1 DEF Opening
      <4>3. Parked(s2)
        BY <1>2, <4>2 DEF Parked
      <4>4. Opening(s2, b, n, cl, rcv)
        BY <1>2, <3>1, <4>1, <4>3 DEF Opening, SynState
      <4> QED BY <4>4 DEF Phase
    <3>2. CASE Transfer(s, b, n, cl)
      BY <1>2, <3>2 DEF Transfer, Phase
    <3>3. CASE Ended(s, b, n, cl) \/ Aborted(s, n, cl)
      BY <1>2, <3>3 DEF Ended, Aborted, Phase
    <3> QED BY <3>1, <3>2, <3>3 DEF Sender, Phase
  <2> QED BY <1>2, <2>1, <2>2 DEF Sender, SocketSound, Settled
<1>6. CASE ~(seg.dataLen # 0 /\ ~hasRoom(s2.incoming))
  <2>1. t = IF ack THEN enqueueOwn(s4) ELSE s4
    BY <1>3, <1>4, <1>6
  <2>3. Clean(s3, away) /\ s3.active = s.active /\ s3.state = s.state /\ s3.seqNum = s.seqNum /\ SocketSound(s3, b, n, cl, rcv)
    <3>1. CASE seg.dataLen # 0
      <4>1. s3 = processPacketData(s2, seg).sock /\ hasRoom(s2.incoming)
        BY <1>6, <3>1
      <4> HIDE DEF s3
      <4>2. Clean(s3, away) /\ s3.active = s2.active
        BY <1>2, <3>1, <4>1, ProcessPacketData
      <4>3. s3 = [s2 EXCEPT !.ackNum = @ + seg.dataLen, !.incoming = Append(@, InRing(seg))]
        BY <4>1 DEF processPacketData
      <4>4. SenderKept(s2, s3) /\ s3.state = s2.state
        <5>1. s2 \in Sockets
          BY <1>2 DEF Clean
        <5> QED BY <4>3, <5>1 DEF SenderKept, Sockets
      <4> QED BY <1>2, <4>2, <4>4 DEF SocketSound, SenderKept
    <3>2. CASE seg.dataLen = 0
      BY <1>2, <3>2
    <3> QED BY <3>1, <3>2
  <2> HIDE DEF s3
  <2>4. s3 \in Sockets /\ seg.window \in Nat /\ "ESTABLISHED" \in States /\ s3.state = s.state
    BY <2>3 DEF Clean, SegmentType, States
  <2>5. /\ s4 \in Sockets /\ SameQueues(s3, s4) /\ s4.incoming = s3.incoming /\ SenderKept(s3, s4) /\ s4.active = s3.active
        /\ s4.state = IF s.state = "SYN_RECVED" THEN "ESTABLISHED" ELSE NewState(s3, seg)
    <3>1. CASE s3.state = "SYN_RECVED"
      <4>1. AckCurrent(s3, seg)
        BY <2>3, <3>1 DEF AckCurrent
      <4>2. s4 = [s3 EXCEPT !.state = "ESTABLISHED", !.remoteWindow = seg.window]
        BY <3>1, <4>1
      <4> HIDE DEF s4
      <4> QED BY <2>4, <3>1, <4>2 DEF Sockets, SameQueues, SenderKept
    <3>2. CASE s3.state # "SYN_RECVED"
      <4>1. s4 = [s3 EXCEPT !.state = NewState(s3, seg), !.ackNum = IF TakesFin(s3, seg) THEN @ + 1 ELSE @]
        BY <3>2
      <4> HIDE DEF s4
      <4>2. PICK st \in States : st = NewState(s3, seg)
        BY <2>4 DEF Sockets, NewState, States
      <4>3. PICK a \in Int : a = IF TakesFin(s3, seg) THEN s3.ackNum + 1 ELSE s3.ackNum
        <5>1. s3.ackNum \in Int
          BY <2>4 DEF Sockets
        <5> QED BY <5>1
      <4>4. s4 = [s3 EXCEPT !.state = st, !.ackNum = a]
        BY <4>1, <4>2, <4>3
      <4> QED BY <2>4, <3>2, <4>2, <4>4 DEF Sockets, SameQueues, SenderKept
    <3> QED BY <3>1, <3>2
  <2> HIDE DEF s4, ack
  <2>6. Clean(s4, away) /\ SocketSound(s4, b, n, cl, rcv) /\ s4.seqNum = s.seqNum /\ s4.active = s.active
    <3>1. Early(s4.state, s4.replaced)
      BY <2>3, <2>4, <2>5 DEF Clean, SameQueues, NewState, Early
    <3> QED BY <2>3, <2>5, <3>1 DEF Clean, SameQueues, SocketSound, SenderKept
  <2>8. /\ SocketSound(t, b, n, cl, rcv) /\ t.state = s4.state /\ t.seqNum = s4.seqNum /\ t.active = s4.active
    <3>1. CASE ack
      <4>1. t = enqueueOwn(s4)
        BY <2>1, <3>1
      <4>2. PICK u : u = s4
        OBVIOUS
      <4>3. QueuesOwn(u, t, b, n, cl, rcv, away)
        BY <2>6, <4>1, <4>2 DEF QueuesOwn
      <4>4. SocketSound(t, b, n, cl, rcv) /\ SameNumbers(u, t) /\ SameInput(u, t)
        BY <4>3, SoundOwnQueued
      <4> QED BY <4>2, <4>4 DEF SameNumbers, SameInput
    <3>2. CASE ~ack
      BY <2>1, <2>6, <3>2
    <3> QED BY <3>1, <3>2
  <2>9. Phase(t, b, n, cl, rcv) /\ t.state # "SYN_RECVED"
    <3>1. CASE s.state = "SYN_RECVED"
      <4>1. t.state = "ESTABLISHED" /\ t.seqNum = b + 1 /\ b = 0
        BY <2>5, <2>6, <2>8, <3>1 DEF Settled
      <4>2. Transfer(t, b, n, cl)
        BY <4>1 DEF Transfer, FinStates
      <4> QED BY <4>1, <4>2 DEF Phase
    <3>2. CASE s.state # "SYN_RECVED"
      <4>1. NewState(s3, seg) = NewState(s, seg)
        <5>1. AckCurrent(s3, seg) <=> AckCurrent(s, seg)
          BY <2>3 DEF AckCurrent
        <5> QED BY <2>3, <5>1 DEF NewState
      <4>2. t.state = NewState(s, seg) /\ t.seqNum = s.seqNum
        BY <2>5, <2>6, <2>8, <3>2, <4>1
      <4>3. Phase(s, b, n, cl, rcv)
        BY DEF Sender
      <4> QED BY <3>2, <4>2, <4>3, PhaseNew
    <3> QED BY <3>1, <3>2
  <2> QED BY <2>6, <2>8, <2>9 DEF Sender, SocketSound, Settled
<1> QED BY <1>5, <1>6

\* What the sender is after a segment: destroyed, or as it should be, perhaps with
\* another number for its SYN, which then was never sent.
SenderAfter(s, t, b, n, cl, rcv) ==
    \/ Destroyed(s, t)
    \/ /\ t.active = s.active
       /\ \E c \in {0, -1} : /\ Sender(t, c, n, cl, rcv) /\ SenderTypes(c, n, rcv)
                             /\ c = b \/ (b = 0 /\ s.wire = {} /\ rcv = 0)

\* A segment while the SYN is out.
SynSegment(s, seg, b, n, cl, rcv, away) ==
    /\ away \in SUBSET Pool /\ Clean(s, away) /\ SenderTypes(b, n, rcv)
    /\ Sender(s, b, n, cl, rcv) /\ s.state = "SYN_SENT"
    /\ seg \in SegmentType
    /\ seg.isAck => seg.ack >= 1

LEMMA SenderSynSent ==
  ASSUME NEW away, NEW s, NEW seg, NEW b, NEW n, NEW cl, NEW rcv, SynSegment(s, seg, b, n, cl, rcv, away),
         NEW t, t = processSynSent(s, seg)
  PROVE  SenderAfter(s, t, b, n, cl, rcv)
<1>a. /\ away \in SUBSET Pool /\ Clean(s, away) /\ SenderTypes(b, n, rcv)
      /\ Sender(s, b, n, cl, rcv) /\ s.state = "SYN_SENT"
      /\ seg \in SegmentType
      /\ seg.isAck => seg.ack >= 1
  BY DEF SynSegment
<1> USE <1>a
<1>1. /\ s \in Sockets /\ seg.seq \in Int /\ seg.window \in Nat /\ s.seqNum \in Int /\ seg.ack \in Int
      /\ rcv \in Nat
  BY DEF Clean, Sockets, SegmentType, SenderTypes
<1>2. /\ b = 0 /\ n = 0 /\ ~cl
      /\ (s.seqNum = 0 /\ s.wire = {} /\ rcv = 0) \/ (s.seqNum = 1 /\ Parked(s))
  BY DEF Sender, Phase, Opening, Transfer, Ended, Aborted, FinStates, FinSent
<1>3. PICK a \in Int, m \in Int : a = seg.seq + 1 /\ m = s.seqNum - 1
  BY <1>1
<1>4. "ESTABLISHED" \in States /\ "SYN_RECVED" \in States
  BY DEF States
<1>5. SocketSound(s, b, n, cl, rcv)
  BY DEF Sender, SocketSound
<1>6. CASE seg.rst /\ AckCurrent(s, seg)
  <2>1. t = destroy(s, 1)
    BY <1>6 DEF processSynSent
  <2> QED BY <2>1, Destroy DEF SenderAfter
<1>7. CASE ~seg.rst /\ seg.syn /\ AckCurrent(s, seg)
  <2>0. seg.isAck /\ seg.ack = s.seqNum /\ s.seqNum = 1
    BY <1>1, <1>2, <1>7 DEF AckCurrent
  <2>1. PICK s1 : s1 = removeSentPackets(s, seg.ack)
    OBVIOUS
  <2>2. Clean(s1, away) /\ SameInput(s, s1) /\ SameNumbers(s, s1) /\ SocketSound(s1, b, n, cl, rcv)
    <3>1. TakesAck(s, seg.ack)
      BY <2>0 DEF TakesAck
    <3>2. n \in Nat /\ (n = 0 \/ seg.ack <= rcv)
      BY <1>2
    <3>3. PICK target \in Int : target = seg.ack
      BY <1>1
    <3>4. TakesAck(s, target) /\ (n = 0 \/ target <= rcv) /\ s1 = removeSentPackets(s, target)
      BY <2>1, <3>1, <3>2, <3>3
    <3> QED BY <1>1, <1>5, <3>2, <3>4, SoundRemoved
  <2>3. PICK s2 : s2 = [s1 EXCEPT !.state = "ESTABLISHED", !.ackNum = a, !.remoteWindow = seg.window]
    OBVIOUS
  <2>4. s1 \in Sockets
    BY <2>2 DEF Clean
  <2>5. /\ s2 \in Sockets /\ SameQueues(s1, s2) /\ s2.incoming = s1.incoming /\ s2.active = s1.active
        /\ s2.state = "ESTABLISHED" /\ SenderKept(s1, s2)
    BY <1>1, <1>3, <1>4, <2>3, <2>4 DEF Sockets, SameQueues, SenderKept
  <2>6. Clean(s2, away) /\ SocketSound(s2, b, n, cl, rcv)
    <3>1. Early(s2.state, s2.replaced)
      BY <2>5 DEF Early
    <3> QED BY <2>2, <2>5, <3>1 DEF Clean, SameQueues, SocketSound, SenderKept
  <2>7. t = enqueueOwn(s2)
    <3>1. s2 = [removeSentPackets(s, seg.ack) EXCEPT
                  !.state = "ESTABLISHED", !.ackNum = seg.seq + 1, !.remoteWindow = seg.window]
      BY <1>3, <2>1, <2>3
    <3> QED BY <1>7, <2>0, <3>1 DEF processSynSent
  <2>8. QueuesOwn(s2, t, b, n, cl, rcv, away)
    BY <2>6, <2>7 DEF QueuesOwn
  <2>9. SameInput(s2, t) /\ SameNumbers(s2, t) /\ SocketSound(t, b, n, cl, rcv)
    BY <2>8, SoundOwnQueued
  <2>10. t.state = "ESTABLISHED" /\ t.seqNum = 1 /\ t.active = s.active
    BY <2>0, <2>2, <2>5, <2>9 DEF SameInput, SameNumbers, SenderKept
  <2>11. Phase(t, b, n, cl, rcv)
    BY <1>2, <2>10 DEF Phase, Transfer, FinStates
  <2>12. Sender(t, b, n, cl, rcv)
    BY <2>9, <2>11 DEF Sender, SocketSound
  <2> QED BY <1>2, <2>10, <2>12 DEF SenderAfter
<1>8. CASE ~seg.rst /\ seg.syn /\ ~seg.isAck
  <2>1. PICK s1 : s1 = [s EXCEPT !.state = "SYN_RECVED", !.ackNum = a, !.seqNum = m]
    OBVIOUS
  <2>2. /\ s1 \in Sockets /\ SameQueues(s, s1) /\ s1.incoming = s.incoming /\ s1.active = s.active
        /\ s1.buf = s.buf /\ s1.state = "SYN_RECVED" /\ s1.seqNum = m /\ s1.wire = s.wire
    BY <1>1, <1>3, <1>4, <2>1 DEF Sockets, SameQueues
  <2>3. Clean(s1, away)
    <3>1. Early(s1.state, s1.replaced)
      BY <2>2 DEF Clean, SameQueues, Early
    <3> QED BY <2>2, <3>1 DEF Clean, SameQueues
  <2>4. PICK s2 : s2 = clearQueues(s1)
    OBVIOUS
  <2>5. Clean(s2, away) /\ QueuesCleared(s1, s2)
    BY <2>3, <2>4, ClearQueues
  <2>6. ~AckCurrent(s, seg)
    BY <1>8 DEF AckCurrent
  <2>7. t = enqueueOwn(s2)
    <3>1. s1 = [s EXCEPT !.state = "SYN_RECVED", !.ackNum = seg.seq + 1, !.seqNum = @ - 1]
      BY <1>3, <2>1
    <3> QED BY <1>8, <2>4, <2>6, <3>1 DEF processSynSent
  <2>8. PICK c : c \in {0, -1} /\ c = m /\ (c = b \/ (b = 0 /\ s.wire = {} /\ rcv = 0))
    BY <1>2, <1>3
  <2>9. SocketSound(s2, c, n, cl, rcv)
    <3>1. s2.outgoing = << >> /\ s2.sent = << >> /\ s2.buf[connectPacket].dataLen = 0
      <4>1. s.buf[connectPacket].dataLen = 0
        BY <1>5 DEF SocketSound, Sound, HeadersSound
      <4> QED BY <2>2, <2>5, <4>1, BufferTypes DEF QueuesCleared
    <3>2. PICK w, next : w = s2.buf /\ next = s2.seqNum
      OBVIOUS
    <3>3. Sound(<< >>, << >>, w, next, c, 0, cl, rcv)
      BY <3>1, <3>2, SoundCleared
    <3>4. s2.wire \subseteq Allowed(c, n, cl)
      <4>1. s2.wire = s.wire
        BY <2>2, <2>5 DEF QueuesCleared, SameNumbers
      <4> QED BY <1>5, <2>8, <4>1 DEF SocketSound
    <3> QED BY <1>2, <3>1, <3>2, <3>3, <3>4 DEF SocketSound
  <2>10. QueuesOwn(s2, t, c, n, cl, rcv, away)
    BY <2>5, <2>7, <2>9 DEF QueuesOwn
  <2>11. s2.outgoing = << >> /\ s2.sent = << >> /\ s2.state = "SYN_RECVED" /\ s2.seqNum = c /\ s2.active = s.active
         /\ s2.wire = s.wire
    BY <2>2, <2>5, <2>8 DEF QueuesCleared, SameNumbers
  <2>12. /\ SameInput(s2, t) /\ SameNumbers(s2, t) /\ SocketSound(t, c, n, cl, rcv) /\ t.sent = s2.sent
         /\ t.outgoing = <<connectPacket>> /\ ~t.buf[connectPacket].pendingArp
    BY <2>10, <2>11, SoundOwnQueued
  <2>13. t.state = "SYN_RECVED" /\ t.seqNum = c /\ t.active = s.active /\ Unsent(t)
    BY <2>11, <2>12 DEF SameInput, SameNumbers, Unsent
  <2>14. Phase(t, c, n, cl, rcv)
    BY <1>2, <2>8, <2>13 DEF Phase, Opening, SynState
  <2>15. Sender(t, c, n, cl, rcv) /\ SenderTypes(c, n, rcv)
    BY <1>2, <2>8, <2>12, <2>14 DEF Sender, SocketSound, SenderTypes
  <2> QED BY <2>8, <2>13, <2>15 DEF SenderAfter
<1>9. CASE t = s
  BY <1>2, <1>9 DEF SenderAfter
<1> QED BY <1>6, <1>7, <1>8, <1>9 DEF processSynSent

\* What can arrive acknowledges at least the SYN, and no more than was received.
LEMMA ArrivingAcks ==
  ASSUME PeerType, NEW seg \in Arriving
  PROVE  seg \in SegmentType /\ (seg.isAck => 1 <= seg.ack /\ seg.ack <= peer.rcv)
<1>1. peer.rcv \in Nat /\ peer.next \in Nat /\ peer.fin \in BOOLEAN
  BY DEF PeerType
<1>2. seg \in SegmentType
  BY ArrivingTyped
<1>3. CASE seg \in Segments(TRUE, FALSE, FALSE, FALSE, {0}, {0}, {0})
  BY <1>2, <1>3 DEF Segments
<1>4. CASE peer.rcv > 0 /\ seg \in ArrivingOpen
  <2>1. PICK after \in Nat : after = IF peer.fin THEN peer.next + 1 ELSE peer.next
    BY <1>1
  <2>2. \/ seg \in Segments(TRUE, FALSE, FALSE, TRUE, {0}, {1}, {0})
        \/ seg \in Segments(FALSE, FALSE, TRUE, TRUE, {0}, {1}, {0})
        \/ seg \in Segments(FALSE, FALSE, FALSE, TRUE, 1..after, 1..peer.rcv, 0..MaxSeg)
        \/ seg \in Segments(FALSE, TRUE, FALSE, TRUE, 1..peer.next, 1..peer.rcv, 0..MaxSeg)
        \/ seg \in Segments(FALSE, FALSE, TRUE, TRUE, 1..after, {peer.rcv}, {0})
    BY <1>4, <2>1 DEF ArrivingOpen
  <2>3. seg.ack \in {1} \/ seg.ack \in 1..peer.rcv \/ seg.ack \in {peer.rcv}
    BY <2>2 DEF Segments
  <2>4. 1 <= seg.ack /\ seg.ack <= peer.rcv
    BY <1>1, <1>4, <2>3
  <2> QED BY <1>2, <2>4
<1> QED BY <1>3, <1>4 DEF Arriving

\* The sender s of the connection, before something arrives.
SenderWaits(s, b, n, cl, away) ==
    /\ PeerType /\ away \in SUBSET Pool /\ Clean(s, away) /\ s.active /\ SenderTypes(b, n, peer.rcv)
    /\ Sender(s, b, n, cl, peer.rcv) /\ Settled(s, b) /\ ServerGot(peer, b, n, cl)

LEMMA SenderProcessed ==
  ASSUME NEW away, NEW s, NEW b, NEW n, NEW cl, SenderWaits(s, b, n, cl, away),
         NEW seg \in Arriving, NEW t, t = process(s, seg)
  PROVE  SenderAfter(s, t, b, n, cl, peer.rcv)
<1>a. /\ PeerType /\ away \in SUBSET Pool /\ Clean(s, away) /\ s.active /\ SenderTypes(b, n, peer.rcv)
      /\ Sender(s, b, n, cl, peer.rcv) /\ Settled(s, b) /\ ServerGot(peer, b, n, cl)
  BY DEF SenderWaits
<1> USE <1>a
<1>1. PICK rcv \in Nat, units \in Seq(Int) : rcv = peer.rcv /\ units = peer.got
  BY DEF PeerType
<1>2. seg \in SegmentType /\ (seg.isAck => 1 <= seg.ack /\ seg.ack <= rcv)
  BY <1>1, ArrivingAcks
<1>3. b \in {0, -1} /\ n \in Nat /\ SenderTypes(b, n, rcv) /\ Sender(s, b, n, cl, rcv)
  BY <1>1 DEF SenderTypes
<1>4. s.seqNum \in Int /\ seg.ack \in Int
  BY <1>2 DEF Clean, Sockets, SegmentType
<1>5. CASE t = s
  BY <1>3, <1>1, <1>5 DEF SenderAfter
<1>6. CASE s.state = "SYN_SENT" /\ t = processSynSent(s, seg)
  <2>1. SynSegment(s, seg, b, n, cl, rcv, away)
    BY <1>2, <1>3, <1>4, <1>6 DEF SynSegment
  <2> QED BY <1>1, <1>6, <2>1, SenderSynSent
<1>7. CASE t = processReset(s, seg)
  <2>1. CASE SeqProper(s, seg)
    <3>1. t = destroy(s, 1)
      BY <1>7, <2>1 DEF processReset
    <3>2. 1 \in 0..4
      OBVIOUS
    <3> QED BY <3>1, <3>2, Destroy DEF SenderAfter
  <2>2. CASE ~SeqProper(s, seg)
    BY <1>5, <1>7, <2>2 DEF processReset
  <2> QED BY <2>1, <2>2
<1>8. CASE /\ s.state \notin {"SYN_SENT", "CLOSED", "TIME_WAIT"} /\ AckProper(s, seg)
           /\ t = processGood(s, seg)
  <2>1. seg.isAck /\ 1 <= seg.ack /\ seg.ack <= rcv
    BY <1>2, <1>8 DEF AckProper
  <2>2. ASSUME s.state = "SYN_RECVED" PROVE AckCurrent(s, seg) /\ b = 0
    <3>1. n = 0 /\ ~cl /\ s.seqNum = b + 1
      BY <2>2 DEF Sender, Phase, Opening, Transfer, Ended, Aborted, FinStates, FinSent, Settled
    <3>2. PICK len \in Nat : len = Len(units) /\ DOMAIN units = 1..len
      BY <1>1, LenProperties
    <3>3. len = 0
      <4>1. SUFFICES ASSUME len # 0 PROVE FALSE
        OBVIOUS
      <4>2. 1 \in DOMAIN units
        BY <3>2, <4>1
      <4> QED BY <1>1, <3>1, <4>2 DEF ServerGot
    <3>4. IF b = 0 THEN rcv = 0 \/ rcv = len + 1 ELSE rcv = len
      BY <1>1, <3>2 DEF ServerGot
    <3>5. rcv = 1 /\ b = 0
      BY <1>1, <1>3, <1>4, <2>1, <3>3, <3>4
    <3> QED BY <1>4, <2>1, <3>1, <3>5 DEF AckCurrent
  <2>3. GoodSegment(s, seg, b, n, cl, rcv, away)
    BY <1>2, <1>3, <1>8, <2>1, <2>2 DEF GoodSegment
  <2>4. Sender(t, b, n, cl, rcv) /\ t.active = s.active
    BY <1>8, <2>3, SenderGood
  <2> QED BY <1>1, <1>3, <2>4 DEF SenderAfter
<1> QED BY <1>5, <1>6, <1>7, <1>8 DEF process

\* The two parts of a turn.
LEMMA SenderTurn ==
  ASSUME PeerType, NEW away \in SUBSET Pool, NEW s, Clean(s, away), NEW n \in Nat, NEW cl,
         NEW b, Connection(s, peer, b, n, cl), NEW t \in Turns(s)
  PROVE  \E c : Connection(t, peer, c, n, cl)
<1>1. PICK s1 : TurnParts(s, t, s1)
  BY TurnSplit
<1>2. PICK overdue \in BOOLEAN, resolved \in BOOLEAN : t = drivePackets(s1, overdue, resolved)
  BY <1>1 DEF TurnParts
<1>3. s1 = s \/ \E seg \in Arriving : s1 = process(s, seg)
  BY <1>1 DEF TurnParts
<1>4. peer.rcv \in Nat
  BY DEF PeerType
<1>5. CASE ~s.active
  <2>1. s1 = s
    BY <1>3, <1>5 DEF process
  <2>2. t = s
    BY <1>2, <1>5, <2>1 DEF drivePackets
  <2> QED BY <2>2
<1>6. CASE s.active
  <2>1. /\ b \in {0, -1} /\ (b = 0 \/ n = 0) /\ SenderTypes(b, n, peer.rcv)
        /\ Sender(s, b, n, cl, peer.rcv) /\ Settled(s, b)
        /\ ServerGot(peer, b, n, cl) /\ s.wire \subseteq Allowed(b, n, cl)
    BY <1>4, <1>6 DEF Connection, SenderTypes
  <2>2. SenderAfter(s, s1, b, n, cl, peer.rcv) /\ Clean(s1, away)
    <3>1. CASE s1 = s
      BY <2>1, <3>1 DEF SenderAfter
    <3>2. ASSUME NEW seg \in Arriving, s1 = process(s, seg)
          PROVE  SenderAfter(s, s1, b, n, cl, peer.rcv) /\ Clean(s1, away)
      <4>1. SenderWaits(s, b, n, cl, away)
        BY <1>6, <2>1 DEF SenderWaits
      <4>2. SenderAfter(s, s1, b, n, cl, peer.rcv)
        BY <3>2, <4>1, SenderProcessed
      <4>3. seg \in SegmentType
        BY ArrivingAcks
      <4> QED BY <3>2, <4>2, <4>3, Process
    <3> QED BY <1>3, <3>1, <3>2
  <2>3. ASSUME NEW u, Destroyed(s, u) PROVE Connection(u, peer, b, n, cl)
    BY <2>1, <2>3 DEF Connection, Destroyed
  <2>4. CASE Destroyed(s, s1)
    <3>1. t = s1
      BY <1>2, <2>4 DEF drivePackets, Destroyed
    <3> QED BY <2>3, <2>4, <3>1
  <2>5. CASE ~Destroyed(s, s1)
    <3>1. PICK c \in {0, -1} : /\ Sender(s1, c, n, cl, peer.rcv) /\ SenderTypes(c, n, peer.rcv) /\ s1.active
                               /\ c = b \/ (b = 0 /\ s.wire = {} /\ peer.rcv = 0)
      BY <1>6, <2>2, <2>5 DEF SenderAfter
    <3>2. ServerGot(peer, c, n, cl) /\ (c = 0 \/ n = 0)
      <4>1. peer.got \in Seq(Int)
        BY DEF PeerType
      <4>2. Len(peer.got) \in Nat /\ Len(<< >>) = 0
        BY <4>1
      <4> QED BY <1>4, <2>1, <3>1, <4>2 DEF ServerGot, SenderTypes
    <3>3. s1.wire \subseteq Allowed(c, n, cl)
      BY <3>1 DEF Sender
    <3>4. PICK rcv : rcv = peer.rcv
      OBVIOUS
    <3>5. Destroyed(s1, t) \/ (Sender(t, c, n, cl, rcv) /\ Settled(t, c))
      BY <1>2, <2>2, <3>1, <3>4, SenderDriven
    <3>6. Destroyed(s1, t) \/ t.active
      BY <1>2, <2>2, <3>1, DrivePackets DEF SameInput
    <3>7. CASE Destroyed(s1, t)
      BY <3>2, <3>3, <3>7 DEF Connection, Destroyed
    <3>8. CASE Sender(t, c, n, cl, rcv) /\ Settled(t, c) /\ t.active
      <4>1. t.wire \subseteq Allowed(c, n, cl)
        BY <3>8 DEF Sender
      <4> QED BY <3>2, <3>4, <3>8, <4>1 DEF Connection
    <3> QED BY <3>5, <3>6, <3>7, <3>8
  <2> QED BY <2>4, <2>5
<1> QED BY <1>5, <1>6

-----------------------------------------------------------------------------
(* What the steps of the bot and the server do to the connection. *)

\* A step that is none of the sender's business.
LEMMA ConnectionKept ==
  ASSUME NEW s, NEW p, NEW b, NEW n, NEW cl, Connection(s, p, b, n, cl),
         NEW t, SenderKept(s, t), t.active = s.active, t.state = s.state
  PROVE  Connection(t, p, b, n, cl)
<1>1. t.wire = s.wire /\ t.seqNum = s.seqNum /\ t.outgoing = s.outgoing /\ t.sent = s.sent /\ t.buf = s.buf
  BY DEF SenderKept
<1>2. ASSUME NEW rcv, Phase(s, b, n, cl, rcv) PROVE Phase(t, b, n, cl, rcv)
  BY <1>1, <1>2 DEF Phase, Opening, Transfer, Ended, Aborted, SynState, Unsent, Parked
<1> QED BY <1>1, <1>2 DEF Connection, Sender, Settled

LEMMA ConnectionDestroyed ==
  ASSUME NEW s, NEW p, NEW b, NEW n, NEW cl, Connection(s, p, b, n, cl), NEW t, Destroyed(s, t)
  PROVE  Connection(t, p, b, n, cl)
BY DEF Connection, Destroyed

\* A buffer that is not on a queue is written to.
LEMMA ConnectionUnqueued ==
  ASSUME NEW s, NEW p, NEW b, NEW n, NEW cl, Connection(s, p, b, n, cl),
         NEW away \in SUBSET Pool, Clean(s, away), NEW c \in away, NEW t, Unqueued(s, t, c)
  PROVE  Connection(t, p, b, n, cl) /\ ~Queued(s.outgoing, c) /\ ~Queued(s.sent, c)
<1>1. ~Queued(s.outgoing, c) /\ ~Queued(s.sent, c)
  BY DEF Queued, Clean, Owned
<1>2. /\ t.wire = s.wire /\ t.seqNum = s.seqNum /\ t.outgoing = s.outgoing /\ t.sent = s.sent
      /\ t.state = s.state /\ t.active = s.active
  BY DEF Unqueued, SameNumbers, SameInput
<1>3. PICK out, sent, w, v : out = s.outgoing /\ sent = s.sent /\ w = s.buf /\ v = t.buf
  OBVIOUS
<1>4. out \in Seq(Buffers) /\ c # connectPacket /\ connectPacket \in Buffers /\ Pool \subseteq Buffers
  BY <1>3, BufferTypes DEF Clean, Sockets
<1>5. \A d \in Buffers : d # c => v[d] = w[d]
  BY <1>3 DEF Unqueued
<1>6. \A d \in Buffers : Queued(out, d) \/ Queued(sent, d) => v[d] = w[d]
  BY <1>1, <1>3, <1>5
<1>7. \A j \in DOMAIN out : out[j] \in Buffers /\ Queued(out, out[j]) /\ v[out[j]] = w[out[j]]
  BY <1>4, <1>6 DEF Queued
<1>8. \A d \in Buffers : Live(out, sent, v, d) => Live(out, sent, w, d) /\ v[d] = w[d]
  BY <1>6, <1>7 DEF Live
<1>9. ASSUME NEW next, NEW rcv, Sound(out, sent, w, next, b, n, cl, rcv)
      PROVE  Sound(out, sent, v, next, b, n, cl, rcv)
  <2>1. HeadersSound(out, sent, v, next, b, n, cl)
    BY <1>4, <1>5, <1>7, <1>8, <1>9 DEF Sound, HeadersSound
  <2>2. MessagesSound(out, sent, v, next, n)
    <3>1. MessagesSound(out, sent, w, next, n)
      BY <1>9 DEF Sound
    <3>2. \A d \in Pool : Queued(sent, d) \/ Queued(out, d) => v[d].dataLen = 1 /\ v[d].data \in 1..n
      BY <1>4, <1>6, <3>1 DEF MessagesSound
    <3>3. \A d \in Pool : Live(out, sent, v, d) => v[d].data <= v[d].seqNum
      BY <1>4, <1>8, <3>1 DEF MessagesSound
    <3> QED BY <1>7, <3>1, <3>2, <3>3 DEF MessagesSound
  <2>3. AllHeld(out, sent, v, next, n, rcv)
    <3>1. AllHeld(out, sent, w, next, n, rcv)
      BY <1>9 DEF Sound
    <3>2. \A d \in Pool : Queued(sent, d) \/ Queued(out, d) => v[d] = w[d]
      BY <1>4, <1>6
    <3> QED BY <3>1, <3>2 DEF AllHeld
  <2> QED BY <2>1, <2>2, <2>3 DEF Sound
<1>10. ASSUME NEW rcv, Phase(s, b, n, cl, rcv) PROVE Phase(t, b, n, cl, rcv)
  <2>1. t.buf[connectPacket] = s.buf[connectPacket]
    BY <1>3, <1>4, <1>5
  <2> QED BY <1>2, <1>10, <2>1 DEF Phase, Opening, Transfer, Ended, Aborted, SynState, Unsent, Parked
<1>11. ASSUME NEW rcv, Sender(s, b, n, cl, rcv) PROVE Sender(t, b, n, cl, rcv)
  <2>1. PICK next : next = s.seqNum
    OBVIOUS
  <2>2. Sound(out, sent, w, next, b, n, cl, rcv)
    BY <1>3, <1>11, <2>1 DEF Sender
  <2>3. Sound(out, sent, v, next, b, n, cl, rcv)
    BY <1>9, <2>2
  <2> QED BY <1>2, <1>3, <1>10, <1>11, <2>1, <2>3 DEF Sender
<1> QED BY <1>1, <1>2, <1>11 DEF Connection, Settled

\* connect2, of a new socket.
LEMMA ConnectionOpens ==
  ASSUME NEW p, p.rcv = 0, p.got = << >>, NEW away \in SUBSET Pool, NEW s, s = reinit, Clean(s, away),
         NEW n, n = 0, NEW cl, ~cl, NEW t, t = connect2(s)
  PROVE  \E b : Connection(t, p, b, n, cl)
<1>1. PICK b : b = 0
  OBVIOUS
<1>2. PICK s1 : s1 = [s EXCEPT !.state = "SYN_SENT", !.active = TRUE]
  OBVIOUS
<1>3. /\ s \in Sockets /\ "SYN_SENT" \in States /\ s.outgoing = << >> /\ s.sent = << >> /\ s.seqNum = 0
      /\ s.wire = {} /\ s.buf[connectPacket].dataLen = 0
  BY BufferTypes DEF Clean, States, reinit, EmptyBuffer
<1>4. /\ s1 \in Sockets /\ SameQueues(s, s1) /\ s1.incoming = s.incoming /\ s1.active /\ s1.state = "SYN_SENT"
      /\ s1.wire = s.wire /\ s1.buf = s.buf /\ s1.seqNum = s.seqNum
  BY <1>2, <1>3 DEF Sockets, SameQueues
<1>5. Clean(s1, away)
  <2>1. s1.replaced = 0
    BY <1>4 DEF SameQueues, reinit
  <2> QED BY <1>4, <2>1 DEF Clean, SameQueues, Early
<1>6. PICK w, next, rcv : w = s1.buf /\ next = s1.seqNum /\ rcv = p.rcv
  OBVIOUS
<1>7. Sound(<< >>, << >>, w, next, b, 0, cl, rcv)
  BY <1>3, <1>4, <1>6, SoundCleared
<1>8. SocketSound(s1, b, n, cl, rcv)
  BY <1>3, <1>4, <1>6, <1>7 DEF SocketSound, SameQueues
<1>9. QueuesOwn(s1, t, b, n, cl, rcv, away)
  BY <1>2, <1>5, <1>8 DEF QueuesOwn, connect2
<1>10. /\ SameInput(s1, t) /\ SameNumbers(s1, t) /\ t.sent = s1.sent /\ SocketSound(t, b, n, cl, rcv)
       /\ t.outgoing = <<connectPacket>> /\ ~t.buf[connectPacket].pendingArp
  BY <1>3, <1>4, <1>9, SoundOwnQueued DEF SameQueues
<1>11. /\ t.active /\ t.state = "SYN_SENT" /\ t.seqNum = 0 /\ t.wire = {} /\ Unsent(t)
  BY <1>3, <1>4, <1>10 DEF SameInput, SameNumbers, SameQueues, Unsent
<1>12. Phase(t, b, n, cl, rcv)
  BY <1>1, <1>6, <1>11 DEF Phase, Opening, SynState
<1>13. Sender(t, b, n, cl, rcv) /\ Settled(t, b)
  BY <1>10, <1>11, <1>12 DEF Sender, SocketSound, Settled
<1>14. ServerGot(p, b, n, cl)
  BY <1>1 DEF ServerGot
<1> QED BY <1>1, <1>6, <1>11, <1>13, <1>14 DEF Connection

\* enqueue takes the next message.
Accepts(s, p, b, n, k, cl, away, c, t) ==
    /\ accepted \in Seq(Nat) /\ n = Len(accepted) /\ k = n + 1 /\ p.got \in Seq(Int)
    /\ away \in SUBSET Pool /\ Clean(s, away) /\ c \in away
    /\ Connection(s, p, b, n, cl) /\ Open(s) /\ ~cl
    /\ enqueueGood(Filled(s, c), c) /\ t = enqueue(Filled(s, c), c)

LEMMA ConnectionGrows ==
  ASSUME NEW s, NEW p, NEW b, NEW n, NEW k, NEW cl, NEW away, NEW c, NEW t, Accepts(s, p, b, n, k, cl, away, c, t)
  PROVE  Connection(t, p, b, k, cl)
<1>a. /\ accepted \in Seq(Nat) /\ n = Len(accepted) /\ k = n + 1 /\ p.got \in Seq(Int)
      /\ away \in SUBSET Pool /\ Clean(s, away) /\ c \in away
      /\ Connection(s, p, b, n, cl) /\ Open(s) /\ ~cl
      /\ enqueueGood(Filled(s, c), c) /\ t = enqueue(Filled(s, c), c)
  BY DEF Accepts
<1> USE <1>a
<1>1. PICK f : f = Filled(s, c)
  OBVIOUS
<1>2. Clean(f, away) /\ IsFilled(s, f, c)
  BY <1>1, FilledClean
<1>3. Unqueued(s, f, c) /\ f.buf[c] = [s.buf[c] EXCEPT !.dataLen = 1, !.data = k]
  BY <1>2 DEF IsFilled, Unqueued
<1>4. Connection(f, p, b, n, cl) /\ ~Queued(s.outgoing, c) /\ ~Queued(s.sent, c)
  BY <1>3, ConnectionUnqueued
<1>5. ~Refuses(f, c) /\ (hasRoom(f.outgoing) \/ PiggybacksOnAck(f)) /\ t = enqueueAccepted(f, c)
  BY <1>1 DEF enqueueGood, enqueue
<1>6. c \in Pool /\ c \in Buffers /\ c # connectPacket /\ Enqueues(away, c)
  BY BufferTypes DEF Enqueues
<1>7. /\ SameInput(f, t) /\ SameNumbers(f, t) /\ t.sent = f.sent
      /\ t.outgoing = IF PiggybacksOnAck(f) THEN <<c>> ELSE Append(f.outgoing, c)
      /\ t.buf[c] = Fresh(f.buf[c]) /\ \A d \in Buffers \ {c} : t.buf[d] = Unless(f, d)
  <2>1. Enqueued(f, t, c, away)
    BY <1>2, <1>5, <1>6, EnqueueAccepted
  <2> QED BY <1>5, <2>1 DEF Enqueued
<1>8. n \in Nat /\ k \in Nat /\ n <= k /\ f.seqNum \in Int
  <2>1. Len(accepted) \in Nat
    BY LenProperties
  <2>2. f.seqNum \in Int
    BY <1>2 DEF Clean, Sockets
  <2> QED BY <2>1, <2>2
<1>9. f.active /\ f.state \in {"ESTABLISHED", "CLOSE_WAIT"} /\ t.active
  <2>1. f.state \notin {"CLOSED", "CLOSING"}
    BY <1>5 DEF Refuses
  <2>2. f.active
    BY <1>4, <2>1 DEF Connection
  <2>3. f.state = s.state /\ f.active = s.active
    BY <1>3 DEF Unqueued, SameInput, SameNumbers
  <2> QED BY <1>7, <2>2, <2>3 DEF Open, SameInput
<1>10. Sender(f, b, n, cl, p.rcv) /\ b \in {0, -1}
  BY <1>4, <1>9 DEF Connection
<1>11. b = 0 /\ b + 1 <= f.seqNum /\ f.seqNum <= b + n + 1
  <2>1. Transfer(f, b, n, cl)
    BY <1>9, <1>10 DEF Sender, Phase, Opening, Ended, Aborted, SynState
  <2> QED BY <1>9, <2>1 DEF Transfer
<1>12. PICK out, out2, sent, w, v, next, rcv :
         /\ out = f.outgoing /\ out2 = t.outgoing /\ sent = f.sent /\ w = f.buf /\ v = t.buf /\ next = f.seqNum
         /\ rcv = p.rcv
  OBVIOUS
<1>13. Sound(out, sent, w, next, b, n, cl, rcv)
  BY <1>10, <1>12 DEF Sender
<1>14. PiggybacksOnAck(f) => out = <<connectPacket>>
  <2>1. \A d \in Pool : Queued(f.outgoing, d) => f.buf[d].dataLen = 1
    BY <1>12, <1>13 DEF Sound, MessagesSound
  <2> QED BY <1>2, <1>12, <2>1, PiggybackIsOwn
<1>15. MessageAdded(out, out2, sent, w, v, next, b, n, k, cl, rcv, c)
  <2>1. out \in Seq(Buffers) /\ sent \in Seq(Buffers)
    BY <1>2, <1>12 DEF Clean, Sockets
  <2>2. out2 = Append(out, c) \/ (out = <<connectPacket>> /\ out2 = <<c>>)
    BY <1>7, <1>12, <1>14
  <2>3. ~Queued(out, c) /\ ~Queued(sent, c)
    BY <1>3, <1>4, <1>12 DEF Unqueued
  <2>4. next \in Int /\ next <= k
    BY <1>8, <1>11, <1>12
  <2>5. v[c].dataLen = 1 /\ v[c].data = k /\ ~v[c].pendingArp /\ ~v[c].wasAckOnly
    <3>1. s.buf[c] \in BufferRecords
      BY <1>6 DEF Clean, Sockets
    <3>2. v[c] = Fresh([s.buf[c] EXCEPT !.dataLen = 1, !.data = k])
      BY <1>3, <1>7, <1>12
    <3> QED BY <3>1, <3>2 DEF Fresh, BufferRecords
  <2>6. \A d \in Buffers \ {c} : v[d] = w[d]
    <3>1. SUFFICES ASSUME NEW d \in Buffers \ {c} PROVE v[d] = w[d]
      OBVIOUS
    <3>2. v[d] = Unless(f, d)
      BY <1>7, <1>12
    <3>3. PiggybacksOnAck(f) => Head(f.outgoing) \notin Pool
      BY <1>12, <1>14, BufferTypes
    <3> QED BY <1>12, <3>2, <3>3 DEF Unless
  <2> QED BY <1>6, <1>8, <1>11, <1>13, <2>1, <2>2, <2>3, <2>4, <2>5, <2>6 DEF MessageAdded
<1>16. Sound(out2, sent, v, next, b, k, cl, rcv)
  BY <1>15, SoundMessage
<1>17. t.seqNum = next /\ t.state = f.state /\ t.sent = sent /\ t.wire = f.wire
  BY <1>7, <1>12 DEF SameNumbers
<1>18. t.wire \subseteq Allowed(b, k, cl)
  <2>1. Allowed(b, n, cl) \subseteq Allowed(b, k, cl)
    <3>1. cl => cl /\ k = n
      OBVIOUS
    <3> QED BY <1>8, <3>1, AllowedGrows
  <2> QED BY <1>10, <1>17, <2>1 DEF Sender
<1>19. Phase(t, b, k, cl, rcv) /\ Settled(t, b)
  BY <1>8, <1>9, <1>11, <1>12, <1>17 DEF Phase, Transfer, FinStates, Settled
<1>20. ServerGot(p, b, k, cl)
  <2>1. ServerGot(p, b, n, cl)
    BY <1>4 DEF Connection
  <2>2. \A i \in DOMAIN p.got : p.got[i] = i /\ i <= n
    BY <2>1 DEF ServerGot
  <2>3. DOMAIN p.got \subseteq Nat
    <3>1. DOMAIN p.got = 1..Len(p.got)
      BY LenProperties
    <3> QED BY <3>1
  <2>4. \A i \in Nat : i <= n => i <= k
    BY <1>8
  <2> QED BY <2>1, <2>2, <2>3, <2>4 DEF ServerGot
<1> QED BY <1>9, <1>10, <1>11, <1>12, <1>16, <1>17, <1>18, <1>19, <1>20 DEF Connection, Sender

\* closeLocal
Closes(s, p, b, n, cl, end, away, t) ==
    /\ n \in Nat /\ ~cl /\ Connection(s, p, b, n, cl) /\ p.rcv \in Nat
    /\ away \in SUBSET Pool /\ Clean(s, away) /\ end /\ t = closeLocal(s)

LEMMA ConnectionCloses ==
  ASSUME NEW s, NEW p, NEW b, NEW n, NEW cl, NEW end, NEW away, NEW t, Closes(s, p, b, n, cl, end, away, t)
  PROVE  Connection(t, p, b, n, end)
<1>a. /\ n \in Nat /\ ~cl /\ Connection(s, p, b, n, cl) /\ p.rcv \in Nat
      /\ away \in SUBSET Pool /\ Clean(s, away) /\ end /\ t = closeLocal(s)
  BY DEF Closes
<1> USE <1>a
<1>1. s \in Sockets /\ s.seqNum \in Int /\ b \in {0, -1} /\ (b = 0 \/ n = 0)
  BY DEF Clean, Sockets, Connection
<1>2. PICK rcv \in Nat : rcv = p.rcv
  OBVIOUS
<1>0. n <= n /\ rcv <= rcv /\ (cl => end) /\ (cl => end /\ n = n)
  OBVIOUS
<1>3. Allowed(b, n, cl) \subseteq Allowed(b, n, end)
  BY <1>0, AllowedGrows
<1>4. ServerGot(p, b, n, end)
  BY DEF Connection, ServerGot
<1>5. s.wire \subseteq Allowed(b, n, end)
  BY <1>3 DEF Connection
<1>6. CASE ~s.active
  <2>1. t = [s EXCEPT !.state = "CLOSED"]
    BY <1>6 DEF closeLocal, Connection
  <2>2. t.state = "CLOSED" /\ ~t.active /\ t.wire = s.wire
    BY <1>1, <1>6, <2>1 DEF Sockets
  <2> QED BY <1>1, <1>4, <1>5, <2>2 DEF Connection
<1>7. CASE s.active
  <2>1. Sender(s, b, n, cl, rcv) /\ Settled(s, b)
    BY <1>2, <1>7 DEF Connection
  <2>2. SocketSound(s, b, n, end, rcv)
    <3>1. PICK out, sent, w, next : out = s.outgoing /\ sent = s.sent /\ w = s.buf /\ next = s.seqNum
      OBVIOUS
    <3>2. Sound(out, sent, w, next, b, n, cl, rcv)
      BY <2>1, <3>1 DEF Sender
    <3>3. Sound(out, sent, w, next, b, n, end, rcv)
      BY <1>0, <3>2, SoundGrows
    <3> QED BY <1>5, <3>1, <3>3 DEF SocketSound
  <2>3. \/ Opening(s, b, n, cl, rcv)
        \/ Transfer(s, b, n, cl) /\ s.state \in {"ESTABLISHED", "CLOSE_WAIT"}
    BY <2>1 DEF Sender, Phase, Transfer, Ended, Aborted
  <2>4. CASE s.state = "SYN_SENT"
    <3>1. t = [s EXCEPT !.state = "CLOSED"]
      BY <2>4 DEF closeLocal
    <3>2. t.state = "CLOSED" /\ t.active = s.active /\ SenderKept(s, t)
      BY <1>1, <3>1 DEF Sockets, SenderKept
    <3>3. n = 0
      BY <2>3, <2>4 DEF Opening
    <3>4. SocketSound(t, b, n, end, rcv)
      BY <2>2, <3>2 DEF SocketSound, SenderKept
    <3>5. Phase(t, b, n, end, rcv)
      BY <3>2, <3>3 DEF Phase, Aborted
    <3>6. Sender(t, b, n, end, rcv) /\ Settled(t, b)
      BY <3>2, <3>4, <3>5 DEF Sender, SocketSound, Settled
    <3> QED BY <1>1, <1>2, <1>4, <3>2, <3>6 DEF Connection, Sender
  <2>5. CASE s.state \in {"SYN_RECVED", "ESTABLISHED", "CLOSE_WAIT"}
    <3>1. PICK st \in States : st = FinOf(s.state) /\ st \in FinStates
      BY <2>5 DEF FinOf, States, FinStates
    <3>2. PICK s1 : s1 = [s EXCEPT !.state = st]
      OBVIOUS
    <3>3. s1 \in Sockets /\ SameQueues(s, s1) /\ SameInput(s, s1) /\ s1.state = st /\ SenderKept(s, s1)
      BY <1>1, <3>2 DEF Sockets, SameQueues, SameInput, SenderKept
    <3>4. Clean(s1, away) /\ SocketSound(s1, b, n, end, rcv)
      <4>1. Early(s1.state, s1.replaced)
        BY <3>1, <3>3 DEF FinStates, Early
      <4> QED BY <2>2, <3>3, <4>1 DEF Clean, SameQueues, SameInput, SocketSound, SenderKept
    <3>5. t = IF s1.outgoing = << >> THEN enqueueOwn(s1) ELSE s1
      BY <2>5, <3>1, <3>2 DEF closeLocal, FinOf
    <3>6. SocketSound(t, b, n, end, rcv) /\ SameInput(s1, t) /\ t.state = s1.state /\ t.seqNum = s1.seqNum
      <4>1. CASE s1.outgoing = << >>
        <5>1. QueuesOwn(s1, t, b, n, end, rcv, away)
          BY <3>4, <3>5, <4>1 DEF QueuesOwn
        <5> QED BY <5>1, SoundOwnQueued DEF SameNumbers
      <4>2. CASE s1.outgoing # << >>
        BY <3>4, <3>5, <4>2 DEF SameInput
      <4> QED BY <4>1, <4>2
    <3>7. t.state = st /\ t.seqNum = s.seqNum /\ t.active
      BY <1>7, <3>3, <3>6 DEF SenderKept, SameInput
    <3>8. b + 1 <= s.seqNum /\ s.seqNum <= b + n + 1
      <4>1. CASE Opening(s, b, n, cl, rcv)
        <5>1. s.state = "SYN_RECVED" /\ n = 0
          BY <2>5, <4>1 DEF Opening, SynState
        <5>2. s.seqNum = b + 1
          BY <2>1, <5>1 DEF Settled
        <5> QED BY <1>1, <5>1, <5>2
      <4>2. CASE Transfer(s, b, n, cl)
        BY <4>2 DEF Transfer
      <4> QED BY <2>3, <4>1, <4>2
    <3>9. Phase(t, b, n, end, rcv) /\ t.state # "SYN_RECVED"
      BY <3>1, <3>7, <3>8 DEF Phase, Transfer, FinStates
    <3>10. Sender(t, b, n, end, rcv) /\ Settled(t, b)
      BY <3>6, <3>9 DEF Sender, SocketSound, Settled
    <3> QED BY <1>1, <1>2, <1>4, <3>7, <3>10 DEF Connection, Sender
  <2> QED BY <2>3, <2>4, <2>5 DEF Opening, SynState
<1> QED BY <1>6, <1>7

\* The server takes the next unit that is on the wire.
LEMMA ServerHears ==
  ASSUME NEW p, NEW b, NEW n \in Nat, NEW cl, b \in {0, -1}, b = 0 \/ n = 0,
         NEW rcv \in Nat, rcv = p.rcv, NEW units \in Seq(Int), units = p.got, ServerGot(p, b, n, cl),
         NEW u, u \in Allowed(b, n, cl), u[1] = rcv,
         NEW q, q.rcv = rcv + 1, q.got = IF u[2] = SYN THEN units ELSE Append(units, u[2])
  PROVE  ServerGot(q, b, n, cl)
<1>1. PICK len \in Nat : len = Len(units) /\ DOMAIN units = 1..len
  BY LenProperties
<1>2. /\ IF b = 0 THEN (rcv = 0 /\ units = << >>) \/ rcv = len + 1 ELSE rcv = len
      /\ \A i \in 1..len : (units[i] = i /\ i <= n) \/ (cl /\ units[i] = FIN /\ i = n + 1)
  BY <1>1 DEF ServerGot
<1>3. units = << >> => len = 0
  BY <1>1
<1>4. CASE u = <<b, SYN>>
  <2>1. rcv = 0 /\ b = 0
    BY <1>4
  <2>2. units = << >> /\ q.got = units /\ Len(q.got) = 0 /\ q.rcv = 1 /\ DOMAIN q.got = {}
    BY <1>1, <1>2, <1>4, <2>1
  <2> QED BY <2>1, <2>2 DEF ServerGot
<1>5. ASSUME NEW x \in Int, NEW v, u = <<x, v>>, v # SYN, v \in Int, x = b + len + 1,
             (v = len + 1 /\ len + 1 <= n) \/ (cl /\ v = FIN /\ len + 1 = n + 1)
      PROVE  ServerGot(q, b, n, cl)
  <2>1. PICK g : g = Append(units, v)
    OBVIOUS
  <2>2. Len(g) = len + 1 /\ g[len + 1] = v /\ DOMAIN g = 1..(len + 1) /\ \A i \in 1..len : g[i] = units[i]
    BY <1>1, <1>5, <2>1, AppendProperties
  <2>3. q.got = g /\ rcv = x
    BY <1>5, <2>1
  <2>4. ASSUME NEW i \in DOMAIN g PROVE (g[i] = i /\ i <= n) \/ (cl /\ g[i] = FIN /\ i = n + 1)
    <3>1. CASE i \in 1..len
      BY <1>2, <2>2, <3>1
    <3>2. CASE i = len + 1
      BY <1>5, <2>2, <3>2
    <3> QED BY <2>2, <3>1, <3>2
  <2>5. IF b = 0 THEN q.rcv = Len(g) + 1 ELSE q.rcv = Len(g)
    BY <1>5, <2>2, <2>3
  <2> QED BY <2>3, <2>4, <2>5 DEF ServerGot
<1>6. ASSUME NEW m \in 1..n, u = <<b + m, m>> PROVE ServerGot(q, b, n, cl)
  <2>1. b = 0 /\ rcv = m /\ m # 0
    BY <1>6
  <2>2. m = len + 1
    BY <1>2, <2>1
  <2> QED BY <1>5, <1>6, <2>1, <2>2 DEF SYN
<1>7. ASSUME cl, u = <<b + n + 1, FIN>> PROVE ServerGot(q, b, n, cl)
  <2>1. rcv = b + n + 1
    BY <1>7
  <2>2. len = n /\ len + 1 = n + 1
    BY <1>2, <2>1
  <2>3. PICK x \in Int, v \in Int : x = b + n + 1 /\ v = FIN /\ v # SYN
    BY DEF SYN, FIN
  <2>4. u = <<x, v>> /\ x = b + len + 1
    BY <1>7, <2>2, <2>3
  <2> QED BY <1>5, <1>7, <2>2, <2>3, <2>4
<1> QED BY <1>4, <1>6, <1>7 DEF Allowed

LEMMA ConnectionHeard ==
  ASSUME IInv, PeerReceive, NEW b, NEW n \in Nat, NEW cl, Connection(sock, peer, b, n, cl)
  PROVE  Connection(sock, peer', b, n, cl)
<1>1. PICK rcv \in Nat, units \in Seq(Int) :
        /\ rcv = peer.rcv /\ units = peer.got
        /\ peer \in [rcv : Nat, got : Seq(Int), next : Nat, fin : BOOLEAN, firstAck : Seq(Nat)]
  BY DEF IInv, PeerType
<1>2. PICK u \in sock.wire :
        u[1] = peer.rcv /\ peer' = [peer EXCEPT !.rcv = @ + 1, !.got = IF u[2] = SYN THEN @ ELSE Append(@, u[2])]
  BY DEF PeerReceive
<1>v. PICK v : v = IF u[2] = SYN THEN units ELSE Append(units, u[2])
  OBVIOUS
<1>w. peer' = [peer EXCEPT !.rcv = rcv + 1, !.got = v]
  BY <1>1, <1>2, <1>v
<1>x. peer'.rcv = rcv + 1 /\ peer'.got = v
  BY <1>1, <1>w
<1>3. PICK q : q = peer' /\ q.rcv = rcv + 1 /\ q.got = IF u[2] = SYN THEN units ELSE Append(units, u[2])
  BY <1>v, <1>x
<1>4. PICK p : p = peer
  OBVIOUS
<1>5. /\ b \in {0, -1} /\ (b = 0 \/ n = 0) /\ ServerGot(p, b, n, cl)
      /\ u \in Allowed(b, n, cl) /\ u[1] = rcv /\ rcv = p.rcv /\ units = p.got
  BY <1>1, <1>2, <1>4 DEF Connection
<1>6. ServerGot(q, b, n, cl)
  BY <1>3, <1>5, ServerHears
<1>7. ASSUME sock.active PROVE Sender(sock, b, n, cl, q.rcv) /\ Settled(sock, b)
  <2>1. Sender(sock, b, n, cl, rcv) /\ Settled(sock, b)
    BY <1>1, <1>7 DEF Connection
  <2>2. PICK out, sent, w, next, rcv2 :
          /\ out = sock.outgoing /\ sent = sock.sent /\ w = sock.buf /\ next = sock.seqNum
          /\ rcv2 = rcv + 1 /\ rcv2 \in Nat /\ rcv <= rcv2
    OBVIOUS
  <2>3. Sound(out, sent, w, next, b, n, cl, rcv)
    BY <2>1, <2>2 DEF Sender
  <2>4. Sound(out, sent, w, next, b, n, cl, rcv2)
    BY <2>2, <2>3, SoundGrows
  <2>5. sock.wire # {}
    BY <1>2
  <2>6. Phase(sock, b, n, cl, rcv2)
    BY <2>1, <2>5 DEF Sender, Phase, Opening
  <2> QED BY <1>3, <2>1, <2>2, <2>4, <2>6 DEF Sender
<1> QED BY <1>3, <1>6, <1>7 DEF Connection

\* A turn leaves an open connection open, or destroys it.
LEMMA OpenTurn ==
  ASSUME PeerType, NEW away \in SUBSET Pool, NEW s, Clean(s, away), Open(s), ~s.active => s.state = "CLOSED",
         NEW t \in Turns(s)
  PROVE  Open(t)
<1>1. PICK s1 : Turned(s, t, s1)
  BY TurnClean
<1>2. s1 = s \/ \E seg \in Arriving : Processed(s, s1, seg)
  BY <1>1 DEF Turned
<1>3. Destroyed(s1, t) \/ (SameInput(s1, t) /\ StateMoved(s1, t))
  BY <1>1 DEF Turned
<1>4. Open(s1)
  <2>1. ASSUME NEW seg, Processed(s, s1, seg) PROVE Open(s1)
    <3>1. CASE Destroyed(s, s1)
      BY <3>1 DEF Destroyed, Open
    <3>2. CASE SameInput(s, s1) /\ s1.state = s.state
      BY <3>2 DEF SameInput, Open
    <3>3. CASE s.state \notin {"SYN_SENT", "CLOSED", "TIME_WAIT"} /\ (s.state # "SYN_RECVED" \/ AckCurrent(s, seg) => GoodInput(s, s1, seg))
      <4>1. s.state \in {"ESTABLISHED", "CLOSE_WAIT"}
        BY <3>3 DEF Open
      <4>2. s1.state = s.state \/ s1.state = NewState(s, seg)
        BY <3>3, <4>1 DEF GoodInput
      <4> QED BY <4>1, <4>2 DEF NewState, Open
    <3>4. CASE s.state = "SYN_SENT"
      BY <3>4 DEF Open
    <3> QED BY <2>1, <3>1, <3>2, <3>3, <3>4 DEF Processed
  <2> QED BY <1>2, <2>1
<1>5. CASE Destroyed(s1, t)
  BY <1>5 DEF Destroyed, Open
<1>6. CASE SameInput(s1, t) /\ StateMoved(s1, t)
  BY <1>4, <1>6 DEF SameInput, StateMoved, Open, FinStates
<1> QED BY <1>3, <1>5, <1>6

\* getXmitBuf takes a buffer from the pool, and that is all.
SameSender(s, t) == SenderKept(s, t) /\ t.active = s.active /\ t.state = s.state

LEMMA TakenKept ==
  ASSUME NEW s \in Sockets, NEW t, t = s \/ \E b \in s.free : t = [s EXCEPT !.free = @ \ {b}]
  PROVE  SameSender(s, t)
<1>1. CASE t = s
  BY <1>1 DEF SameSender, SenderKept
<1>2. ASSUME NEW b \in s.free, t = [s EXCEPT !.free = @ \ {b}] PROVE SameSender(s, t)
  BY <1>2 DEF SameSender, SenderKept, Sockets
<1> QED BY <1>1, <1>2

LEMMA SendingSame ==
  ASSUME NEW s, NEW p, NEW n, NEW cl, Sending(s, p, n, cl), NEW t, SameSender(s, t)
  PROVE  Sending(t, p, n, cl)
<1>1. PICK b \in {0, -1} : Connection(s, p, b, n, cl)
  BY DEF Sending
<1> QED BY <1>1, ConnectionKept DEF Sending, SameSender

LEMMA SendingTurn ==
  ASSUME PeerType, NEW away \in SUBSET Pool, NEW s, Clean(s, away), NEW n \in Nat, NEW cl,
         Sending(s, peer, n, cl), NEW t \in Turns(s)
  PROVE  Sending(t, peer, n, cl) /\ (Open(s) => Open(t))
<1>1. PICK b \in {0, -1} : Connection(s, peer, b, n, cl)
  BY DEF Sending
<1>2. \E c : Connection(t, peer, c, n, cl)
  BY <1>1, SenderTurn
<1>3. Sending(t, peer, n, cl)
  BY <1>2 DEF Sending, Connection
<1>4. ~s.active => s.state = "CLOSED"
  BY <1>1 DEF Connection
<1> QED BY <1>3, <1>4, OpenTurn

LEMMA SendingGrows ==
  ASSUME PeerType, accepted \in Seq(Nat), NEW n \in Nat, n = Len(accepted), NEW k, k = n + 1,
         NEW away \in SUBSET Pool, NEW s, Clean(s, away), NEW c \in away, NEW cl, ~cl, Sending(s, peer, n, cl),
         Open(s), enqueueGood(Filled(s, c), c), NEW t, t = enqueue(Filled(s, c), c)
  PROVE  Sending(t, peer, k, cl) /\ Open(t)
<1>1. PICK b \in {0, -1} : Connection(s, peer, b, n, cl)
  BY DEF Sending
<1>2. PICK p : p = peer /\ p.got \in Seq(Int)
  BY DEF PeerType
<1>3. Accepts(s, p, b, n, k, cl, away, c, t)
  BY <1>1, <1>2 DEF Accepts
<1>4. Connection(t, p, b, k, cl)
  BY <1>3, ConnectionGrows
<1>5. SameInput(s, t) /\ SameNumbers(s, t)
  BY EnqueuedClean
<1> QED BY <1>2, <1>4, <1>5 DEF Sending, Open, SameInput, SameNumbers

LEMMA SendingCloses ==
  ASSUME PeerType, NEW away \in SUBSET Pool, NEW s, Clean(s, away), NEW n \in Nat, NEW cl, ~cl, NEW end, end,
         Sending(s, peer, n, cl), NEW t, t = closeLocal(s)
  PROVE  Sending(t, peer, n, end)
<1>1. PICK b \in {0, -1} : Connection(s, peer, b, n, cl)
  BY DEF Sending
<1>2. PICK p : p = peer /\ p.rcv \in Nat
  BY DEF PeerType
<1>3. Connection(s, p, b, n, cl)
  BY <1>1, <1>2
<1>4. Closes(s, p, b, n, cl, end, away, t)
  BY <1>2, <1>3 DEF Closes
<1>5. Connection(t, p, b, n, end)
  BY <1>4, ConnectionCloses
<1> QED BY <1>2, <1>5 DEF Sending

LEMMA InitSInv ==
  ASSUME Init
  PROVE  SInv
<1>1. sock = reinit /\ app = "start" /\ accepted = << >> /\ peer.rcv = 0 /\ peer.got = << >>
  BY DEF Init
<1>2. PICK s, p, n, cl : s = sock /\ p = peer /\ n = Len(accepted) /\ cl = Closing
  OBVIOUS
<1>3. s.state = "CLOSED" /\ ~s.active /\ s.wire = {} /\ n = 0
  BY <1>1, <1>2 DEF reinit
<1>4. PICK b \in {0, -1} : b = 0
  OBVIOUS
<1>5. ServerGot(p, b, n, cl)
  BY <1>1, <1>2, <1>4 DEF ServerGot
<1>6. Connection(s, p, b, n, cl)
  BY <1>3, <1>4, <1>5 DEF Connection
<1>7. Sending(sock, peer, Len(accepted), Closing)
  BY <1>2, <1>6 DEF Sending
<1> QED BY <1>1, <1>7 DEF SInv

\* Every step of the bot and of the server keeps the sender's invariant.
LEMMA StepSInv ==
  ASSUME IInv, SInv, [Next]_vars
  PROVE  SInv'
<1>1. /\ Away \in SUBSET Pool /\ Clean(sock, Away) /\ NULL \notin Pool /\ accepted \in Seq(Nat) /\ PeerType
      /\ sock \in Sockets
  BY ModelAssumption DEF IInv, Away, Buffers, Clean
<1>n. PICK n \in Nat : n = Len(accepted)
  <2>1. Len(accepted) \in Nat
    BY <1>1, LenProperties
  <2> QED BY <2>1
<1>c. PICK cl \in BOOLEAN : cl = Closing
  <2>1. Closing \in BOOLEAN
    BY DEF Closing
  <2> QED BY <2>1
<1>2. n = Len(accepted) /\ cl = Closing /\ Sending(sock, peer, n, cl)
  BY <1>n, <1>c DEF SInv
<1>3. /\ app = "start" => sock = reinit /\ accepted = << >> /\ peer.rcv = 0 /\ peer.got = << >>
      /\ app \in {"init", "work", "quit", "recv", "wild"} => Open(sock)
      /\ app \in {"start", "connecting"} => accepted = << >>
      /\ \A i \in DOMAIN accepted : accepted[i] = i
  BY DEF SInv
\* A step that takes no message and does not close.
<1>4. ASSUME accepted' = accepted, Closing' = Closing, Sending(sock', peer', n, cl), app' # "start",
             app' \in {"init", "work", "quit", "recv", "wild"} => Open(sock'),
             app' = "connecting" => app \in {"start", "connecting"}
      PROVE  SInv'
  BY <1>2, <1>3, <1>4 DEF SInv
\* A turn of a loop.
<1>5. ASSUME sock' \in Turns(sock), UNCHANGED <<accepted, peer>>, Closing' = Closing, app' # "start",
             app' \in {"init", "work", "quit", "recv", "wild"} => Open(sock),
             app' = "connecting" => app \in {"start", "connecting"}
      PROVE  SInv'
  <2>1. PICK t \in Turns(sock) : t = sock'
    BY <1>5
  <2>2. Sending(t, peer, n, cl) /\ (Open(sock) => Open(t))
    BY <1>1, <1>2, SendingTurn
  <2>3. Sending(sock', peer', n, cl) /\ (Open(sock) => Open(sock'))
    BY <1>5, <2>1, <2>2
  <2> QED BY <1>4, <1>5, <2>3
<1>6. CASE UNCHANGED vars
  BY <1>6 DEF vars, SInv, Closing
<1>7. CASE PeerNext
  <2>1. UNCHANGED botVars
    BY <1>7, PeerStep
  <2>2. app # "start"
    <3>1. SUFFICES ASSUME app = "start" PROVE FALSE
      OBVIOUS
    <3>2. sock.wire = {} /\ peer.rcv = 0
      BY <1>3, <3>1 DEF reinit
    <3> QED BY <1>7, <3>2 DEF PeerNext, PeerReceive, PeerWrite, PeerClose
  <2>3. PICK b \in {0, -1} : Connection(sock, peer, b, n, cl)
    BY <1>2 DEF Sending
  <2>4. Connection(sock, peer', b, n, cl)
    <3>1. CASE PeerReceive
      BY <1>2, <2>3, <3>1, ConnectionHeard
    <3>2. CASE PeerWrite \/ PeerClose
      <4>1. peer \in [rcv : Nat, got : Seq(Int), next : Nat, fin : BOOLEAN, firstAck : Seq(Nat)]
        BY <1>1 DEF PeerType
      <4>2. peer'.rcv = peer.rcv /\ peer'.got = peer.got
        BY <3>2, <4>1 DEF PeerWrite, PeerClose
      <4> QED BY <2>3, <4>2 DEF Connection, ServerGot
    <3> QED BY <1>7, <3>1, <3>2 DEF PeerNext
  <2>5. Sending(sock', peer', n, cl)
    BY <2>1, <2>4 DEF Sending, botVars
  <2> QED BY <1>3, <1>4, <2>1, <2>2, <2>5 DEF botVars, Closing
<1>8. CASE connect
  <2>1. sock = reinit /\ n = 0 /\ ~cl /\ peer.rcv = 0 /\ peer.got = << >>
    BY <1>2, <1>3, <1>8 DEF connect, Closing
  <2>2. PICK s, t, p : s = sock /\ t = sock' /\ t = connect2(s) /\ p = peer /\ s = reinit
    BY <1>8, <2>1 DEF connect
  <2>3. \E b : Connection(t, p, b, n, cl)
    BY <1>1, <2>1, <2>2, ConnectionOpens
  <2>4. Sending(sock', peer', n, cl)
    BY <1>8, <2>2, <2>3 DEF Sending, Connection, connect
  <2> QED BY <1>4, <1>8, <2>4 DEF connect, Closing
<1>9. CASE connected
  <2>1. PICK s \in Turns(sock) : isConnectComplete(s) /\ getXmitBuf(s)
    BY <1>9 DEF connected
  <2>2. Sending(s, peer, n, cl) /\ Clean(s, Away)
    BY <1>1, <1>2, SendingTurn, TurnClean
  <2>3. PICK t : t = sock' /\ (t = s \/ \E b \in s.free : t = [s EXCEPT !.free = @ \ {b}])
    BY <2>1 DEF getXmitBuf
  <2>4. SameSender(s, t)
    BY <2>2, <2>3, TakenKept DEF Clean
  <2>5. Sending(t, peer, n, cl) /\ Open(t)
    <3>1. Open(t)
      BY <2>1, <2>4 DEF isConnectComplete, Open, SameSender
    <3> QED BY <2>2, <2>4, <3>1, SendingSame
  <2> QED BY <1>4, <1>9, <2>3, <2>5 DEF connected, Closing
<1>10. CASE connectLoop
  <2>1. sock' \in Turns(sock) /\ app = "connecting" /\ app' \in {"connecting", "close"} /\ UNCHANGED <<accepted, peer>>
    BY <1>10 DEF connectLoop
  <2>2. Closing' = Closing
    BY <2>1 DEF Closing
  <2> QED BY <1>5, <2>1, <2>2
<1>11. CASE sendNewBuffer
  <2>1. /\ app \in {"init", "work", "quit"} /\ app' \in {"recv", "work", "close"} /\ sendBuffer \in Pool
        /\ accepted' = Append(accepted, Len(accepted) + 1) /\ UNCHANGED <<leaked, peer>>
    BY <1>11 DEF sendNewBuffer, afterSend, IInv
  <2>2. Open(sock) /\ ~cl /\ Closing' = cl
    <3>1. ~Closing /\ ~Closing'
      BY <2>1 DEF Closing
    <3>2. Closing \in BOOLEAN /\ Closing' \in BOOLEAN
      BY DEF Closing
    <3>3. ~cl /\ Closing' = cl
      BY <1>c, <3>1, <3>2
    <3> QED BY <1>3, <2>1, <3>3
  <2>3. PICK s1, k, c : c \in Away /\ s1 = enqueue(Filled(sock, sendBuffer), sendBuffer) /\ k = n + 1
                                 /\ c = sendBuffer
    BY <2>1 DEF Away
  <2>4. Sending(s1, peer, k, cl) /\ Open(s1) /\ Clean(s1, Away \ {c})
    <3>1. enqueueGood(Filled(sock, c), c) /\ s1 = enqueue(Filled(sock, c), c)
      BY <1>11, <2>3 DEF sendNewBuffer
    <3> QED BY <1>1, <1>2, <2>2, <2>3, <3>1, SendingGrows, EnqueuedClean
  <2>5. PICK s2 : /\ s2 = s1 \/ \E b \in s1.free : s2 = [s1 EXCEPT !.free = @ \ {b}]
                  /\ sock' \in Turns(s2)
    BY <1>11, <2>3 DEF sendNewBuffer
  <2>6. SameSender(s1, s2)
    BY <2>4, <2>5, TakenKept DEF Clean
  <2>7. Sending(s2, peer, k, cl) /\ Open(s2)
    BY <2>4, <2>6, SendingSame DEF Open, SameSender
  <2>8. PICK away \in SUBSET Pool : Clean(s2, away)
    <3>1. CASE s2 = s1
      BY <1>1, <2>4, <3>1
    <3>2. ASSUME NEW b \in s1.free, s2 = [s1 EXCEPT !.free = @ \ {b}] PROVE \E away \in SUBSET Pool : Clean(s2, away)
      <4>1. PICK rest \in SUBSET Pool : rest = Away \ {c}
        BY <1>1
      <4>2. Clean(s2, rest \cup {b}) /\ b \in Pool
        BY <2>4, <3>2, <4>1, TakenClean
      <4> QED BY <4>2
    <3> QED BY <2>5, <3>1, <3>2
  <2>9. PICK t \in Turns(s2) : t = sock'
    BY <2>5
  <2>10. Sending(t, peer, k, cl) /\ Open(t)
    <3>1. k \in Nat
      BY <2>3
    <3> QED BY <1>1, <2>7, <2>8, <3>1, SendingTurn
  <2>11. Len(accepted') = k /\ \A i \in DOMAIN accepted' : accepted'[i] = i
    <3>1. k \in Nat /\ accepted' = Append(accepted, k) /\ DOMAIN accepted = 1..n
      BY <1>1, <1>2, <2>1, <2>3, LenProperties
    <3>2. PICK a : a = accepted'
      OBVIOUS
    <3>3. Len(a) = n + 1 /\ a[n + 1] = k /\ (\A i \in 1..n : a[i] = accepted[i]) /\ a \in Seq(Nat)
      BY <1>1, <1>2, <3>1, <3>2, AppendProperties
    <3>4. DOMAIN a = 1..(n + 1)
      BY <3>3, LenProperties
    <3>5. ASSUME NEW i \in DOMAIN a PROVE a[i] = i
      <4>1. i \in 1..n \/ i = n + 1
        BY <3>4
      <4> QED BY <1>3, <2>3, <3>1, <3>3, <4>1
    <3> QED BY <2>3, <3>2, <3>3, <3>5
  <2> QED BY <2>1, <2>2, <2>9, <2>10, <2>11 DEF SInv
<1>12. CASE sendNewBufferFails
  <2>1. app \in {"init", "work", "quit"} /\ app' = "close" /\ sendBuffer \in Pool /\ UNCHANGED <<accepted, peer>>
    BY <1>12 DEF sendNewBufferFails, afterSend, IInv
  <2>2. PICK s, c : c \in Away /\ c = sendBuffer /\ getXmitBuf(s)
                             /\ s = IF enqueueGood(sock, c) THEN sock ELSE enqueue(Filled(sock, c), c)
    BY <1>12, <2>1 DEF sendNewBufferFails, Away
  <2>3. Clean(s, Away) /\ Unqueued(sock, s, c)
    BY <1>1, <2>2, RefusedClean
  <2>4. Sending(s, peer, n, cl)
    <3>1. PICK u, p, b : b \in {0, -1} /\ u = sock /\ p = peer /\ Connection(u, p, b, n, cl)
      BY <1>2 DEF Sending
    <3>2. Clean(u, Away) /\ Unqueued(u, s, c)
      BY <1>1, <2>3, <3>1
    <3>3. PICK away \in SUBSET Pool : away = Away
      BY <1>1
    <3>4. Connection(s, p, b, n, cl)
      BY <2>2, <3>1, <3>2, <3>3, ConnectionUnqueued
    <3> QED BY <3>1, <3>4 DEF Sending
  <2>5. PICK t : t = sock' /\ (t = s \/ \E b \in s.free : t = [s EXCEPT !.free = @ \ {b}])
    BY <2>2 DEF getXmitBuf
  <2>6. SameSender(s, t)
    BY <2>3, <2>5, TakenKept DEF Clean
  <2>7. Sending(t, peer, n, cl)
    BY <2>4, <2>6, SendingSame
  <2> QED BY <1>4, <2>1, <2>5, <2>7 DEF Closing
<1>13. CASE cannotSend \/ sendWithoutBuffer \/ packetDone
  <2>1. /\ app \in {"init", "work", "quit"} /\ app' \in {"close", "wild", "recv"}
        /\ UNCHANGED <<sock, accepted, peer>>
    BY <1>13 DEF cannotSend, sendWithoutBuffer, packetDone, afterSend
  <2> QED BY <1>2, <1>3, <1>4, <2>1 DEF Closing
<1>14. CASE recvNewPacket
  <2>1. PICK t : t = sock' /\ t = [sock EXCEPT !.incoming = Tail(@)]
    BY <1>14 DEF recvNewPacket
  <2>2. SameSender(sock, t)
    BY <1>1, <2>1 DEF SameSender, SenderKept, Sockets
  <2>3. Sending(t, peer, n, cl) /\ Open(t)
    <3>1. Open(sock)
      BY <1>3, <1>14 DEF recvNewPacket
    <3> QED BY <1>2, <2>2, <3>1, SendingSame DEF Open, SameSender
  <2> QED BY <1>4, <1>14, <2>1, <2>3 DEF recvNewPacket, Closing
<1>15. CASE recvLoop
  <2>1. app = "recv" /\ sock' \in Turns(sock) /\ app' \in {"close", "recv", "quit"} /\ UNCHANGED <<accepted, peer>>
    BY <1>15 DEF recvLoop
  <2>2. Closing' = Closing /\ Open(sock)
    BY <1>3, <2>1 DEF Closing
  <2> QED BY <1>5, <2>1, <2>2
<1>16. CASE close
  <2>1. app = "close" /\ app' = "closing" /\ UNCHANGED <<accepted, peer>>
    BY <1>16 DEF close
  <2>2. PICK t, end : t = sock' /\ t = closeLocal(sock) /\ end = Closing' /\ end /\ ~cl
    BY <1>2, <1>16 DEF close, Closing
  <2>3. Sending(t, peer, n, end)
    BY <1>1, <1>2, <2>2, SendingCloses
  <2> QED BY <1>2, <1>3, <2>1, <2>2, <2>3 DEF SInv
<1>17. CASE closeLoop
  <2>1. app = "closing" /\ app' = app /\ sock' \in Turns(sock) /\ UNCHANGED <<accepted, peer>>
    BY <1>17 DEF closeLoop
  <2>2. Closing' = Closing
    BY <2>1 DEF Closing
  <2> QED BY <1>5, <2>1, <2>2
<1>18. CASE closeDone
  <2>1. app = "closing" /\ app' = "done" /\ UNCHANGED <<accepted, peer>>
    BY <1>18 DEF closeDone
  <2>2. PICK t : t = sock' /\ t = isCloseDone(sock, TRUE)
    BY <1>18 DEF closeDone
  <2>3. Destroyed(sock, t)
    BY <1>1, <2>2, CloseDone
  <2>4. Sending(t, peer, n, cl)
    <3>1. PICK u, p, b : b \in {0, -1} /\ u = sock /\ p = peer /\ Connection(u, p, b, n, cl)
      BY <1>2 DEF Sending
    <3>2. Connection(t, p, b, n, cl)
      BY <2>3, <3>1, ConnectionDestroyed
    <3> QED BY <3>1, <3>2 DEF Sending
  <2> QED BY <1>4, <2>1, <2>2, <2>4 DEF Closing
<1> QED BY <1>6, <1>7, <1>8, <1>9, <1>10, <1>11, <1>12, <1>13, <1>14, <1>15, <1>16, <1>17, <1>18
        DEF Next, BotNext

LEMMA SenderInvariant ==
  Spec => []SInv
<1>1. Init => SInv
  BY InitSInv
<1>2. IInv /\ SInv /\ [Next]_vars => SInv'
  BY StepSInv
<1> QED BY <1>1, <1>2, Invariant, PTL DEF Spec

LEMMA SamePrefix ==
  ASSUME NEW x \in Seq(Int), NEW y \in Seq(Int), NEW k \in Nat, k <= Len(x), k <= Len(y),
         \A i \in 1..k : x[i] = y[i]
  PROVE  SubSeq(x, 1, k) \in Seq(Int) /\ Len(SubSeq(x, 1, k)) = k /\ SubSeq(x, 1, k) = SubSeq(y, 1, k)
<1>1. \A i \in 1..k : x[i] \in Int /\ y[i] \in Int
  BY LenProperties
<1>2. PICK u : u = SubSeq(x, 1, k)
  OBVIOUS
<1>3. PICK v : v = SubSeq(y, 1, k)
  OBVIOUS
<1>4. u \in Seq(Int) /\ Len(u) = (IF 1 <= k THEN k - 1 + 1 ELSE 0) /\ \A i \in 1..(k - 1 + 1) : u[i] = x[1 + i - 1]
  BY <1>1, <1>2, SubSeqProperties
<1>5. v \in Seq(Int) /\ Len(v) = (IF 1 <= k THEN k - 1 + 1 ELSE 0) /\ \A i \in 1..(k - 1 + 1) : v[i] = y[1 + i - 1]
  BY <1>1, <1>3, SubSeqProperties
<1>6. Len(u) = k /\ \A i \in 1..k : u[i] = x[i]
  BY <1>4
<1>7. Len(v) = k /\ \A i \in 1..k : v[i] = y[i]
  BY <1>5
<1>8. u = v
  BY <1>4, <1>5, <1>6, <1>7, SeqEqual
<1> QED BY <1>2, <1>3, <1>4, <1>6, <1>8

\* The whole of a sequence is its prefix of that length.
LEMMA WholePrefix ==
  ASSUME NEW x \in Seq(Int)
  PROVE  SubSeq(x, 1, Len(x)) = x
<1>1. Len(x) \in Nat /\ \A i \in 1..Len(x) : x[i] \in Int
  BY LenProperties
<1>2. PICK k \in Nat : k = Len(x)
  BY <1>1
<1>3. PICK u : u = SubSeq(x, 1, k)
  OBVIOUS
<1>4. u \in Seq(Int) /\ Len(u) = (IF 1 <= k THEN k - 1 + 1 ELSE 0) /\ \A i \in 1..(k - 1 + 1) : u[i] = x[1 + i - 1]
  BY <1>1, <1>2, <1>3, SubSeqProperties
<1>5. Len(u) = k /\ \A i \in 1..k : u[i] = x[i]
  BY <1>4
<1>6. u = x
  BY <1>2, <1>4, <1>5, SeqEqual
<1> QED BY <1>2, <1>3, <1>6

\* What the server may have got is what DeliveredInOrder says.
LEMMA GotInOrder ==
  ASSUME NEW g \in Seq(Int), NEW a \in Seq(Nat), \A i \in DOMAIN a : a[i] = i,
         NEW cl \in BOOLEAN, NEW n \in Nat, n = Len(a),
         \A i \in DOMAIN g : (g[i] = i /\ i <= n) \/ (cl /\ g[i] = FIN /\ i = n + 1)
  PROVE  LET data == IF Len(g) > 0 /\ Last(g) = FIN THEN Front(g) ELSE g
         IN  IsPrefix(data, a) /\ (data # g => data = a)
<1>1. PICK k \in Nat : k = Len(g)
  BY LenProperties
<1>2. DOMAIN g = 1..k /\ DOMAIN a = 1..n /\ a \in Seq(Int) /\ \A i \in 1..n : a[i] = i
  <2>1. \A i \in 1..n : a[i] \in Int
    BY LenProperties
  <2>2. a \in Seq(Int)
    OBVIOUS
  <2> QED BY <1>1, <2>2, LenProperties
<1>3. \A i \in 1..k : (g[i] = i /\ i <= n) \/ (g[i] = FIN /\ i = n + 1)
  BY <1>2
<1>4. Last(g) = g[k]
  BY <1>1 DEF Last
<1>5. CASE k <= n
  <2>1. \A i \in 1..k : g[i] = i /\ a[i] = g[i]
    BY <1>2, <1>3, <1>5
  <2>2. ~(k > 0 /\ g[k] = FIN)
    BY <2>1 DEF FIN
  <2>3. SubSeq(g, 1, k) = SubSeq(a, 1, k)
    BY <1>1, <1>2, <1>5, <2>1, SamePrefix
  <2>4. IsPrefix(g, a)
    BY <1>1, <1>5, <2>3 DEF IsPrefix
  <2> QED BY <1>1, <1>4, <2>2, <2>4
<1>6. CASE k > n
  <2>1. k = n + 1 /\ g[k] = FIN
    BY <1>3, <1>6
  <2>2. \A i \in 1..n : g[i] = a[i]
    BY <1>2, <1>3, <2>1
  <2>3. SubSeq(g, 1, n) = SubSeq(a, 1, n)
    BY <1>1, <1>2, <2>1, <2>2, SamePrefix
  <2>4. Front(g) = a
    <3>1. Len(g) - 1 = n
      BY <1>1, <2>1
    <3> QED BY <1>2, <2>3, <3>1, WholePrefix DEF Front
  <2>5. IsPrefix(a, a)
    BY DEF IsPrefix
  <2> QED BY <1>1, <1>4, <2>1, <2>4, <2>5
<1> QED BY <1>5, <1>6

\* The server gets what enqueue accepted, each message once and in order, and the
\* FIN only behind the last of them: neither retransmission, nor a message that
\* shares the packet of an ACK, nor the reuse of a buffer, nor waiting for ARP
\* changes the order, and close sends the FIN behind what is queued.
THEOREM MessagesAreDelivered ==
  Spec => []DeliveredInOrder
<1>1. IInv /\ SInv => DeliveredInOrder
  <2> SUFFICES ASSUME IInv, SInv PROVE DeliveredInOrder
    OBVIOUS
  <2>1. PICK g \in Seq(Int), a \in Seq(Nat) : g = peer.got /\ a = accepted
    BY DEF IInv, PeerType
  <2>2. PICK n \in Nat : n = Len(a)
    BY LenProperties
  <2>3. PICK cl \in BOOLEAN : cl = Closing
    <3>1. Closing \in BOOLEAN
      BY DEF Closing
    <3> QED BY <3>1
  <2>4. PICK b \in {0, -1} : Connection(sock, peer, b, n, cl)
    BY <2>1, <2>2, <2>3 DEF SInv, Sending
  <2>5. \A i \in DOMAIN g : (g[i] = i /\ i <= n) \/ (cl /\ g[i] = FIN /\ i = n + 1)
    BY <2>1, <2>4 DEF Connection, ServerGot
  <2>6. \A i \in DOMAIN a : a[i] = i
    BY <2>1 DEF SInv
  <2> QED BY <2>1, <2>2, <2>5, <2>6, GotInOrder DEF DeliveredInOrder
<1> QED BY <1>1, Invariant, SenderInvariant, PTL

\* No number carries two things: resendPackets and sendPacket put out a buffer with
\* the number it was given, and a buffer that was freed and filled again gets one
\* of its own before it is sent.
THEOREM NumbersAreUsedOnce ==
  Spec => []SequenceNumbersUsedOnce
<1>1. IInv /\ SInv => SequenceNumbersUsedOnce
  <2> SUFFICES ASSUME IInv, SInv PROVE SequenceNumbersUsedOnce
    OBVIOUS
  <2>1. PICK b \in {0, -1} : Connection(sock, peer, b, Len(accepted), Closing)
    BY DEF SInv, Sending
  <2>2. PICK n, cl : n = Len(accepted) /\ cl = Closing
    OBVIOUS
  <2>3. PICK w : w = sock.wire
    OBVIOUS
  <2>4. w \subseteq Allowed(b, n, cl) /\ (b = 0 \/ n = 0)
    BY <2>1, <2>2, <2>3 DEF Connection
  <2>5. n \in Nat
    <3>1. Len(accepted) \in Nat
      BY LenProperties DEF IInv
    <3> QED BY <2>2, <3>1
  <2> DEFINE Thing(q) == IF q = b THEN SYN ELSE IF q <= b + n THEN q - b ELSE FIN
  <2>6. ASSUME NEW z \in Allowed(b, n, cl) PROVE z = <<z[1], Thing(z[1])>>
    <3>1. z = <<b, SYN>> \/ (\E m \in 1..n : z = <<b + m, m>>) \/ z = <<b + n + 1, FIN>>
      BY <2>6 DEF Allowed
    <3>2. CASE z = <<b, SYN>>
      BY <3>2
    <3>3. CASE \E m \in 1..n : z = <<b + m, m>>
      <4>1. PICK m \in 1..n : z = <<b + m, m>>
        BY <3>3
      <4>2. z[1] = b + m /\ z[1] # b /\ z[1] <= b + n /\ z[1] - b = m
        BY <2>5, <4>1
      <4> QED BY <4>1, <4>2
    <3>4. CASE z = <<b + n + 1, FIN>>
      <4>1. z[1] = b + n + 1 /\ z[1] # b /\ ~(z[1] <= b + n)
        BY <2>5, <3>4
      <4> QED BY <3>4, <4>1
    <3> QED BY <3>1, <3>2, <3>3, <3>4
  <2>7. ASSUME NEW u \in w, NEW v \in w, u[1] = v[1] PROVE u = v
    <3>1. u \in Allowed(b, n, cl) /\ v \in Allowed(b, n, cl)
      BY <2>4
    <3>2. u = <<u[1], Thing(u[1])>> /\ v = <<v[1], Thing(v[1])>>
      BY <2>6, <3>1
    <3> HIDE DEF Thing
    <3> QED BY <2>7, <3>2
  <2> QED BY <2>3, <2>7 DEF SequenceNumbersUsedOnce
<1> QED BY <1>1, Invariant, SenderInvariant, PTL

\* An accepted message is at the server or in a queue of the socket: no
\* acknowledgement releases a buffer whose message the server does not have, and
\* no turn of the loop drops one.
THEOREM MessagesAreKept ==
  Spec => []AcceptedNotForgotten
<1>1. IInv /\ SInv => AcceptedNotForgotten
  <2> SUFFICES ASSUME IInv, SInv, sock.active, NEW m \in Range(accepted), m \notin Range(peer.got)
               PROVE  \E b \in Range(sock.outgoing) \cup Range(sock.sent) :
                          sock.buf[b].dataLen = 1 /\ sock.buf[b].data = m
    BY DEF AcceptedNotForgotten
  <2>1. PICK g \in Seq(Int), a \in Seq(Nat) : g = peer.got /\ a = accepted
    BY DEF IInv, PeerType
  <2>2. PICK n \in Nat : n = Len(a)
    BY LenProperties
  <2>3. PICK cl : cl = Closing
    OBVIOUS
  <2>4. PICK b \in {0, -1} : Connection(sock, peer, b, n, cl)
    BY <2>1, <2>2, <2>3 DEF SInv, Sending
  <2>5. PICK out, sent, w, next, rcv :
            out = sock.outgoing /\ sent = sock.sent /\ w = sock.buf /\ next = sock.seqNum /\ rcv = peer.rcv
    OBVIOUS
  <2>6. Sound(out, sent, w, next, b, n, cl, rcv)
    BY <2>4, <2>5 DEF Connection, Sender
  <2>7. m \in 1..n /\ m \notin {g[i] : i \in DOMAIN g}
    <3>1. DOMAIN a = 1..n /\ \A i \in DOMAIN a : a[i] = i
      BY <2>1, <2>2, LenProperties DEF SInv
    <3> QED BY <2>1, <3>1 DEF Range
  <2>8. ~(m < rcv)
    <3>1. PICK k \in Nat : k = Len(g) /\ DOMAIN g = 1..k
      BY LenProperties
    <3>2. /\ IF b = 0 THEN (rcv = 0 /\ g = << >>) \/ rcv = k + 1 ELSE rcv = k
          /\ \A i \in DOMAIN g : (g[i] = i /\ i <= n) \/ (cl /\ g[i] = FIN /\ i = n + 1)
          /\ b = 0 \/ n = 0
      BY <2>1, <2>4, <2>5, <3>1 DEF Connection, ServerGot
    <3>3. SUFFICES ASSUME m < rcv PROVE FALSE
      OBVIOUS
    <3>4. m \in 1..k
      BY <2>7, <3>2, <3>3
    <3>5. g[m] = m
      <4>1. g[m] = m \/ m = n + 1
        BY <3>1, <3>2, <3>4
      <4> QED BY <2>7, <4>1
    <3> QED BY <2>7, <3>1, <3>4, <3>5
  <2>9. PICK c \in Pool : (Queued(sent, c) \/ Queued(out, c)) /\ w[c].data = m
    BY <2>6, <2>7, <2>8 DEF Sound, AllHeld
  <2>10. w[c].dataLen = 1
    BY <2>6, <2>9 DEF Sound, MessagesSound
  <2>11. c \in Range(out) \cup Range(sent)
    BY <2>9 DEF Queued, Range
  <2> QED BY <2>5, <2>9, <2>10, <2>11
<1> QED BY <1>1, Invariant, SenderInvariant, PTL

-----------------------------------------------------------------------------
(* The server's stream *)

\* The units of data from first on, up to but without next.
IsRun(x, first, next) ==
    x \in Seq(Int) /\ Len(x) = next - first /\ \A i \in 1..Len(x) : x[i] = first + i - 1

LEMMA RunConcat ==
  ASSUME NEW a \in Int, NEW b \in Int, NEW c \in Int, NEW x, NEW y, IsRun(x, a, b), IsRun(y, b, c)
  PROVE  IsRun(x \o y, a, c)
<1>1. PICK m \in Nat, n \in Nat : m = Len(x) /\ n = Len(y) /\ m = b - a /\ n = c - b
  BY DEF IsRun
<1>2. x \in Seq(Int) /\ y \in Seq(Int)
  BY DEF IsRun
<1>3. /\ x \o y \in Seq(Int) /\ Len(x \o y) = Len(x) + Len(y)
      /\ \A i \in 1..(Len(x) + Len(y)) : (x \o y)[i] = IF i <= Len(x) THEN x[i] ELSE y[i - Len(x)]
  BY <1>2, ConcatProperties
<1>4. PICK z : z = x \o y
  OBVIOUS
<1>5. /\ z \in Seq(Int) /\ Len(z) = m + n
      /\ \A i \in 1..(m + n) : z[i] = IF i <= m THEN x[i] ELSE y[i - m]
  BY <1>1, <1>3, <1>4, Zenon
<1>6. ASSUME NEW i \in 1..(m + n) PROVE z[i] = a + i - 1
  <2>1. CASE i <= m
    <3>1. i \in 1..m /\ z[i] = x[i]
      BY <1>5, <2>1
    <3> QED BY <1>1, <3>1 DEF IsRun
  <2>2. CASE ~(i <= m)
    <3>1. PICK j \in 1..n : j = i - m /\ z[i] = y[j]
      BY <1>5, <2>2
    <3>2. y[j] = b + j - 1
      BY <1>1, <3>1 DEF IsRun
    <3> QED BY <1>1, <3>1, <3>2
  <2> QED BY <2>1, <2>2
<1>7. Len(z) = c - a
  BY <1>1, <1>5
<1>8. \A i \in 1..Len(z) : z[i] = a + i - 1
  BY <1>5, <1>6
<1> QED BY <1>4, <1>5, <1>7, <1>8 DEF IsRun

LEMMA PacketRun ==
  ASSUME NEW p \in PacketType
  PROVE  IsRun([i \in 1..p.dataLen |-> p.seq + i - 1], p.seq, p.seq + p.dataLen)
<1>1. PICK n \in Nat, a \in Int : n = p.dataLen /\ a = p.seq
  BY ModelAssumption DEF PacketType
<1>2. PICK x : x = [i \in 1..n |-> a + i - 1]
  OBVIOUS
<1>3. \A i \in 1..n : a + i - 1 \in Int
  OBVIOUS
<1>4. x \in Seq(Int) /\ Len(x) = n
  <2>1. x \in [1..n -> Int]
    BY <1>2, <1>3
  <2> QED BY <2>1, SeqDef, LenProperties
<1> QED BY <1>1, <1>2, <1>4 DEF IsRun

\* The packets of the incoming ring follow one another: pos are their borders.
ChainedBy(q, first, next, pos) ==
    /\ pos \in [1..(Len(q) + 1) -> Int] /\ pos[1] = first /\ pos[Len(q) + 1] = next
    /\ \A j \in 1..Len(q) : q[j].seq = pos[j] /\ pos[j + 1] = pos[j] + q[j].dataLen

Chained(q, first, next) == \E pos : ChainedBy(q, first, next, pos)

LEMMA ChainedEmpty ==
  ASSUME NEW n \in Int
  PROVE  Chained(<< >>, n, n)
<1>1. PICK pos : pos = [j \in 1..1 |-> n]
  OBVIOUS
<1>2. Len(<< >>) = 0 /\ 0 + 1 = 1
  OBVIOUS
<1>3. pos \in [1..1 -> Int] /\ pos[1] = n
  BY <1>1
<1>4. ChainedBy(<< >>, n, n, pos)
  BY <1>2, <1>3 DEF ChainedBy
<1> QED BY <1>4 DEF Chained

LEMMA ChainedAppend ==
  ASSUME NEW q \in Seq(PacketType), NEW first, NEW next, Chained(q, first, next),
         NEW p \in PacketType, p.seq = next, NEW end, end = next + p.dataLen
  PROVE  Chained(Append(q, p), first, end)
<1>1. PICK pos : ChainedBy(q, first, next, pos)
  BY DEF Chained
<1>2. PICK n \in Nat : n = Len(q)
  BY LenProperties
<1>3. PICK r : r = Append(q, p)
  OBVIOUS
<1>4. Len(r) = n + 1 /\ r[n + 1] = p /\ \A j \in 1..n : r[j] = q[j]
  BY <1>2, <1>3, AppendProperties
<1>5. PICK m \in Nat : m = n + 1
  OBVIOUS
<1>6. /\ pos \in [1..m -> Int] /\ pos[1] = first /\ pos[m] = next
      /\ \A j \in 1..n : q[j].seq = pos[j] /\ pos[j + 1] = pos[j] + q[j].dataLen
  BY <1>1, <1>2, <1>5 DEF ChainedBy
<1>7. end \in Int /\ next \in Int
  <2>1. p.dataLen \in Int /\ p.seq \in Int
    BY DEF PacketType
  <2> QED BY <2>1
<1>8. PICK new : new = [j \in 1..(m + 1) |-> IF j = m + 1 THEN end ELSE pos[j]]
  OBVIOUS
<1>9. /\ new \in [1..(m + 1) -> Int] /\ new[m + 1] = end /\ \A j \in 1..m : new[j] = pos[j]
  <2>1. \A j \in 1..(m + 1) : j # m + 1 => j \in 1..m
    OBVIOUS
  <2> QED BY <1>6, <1>7, <1>8, <2>1
<1>10. ASSUME NEW j \in 1..m PROVE r[j].seq = new[j] /\ new[j + 1] = new[j] + r[j].dataLen
  <2>1. CASE j = m
    BY <1>4, <1>5, <1>6, <1>9, <2>1
  <2>2. CASE j # m
    <3>1. j \in 1..n /\ j + 1 \in 1..m
      BY <1>5, <2>2
    <3>2. r[j] = q[j] /\ new[j] = pos[j] /\ new[j + 1] = pos[j + 1]
      BY <1>4, <1>9, <3>1
    <3> QED BY <1>6, <3>1, <3>2
  <2> QED BY <2>1, <2>2
<1>11. new[1] = first
  BY <1>5, <1>6, <1>9
<1>12. ChainedBy(r, first, end, new)
  BY <1>4, <1>5, <1>9, <1>10, <1>11 DEF ChainedBy
<1> QED BY <1>3, <1>12 DEF Chained

LEMMA ChainedTail ==
  ASSUME NEW q \in Seq(PacketType), q # << >>, NEW first, NEW next, Chained(q, first, next)
  PROVE  Head(q).seq = first /\ Chained(Tail(q), first + Head(q).dataLen, next)
<1>1. PICK pos : ChainedBy(q, first, next, pos)
  BY DEF Chained
<1>2. PICK n \in Nat : n = Len(q) /\ n # 0
  BY LenProperties, EmptySeq
<1>3. PICK m \in Nat : n = m + 1
  <2>1. n - 1 \in Nat /\ n = (n - 1) + 1
    BY <1>2
  <2> QED BY <2>1
<1>4. PICK p, r : p = Head(q) /\ r = Tail(q)
  OBVIOUS
<1>5. p = q[1] /\ Len(r) = m /\ \A j \in 1..m : r[j] = q[j + 1]
  <2>1. Head(q) = q[1] /\ Len(Tail(q)) = Len(q) - 1 /\ \A j \in 1..(Len(q) - 1) : Tail(q)[j] = q[j + 1]
    BY HeadTailProperties
  <2>2. Len(q) - 1 = m
    BY <1>2, <1>3
  <2> QED BY <1>4, <2>1, <2>2, Zenon
<1>6. /\ pos \in [1..(n + 1) -> Int] /\ pos[1] = first /\ pos[n + 1] = next
      /\ \A j \in 1..n : q[j].seq = pos[j] /\ pos[j + 1] = pos[j] + q[j].dataLen
  BY <1>1, <1>2 DEF ChainedBy
<1>7. 1 \in 1..n /\ 1 + 1 = 2
  BY <1>2
<1>8. p.seq = first /\ pos[2] = first + p.dataLen
  BY <1>5, <1>6, <1>7
<1>9. PICK new : new = [j \in 1..(m + 1) |-> pos[j + 1]]
  OBVIOUS
<1>10. new \in [1..(m + 1) -> Int] /\ \A j \in 1..(m + 1) : new[j] = pos[j + 1]
  <2>1. \A j \in 1..(m + 1) : j + 1 \in 1..(n + 1)
    BY <1>3
  <2> QED BY <1>6, <1>9, <2>1
<1>11. new[1] = first + p.dataLen /\ new[m + 1] = next
  BY <1>3, <1>6, <1>7, <1>8, <1>10
<1>12. ASSUME NEW j \in 1..m PROVE r[j].seq = new[j] /\ new[j + 1] = new[j] + r[j].dataLen
  <2>1. PICK k \in 1..n : k = j + 1 /\ k \in 1..(m + 1)
    BY <1>3
  <2>2. r[j] = q[k] /\ new[j] = pos[k] /\ new[k] = pos[k + 1]
    BY <1>5, <1>10, <2>1
  <2> QED BY <1>6, <2>1, <2>2
<1>13. ChainedBy(r, first + p.dataLen, next, new)
  BY <1>5, <1>10, <1>11, <1>12 DEF ChainedBy
<1> QED BY <1>4, <1>8, <1>13 DEF Chained

\* The data of the incoming ring, as a run.
DataOf(q) == [j \in DOMAIN q |-> [i \in 1..q[j].dataLen |-> q[j].seq + i - 1]]

LEMMA UnreadRun ==
  ASSUME NEW q \in Seq(PacketType), NEW first, NEW next, Chained(q, first, next)
  PROVE  IsRun(FlattenSeq(DataOf(q)), first, next)
<1>1. PICK pos : ChainedBy(q, first, next, pos)
  BY DEF Chained
<1>2. PICK n \in Nat : n = Len(q) /\ DOMAIN q = 1..n
  BY LenProperties
<1>3. /\ pos \in [1..(n + 1) -> Int] /\ pos[1] = first /\ pos[n + 1] = next
      /\ \A j \in 1..n : q[j].seq = pos[j] /\ pos[j + 1] = pos[j] + q[j].dataLen
  BY <1>1, <1>2 DEF ChainedBy
<1>4. PICK ss : ss = DataOf(q)
  OBVIOUS
<1>5. /\ Len(ss) = n
      /\ \A j \in 1..n : ss[j] = [i \in 1..q[j].dataLen |-> q[j].seq + i - 1]
  BY <1>2, <1>4, LenProperties DEF DataOf
<1>6. ASSUME NEW j \in 1..n PROVE IsRun(ss[j], pos[j], pos[j + 1]) /\ pos[j] \in Int /\ pos[j + 1] \in Int
  <2>1. q[j] \in PacketType /\ q[j].seq = pos[j] /\ pos[j + 1] = pos[j] + q[j].dataLen
    BY <1>2, <1>3
  <2>2. IsRun(ss[j], q[j].seq, q[j].seq + q[j].dataLen)
    BY <1>5, <2>1, PacketRun
  <2>3. j \in 1..(n + 1) /\ j + 1 \in 1..(n + 1)
    OBVIOUS
  <2> QED BY <1>3, <2>1, <2>2, <2>3
<1>7. CASE n = 0
  <2>1. FlattenSeq(ss) = ss /\ first = next /\ first \in Int
    BY <1>3, <1>5, <1>7 DEF FlattenSeq
  <2>2. ss = << >>
    BY <1>2, <1>4, <1>7 DEF DataOf
  <2>3. << >> \in Seq(Int) /\ Len(<< >>) = 0
    BY EmptySeq
  <2>4. IsRun(<< >>, first, next)
    BY <2>1, <2>3 DEF IsRun
  <2> QED BY <1>4, <2>1, <2>2, <2>4
<1>8. CASE n # 0
  <2>1. PICK flat : /\ flat = [i \in 1..n |-> IF i = 1 THEN ss[i] ELSE flat[i - 1] \o ss[i]]
                    /\ FlattenSeq(ss) = flat[n]
    <3>1. Len(ss) \in Nat \ {0}
      BY <1>5, <1>8
    <3> QED BY <1>5, <3>1, Flattened
  <2>2. \A i \in 1..n : flat[i] = IF i = 1 THEN ss[i] ELSE flat[i - 1] \o ss[i]
    BY <2>1
  <2> DEFINE T == {k \in Nat : k < n => IsRun(flat[k + 1], first, pos[k + 2])}
  <2>3. 0 \in T
    <3>1. 1 \in 1..n /\ flat[1] = ss[1]
      BY <1>8, <2>2
    <3>2. IsRun(flat[1], first, pos[1 + 1])
      BY <1>3, <1>6, <3>1
    <3>3. 0 + 1 = 1 /\ 0 + 2 = 2 /\ 1 + 1 = 2
      OBVIOUS
    <3> QED BY <3>2, <3>3
  <2>4. ASSUME NEW k \in T PROVE k + 1 \in T
    <3>1. SUFFICES ASSUME k + 1 < n PROVE IsRun(flat[(k + 1) + 1], first, pos[(k + 1) + 2])
      OBVIOUS
    <3>2. k < n /\ IsRun(flat[k + 1], first, pos[k + 2])
      BY <2>4, <3>1
    <3>3. PICK j \in 1..n : j = k + 2 /\ j # 1 /\ j - 1 = k + 1 /\ (k + 1) + 1 = j /\ (k + 1) + 2 = j + 1
      BY <3>1
    <3>4. IsRun(ss[j], pos[j], pos[j + 1]) /\ pos[j] \in Int /\ pos[j + 1] \in Int /\ first \in Int
      BY <1>3, <1>6
    <3>5. flat[j] = flat[j - 1] \o ss[j]
      BY <2>2, <3>3
    <3>6. IsRun(flat[j - 1], first, pos[j])
      BY <3>2, <3>3
    <3>7. IsRun(flat[j], first, pos[j + 1])
      BY <3>4, <3>5, <3>6, RunConcat
    <3> QED BY <3>3, <3>7
  <2>5. T = Nat
    <3> HIDE DEF T
    <3>1. T \in SUBSET Nat
      BY DEF T
    <3> QED BY <2>3, <2>4, <3>1, SetInduction
  <2>6. PICK k \in Nat : k + 1 = n /\ k + 2 = n + 1 /\ k < n
    <3>1. n - 1 \in Nat /\ (n - 1) + 1 = n /\ (n - 1) + 2 = n + 1 /\ n - 1 < n
      BY <1>8
    <3> QED BY <3>1
  <2>7. IsRun(flat[k + 1], first, pos[k + 2])
    BY <2>5, <2>6
  <2> QED BY <1>3, <1>4, <2>1, <2>6, <2>7
<1> QED BY <1>7, <1>8

-----------------------------------------------------------------------------
(* What has been received of the server's stream *)

\* The states in which the server's FIN is still to come, and the ones after it.
OpenStates == {"ESTABLISHED", "SEND_FIN1", "SEND_FIN3", "FIN_WAIT_1", "FIN_WAIT_2"}
HalfStates == {"CLOSE_WAIT", "SEND_FIN2", "LAST_ACK", "CLOSING", "TIME_WAIT"}

\* What the socket has stored, and what it has acknowledged, when the bot reads
\* the unit of data `first' next.
Received(s, first) ==
    \/ /\ ~s.active /\ s.state = "CLOSED"
       /\ \E next \in Int : Chained(s.incoming, first, next)
    \/ /\ s.active /\ s.state \in {"SYN_SENT", "CLOSED"}
       /\ s.ackNum = 0 /\ s.incoming = << >> /\ first = 1
    \/ /\ s.active /\ s.state = "SYN_RECVED"
       /\ s.ackNum = 1 /\ Chained(s.incoming, first, 1)
    \/ /\ s.active /\ s.state \in OpenStates \cup {"CLOSED"}
       /\ Chained(s.incoming, first, s.ackNum)
    \/ /\ s.active /\ s.state \in HalfStates \cup {"CLOSED"}
       /\ peer.fin /\ s.ackNum = peer.next + 1 /\ Chained(s.incoming, first, peer.next)

\* The inductive invariant for the receiver.
RInv ==
    /\ IInv /\ SInv
    /\ IsRun(got, 1, Len(got) + 1)
    /\ app = "start" => sock.ackNum = 0 /\ sock.incoming = << >> /\ got = << >>
    /\ Received(sock, Len(got) + 1)

\* Whoever answers the bot's answer to a SYN acknowledges it: this is where the
\* receiver depends on the sender.  (Otherwise processGood clears the queues, with
\* what it has just stored.)
AnswersCurrent(s) ==
    s.active /\ s.state = "SYN_RECVED" => \A seg \in Arriving : seg.isAck => AckCurrent(s, seg)

LEMMA SynAnswers ==
  ASSUME PeerType, NEW s, NEW n, NEW cl, Sending(s, peer, n, cl)
  PROVE  AnswersCurrent(s)
<1>1. SUFFICES ASSUME s.active, s.state = "SYN_RECVED", NEW seg \in Arriving, seg.isAck
               PROVE  AckCurrent(s, seg)
  BY DEF AnswersCurrent
<1>2. PICK b \in {0, -1} : Connection(s, peer, b, n, cl)
  BY DEF Sending
<1>3. s.seqNum = b + 1 /\ n = 0 /\ ~cl
  BY <1>1, <1>2 DEF Connection, Settled, Sender, Phase, Opening, Transfer, Ended, Aborted, FinStates, FinSent
<1>4. seg \in SegmentType /\ 1 <= seg.ack /\ seg.ack <= peer.rcv
  BY <1>1, ArrivingAcks
<1>5. PICK g \in Seq(Int), k \in Nat : g = peer.got /\ k = Len(g) /\ DOMAIN g = 1..k
  <2>1. PICK g \in Seq(Int) : g = peer.got
    BY DEF PeerType
  <2>2. Len(g) \in Nat /\ DOMAIN g = 1..Len(g)
    BY LenProperties
  <2> QED BY <2>1, <2>2
<1>6. /\ IF b = 0 THEN (peer.rcv = 0 /\ g = << >>) \/ peer.rcv = k + 1 ELSE peer.rcv = k
      /\ \A i \in 1..k : g[i] = i /\ i <= 0
  BY <1>2, <1>3, <1>5 DEF Connection, ServerGot
<1>7. k = 0
  <2>1. 1 \in 1..k => 1 <= 0
    BY <1>6
  <2> QED BY <1>5, <2>1
<1>8. seg.ack \in Int /\ peer.rcv \in Nat
  BY <1>4, ModelAssumption DEF SegmentType, PeerType
<1>9. seg.ack = 1 /\ b = 0
  BY <1>4, <1>6, <1>7, <1>8
<1> QED BY <1>1, <1>3, <1>9 DEF AckCurrent

\* What arrives.
LEMMA ArrivingStream ==
  ASSUME PeerType, NEW seg \in Arriving
  PROVE  /\ seg.syn => seg.seq = 0
         /\ seg.isAck => peer.rcv > 0
         /\ seg.seq = 0 => seg.dataLen = 0 /\ ~seg.fin
         /\ seg.fin => peer.fin /\ seg.seq + seg.dataLen = peer.next
         /\ seg.dataLen # 0 => seg.seq + seg.dataLen <= peer.next
<1>1. peer.rcv \in Nat /\ peer.next \in Nat /\ peer.fin \in BOOLEAN
  BY DEF PeerType
<1>2. PICK after \in Nat : after = IF peer.fin THEN peer.next + 1 ELSE peer.next
  BY <1>1
<1>3. \/ seg \in Segments(TRUE, FALSE, FALSE, FALSE, {0}, {0}, {0})
      \/ peer.rcv > 0 /\ seg \in Segments(TRUE, FALSE, FALSE, TRUE, {0}, {1}, {0})
      \/ peer.rcv > 0 /\ seg \in Segments(FALSE, FALSE, TRUE, TRUE, {0}, {1}, {0})
      \/ /\ peer.rcv > 0
         /\ seg \in Segments(FALSE, FALSE, FALSE, TRUE, 1..after, 1..peer.rcv, 0..MaxSeg)
         /\ seg.seq + seg.dataLen <= peer.next \/ seg.dataLen = 0
      \/ /\ peer.rcv > 0
         /\ seg \in Segments(FALSE, TRUE, FALSE, TRUE, 1..peer.next, 1..peer.rcv, 0..MaxSeg)
         /\ peer.fin /\ seg.seq + seg.dataLen = peer.next
      \/ peer.rcv > 0 /\ seg \in Segments(FALSE, FALSE, TRUE, TRUE, 1..after, {peer.rcv}, {0})
  BY <1>2 DEF Arriving, ArrivingOpen
<1>4. seg \in SegmentType /\ MaxSeg \in Nat
  BY ArrivingTyped, ModelAssumption
<1>5. PICK q \in Int, d \in Nat : q = seg.seq /\ d = seg.dataLen
  BY <1>4 DEF SegmentType
<1>6. /\ seg.syn => seg.seq = 0
      /\ seg.isAck => peer.rcv > 0
      /\ seg.fin => peer.fin /\ seg.seq + seg.dataLen = peer.next
      /\ seg.dataLen = 0 \/ seg.seq + seg.dataLen <= peer.next \/ seg.seq + seg.dataLen = peer.next
  BY <1>3 DEF Segments
<1>7. ASSUME seg.seq = 0 PROVE seg.dataLen = 0 /\ ~seg.fin
  <2>1. 0 \notin 1..after /\ 0 \notin 1..peer.next
    BY <1>1
  <2>2. \/ seg \in Segments(TRUE, FALSE, FALSE, FALSE, {0}, {0}, {0})
        \/ seg \in Segments(TRUE, FALSE, FALSE, TRUE, {0}, {1}, {0})
        \/ seg \in Segments(FALSE, FALSE, TRUE, TRUE, {0}, {1}, {0})
    BY <1>3, <1>7, <2>1 DEF Segments
  <2> QED BY <2>2 DEF Segments
<1> QED BY <1>1, <1>5, <1>6, <1>7

\* Nothing that concerns the receiver changes.
LEMMA ReceivedSame ==
  ASSUME NEW s, NEW t, SameInput(s, t), t.state = s.state, NEW first, Received(s, first)
  PROVE  Received(t, first)
  BY DEF SameInput, Received

\* destroy
LEMMA ReceivedDestroyed ==
  ASSUME NEW s, NEW t, Destroyed(s, t), NEW first \in Int
  PROVE  Received(t, first)
<1>1. Chained(<< >>, first, first)
  BY ChainedEmpty
<1> QED BY <1>1 DEF Destroyed, Received

\* drivePackets sends the FIN.
LEMMA ReceivedDriven ==
  ASSUME NEW s, NEW t, SameInput(s, t), StateMoved(s, t), NEW first, Received(s, first)
  PROVE  Received(t, first)
<1>1. CASE t.state = s.state
  BY <1>1, ReceivedSame
<1>2. CASE s.state \in FinStates /\ t.state = AfterFin(s.state)
  BY <1>2 DEF Received, SameInput, FinStates, AfterFin, OpenStates, HalfStates
<1> QED BY <1>1, <1>2 DEF StateMoved

\* A segment with acceptable numbers.
LEMMA ReceivedGood ==
  ASSUME PeerType, NEW away, NEW s, Clean(s, away), NEW seg \in Arriving, NEW t,
         s.state \notin {"SYN_SENT", "CLOSED"}, SeqProper(s, seg), GoodInput(s, t, seg),
         s.state = "SYN_RECVED" => AckCurrent(s, seg),
         NEW first \in Int, Received(s, first)
  PROVE  Received(t, first)
<1>1. seg \in SegmentType
  BY ArrivingTyped
<1>2. PICK a \in Int, d \in Nat, x \in Nat, q \in Seq(PacketType) :
          a = s.ackNum /\ d = seg.dataLen /\ x = peer.next /\ q = s.incoming
  <2>1. s.ackNum \in Int /\ s.incoming \in Seq(PacketType)
    BY DEF Clean, Sockets
  <2>2. seg.dataLen \in Nat
    BY <1>1, ModelAssumption DEF SegmentType
  <2>3. peer.next \in Nat
    BY DEF PeerType
  <2> QED BY <2>1, <2>2, <2>3
<1>3. /\ s.active /\ s.state \in {"SYN_RECVED"} \cup OpenStates \cup HalfStates
      /\ seg.seq = a \/ (s.state = "SYN_RECVED" /\ a = 1 /\ seg.seq = 0)
  BY <1>2 DEF Received, SeqProper, OpenStates, HalfStates
<1>4. /\ seg.fin => peer.fin /\ a + d = x
      /\ d # 0 => seg.seq = a /\ a + d <= x
  BY <1>2, <1>3, ArrivingStream
<1>5. CASE d # 0 /\ ~hasRoom(s.incoming) /\ t.state = s.state /\ t.ackNum = s.ackNum /\ t.incoming = s.incoming
  BY <1>5 DEF GoodInput, Received
<1>6. CASE /\ t.incoming = IF d # 0 THEN Append(q, InRing(seg)) ELSE q
           /\ t.ackNum = a + d + (IF TakesFin(s, seg) THEN 1 ELSE 0)
           /\ t.state = NewState(s, seg)
  <2>1. t.active
    BY <1>3 DEF GoodInput
  <2>2. CASE s.state \in {"SYN_RECVED"} \cup OpenStates
    <3>1. Chained(q, first, a)
      BY <1>2, <1>3, <2>2 DEF Received, OpenStates, HalfStates
    <3>2. Chained(t.incoming, first, a + d)
      <4>1. CASE d = 0
        BY <1>2, <1>6, <3>1, <4>1
      <4>2. CASE d # 0
        <5>1. PICK p : p = InRing(seg)
          OBVIOUS
        <5>2. p \in PacketType /\ p.seq = a /\ p.dataLen = d
          <6>1. d \in 1..MaxSeg
            BY <1>1, <1>2, <4>2, ModelAssumption DEF SegmentType
          <6> QED BY <1>2, <1>4, <4>2, <5>1, <6>1 DEF InRing, PacketType
        <5>3. PICK end : end = a + d
          OBVIOUS
        <5>4. Chained(Append(q, p), first, end)
          BY <3>1, <5>2, <5>3, ChainedAppend
        <5> QED BY <1>6, <4>2, <5>1, <5>3, <5>4
      <4> QED BY <4>1, <4>2
    <3>3. CASE seg.fin /\ s.state \notin {"SYN_RECVED", "SEND_FIN3"}
      <4>1. TakesFin(s, seg) /\ t.state \in HalfStates
        BY <1>6, <2>2, <3>3 DEF TakesFin, NewState, OpenStates, HalfStates
      <4>2. t.ackNum = x + 1 /\ peer.fin /\ a + d = x
        BY <1>4, <1>6, <3>3, <4>1
      <4> QED BY <1>2, <2>1, <3>2, <4>1, <4>2 DEF Received
    <3>4. CASE ~seg.fin \/ s.state \in {"SYN_RECVED", "SEND_FIN3"}
      <4>1. ~TakesFin(s, seg) /\ t.state \in OpenStates
        BY <1>6, <2>2, <3>4 DEF TakesFin, NewState, OpenStates
      <4>2. t.ackNum = a + d
        BY <1>6, <4>1
      <4> QED BY <2>1, <3>2, <4>1, <4>2 DEF Received
    <3> QED BY <3>3, <3>4
  <2>3. CASE s.state \in HalfStates
    <3>1. peer.fin /\ a = x + 1 /\ Chained(q, first, x)
      BY <1>2, <1>3, <2>3 DEF Received, OpenStates, HalfStates
    <3>2. d = 0
      BY <1>4, <3>1
    <3>3. ~TakesFin(s, seg) /\ t.state \in HalfStates \cup {"CLOSED"}
      BY <1>6, <2>3 DEF TakesFin, NewState, HalfStates
    <3>4. t.ackNum = x + 1 /\ t.incoming = q
      BY <1>6, <3>1, <3>2, <3>3
    <3> QED BY <1>2, <2>1, <3>1, <3>3, <3>4 DEF Received
  <2> QED BY <1>3, <2>2, <2>3
<1> QED BY <1>2, <1>5, <1>6 DEF GoodInput

\* process
LEMMA ReceivedProcessed ==
  ASSUME PeerType, NEW away, NEW s, Clean(s, away), AnswersCurrent(s), NEW seg \in Arriving, NEW t,
         Processed(s, t, seg), NEW first \in Int, Received(s, first)
  PROVE  Received(t, first)
<1>1. CASE Destroyed(s, t)
  BY <1>1, ReceivedDestroyed
<1>2. CASE SameInput(s, t) /\ t.state = s.state
  BY <1>2, ReceivedSame
<1>3. seg.syn => seg.seq = 0
  BY ArrivingStream
<1>4. CASE /\ s.state = "SYN_SENT" /\ seg.syn /\ t.state = "ESTABLISHED" /\ t.ackNum = seg.seq + 1
           /\ t.incoming = s.incoming /\ t.active = s.active
  <2>1. s.active /\ Chained(s.incoming, first, 1)
    BY <1>4, ChainedEmpty DEF Received, OpenStates, HalfStates
  <2>2. t.ackNum = 1
    BY <1>3, <1>4
  <2> QED BY <1>4, <2>1, <2>2 DEF Received, OpenStates
<1>5. CASE /\ s.state = "SYN_SENT" /\ seg.syn /\ t.state = "SYN_RECVED" /\ t.ackNum = seg.seq + 1
           /\ t.incoming = << >> /\ t.active = s.active
  <2>1. s.active /\ first = 1
    BY <1>5 DEF Received, OpenStates, HalfStates
  <2>2. t.ackNum = 1
    BY <1>3, <1>5
  <2> QED BY <1>5, <2>1, <2>2, ChainedEmpty DEF Received
<1>6. CASE /\ s.state \notin {"SYN_SENT", "CLOSED", "TIME_WAIT"} /\ seg.isAck /\ SeqProper(s, seg)
           /\ s.state # "SYN_RECVED" \/ AckCurrent(s, seg) => GoodInput(s, t, seg)
  <2>1. s.active
    BY <1>6 DEF Received
  <2>2. s.state # "SYN_RECVED" \/ AckCurrent(s, seg)
    BY <1>6, <2>1 DEF AnswersCurrent
  <2> QED BY <1>6, <2>2, ReceivedGood
<1> QED BY <1>1, <1>2, <1>4, <1>5, <1>6 DEF Processed, SynSentInput

\* A turn of a loop.
LEMMA ReceivedTurn ==
  ASSUME PeerType, NEW away \in SUBSET Pool, NEW s, Clean(s, away), AnswersCurrent(s), NEW t \in Turns(s),
         NEW first \in Int, Received(s, first)
  PROVE  Received(t, first)
<1>1. PICK s1 : Turned(s, t, s1)
  BY TurnClean
<1>2. Received(s1, first)
  <2>1. CASE s1 = s
    BY <2>1
  <2>2. ASSUME NEW seg \in Arriving, Processed(s, s1, seg) PROVE Received(s1, first)
    BY <2>2, ReceivedProcessed
  <2> QED BY <1>1, <2>1, <2>2 DEF Turned
<1>3. CASE Destroyed(s1, t)
  BY <1>3, ReceivedDestroyed
<1>4. CASE SameInput(s1, t) /\ StateMoved(s1, t)
  BY <1>2, <1>4, ReceivedDriven
<1> QED BY <1>1, <1>3, <1>4 DEF Turned

LEMMA InitRInv ==
  ASSUME Init
  PROVE  RInv
<1>1. IInv /\ SInv
  BY InitIInv, InitSInv
<1>2. sock.state = "CLOSED" /\ ~sock.active /\ sock.ackNum = 0 /\ sock.incoming = << >>
  BY DEF Init, reinit
<1>3. got = << >> /\ Len(got) = 0 /\ got \in Seq(Int)
  BY EmptySeq DEF Init
<1>4. Chained(<< >>, 0 + 1, 1)
  BY ChainedEmpty
<1>5. IsRun(got, 1, 0 + 1)
  BY <1>3 DEF IsRun
<1>6. Received(sock, 0 + 1)
  BY <1>2, <1>4 DEF Received
<1> QED BY <1>1, <1>2, <1>3, <1>5, <1>6 DEF RInv

\* A step that does not look at what was received.
LEMMA ReceivedKept ==
  ASSUME RInv, IInv', SInv', Received(sock', Len(got) + 1), UNCHANGED <<got, peer>>, app' # "start"
  PROVE  RInv'
  BY DEF RInv, Received

\* Every step keeps the invariant.
LEMMA StepRInv ==
  ASSUME RInv, [Next]_vars
  PROVE  RInv'
<1>1. IInv /\ IInv' /\ SInv' /\ PeerType
  BY StepIInv, StepSInv DEF RInv, IInv
<1>2. Away \in SUBSET Pool /\ Clean(sock, Away) /\ accepted \in Seq(Nat)
  BY <1>1 DEF IInv, Away
<1>3. PICK first \in Int : first = Len(got) + 1 /\ Received(sock, first)
  <2>1. Len(got) \in Nat
    BY LenProperties DEF RInv, IsRun
  <2> QED BY <2>1 DEF RInv
<1>4. ASSUME NEW t \in Turns(sock) PROVE Received(t, first)
  <2>1. AnswersCurrent(sock)
    BY <1>1, SynAnswers DEF RInv, SInv
  <2> QED BY <1>1, <1>2, <1>3, <2>1, ReceivedTurn
<1>5. CASE UNCHANGED vars
  BY <1>1, <1>5 DEF vars, RInv, Received
<1>6. CASE PeerNext
  <2>1. UNCHANGED botVars /\ ((peer'.fin = peer.fin /\ peer'.next = peer.next) \/ ~peer.fin)
    BY <1>1, <1>6, PeerStep
  <2>2. Received(sock, first)'
    BY <1>3, <2>1 DEF Received, botVars
  <2> QED BY <1>1, <1>3, <2>1, <2>2 DEF botVars, RInv
<1>7. CASE connect
  <2>1. PICK t : t = sock' /\ t = connect2(sock)
    BY <1>7 DEF connect
  <2>2. t.state = "SYN_SENT" /\ t.active /\ t.ackNum = sock.ackNum /\ t.incoming = sock.incoming
    <3>1. IInv
      BY <1>1 DEF RInv, SInv
    <3>2. sock.replaced = 0
      BY <1>7, <3>1 DEF connect, IInv
    <3> QED BY <1>2, <2>1, <3>2, Connect2
  <2>3. sock.ackNum = 0 /\ sock.incoming = << >> /\ got = << >>
    BY <1>7 DEF connect, RInv
  <2>4. first = 1 /\ Chained(<< >>, 1, 1)
    BY <1>3, <2>3, ChainedEmpty, EmptySeq
  <2>5. Received(t, first)
    BY <2>2, <2>3, <2>4 DEF Received
  <2> QED BY <1>1, <1>3, <1>7, <2>1, <2>5, ReceivedKept DEF connect
<1>8. CASE connected
  <2>1. PICK s \in Turns(sock) : getXmitBuf(s)
    BY <1>8 DEF connected
  <2>2. Clean(s, Away) /\ Received(s, first)
    BY <1>1, <1>2, <1>4, TurnClean
  <2>3. SameInput(s, sock') /\ SameNumbers(s, sock')
    BY <1>2, <2>1, <2>2, GetBuffer
  <2>4. Received(sock', first)
    BY <2>2, <2>3, ReceivedSame DEF SameNumbers
  <2> QED BY <1>1, <1>3, <1>8, <2>4, ReceivedKept DEF connected
<1>9. CASE connectLoop
  <2>1. PICK s \in Turns(sock) : sock' = s
    BY <1>9 DEF connectLoop
  <2>2. Received(sock', first)
    BY <1>4, <2>1
  <2>3. app' # "start"
    BY <1>9 DEF connectLoop
  <2> QED BY <1>1, <1>3, <1>9, <2>2, <2>3, ReceivedKept DEF connectLoop
<1>10. CASE sendNewBuffer
  <2>1. sendBuffer \in Pool /\ app' # "start" /\ UNCHANGED <<got, peer>>
    BY <1>1, <1>10 DEF sendNewBuffer, afterSend, IInv
  <2>2. PICK s1 : s1 = enqueue(Filled(sock, sendBuffer), sendBuffer)
    OBVIOUS
  <2>3. Clean(s1, Away \ {sendBuffer}) /\ SameInput(sock, s1) /\ SameNumbers(sock, s1)
    <3>1. sendBuffer \in Away /\ enqueueGood(Filled(sock, sendBuffer), sendBuffer)
      BY <1>10, <2>1 DEF Away, sendNewBuffer
    <3> QED BY <1>2, <2>2, <3>1, EnqueuedClean
  <2>4. Away \ {sendBuffer} \in SUBSET Pool
    BY <1>2
  <2>5. PICK s2 : \/ s2 = s1 /\ sock' \in Turns(s2)
                  \/ \E b \in s1.free : s2 = [s1 EXCEPT !.free = @ \ {b}] /\ sock' \in Turns(s2)
    BY <1>10, <2>2 DEF sendNewBuffer
  <2>6. \E w \in SUBSET Pool : Clean(s2, w) /\ SameInput(s1, s2) /\ SameNumbers(s1, s2)
    <3>1. CASE s2 = s1
      BY <2>3, <2>4, <3>1 DEF SameInput, SameNumbers
    <3>2. ASSUME NEW b \in s1.free, s2 = [s1 EXCEPT !.free = @ \ {b}]
          PROVE  \E w \in SUBSET Pool : Clean(s2, w) /\ SameInput(s1, s2) /\ SameNumbers(s1, s2)
      <4>1. PICK w \in SUBSET Pool : w = Away \ {sendBuffer} /\ Clean(s1, w)
        BY <2>3, <2>4
      <4>2. Clean(s2, w \cup {b}) /\ SameInput(s1, s2) /\ SameNumbers(s1, s2) /\ b \in Pool
        BY <3>2, <4>1, TakenClean
      <4>3. w \cup {b} \in SUBSET Pool
        BY <2>4, <4>1, <4>2
      <4> QED BY <4>2, <4>3
    <3> QED BY <2>5, <3>1, <3>2
  <2>7. Received(s2, first)
    <3>1. Received(s1, first)
      BY <1>3, <2>3, ReceivedSame DEF SameNumbers
    <3> QED BY <2>6, <3>1, ReceivedSame DEF SameNumbers
  <2>8. Received(sock', first)
    <3>1. PICK w \in SUBSET Pool : Clean(s2, w)
      BY <2>6
    <3>2. PICK t \in Turns(s2) : t = sock'
      BY <2>5
    <3>3. AnswersCurrent(s2)
      <4>1. Open(sock)
        BY <1>10 DEF sendNewBuffer, afterSend, RInv, SInv
      <4>2. s2.active = sock.active /\ s2.state = sock.state
        BY <2>3, <2>6 DEF SameInput, SameNumbers
      <4> QED BY <4>1, <4>2 DEF Open, AnswersCurrent
    <3> QED BY <1>1, <2>7, <3>1, <3>2, <3>3, ReceivedTurn
  <2> QED BY <1>1, <1>3, <2>1, <2>8, ReceivedKept
<1>11. CASE sendNewBufferFails
  <2>1. sendBuffer \in Pool /\ app' # "start" /\ UNCHANGED <<got, peer>>
    BY <1>1, <1>11 DEF sendNewBufferFails, IInv
  <2>2. PICK s : /\ s = IF enqueueGood(sock, sendBuffer) THEN sock ELSE enqueue(Filled(sock, sendBuffer), sendBuffer)
                 /\ getXmitBuf(s)
    BY <1>11 DEF sendNewBufferFails
  <2>3. Clean(s, Away) /\ SameInput(sock, s) /\ SameNumbers(sock, s)
    <3>1. sendBuffer \in Away
      BY <2>1 DEF Away
    <3> QED BY <1>2, <2>2, <3>1, RefusedClean DEF Unqueued
  <2>4. SameInput(s, sock') /\ SameNumbers(s, sock')
    BY <1>2, <2>2, <2>3, GetBuffer
  <2>5. Received(s, first)
    BY <1>3, <2>3, ReceivedSame DEF SameNumbers
  <2>6. Received(sock', first)
    BY <2>4, <2>5, ReceivedSame DEF SameNumbers
  <2> QED BY <1>1, <1>3, <2>1, <2>6, ReceivedKept
<1>12. CASE cannotSend \/ sendWithoutBuffer \/ packetDone
  <2>1. UNCHANGED <<sock, got, peer>> /\ app' # "start"
    BY <1>12 DEF cannotSend, sendWithoutBuffer, packetDone
  <2> QED BY <1>1, <1>3, <2>1, ReceivedKept
<1>13. CASE recvNewPacket
  <2>1. PICK q \in Seq(PacketType) : q = sock.incoming /\ q # << >> /\ sock \in Sockets
    BY <1>2, <1>13 DEF Clean, Sockets, recvNewPacket
  <2>2. PICK p \in PacketType, r \in Seq(PacketType) : p = Head(q) /\ r = Tail(q)
    BY <2>1, HeadTailProperties
  <2>3. PICK x : x = [i \in 1..p.dataLen |-> p.seq + i - 1]
    OBVIOUS
  <2>4. got' = got \o x /\ sock' = [sock EXCEPT !.incoming = r] /\ UNCHANGED peer /\ app' # "start"
    BY <1>13, <2>1, <2>2, <2>3 DEF recvNewPacket
  <2>5. PICK d \in Int, second \in Int : d = p.dataLen /\ second = first + d
    BY DEF PacketType
  <2>6. ASSUME NEW next, Chained(q, first, next) PROVE p.seq = first /\ Chained(r, second, next)
    BY <2>1, <2>2, <2>5, <2>6, ChainedTail
  <2>7. \E next : Chained(q, first, next)
    BY <1>3, <2>1 DEF Received
  <2>8. IsRun(x, first, second)
    BY <2>3, <2>5, <2>6, <2>7, PacketRun
  <2>9. IsRun(got', 1, second)
    <3>1. IsRun(got, 1, first)
      BY <1>3 DEF RInv
    <3>2. PICK g : g = got
      OBVIOUS
    <3>3. IsRun(g \o x, 1, second)
      BY <2>8, <3>1, <3>2, RunConcat
    <3> QED BY <2>4, <3>2, <3>3
  <2>10. second = Len(got') + 1
    BY <2>9 DEF IsRun
  <2>11. PICK t : t = sock' /\ t = [sock EXCEPT !.incoming = r]
    BY <2>4
  <2>12. t.incoming = r /\ t.active = sock.active /\ t.state = sock.state /\ t.ackNum = sock.ackNum
    BY <2>1, <2>11 DEF Sockets
  <2>13. Received(t, second)
    BY <1>3, <2>1, <2>6, <2>12 DEF Received
  <2> QED BY <1>1, <2>4, <2>9, <2>10, <2>11, <2>13 DEF RInv, Received
<1>14. CASE recvLoop
  <2>1. PICK s \in Turns(sock) : sock' = s
    BY <1>14 DEF recvLoop
  <2>2. Received(sock', first)
    BY <1>4, <2>1
  <2>3. app' # "start"
    BY <1>14 DEF recvLoop
  <2> QED BY <1>1, <1>3, <1>14, <2>2, <2>3, ReceivedKept DEF recvLoop
<1>15. CASE close
  <2>1. PICK t : t = sock' /\ t = closeLocal(sock)
    BY <1>15 DEF close
  <2>2. /\ SameInput(sock, t)
        /\ \/ t.state = sock.state
           \/ t.state = "CLOSED" /\ sock.state \in {"TIME_WAIT", "SYN_SENT"}
           \/ sock.state \in {"SYN_RECVED", "ESTABLISHED", "CLOSE_WAIT"} /\ t.state = FinOf(sock.state)
    BY <1>2, <2>1, CloseLocal
  <2>3. Received(t, first)
    <3>1. CASE t.state = sock.state
      BY <1>3, <2>2, <3>1, ReceivedSame
    <3>2. CASE t.state = "CLOSED" /\ sock.state \in {"TIME_WAIT", "SYN_SENT"}
      BY <1>3, <2>2, <3>2 DEF Received, SameInput, OpenStates, HalfStates
    <3>3. CASE sock.state \in {"SYN_RECVED", "ESTABLISHED", "CLOSE_WAIT"} /\ t.state = FinOf(sock.state)
      BY <1>3, <2>2, <3>3 DEF Received, SameInput, OpenStates, HalfStates, FinOf
    <3> QED BY <2>2, <3>1, <3>2, <3>3
  <2> QED BY <1>1, <1>3, <1>15, <2>1, <2>3, ReceivedKept DEF close
<1>16. CASE closeLoop
  <2>1. Received(sock', first)
    BY <1>4, <1>16 DEF closeLoop
  <2> QED BY <1>1, <1>3, <1>16, <2>1, ReceivedKept DEF closeLoop
<1>17. CASE closeDone
  <2>1. PICK t : t = sock' /\ t = isCloseDone(sock, TRUE)
    BY <1>17 DEF closeDone
  <2>2. Received(t, first)
    BY <1>2, <2>1, CloseDone, ReceivedDestroyed
  <2> QED BY <1>1, <1>3, <1>17, <2>1, <2>2, ReceivedKept DEF closeDone
<1> QED BY <1>5, <1>6, <1>7, <1>8, <1>9, <1>10, <1>11, <1>12, <1>13, <1>14, <1>15, <1>16, <1>17
        DEF Next, BotNext

LEMMA ReceiverInvariant ==
  Spec => []RInv
<1>1. Init => RInv
  BY InitRInv
<1>2. RInv /\ [Next]_vars => RInv'
  BY StepRInv
<1> QED BY <1>1, <1>2, PTL DEF Spec

\* What the bot has read and what waits for it, together.
LEMMA StreamRun ==
  ASSUME RInv
  PROVE  \E next \in Int :
            /\ IsRun(got \o Unread, 1, next)
            /\ sock.active /\ sock.ackNum > 0 => sock.ackNum = next \/ (peer.fin /\ sock.ackNum = next + 1)
<1>1. PICK first \in Int : first = Len(got) + 1 /\ IsRun(got, 1, first)
  <2>1. Len(got) \in Nat
    BY LenProperties DEF RInv, IsRun
  <2> QED BY <2>1 DEF RInv
<1>2. PICK q \in Seq(PacketType) : q = sock.incoming
  BY DEF RInv, IInv, Clean, Sockets
<1>3. peer.next \in Int /\ sock.ackNum \in Int
  BY DEF RInv, IInv, Clean, Sockets, PeerType
<1>4. PICK next \in Int :
         /\ Chained(q, first, next)
         /\ sock.active /\ sock.ackNum > 0 => sock.ackNum = next \/ (peer.fin /\ sock.ackNum = next + 1)
  <2>1. Received(sock, first)
    BY <1>1 DEF RInv
  <2>2. Chained(<< >>, 1, 1)
    BY ChainedEmpty
  <2> QED BY <1>2, <1>3, <2>1, <2>2 DEF Received
<1>5. Unread = FlattenSeq(DataOf(q))
  BY <1>2 DEF Unread, DataOf
<1>6. IsRun(Unread, first, next)
  BY <1>4, <1>5, UnreadRun
<1>7. IsRun(got \o Unread, 1, next)
  BY <1>1, <1>6, RunConcat
<1> QED BY <1>4, <1>7

\* The bot reads the server's stream from its start, without a gap, a repetition
\* or a swap, and the incoming ring continues it (processPacketData takes only
\* the segment that is expected, recvNewPacket the oldest entry), whatever is
\* lost, repeated or reordered.
THEOREM StreamIsInOrder ==
  Spec => []StreamInOrder
<1>1. RInv => StreamInOrder
  <2> SUFFICES ASSUME RInv PROVE StreamInOrder
    OBVIOUS
  <2>0. PICK x : x = got \o Unread
    OBVIOUS
  <2>1. PICK next \in Int : IsRun(x, 1, next)
    BY <2>0, StreamRun
  <2>2. x \in Seq(Int) /\ DOMAIN x = 1..Len(x) /\ Len(x) \in Nat
    BY <2>1, LenProperties DEF IsRun
  <2>3. \A i \in DOMAIN x : x[i] = i
    BY <2>1, <2>2 DEF IsRun
  <2> QED BY <2>0, <2>3 DEF StreamInOrder
<1> QED BY <1>1, ReceiverInvariant, PTL

\* Everything acknowledged to the server has been stored for the bot, apart from
\* the server's SYN and FIN: a segment that finds the incoming ring full is not
\* acknowledged (processPacketData).
THEOREM AcknowledgedDataIsStored ==
  Spec => []AcknowledgedIsStored
<1>1. RInv => AcknowledgedIsStored
  <2> SUFFICES ASSUME RInv, sock.active, sock.ackNum > 0
               PROVE  sock.ackNum - 1 - Len(got \o Unread) \in {0, IF peer.fin THEN 1 ELSE 0}
    BY DEF AcknowledgedIsStored
  <2>0. PICK x : x = got \o Unread
    OBVIOUS
  <2>1. PICK next \in Int : /\ IsRun(x, 1, next)
                            /\ sock.ackNum = next \/ (peer.fin /\ sock.ackNum = next + 1)
    BY <2>0, StreamRun
  <2>2. Len(x) = next - 1
    BY <2>1 DEF IsRun
  <2> QED BY <2>0, <2>1, <2>2
<1> QED BY <1>1, ReceiverInvariant, PTL
=============================================================================
