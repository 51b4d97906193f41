---------------------------- MODULE QueueProofs -----------------------------
(***************************************************************************)
(* The queues of a TCP socket.  The ring buffer of RINGBUF.H is correct    *)
(* for every ring size: its inductive invariant, and that it implements a  *)
(* bounded FIFO queue.  And what the sequence numbers decide about the     *)
(* sent queue, for every width of the numbers.                             *)
(***************************************************************************)
EXTENDS RingBuffer, SeqNumbers, SequenceTheorems, TLAPS

(* The ring buffer *)

\* What the mask does to the only values it is applied to: an index in range is
\* itself, and an index one turn too far comes back by Size.
LEMMA MaskValue ==
    ASSUME NEW i \in Nat, i < 2 * Size
    PROVE  Mask(i) = IF i < Size THEN i ELSE i - Size
<1>. USE SizeAssumption
<1>1. CASE i < Size
  BY <1>1 DEF Mask
<1>2. CASE i >= Size
  <2>1. i - Size \in 0..Size-1
    BY <1>2
  <2>2. i % Size = (i - Size) % Size
    BY <1>2, <2>1
  <2>. QED
    BY <1>2, <2>1, <2>2 DEF Mask
<1>. QED
  BY <1>1, <1>2

\* The initial values satisfy the invariant.
LEMMA InitInv == Init => Inv
<1>. SUFFICES ASSUME Init PROVE Inv
  OBVIOUS
<1>. USE SizeAssumption
<1>1. TypeOK
  BY DEF Init, TypeOK
<1>2. IndexesAgree
  BY MaskValue, 0 < 2 * Size DEF Init, IndexesAgree
<1>. QED
  BY <1>1, <1>2 DEF Init, Inv, LiveSlotsFilled

\* Every operation preserves the invariant.
LEMMA NextInv == Inv /\ [Next]_vars => Inv'
<1>. SUFFICES ASSUME Inv, [Next]_vars PROVE Inv'
  OBVIOUS
<1>. USE SizeAssumption DEF Inv
<1>m. \A i \in Nat : i < 2 * Size => Mask(i) = IF i < Size THEN i ELSE i - Size
  BY MaskValue
<1>1. ASSUME NEW data \in Data, enqueue(data) PROVE Inv'
  <2>1. CASE entries = Size /\ UNCHANGED <<first, next, entries, ring>> /\ result' = Refused
    BY <2>1 DEF TypeOK, IndexesAgree, LiveSlotsFilled, Mask
  <2>2. CASE /\ entries # Size
             /\ ring' = [ring EXCEPT ![next] = data]
             /\ next' = Mask(next + 1)
             /\ entries' = entries + 1
             /\ result' = Ok
             /\ UNCHANGED first
    <3>1. TypeOK'
      BY <1>m, <2>2 DEF TypeOK
    <3>2. IndexesAgree'
      BY <1>m, <2>2 DEF TypeOK, IndexesAgree
    <3>3. LiveSlotsFilled'
      BY <1>m, <2>2 DEF TypeOK, IndexesAgree, LiveSlotsFilled
    <3>. QED
      BY <3>1, <3>2, <3>3
  <2>. QED
    BY <1>1, <2>1, <2>2 DEF enqueue
<1>2. CASE dequeue
  <2>1. TypeOK'
    BY <1>m, <1>2 DEF TypeOK, dequeue, LiveSlotsFilled
  <2>2. IndexesAgree'
    BY <1>m, <1>2 DEF TypeOK, IndexesAgree, dequeue
  <2>3. LiveSlotsFilled'
    <3>1. CASE entries = 0
      BY <1>2, <3>1 DEF LiveSlotsFilled, dequeue
    <3>2. CASE entries # 0
      <4>. SUFFICES ASSUME NEW i \in 0..Size-1, i < entries'
                    PROVE  (ring[Mask(first + i)])' \in Data
        BY DEF LiveSlotsFilled
      <4>1. i + 1 \in 0..Size-1 /\ i + 1 < entries
        BY <1>2, <3>2 DEF TypeOK, dequeue
      <4>2. ring[Mask(first + (i + 1))] \in Data
        BY <4>1 DEF LiveSlotsFilled
      <4>3. Mask(first' + i) = Mask(first + (i + 1))
        BY <1>m, <1>2, <3>2, <4>1 DEF TypeOK, dequeue
      <4>. QED
        BY <1>2, <3>2, <4>2, <4>3 DEF dequeue, Mask
    <3>. QED
      BY <3>1, <3>2
  <2>. QED
    BY <2>1, <2>2, <2>3
<1>3. CASE peek
  BY <1>3 DEF peek, TypeOK, IndexesAgree, LiveSlotsFilled, Mask
<1>4. CASE UNCHANGED vars
  BY <1>4 DEF vars, TypeOK, IndexesAgree, LiveSlotsFilled, Mask
<1>. QED
  BY <1>1, <1>2, <1>3, <1>4 DEF Next

\* For every ring size, in every reachable state of a ring buffer the indexes
\* stay in the array, the item count agrees with them, and every live slot holds
\* a pointer that was enqueued.
THEOREM RingInvariant == Spec => []Inv
  BY InitInv, NextInv, PTL DEF Spec

\* What the refinement mapping yields: a sequence of the live slots.
LEMMA ContentsSeq ==
    ASSUME Inv
    PROVE  /\ contents \in Seq(Data)
           /\ Len(contents) = entries
           /\ \A i \in 1..entries : contents[i] = ring[Mask(first + (i - 1))]
<1>. USE SizeAssumption DEF Inv
<1>1. \A i \in 1..entries : ring[Mask(first + (i - 1))] \in Data
  <2>. TAKE i \in 1..entries
  <2>1. i - 1 \in 0..Size-1 /\ i - 1 < entries
    BY DEF TypeOK
  <2>. QED
    BY <2>1 DEF LiveSlotsFilled
<1>. QED
  BY <1>1 DEF contents, TypeOK

\* An operation of the ring buffer is the corresponding operation of the queue.
LEMMA StepRefines == Inv /\ Inv' /\ [Next]_vars => [F!Next]_(F!vars)
<1>. SUFFICES ASSUME Inv, Inv', [Next]_vars PROVE [F!Next]_(F!vars)
  OBVIOUS
<1>. USE SizeAssumption
<1>m. \A i \in Nat : i < 2 * Size => Mask(i) = IF i < Size THEN i ELSE i - Size
  BY MaskValue
<1>c. /\ contents \in Seq(Data)
      /\ Len(contents) = entries
      /\ \A i \in 1..entries : contents[i] = ring[Mask(first + (i - 1))]
  BY ContentsSeq
<1>d. /\ contents' \in Seq(Data)
      /\ Len(contents') = entries'
      /\ \A i \in 1..entries' : contents'[i] = ring'[Mask(first' + (i - 1))]
  <2>1. Inv' => /\ (contents \in Seq(Data))'
                /\ (Len(contents) = entries)'
                /\ (\A i \in 1..entries : contents[i] = ring[Mask(first + (i - 1))])'
    BY ContentsSeq, PTL
  <2>. QED
    BY <2>1 DEF Mask
<1>t. TypeOK /\ TypeOK' /\ IndexesAgree
  BY DEF Inv
<1>same. ASSUME UNCHANGED <<first, entries, ring>> PROVE contents' = contents
  BY <1>same DEF contents, Mask
<1>1. ASSUME NEW data \in Data, enqueue(data) PROVE F!Put(data)
  <2>1. CASE entries = Size
    BY <1>1, <2>1, <1>c, <1>same DEF enqueue, F!Put
  <2>2. CASE entries # Size
    <3>1. \A i \in 1..entries : contents'[i] = contents[i]
      <4>. TAKE i \in 1..entries
      <4>1. Mask(first + (i - 1)) # next /\ Mask(first + (i - 1)) \in 0..Size-1
        BY <1>m, <1>t, <2>2 DEF TypeOK, IndexesAgree
      <4>2. ring'[Mask(first + (i - 1))] = ring[Mask(first + (i - 1))]
        BY <1>1, <2>2, <1>t, <4>1 DEF enqueue, TypeOK
      <4>3. i \in 1..entries' /\ first' = first
        BY <1>1, <2>2, <1>t DEF enqueue, TypeOK
      <4>. QED
        BY <4>2, <4>3, <1>c, <1>d
    <3>2. contents'[entries + 1] = data
      <4>1. entries + 1 \in 1..entries' /\ first' = first /\ ring'[next] = data
        BY <1>1, <2>2, <1>t DEF enqueue, TypeOK
      <4>2. contents'[entries + 1] = ring'[Mask(first' + (entries + 1 - 1))]
        BY <4>1, <1>d, <1>t DEF TypeOK
      <4>3. first + (entries + 1 - 1) = first + entries
        BY <1>t DEF TypeOK
      <4>. QED
        BY <4>1, <4>2, <4>3, <1>t DEF IndexesAgree
    <3>3. Len(contents') = Len(contents) + 1
      BY <1>1, <2>2, <1>c, <1>d DEF enqueue
    <3>4. contents' = Append(contents, data)
      <4>1. Append(contents, data) \in Seq(Data)
            /\ Len(Append(contents, data)) = Len(contents')
        BY <3>3, <1>c
      <4>2. \A i \in 1..Len(contents') : contents'[i] = Append(contents, data)[i]
        <5>. TAKE i \in 1..Len(contents')
        <5>1. CASE i = entries + 1
          BY <5>1, <3>2, <1>c
        <5>2. CASE i \in 1..entries
          BY <5>2, <3>1, <1>c
        <5>. QED
          BY <5>1, <5>2, <3>3, <1>c, <1>t DEF TypeOK
      <4>. QED
        BY <4>1, <4>2, <1>d
    <3>. QED
      BY <1>1, <2>2, <1>c, <1>t, <3>4 DEF enqueue, F!Put, TypeOK
  <2>. QED
    BY <2>1, <2>2
<1>2. CASE dequeue
  <2>1. CASE entries = 0
    <3>1. contents = << >>
      BY <2>1, <1>c
    <3>. QED
      <4>1. contents' = contents /\ result' = NULL
        BY <1>2, <2>1, <1>same DEF dequeue
      <4>. QED
        BY <3>1, <4>1 DEF F!Take, F!Next
  <2>2. CASE entries # 0
    <3>1. contents # << >> /\ Head(contents) = ring[first]
      <4>1. 1 \in 1..entries /\ first + (1 - 1) = first /\ Mask(first) = first
        BY <2>2, <1>t, <1>m DEF TypeOK
      <4>. QED
        BY <4>1, <1>c
    <3>2. \A i \in 1..entries' : contents'[i] = contents[i + 1]
      <4>. TAKE i \in 1..entries'
      <4>1. i + 1 \in 1..entries /\ ring' = ring
        BY <1>2, <2>2, <1>t DEF dequeue, TypeOK
      <4>2. Mask(first' + (i - 1)) = Mask(first + ((i + 1) - 1))
        BY <1>2, <2>2, <1>t, <1>m, <4>1 DEF dequeue, TypeOK
      <4>. QED
        BY <4>1, <4>2, <1>c, <1>d
    <3>3. Len(contents') = Len(contents) - 1
      BY <1>2, <2>2, <1>c, <1>d DEF dequeue
    <3>4. contents' = Tail(contents)
      BY <3>1, <3>2, <3>3, <1>c, <1>d, <1>t DEF TypeOK
    <3>. QED
      <4>1. result' = ring[first]
        BY <1>2, <2>2 DEF dequeue
      <4>. QED
        BY <3>1, <3>4, <4>1 DEF F!Take, F!Next
  <2>. QED
    BY <2>1, <2>2
<1>3. CASE peek
  <2>1. contents = << >> <=> entries = 0
    BY <1>c, <1>t DEF TypeOK
  <2>2. entries # 0 => Head(contents) = ring[first]
    <3>. SUFFICES ASSUME entries # 0 PROVE Head(contents) = ring[first]
      OBVIOUS
    <3>1. 1 \in 1..entries /\ first + (1 - 1) = first /\ Mask(first) = first
      BY <1>t, <1>m DEF TypeOK
    <3>. QED
      BY <3>1, <1>c
  <2>. QED
    <3>1. contents' = contents
      BY <1>3, <1>same DEF peek
    <3>2. result' = IF entries = 0 THEN NULL ELSE ring[first]
      BY <1>3 DEF peek
    <3>. QED
      BY <2>1, <2>2, <3>1, <3>2 DEF F!Look, F!Next
<1>4. CASE UNCHANGED vars
  BY <1>4, <1>same DEF vars, F!vars
<1>. QED
  BY <1>1, <1>2, <1>3, <1>4 DEF Next, F!Next

\* For every ring size the ring buffer is a bounded FIFO queue of that capacity.
THEOREM RingRefinesFifo == Spec => RefinesFifo
<1>1. Init => F!Init
  <2>. SUFFICES ASSUME Init PROVE F!Init
    OBVIOUS
  <2>1. Inv
    BY InitInv
  <2>2. contents = << >>
    BY <2>1, ContentsSeq DEF Init
  <2>. QED
    BY <2>2 DEF Init, F!Init
<1>. QED
  BY <1>1, InitInv, NextInv, StepRefines, PTL DEF Spec, RefinesFifo, F!Spec
-----------------------------------------------------------------------------
(* Sequence numbers *)

\* There is a number at all.
LEMMA WrapSize ==
    ASSUME WrapAssumption
    PROVE  Wrap \in Nat \ {0}
BY DEF WrapAssumption

\* The 32-bit form of a number, from that of one less than a turn before it.
LEMMA WrappedAhead ==
    ASSUME WrapAssumption, NEW m \in Nat, NEW d \in 0..Wrap - 1
    PROVE  /\ Wrapped(m) \in 0..Wrap - 1
           /\ Wrapped(m + d) = IF Wrapped(m) + d < Wrap THEN Wrapped(m) + d ELSE Wrapped(m) + d - Wrap
<1>0. Wrap \in Nat \ {0}
  BY WrapAssumption, WrapSize
<1>. USE WrapAssumption, <1>0
<1>1. PICK q \in Nat, r \in 0..Wrap - 1 : m = q * Wrap + r /\ Wrapped(m) = r
  <2>1. m = (m \div Wrap) * Wrap + (m % Wrap) /\ m \div Wrap \in Nat /\ m % Wrap \in 0..Wrap - 1
    OBVIOUS
  <2> QED BY <2>1 DEF Wrapped
<1>2. ASSUME NEW p \in Nat, NEW s \in 0..Wrap - 1, NEW n \in Nat, n = p * Wrap + s
      PROVE  Wrapped(n) = s
  BY <1>2 DEF Wrapped
<1>3. CASE r + d < Wrap
  BY <1>1, <1>2, <1>3
<1>4. CASE r + d >= Wrap
  <2>1. m + d = (q + 1) * Wrap + (r + d - Wrap)
    BY <1>1
  <2>2. r + d - Wrap \in 0..Wrap - 1 /\ q + 1 \in Nat /\ m + d \in Nat
    BY <1>4
  <2>3. Wrapped(m + d) = r + d - Wrap
    <3>1. PICK e \in Nat, p \in Nat, s \in 0..Wrap - 1 :
            e = m + d /\ p = q + 1 /\ s = r + d - Wrap /\ e = p * Wrap + s
      BY <2>1, <2>2
    <3>2. e = p * Wrap + s
      BY <3>1
    <3>3. Wrapped(e) = s
      BY <3>2, <1>2
    <3>4. e = m + d /\ s = r + d - Wrap
      BY <3>1
    <3> QED BY <3>3, <3>4
  <2> QED BY <2>3, <1>1, <1>4
<1> QED BY <1>1, <1>3, <1>4

\* The same with the later number named; both forms of every use below.
LEMMA WrappedLater ==
    ASSUME WrapAssumption, NEW m \in Nat, NEW n \in Nat, m <= n, n < m + Wrap
    PROVE  /\ Wrapped(m) \in 0..Wrap - 1 /\ Wrapped(n) \in 0..Wrap - 1
           /\ \/ Wrapped(n) = Wrapped(m) + (n - m)
              \/ Wrapped(n) = Wrapped(m) + (n - m) - Wrap
<1>0. Wrap \in Nat \ {0}
  BY WrapAssumption, WrapSize
<1>. USE WrapAssumption, <1>0
<1>1. PICK d \in 0..Wrap - 1 : d = n - m /\ n = m + d
  OBVIOUS
<1>2. 0 \in 0..Wrap - 1
  OBVIOUS
<1>3. Wrapped(n) \in 0..Wrap - 1
  BY <1>2, WrappedAhead
<1> QED BY <1>1, <1>3, WrappedAhead

\* The comparisons of process2 for the next number n, the oldest outstanding number o and
\* an acknowledgement a.
LEMMA Judged ==
    ASSUME WrapAssumption, NEW o \in Nat, NEW n \in Nat, NEW a \in Nat,
           o < n, n < o + Wrap, a <= n, n < a + Wrap
    PROVE  a >= o <=>
             IF Wrapped(o) < Wrapped(n)
             THEN Wrapped(a) >= Wrapped(o) /\ Wrapped(a) <= Wrapped(n)
             ELSE Wrapped(a) >= Wrapped(o) \/ Wrapped(a) <= Wrapped(n)
<1>0. Wrap \in Nat \ {0}
  BY WrapAssumption, WrapSize
<1>. USE WrapAssumption, <1>0
<1>1. PICK wo \in 0..Wrap - 1, wn \in 0..Wrap - 1 :
        /\ wo = Wrapped(o) /\ wn = Wrapped(n)
        /\ wn = wo + (n - o) \/ wn = wo + (n - o) - Wrap
  <2>1. o <= n
    OBVIOUS
  <2> QED BY <2>1, WrappedLater
<1>2. PICK wa \in 0..Wrap - 1 :
        wa = Wrapped(a) /\ (wn = wa + (n - a) \/ wn = wa + (n - a) - Wrap)
  BY <1>1, WrappedLater
<1>3. a >= o <=> IF wo < wn THEN wa >= wo /\ wa <= wn ELSE wa >= wo \/ wa <= wn
  BY <1>1, <1>2
<1> QED BY <1>1, <1>2, <1>3

\* The comparisons of removeSentPackets for a packet that ends at t.
Releases(o, a, t) ==
    \/ Wrapped(t) < Wrapped(a)
    \/ Wrapped(t) > Wrapped(a) /\ Wrapped(a) < Wrapped(o) /\ Wrapped(t) >= Wrapped(o)

\* A packet below the acknowledgement is released, and one that is not only across the wrap.
LEMMA Released ==
    ASSUME WrapAssumption, NEW o \in Nat, NEW a \in Nat, NEW t \in Nat,
           o <= a, a < o + Wrap, o <= t, t < o + Wrap
    PROVE  /\ t < a => Releases(o, a, t)
           /\ Releases(o, a, t) /\ t >= a => \E n \in a + 1..t : Wrapped(n) = 0
<1>0. Wrap \in Nat \ {0}
  BY WrapAssumption, WrapSize
<1>. USE WrapAssumption, <1>0
<1>1. PICK wo \in 0..Wrap - 1, wa \in 0..Wrap - 1 :
        /\ wo = Wrapped(o) /\ wa = Wrapped(a)
        /\ wa = wo + (a - o) \/ wa = wo + (a - o) - Wrap
  BY WrappedLater
<1>2. PICK wt \in 0..Wrap - 1 :
        wt = Wrapped(t) /\ (wt = wo + (t - o) \/ wt = wo + (t - o) - Wrap)
  BY <1>1, WrappedLater
<1>3. Releases(o, a, t) <=> wt < wa \/ (wt > wa /\ wa < wo /\ wt >= wo)
  BY <1>1, <1>2 DEF Releases
<1>4. ASSUME t < a PROVE Releases(o, a, t)
  BY <1>1, <1>2, <1>3, <1>4
<1>5. ASSUME Releases(o, a, t), t >= a PROVE \E n \in a + 1..t : Wrapped(n) = 0
  <2>1. wt < wa
    BY <1>1, <1>2, <1>3, <1>5
  <2>2. wt = wa + (t - a) - Wrap
    BY <1>1, <1>2, <1>5, <2>1
  <2>3. PICK d \in 1..Wrap - 1 : d = Wrap - wa /\ d <= t - a
    BY <2>2, <2>1
  <2>4. Wrapped(a + d) = 0
    BY <2>3, <1>1, WrappedAhead
  <2> QED BY <2>3, <2>4
<1> QED BY <1>4, <1>5

\* The packets of the queue lie below the next number in their order, and what is
\* outstanding from one of them on is no more than the places from it on hold.
Bounded ==
    \A i \in DOMAIN sent :
        /\ sent[i].to < total
        /\ \A j \in DOMAIN sent : i < j => sent[i].to < sent[j].from
        /\ total - sent[i].from <= (Len(sent) - i + 1) * MaxLen

\* The inductive invariant.
NumbersInv == NumbersOK /\ Bounded /\ AckedAreReleased /\ EarlyOnlyAcrossWrap

\* One more place in the queue, or fewer of them.
LEMMA Places ==
    ASSUME WrapAssumption, NEW k \in Nat
    PROVE  /\ k * MaxLen \in Nat
           /\ (k + 1) * MaxLen = k * MaxLen + MaxLen
           /\ k <= TCP_SOCKET_RING_SIZE => k * MaxLen < Wrap
<1>1. MaxLen \in Nat /\ TCP_SOCKET_RING_SIZE \in Nat /\ Wrap \in Nat
  BY WrapAssumption DEF WrapAssumption
<1>2. k * MaxLen \in Nat /\ (k + 1) * MaxLen = k * MaxLen + MaxLen
  BY <1>1
<1>3. ASSUME k <= TCP_SOCKET_RING_SIZE PROVE k * MaxLen < Wrap
  <2>1. PICK j \in Nat : TCP_SOCKET_RING_SIZE = k + j
    <3>1. TCP_SOCKET_RING_SIZE - k \in Nat /\ TCP_SOCKET_RING_SIZE = k + (TCP_SOCKET_RING_SIZE - k)
      BY <1>1, <1>3
    <3> QED BY <3>1
  <2>2. (k + j) * MaxLen = k * MaxLen + j * MaxLen /\ j * MaxLen \in Nat
    BY <1>1
  <2>3. TCP_SOCKET_RING_SIZE * MaxLen < Wrap
    BY WrapAssumption DEF WrapAssumption
  <2>4. k * MaxLen + j * MaxLen < Wrap
    BY <2>1, <2>2, <2>3
  <2> QED BY <2>2, <2>4, <1>1, <1>2
<1> QED BY <1>2, <1>3

\* Less than a turn of the numbers is outstanding, and the packets lie in it in order.
LEMMA Outstanding ==
    ASSUME WrapAssumption, NumbersOK, Bounded
    PROVE  /\ Oldest \in Nat /\ Oldest <= total /\ total < Oldest + Wrap
           /\ sent # << >> => Oldest < total /\ Oldest = sent[1].from
           /\ \A i \in DOMAIN sent : /\ sent[i].from \in Nat /\ sent[i].to \in Nat
                                     /\ Oldest <= sent[i].from /\ sent[i].from <= sent[i].to
                                     /\ sent[i].to < total
<1>0. Wrap \in Nat \ {0}
  BY WrapAssumption, WrapSize
<1>. USE WrapAssumption, <1>0
<1>1. total \in Nat /\ Len(sent) \in Nat /\ DOMAIN sent = 1..Len(sent)
  BY DEF NumbersOK
<1>2. CASE sent = << >>
  <2>1. DOMAIN sent = {}
    BY <1>2
  <2> QED BY <1>1, <1>2, <2>1 DEF Oldest
<1>3. CASE sent # << >>
  <2>1. 1 \in DOMAIN sent /\ Len(sent) \in 1..TCP_SOCKET_RING_SIZE
    BY <1>1, <1>3, WrapAssumption DEF WrapAssumption, NumbersOK
  <2>2. \A i \in DOMAIN sent : /\ sent[i].from \in Nat /\ sent[i].to \in Nat
                               /\ sent[i].from <= sent[i].to
    <3> SUFFICES ASSUME NEW i \in DOMAIN sent
                 PROVE  sent[i].from \in Nat /\ sent[i].to \in Nat /\ sent[i].from <= sent[i].to
      OBVIOUS
    <3>1. sent[i] \in Packets /\ sent[i].to \in sent[i].from..sent[i].from + MaxLen - 1
      BY DEF NumbersOK
    <3>2. sent[i].from \in Nat /\ sent[i].to \in Nat
      BY <3>1 DEF Packets
    <3> QED BY <3>1, <3>2, WrapAssumption DEF WrapAssumption
  <2>4. \A i \in DOMAIN sent : sent[1].from <= sent[i].from /\ sent[i].to < total
    <3> SUFFICES ASSUME NEW i \in DOMAIN sent PROVE sent[1].from <= sent[i].from /\ sent[i].to < total
      OBVIOUS
    <3>1. sent[i].to < total /\ (1 < i => sent[1].to < sent[i].from)
      BY <2>1 DEF Bounded
    <3> QED BY <3>1, <2>1, <2>2, <1>1
  <2>6. total - sent[1].from <= Len(sent) * MaxLen /\ Len(sent) * MaxLen < Wrap /\ Len(sent) * MaxLen \in Nat
    <3>1. total - sent[1].from <= (Len(sent) - 1 + 1) * MaxLen
      BY <2>1 DEF Bounded
    <3>2. Len(sent) - 1 + 1 = Len(sent)
      BY <1>1
    <3>3. Len(sent) * MaxLen < Wrap /\ Len(sent) * MaxLen \in Nat
      BY <1>1, <2>1, Places, WrapAssumption DEF WrapAssumption
    <3> QED BY <3>1, <3>2, <3>3
  <2>7. Oldest = sent[1].from
    BY <1>3 DEF Oldest
  <2>8. total < sent[1].from + Wrap
    BY <2>6, <1>1, <2>1, <2>2
  <2> QED BY <2>1, <2>2, <2>4, <2>7, <2>8, <1>1
<1> QED BY <1>2, <1>3

\* A sum of which a part has been cut to 32 bits before.
LEMMA WrappedTwice ==
    ASSUME WrapAssumption, NEW m \in Nat, NEW d \in 0..Wrap - 1
    PROVE  Wrapped(Wrapped(m) + d) = Wrapped(m + d)
<1>0. Wrap \in Nat \ {0}
  BY WrapAssumption, WrapSize
<1>. USE WrapAssumption, <1>0
<1>1. PICK r \in 0..Wrap - 1 : r = Wrapped(m)
  BY WrappedAhead
<1>2. Wrapped(r) = r
  BY DEF Wrapped
<1>3. Wrapped(r + d) = IF r + d < Wrap THEN r + d ELSE r + d - Wrap
  <2>1. r \in Nat
    OBVIOUS
  <2>2. Wrapped(r + d) = IF Wrapped(r) + d < Wrap THEN Wrapped(r) + d ELSE Wrapped(r) + d - Wrap
    BY <2>1, WrappedAhead
  <2> QED BY <1>2, <2>2
<1>4. Wrapped(m + d) = IF r + d < Wrap THEN r + d ELSE r + d - Wrap
  BY <1>1, WrappedAhead
<1> QED BY <1>1, <1>3, <1>4

\* The invariant holds of a connection that has sent nothing.
LEMMA NumbersInitInv ==
    ASSUME WrapAssumption
    PROVE  NumbersInit => NumbersInv
<1>. SUFFICES ASSUME NumbersInit PROVE NumbersInv
  OBVIOUS
<1>0. Wrap \in Nat \ {0}
  BY WrapAssumption, WrapSize
<1>. USE WrapAssumption, <1>0
<1>1. total \in Nat /\ sent = << >> /\ best = total
  BY DEF NumbersInit
<1>2. Wrapped(total) \in 0..Wrap - 1
  BY <1>1, WrappedAhead, 0 \in 0..Wrap - 1
<1>3. sent \in Seq(Packets) /\ Len(sent) = 0 /\ DOMAIN sent = {}
  BY <1>1
<1>4. Oldest = total
  BY <1>1 DEF Oldest
<1>5. NumbersOK
  BY <1>1, <1>2, <1>3, <1>4, WrapAssumption DEF WrapAssumption, NumbersInit, NumbersOK
<1> QED BY <1>1, <1>3, <1>4, <1>5 DEF NumbersInv, Bounded, AckedAreReleased, EarlyOnlyAcrossWrap

\* A packet is sent.
LEMMA SendKeepsNumbers ==
    ASSUME WrapAssumption, NumbersInv, NEW len \in 1..MaxLen, sendPacket(len)
    PROVE  NumbersInv'
<1>0. Wrap \in Nat \ {0}
  BY WrapAssumption, WrapSize
<1>. USE WrapAssumption, <1>0
<1> DEFINE n == Len(sent)
           p == [seq |-> seqNum, seqNum |-> Wrapped(seqNum + len - 1), from |-> total, to |-> total + len - 1]
<1>1. NumbersOK /\ Bounded
  BY DEF NumbersInv
<1>2. /\ total \in Nat /\ best \in 0..total /\ sent \in Seq(Packets)
      /\ n \in Nat /\ n < TCP_SOCKET_RING_SIZE /\ DOMAIN sent = 1..n
      /\ seqNum = Wrapped(total) /\ seqNum \in 0..Wrap - 1
  BY <1>1 DEF NumbersOK, sendPacket
<1>3. /\ sent' = Append(sent, p) /\ total' = total + len /\ seqNum' = Wrapped(seqNum + len)
      /\ oldestUnackedSeq' = oldestUnackedSeq /\ best' = best
  BY DEF sendPacket
<1>4. len \in 0..Wrap - 1 /\ len - 1 \in 0..Wrap - 1 /\ len \in Nat /\ MaxLen \in Nat
  <2>1. 1 * MaxLen < Wrap
    BY Places, WrapAssumption DEF WrapAssumption
  <2> QED BY <2>1, WrapAssumption DEF WrapAssumption
<1>5. seqNum' = Wrapped(total + len) /\ seqNum' \in 0..Wrap - 1
  <2>1. Wrapped(seqNum + len) = Wrapped(total + len)
    BY <1>2, <1>4, WrappedTwice
  <2>2. Wrapped(total + len) \in 0..Wrap - 1
    BY <1>2, <1>4, WrappedAhead, 0 \in 0..Wrap - 1, total + len \in Nat
  <2> QED BY <1>3, <2>1, <2>2
<1>6. p.seqNum = Wrapped(total + len - 1) /\ p.seqNum \in 0..Wrap - 1
  <2>1. PICK d \in 0..Wrap - 1 : d = len - 1 /\ seqNum + len - 1 = seqNum + d /\ total + len - 1 = total + d
    BY <1>2, <1>4
  <2>2. Wrapped(seqNum + d) = Wrapped(total + d)
    BY <1>2, WrappedTwice
  <2>3. Wrapped(total + d) \in 0..Wrap - 1
    BY <1>2, <2>1, WrappedAhead, 0 \in 0..Wrap - 1, total + d \in Nat
  <2> QED BY <2>1, <2>2, <2>3
<1>7. p \in Packets
  BY <1>2, <1>4, <1>6 DEF Packets
<1>8. /\ sent' \in Seq(Packets) /\ sent' # << >> /\ Len(sent') = n + 1 /\ DOMAIN sent' = 1..n + 1
      /\ \A i \in 1..n : sent'[i] = sent[i]
      /\ sent'[n + 1] = p
  <2> HIDE DEF p
  <2>1. /\ Append(sent, p) \in Seq(Packets) /\ Append(sent, p) # << >> /\ Len(Append(sent, p)) = n + 1
        /\ \A i \in 1..n : Append(sent, p)[i] = sent[i]
        /\ Append(sent, p)[n + 1] = p
    BY <1>2, <1>7, AppendProperties
  <2> QED BY <1>3, <2>1
<1>9. p.seq = seqNum /\ p.from = total /\ p.to = total + len - 1
  OBVIOUS
<1>. HIDE DEF p
<1>10. Oldest' = Oldest
  <2>1. CASE sent = << >>
    BY <2>1, <1>8, <1>9 DEF Oldest
  <2>2. CASE sent # << >>
    <3>1. 1 \in 1..n
      BY <1>2, <2>2
    <3> QED BY <2>2, <3>1, <1>8 DEF Oldest
  <2> QED BY <2>1, <2>2
<1>11. total' = total + len /\ total \in Nat /\ len \in Nat /\ len <= MaxLen /\ 1 <= len /\ MaxLen \in Nat
  BY <1>2, <1>3, <1>4
<1>12. NumbersOK'
  <2>1. ASSUME NEW i \in 1..n + 1
        PROVE  /\ sent'[i].seq = Wrapped(sent'[i].from) /\ sent'[i].seqNum = Wrapped(sent'[i].to)
               /\ sent'[i].to \in sent'[i].from..sent'[i].from + MaxLen - 1
               /\ IF i = n + 1 THEN sent'[i].to = total' - 1 ELSE Follows(sent'[i], sent'[i + 1])
    <3>1. CASE i = n + 1
      BY <3>1, <1>2, <1>3, <1>4, <1>6, <1>8, <1>9
    <3>2. CASE i # n + 1
      <4>1. i \in DOMAIN sent /\ i \in 1..n /\ sent'[i] = sent[i] /\ i + 1 \in 1..n + 1
        BY <3>2, <1>2, <1>8
      <4>2. /\ sent[i].seq = Wrapped(sent[i].from) /\ sent[i].seqNum = Wrapped(sent[i].to)
            /\ sent[i].to \in sent[i].from..sent[i].from + MaxLen - 1
            /\ IF i = n THEN sent[i].to = total - 1 ELSE Follows(sent[i], sent[i + 1])
        BY <4>1, <1>1 DEF NumbersOK
      <4>3. Follows(sent'[i], sent'[i + 1])
        <5>1. CASE i = n
          <6>1. sent'[i + 1] = p /\ p.from = total
            BY <5>1, <1>8, <1>9
          <6> QED BY <4>1, <4>2, <5>1, <6>1, <1>2 DEF Follows
        <5>2. CASE i # n
          <6>1. sent'[i + 1] = sent[i + 1]
            BY <4>1, <5>2, <1>2, <1>8
          <6> QED BY <4>1, <4>2, <5>2, <6>1
        <5> QED BY <5>1, <5>2
      <4> QED BY <3>2, <4>1, <4>2, <4>3
    <3> QED BY <3>1, <3>2
  <2>2. total' \in Nat /\ best' \in 0..total' /\ n + 1 <= TCP_SOCKET_RING_SIZE
    BY <1>2, <1>3, <1>4, WrapAssumption DEF WrapAssumption
  <2>3. oldestUnackedSeq' = Wrapped(Oldest') /\ oldestUnackedSeq' \in 0..Wrap - 1
    BY <1>1, <1>3, <1>10 DEF NumbersOK
  <2> QED BY <2>1, <2>2, <2>3, <1>3, <1>5, <1>8 DEF NumbersOK, Wrapped, Follows, Packets
<1>13. Bounded'
  <2>1. SUFFICES ASSUME NEW i \in 1..n + 1
                 PROVE  /\ sent'[i].to < total'
                        /\ \A j \in 1..n + 1 : i < j => sent'[i].to < sent'[j].from
                        /\ total' - sent'[i].from <= ((n + 1) - i + 1) * MaxLen
    BY <1>8 DEF Bounded
  <2>2. CASE i = n + 1
    <3>1. ((n + 1) - i + 1) * MaxLen = 1 * MaxLen /\ 1 * MaxLen = MaxLen
      BY <2>2, <1>2, <1>4
    <3> QED BY <2>2, <3>1, <1>2, <1>3, <1>4, <1>8, <1>9
  <2>3. CASE i # n + 1
    <3>1. i \in DOMAIN sent /\ sent'[i] = sent[i] /\ sent[i].from \in Nat /\ sent[i].to \in Nat
      BY <2>3, <1>1, <1>2, <1>8, Outstanding
    <3>2. /\ sent[i].to < total
          /\ \A j \in DOMAIN sent : i < j => sent[i].to < sent[j].from
          /\ total - sent[i].from <= (n - i + 1) * MaxLen
      BY <3>1, <1>1 DEF Bounded
    <3>3. ASSUME NEW j \in 1..n + 1, i < j PROVE sent[i].to < sent'[j].from
      <4>1. CASE j = n + 1
        BY <4>1, <3>2, <1>8, <1>9
      <4>2. CASE j # n + 1
        <5>1. j \in DOMAIN sent /\ sent'[j] = sent[j]
          BY <4>2, <1>2, <1>8
        <5> QED BY <5>1, <3>2, <3>3
      <4> QED BY <4>1, <4>2
    <3>4. ((n + 1) - i + 1) * MaxLen = (n - i + 1) * MaxLen + MaxLen /\ (n - i + 1) * MaxLen \in Nat
      <4>1. PICK k \in Nat : k = n - i + 1 /\ (n + 1) - i + 1 = k + 1
        BY <2>3, <1>2
      <4> QED BY <4>1, Places
    <3>5. total' - sent[i].from <= ((n + 1) - i + 1) * MaxLen
      <4>1. PICK x \in Nat, y \in Nat :
              /\ x = (n - i + 1) * MaxLen /\ y = ((n + 1) - i + 1) * MaxLen
              /\ y = x + MaxLen
        BY <3>4, <1>4
      <4>2. total - sent[i].from <= x /\ len <= MaxLen
        BY <3>2, <4>1
      <4>3. total' - sent[i].from <= y
        <5>1. PICK f \in Nat : f = sent[i].from
          BY <3>1
        <5>2. y = x + MaxLen
          BY <4>1
        <5>3. total - f <= x
          BY <4>2, <5>1
        <5>4. total' - f <= y
          BY <5>2, <5>3, <1>11
        <5> QED BY <5>1, <5>4
      <4> QED BY <4>1, <4>3
    <3>6. sent[i].to < total'
      <4>1. PICK t \in Nat : t = sent[i].to
        BY <3>1
      <4>2. t < total
        BY <4>1, <3>2
      <4> QED BY <4>1, <4>2, <1>11
    <3> QED BY <3>1, <3>3, <3>5, <3>6
  <2> QED BY <2>2, <2>3
<1>14. AckedAreReleased'
  <2>1. CASE sent = << >>
    BY <2>1, <1>2, <1>3, <1>4, <1>8, <1>9 DEF AckedAreReleased
  <2>2. CASE sent # << >>
    <3>1. 1 \in 1..n
      BY <1>2, <2>2
    <3> QED BY <2>2, <3>1, <1>3, <1>8 DEF AckedAreReleased, NumbersInv
  <2> QED BY <2>1, <2>2
<1>15. EarlyOnlyAcrossWrap'
  BY <1>3, <1>10 DEF EarlyOnlyAcrossWrap, NumbersInv, Wrapped
<1> QED BY <1>12, <1>13, <1>14, <1>15 DEF NumbersInv

\* An acknowledgement is processed.
LEMMA ProcessKeepsNumbers ==
    ASSUME WrapAssumption, NumbersInv, NEW a \in Acks, process2(a)
    PROVE  NumbersInv'
<1>0. Wrap \in Nat \ {0}
  BY WrapAssumption, WrapSize
<1>. USE WrapAssumption, <1>0
<1>1. NumbersOK /\ Bounded
  BY DEF NumbersInv
<1>2. PICK n \in Nat :
      /\ n = Len(sent) /\ total \in Nat /\ sent \in Seq(Packets) /\ n <= TCP_SOCKET_RING_SIZE
      /\ DOMAIN sent = 1..n /\ sent # << >> /\ TCP_SOCKET_RING_SIZE \in Nat
      /\ seqNum = Wrapped(total) /\ oldestUnackedSeq = Wrapped(Oldest)
  BY <1>1, WrapAssumption DEF WrapAssumption, NumbersOK, process2
<1>3. /\ a \in 0..total /\ total < a + Wrap
      /\ AckProper(Wrapped(a)) /\ best' = a /\ seqNum' = seqNum /\ total' = total
  BY <1>2 DEF process2, Acks
<1>4. PICK k \in 0..n :
        /\ \A i \in 1..k : Acked(sent[i], Wrapped(a))
        /\ k < n => ~Acked(sent[k + 1], Wrapped(a))
        /\ sent' = SubSeq(sent, k + 1, n)
        /\ oldestUnackedSeq' = IF k = n THEN seqNum ELSE sent[k + 1].seq
  BY <1>2 DEF process2, removeSentPackets
<1>5. /\ Oldest \in Nat /\ Oldest < total /\ total < Oldest + Wrap
      /\ \A i \in 1..n : /\ sent[i].from \in Nat /\ sent[i].to \in Nat
                         /\ Oldest <= sent[i].from /\ sent[i].from <= sent[i].to /\ sent[i].to < total
                         /\ sent[i].seqNum = Wrapped(sent[i].to)
  BY <1>1, <1>2, Outstanding DEF NumbersOK
<1>6. Oldest <= a
  <2>1. a \in Nat /\ a <= total
    BY <1>2, <1>3
  <2>2. a >= Oldest <=> AckProper(Wrapped(a))
    BY <2>1, <1>2, <1>3, <1>5, Judged DEF AckProper
  <2> QED BY <2>1, <2>2, <1>3, <1>5
\* What the code decides of a packet of the queue.
<1>7. ASSUME NEW i \in 1..n
      PROVE  /\ sent[i].to < a => Acked(sent[i], Wrapped(a))
             /\ Acked(sent[i], Wrapped(a)) /\ sent[i].to >= a => \E m \in a + 1..sent[i].to : Wrapped(m) = 0
  <2>1. PICK t \in Nat : /\ t = sent[i].to /\ Oldest <= t /\ t < Oldest + Wrap
                         /\ sent[i].seqNum = Wrapped(t)
    BY <1>2, <1>5
  <2>2. a \in Nat /\ a < Oldest + Wrap
    BY <1>2, <1>3, <1>5
  <2>3. Acked(sent[i], Wrapped(a)) <=> Releases(Oldest, a, t)
    BY <2>1, <1>2 DEF Acked, Releases
  <2>4. /\ t < a => Releases(Oldest, a, t)
        /\ Releases(Oldest, a, t) /\ t >= a => \E m \in a + 1..t : Wrapped(m) = 0
    <3>1. PICK o \in Nat : o = Oldest
      BY <1>5
    <3>2. o <= a /\ a < o + Wrap /\ o <= t /\ t < o + Wrap /\ a \in Nat
      BY <3>1, <2>1, <2>2, <1>6
    <3>3. /\ t < a => Releases(o, a, t)
          /\ Releases(o, a, t) /\ t >= a => \E m \in a + 1..t : Wrapped(m) = 0
      BY <3>2, Released
    <3> QED BY <3>1, <3>3
  <2>5. sent[i].to = t
    BY <2>1
  <2> QED BY <2>3, <2>4, <2>5
\* The queue that is left.
<1>8. /\ sent' \in Seq(Packets) /\ Len(sent') = n - k /\ DOMAIN sent' = 1..n - k
      /\ \A i \in 1..n - k : i + k \in 1..n /\ sent'[i] = sent[i + k]
  <2>1. k + 1 \in Int /\ n \in Int /\ \A i \in k + 1..n : sent[i] \in Packets
    BY <1>2
  <2>2. /\ SubSeq(sent, k + 1, n) \in Seq(Packets)
        /\ Len(SubSeq(sent, k + 1, n)) = IF k + 1 <= n THEN n - (k + 1) + 1 ELSE 0
        /\ \A i \in 1..n - (k + 1) + 1 : SubSeq(sent, k + 1, n)[i] = sent[(k + 1) + i - 1]
    BY <2>1, SubSeqProperties
  <2>3. Len(sent') = n - k
    BY <2>2, <1>2, <1>4
  <2>4. ASSUME NEW i \in 1..n - k PROVE i + k \in 1..n /\ sent'[i] = sent[i + k]
    <3>1. PICK j \in 1..n : j = i + k /\ j = (k + 1) + i - 1
      OBVIOUS
    <3>2. i \in 1..n - (k + 1) + 1
      OBVIOUS
    <3>3. SubSeq(sent, k + 1, n)[i] = sent[(k + 1) + i - 1]
      BY <3>2, <2>2
    <3>4. sent'[i] = sent[j]
      BY <3>1, <3>3, <1>4
    <3> QED BY <3>1, <3>4
  <2>5. sent' \in Seq(Packets)
    BY <2>2, <1>4
  <2>6. DOMAIN sent' = 1..n - k
    <3>1. DOMAIN sent' = 1..Len(sent')
      BY <2>5
    <3> QED BY <3>1, <2>3
  <2> QED BY <2>3, <2>4, <2>5, <2>6
<1>9. Oldest' = IF k = n THEN total ELSE sent[k + 1].from
  <2>1. CASE k = n
    <3>1. sent' = << >>
      BY <2>1, <1>2, <1>8
    <3> QED BY <2>1, <3>1, <1>3 DEF Oldest
  <2>2. CASE k # n
    <3>1. 1 \in 1..n - k /\ sent' # << >> /\ 1 + k = k + 1
      BY <2>2, <1>2, <1>8
    <3> QED BY <2>2, <3>1, <1>8 DEF Oldest
  <2> QED BY <2>1, <2>2
<1>10. NumbersOK'
  <2>1. ASSUME NEW i \in 1..n - k
        PROVE  /\ sent'[i].seq = Wrapped(sent'[i].from) /\ sent'[i].seqNum = Wrapped(sent'[i].to)
               /\ sent'[i].to \in sent'[i].from..sent'[i].from + MaxLen - 1
               /\ IF i = n - k THEN sent'[i].to = total' - 1 ELSE Follows(sent'[i], sent'[i + 1])
    <3>1. i + k \in DOMAIN sent /\ sent'[i] = sent[i + k] /\ (i = n - k <=> i + k = n)
      BY <1>2, <1>8
    <3>2. /\ sent[i + k].seq = Wrapped(sent[i + k].from) /\ sent[i + k].seqNum = Wrapped(sent[i + k].to)
          /\ sent[i + k].to \in sent[i + k].from..sent[i + k].from + MaxLen - 1
          /\ IF i + k = n THEN sent[i + k].to = total - 1 ELSE Follows(sent[i + k], sent[(i + k) + 1])
      BY <3>1, <1>1, <1>2 DEF NumbersOK
    <3>3. i # n - k => sent'[i + 1] = sent[(i + k) + 1]
      <4>1. SUFFICES ASSUME i # n - k PROVE sent'[i + 1] = sent[(i + k) + 1]
        OBVIOUS
      <4>2. i + 1 \in 1..n - k /\ (i + 1) + k = (i + k) + 1
        BY <4>1
      <4> QED BY <4>2, <1>8
    <3> QED BY <3>1, <3>2, <3>3, <1>3
  <2>2. oldestUnackedSeq' = Wrapped(Oldest') /\ oldestUnackedSeq' \in 0..Wrap - 1
    <3>1. CASE k = n
      BY <3>1, <1>1, <1>4, <1>9 DEF NumbersOK
    <3>2. CASE k # n
      <4>1. k + 1 \in 1..n
        BY <3>2
      <4>2. sent[k + 1] \in Packets /\ sent[k + 1].seq = Wrapped(sent[k + 1].from)
        BY <4>1, <1>1, <1>2 DEF NumbersOK
      <4>3. sent[k + 1].seq \in 0..Wrap - 1
        BY <4>2 DEF Packets
      <4> QED BY <3>2, <4>2, <4>3, <1>4, <1>9
    <3> QED BY <3>1, <3>2
  <2>3. total' \in Nat /\ best' \in 0..total' /\ n - k <= TCP_SOCKET_RING_SIZE
    BY <1>2, <1>3
  <2>4. seqNum' = Wrapped(total') /\ seqNum' \in 0..Wrap - 1
    BY <1>1, <1>3 DEF NumbersOK
  <2> QED BY <2>1, <2>2, <2>3, <2>4, <1>8 DEF NumbersOK, Wrapped, Follows, Packets
<1>11. Bounded'
  <2>1. SUFFICES ASSUME NEW i \in 1..n - k
                 PROVE  /\ sent'[i].to < total'
                        /\ \A j \in 1..n - k : i < j => sent'[i].to < sent'[j].from
                        /\ total' - sent'[i].from <= ((n - k) - i + 1) * MaxLen
    BY <1>8 DEF Bounded
  <2>2. i + k \in DOMAIN sent /\ sent'[i] = sent[i + k] /\ (n - k) - i + 1 = n - (i + k) + 1
    BY <1>2, <1>8
  <2>3. /\ sent[i + k].to < total
        /\ \A j \in DOMAIN sent : i + k < j => sent[i + k].to < sent[j].from
        /\ total - sent[i + k].from <= (n - (i + k) + 1) * MaxLen
    BY <2>2, <1>1, <1>2 DEF Bounded
  <2>4. ASSUME NEW j \in 1..n - k, i < j PROVE sent'[i].to < sent'[j].from
    <3>1. j + k \in DOMAIN sent /\ sent'[j] = sent[j + k] /\ i + k < j + k
      BY <2>4, <1>2, <1>8
    <3> QED BY <3>1, <2>2, <2>3
  <2> QED BY <2>2, <2>3, <2>4, <1>3
<1>12. AckedAreReleased'
  <2>1. SUFFICES ASSUME sent' # << >> PROVE sent'[1].to >= a
    BY <1>3 DEF AckedAreReleased
  <2>2. k < n /\ k + 1 \in 1..n /\ sent'[1] = sent[k + 1]
    <3>1. n - k # 0
      BY <2>1, <1>8
    <3>2. 1 \in 1..n - k /\ 1 + k = k + 1
      BY <3>1
    <3>3. k < n /\ k + 1 \in 1..n
      BY <3>1
    <3> QED BY <3>2, <3>3, <1>8
  <2>3. ~(sent[k + 1].to < a)
    BY <2>2, <1>4, <1>7
  <2> QED BY <2>2, <2>3, <1>2, <1>3, <1>5
<1>13. EarlyOnlyAcrossWrap'
  <2>1. SUFFICES ASSUME a < Oldest' PROVE \E m \in a + 1..Oldest' - 1 : Wrapped(m) = 0
    BY <1>3 DEF EarlyOnlyAcrossWrap, Wrapped
  <2>2. k # 0
    <3>1. SUFFICES ASSUME k = 0 PROVE FALSE
      OBVIOUS
    <3>2. Oldest = sent[1].from /\ k # n /\ k + 1 = 1
      BY <3>1, <1>1, <1>2, Outstanding
    <3>3. Oldest' = Oldest
      BY <3>2, <1>9
    <3> QED BY <3>3, <2>1, <1>3, <1>5, <1>6
  <2>3. k \in 1..n /\ k \in DOMAIN sent /\ Acked(sent[k], Wrapped(a))
    <3>1. k \in 1..n /\ k \in 1..k
      BY <2>2
    <3> QED BY <3>1, <1>2, <1>4
  <2>4. sent[k].to = Oldest' - 1 /\ Oldest' \in Nat
    <3>1. IF k = n THEN sent[k].to = total - 1 ELSE sent[k + 1].from = sent[k].to + 1
      BY <2>3, <1>1, <1>2 DEF NumbersOK, Follows
    <3>2. CASE k = n
      BY <3>1, <3>2, <1>2, <1>9
    <3>3. CASE k # n
      <4>1. k + 1 \in 1..n /\ Oldest' = sent[k + 1].from /\ Oldest' = sent[k].to + 1
        BY <3>1, <3>3, <1>9
      <4>2. sent[k].to \in Nat
        BY <2>3, <1>5
      <4> QED BY <4>1, <4>2
    <3> QED BY <3>2, <3>3
  <2>5. sent[k].to >= a
    <3>1. PICK o \in Nat : o = Oldest'
      BY <2>4
    <3>2. a \in Nat /\ a < o
      BY <2>1, <3>1, <1>2, <1>3
    <3> QED BY <2>4, <3>1, <3>2
  <2> QED BY <2>3, <2>4, <2>5, <1>7
<1> QED BY <1>10, <1>11, <1>12, <1>13 DEF NumbersInv

\* The invariant, of every connection.
LEMMA NumbersInvariance ==
    ASSUME WrapAssumption
    PROVE  Numbers => []NumbersInv
<1>1. NumbersInv /\ [NumbersNext]_numbers => NumbersInv'
  <2> SUFFICES ASSUME NumbersInv, [NumbersNext]_numbers PROVE NumbersInv'
    OBVIOUS
  <2>1. ASSUME NEW len \in 1..MaxLen, sendPacket(len) PROVE NumbersInv'
    BY <2>1, WrapAssumption, SendKeepsNumbers
  <2>2. ASSUME NEW a \in Acks, process2(a) PROVE NumbersInv'
    BY <2>2, WrapAssumption, ProcessKeepsNumbers
  <2>3. CASE UNCHANGED numbers
    BY <2>3 DEF numbers, NumbersInv, NumbersOK, Bounded, AckedAreReleased, EarlyOnlyAcrossWrap,
                Oldest, Wrapped, Packets, Follows
  <2> QED BY <2>1, <2>2, <2>3 DEF NumbersNext
<1>2. NumbersInit => NumbersInv
  BY WrapAssumption, NumbersInitInv
<1> QED BY <1>1, <1>2, PTL DEF Numbers

\* The code's numbers are the true ones modulo 2^32, the packets of the sent queue follow each other
\* up to the next number, and oldestUnackedSeq is the first of them (TCP.CPP:1060, 2273).
THEOREM NumbersAreTrue ==
    ASSUME WrapAssumption
    PROVE  Numbers => []NumbersOK
<1>1. Numbers => []NumbersInv
  BY WrapAssumption, NumbersInvariance
<1> QED BY <1>1, PTL DEF NumbersInv

\* isIncomingAckProper is what it would be if the numbers had no wrap (TCP.CPP:1693).
THEOREM AcksJudged ==
    ASSUME WrapAssumption
    PROVE  Numbers => []AcksAreJudged
<1>1. NumbersInv => AcksAreJudged
  <2> SUFFICES ASSUME NumbersInv, sent # << >>, NEW a \in Acks
               PROVE  AckProper(Wrapped(a)) <=> a >= Oldest
    BY DEF AcksAreJudged
  <2>1. NumbersOK /\ Bounded
    BY DEF NumbersInv
  <2>2. /\ total \in Nat /\ Oldest \in Nat /\ Oldest < total /\ total < Oldest + Wrap
        /\ seqNum = Wrapped(total) /\ oldestUnackedSeq = Wrapped(Oldest)
    BY <2>1, WrapAssumption, Outstanding DEF NumbersOK
  <2>3. a \in Nat /\ a <= total /\ total < a + Wrap
    BY <2>2, WrapAssumption, WrapSize DEF Acks
  <2> QED BY <2>2, <2>3, WrapAssumption, Judged DEF AckProper
<1>2. Numbers => []NumbersInv
  BY WrapAssumption, NumbersInvariance
<1> QED BY <1>1, <1>2, PTL

\* removeSentPackets leaves nothing that has been acknowledged (TCP.CPP:2239).
THEOREM AcknowledgedAreReleased ==
    ASSUME WrapAssumption
    PROVE  Numbers => []AckedAreReleased
<1>1. Numbers => []NumbersInv
  BY WrapAssumption, NumbersInvariance
<1> QED BY <1>1, PTL DEF NumbersInv

\* What removeSentPackets releases too early lies behind the wrap, and the acknowledgement before
\* it (TCP.CPP:2239).
THEOREM EarlyReleases ==
    ASSUME WrapAssumption
    PROVE  Numbers => []EarlyOnlyAcrossWrap
<1>1. Numbers => []NumbersInv
  BY WrapAssumption, NumbersInvariance
<1> QED BY <1>1, PTL DEF NumbersInv

\* And it does release too early: with packets that end at a - 1 and at t, and an acknowledgement
\* of a, the second goes with the first.
THEOREM ReleasedUnacknowledged ==
    ASSUME Wrap \in Nat, Wrap >= 4
    PROVE  \E o, a, t \in Nat : /\ o < a /\ a <= t /\ t < o + Wrap
                              /\ Releases(o, a, a - 1) /\ Releases(o, a, t)
<1>1. Wrapped(Wrap - 2) = Wrap - 2 /\ Wrapped(Wrap - 1) = Wrap - 1 /\ Wrapped(Wrap) = 0
  BY DEF Wrapped
<1>2. (Wrap - 1) - 1 = Wrap - 2
  OBVIOUS
<1>3. Releases(Wrap - 2, Wrap - 1, (Wrap - 1) - 1) /\ Releases(Wrap - 2, Wrap - 1, Wrap)
  BY <1>1, <1>2 DEF Releases
<1>4. Wrap - 2 \in Nat /\ Wrap - 1 \in Nat /\ Wrap - 2 < Wrap - 1 /\ Wrap - 1 <= Wrap /\ Wrap < (Wrap - 2) + Wrap
  OBVIOUS
<1> QED BY <1>3, <1>4
=============================================================================
