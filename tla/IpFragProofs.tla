---------------------------- MODULE IpFragProofs ----------------------------
(***************************************************************************)
(* For every set of datagrams, every size of the tables and every number   *)
(* of buffers: reassembly loses no buffer, keeps its tables consistent,    *)
(* gives the reader what was sent, and lets nothing complete wait.         *)
(***************************************************************************)
EXTENDS IpFrag, SequenceTheorems, NatLemmas

Units == Datagrams \X Int

\* The controls, with at most as many fragments as their arrays have places.
Controls ==
    {c \in [inUse : BOOLEAN, lastFragRcvd : BOOLEAN, age : Nat, frags : Seq(Fragments)] :
        Len(c.frags) <= IP_MAX_FRAGS_PER_PACKET}

States == [fragControl : [Slots -> Controls], fragsInReassembly : Int,
           BigPacketFreeList : Seq(BigPackets), data : [BigPackets -> Seq(Units)],
           freeBuffers : Int]

\* The list of a control in use, also when a fragment was just inserted: of one
\* datagram, in the order of the offsets, and the end is seen if it is there.
Listed(fc) ==
    /\ fc.inUse /\ fc.frags # << >>
    /\ \A j, k \in DOMAIN fc.frags :
          /\ fc.frags[j].key = fc.frags[k].key
          /\ j < k => fc.frags[j].offset < fc.frags[k].offset
    /\ fc.lastFragRcvd <=> \E j \in DOMAIN fc.frags : fc.frags[j].isLast

\* A control between two packets.
Settled(fc) ==
    IF fc.inUse THEN Listed(fc) /\ Len(fc.frags) < IP_MAX_FRAGS_PER_PACKET /\ ~Complete(fc)
    ELSE fc.frags = << >>

\* Each big packet that is not with its reader is on the free list, once.
FreeOnce(list, out) ==
    /\ \A j, k \in DOMAIN list : list[j] = list[k] => j = k
    /\ \A b \in BigPackets : b \notin out <=> \E j \in DOMAIN list : list[j] = b

\* What holds of the state s while n packet buffers are elsewhere and the big
\* packets out are with a reader.  Control i is the one that is worked on, 0 if none.
Good(s, n, out, i) ==
    /\ s \in States
    /\ s.freeBuffers + n + Cardinality(Places(s)) = PACKET_BUFFERS
    /\ s.fragsInReassembly = Cardinality(InUse(s))
    /\ \A k \in Slots : IF k = i THEN Listed(s.fragControl[k]) ELSE Settled(s.fragControl[k])
    /\ \A j, k \in InUse(s) : Key(s.fragControl[j]) = Key(s.fragControl[k]) => j = k
    /\ FreeOnce(s.BigPacketFreeList, out)
    /\ \A b \in out : \E d \in Datagrams : s.data[b] = Sent(d)

\* The inductive invariant.
IInv ==
    /\ upstream \in [big : SUBSET BigPackets, small : Nat]
    /\ Good(ip, upstream.small, upstream.big, 0)
-----------------------------------------------------------------------------
(* Fragments and their payload. *)

\* What a fragment is.
LEMMA FragmentTyped ==
  ASSUME NEW f \in Fragments
  PROVE  /\ f.key \in Datagrams /\ f.offset \in Nat /\ f.length \in Nat /\ f.isLast \in BOOLEAN
         /\ SizeOf[f.key] \in Nat /\ f.length >= 1 /\ f.length < SizeOf[f.key]
         /\ f.offset + f.length <= SizeOf[f.key]
         /\ f.isLast <=> f.offset + f.length = SizeOf[f.key]
<1>1. PICK d \in Datagrams : f \in FragmentsOf(d)
  BY DEF Fragments
<1>2. SizeOf[d] \in Nat
  BY SizesAssumption
<1>3. /\ f \in [key : {d}, offset : 0..SizeOf[d], length : 1..SizeOf[d], isLast : BOOLEAN]
      /\ f.offset + f.length <= SizeOf[d] /\ f.length < SizeOf[d]
      /\ f.isLast = (f.offset + f.length = SizeOf[d])
  BY <1>1 DEF FragmentsOf
<1>4. f.key = d /\ f.offset \in 0..SizeOf[d] /\ f.length \in 1..SizeOf[d] /\ f.isLast \in BOOLEAN
  BY <1>3
<1> QED BY <1>2, <1>3, <1>4

UnitsOf(f) == [u \in 1..f.length |-> <<f.key, f.offset + u - 1>>]

LEMMA UnitsTyped ==
  ASSUME NEW f \in Fragments
  PROVE  UnitsOf(f) \in Seq(Units) /\ Len(UnitsOf(f)) = f.length
<1>1. f.length \in Nat /\ f.key \in Datagrams /\ f.offset \in Nat
  BY FragmentTyped
<1>2. \A u \in 1..f.length : <<f.key, f.offset + u - 1>> \in Units
  BY <1>1 DEF Units
<1>3. UnitsOf(f) \in [1..f.length -> Units]
  BY <1>2 DEF UnitsOf
<1> QED BY <1>1, <1>3

\* The loop of makeBigPacket copies one fragment after the other.
LEMMA Copied ==
  ASSUME NEW frags \in Seq(Fragments), frags # << >>
  PROVE  \E flat :
            /\ flat[1] = UnitsOf(frags[1])
            /\ \A j \in 2..Len(frags) : flat[j] = flat[j - 1] \o UnitsOf(frags[j])
            /\ \A j \in 1..Len(frags) : flat[j] \in Seq(Units)
            /\ Payload(frags) = flat[Len(frags)]
<1> DEFINE ss == [j \in DOMAIN frags |-> UnitsOf(frags[j])]
<1>1. Len(frags) \in Nat \ {0} /\ DOMAIN frags = 1..Len(frags)
  BY EmptySeq
<1>2. Len(ss) = Len(frags) /\ \A j \in 1..Len(frags) : ss[j] = UnitsOf(frags[j])
  BY <1>1
<1>3. Payload(frags) = FlattenSeq(ss)
  BY DEF Payload, UnitsOf
<1> HIDE DEF ss
<1>4. PICK flat :
         /\ flat = [i \in 1..Len(ss) |-> IF i = 1 THEN ss[i] ELSE flat[i - 1] \o ss[i]]
         /\ FlattenSeq(ss) = flat[Len(ss)]
  BY <1>1, <1>2, Flattened
<1>5. flat[1] = UnitsOf(frags[1])
  BY <1>1, <1>2, <1>4
<1>6. ASSUME NEW j \in 2..Len(frags) PROVE flat[j] = flat[j - 1] \o UnitsOf(frags[j])
  <2>1. j \in 1..Len(ss) /\ j # 1
    BY <1>1, <1>2
  <2>2. flat[j] = flat[j - 1] \o ss[j]
    BY <1>4, <2>1, Zenon
  <2>3. ss[j] = UnitsOf(frags[j])
    BY <1>2, <2>1
  <2> QED BY <2>2, <2>3
<1> DEFINE T == {n \in Nat : n < Len(frags) => flat[n + 1] \in Seq(Units)}
<1>7. 0 \in T
  <2>1. frags[1] \in Fragments
    BY <1>1
  <2> QED BY <1>5, <2>1, UnitsTyped
<1>8. ASSUME NEW n \in T PROVE n + 1 \in T
  <2>1. SUFFICES ASSUME n + 1 < Len(frags) PROVE flat[n + 2] \in Seq(Units)
    OBVIOUS
  <2>2. flat[n + 1] \in Seq(Units) /\ n + 2 \in 2..Len(frags)
    BY <1>1, <2>1
  <2>3. frags[n + 2] \in Fragments
    BY <2>2
  <2>4. flat[n + 2] = flat[n + 1] \o UnitsOf(frags[n + 2])
    <3>1. PICK m \in 2..Len(frags) : m = n + 2
      BY <2>2
    <3>2. m - 1 = n + 1
      BY <2>2, <3>1
    <3> QED BY <1>6, <3>1, <3>2, Zenon
  <2> QED BY <2>2, <2>3, <2>4, UnitsTyped, ConcatProperties
<1>9. T = Nat
  <2> HIDE DEF T
  <2>1. T \in SUBSET Nat
    BY DEF T
  <2> QED BY <1>7, <1>8, <2>1, SetInduction
<1>10. ASSUME NEW j \in 1..Len(frags) PROVE flat[j] \in Seq(Units)
  <2>1. j - 1 \in T
    BY <1>9
  <2> QED BY <1>1, <2>1
<1> QED BY <1>2, <1>3, <1>4, <1>5, <1>6, <1>10

LEMMA PayloadTyped ==
  ASSUME NEW frags \in Seq(Fragments), frags # << >>
  PROVE  Payload(frags) \in Seq(Units)
<1>1. Len(frags) \in 1..Len(frags)
  BY EmptySeq
<1> QED BY <1>1, Copied, Zenon

\* Each fragment starts where the one before it ends.
Contiguous(frags) ==
    \A j \in DOMAIN frags :
        frags[j].offset = IF j = 1 THEN 0 ELSE frags[j - 1].offset + frags[j - 1].length

\* What has been copied after each of the fragments, unit by unit.
LEMMA CopiedUnits ==
  ASSUME NEW frags \in Seq(Fragments), frags # << >>
  PROVE  \E flat, len :
            /\ \A j \in 1..Len(frags) : flat[j] \in Seq(Units) /\ len[j] = Len(flat[j]) /\ len[j] \in Nat
            /\ len[1] = frags[1].length
            /\ \A u \in 1..len[1] : flat[1][u] = <<frags[1].key, frags[1].offset + u - 1>>
            /\ \A j \in 2..Len(frags) :
                  /\ len[j] = len[j - 1] + frags[j].length
                  /\ \A u \in 1..len[j - 1] : flat[j][u] = flat[j - 1][u]
                  /\ \A v \in 1..frags[j].length :
                        flat[j][len[j - 1] + v] = <<frags[j].key, frags[j].offset + v - 1>>
            /\ Payload(frags) = flat[Len(frags)]
<1>1. Len(frags) \in Nat \ {0}
  BY EmptySeq
<1>2. PICK flat :
         /\ flat[1] = UnitsOf(frags[1])
         /\ \A j \in 2..Len(frags) : flat[j] = flat[j - 1] \o UnitsOf(frags[j])
         /\ \A j \in 1..Len(frags) : flat[j] \in Seq(Units)
         /\ Payload(frags) = flat[Len(frags)]
  BY Copied
<1> DEFINE len == [j \in 1..Len(frags) |-> Len(flat[j])]
<1>3. ASSUME NEW j \in 1..Len(frags)
      PROVE  flat[j] \in Seq(Units) /\ len[j] = Len(flat[j]) /\ len[j] \in Nat
  <2>1. flat[j] \in Seq(Units)
    BY <1>2
  <2>2. Len(flat[j]) \in Nat
    BY <2>1, LenProperties
  <2> QED BY <2>1, <2>2
<1>4. 1 \in 1..Len(frags) /\ frags[1] \in Fragments
  BY <1>1
<1>5. len[1] = frags[1].length
  BY <1>2, <1>3, <1>4, UnitsTyped
<1>6. \A u \in 1..len[1] : flat[1][u] = <<frags[1].key, frags[1].offset + u - 1>>
  <2> HIDE DEF len
  <2> QED BY <1>2, <1>5 DEF UnitsOf
<1> HIDE DEF len
<1>7. ASSUME NEW j \in 2..Len(frags)
      PROVE  /\ len[j] = len[j - 1] + frags[j].length
             /\ \A u \in 1..len[j - 1] : flat[j][u] = flat[j - 1][u]
             /\ \A v \in 1..frags[j].length :
                   flat[j][len[j - 1] + v] = <<frags[j].key, frags[j].offset + v - 1>>
  <2>1. j \in 1..Len(frags) /\ j - 1 \in 1..Len(frags) /\ frags[j] \in Fragments
    BY <1>1
  <2>2. PICK x \in Seq(Units) : x = flat[j - 1] /\ Len(x) = len[j - 1] /\ Len(x) \in Nat
    BY <1>3, <2>1
  <2>3. PICK y \in Seq(Units) : y = UnitsOf(frags[j]) /\ Len(y) = frags[j].length /\ Len(y) \in Nat
    BY <2>1, UnitsTyped, FragmentTyped
  <2>4. flat[j] = x \o y
    BY <1>2, <2>2, <2>3
  <2>5. /\ Len(x \o y) = Len(x) + Len(y)
        /\ \A i \in 1..(Len(x) + Len(y)) : (x \o y)[i] = IF i <= Len(x) THEN x[i] ELSE y[i - Len(x)]
    BY ConcatProperties
  <2>6. PICK z : z = x \o y
    OBVIOUS
  <2>7. /\ Len(z) = Len(x) + Len(y)
        /\ \A i \in 1..(Len(x) + Len(y)) : z[i] = IF i <= Len(x) THEN x[i] ELSE y[i - Len(x)]
    BY <2>5, <2>6, Zenon
  <2>8. len[j] = len[j - 1] + frags[j].length
    BY <1>3, <2>1, <2>2, <2>3, <2>4, <2>6, <2>7
  <2>9. ASSUME NEW u \in 1..Len(x) PROVE z[u] = x[u]
    <3>1. PICK a \in Nat, b \in Nat : a = Len(x) /\ b = Len(y)
      BY <2>2, <2>3
    <3>2. u \in 1..(a + b) /\ u <= a
      BY <3>1
    <3> QED BY <2>7, <3>1, <3>2, Zenon
  <2>10. ASSUME NEW v \in 1..Len(y) PROVE z[Len(x) + v] = y[v]
    <3>1. PICK a \in Nat, b \in Nat : a = Len(x) /\ b = Len(y)
      BY <2>2, <2>3
    <3>2. a + v \in 1..(a + b) /\ ~(a + v <= a) /\ a + v - a = v
      BY <3>1
    <3>3. Len(x) + v \in 1..(Len(x) + Len(y)) /\ ~(Len(x) + v <= Len(x)) /\ Len(x) + v - Len(x) = v
      BY <3>1, <3>2
    <3> QED BY <2>7, <3>3
  <2>11. \A v \in 1..Len(y) : y[v] = <<frags[j].key, frags[j].offset + v - 1>>
    BY <2>3 DEF UnitsOf
  <2> QED BY <2>2, <2>3, <2>4, <2>6, <2>8, <2>9, <2>10, <2>11
<1> QED
  BY <1>2, <1>3, <1>5, <1>6, <1>7, Zenon

\* makeBigPacket: contiguous fragments of a datagram are its beginning.
LEMMA PayloadOfContiguous ==
  ASSUME NEW frags \in Seq(Fragments), frags # << >>, NEW d,
         \A j \in DOMAIN frags : frags[j].key = d, Contiguous(frags),
         frags[Len(frags)].offset + frags[Len(frags)].length = SizeOf[d]
  PROVE  Payload(frags) = Sent(d)
<1>1. PICK n \in Nat : n # 0 /\ n = Len(frags) /\ DOMAIN frags = 1..n
  BY EmptySeq
<1>2. PICK flat, len :
            /\ \A j \in 1..n : flat[j] \in Seq(Units) /\ len[j] = Len(flat[j]) /\ len[j] \in Nat
            /\ len[1] = frags[1].length
            /\ \A u \in 1..len[1] : flat[1][u] = <<frags[1].key, frags[1].offset + u - 1>>
            /\ \A j \in 2..n :
                  /\ len[j] = len[j - 1] + frags[j].length
                  /\ \A u \in 1..len[j - 1] : flat[j][u] = flat[j - 1][u]
                  /\ \A v \in 1..frags[j].length :
                        flat[j][len[j - 1] + v] = <<frags[j].key, frags[j].offset + v - 1>>
            /\ Payload(frags) = flat[n]
  BY <1>1, CopiedUnits, Zenon
<1>3. ASSUME NEW j \in 1..n
      PROVE  frags[j].offset \in Nat /\ frags[j].length \in Nat /\ frags[j].key = d
  <2>1. frags[j] \in Fragments
    BY <1>1
  <2> QED BY <1>1, <2>1, FragmentTyped
<1>4. frags[1].offset = 0
  BY <1>1 DEF Contiguous
<1>5. ASSUME NEW j \in 2..n PROVE frags[j].offset = frags[j - 1].offset + frags[j - 1].length
  <2>1. j \in DOMAIN frags /\ j # 1
    BY <1>1
  <2> QED BY <2>1 DEF Contiguous
\* After fragment j the first units are there, up to its end.
<1> DEFINE P(j) == /\ len[j] = frags[j].offset + frags[j].length
                   /\ \A u \in 1..len[j] : flat[j][u] = <<d, u - 1>>
           T == {k \in Nat : k < n => P(k + 1)}
<1>6. 0 \in T
  <2>1. 1 \in 1..n /\ frags[1].length \in Nat /\ frags[1].key = d
    BY <1>1, <1>3
  <2>2. len[1] = frags[1].offset + frags[1].length
    BY <1>2, <1>4, <2>1
  <2>3. ASSUME NEW u \in 1..len[1] PROVE flat[1][u] = <<d, u - 1>>
    <3>1. flat[1][u] = <<d, 0 + u - 1>>
      BY <1>2, <1>4, <2>1
    <3> QED BY <3>1
  <2> QED BY <2>2, <2>3
<1>7. ASSUME NEW j \in 2..n, P(j - 1) PROVE P(j)
  <2>1. j \in 1..n /\ j - 1 \in 1..n
    BY <1>1
  <2>2. PICK a \in Nat, b \in Nat : a = len[j - 1] /\ b = frags[j].length
    BY <1>2, <1>3, <2>1
  <2>3. frags[j].offset = a
    BY <1>5, <1>7, <2>2
  <2>4. len[j] = a + b
    BY <1>2, <2>2
  <2>5. ASSUME NEW u \in 1..(a + b) PROVE flat[j][u] = <<d, u - 1>>
    <3>1. CASE u <= a
      <4>1. u \in 1..a
        BY <3>1
      <4> QED BY <1>2, <1>7, <2>2, <4>1
    <3>2. CASE ~(u <= a)
      <4>1. PICK v \in 1..b : v = u - a
        BY <3>2
      <4>2. flat[j][a + v] = <<d, a + v - 1>>
        BY <1>2, <1>3, <2>1, <2>2, <2>3
      <4>3. a + v = u
        BY <4>1
      <4> QED BY <4>2, <4>3
    <3> QED BY <3>1, <3>2
  <2> QED BY <2>2, <2>3, <2>4, <2>5
<1>8. T = Nat
  <2> HIDE DEF P
  <2>1. ASSUME NEW k \in T PROVE k + 1 \in T
    <3>1. SUFFICES ASSUME k + 1 < n PROVE P(k + 1 + 1)
      OBVIOUS
    <3>2. PICK j \in 2..n : j = k + 1 + 1 /\ j - 1 = k + 1
      BY <1>1, <3>1
    <3>3. P(k + 1)
      BY <1>1, <3>1
    <3> QED BY <1>7, <3>2, <3>3
  <2> HIDE DEF T
  <2>2. T \in SUBSET Nat
    BY DEF T
  <2> QED BY <1>6, <2>1, <2>2, SetInduction
<1>9. P(n)
  <2> HIDE DEF P
  <2>1. PICK k \in Nat : k + 1 = n /\ k < n
    <3>1. n - 1 \in Nat /\ n - 1 + 1 = n /\ n - 1 < n
      BY <1>1
    <3> QED BY <3>1
  <2>2. P(k + 1)
    BY <1>8, <2>1
  <2> QED BY <2>1, <2>2
<1>10. len[n] = SizeOf[d]
  BY <1>1, <1>9
<1>11. flat[n] = [u \in 1..SizeOf[d] |-> flat[n][u]]
  <2>1. flat[n] \in Seq(Units) /\ Len(flat[n]) = SizeOf[d]
    BY <1>1, <1>2, <1>10
  <2> QED BY <2>1, LenProperties
<1> QED BY <1>2, <1>9, <1>10, <1>11 DEF Sent

-----------------------------------------------------------------------------
(* The tables. *)

LEMMA UnusedIsControl ==
  /\ Unused \in Controls /\ Len(Unused.frags) = 0 /\ ~Unused.inUse /\ Settled(Unused)
<1>1. << >> \in Seq(Fragments) /\ Len(<< >>) = 0
  BY EmptySeq
<1>2. 0 <= IP_MAX_FRAGS_PER_PACKET
  BY SizesAssumption
<1>3. Unused \in Controls
  BY <1>1, <1>2 DEF Unused, Controls
<1> QED BY <1>1, <1>3 DEF Unused, Settled

\* The counters when control i is replaced.
LEMMA Replaced ==
  ASSUME NEW s \in States, NEW t \in States, NEW i \in Slots, NEW fc \in Controls,
         t.fragControl = [s.fragControl EXCEPT ![i] = fc]
  PROVE  /\ Cardinality(Places(t)) = Cardinality(Places(s)) - Len(s.fragControl[i].frags) + Len(fc.frags)
         /\ Cardinality(InUse(t)) = Cardinality(InUse(s)) - (IF s.fragControl[i].inUse THEN 1 ELSE 0)
                                                          + (IF fc.inUse THEN 1 ELSE 0)
         /\ Cardinality(Places(s)) \in Nat /\ Cardinality(InUse(s)) \in Nat
<1> DEFINE All == Slots \X (1..IP_MAX_FRAGS_PER_PACKET)
           Rest == {p \in All : p[1] # i /\ p[2] \in DOMAIN s.fragControl[p[1]].frags}
<1>1. IsFiniteSet(Slots) /\ IsFiniteSet(All) /\ IP_MAX_FRAGS_PER_PACKET \in Nat
  <2>1. IP_MAX_FRAG_PACKETS \in Nat /\ IP_MAX_FRAGS_PER_PACKET \in Nat
    BY SizesAssumption
  <2>2. IsFiniteSet(Slots) /\ IsFiniteSet(1..IP_MAX_FRAGS_PER_PACKET)
    BY <2>1, FS_Interval DEF Slots
  <2> QED BY <2>1, <2>2, FS_Product, Zenon
<1>2. IsFiniteSet(Rest) /\ Cardinality(Rest) \in Nat
  BY <1>1, FS_Subset, FS_CardinalityType
<1>3. /\ s.fragControl \in [Slots -> Controls] /\ t.fragControl \in [Slots -> Controls]
      /\ t.fragControl[i] = fc /\ \A k \in Slots \ {i} : t.fragControl[k] = s.fragControl[k]
  BY DEF States
<1>4. ASSUME NEW c \in Controls
      PROVE  /\ Len(c.frags) \in Nat /\ DOMAIN c.frags = 1..Len(c.frags)
             /\ \A j \in DOMAIN c.frags : j \in 1..IP_MAX_FRAGS_PER_PACKET
  <2>1. c.frags \in Seq(Fragments) /\ Len(c.frags) <= IP_MAX_FRAGS_PER_PACKET
    BY DEF Controls
  <2> QED BY <1>1, <2>1
<1>5. ASSUME NEW r \in States, \A k \in Slots \ {i} : r.fragControl[k] = s.fragControl[k]
      PROVE  /\ IsFiniteSet(Places(r))
             /\ Cardinality(Places(r)) = Cardinality(Rest) + Len(r.fragControl[i].frags)
             /\ Cardinality(Places(r)) \in Nat
  <2> DEFINE L == Len(r.fragControl[i].frags)
             mine == {i} \X (1..L)
  <2>1. r.fragControl \in [Slots -> Controls]
    BY DEF States
  <2>2. L \in Nat /\ DOMAIN r.fragControl[i].frags = 1..L
    BY <1>4, <2>1
  <2>3. IsFiniteSet(mine) /\ Cardinality(mine) = L
    <3>1. IsFiniteSet({i}) /\ Cardinality({i}) = 1
      BY FS_Singleton
    <3>2. IsFiniteSet(1..L) /\ Cardinality(1..L) = L
      BY <2>2, FS_Interval
    <3> HIDE DEF L
    <3>3. IsFiniteSet(mine) /\ Cardinality(mine) = Cardinality({i}) * Cardinality(1..L)
      BY <3>1, <3>2, FS_Product, Zenon
    <3> QED BY <2>2, <3>1, <3>2, <3>3
  <2>4. \A p \in Places(r) : p \in Rest \cup mine
    <3> SUFFICES ASSUME NEW k \in Slots, NEW p \in {k} \X DOMAIN r.fragControl[k].frags
                 PROVE  p \in Rest \cup mine
      BY DEF Places
    <3>1. PICK j \in DOMAIN r.fragControl[k].frags : p = <<k, j>>
      OBVIOUS
    <3>2. CASE k = i
      BY <2>2, <3>1, <3>2
    <3>3. CASE k # i
      <4>1. r.fragControl[k] = s.fragControl[k] /\ s.fragControl[k] \in Controls
        BY <1>3, <1>5, <3>3
      <4>2. j \in 1..IP_MAX_FRAGS_PER_PACKET
        BY <1>4, <3>1, <4>1
      <4> QED BY <3>1, <3>3, <4>1, <4>2
    <3> QED BY <3>2, <3>3
  <2>5. \A p \in Rest \cup mine : p \in Places(r)
    <3>1. ASSUME NEW p \in Rest PROVE p \in Places(r)
      <4>1. PICK k \in Slots, j \in 1..IP_MAX_FRAGS_PER_PACKET :
               p = <<k, j>> /\ k # i /\ j \in DOMAIN s.fragControl[k].frags
        BY <3>1
      <4>2. p \in {k} \X DOMAIN r.fragControl[k].frags
        BY <1>5, <4>1
      <4> QED BY <4>2 DEF Places
    <3>2. ASSUME NEW p \in mine PROVE p \in Places(r)
      <4>1. p \in {i} \X DOMAIN r.fragControl[i].frags
        BY <2>2
      <4> QED BY <4>1 DEF Places
    <3> QED BY <3>1, <3>2
  <2>6. Places(r) = Rest \cup mine
    BY <2>4, <2>5
  <2>7. Rest \cap mine = {}
    OBVIOUS
  <2> HIDE DEF Rest, mine
  <2>8. /\ IsFiniteSet(Places(r))
        /\ Cardinality(Places(r)) = Cardinality(Rest) + Cardinality(mine) - Cardinality(Rest \cap mine)
    BY <1>2, <2>3, <2>6, FS_Union
  <2>9. Cardinality(Rest \cap mine) = 0
    BY <2>7, FS_EmptySet
  <2>10. Cardinality(Places(r)) = Cardinality(Rest) + L
    BY <1>2, <2>2, <2>3, <2>8, <2>9
  <2> QED BY <1>2, <2>2, <2>8, <2>10
<1>6. /\ Cardinality(Places(s)) = Cardinality(Rest) + Len(s.fragControl[i].frags)
      /\ Cardinality(Places(t)) = Cardinality(Rest) + Len(fc.frags)
      /\ Cardinality(Places(s)) \in Nat
  <2> HIDE DEF Rest
  <2> QED BY <1>3, <1>5
<1>7. Cardinality(Places(t)) = Cardinality(Places(s)) - Len(s.fragControl[i].frags) + Len(fc.frags)
  <2>1. Len(s.fragControl[i].frags) \in Nat /\ Len(fc.frags) \in Nat
    BY <1>3, <1>4
  <2> HIDE DEF Rest
  <2> QED BY <1>2, <1>6, <2>1
<1> DEFINE others == InUse(s) \ {i}
<1>8. IsFiniteSet(InUse(s)) /\ IsFiniteSet(others) /\ Cardinality(InUse(s)) \in Nat
      /\ Cardinality(others) \in Nat
  <2>1. InUse(s) \in SUBSET Slots /\ others \in SUBSET Slots
    BY DEF InUse
  <2> QED BY <1>1, <2>1, FS_Subset, FS_CardinalityType
<1>9. Cardinality(others) = Cardinality(InUse(s)) - (IF s.fragControl[i].inUse THEN 1 ELSE 0)
  <2>1. Cardinality(others) = IF i \in InUse(s) THEN Cardinality(InUse(s)) - 1 ELSE Cardinality(InUse(s))
    BY <1>8, FS_RemoveElement, Zenon
  <2>2. i \in InUse(s) <=> s.fragControl[i].inUse
    BY DEF InUse
  <2> QED BY <1>8, <2>1, <2>2
<1>10. InUse(t) = IF fc.inUse THEN others \cup {i} ELSE others
  BY <1>3 DEF InUse
<1>11. Cardinality(InUse(t)) = Cardinality(others) + (IF fc.inUse THEN 1 ELSE 0)
  <2> HIDE DEF others
  <2>1. i \notin others
    BY DEF others
  <2>2. Cardinality(others \cup {i}) = Cardinality(others) + 1
    BY <1>8, <2>1, FS_AddElement
  <2> QED BY <1>8, <1>10, <2>2
<1> QED BY <1>6, <1>7, <1>8, <1>9, <1>11

\* Freeing and taking a packet buffer.
LEMMA BufferMoved ==
  ASSUME NEW s, NEW n \in Int, NEW out, NEW i, Good(s, n, out, i), NEW m \in Int,
         NEW t, t = [s EXCEPT !.freeBuffers = @ + m]
  PROVE  Good(t, n - m, out, i)
<1>1. s \in States /\ s.freeBuffers \in Int
  BY DEF Good, States
<1>2. /\ t \in States /\ t.fragControl = s.fragControl /\ t.freeBuffers = s.freeBuffers + m
      /\ t.fragsInReassembly = s.fragsInReassembly /\ t.BigPacketFreeList = s.BigPacketFreeList
      /\ t.data = s.data
  <2>1. PICK x \in Int : x = s.freeBuffers + m
    BY <1>1
  <2>2. t = [s EXCEPT !.freeBuffers = x]
    BY <1>1, <2>1 DEF States
  <2> QED BY <1>1, <2>1, <2>2 DEF States
<1>3. Places(t) = Places(s) /\ InUse(t) = InUse(s)
  BY <1>2 DEF Places, InUse
<1>4. t.freeBuffers + (n - m) + Cardinality(Places(t)) = s.freeBuffers + n + Cardinality(Places(s))
  <2>1. ASSUME NEW c PROVE s.freeBuffers + m + (n - m) + c = s.freeBuffers + n + c
    BY <1>1
  <2> QED BY <1>2, <1>3, <2>1
<1> QED BY <1>2, <1>3, <1>4 DEF Good

\* killFragmentControl: the buffers of control i are free again.
LEMMA Killed ==
  ASSUME NEW s, NEW n \in Int, NEW out, NEW i \in Slots, Good(s, n, out, i)
  PROVE  /\ Good(killFragmentControl(s, i), n, out, 0)
         /\ \A k \in Slots \ {i} : killFragmentControl(s, i).fragControl[k] = s.fragControl[k]
<1> DEFINE L == Len(s.fragControl[i].frags)
           t == killFragmentControl(s, i)
<1>1. s \in States /\ s.fragControl[i] \in Controls /\ Listed(s.fragControl[i])
  BY DEF Good, States
<1>2. L \in Nat /\ s.fragControl[i].inUse
  BY <1>1 DEF Controls, Listed
<1>3. t = [[s EXCEPT !.freeBuffers = @ + L] EXCEPT
              !.fragControl = [s.fragControl EXCEPT ![i] = Unused], !.fragsInReassembly = @ - 1]
  BY <1>1 DEF killFragmentControl, Buffer_free, States
<1>4. [s.fragControl EXCEPT ![i] = Unused] \in [Slots -> Controls]
  BY <1>1, UnusedIsControl DEF States
<1> HIDE DEF L
<1>5. /\ t \in States
      /\ t.fragControl = [s.fragControl EXCEPT ![i] = Unused] /\ t.freeBuffers = s.freeBuffers + L
      /\ t.fragsInReassembly = s.fragsInReassembly - 1 /\ t.BigPacketFreeList = s.BigPacketFreeList
      /\ t.data = s.data
  <2>1. s.freeBuffers \in Int /\ s.fragsInReassembly \in Int
    BY <1>1 DEF States
  <2>2. PICK x \in Int, y \in Int : x = s.freeBuffers + L /\ y = s.fragsInReassembly - 1
    BY <1>2, <2>1
  <2>3. PICK fcs \in [Slots -> Controls] : fcs = [s.fragControl EXCEPT ![i] = Unused]
    BY <1>4
  <2>4. t = [s EXCEPT !.freeBuffers = x, !.fragControl = fcs, !.fragsInReassembly = y]
    BY <1>1, <1>3, <2>2, <2>3 DEF States
  <2> HIDE DEF t
  <2> QED BY <1>1, <2>2, <2>3, <2>4 DEF States
<1> HIDE DEF t
<1>6. /\ Cardinality(Places(t)) = Cardinality(Places(s)) - L
      /\ Cardinality(InUse(t)) = Cardinality(InUse(s)) - 1
      /\ Cardinality(Places(s)) \in Nat /\ Cardinality(InUse(s)) \in Nat
  <2>1. /\ Cardinality(Places(t)) = Cardinality(Places(s)) - L + Len(Unused.frags)
        /\ Cardinality(InUse(t)) = Cardinality(InUse(s)) - (IF s.fragControl[i].inUse THEN 1 ELSE 0)
                                                         + (IF Unused.inUse THEN 1 ELSE 0)
        /\ Cardinality(Places(s)) \in Nat /\ Cardinality(InUse(s)) \in Nat
    BY <1>1, <1>5, UnusedIsControl, Replaced DEF L
  <2>2. Len(Unused.frags) = 0 /\ ~Unused.inUse
    BY UnusedIsControl
  <2> QED BY <1>2, <2>1, <2>2
<1>7. t.freeBuffers + n + Cardinality(Places(t)) = PACKET_BUFFERS
  <2>1. s.freeBuffers + n + Cardinality(Places(s)) = PACKET_BUFFERS /\ s.freeBuffers \in Int
    BY <1>1 DEF Good, States
  <2> QED BY <1>2, <1>5, <1>6, <2>1
<1>8. t.fragsInReassembly = Cardinality(InUse(t))
  BY <1>5, <1>6 DEF Good
<1>9. /\ t.fragControl[i] = Unused
      /\ \A k \in Slots \ {i} : t.fragControl[k] = s.fragControl[k]
  BY <1>1, <1>5 DEF States
<1>10. ASSUME NEW k \in Slots
       PROVE  IF k = 0 THEN Listed(t.fragControl[k]) ELSE Settled(t.fragControl[k])
  <2>1. k # 0
    BY DEF Slots
  <2>2. Settled(t.fragControl[k])
    BY <1>9, UnusedIsControl DEF Good
  <2> QED BY <2>1, <2>2
<1>11. InUse(t) \subseteq InUse(s) \ {i}
  BY <1>9, UnusedIsControl DEF InUse
<1>12. ASSUME NEW j \in InUse(t), NEW k \in InUse(t),
              Key(t.fragControl[j]) = Key(t.fragControl[k])
       PROVE  j = k
  <2>1. j \in Slots \ {i} /\ k \in Slots \ {i} /\ j \in InUse(s) /\ k \in InUse(s)
    BY <1>11 DEF InUse
  <2>2. Key(s.fragControl[j]) = Key(s.fragControl[k])
    BY <1>9, <1>12, <2>1
  <2> QED BY <2>1, <2>2 DEF Good
<1>13. FreeOnce(t.BigPacketFreeList, out) /\ \A b \in out : \E d \in Datagrams : t.data[b] = Sent(d)
  BY <1>5 DEF Good
<1>14. Good(t, n, out, 0)
  BY <1>5, <1>7, <1>8, <1>10, <1>12, <1>13 DEF Good
<1> QED BY <1>9, <1>14 DEF t

\* A settled table is one in which any control in use may be worked on.
LEMMA WorkOn ==
  ASSUME NEW s, NEW n, NEW out, NEW i \in InUse(s), Good(s, n, out, 0)
  PROVE  Good(s, n, out, i)
<1>1. i \in Slots /\ s.fragControl[i].inUse
  BY DEF InUse
<1>2. ASSUME NEW k \in Slots PROVE Settled(s.fragControl[k])
  <2>1. k # 0
    BY DEF Slots
  <2> QED BY <2>1 DEF Good
<1>3. Listed(s.fragControl[i])
  BY <1>1, <1>2 DEF Settled
<1> QED BY <1>2, <1>3 DEF Good

\* The loop of purgeOverdue goes from control to control.
LEMMA Purged ==
  ASSUME NEW s
  PROVE  \E purged :
            /\ purged = [n \in 0..IP_MAX_FRAG_PACKETS |->
                            CASE n = 0 -> s
                              [] n # 0 /\ Overdue(s.fragControl[n]) -> killFragmentControl(purged[n - 1], n)
                              [] OTHER -> purged[n - 1]]
            /\ purge(s) = purged[IP_MAX_FRAG_PACKETS]
<1> DEFINE Step(n, before) == CASE n = 0 -> s
                                [] n # 0 /\ Overdue(s.fragControl[n]) -> killFragmentControl(before, n)
                                [] OTHER -> before
           Turns(g, k) == g = [n \in 0..k |-> Step(n, g[n - 1])]
           T == {k \in Nat : \E g : Turns(g, k)}
<1>1. 0 \in T
  <2> DEFINE g == [n \in 0..0 |-> s]
  <2>1. g = [n \in 0..0 |-> Step(n, g[n - 1])]
    OBVIOUS
  <2> QED BY <2>1
<1>2. ASSUME NEW k \in T PROVE k + 1 \in T
  <2> HIDE DEF Step
  <2>1. PICK g : Turns(g, k)
    BY <1>2
  <2> DEFINE h == [n \in 0..(k + 1) |-> IF n = k + 1 THEN Step(k + 1, g[k]) ELSE g[n]]
  <2>2. ASSUME NEW n \in 0..(k + 1) PROVE h[n] = Step(n, h[n - 1])
    <3>1. CASE n = k + 1
      <4>1. h[n - 1] = g[k] /\ h[n] = Step(k + 1, g[k])
        BY <3>1
      <4> QED BY <3>1, <4>1
    <3>2. CASE n # k + 1
      <4>1. n \in 0..k /\ h[n] = g[n] /\ g[n] = Step(n, g[n - 1])
        BY <2>1, <3>2
      <4>2. n # 0 => h[n - 1] = g[n - 1]
        BY <4>1
      <4>3. n = 0 => \A x, y : Step(n, x) = Step(n, y)
        BY DEF Step
      <4> QED BY <4>1, <4>2, <4>3
    <3> QED BY <3>1, <3>2
  <2>3. h = [n \in 0..(k + 1) |-> h[n]]
    OBVIOUS
  <2>4. Turns(h, k + 1)
    <3> HIDE DEF h
    <3> QED BY <2>2, <2>3
  <2>5. k + 1 \in Nat /\ \E f : Turns(f, k + 1)
    <3> HIDE DEF Turns
    <3> QED BY <1>2, <2>4
  <2> QED BY <2>5
<1>3. T = Nat
  <2> HIDE DEF T
  <2>1. T \in SUBSET Nat
    BY DEF T
  <2> QED BY <1>1, <1>2, <2>1, SetInduction
<1>4. \E g : Turns(g, IP_MAX_FRAG_PACKETS)
  <2>1. IP_MAX_FRAG_PACKETS \in T
    BY <1>3, SizesAssumption
  <2> HIDE DEF Turns
  <2> QED BY <2>1
<1>5. Turns(CHOOSE g : Turns(g, IP_MAX_FRAG_PACKETS), IP_MAX_FRAG_PACKETS)
  <2> HIDE DEF Turns
  <2> QED BY <1>4
<1> QED BY <1>5 DEF purge

\* purgeOverdue keeps everything as it is to be, and leaves other things alone.
LEMMA PurgedGood ==
  ASSUME NEW s, NEW n \in Int, NEW out, Good(s, n, out, 0)
  PROVE  Good(purgeOverdue(s), n, out, 0)
<1>1. PICK purged :
            /\ purged = [k \in 0..IP_MAX_FRAG_PACKETS |->
                            CASE k = 0 -> s
                              [] k # 0 /\ Overdue(s.fragControl[k]) -> killFragmentControl(purged[k - 1], k)
                              [] OTHER -> purged[k - 1]]
            /\ purge(s) = purged[IP_MAX_FRAG_PACKETS]
  BY Purged
<1>2. IP_MAX_FRAG_PACKETS \in Nat
  BY SizesAssumption
<1> DEFINE P(k) == /\ Good(purged[k], n, out, 0)
                   /\ \A j \in Slots : j > k => purged[k].fragControl[j] = s.fragControl[j]
           T == {k \in Nat : k <= IP_MAX_FRAG_PACKETS => P(k)}
<1>3. 0 \in T
  <2>1. purged[0] = s
    BY <1>1, <1>2
  <2> QED BY <2>1
<1>4. ASSUME NEW k \in 1..IP_MAX_FRAG_PACKETS, P(k - 1) PROVE P(k)
  <2>1. PICK t : t = purged[k - 1]
    OBVIOUS
  <2>2. /\ k \in Slots /\ k # 0 /\ Good(t, n, out, 0)
        /\ \A j \in Slots : j > k - 1 => t.fragControl[j] = s.fragControl[j]
    BY <1>2, <1>4, <2>1 DEF Slots
  <2>3. t.fragControl[k] = s.fragControl[k]
    BY <2>2 DEF Slots
  <2>4. CASE Overdue(s.fragControl[k])
    <3>1. purged[k] = killFragmentControl(t, k)
      BY <1>1, <1>2, <2>1, <2>2, <2>4
    <3>2. k \in InUse(t)
      BY <2>2, <2>3, <2>4 DEF Overdue, InUse
    <3>3. /\ Good(killFragmentControl(t, k), n, out, 0)
          /\ \A j \in Slots \ {k} : killFragmentControl(t, k).fragControl[j] = t.fragControl[j]
      BY <2>2, <3>2, WorkOn, Killed
    <3>4. ASSUME NEW j \in Slots, j > k PROVE purged[k].fragControl[j] = s.fragControl[j]
      <4>1. j # k /\ j > k - 1
        BY <3>4 DEF Slots
      <4> QED BY <2>2, <3>1, <3>3, <4>1
    <3> QED BY <3>1, <3>3, <3>4
  <2>5. CASE ~Overdue(s.fragControl[k])
    <3>1. purged[k] = t
      BY <1>1, <1>2, <2>1, <2>2, <2>5
    <3>2. ASSUME NEW j \in Slots, j > k PROVE t.fragControl[j] = s.fragControl[j]
      <4>1. j > k - 1
        BY <3>2 DEF Slots
      <4> QED BY <2>2, <4>1
    <3> QED BY <2>2, <3>1, <3>2
  <2> QED BY <2>4, <2>5
<1>5. T = Nat
  <2> HIDE DEF P
  <2>1. ASSUME NEW k \in T PROVE k + 1 \in T
    <3>1. SUFFICES ASSUME k + 1 <= IP_MAX_FRAG_PACKETS PROVE P(k + 1)
      OBVIOUS
    <3>2. PICK j \in 1..IP_MAX_FRAG_PACKETS : j = k + 1 /\ j - 1 = k
      BY <1>2, <3>1
    <3>3. P(k)
      BY <1>2, <3>1
    <3> QED BY <1>4, <3>2, <3>3
  <2> HIDE DEF T
  <2>2. T \in SUBSET Nat
    BY DEF T
  <2> QED BY <1>3, <2>1, <2>2, SetInduction
<1>6. P(IP_MAX_FRAG_PACKETS)
  <2> HIDE DEF P
  <2> QED BY <1>2, <1>5
<1> QED BY <1>1, <1>6 DEF purgeOverdue
-----------------------------------------------------------------------------
(* A fragment. *)

\* t is seq with e at place p.
HasInserted(t, seq, p, e) ==
    /\ t \in Seq(Fragments) /\ Len(t) = Len(seq) + 1
    /\ \A k \in 1..(Len(seq) + 1) : t[k] = IF k < p THEN seq[k] ELSE IF k = p THEN e ELSE seq[k - 1]

\* InsertAt: the elements behind the place move up.
LEMMA InsertedAt ==
  ASSUME NEW seq \in Seq(Fragments), NEW e \in Fragments, NEW p \in 1..(Len(seq) + 1), NEW t, t = InsertAt(seq, p, e)
  PROVE  HasInserted(t, seq, p, e)
<1>1. PICK n \in Nat : n = Len(seq) /\ p \in 1..(n + 1)
  BY LenProperties
<1>2. PICK x \in Seq(Fragments) : x = SubSeq(seq, 1, p - 1) /\ Len(x) = p - 1 /\ \A k \in 1..(p - 1) : x[k] = seq[k]
  <2>1. \A k \in 1..(p - 1) : seq[k] \in Fragments
    BY <1>1
  <2>2. 1 \in Int /\ p - 1 \in Int
    BY <1>1
  <2>3. /\ SubSeq(seq, 1, p - 1) \in Seq(Fragments)
        /\ Len(SubSeq(seq, 1, p - 1)) = IF 1 <= p - 1 THEN p - 1 - 1 + 1 ELSE 0
        /\ \A k \in 1..(p - 1 - 1 + 1) : SubSeq(seq, 1, p - 1)[k] = seq[1 + k - 1]
    BY <2>1, <2>2, SubSeqProperties
  <2>4. PICK x : x = SubSeq(seq, 1, p - 1)
    OBVIOUS
  <2>5. /\ x \in Seq(Fragments) /\ Len(x) = IF 1 <= p - 1 THEN p - 1 - 1 + 1 ELSE 0
        /\ \A k \in 1..(p - 1 - 1 + 1) : x[k] = seq[1 + k - 1]
    BY <2>3, <2>4, Zenon
  <2>6. p - 1 - 1 + 1 = p - 1 /\ \A k \in 1..(p - 1) : 1 + k - 1 = k
    BY <1>1
  <2>7. Len(x) = p - 1 /\ \A k \in 1..(p - 1) : x[k] = seq[k]
    BY <1>1, <2>5, <2>6
  <2> QED BY <2>4, <2>5, <2>7, Zenon
<1>3. PICK y \in Seq(Fragments) : /\ y = SubSeq(seq, p, n) /\ Len(y) = n - p + 1
                          /\ \A k \in 1..(n - p + 1) : y[k] = seq[p + k - 1]
  <2>1. \A k \in p..n : seq[k] \in Fragments
    BY <1>1
  <2>2. /\ SubSeq(seq, p, n) \in Seq(Fragments)
        /\ Len(SubSeq(seq, p, n)) = IF p <= n THEN n - p + 1 ELSE 0
        /\ \A k \in 1..(n - p + 1) : SubSeq(seq, p, n)[k] = seq[p + k - 1]
    BY <1>1, <2>1, SubSeqProperties
  <2>3. PICK y : y = SubSeq(seq, p, n)
    OBVIOUS
  <2>4. /\ y \in Seq(Fragments) /\ Len(y) = IF p <= n THEN n - p + 1 ELSE 0
        /\ \A k \in 1..(n - p + 1) : y[k] = seq[p + k - 1]
    BY <2>2, <2>3, Zenon
  <2>5. Len(y) = n - p + 1
    BY <1>1, <2>4
  <2> QED BY <2>3, <2>4, <2>5, Zenon
<1>4. PICK w : w = x \o <<e>>
  OBVIOUS
<1>5. /\ w \in Seq(Fragments) /\ Len(w) = p
      /\ \A k \in 1..p : w[k] = IF k <= p - 1 THEN x[k] ELSE e
  <2>1. <<e>> \in Seq(Fragments) /\ Len(<<e>>) = 1 /\ <<e>>[1] = e
    OBVIOUS
  <2>2. /\ x \o <<e>> \in Seq(Fragments) /\ Len(x \o <<e>>) = Len(x) + Len(<<e>>)
        /\ \A k \in 1..(Len(x) + Len(<<e>>)) :
              (x \o <<e>>)[k] = IF k <= Len(x) THEN x[k] ELSE <<e>>[k - Len(x)]
    BY <2>1, ConcatProperties
  <2>3. /\ w \in Seq(Fragments) /\ Len(w) = Len(x) + Len(<<e>>)
        /\ \A k \in 1..(Len(x) + Len(<<e>>)) : w[k] = IF k <= Len(x) THEN x[k] ELSE <<e>>[k - Len(x)]
    BY <1>4, <2>2, Zenon
  <2> QED BY <1>1, <1>2, <2>1, <2>3
<1>6. t = w \o y
  BY <1>1, <1>2, <1>3, <1>4 DEF InsertAt
<1>7. /\ w \o y \in Seq(Fragments) /\ Len(w \o y) = Len(w) + Len(y)
      /\ \A k \in 1..(Len(w) + Len(y)) : (w \o y)[k] = IF k <= Len(w) THEN w[k] ELSE y[k - Len(w)]
  BY <1>5, ConcatProperties
<1>8. /\ t \in Seq(Fragments) /\ Len(t) = Len(w) + Len(y)
      /\ \A k \in 1..(Len(w) + Len(y)) : t[k] = IF k <= Len(w) THEN w[k] ELSE y[k - Len(w)]
  BY <1>6, <1>7, Zenon
<1>9. Len(w) + Len(y) = n + 1
  BY <1>1, <1>3, <1>5
<1>10. ASSUME NEW k \in 1..(n + 1)
       PROVE  t[k] = IF k < p THEN seq[k] ELSE IF k = p THEN e ELSE seq[k - 1]
  <2>1. CASE k <= p
    BY <1>1, <1>2, <1>5, <1>8, <1>9, <2>1
  <2>2. CASE ~(k <= p)
    <3>1. t[k] = y[k - p]
      BY <1>1, <1>5, <1>8, <1>9, <2>2
    <3>2. PICK m \in 1..(n - p + 1) : m = k - p /\ p + m - 1 = k - 1
      BY <1>1, <2>2
    <3> QED BY <1>1, <1>3, <2>2, <3>1, <3>2
  <2> QED BY <1>1, <2>1, <2>2
<1> QED BY <1>1, <1>8, <1>9, <1>10 DEF HasInserted

\* insertPos: the offsets before the place are smaller, the one at it is not.
LEMMA Placed ==
  ASSUME NEW frags \in Seq(Fragments), NEW f \in Fragments, NEW p, p = insertPos(frags, f)
  PROVE  /\ p \in 1..(Len(frags) + 1)
         /\ \A j \in 1..Len(frags) : j < p => frags[j].offset < f.offset
         /\ p <= Len(frags) => f.offset <= frags[p].offset
<1>1. Len(frags) \in Nat /\ DOMAIN frags = 1..Len(frags)
  OBVIOUS
<1> DEFINE S == {j \in DOMAIN frags : f.offset <= frags[j].offset} \cup {Len(frags) + 1}
<1>2. S \in SUBSET Nat /\ S # {} /\ S \subseteq 1..(Len(frags) + 1)
  BY <1>1
<1>3. p \in S /\ \A k \in S : p <= k
  <2>1. p = Min(S)
    BY DEF insertPos
  <2> HIDE DEF S
  <2> QED BY <1>2, <2>1, MinLeast
<1>4. ASSUME NEW j \in 1..Len(frags), j < p PROVE frags[j].offset < f.offset
  <2>1. j \notin S
    BY <1>1, <1>2, <1>3, <1>4
  <2>2. ~(f.offset <= frags[j].offset)
    BY <1>1, <2>1
  <2>3. frags[j] \in Fragments
    OBVIOUS
  <2>4. frags[j].offset \in Nat /\ f.offset \in Nat
    BY <2>3, FragmentTyped
  <2> QED BY <2>2, <2>4
<1>5. p <= Len(frags) => f.offset <= frags[p].offset
  BY <1>1, <1>3
<1> QED BY <1>2, <1>3, <1>4, <1>5

\* The list with one fragment more.
LEMMA InsertedListed ==
  ASSUME NEW fc \in Controls, Listed(fc), Len(fc.frags) < IP_MAX_FRAGS_PER_PACKET,
         NEW f \in Fragments, Key(fc) = f.key,
         NEW p, p = insertPos(fc.frags, f), p <= Len(fc.frags) => f.offset < fc.frags[p].offset
  PROVE  /\ Inserted(fc, f) \in Controls /\ Listed(Inserted(fc, f))
         /\ Len(Inserted(fc, f).frags) = Len(fc.frags) + 1
         /\ Key(Inserted(fc, f)) = f.key
<1>1. PICK old \in Seq(Fragments) : old = fc.frags
  BY DEF Controls
<1>2. PICK n \in Nat : n = Len(old) /\ n # 0 /\ DOMAIN old = 1..n
  BY <1>1, EmptySeq DEF Listed
<1>3. /\ p \in 1..(n + 1)
      /\ \A j \in 1..n : j < p => old[j].offset < f.offset
      /\ p <= n => f.offset < old[p].offset
  BY <1>1, <1>2, Placed
<1>4. PICK new : new = InsertAt(old, p, f)
  OBVIOUS
<1>5. /\ new \in Seq(Fragments) /\ Len(new) = n + 1
      /\ \A k \in 1..(n + 1) : new[k] = IF k < p THEN old[k] ELSE IF k = p THEN f ELSE old[k - 1]
  <2>1. p \in 1..(Len(old) + 1)
    BY <1>2, <1>3
  <2>2. /\ new \in Seq(Fragments) /\ Len(new) = Len(old) + 1
        /\ \A k \in 1..(Len(old) + 1) :
              new[k] = IF k < p THEN old[k] ELSE IF k = p THEN f ELSE old[k - 1]
    <3>1. HasInserted(new, old, p, f)
      BY <1>4, <2>1, InsertedAt, Zenon
    <3> QED BY <3>1 DEF HasInserted
  <2> QED BY <1>2, <2>2
<1>6. DOMAIN new = 1..(n + 1)
  BY <1>5
<1>7. PICK last \in BOOLEAN : last = (fc.lastFragRcvd \/ f.isLast)
  BY FragmentTyped DEF Controls
<1>8. Inserted(fc, f) = [fc EXCEPT !.lastFragRcvd = last, !.frags = new]
  BY <1>1, <1>4, <1>7 DEF Inserted, LastSeen, Controls
<1>9. PICK g : g = Inserted(fc, f)
  OBVIOUS
<1>10. n + 1 <= IP_MAX_FRAGS_PER_PACKET
  BY <1>1, <1>2, SizesAssumption
<1>11. g \in Controls /\ g.inUse = fc.inUse /\ g.lastFragRcvd = last /\ g.frags = new
  BY <1>5, <1>8, <1>9, <1>10 DEF Controls
<1>12. ASSUME NEW j \in 1..n PROVE old[j].key = f.key /\ old[j].offset \in Nat
  <2>1. old[j] \in Fragments
    BY <1>2
  <2>2. old[j].key = old[1].key
    BY <1>1, <1>2 DEF Listed
  <2> QED BY <1>1, <2>1, <2>2, FragmentTyped DEF Key
<1>13. ASSUME NEW k \in 1..(n + 1) PROVE new[k].key = f.key
  <2>1. CASE k < p
    BY <1>3, <1>5, <1>12, <2>1
  <2>2. CASE k = p
    BY <1>5, <2>2
  <2>3. CASE k > p
    <3>1. k - 1 \in 1..n /\ new[k] = old[k - 1]
      BY <1>3, <1>5, <2>3
    <3> QED BY <1>12, <3>1
  <2> QED BY <1>3, <2>1, <2>2, <2>3
<1>14. \A j, k \in 1..n : j < k => old[j].offset < old[k].offset
  BY <1>1, <1>2 DEF Listed
<1>15. f.offset \in Nat
  BY FragmentTyped
<1>16. ASSUME NEW k \in 1..(n + 1), k > p
       PROVE  k - 1 \in 1..n /\ new[k] = old[k - 1] /\ f.offset < old[k - 1].offset
  <2>1. k - 1 \in 1..n /\ new[k] = old[k - 1] /\ p \in 1..n
    BY <1>3, <1>5, <1>16
  <2>2. CASE k - 1 = p
    BY <1>3, <2>1, <2>2
  <2>3. CASE k - 1 # p
    <3>1. old[p].offset < old[k - 1].offset
      BY <1>14, <1>16, <2>1, <2>3
    <3> QED BY <1>3, <1>12, <1>15, <2>1, <3>1
  <2> QED BY <2>1, <2>2, <2>3
<1>17. ASSUME NEW j \in 1..(n + 1), NEW k \in 1..(n + 1), j < k
       PROVE  new[j].offset < new[k].offset
  <2>1. CASE k < p
    <3>1. j \in 1..n /\ k \in 1..n /\ new[j] = old[j] /\ new[k] = old[k]
      BY <1>3, <1>5, <1>17, <2>1
    <3> QED BY <1>14, <1>17, <3>1
  <2>2. CASE k = p
    <3>1. j \in 1..n /\ new[j] = old[j] /\ new[k] = f
      BY <1>3, <1>5, <1>17, <2>2
    <3> QED BY <1>3, <1>17, <2>2, <3>1
  <2>3. CASE k > p
    <3>1. k - 1 \in 1..n /\ new[k] = old[k - 1] /\ f.offset < old[k - 1].offset
      BY <1>16, <2>3
    <3>2. CASE j < p
      <4>1. j \in 1..n /\ new[j] = old[j] /\ old[j].offset < f.offset
        BY <1>3, <1>5, <3>2
      <4> QED BY <1>12, <1>15, <3>1, <4>1
    <3>3. CASE j = p
      BY <1>5, <3>1, <3>3
    <3>4. CASE j > p
      <4>1. j - 1 \in 1..n /\ new[j] = old[j - 1]
        BY <1>16, <3>4
      <4> QED BY <1>14, <1>17, <3>1, <4>1
    <3> QED BY <1>3, <3>2, <3>3, <3>4
  <2> QED BY <1>3, <2>1, <2>2, <2>3
<1>18. last <=> \E k \in 1..(n + 1) : new[k].isLast
  <2>1. fc.lastFragRcvd <=> \E j \in 1..n : old[j].isLast
    BY <1>1, <1>2 DEF Listed
  <2>2. p \in 1..(n + 1) /\ new[p] = f
    BY <1>3, <1>5
  <2>3. ASSUME NEW j \in 1..n PROVE \E k \in 1..(n + 1) : new[k] = old[j]
    <3>1. CASE j < p
      BY <1>3, <1>5, <3>1
    <3>2. CASE ~(j < p)
      <4>1. PICK k \in 1..(n + 1) : k = j + 1 /\ k > p /\ k - 1 = j
        BY <1>3, <3>2
      <4> QED BY <1>16, <4>1
    <3> QED BY <3>1, <3>2
  <2>4. ASSUME NEW k \in 1..(n + 1) PROVE k = p \/ \E j \in 1..n : new[k] = old[j]
    <3>1. CASE k < p
      BY <1>3, <1>5, <3>1
    <3>2. CASE k > p
      BY <1>16, <3>2
    <3> QED BY <1>3, <3>1, <3>2
  <2> QED BY <1>7, <2>1, <2>2, <2>3, <2>4
<1>19. new # << >> /\ 1 \in 1..(n + 1)
  BY <1>5
<1>20. Listed(g)
  <2>1. fc.inUse
    BY DEF Listed
  <2> QED BY <1>6, <1>11, <1>13, <1>17, <1>18, <1>19, <2>1 DEF Listed
<1>21. Key(g) = f.key
  BY <1>11, <1>13, <1>19 DEF Key
<1> QED BY <1>1, <1>2, <1>5, <1>9, <1>11, <1>20, <1>21

\* The table with control i set anew, for a fragment whose datagram no other has.
LEMMA ReplacedGood ==
  ASSUME NEW s, NEW n \in Int, NEW out, Good(s, n, out, 0), NEW i \in Slots,
         NEW fc \in Controls, Listed(fc), NEW t \in States,
         t.fragControl = [s.fragControl EXCEPT ![i] = fc],
         t.freeBuffers = s.freeBuffers, t.BigPacketFreeList = s.BigPacketFreeList, t.data = s.data,
         t.fragsInReassembly = s.fragsInReassembly + (IF s.fragControl[i].inUse THEN 0 ELSE 1),
         Len(fc.frags) = Len(s.fragControl[i].frags) + 1,
         \A k \in InUse(s) \ {i} : Key(s.fragControl[k]) # Key(fc)
  PROVE  Good(t, n - 1, out, i)
<1>1. s \in States /\ s.freeBuffers \in Int /\ s.fragControl[i] \in Controls
  BY DEF Good, States
<1>2. Len(s.fragControl[i].frags) \in Nat /\ fc.inUse /\ s.fragControl[i].inUse \in BOOLEAN
  BY <1>1 DEF Controls, Listed
<1>3. /\ Cardinality(Places(t)) = Cardinality(Places(s)) - Len(s.fragControl[i].frags) + Len(fc.frags)
      /\ Cardinality(InUse(t)) = Cardinality(InUse(s)) - (IF s.fragControl[i].inUse THEN 1 ELSE 0)
                                                       + (IF fc.inUse THEN 1 ELSE 0)
      /\ Cardinality(Places(s)) \in Nat /\ Cardinality(InUse(s)) \in Nat
  BY <1>1, Replaced, SMTT(30)
<1>4. t.freeBuffers + (n - 1) + Cardinality(Places(t)) = PACKET_BUFFERS
  <2>1. s.freeBuffers + n + Cardinality(Places(s)) = PACKET_BUFFERS
    BY DEF Good
  <2>2. PICK c \in Nat, l \in Nat : c = Cardinality(Places(s)) /\ l = Len(s.fragControl[i].frags)
    BY <1>2, <1>3
  <2>3. Cardinality(Places(t)) = c + 1
    <3>1. Len(fc.frags) = l + 1 /\ Cardinality(Places(t)) = c - l + Len(fc.frags)
      BY <1>3, <2>2
    <3> QED BY <3>1, <2>2
  <2>4. PICK f \in Int : f = s.freeBuffers /\ f = t.freeBuffers
    BY <1>1
  <2>5. f + (n - 1) + (c + 1) = f + n + c
    OBVIOUS
  <2> QED BY <2>1, <2>2, <2>3, <2>4, <2>5
<1>5. t.fragsInReassembly = Cardinality(InUse(t))
  <2>1. s.fragsInReassembly = Cardinality(InUse(s))
    BY DEF Good
  <2> QED BY <1>2, <1>3, <2>1
<1>6. t.fragControl[i] = fc /\ \A k \in Slots \ {i} : t.fragControl[k] = s.fragControl[k]
  BY <1>1 DEF States
<1>7. ASSUME NEW k \in Slots
      PROVE  IF k = i THEN Listed(t.fragControl[k]) ELSE Settled(t.fragControl[k])
  <2>1. k # 0
    BY DEF Slots
  <2> QED BY <1>6, <2>1 DEF Good
<1>8. InUse(t) \ {i} \subseteq InUse(s) \ {i}
  BY <1>6 DEF InUse
<1>9. ASSUME NEW j \in InUse(t), NEW k \in InUse(t), Key(t.fragControl[j]) = Key(t.fragControl[k])
      PROVE  j = k
  <2>1. j \in Slots /\ k \in Slots
    BY DEF InUse
  <2>2. CASE j # i /\ k # i
    <3>1. j \in InUse(s) /\ k \in InUse(s) /\ Key(s.fragControl[j]) = Key(s.fragControl[k])
      BY <1>6, <1>8, <1>9, <2>1, <2>2
    <3> QED BY <3>1 DEF Good
  <2>3. CASE j = i /\ k # i
    BY <1>6, <1>8, <1>9, <2>1, <2>3
  <2>4. CASE j # i /\ k = i
    BY <1>6, <1>8, <1>9, <2>1, <2>4
  <2> QED BY <2>2, <2>3, <2>4
<1>10. FreeOnce(t.BigPacketFreeList, out) /\ \A b \in out : \E d \in Datagrams : t.data[b] = Sent(d)
  BY DEF Good
<1> QED BY <1>4, <1>5, <1>7, <1>9, <1>10 DEF Good

\* The work on a control is over when it is settled.
LEMMA WorkDone ==
  ASSUME NEW s, NEW n, NEW out, NEW i \in Slots, Good(s, n, out, i), Settled(s.fragControl[i])
  PROVE  Good(s, n, out, 0)
<1>1. ASSUME NEW k \in Slots
      PROVE  IF k = 0 THEN Listed(s.fragControl[k]) ELSE Settled(s.fragControl[k])
  <2>1. k # 0
    BY DEF Slots
  <2> QED BY <2>1 DEF Good
<1> QED BY <1>1 DEF Good

\* A complete list carries the datagram from its first unit to its last.
LEMMA CompleteIsSent ==
  ASSUME NEW fc \in Controls, Listed(fc), Complete(fc)
  PROVE  \E d \in Datagrams : Payload(fc.frags) = Sent(d)
<1>1. PICK frags \in Seq(Fragments) : frags = fc.frags
  BY DEF Controls
<1>2. PICK n \in Nat : n # 0 /\ n = Len(frags) /\ DOMAIN frags = 1..n /\ frags # << >>
  BY <1>1, EmptySeq DEF Listed
<1>3. ASSUME NEW j \in 1..n
      PROVE  /\ frags[j].offset \in Nat /\ frags[j].length \in Nat /\ frags[j].length >= 1
             /\ frags[j].key \in Datagrams /\ frags[j].key = frags[1].key
             /\ frags[j].offset + frags[j].length <= SizeOf[frags[1].key]
             /\ frags[j].isLast <=> frags[j].offset + frags[j].length = SizeOf[frags[1].key]
  <2>1. frags[j] \in Fragments
    BY <1>2
  <2>2. frags[j].key = frags[1].key
    BY <1>1, <1>2 DEF Listed
  <2> QED BY <2>1, <2>2, FragmentTyped
<1>4. Contiguous(frags)
  BY <1>1 DEF Complete, Contiguous
<1>5. PICK j \in 1..n : frags[j].isLast
  BY <1>1, <1>2 DEF Complete, Listed
<1>6. j = n
  <2> SUFFICES ASSUME j # n PROVE FALSE
    OBVIOUS
  <2>1. PICK k \in 2..n : k = j + 1 /\ k - 1 = j
    BY <1>2
  <2>2. frags[k].offset = frags[j].offset + frags[j].length
    BY <1>2, <1>4, <2>1 DEF Contiguous
  <2>3. frags[k].offset = SizeOf[frags[1].key]
    BY <1>3, <1>5, <2>2
  <2>4. k \in 1..n
    BY <2>1
  <2> QED BY <1>3, <2>3, <2>4
<1>7. PICK d \in Datagrams : d = frags[1].key
  BY <1>2, <1>3
<1>8. frags[n].offset + frags[n].length = SizeOf[d]
  BY <1>3, <1>5, <1>6, <1>7
<1>9. \A k \in DOMAIN frags : frags[k].key = d
  BY <1>2, <1>3, <1>7
<1>10. Payload(frags) = Sent(d)
  BY <1>2, <1>4, <1>8, <1>9, PayloadOfContiguous
<1> QED BY <1>1, <1>7, <1>10

\* What processFragment returns, with n buffers elsewhere: a big packet for the
\* reader, or none.
Done(r, n, out) ==
    \/ r.packet = 0 /\ Good(r.ip, n, out, 0)
    \/ r.packet \in BigPackets \ out /\ Good(r.ip, n, out \cup {r.packet}, 0)

LEMMA HeldDone ==
  ASSUME NEW s, NEW n, NEW out, Good(s, n, out, 0)
  PROVE  Done(Held(s), n, out)
  BY DEF Done, Held

\* makeBigPacket: the datagram is copied into a big packet that nobody has.
LEMMA BigPacketMade ==
  ASSUME NEW s, NEW n \in Int, NEW out \in SUBSET BigPackets, NEW i \in Slots, Good(s, n, out, i),
         Complete(s.fragControl[i])
  PROVE  Done(makeBigPacket(s, i), n, out)
<1>1. /\ s \in States /\ s.fragControl[i] \in Controls /\ Listed(s.fragControl[i])
      /\ s.BigPacketFreeList \in Seq(BigPackets) /\ s.data \in [BigPackets -> Seq(Units)]
  BY DEF Good, States
<1>2. CASE s.BigPacketFreeList = << >>
  <2>1. makeBigPacket(s, i) = Held(killFragmentControl(s, i))
    BY <1>2 DEF makeBigPacket
  <2>2. Good(killFragmentControl(s, i), n, out, 0)
    BY Killed
  <2> QED BY <2>1, <2>2, HeldDone
<1>3. CASE s.BigPacketFreeList # << >>
  <2>1. PICK list \in Seq(BigPackets) : list = s.BigPacketFreeList
    BY <1>1
  <2>2. PICK m \in Nat : m # 0 /\ m = Len(list) /\ DOMAIN list = 1..m
    BY <1>3, <2>1, EmptySeq
  <2>3. PICK b : b = Last(list)
    OBVIOUS
  <2>4. b \in BigPackets /\ b = list[m]
    BY <2>2, <2>3 DEF Last
  <2>5. PICK front : front = Front(list)
    OBVIOUS
  <2>6. /\ front \in Seq(BigPackets) /\ Len(front) = m - 1
        /\ \A j \in 1..(m - 1) : front[j] = list[j]
    <3>1. front = SubSeq(list, 1, m - 1)
      BY <2>2, <2>5 DEF Front
    <3> QED BY <2>2, <3>1
  <2>7. PICK load \in Seq(Units) : load = Payload(s.fragControl[i].frags)
    BY <1>1, PayloadTyped DEF Controls, Listed
  <2>8. PICK d \in Datagrams : load = Sent(d)
    BY <1>1, <2>7, CompleteIsSent
  <2>9. PICK data \in [BigPackets -> Seq(Units)] : data = [s.data EXCEPT ![b] = load]
    BY <1>1, <2>4
  <2>10. PICK t : t = [s EXCEPT !.BigPacketFreeList = front, !.data = data]
    OBVIOUS
  <2>11. makeBigPacket(s, i) = [ip |-> killFragmentControl(t, i), packet |-> b]
    <3>1. t = [s EXCEPT !.BigPacketFreeList = Front(@), !.data[b] = Payload(s.fragControl[i].frags)]
      BY <1>1, <2>1, <2>5, <2>7, <2>9, <2>10 DEF States
    <3> QED BY <1>3, <2>1, <2>3, <3>1 DEF makeBigPacket
  <2>12. /\ t \in States /\ t.fragControl = s.fragControl /\ t.freeBuffers = s.freeBuffers
         /\ t.fragsInReassembly = s.fragsInReassembly /\ t.BigPacketFreeList = front /\ t.data = data
    BY <1>1, <2>6, <2>10 DEF States
  <2>13. Places(t) = Places(s) /\ InUse(t) = InUse(s)
    BY <2>12 DEF Places, InUse
  <2>14. FreeOnce(list, out)
    BY <2>1 DEF Good
  <2>15. b \notin out
    BY <2>2, <2>4, <2>14 DEF FreeOnce
  <2>16. FreeOnce(front, out \cup {b})
    <3>1. DOMAIN front = 1..(m - 1)
      BY <2>2, <2>6
    <3>2. ASSUME NEW j \in 1..(m - 1), NEW k \in 1..(m - 1), front[j] = front[k] PROVE j = k
      <4>1. j \in 1..m /\ k \in 1..m
        BY <2>2
      <4>2. list[j] = list[k]
        BY <2>6, <3>2, Zenon
      <4> QED BY <2>2, <2>14, <4>1, <4>2 DEF FreeOnce
    <3>3. ASSUME NEW c \in BigPackets
          PROVE  c \notin out \cup {b} <=> \E j \in 1..(m - 1) : front[j] = c
      <4>1. c \notin out <=> \E j \in 1..m : list[j] = c
        BY <2>2, <2>14 DEF FreeOnce
      <4>2. ASSUME NEW j \in 1..m, list[j] = c, c # b PROVE j \in 1..(m - 1) /\ front[j] = c
        <5>1. j # m
          BY <2>4, <4>2
        <5>2. j \in 1..(m - 1)
          BY <2>2, <5>1
        <5> QED BY <2>6, <4>2, <5>2
      <4>3. ASSUME NEW j \in 1..(m - 1), front[j] = c
            PROVE  j \in 1..m /\ list[j] = c /\ c # b
        <5>1. j \in 1..m /\ j # m /\ m \in 1..m
          BY <2>2
        <5>2. list[j] = c
          BY <2>6, <4>3
        <5>3. c # b
          BY <2>2, <2>4, <2>14, <5>1, <5>2 DEF FreeOnce
        <5> QED BY <5>1, <5>2, <5>3
      <4> QED BY <4>1, <4>2, <4>3
    <3> QED BY <3>1, <3>2, <3>3 DEF FreeOnce
  <2>17. ASSUME NEW c \in out \cup {b} PROVE \E e \in Datagrams : t.data[c] = Sent(e)
    <3>1. CASE c = b
      <4>1. t.data[c] = load
        BY <1>1, <2>4, <2>9, <2>12, <3>1
      <4> QED BY <2>8, <4>1
    <3>2. CASE c # b
      <4>1. c \in out /\ t.data[c] = s.data[c]
        BY <1>1, <2>9, <2>12, <3>2
      <4> QED BY <4>1 DEF Good
    <3> QED BY <3>1, <3>2
  <2>18. Good(t, n, out \cup {b}, i)
    BY <2>12, <2>13, <2>16, <2>17 DEF Good
  <2>19. Good(killFragmentControl(t, i), n, out \cup {b}, 0)
    BY <2>18, Killed
  <2> QED BY <2>4, <2>11, <2>15, <2>19 DEF Done
<1> QED BY <1>2, <1>3

\* The list after an insertion is complete, full, or settled.
LEMMA Checked ==
  ASSUME NEW s, NEW n \in Int, NEW out \in SUBSET BigPackets, NEW i \in Slots, Good(s, n, out, i)
  PROVE  Done(checkComplete(s, i), n, out)
<1>1. s.fragControl[i] \in Controls /\ Listed(s.fragControl[i])
  BY DEF Good, States
<1>2. CASE Complete(s.fragControl[i])
  <2>1. checkComplete(s, i) = makeBigPacket(s, i)
    BY <1>2 DEF checkComplete
  <2> QED BY <1>2, <2>1, BigPacketMade
<1>3. CASE ~Complete(s.fragControl[i]) /\ Len(s.fragControl[i].frags) = IP_MAX_FRAGS_PER_PACKET
  <2>1. checkComplete(s, i) = Held(killFragmentControl(s, i))
    BY <1>3 DEF checkComplete
  <2>2. Good(killFragmentControl(s, i), n, out, 0)
    BY Killed
  <2> QED BY <2>1, <2>2, HeldDone
<1>4. CASE ~Complete(s.fragControl[i]) /\ Len(s.fragControl[i].frags) # IP_MAX_FRAGS_PER_PACKET
  <2>1. checkComplete(s, i) = Held(s)
    BY <1>4 DEF checkComplete
  <2>2. Len(s.fragControl[i].frags) < IP_MAX_FRAGS_PER_PACKET
    <3>1. Len(s.fragControl[i].frags) \in Nat /\ Len(s.fragControl[i].frags) <= IP_MAX_FRAGS_PER_PACKET
      BY <1>1 DEF Controls
    <3> QED BY <1>4, <3>1, SizesAssumption
  <2>3. Settled(s.fragControl[i])
    <3>1. s.fragControl[i].inUse
      BY <1>1 DEF Listed
    <3> QED BY <1>1, <1>4, <2>2, <3>1 DEF Settled
  <2> QED BY <2>1, <2>3, WorkDone, HeldDone
<1> QED BY <1>2, <1>3, <1>4

\* A further fragment of the datagram of control i.
LEMMA FragmentAdded ==
  ASSUME NEW s, NEW n \in Int, NEW out \in SUBSET BigPackets, Good(s, n + 1, out, 0),
         NEW i \in InUse(s), NEW f \in Fragments, Key(s.fragControl[i]) = f.key
  PROVE  Done(addFragment(s, i, f), n, out)
<1> DEFINE fc == s.fragControl[i]
           pos == insertPos(fc.frags, f)
           middle == pos <= Len(fc.frags)
           duplicate == middle /\ f.offset = fc.frags[pos].offset /\ f.length = fc.frags[pos].length
           overlap == middle /\ ~duplicate /\ f.offset + f.length > fc.frags[pos].offset
<1>1. i \in Slots /\ fc \in Controls /\ s \in States /\ Settled(fc) /\ fc.inUse
  <2>1. i \in Slots /\ s.fragControl[i].inUse /\ i # 0
    BY DEF InUse, Slots
  <2> QED BY <2>1 DEF Good, States
<1>2. Listed(fc) /\ Len(fc.frags) < IP_MAX_FRAGS_PER_PACKET
  BY <1>1 DEF Settled
<1>3. fc.frags \in Seq(Fragments)
  BY <1>1 DEF Controls
<1>4. /\ pos \in 1..(Len(fc.frags) + 1)
      /\ middle => f.offset <= fc.frags[pos].offset
  BY <1>3, Placed
<1>5. Good(s, n + 1, out, i) /\ n + 1 \in Int
  BY WorkOn
<1>6. /\ Good(Buffer_free(s, 1), n, out, 0) /\ Good(Buffer_free(s, 1), n, out, i)
  <2>1. PICK m \in Int : m = n + 1 /\ m - 1 = n
    BY <1>5
  <2>2. Good(s, m, out, 0) /\ Good(s, m, out, i)
    BY <1>5, <2>1
  <2>3. Good(Buffer_free(s, 1), m - 1, out, 0) /\ Good(Buffer_free(s, 1), m - 1, out, i)
    BY <2>2, BufferMoved DEF Buffer_free
  <2> QED BY <2>1, <2>3
<1>7. middle => pos \in 1..Len(fc.frags)
  BY <1>3, <1>4
<1>8. CASE TooBig(f) \/ overlap
  <2>1. addFragment(s, i, f) = Held(killFragmentControl(Buffer_free(s, 1), i))
    BY <1>8 DEF addFragment
  <2>2. Good(killFragmentControl(Buffer_free(s, 1), i), n, out, 0)
    BY <1>1, <1>6, Killed
  <2> QED BY <2>1, <2>2, HeldDone
<1>9. CASE ~TooBig(f) /\ duplicate
  <2>1. addFragment(s, i, f) = Held(Buffer_free([s EXCEPT !.fragControl[i] = LastSeen(@, f)], 1))
    BY <1>9 DEF addFragment
  <2>2. f.isLast => fc.lastFragRcvd
    <3>1. PICK g \in Fragments : g = fc.frags[pos]
      BY <1>3, <1>7, <1>9
    <3>2. g.key = f.key
      <4>1. pos \in DOMAIN fc.frags /\ 1 \in DOMAIN fc.frags
        BY <1>3, <1>7, <1>9
      <4> QED BY <1>2, <3>1, <4>1 DEF Listed, Key
    <3>3. f.isLast => g.isLast
      BY <1>9, <3>1, <3>2, FragmentTyped
    <3> QED BY <1>2, <1>3, <1>7, <1>9, <3>1, <3>3 DEF Listed
  <2>3. LastSeen(fc, f) = fc
    <3>1. (fc.lastFragRcvd \/ f.isLast) = fc.lastFragRcvd
      BY <1>1, <2>2, FragmentTyped DEF Controls
    <3> QED BY <1>1, <3>1 DEF LastSeen, Controls
  <2>4. [s EXCEPT !.fragControl[i] = LastSeen(@, f)] = s
    BY <1>1, <2>3 DEF States
  <2> QED BY <1>6, <2>1, <2>4, HeldDone
<1>10. CASE ~(TooBig(f) \/ overlap) /\ ~duplicate
  <2>1. PICK t : t = [s EXCEPT !.fragControl[i] = Inserted(@, f)]
    OBVIOUS
  <2>2. addFragment(s, i, f) = checkComplete(t, i)
    BY <1>10, <2>1 DEF addFragment
  <2>3. middle => f.offset < fc.frags[pos].offset
    <3> SUFFICES ASSUME middle PROVE f.offset < fc.frags[pos].offset
      OBVIOUS
    <3>1. PICK g \in Fragments : g = fc.frags[pos]
      BY <1>3, <1>7
    <3>2. g.offset \in Nat /\ f.offset \in Nat /\ f.length \in Nat /\ f.length >= 1
      BY FragmentTyped
    <3>3. ~(f.offset + f.length > g.offset)
      BY <1>10, <3>1
    <3> QED BY <3>1, <3>2, <3>3
  <2>4. PICK g \in Controls : g = Inserted(fc, f) /\ Listed(g) /\ Len(g.frags) = Len(fc.frags) + 1
                              /\ Key(g) = f.key
    BY <1>1, <1>2, <2>3, InsertedListed
  <2>5. PICK fcs \in [Slots -> Controls] : fcs = [s.fragControl EXCEPT ![i] = g]
    BY <1>1 DEF States
  <2>6. t = [s EXCEPT !.fragControl = fcs]
    BY <1>1, <2>1, <2>4, <2>5 DEF States
  <2>7. /\ t \in States /\ t.fragControl = [s.fragControl EXCEPT ![i] = g]
        /\ t.freeBuffers = s.freeBuffers /\ t.BigPacketFreeList = s.BigPacketFreeList /\ t.data = s.data
        /\ t.fragsInReassembly = s.fragsInReassembly
    BY <1>1, <2>5, <2>6 DEF States
  <2>8. t.fragsInReassembly = s.fragsInReassembly + (IF s.fragControl[i].inUse THEN 0 ELSE 1)
    <3>1. s.fragsInReassembly \in Int
      BY <1>1 DEF States
    <3> QED BY <1>1, <2>7, <3>1
  <2>9. ASSUME NEW k \in InUse(s) \ {i} PROVE Key(s.fragControl[k]) # Key(g)
    BY <2>4 DEF Good
  <2>10. Good(t, n + 1 - 1, out, i)
    BY <1>1, <1>5, <2>4, <2>7, <2>8, <2>9, ReplacedGood
  <2>11. n + 1 - 1 = n
    OBVIOUS
  <2> QED BY <1>1, <2>2, <2>10, <2>11, Checked
<1> QED BY <1>8, <1>9, <1>10

\* The first fragment of a datagram.
LEMMA Started ==
  ASSUME NEW s, NEW n \in Int, NEW out \in SUBSET BigPackets, Good(s, n + 1, out, 0),
         NEW f \in Fragments, findFragControl(s, f.key) = {}
  PROVE  Done(startReassembly(s, f), n, out)
<1>1. s \in States /\ n + 1 \in Int
  BY DEF Good
<1>2. CASE findOpenFragControl(s) = {} \/ TooBig(f)
  <2>1. startReassembly(s, f) = Held(Buffer_free(s, 1))
    BY <1>2 DEF startReassembly
  <2>2. PICK m \in Int : m = n + 1 /\ m - 1 = n
    BY <1>1
  <2>3. Good(Buffer_free(s, 1), m - 1, out, 0)
    BY <2>2, BufferMoved DEF Buffer_free
  <2> QED BY <2>1, <2>2, <2>3, HeldDone
<1>3. CASE ~(findOpenFragControl(s) = {} \/ TooBig(f))
  <2> DEFINE open == Slots \ InUse(s)
  <2>1. PICK i : i = Min(findOpenFragControl(s))
    OBVIOUS
  <2>2. i \in open
    <3>1. open # {} /\ findOpenFragControl(s) = {Min(open)}
      BY <1>3 DEF findOpenFragControl
    <3>2. open \in SUBSET Nat
      BY DEF Slots
    <3>3. Min(open) \in open
      BY <3>1, <3>2, MinLeast
    <3>4. {Min(open)} \in SUBSET Nat /\ {Min(open)} # {}
      BY <3>2, <3>3
    <3>5. Min({Min(open)}) \in {Min(open)}
      BY <3>4, MinLeast
    <3> QED BY <2>1, <3>1, <3>3, <3>5
  <2>3. i \in Slots /\ i # 0 /\ ~s.fragControl[i].inUse
    BY <2>2 DEF InUse, Slots
  <2>4. PICK fc : fc = [inUse |-> TRUE, lastFragRcvd |-> f.isLast, age |-> 0, frags |-> <<f>>]
    OBVIOUS
  <2>5. 1 < IP_MAX_FRAGS_PER_PACKET /\ IP_MAX_FRAGS_PER_PACKET \in Nat
    BY SizesAssumption
  <2>6. PICK frags \in Seq(Fragments) : /\ frags = <<f>> /\ Len(frags) = 1 /\ frags[1] = f
                                        /\ DOMAIN frags = {1} /\ frags # << >>
    <3>1. <<f>> \in Seq(Fragments) /\ Len(<<f>>) = 1 /\ <<f>>[1] = f
      OBVIOUS
    <3>2. DOMAIN <<f>> = {1}
      OBVIOUS
    <3>3. <<f>> # << >>
      OBVIOUS
    <3> QED BY <3>1, <3>2, <3>3, Zenon
  <2>7. fc = [inUse |-> TRUE, lastFragRcvd |-> f.isLast, age |-> 0, frags |-> frags] /\ f.isLast \in BOOLEAN
    BY <2>4, <2>6, FragmentTyped
  <2>8. /\ fc \in Controls /\ fc.inUse /\ fc.frags = frags /\ fc.lastFragRcvd = f.isLast
    <3>1. fc \in [inUse : BOOLEAN, lastFragRcvd : BOOLEAN, age : Nat, frags : Seq(Fragments)]
      BY <2>7
    <3>2. fc.frags = frags /\ fc.inUse /\ fc.lastFragRcvd = f.isLast
      BY <2>7
    <3>3. Len(fc.frags) <= IP_MAX_FRAGS_PER_PACKET
      BY <2>5, <2>6, <3>2
    <3> QED BY <3>1, <3>2, <3>3 DEF Controls
  <2>9. Listed(fc) /\ Key(fc) = f.key
    BY <2>6, <2>8 DEF Listed, Key
  <2>10. ~Complete(fc)
    <3> SUFFICES ASSUME f.isLast, f.offset = 0 PROVE FALSE
      BY <2>6, <2>8 DEF Complete
    <3> QED BY FragmentTyped
  <2>11. Settled(fc)
    BY <2>5, <2>6, <2>8, <2>9, <2>10 DEF Settled
  <2>12. PICK t : t = [s EXCEPT !.fragsInReassembly = @ + 1, !.fragControl[i] = fc]
    OBVIOUS
  <2>13. startReassembly(s, f) = Held(t)
    BY <1>3, <2>1, <2>4, <2>12 DEF startReassembly
  <2>14. PICK fcs \in [Slots -> Controls] : fcs = [s.fragControl EXCEPT ![i] = fc]
    BY <1>1, <2>3, <2>8 DEF States
  <2>15. PICK c \in Int : c = s.fragsInReassembly + 1
    BY <1>1 DEF States
  <2>16. t = [s EXCEPT !.fragsInReassembly = c, !.fragControl = fcs]
    BY <1>1, <2>12, <2>14, <2>15 DEF States
  <2>17. /\ t \in States /\ t.fragControl = [s.fragControl EXCEPT ![i] = fc]
         /\ t.freeBuffers = s.freeBuffers /\ t.BigPacketFreeList = s.BigPacketFreeList /\ t.data = s.data
         /\ t.fragsInReassembly = c
    BY <1>1, <2>14, <2>16 DEF States
  <2>18. Len(fc.frags) = Len(s.fragControl[i].frags) + 1
    <3>1. s.fragControl[i].frags = << >>
      BY <2>3 DEF Good, Settled
    <3> QED BY <2>6, <2>8, <3>1
  <2>19. ASSUME NEW k \in InUse(s) \ {i} PROVE Key(s.fragControl[k]) # Key(fc)
    BY <2>9 DEF findFragControl
  <2>20. t.fragsInReassembly = s.fragsInReassembly + (IF s.fragControl[i].inUse THEN 0 ELSE 1)
    BY <2>3, <2>15, <2>17
  <2>21. PICK m \in Int : m = n + 1 /\ m - 1 = n
    BY <1>1
  <2>22. Good(t, m - 1, out, i)
    <3>1. Good(s, m, out, 0)
      BY <2>21
    <3>2. i \in Slots /\ fc \in Controls /\ Listed(fc) /\ t \in States
      BY <2>3, <2>8, <2>9, <2>17
    <3>3. /\ t.fragControl = [s.fragControl EXCEPT ![i] = fc] /\ t.freeBuffers = s.freeBuffers
          /\ t.BigPacketFreeList = s.BigPacketFreeList /\ t.data = s.data
      BY <2>17
    <3> QED BY <2>18, <2>19, <2>20, <3>1, <3>2, <3>3, ReplacedGood, SMTT(30)
  <2>23. t.fragControl[i] = fc
    BY <1>1, <2>3, <2>17 DEF States
  <2> QED BY <2>3, <2>11, <2>13, <2>21, <2>22, <2>23, WorkDone, HeldDone
<1> QED BY <1>2, <1>3

\* processFragment, with the buffer of the fragment in hand.
LEMMA Processed ==
  ASSUME NEW s, NEW n \in Int, NEW out \in SUBSET BigPackets, Good(s, n + 1, out, 0), NEW f \in Fragments
  PROVE  Done(processFragment(s, f), n, out)
<1>1. CASE findFragControl(s, f.key) = {}
  BY <1>1, Started DEF processFragment
<1>2. CASE findFragControl(s, f.key) # {}
  <2>1. findFragControl(s, f.key) \in SUBSET Nat
    BY DEF findFragControl, InUse, Slots
  <2>2. PICK i \in findFragControl(s, f.key) : i = Min(findFragControl(s, f.key))
    BY <1>2, <2>1, MinLeast
  <2>3. i \in InUse(s) /\ Key(s.fragControl[i]) = f.key
    BY DEF findFragControl
  <2> QED BY <1>2, <2>2, <2>3, FragmentAdded DEF processFragment
<1> QED BY <1>1, <1>2

\* returnBigPacket: the reader's packet is on the free list again.
LEMMA BigPacketReturned ==
  ASSUME NEW s, NEW n, NEW out \in SUBSET BigPackets, Good(s, n, out, 0), NEW b \in out
  PROVE  Good(returnBigPacket(s, b), n, out \ {b}, 0)
<1>1. /\ s \in States /\ b \in BigPackets /\ s.BigPacketFreeList \in Seq(BigPackets)
      /\ s.data \in [BigPackets -> Seq(Units)]
  BY DEF Good, States
<1>2. PICK list \in Seq(BigPackets) : list = s.BigPacketFreeList
  BY <1>1
<1>3. PICK m \in Nat : m = Len(list) /\ DOMAIN list = 1..m
  OBVIOUS
<1>4. PICK new : new = Append(list, b)
  OBVIOUS
<1>5. /\ new \in Seq(BigPackets) /\ Len(new) = m + 1
      /\ \A j \in 1..m : new[j] = list[j]
      /\ new[m + 1] = b
  BY <1>1, <1>3, <1>4, AppendProperties
<1>6. << >> \in Seq(Units)
  BY EmptySeq
<1>7. PICK data \in [BigPackets -> Seq(Units)] : data = [s.data EXCEPT ![b] = << >>]
  BY <1>1, <1>6
<1>8. PICK t : t = returnBigPacket(s, b)
  OBVIOUS
<1>9. t = [s EXCEPT !.BigPacketFreeList = new, !.data = data]
  BY <1>1, <1>2, <1>4, <1>7, <1>8 DEF returnBigPacket, States
<1>10. /\ t \in States /\ t.fragControl = s.fragControl /\ t.freeBuffers = s.freeBuffers
       /\ t.fragsInReassembly = s.fragsInReassembly /\ t.BigPacketFreeList = new /\ t.data = data
  BY <1>1, <1>5, <1>9 DEF States
<1>11. Places(t) = Places(s) /\ InUse(t) = InUse(s)
  BY <1>10 DEF Places, InUse
<1>12. FreeOnce(list, out)
  BY <1>2 DEF Good
<1>13. FreeOnce(new, out \ {b})
  <2>1. DOMAIN new = 1..(m + 1)
    BY <1>3, <1>5
  <2>2. \A j \in 1..m : list[j] # b
    BY <1>1, <1>3, <1>12 DEF FreeOnce
  <2>3. ASSUME NEW j \in 1..(m + 1), NEW k \in 1..(m + 1), new[j] = new[k] PROVE j = k
    <3>1. CASE j \in 1..m /\ k \in 1..m
      <4>1. list[j] = list[k]
        BY <1>5, <2>3, <3>1, Zenon
      <4> QED BY <1>3, <1>12, <3>1, <4>1 DEF FreeOnce
    <3>2. CASE j = m + 1 /\ k \in 1..m
      BY <1>5, <2>2, <2>3, <3>2
    <3>3. CASE j \in 1..m /\ k = m + 1
      BY <1>5, <2>2, <2>3, <3>3
    <3>4. CASE j = m + 1 /\ k = m + 1
      BY <3>4
    <3>5. (j \in 1..m \/ j = m + 1) /\ (k \in 1..m \/ k = m + 1)
      BY <1>3
    <3> QED BY <3>1, <3>2, <3>3, <3>4, <3>5
  <2>4. ASSUME NEW c \in BigPackets
        PROVE  c \notin out \ {b} <=> \E j \in 1..(m + 1) : new[j] = c
    <3>1. c \notin out <=> \E j \in 1..m : list[j] = c
      BY <1>3, <1>12 DEF FreeOnce
    <3>2. (\E j \in 1..(m + 1) : new[j] = c) <=> c = b \/ \E j \in 1..m : list[j] = c
      <4>1. ASSUME NEW j \in 1..m PROVE j \in 1..(m + 1) /\ new[j] = list[j]
        BY <1>5
      <4>2. ASSUME NEW j \in 1..(m + 1) PROVE j = m + 1 \/ j \in 1..m
        BY <1>3
      <4>3. m + 1 \in 1..(m + 1)
        BY <1>3
      <4> QED BY <1>5, <4>1, <4>2, <4>3
    <3> QED BY <3>1, <3>2
  <2> QED BY <2>1, <2>3, <2>4 DEF FreeOnce
<1>14. ASSUME NEW c \in out \ {b} PROVE \E d \in Datagrams : t.data[c] = Sent(d)
  <2>1. t.data[c] = s.data[c]
    BY <1>1, <1>7, <1>10
  <2> QED BY <2>1 DEF Good
<1>15. Good(t, n, out \ {b}, 0)
  BY <1>10, <1>11, <1>13, <1>14 DEF Good
<1> QED BY <1>8, <1>15
-----------------------------------------------------------------------------
(* The steps. *)

LEMMA InitIInv == Init => IInv
<1> SUFFICES ASSUME Init PROVE IInv
  OBVIOUS
<1>1. /\ IP_MAX_FRAG_PACKETS \in Nat /\ PACKET_BUFFERS \in Nat
  BY SizesAssumption
<1>2. ip.fragControl = [i \in Slots |-> Unused] /\ \A i \in Slots : ip.fragControl[i] = Unused
  BY DEF Init
<1>3. [i \in BigPackets |-> i] \in Seq(BigPackets)
  BY <1>1 DEF BigPackets
<1>4. [b \in BigPackets |-> << >>] \in [BigPackets -> Seq(Units)]
  <2>1. << >> \in Seq(Units)
    BY EmptySeq
  <2> QED BY <2>1
<1>5. [i \in Slots |-> Unused] \in [Slots -> Controls]
  BY UnusedIsControl
<1>6. ip \in States
  <2>1. PICK list \in Seq(BigPackets) : list = [i \in BigPackets |-> i]
    BY <1>3
  <2>2. PICK data \in [BigPackets -> Seq(Units)] : data = [b \in BigPackets |-> << >>]
    BY <1>4
  <2>3. PICK fcs \in [Slots -> Controls] : fcs = [i \in Slots |-> Unused]
    BY <1>5
  <2>4. ip = [fragControl |-> fcs, fragsInReassembly |-> 0, BigPacketFreeList |-> list,
              data |-> data, freeBuffers |-> PACKET_BUFFERS]
    BY <2>1, <2>2, <2>3 DEF Init
  <2> QED BY <1>1, <2>4 DEF States
<1>7. Places(ip) = {} /\ InUse(ip) = {}
  <2>1. \A i \in Slots : DOMAIN ip.fragControl[i].frags = {} /\ ~ip.fragControl[i].inUse
    BY <1>2 DEF Unused
  <2> QED BY <2>1 DEF Places, InUse
<1>8. Cardinality(Places(ip)) = 0 /\ Cardinality(InUse(ip)) = 0
  BY <1>7, FS_EmptySet
<1>9. upstream.small = 0 /\ upstream.big = {} /\ upstream \in [big : SUBSET BigPackets, small : Nat]
  BY DEF Init
<1>10. ip.freeBuffers = PACKET_BUFFERS /\ ip.fragsInReassembly = 0
  BY DEF Init
<1>11. FreeOnce(ip.BigPacketFreeList, {})
  <2>1. ip.BigPacketFreeList = [i \in BigPackets |-> i]
    BY DEF Init
  <2>2. DOMAIN ip.BigPacketFreeList = BigPackets /\ \A i \in BigPackets : ip.BigPacketFreeList[i] = i
    BY <2>1
  <2> QED BY <2>2 DEF FreeOnce
<1>12. ASSUME NEW k \in Slots
       PROVE  IF k = 0 THEN Listed(ip.fragControl[k]) ELSE Settled(ip.fragControl[k])
  <2>1. k # 0
    BY DEF Slots
  <2> QED BY <1>2, <2>1, UnusedIsControl
<1>13. ip.freeBuffers + upstream.small + Cardinality(Places(ip)) = PACKET_BUFFERS
  BY <1>1, <1>8, <1>9, <1>10
<1> QED BY <1>6, <1>7, <1>8, <1>9, <1>10, <1>11, <1>12, <1>13 DEF IInv, Good

\* A packet has taken a buffer.
LEMMA TakenGood ==
  ASSUME IInv
  PROVE  Good(Taken, upstream.small + 1, upstream.big, 0)
<1>1. upstream.small \in Int /\ Good(ip, upstream.small, upstream.big, 0) /\ ip \in States
  BY DEF IInv, Good
<1>2. Taken = [ip EXCEPT !.freeBuffers = @ + (-1)]
  <2>1. ip.freeBuffers \in Int
    BY <1>1 DEF States
  <2>2. ip.freeBuffers - 1 = ip.freeBuffers + (-1)
    BY <2>1
  <2> QED BY <2>2 DEF Taken
<1>3. Good(Taken, upstream.small - (-1), upstream.big, 0)
  BY <1>1, <1>2, BufferMoved
<1>4. upstream.small - (-1) = upstream.small + 1
  BY <1>1
<1> QED BY <1>3, <1>4

LEMMA StepIInv == IInv /\ [Next]_vars => IInv'
<1> SUFFICES ASSUME IInv, [Next]_vars PROVE IInv'
  OBVIOUS
<1>1. /\ upstream \in [big : SUBSET BigPackets, small : Nat]
      /\ upstream.small \in Nat /\ upstream.big \in SUBSET BigPackets
      /\ Good(ip, upstream.small, upstream.big, 0)
  BY DEF IInv
<1>2. ASSUME NEW f \in Fragments, NEW kept \in BOOLEAN, turnFragment(f, kept) PROVE IInv'
  <2>1. PICK r : r = processFragment(Taken, f)
    OBVIOUS
  <2>2. IF r.packet # 0 /\ kept
        THEN /\ ip' = purgeOverdue(r.ip)
             /\ upstream' = [upstream EXCEPT !.big = @ \cup {r.packet}]
        ELSE /\ ip' = purgeOverdue(IF r.packet = 0 THEN r.ip ELSE returnBigPacket(r.ip, r.packet))
             /\ UNCHANGED upstream
    BY <1>2, <2>1 DEF turnFragment
  <2>3. Done(r, upstream.small, upstream.big)
    BY <1>1, <2>1, TakenGood, Processed
  <2>4. CASE r.packet = 0 /\ Good(r.ip, upstream.small, upstream.big, 0)
    <3>1. ip' = purgeOverdue(r.ip) /\ upstream' = upstream
      BY <2>2, <2>4
    <3>2. Good(ip', upstream.small, upstream.big, 0)
      BY <1>1, <2>4, <3>1, PurgedGood
    <3> QED BY <1>1, <3>1, <3>2 DEF IInv, Good, FreeOnce
  <2>5. CASE /\ r.packet \in BigPackets \ upstream.big
             /\ Good(r.ip, upstream.small, upstream.big \cup {r.packet}, 0)
    <3>1. r.packet # 0 /\ r.packet \in BigPackets
      BY <2>5 DEF BigPackets
    <3>2. CASE kept
      <4>1. ip' = purgeOverdue(r.ip) /\ upstream' = [upstream EXCEPT !.big = @ \cup {r.packet}]
        BY <2>2, <3>1, <3>2
      <4>2. upstream'.small = upstream.small /\ upstream'.big = upstream.big \cup {r.packet}
            /\ upstream' \in [big : SUBSET BigPackets, small : Nat]
        BY <1>1, <3>1, <4>1
      <4>3. Good(ip', upstream'.small, upstream'.big, 0)
        BY <1>1, <2>5, <4>1, <4>2, PurgedGood
      <4> QED BY <4>2, <4>3 DEF IInv, Good, FreeOnce
    <3>3. CASE ~kept
      <4>1. ip' = purgeOverdue(returnBigPacket(r.ip, r.packet)) /\ upstream' = upstream
        BY <2>2, <3>1, <3>3
      <4>2. PICK out \in SUBSET BigPackets : /\ out = upstream.big \cup {r.packet}
                                             /\ out \ {r.packet} = upstream.big /\ r.packet \in out
        BY <1>1, <2>5
      <4>3. Good(returnBigPacket(r.ip, r.packet), upstream.small, upstream.big, 0)
        BY <2>5, <4>2, BigPacketReturned
      <4>4. Good(ip', upstream.small, upstream.big, 0)
        BY <1>1, <4>1, <4>3, PurgedGood
      <4> QED BY <1>1, <4>1, <4>4 DEF IInv, Good, FreeOnce
    <3> QED BY <3>2, <3>3
  <2> QED BY <2>3, <2>4, <2>5 DEF Done
<1>3. CASE turnPacket
  <2>1. ip' = purgeOverdue(Taken) /\ upstream' = [upstream EXCEPT !.small = @ + 1]
    BY <1>3 DEF turnPacket
  <2>2. /\ upstream'.small = upstream.small + 1 /\ upstream'.big = upstream.big
        /\ upstream' \in [big : SUBSET BigPackets, small : Nat]
    BY <1>1, <2>1
  <2>3. upstream.small + 1 \in Int
    BY <1>1
  <2>4. Good(ip', upstream'.small, upstream'.big, 0)
    BY <2>1, <2>2, <2>3, TakenGood, PurgedGood
  <2> QED BY <2>2, <2>4 DEF IInv, Good, FreeOnce
<1>4. CASE turn
  <2>1. ip' = purgeOverdue(ip) /\ upstream' = upstream
    BY <1>4 DEF turn
  <2>2. Good(ip', upstream.small, upstream.big, 0)
    BY <1>1, <2>1, PurgedGood
  <2> QED BY <1>1, <2>1, <2>2 DEF IInv, Good, FreeOnce
<1>5. ASSUME NEW b \in BigPackets, doneBig(b) PROVE IInv'
  <2>1. b \in upstream.big /\ ip' = returnBigPacket(ip, b) /\ upstream' = [upstream EXCEPT !.big = @ \ {b}]
    BY <1>5 DEF doneBig
  <2>2. /\ upstream'.small = upstream.small /\ upstream'.big = upstream.big \ {b}
        /\ upstream' \in [big : SUBSET BigPackets, small : Nat]
    BY <1>1, <2>1
  <2>3. Good(ip', upstream'.small, upstream'.big, 0)
    BY <1>1, <2>1, <2>2, BigPacketReturned
  <2> QED BY <2>2, <2>3 DEF IInv, Good, FreeOnce
<1>6. CASE donePacket
  <2>1. /\ upstream.small > 0 /\ ip' = Buffer_free(ip, 1)
        /\ upstream' = [upstream EXCEPT !.small = @ - 1]
    BY <1>6 DEF donePacket
  <2>2. /\ upstream'.small = upstream.small - 1 /\ upstream'.big = upstream.big
        /\ upstream' \in [big : SUBSET BigPackets, small : Nat]
    BY <1>1, <2>1
  <2>3. Good(ip', upstream'.small, upstream'.big, 0)
    BY <1>1, <2>1, <2>2, BufferMoved DEF Buffer_free
  <2> QED BY <2>2, <2>3 DEF IInv, Good, FreeOnce
<1>7. CASE tick
  <2>1. ip \in States /\ ip.fragControl \in [Slots -> Controls] /\ upstream' = upstream
    BY <1>1, <1>7 DEF Good, States, tick
  <2>2. PICK fcs : fcs = [i \in Slots |-> Older(ip.fragControl[i])]
    OBVIOUS
  <2>3. ASSUME NEW fc \in Controls
        PROVE  /\ Older(fc) \in Controls /\ Older(fc).inUse = fc.inUse /\ Older(fc).frags = fc.frags
               /\ Older(fc).lastFragRcvd = fc.lastFragRcvd
    <3>1. PICK a \in Nat : a = fc.age + 1
      BY DEF Controls
    <3>2. Older(fc) = fc \/ Older(fc) = [fc EXCEPT !.age = a]
      BY <3>1 DEF Older
    <3>3. /\ [fc EXCEPT !.age = a] \in Controls /\ [fc EXCEPT !.age = a].inUse = fc.inUse
          /\ [fc EXCEPT !.age = a].frags = fc.frags /\ [fc EXCEPT !.age = a].lastFragRcvd = fc.lastFragRcvd
      BY DEF Controls
    <3> QED BY <3>2, <3>3
  <2>4. ip' = [ip EXCEPT !.fragControl = fcs]
    BY <1>7, <2>2 DEF tick
  <2>5. fcs \in [Slots -> Controls]
    BY <2>1, <2>2, <2>3
  <2>6. /\ ip' \in States /\ ip'.fragControl = fcs /\ ip'.freeBuffers = ip.freeBuffers
        /\ ip'.fragsInReassembly = ip.fragsInReassembly
        /\ ip'.BigPacketFreeList = ip.BigPacketFreeList /\ ip'.data = ip.data
    BY <2>1, <2>4, <2>5 DEF States
  <2>7. ASSUME NEW i \in Slots
        PROVE  /\ ip'.fragControl[i].inUse = ip.fragControl[i].inUse
               /\ ip'.fragControl[i].frags = ip.fragControl[i].frags
               /\ ip'.fragControl[i].lastFragRcvd = ip.fragControl[i].lastFragRcvd
    <3>1. ip'.fragControl[i] = Older(ip.fragControl[i]) /\ ip.fragControl[i] \in Controls
      BY <2>1, <2>2, <2>6
    <3> QED BY <2>3, <3>1
  <2>8. PICK t : t = ip'
    OBVIOUS
  <2>9. Places(t) = Places(ip) /\ InUse(t) = InUse(ip)
    BY <2>7, <2>8 DEF Places, InUse
  <2>10. ASSUME NEW k \in Slots
         PROVE  IF k = 0 THEN Listed(t.fragControl[k]) ELSE Settled(t.fragControl[k])
    <3>1. k # 0
      BY DEF Slots
    <3>2. Settled(ip.fragControl[k])
      BY <1>1, <3>1 DEF Good
    <3>3. Settled(t.fragControl[k])
      <4>1. ASSUME NEW a, NEW b, a.inUse = b.inUse, a.frags = b.frags,
                   a.lastFragRcvd = b.lastFragRcvd, Settled(a)
            PROVE  Settled(b)
        <5>1. CASE a.inUse
          BY <4>1, <5>1 DEF Settled, Listed, Complete
        <5>2. CASE ~a.inUse
          BY <4>1, <5>2 DEF Settled
        <5> QED BY <5>1, <5>2
      <4> QED BY <2>7, <2>8, <3>2, <4>1
    <3> QED BY <3>1, <3>3
  <2>11. ASSUME NEW j \in InUse(t), NEW k \in InUse(t), Key(t.fragControl[j]) = Key(t.fragControl[k])
         PROVE  j = k
    <3>1. j \in InUse(ip) /\ k \in InUse(ip) /\ j \in Slots /\ k \in Slots
      BY <2>9 DEF InUse
    <3>2. Key(ip.fragControl[j]) = Key(ip.fragControl[k])
      BY <2>7, <2>8, <2>11, <3>1 DEF Key
    <3> QED BY <1>1, <3>1, <3>2 DEF Good
  <2>12. Good(t, upstream.small, upstream.big, 0)
    BY <1>1, <2>6, <2>8, <2>9, <2>10, <2>11 DEF Good
  <2> QED BY <1>1, <2>1, <2>8, <2>12 DEF IInv, Good, FreeOnce
<1>8. CASE UNCHANGED vars
  BY <1>1, <1>8 DEF IInv, vars, Good, FreeOnce
<1> QED BY <1>2, <1>3, <1>4, <1>5, <1>6, <1>7, <1>8 DEF Next
-----------------------------------------------------------------------------
(* What the invariant says of the runs' properties. *)

\* A big packet is on the free list as often as FreeOnce says.
LEMMA CountedOnce ==
  ASSUME NEW list \in Seq(BigPackets), NEW out \in SUBSET BigPackets, FreeOnce(list, out), NEW b \in BigPackets
  PROVE  Cardinality({j \in DOMAIN list : list[j] = b}) = IF b \in out THEN 0 ELSE 1
<1>1. CASE b \in out
  <2>1. {j \in DOMAIN list : list[j] = b} = {}
    BY <1>1 DEF FreeOnce
  <2>2. Cardinality({}) = 0
    BY FS_EmptySet
  <2> QED BY <1>1, <2>1, <2>2
<1>2. CASE b \notin out
  <2>1. PICK j \in DOMAIN list : list[j] = b
    BY <1>2 DEF FreeOnce
  <2>2. {k \in DOMAIN list : list[k] = b} = {j}
    BY <2>1 DEF FreeOnce
  <2>3. Cardinality({j}) = 1
    BY FS_Singleton
  <2> QED BY <1>2, <2>2, <2>3
<1> QED BY <1>1, <1>2

\* A list that has every unit of its datagram, and no overlap, passes the test of
\* the code: the end of a fragment is a unit that only the next one can have.
LEMMA WholeIsComplete ==
  ASSUME NEW fc \in Controls, Listed(fc), Covers(fc.frags, SizeOf[Key(fc)]), ~Overlapped(fc.frags)
  PROVE  Complete(fc)
<1>1. PICK frags \in Seq(Fragments) : frags = fc.frags /\ frags # << >>
  BY DEF Controls, Listed
<1>2. PICK n \in Nat : n # 0 /\ n = Len(frags) /\ DOMAIN frags = 1..n
  BY <1>1, EmptySeq
<1>3. PICK size : size = SizeOf[Key(fc)]
  OBVIOUS
<1>4. ASSUME NEW j \in 1..n
      PROVE  /\ frags[j].offset \in Nat /\ frags[j].length \in Nat /\ size \in Nat
             /\ frags[j].length >= 1 /\ frags[j].length < size
             /\ frags[j].offset + frags[j].length <= size
             /\ frags[j].isLast <=> frags[j].offset + frags[j].length = size
  <2>1. frags[j] \in Fragments /\ frags[j].key = frags[1].key
    BY <1>1, <1>2 DEF Listed
  <2>2. size = SizeOf[frags[j].key]
    BY <1>1, <1>3, <2>1 DEF Key
  <2> QED BY <2>1, <2>2, FragmentTyped
<1>5. PICK start, end :
            \A j \in 1..n : /\ start[j] = frags[j].offset /\ end[j] = frags[j].offset + frags[j].length
                            /\ start[j] \in Nat /\ end[j] \in Nat
                            /\ start[j] < end[j] /\ end[j] <= size
  <2> DEFINE st == [j \in 1..n |-> frags[j].offset]
             en == [j \in 1..n |-> frags[j].offset + frags[j].length]
  <2>1. ASSUME NEW j \in 1..n
        PROVE  /\ st[j] = frags[j].offset /\ en[j] = frags[j].offset + frags[j].length
               /\ st[j] \in Nat /\ en[j] \in Nat /\ st[j] < en[j] /\ en[j] <= size
    BY <1>4
  <2> HIDE DEF st, en
  <2> QED BY <2>1
<1>6. ASSUME NEW j \in 1..n, NEW k \in 1..n, j <= k
      PROVE  start[j] <= start[k] /\ (j # k => start[j] < start[k])
  <2>1. j < k => frags[j].offset < frags[k].offset
    BY <1>1, <1>2 DEF Listed
  <2> QED BY <1>5, <1>6, <2>1
<1>7. ASSUME NEW u \in 0..(size - 1)
      PROVE  \E j \in 1..n : start[j] <= u /\ u < end[j]
  <2>1. PICK j \in 1..n : frags[j].offset <= u /\ u < frags[j].offset + frags[j].length
    BY <1>1, <1>2, <1>3 DEF Covers
  <2> QED BY <1>5, <2>1
<1>8. ASSUME NEW j \in 1..n, j > 1
      PROVE  j - 1 \in 1..n /\ end[j-1] <= start[j]
  <2>1. j - 1 \in 1..n
    BY <1>8
  <2>2. ~(frags[j].offset < frags[j-1].offset + frags[j-1].length)
    BY <1>1, <1>2, <1>8 DEF Overlapped
  <2>3. ~(start[j] < end[j-1])
    BY <1>5, <2>1, <2>2
  <2>4. start[j] \in Nat /\ end[j-1] \in Nat
    BY <1>5, <2>1
  <2> QED BY <2>1, <2>3, <2>4
<1>9. size \in Nat /\ size > 0 /\ 1 \in 1..n
  BY <1>2, <1>4
<1>10. start[1] = 0
  <2>1. PICK j \in 1..n : start[j] <= 0
    BY <1>7, <1>9
  <2>2. start[1] <= start[j] /\ start[1] \in Nat /\ start[j] \in Nat
    BY <1>5, <1>6, <1>9
  <2> QED BY <2>1, <2>2
<1>11. ASSUME NEW j \in 1..n, j > 1
       PROVE  start[j] = end[j-1]
  <2>1. j - 1 \in 1..n /\ end[j-1] <= start[j]
    BY <1>8, <1>11
  <2>2. /\ start[j] \in Nat /\ end[j-1] \in Nat /\ start[j-1] \in Nat
        /\ start[j-1] < end[j-1] /\ end[j-1] < size
    <3>1. start[j] < size
      BY <1>5, <1>9
    <3> QED BY <1>5, <1>9, <2>1, <3>1
  <2>3. end[j-1] \in 0..(size - 1)
    BY <1>9, <2>2
  <2>4. PICK k \in 1..n : start[k] <= end[j-1] /\ end[j-1] < end[k]
    BY <1>7, <2>3
  <2>5. start[k] \in Nat /\ end[k] \in Nat
    BY <1>5
  <2>6. CASE k >= j
    <3>1. start[j] <= start[k]
      BY <1>6, <2>6
    <3> QED BY <2>1, <2>2, <2>4, <2>5, <3>1
  <2>7. CASE k = j - 1
    BY <2>2, <2>4, <2>7
  <2>8. CASE k < j - 1
    <3>1. PICK next \in 1..n : next - 1 = k /\ next > 1 /\ next <= j - 1
      BY <2>1, <2>8
    <3>2. end[k] <= start[next]
      BY <1>8, <3>1
    <3>3. start[next] <= start[j-1] /\ start[next] \in Nat
      BY <1>5, <1>6, <2>1, <3>1
    <3> QED BY <2>2, <2>4, <2>5, <3>2, <3>3
  <2> QED BY <2>6, <2>7, <2>8
<1>12. fc.lastFragRcvd
  <2>1. PICK j \in 1..n : size - 1 < end[j]
    BY <1>7, <1>9
  <2>2. end[j] \in Nat /\ end[j] <= size /\ end[j] = frags[j].offset + frags[j].length
    BY <1>5
  <2>3. end[j] = size
    BY <1>9, <2>1, <2>2
  <2>4. frags[j].isLast
    BY <1>4, <2>2, <2>3
  <2> QED BY <1>1, <1>2, <2>4 DEF Listed
<1>13. ASSUME NEW j \in DOMAIN frags
       PROVE  frags[j].offset = IF j = 1 THEN 0 ELSE frags[j-1].offset + frags[j-1].length
  <2>1. CASE j = 1
    BY <1>2, <1>5, <1>10, <2>1
  <2>2. CASE j # 1
    <3>1. j \in 1..n /\ j > 1
      BY <1>2, <2>2
    <3>2. start[j] = end[j-1] /\ j - 1 \in 1..n
      BY <1>8, <1>11, <3>1
    <3> QED BY <1>5, <2>2, <3>1, <3>2
  <2> QED BY <2>1, <2>2
<1> QED BY <1>1, <1>12, <1>13 DEF Complete

\* No path through processFragment, purgeOverdue or the freeing of a packet loses a
\* packet buffer or frees one twice, whatever the fragments and however many
\* buffers: those that are free, upstream or in a control's list are all of them,
\* and a big packet is with its reader or on the free list, once (IP.CPP).
THEOREM ReassemblyConservesBuffers == Spec => []BuffersConserved
<1>1. IInv => BuffersConserved
  <2> SUFFICES ASSUME IInv PROVE BuffersConserved
    OBVIOUS
  <2>1. /\ ip.freeBuffers + upstream.small + Cardinality(Places(ip)) = PACKET_BUFFERS
        /\ ip.BigPacketFreeList \in Seq(BigPackets) /\ FreeOnce(ip.BigPacketFreeList, upstream.big)
        /\ upstream.big \in SUBSET BigPackets
    BY DEF IInv, Good, States
  <2> QED BY <2>1, CountedOnce DEF BuffersConserved
<1> QED BY <1>1, InitIInv, StepIInv, PTL DEF Spec

\* fragsInReassembly, by which the loops decide whether to look for overdue
\* datagrams, always is the number of controls in use; a datagram never gets two
\* controls, and a list between two packets is ordered and has a place left.
THEOREM TablesStaySound == Spec => []TablesSound
<1>1. IInv => TablesSound
  <2> SUFFICES ASSUME IInv PROVE TablesSound
    OBVIOUS
  <2>1. /\ ip \in States /\ ip.fragsInReassembly = Cardinality(InUse(ip))
        /\ \A j, k \in InUse(ip) : Key(ip.fragControl[j]) = Key(ip.fragControl[k]) => j = k
    BY DEF IInv, Good
  <2>2. ASSUME NEW i \in InUse(ip), NEW frags, frags = ip.fragControl[i].frags
        PROVE  /\ Len(frags) \in 1..(IP_MAX_FRAGS_PER_PACKET - 1)
               /\ \A j, k \in DOMAIN frags : j < k => frags[j].offset < frags[k].offset
    <3>1. i \in Slots /\ i # 0 /\ ip.fragControl[i].inUse
      BY DEF InUse, Slots
    <3>2. Settled(ip.fragControl[i]) /\ ip.fragControl[i] \in Controls
      BY <2>1, <3>1 DEF IInv, Good, States
    <3>3. /\ frags \in Seq(Fragments) /\ frags # << >> /\ Len(frags) < IP_MAX_FRAGS_PER_PACKET
          /\ \A j, k \in DOMAIN frags : j < k => frags[j].offset < frags[k].offset
      BY <2>2, <3>1, <3>2 DEF Settled, Listed, Controls
    <3>4. Len(frags) \in Nat /\ Len(frags) # 0
      BY <3>3, EmptySeq
    <3> QED BY <3>3, <3>4, SizesAssumption
  <2> QED BY <2>1, <2>2 DEF TablesSound
<1> QED BY <1>1, InitIInv, StepIInv, PTL DEF Spec

\* What a reader of a big packet sees is a datagram as its sender sent it, for every
\* order, cut, repetition and overlap of the fragments, and it does not change
\* while it is read (makeBigPacket, returnBigPacket).
THEOREM ReadersGetWhatWasSent == Spec => []ReassembledIsSent
<1>1. IInv => ReassembledIsSent
  BY DEF IInv, Good, ReassembledIsSent
<1> QED BY <1>1, InitIInv, StepIInv, PTL DEF Spec

\* A datagram of which every unit has come is passed on in the turn of its last
\* fragment, or given up, unless a fragment overlaps the one before it: then, and
\* only then, it waits in the table for its time-out (checkComplete's test, and the
\* overlap that IP.CPP:908 does not look for).
THEOREM WholeDatagramsLeave == Spec => []OnlyOverlappedWaits
<1>1. IInv => OnlyOverlappedWaits
  <2> SUFFICES ASSUME IInv, NEW i \in InUse(ip),
                      Covers(ip.fragControl[i].frags, SizeOf[Key(ip.fragControl[i])]),
                      ~Overlapped(ip.fragControl[i].frags)
               PROVE  FALSE
    BY DEF OnlyOverlappedWaits, Key
  <2>1. i \in Slots /\ i # 0 /\ ip.fragControl[i].inUse
    BY DEF InUse, Slots
  <2>2. Settled(ip.fragControl[i]) /\ ip.fragControl[i] \in Controls
    BY <2>1 DEF IInv, Good, States
  <2>3. Listed(ip.fragControl[i]) /\ ~Complete(ip.fragControl[i])
    BY <2>1, <2>2 DEF Settled
  <2> QED BY <2>2, <2>3, WholeIsComplete
<1> QED BY <1>1, InitIInv, StepIInv, PTL DEF Spec
=============================================================================
