------------------------ MODULE PacketBuffersProofs -------------------------
(***************************************************************************)
(* The receive buffers of PACKET.CPP are handled correctly for every       *)
(* number of buffers and packets: no buffer is lost or in two places,      *)
(* packets are handed over in order and intact, and once the stack is      *)
(* being shut down the driver gets no buffer, unless it refuses to be      *)
(* released; then only those that are freed from there on.                 *)
(***************************************************************************)
EXTENDS PacketBuffers, FiniteSetTheorems, TLAPS

Slots == 0..PACKET_RB_SIZE-1

\* A complete packet takes the slot at next, which was free, and no other.
LEMMA RingPush ==
    ASSUME TypeOK, RingCount < PACKET_BUFFERS, first' = first, next' = Wrap(next + 1)
    PROVE  /\ RingCount' = RingCount + 1
           /\ ~Live(next) /\ Age(next) = RingCount
           /\ \A i \in Slots : Age(i)' = Age(i) /\ (Live(i)' <=> Live(i) \/ i = next)
<1>. USE BuffersAssumption DEF Slots, Age, PACKET_RB_SIZE
<1>t. first \in Slots /\ next \in Slots
  BY DEF TypeOK
<1>1. RingCount' = RingCount + 1
  BY <1>t DEF RingCount, Wrap
<1>2. ~Live(next) /\ Age(next) = RingCount
  BY <1>t DEF Live, RingCount
<1>3. ASSUME NEW i \in Slots
      PROVE  Age(i)' = Age(i) /\ (Live(i)' <=> Live(i) \/ i = next)
  BY <1>t, <1>1 DEF Live, RingCount
<1>. QED
  BY <1>1, <1>2, <1>3

\* Taking the oldest packet frees its slot, and every other one moves up by one.
LEMMA RingPop ==
    ASSUME TypeOK, first # next, first' = Wrap(first + 1), next' = next
    PROVE  /\ RingCount' = RingCount - 1
           /\ Live(first) /\ Age(first) = 0
           /\ \A i \in Slots : /\ Live(i)' <=> Live(i) /\ i # first
                               /\ Live(i)' => Age(i)' = Age(i) - 1
<1>. USE BuffersAssumption DEF Slots, Age, PACKET_RB_SIZE
<1>t. first \in Slots /\ next \in Slots
  BY DEF TypeOK
<1>1. RingCount' = RingCount - 1
  BY <1>t DEF RingCount, Wrap
<1>2. Live(first) /\ Age(first) = 0
  BY <1>t DEF Live, RingCount
<1>3. ASSUME NEW i \in Slots
      PROVE  /\ Live(i)' <=> Live(i) /\ i # first
             /\ Live(i)' => Age(i)' = Age(i) - 1
  BY <1>t, <1>1 DEF Live, RingCount, Wrap
<1>. QED
  BY <1>1, <1>2, <1>3

\* Steps that leave the indexes alone leave the ring alone.
LEMMA RingSame ==
    ASSUME first' = first, next' = next
    PROVE  /\ RingCount' = RingCount
           /\ \A i \in Slots : Age(i)' = Age(i) /\ Live(i)' = Live(i)
BY DEF RingCount, Age, Live

\* The held buffers can be counted.
LEMMA HeldCount ==
    ASSUME TypeOK
    PROVE  /\ Cardinality(held) \in Nat
           /\ \A b : b \notin held => Cardinality(held \cup {b}) = Cardinality(held) + 1
           /\ \A b \in held : Cardinality(held \ {b}) = Cardinality(held) - 1
<1>1. IsFiniteSet(Buffers)
  BY BuffersAssumption, FS_Interval DEF Buffers
<1>2. IsFiniteSet(held)
  BY <1>1, FS_Subset DEF TypeOK
<1>. QED
  BY <1>2, FS_CardinalityType, FS_AddElement, FS_RemoveElement

LEMMA CountType == TypeOK => RingCount \in 0..PACKET_BUFFERS
BY BuffersAssumption DEF TypeOK, RingCount, Age, PACKET_RB_SIZE

\* Buffer_init leaves no buffer anywhere.
LEMMA InitInv == Init => Inv
<1>. SUFFICES ASSUME Init PROVE Inv
  OBVIOUS
<1>. USE BuffersAssumption DEF Init
<1>0. RingCount = 0 /\ \A i \in 0..PACKET_RB_SIZE-1 : ~Live(i)
  BY DEF RingCount, Age, Live, PACKET_RB_SIZE
<1>1. TypeOK
  <2>1. fs \in [0..PACKET_BUFFERS-1 -> Buffers]
    BY DEF Buffers
  <2>2. mem \in [Buffers -> Nat] /\ seen \in [Buffers -> Nat]
    BY DEF Garbage
  <2>3. ring \in [0..PACKET_RB_SIZE-1 -> Buffers \cup {NULL}]
    OBVIOUS
  <2>4. /\ first \in 0..PACKET_RB_SIZE-1 /\ next \in 0..PACKET_RB_SIZE-1
        /\ fsIndex \in 0..PACKET_BUFFERS /\ lowFree \in 0..PACKET_BUFFERS
    BY DEF PACKET_RB_SIZE
  <2>. QED
    BY <1>0, <2>1, <2>2, <2>3, <2>4 DEF TypeOK
<1>2. OneOwner
  BY <1>0 DEF OneOwner
<1>3. NoneLost
  BY <1>0, FS_EmptySet DEF NoneLost, InFlight
<1>. QED
  BY <1>0, <1>1, <1>2, <1>3 DEF Inv, InOrder, HeldIntact, Quiescent

\* The driver is given a buffer from the top of the free stack.
LEMMA GiveInv == ASSUME Inv, receiverGive(FALSE) PROVE Inv'
<1>. USE BuffersAssumption
<1>. DEFINE b == fs[fsIndex - 1]
<1>0. TypeOK /\ OneOwner /\ NoneLost /\ InOrder /\ HeldIntact /\ Quiescent
  BY DEF Inv
<1>1. /\ fsIndex \in 1..PACKET_BUFFERS /\ fsIndex' = fsIndex - 1 /\ ~inCopy
      /\ b \in Buffers /\ copying' = b /\ inCopy' = TRUE
      /\ mem' = [mem EXCEPT ![b] = Garbage]
      /\ UNCHANGED <<stage, fs, ring, first, next, received, dropped, lowFree, held, seen, processed, returned>>
  BY <1>0 DEF receiverGive, ringVars, appVars, TypeOK
<1>r. /\ RingCount' = RingCount
      /\ \A i \in Slots : Age(i)' = Age(i) /\ Live(i)' = Live(i)
  BY <1>1, RingSame
<1>2. b \notin held
  BY <1>0, <1>1 DEF OneOwner
<1>3. \A j \in 0..PACKET_RB_SIZE-1 : Live(j) => ring[j] # b
  BY <1>0, <1>1 DEF OneOwner
<1>4. TypeOK'
  <2>1. mem' \in [Buffers -> Nat] /\ fsIndex' \in 0..PACKET_BUFFERS
    <3> HIDE DEF b
    <3>1. mem \in [Buffers -> Nat] /\ Garbage \in Nat
      BY <1>0 DEF TypeOK, Garbage
    <3> QED BY <1>1, <3>1
  <2>2. inCopy' \in BOOLEAN /\ copying' \in IF inCopy' THEN Buffers ELSE Buffers \cup {NULL}
    <3> HIDE DEF b
    <3> QED BY <1>1
  <2>3. \A i \in 0..PACKET_RB_SIZE-1 : Live(i)' => ring'[i] # NULL
    BY <1>0, <1>1, <1>r DEF TypeOK, Slots
  <2> QED BY <1>0, <1>1, <2>1, <2>2, <2>3 DEF TypeOK
<1>5. OneOwner'
  <2>1. fsIndex \in Nat /\ \A i \in 0..PACKET_BUFFERS-1 : i < fsIndex' => i < fsIndex /\ i # fsIndex - 1
    BY <1>1
  <2>2. \A i \in 0..PACKET_BUFFERS-1 : i < fsIndex' => fs[i] # b
    <3>1. fsIndex - 1 \in 0..PACKET_BUFFERS-1 /\ fsIndex - 1 < fsIndex
      BY <1>1
    <3> QED BY <1>0, <2>1, <3>1 DEF OneOwner
  <2>3. \A i, j \in 0..PACKET_BUFFERS-1 : i < fsIndex' /\ j < fsIndex' /\ fs[i] = fs[j] => i = j
    BY <1>0, <2>1 DEF OneOwner
  <2>4. \A i \in 0..PACKET_BUFFERS-1 : i < fsIndex' => fs[i] \notin held
    BY <1>0, <2>1 DEF OneOwner
  <2>5. \A i \in 0..PACKET_BUFFERS-1, j \in Slots : i < fsIndex' /\ Live(j) => fs[i] # ring[j]
    BY <1>0, <2>1 DEF OneOwner, Slots
  <2>6. /\ \A i, j \in Slots : Live(i) /\ Live(j) /\ ring[i] = ring[j] => i = j
        /\ \A j \in Slots : Live(j) => ring[j] \notin held
    BY <1>0 DEF OneOwner, Slots
  <2>. HIDE DEF b
  <2>7. fs' = fs /\ ring' = ring /\ held' = held /\ copying' = b
    BY <1>1
  <2>. QED
    BY <1>2, <1>3, <1>r, <2>2, <2>3, <2>4, <2>5, <2>6, <2>7 DEF OneOwner, Slots
<1>6. NoneLost'
  BY <1>0, <1>1, <1>r, HeldCount, CountType DEF NoneLost, InFlight
<1>7. InOrder'
  <2>. SUFFICES ASSUME NEW i \in Slots, Live(i)
                PROVE  mem'[ring[i]] = processed + Age(i) + 1
    BY <1>0, <1>1, <1>r DEF InOrder, Slots
  <2>1. ring[i] \in Buffers /\ ring[i] # b
    BY <1>0, <1>3 DEF TypeOK, Slots
  <2>2. mem'[ring[i]] = mem[ring[i]]
    BY <1>0, <1>1, <2>1 DEF TypeOK
  <2>. QED
    BY <1>0, <2>2 DEF InOrder, Slots
<1>8. HeldIntact'
  BY <1>0, <1>1, <1>2 DEF HeldIntact, TypeOK
<1>9. Quiescent'
  BY <1>0, <1>1 DEF Quiescent
<1>. QED
  BY <1>4, <1>5, <1>6, <1>7, <1>8, <1>9 DEF Inv

\* The driver's second call puts the buffer at the end of the ring.
LEMMA DoneInv == ASSUME Inv, receiverDone PROVE Inv'
<1>. USE BuffersAssumption
<1>0. TypeOK /\ OneOwner /\ NoneLost /\ InOrder /\ HeldIntact /\ Quiescent
  BY DEF Inv
<1>1. /\ inCopy /\ copying \in Buffers /\ received' = received + 1 /\ inCopy' = FALSE
      /\ mem' = [mem EXCEPT ![copying] = received + 1]
      /\ ring' = [ring EXCEPT ![next] = copying]
      /\ next' = Wrap(next + 1)
      /\ lowFree' = (IF lowFree > fsIndex THEN fsIndex ELSE lowFree)
      /\ UNCHANGED <<stage, fs, fsIndex, first, copying, dropped, held, seen, processed, returned>>
  BY <1>0 DEF receiverDone, stkVars, appVars, TypeOK
<1>n. /\ RingCount \in Nat /\ Cardinality(held) \in Nat
      /\ fsIndex \in Nat /\ received \in Nat /\ processed \in Nat
  BY <1>0, HeldCount, CountType DEF TypeOK
<1>i. InFlight = 1 /\ InFlight' = 0
  BY <1>1 DEF InFlight
<1>c. RingCount < PACKET_BUFFERS
  BY <1>0, <1>n, <1>i DEF NoneLost
<1>r. /\ RingCount' = RingCount + 1
      /\ ~Live(next) /\ Age(next) = RingCount
      /\ \A i \in Slots : Age(i)' = Age(i) /\ (Live(i)' <=> Live(i) \/ i = next)
  BY <1>0, <1>1, <1>c, RingPush
<1>2. next \in Slots /\ next' \in Slots
  BY <1>0, <1>1 DEF TypeOK, Slots, Wrap, PACKET_RB_SIZE
<1>3. \A i \in Slots : ring'[i] = IF i = next THEN copying ELSE ring[i]
  BY <1>0, <1>1 DEF TypeOK, Slots
<1>4. TypeOK'
  <2>0. copying # NULL
    BY <1>1 DEF Buffers, NULL
  <2>1. \A i \in Slots : Live(i)' => ring'[i] # NULL
    BY <1>0, <1>3, <1>r, <2>0 DEF TypeOK, Slots
  <2>2. ring' \in [Slots -> Buffers \cup {NULL}]
    BY <1>0, <1>1 DEF TypeOK, Slots
  <2>3. mem' \in [Buffers -> Nat]
    BY <1>0, <1>1 DEF TypeOK
  <2>4. lowFree' \in 0..PACKET_BUFFERS
    BY <1>0, <1>1 DEF TypeOK
  <2>. QED
    BY <1>0, <1>1, <1>2, <2>1, <2>2, <2>3, <2>4 DEF TypeOK, Slots
<1>5. OneOwner'
  <2>1. \A i, j \in Slots : Live(i)' /\ Live(j)' /\ ring'[i] = ring'[j] => i = j
    BY <1>0, <1>1, <1>3, <1>r DEF OneOwner, Slots
  <2>2. \A j \in Slots : Live(j)' => ring'[j] \notin held
    BY <1>0, <1>1, <1>3, <1>r DEF OneOwner, Slots
  <2>3. \A i \in 0..PACKET_BUFFERS-1, j \in Slots :
           i < fsIndex /\ Live(j)' => fs[i] # ring'[j]
    BY <1>0, <1>1, <1>3, <1>r DEF OneOwner, Slots
  <2>. QED
    BY <1>0, <1>1, <2>1, <2>2, <2>3 DEF OneOwner, Slots
<1>6. NoneLost'
  BY <1>0, <1>1, <1>r, <1>n, <1>i DEF NoneLost
<1>7. InOrder'
  <2>1. received' = processed' + RingCount'
    BY <1>0, <1>1, <1>r, <1>n DEF InOrder
  <2>2. ASSUME NEW i \in Slots, Live(i)'
        PROVE  mem'[ring'[i]] = processed + Age(i) + 1
    <3>1. CASE i = next
      BY <3>1, <1>0, <1>1, <1>3, <1>r DEF InOrder, TypeOK
    <3>2. CASE i # next
      <4>1. Live(i) /\ ring'[i] = ring[i]
        BY <2>2, <3>2, <1>3, <1>r
      <4>2. ring[i] # copying /\ ring[i] \in Buffers
        BY <4>1, <1>0, <1>1 DEF OneOwner, TypeOK, Slots
      <4>3. mem'[ring[i]] = mem[ring[i]]
        BY <4>2, <1>0, <1>1 DEF TypeOK
      <4>. QED
        BY <4>1, <4>3, <1>0 DEF InOrder, Slots
    <3>. QED
      BY <3>1, <3>2
  <2>3. ASSUME NEW i \in Slots, Live(i)'
        PROVE  mem'[ring'[i]] = processed' + Age(i)' + 1
    BY <2>2, <2>3, <1>1, <1>r
  <2>. QED
    BY <2>1, <2>3 DEF InOrder, Slots
<1>8. HeldIntact'
  BY <1>0, <1>1 DEF HeldIntact, OneOwner, TypeOK
<1>9. Quiescent'
  BY <1>0, <1>1 DEF Quiescent
<1>. QED
  BY <1>4, <1>5, <1>6, <1>7, <1>8, <1>9 DEF Inv

\* A packet leaves the ring for a protocol handler.
LEMMA ProcessInv == ASSUME Inv, Packet_process_internal PROVE Inv'
<1>. USE BuffersAssumption
<1>. DEFINE b == ring[first]
<1>0. TypeOK /\ OneOwner /\ NoneLost /\ InOrder /\ HeldIntact /\ Quiescent
  BY DEF Inv
<1>1. /\ first # next /\ held' = held \cup {b}
      /\ seen' = [seen EXCEPT ![b] = mem[b]]
      /\ processed' = processed + 1 /\ first' = Wrap(first + 1)
      /\ UNCHANGED <<stage, fs, fsIndex, ring, next, copying, inCopy, received, dropped, lowFree, mem, returned>>
  BY DEF Packet_process_internal, stkVars, drvVars
<1>r. /\ RingCount' = RingCount - 1
      /\ Live(first) /\ Age(first) = 0
      /\ \A i \in Slots : /\ Live(i)' <=> Live(i) /\ i # first
                          /\ Live(i)' => Age(i)' = Age(i) - 1
  BY <1>0, <1>1, RingPop
<1>2. first \in Slots /\ first' \in Slots /\ b \in Buffers
  BY <1>0, <1>1, <1>r DEF TypeOK, Slots, Wrap, PACKET_RB_SIZE
<1>n. /\ RingCount \in Nat /\ Cardinality(held) \in Nat
      /\ fsIndex \in Nat /\ received \in Nat /\ processed \in Nat
  BY <1>0, HeldCount, CountType DEF TypeOK
<1>3. b \notin held
  BY <1>0, <1>r, <1>2 DEF OneOwner, Slots
<1>c. Cardinality(held') = Cardinality(held) + 1
  BY <1>0, <1>1, <1>3, HeldCount
<1>i. InFlight' = InFlight /\ InFlight \in Nat
  BY <1>1 DEF InFlight
<1>4. TypeOK'
  <2>1. seen' \in [Buffers -> Nat]
    BY <1>0, <1>1, <1>2 DEF TypeOK
  <2>2. \A i \in Slots : Live(i)' => ring'[i] # NULL
    BY <1>0, <1>1, <1>r DEF TypeOK, Slots
  <2>. QED
    BY <1>0, <1>1, <1>2, <2>1, <2>2 DEF TypeOK, Slots
<1>5. OneOwner'
  <2>1. \A i \in 0..PACKET_BUFFERS-1 : i < fsIndex => fs[i] \notin held'
    BY <1>0, <1>1, <1>r, <1>2 DEF OneOwner, Slots
  <2>2. \A j \in Slots : Live(j)' => ring[j] \notin held'
    BY <1>0, <1>1, <1>r, <1>2 DEF OneOwner, Slots
  <2>3. inCopy => copying \notin held'
    BY <1>0, <1>1, <1>r, <1>2 DEF OneOwner, Slots
  <2>4. \A i, j \in Slots : Live(i)' /\ Live(j)' /\ ring[i] = ring[j] => i = j
    BY <1>0, <1>r DEF OneOwner, Slots
  <2>5. \A i \in 0..PACKET_BUFFERS-1, j \in Slots :
           i < fsIndex /\ Live(j)' => fs[i] # ring[j]
    BY <1>0, <1>r DEF OneOwner, Slots
  <2>6. inCopy => \A j \in Slots : Live(j)' => ring[j] # copying
    BY <1>0, <1>r DEF OneOwner, Slots
  <2>. QED
    BY <1>0, <1>1, <2>1, <2>2, <2>3, <2>4, <2>5, <2>6 DEF OneOwner, Slots
<1>6. NoneLost'
  BY <1>0, <1>1, <1>r, <1>n, <1>c, <1>i DEF NoneLost
<1>7. InOrder'
  <2>1. received' = processed' + RingCount'
    BY <1>0, <1>1, <1>r, <1>n DEF InOrder
  <2>2. ASSUME NEW i \in Slots, Live(i)'
        PROVE  mem'[ring'[i]] = processed' + Age(i)' + 1
    <3>1. Live(i) /\ Age(i)' = Age(i) - 1 /\ Age(i) \in Int
      <4>1. Live(i) /\ Age(i)' = Age(i) - 1
        BY <2>2, <1>r
      <4>2. Age(i) \in Int
        BY <1>2 DEF Age, Slots, PACKET_RB_SIZE
      <4>. QED
        BY <4>1, <4>2
    <3>2. mem[ring[i]] = processed + Age(i) + 1
      BY <3>1, <1>0 DEF InOrder, Slots
    <3>. QED
      BY <3>1, <3>2, <1>1, <1>n
  <2>. QED
    BY <2>1, <2>2 DEF InOrder, Slots
<1>8. HeldIntact'
  BY <1>0, <1>1, <1>2 DEF HeldIntact, TypeOK
<1>9. Quiescent'
  BY <1>0, <1>1 DEF Quiescent
<1>. QED
  BY <1>4, <1>5, <1>6, <1>7, <1>8, <1>9 DEF Inv

\* A held buffer returns to the top of the free stack.
LEMMA FreeInv == ASSUME Inv, NEW b \in Buffers, Buffer_free(b) PROVE Inv'
<1>. USE BuffersAssumption
<1>0. TypeOK /\ OneOwner /\ NoneLost /\ InOrder /\ HeldIntact /\ Quiescent
  BY DEF Inv
<1>1. /\ b \in held /\ held' = held \ {b}
      /\ fs' = [fs EXCEPT ![fsIndex] = b] /\ fsIndex' = fsIndex + 1
      /\ returned' = IF stage = "receiving" THEN {} ELSE returned \cup {b}
      /\ UNCHANGED <<stage, ring, first, next, copying, inCopy, received, dropped, lowFree, mem, seen, processed>>
  BY DEF Buffer_free, ringVars, drvVars
<1>r. /\ RingCount' = RingCount
      /\ \A i \in Slots : Age(i)' = Age(i) /\ Live(i)' = Live(i)
  BY <1>1, RingSame
<1>n. /\ RingCount \in Nat /\ Cardinality(held) \in Nat /\ fsIndex \in Nat
      /\ InFlight \in Nat /\ InFlight' = InFlight
  <2>1. Cardinality(held) \in Nat /\ RingCount \in Nat
    BY <1>0, HeldCount, CountType
  <2>2. fsIndex \in Nat
    BY <1>0 DEF TypeOK
  <2>3. inCopy' = inCopy
    BY <1>1
  <2> QED BY <2>1, <2>2, <2>3 DEF InFlight
<1>c. Cardinality(held') = Cardinality(held) - 1 /\ Cardinality(held') \in Nat
  <2>1. IsFiniteSet(held')
    <3>1. IsFiniteSet(Buffers)
      BY FS_Interval DEF Buffers
    <3>2. held' \subseteq Buffers
      BY <1>0, <1>1 DEF TypeOK
    <3>. QED
      BY <3>1, <3>2, FS_Subset
  <2>. QED
    BY <1>0, <1>1, <2>1, HeldCount, FS_CardinalityType
<1>2. fsIndex < PACKET_BUFFERS
  BY <1>0, <1>n, <1>c DEF NoneLost
<1>3. \A i \in 0..PACKET_BUFFERS-1 : fs'[i] = IF i = fsIndex THEN b ELSE fs[i]
  BY <1>0, <1>1 DEF TypeOK
<1>4. TypeOK'
  <2>1. fs' \in [0..PACKET_BUFFERS-1 -> Buffers] /\ fsIndex' \in 0..PACKET_BUFFERS
    BY <1>0, <1>1, <1>2, <1>n DEF TypeOK
  <2>2. returned' \in SUBSET Buffers
    BY <1>0, <1>1 DEF TypeOK
  <2>. QED
    BY <1>0, <1>1, <1>r, <2>1, <2>2 DEF TypeOK, Slots
<1>5. OneOwner'
  <2>1. \A i \in 0..PACKET_BUFFERS-1 :
           i < fsIndex' => (i = fsIndex /\ fs'[i] = b) \/ (i < fsIndex /\ fs'[i] = fs[i])
    BY <1>1, <1>3, <1>n
  <2>2. \A i, j \in 0..PACKET_BUFFERS-1 :
           i < fsIndex' /\ j < fsIndex' /\ fs'[i] = fs'[j] => i = j
    BY <1>0, <1>1, <2>1 DEF OneOwner
  <2>3. \A i \in 0..PACKET_BUFFERS-1 : i < fsIndex' => fs'[i] \notin held'
    BY <1>0, <1>1, <2>1 DEF OneOwner
  <2>4. \A i \in 0..PACKET_BUFFERS-1, j \in Slots :
           i < fsIndex' /\ Live(j) => fs'[i] # ring[j]
    BY <1>0, <1>1, <2>1 DEF OneOwner, Slots
  <2>5. inCopy => \A i \in 0..PACKET_BUFFERS-1 : i < fsIndex' => fs'[i] # copying
    BY <1>0, <1>1, <2>1 DEF OneOwner
  <2>. QED
    BY <1>0, <1>1, <1>r, <2>2, <2>3, <2>4, <2>5 DEF OneOwner, Slots
<1>6. NoneLost'
  BY <1>0, <1>1, <1>r, <1>n, <1>c DEF NoneLost
<1>7. InOrder' /\ HeldIntact'
  BY <1>0, <1>1, <1>r DEF InOrder, HeldIntact, Slots
<1>8. Quiescent'
  <2>1. stage \notin {"buffers", "hooked", "stopped"}
    BY DEF Buffer_free
  <2>2. ASSUME stage = "refused", NEW i \in 0..PACKET_BUFFERS-1, i < fsIndex'
        PROVE  fs'[i] \in returned'
    <3>1. returned' = returned \cup {b}
      BY <1>1, <2>2
    <3>2. CASE i = fsIndex
      BY <1>3, <3>1, <3>2
    <3>3. CASE i # fsIndex
      <4>1. i < fsIndex /\ fs'[i] = fs[i]
        BY <1>1, <1>3, <1>n, <2>2, <3>3
      <4>. QED
        BY <1>0, <2>2, <3>1, <4>1 DEF Quiescent
    <3>. QED
      BY <3>2, <3>3
  <2>. QED
    BY <1>1, <2>1, <2>2 DEF Quiescent
<1>. QED
  BY <1>4, <1>5, <1>6, <1>7, <1>8 DEF Inv

\* Buffer_startReceiving puts all buffers, none of which was in use, on the stack.
LEMMA StartInv == ASSUME Inv, Buffer_startReceiving PROVE Inv'
<1>. USE BuffersAssumption
<1>0. TypeOK /\ OneOwner /\ NoneLost /\ InOrder /\ HeldIntact /\ Quiescent
  BY DEF Inv
<1>1. /\ stage = "hooked" /\ stage' = "receiving" /\ fsIndex' = PACKET_BUFFERS
      /\ UNCHANGED <<fs, ring, first, next, copying, inCopy, received, dropped, lowFree, mem, held, seen, processed, returned>>
  BY DEF Buffer_startReceiving, ringVars, drvVars, appVars
<1>2. /\ first = next /\ ~inCopy /\ held = {}
      /\ fs = [i \in 0..PACKET_BUFFERS-1 |-> i + 1]
  BY <1>0, <1>1 DEF Quiescent
<1>r. /\ RingCount' = RingCount
      /\ \A i \in Slots : Age(i)' = Age(i) /\ Live(i)' = Live(i)
  BY <1>1, RingSame
<1>3. RingCount = 0 /\ \A i \in Slots : ~Live(i)
  BY <1>0, <1>2 DEF RingCount, Age, Live, TypeOK, Slots, PACKET_RB_SIZE
<1>4. TypeOK'
  BY <1>0, <1>1, <1>r DEF TypeOK, Slots
<1>5. OneOwner'
  BY <1>1, <1>2, <1>3, <1>r DEF OneOwner, Slots
<1>6. NoneLost'
  BY <1>1, <1>2, <1>3, <1>r, FS_EmptySet DEF NoneLost, InFlight
<1>7. InOrder' /\ HeldIntact'
  BY <1>0, <1>1, <1>r DEF InOrder, HeldIntact, Slots
<1>8. Quiescent'
  BY <1>1 DEF Quiescent
<1>. QED
  BY <1>4, <1>5, <1>6, <1>7, <1>8 DEF Inv

\* The steps that move no buffer: a dropped packet, Packet_init, and the two
\* halves of the shutdown, which only forget buffers.
LEMMA OtherInv ==
    ASSUME Inv, \/ \E t \in TooLong : receiverDrop(t)
                \/ Packet_init \/ Buffer_stopReceiving \/ Packet_release_type
    PROVE  Inv'
<1>. USE BuffersAssumption
<1>0. TypeOK /\ OneOwner /\ NoneLost /\ InOrder /\ HeldIntact /\ Quiescent
  BY DEF Inv
<1>1. /\ UNCHANGED <<fs, ring, first, next, copying, received, lowFree, mem, held, seen, processed, returned>>
      /\ dropped' \in Nat
      /\ fsIndex' = fsIndex \/ (fsIndex' = 0 /\ stage' = "stopped")
      /\ inCopy' = inCopy \/ (inCopy' = FALSE /\ stage' = "released")
      /\ \/ stage' \in {"hooked", "stopped", "released", "refused"}
         \/ stage' = stage /\ fsIndex' = fsIndex
  <2>1. dropped \in Nat
    BY <1>0 DEF TypeOK
  <2>2. CASE \E t \in TooLong : receiverDrop(t)
    BY <2>1, <2>2 DEF receiverDrop, stkVars, ringVars, appVars
  <2>3. CASE Packet_init
    BY <2>1, <2>3 DEF Packet_init, stkVars, ringVars, drvVars, appVars
  <2>4. CASE Buffer_stopReceiving
    BY <2>1, <2>4 DEF Buffer_stopReceiving, stkVars, ringVars, drvVars, appVars
  <2>5. CASE Packet_release_type
    BY <2>1, <2>5 DEF Packet_release_type, stkVars, ringVars, drvVars, appVars
  <2> QED BY <2>2, <2>3, <2>4, <2>5
<1>r. /\ RingCount' = RingCount
      /\ \A i \in Slots : Age(i)' = Age(i) /\ Live(i)' = Live(i)
  BY <1>1, RingSame
<1>n. /\ RingCount \in Nat /\ Cardinality(held) \in Nat /\ fsIndex \in Nat
      /\ InFlight \in Nat /\ InFlight' \in Nat /\ InFlight' <= InFlight
      /\ fsIndex' \in Nat /\ fsIndex' <= fsIndex
  <2>1. InFlight' = InFlight \/ InFlight' = 0
    <3>1. CASE inCopy' = inCopy
      BY <3>1, Zenon DEF InFlight
    <3>2. CASE inCopy' = FALSE
      BY <3>2 DEF InFlight
    <3>. QED
      BY <1>1, <3>1, <3>2
  <2>2. InFlight \in Nat
    BY DEF InFlight
  <2>3. RingCount \in Nat /\ Cardinality(held) \in Nat
    BY <1>0, HeldCount, CountType
  <2>4. fsIndex \in Nat
    BY <1>0 DEF TypeOK
  <2>. QED
    BY <1>1, <2>1, <2>2, <2>3, <2>4
<1>2. TypeOK'
  <2>1. stage' \in {"buffers", "hooked", "receiving", "stopped", "released", "refused"}
    BY <1>0, <1>1 DEF TypeOK
  <2>2. fsIndex' \in 0..PACKET_BUFFERS
    BY <1>0, <1>n DEF TypeOK
  <2>3. inCopy' \in BOOLEAN /\ copying' \in IF inCopy' THEN Buffers ELSE Buffers \cup {NULL}
    <3>1. inCopy \in BOOLEAN /\ copying \in IF inCopy THEN Buffers ELSE Buffers \cup {NULL}
      BY <1>0 DEF TypeOK
    <3>2. CASE inCopy' = inCopy
      BY <1>1, <3>1, <3>2, Zenon
    <3>3. CASE inCopy' = FALSE
      BY <1>1, <3>1, <3>3
    <3>. QED
      BY <1>1, <3>2, <3>3
  <2>4. \A i \in Slots : Live(i)' => ring'[i] # NULL
    BY <1>0, <1>1, <1>r DEF TypeOK, Slots
  <2>. QED
    BY <1>0, <1>1, <2>1, <2>2, <2>3, <2>4 DEF TypeOK, Slots
<1>3. OneOwner'
  <2>1. \A i \in 0..PACKET_BUFFERS-1 : i < fsIndex' => i < fsIndex
    BY <1>n
  <2>2. inCopy' => inCopy
    BY <1>1
  <2>. QED
    BY <1>0, <1>1, <1>r, <2>1, <2>2 DEF OneOwner, Slots
<1>4. NoneLost'
  <2>1. fsIndex' + RingCount' + InFlight' + Cardinality(held') <= PACKET_BUFFERS
    BY <1>0, <1>1, <1>r, <1>n DEF NoneLost
  <2>2. stage' = "receiving" => stage = "receiving" /\ fsIndex' = fsIndex /\ InFlight' = InFlight
    BY <1>1 DEF InFlight
  <2>. QED
    BY <1>0, <1>1, <1>r, <2>1, <2>2 DEF NoneLost
<1>5. InOrder' /\ HeldIntact'
  BY <1>0, <1>1, <1>r DEF InOrder, HeldIntact, Slots
<1>6. Quiescent'
  BY <1>0 DEF Quiescent, receiverDrop, Packet_init, Buffer_stopReceiving, Packet_release_type,
              stkVars, ringVars, drvVars, appVars
<1>. QED
  BY <1>2, <1>3, <1>4, <1>5, <1>6 DEF Inv

LEMMA NextInv == Inv /\ [Next]_vars => Inv'
<1>. SUFFICES ASSUME Inv, [Next]_vars PROVE Inv'
  OBVIOUS
<1>1. ASSUME NEW t \in TooLong, receiverGive(t) PROVE Inv'
  <2>1. t = FALSE
    BY <1>1 DEF receiverGive, TooLong
  <2>. QED
    BY <1>1, <2>1, GiveInv
<1>2. CASE UNCHANGED vars
  <2>1. UNCHANGED <<stage, fs, fsIndex, ring, first, next, copying, inCopy, received, dropped, lowFree, mem, held, seen, processed, returned>>
    BY <1>2 DEF vars, stkVars, ringVars, drvVars, appVars
  <2>. QED
    BY <2>1 DEF Inv, TypeOK, OneOwner, NoneLost, InOrder, HeldIntact, Quiescent,
                InFlight, Live, RingCount, Age
<1>. QED
  BY <1>1, <1>2, DoneInv, ProcessInv, FreeInv, StartInv, OtherInv DEF Next, receiver

\* It is an invariant.
LEMMA Inductive == Spec => []Inv
  BY InitInv, NextInv, PTL DEF Spec

\* For every number of buffers and packets: no buffer is ever in two places,
\* wherever the receiver interrupts Packet_process_internal and Buffer_free.
THEOREM BuffersHaveOneOwner == Spec => [](TypeOK /\ OneOwner)
<1>1. Inv => TypeOK /\ OneOwner
  BY DEF Inv
<1>. QED
  BY <1>1, Inductive, PTL

\* For every number of buffers and packets: none is lost while packets flow, so
\* that the free stack of PACKET.CPP never runs dry for good.
THEOREM NoBufferLost == Spec => []NoneLost
<1>1. Inv => NoneLost
  BY DEF Inv
<1>. QED
  BY <1>1, Inductive, PTL

\* For every number of buffers and packets: Packet_process_internal takes packets
\* in the order in which the driver completed them.
THEOREM PacketsInOrder == Spec => []InOrder
<1>1. Inv => InOrder
  BY DEF Inv
<1>. QED
  BY <1>1, Inductive, PTL

\* For every number of buffers and packets: the receiver does not give the driver
\* a buffer whose packet the stack still holds.
THEOREM HeldPacketsIntact == Spec => []HeldIntact
<1>1. Inv => HeldIntact
  BY DEF Inv
<1>. QED
  BY <1>1, Inductive, PTL

\* For every number of buffers and packets: after Buffer_stopReceiving the driver
\* is given a buffer only if Packet_release_type failed, and then only one that
\* endStack has freed since.
THEOREM StopIsFinal == Spec => NoneGivenAfterStop
<1>. DEFINE Allowed == stage = "refused" /\ copying' \in returned
<1>1. Inv /\ [Next]_vars =>
         [~inCopy /\ inCopy' /\ stage \notin {"hooked", "receiving"} => Allowed]_vars
  <2>. SUFFICES ASSUME Inv, Next, ~inCopy, inCopy', stage \notin {"hooked", "receiving"}
                PROVE  Allowed
    OBVIOUS
  <2>1. ASSUME NEW t \in TooLong, receiverGive(t) PROVE Allowed
    <3>1. stage \in {"stopped", "refused"} /\ fsIndex # 0 /\ copying' = fs[fsIndex - 1]
      BY <2>1 DEF receiverGive, Registered
    <3>2. stage = "refused"
      BY <3>1 DEF Inv, Quiescent
    <3>3. fsIndex - 1 \in 0..PACKET_BUFFERS-1 /\ fsIndex - 1 < fsIndex
      BY <3>1, BuffersAssumption DEF Inv, TypeOK
    <3>4. fs[fsIndex - 1] \in returned
      BY <3>2, <3>3 DEF Inv, Quiescent
    <3>. QED
      BY <3>1, <3>2, <3>4
  <2>2. ASSUME NEW t \in TooLong, receiverDrop(t) PROVE FALSE
    BY <2>2 DEF receiverDrop
  <2>3. CASE receiverDone
    BY <2>3 DEF receiverDone
  <2>4. CASE \/ Packet_init \/ Buffer_startReceiving \/ Packet_process_internal
            \/ Buffer_stopReceiving \/ Packet_release_type \/ \E b \in Buffers : Buffer_free(b)
    BY <2>4 DEF Packet_init, Buffer_startReceiving, Packet_process_internal,
                Buffer_stopReceiving, Packet_release_type, Buffer_free, drvVars
  <2>. QED
    BY <2>1, <2>2, <2>3, <2>4 DEF Next, receiver
<1>. QED
  BY <1>1, InitInv, NextInv, PTL DEF Spec, NoneGivenAfterStop
=============================================================================
