----------------------------- MODULE ArpProofs ------------------------------
(***************************************************************************)
(* For every network, size of the tables and number of repetitions: the    *)
(* table of pending requests is counted, the cache has one genuine entry   *)
(* per address, and a conflict is reported only if there is one.           *)
(***************************************************************************)
EXTENDS Arp, SequenceTheorems, NatLemmas

Entries == [ipAddr : Ips, ethAddr : Eths, updated : 0..MaxTime]

\* What the invariants say of a table; `own' is whether the bot's own address
\* may be in it.
GoodTable(table, own) ==
    /\ table \in Seq(Entries) /\ Len(table) <= ARP_MAX_ENTRIES
    /\ \A j, k \in DOMAIN table : table[j].ipAddr = table[k].ipAddr => j = k
    /\ \A k \in DOMAIN table :
          table[k].ipAddr # MyIpAddr => table[k].ethAddr \in EthsOf[table[k].ipAddr]
    /\ Cached(table, MyIpAddr) => own

\* A sender that may be put there.
GoodSender(ip, eth, own) ==
    /\ ip \in Ips /\ eth \in Eths
    /\ ip # MyIpAddr => eth \in EthsOf[ip]
    /\ ip = MyIpAddr => own

InUse == {i \in Slots : ~Unused(i)}

\* What the invariants say of the pending table, and of the other variables.
PendingSound ==
    /\ pending \in [Slots -> [attempts : -1..ARP_RETRIES, target : Ips]]
    /\ pendingEntries = Cardinality(InUse)
    /\ \A i, j \in Slots : ~Unused(i) /\ ~Unused(j) /\ pending[i].target = pending[j].target => i = j
RestTyped ==
    /\ phase \in {"check", "run", "conflict"}
    /\ now \in 0..MaxTime
    /\ impostors \subseteq ImpostorEths

\* The inductive invariant: all that is claimed, and that a conflict is a cached
\* answer for the bot's own address.
IInv ==
    /\ PendingSound /\ RestTyped
    /\ GoodTable(arpTable, impostors # {})
    /\ phase = "conflict" => impostors # {}
-----------------------------------------------------------------------------
(* The cache. *)

\* updateEntry changes the Ethernet address and the time, nothing else.
LEMMA UpdateEntriesFacts ==
  ASSUME NEW table \in Seq(Entries), NEW places, NEW eth \in Eths, now \in 0..MaxTime
  PROVE  /\ updateEntries(table, places, eth) \in Seq(Entries)
         /\ Len(updateEntries(table, places, eth)) = Len(table)
         /\ DOMAIN updateEntries(table, places, eth) = DOMAIN table
         /\ \A k \in DOMAIN table :
               /\ updateEntries(table, places, eth)[k].ipAddr = table[k].ipAddr
               /\ updateEntries(table, places, eth)[k].ethAddr =
                    IF k \in places THEN eth ELSE table[k].ethAddr
<1> DEFINE new == updateEntries(table, places, eth)
<1>1. DOMAIN table = 1..Len(table) /\ Len(table) \in Nat
  OBVIOUS
<1>2. ASSUME NEW k \in 1..Len(table)
      PROVE  new[k] \in Entries
  <2>1. table[k] \in Entries
    BY ElementOfSeq
  <2>2. [table[k] EXCEPT !.ethAddr = eth, !.updated = now] \in Entries
    BY <2>1 DEF Entries
  <2> QED BY <1>1, <2>1, <2>2 DEF updateEntries
<1>3. new \in [1..Len(table) -> Entries]
  <2>1. new = [k \in 1..Len(table) |-> new[k]]
    BY <1>1 DEF updateEntries
  <2> QED BY <1>2, <2>1
<1>4. new \in Seq(Entries) /\ Len(new) = Len(table)
  BY <1>1, <1>3
<1>5. ASSUME NEW k \in DOMAIN table
      PROVE  /\ new[k].ipAddr = table[k].ipAddr
             /\ new[k].ethAddr = IF k \in places THEN eth ELSE table[k].ethAddr
  <2>1. table[k] \in Entries
    BY <1>1
  <2> QED BY <2>1 DEF updateEntries, Entries
<1> QED BY <1>1, <1>4, <1>5

\* Updating the entries of one address keeps a table good.
LEMMA UpdateKeepsGood ==
  ASSUME NEW table, NEW own \in BOOLEAN, GoodTable(table, own), NEW eth \in Eths, now \in 0..MaxTime,
         NEW ip \in Ips, ip # MyIpAddr => eth \in EthsOf[ip]
  PROVE  GoodTable(updateEntries(table, findEth(table, ip), eth), own)
<1> DEFINE new == updateEntries(table, findEth(table, ip), eth)
<1>1. table \in Seq(Entries)
  BY DEF GoodTable
<1>2. /\ new \in Seq(Entries) /\ Len(new) = Len(table) /\ DOMAIN new = DOMAIN table
      /\ \A k \in DOMAIN table :
            /\ new[k].ipAddr = table[k].ipAddr
            /\ new[k].ethAddr = IF k \in findEth(table, ip) THEN eth ELSE table[k].ethAddr
  BY <1>1, UpdateEntriesFacts
<1>3. \A k \in DOMAIN table : k \in findEth(table, ip) <=> table[k].ipAddr = ip
  BY DEF findEth
<1> HIDE DEF new
<1>4. ASSUME NEW k \in DOMAIN new, new[k].ipAddr # MyIpAddr
      PROVE  new[k].ethAddr \in EthsOf[new[k].ipAddr]
  BY <1>2, <1>3, <1>4 DEF GoodTable
<1>5. Cached(new, MyIpAddr) => own
  BY <1>2 DEF GoodTable, Cached
<1>6. \A j, k \in DOMAIN new : new[j].ipAddr = new[k].ipAddr => j = k
  BY <1>2 DEF GoodTable
<1> QED BY <1>2, <1>4, <1>5, <1>6 DEF GoodTable, new

\* updateOrAddCache keeps it good in each of its three cases.
LEMMA AddKeepsGood ==
  ASSUME NEW table, NEW own \in BOOLEAN, GoodTable(table, own), NEW eth, NEW ip,
         GoodSender(ip, eth, own), now \in 0..MaxTime
  PROVE  GoodTable(updateOrAddCache(table, eth, ip), own)
<1> DEFINE new == [ipAddr |-> ip, ethAddr |-> eth, updated |-> now]
           full == [table EXCEPT ![Oldest(table)] = new]
<1>1. /\ table \in Seq(Entries) /\ Len(table) \in Nat /\ DOMAIN table = 1..Len(table)
      /\ Len(table) <= ARP_MAX_ENTRIES /\ ARP_MAX_ENTRIES \in Nat
  BY SizesAssumption DEF GoodTable
<1>2. ip \in Ips /\ eth \in Eths /\ new \in Entries
  BY DEF GoodSender, Entries
<1>3. CASE findEth(table, ip) # {}
  BY <1>2, <1>3, UpdateKeepsGood DEF updateOrAddCache, GoodSender
<1>4. CASE findEth(table, ip) = {} /\ Len(table) < ARP_MAX_ENTRIES
  <2> DEFINE t == Append(table, new)
  <2>1. updateOrAddCache(table, eth, ip) = t
    BY <1>4 DEF updateOrAddCache
  <2>2. /\ t \in Seq(Entries) /\ Len(t) = Len(table) + 1 /\ DOMAIN t = 1..(Len(table) + 1)
        /\ \A k \in 1..Len(table) : t[k] = table[k]
        /\ t[Len(table) + 1] = new
    BY <1>1, <1>2
  <2>3. \A k \in DOMAIN table : table[k].ipAddr # ip
    BY <1>4 DEF findEth
  <2>4. new.ipAddr = ip /\ new.ethAddr = eth
    OBVIOUS
  <2> HIDE DEF t, new
  <2>5. \A j, k \in DOMAIN t : t[j].ipAddr = t[k].ipAddr => j = k
    BY <1>1, <2>2, <2>3, <2>4 DEF GoodTable
  <2>6. \A k \in DOMAIN t : t[k].ipAddr # MyIpAddr => t[k].ethAddr \in EthsOf[t[k].ipAddr]
    BY <1>1, <2>2, <2>4 DEF GoodTable, GoodSender
  <2>7. Cached(t, MyIpAddr) => own
    BY <1>1, <2>2, <2>4 DEF GoodTable, GoodSender, Cached
  <2>8. Len(t) <= ARP_MAX_ENTRIES
    BY <1>1, <1>4, <2>2
  <2> QED BY <2>1, <2>2, <2>5, <2>6, <2>7, <2>8 DEF GoodTable
<1>5. CASE findEth(table, ip) = {} /\ ~(Len(table) < ARP_MAX_ENTRIES)
  <2>1. updateOrAddCache(table, eth, ip) = full
    BY <1>5 DEF updateOrAddCache
  <2>2. /\ DOMAIN full = DOMAIN table
        /\ \A k \in DOMAIN table : full[k] = IF k = Oldest(table) THEN new ELSE table[k]
    BY <1>1
  <2>3. full \in [1..Len(table) -> Entries]
    <3>1. table \in [1..Len(table) -> Entries]
      BY <1>1, LenProperties
    <3> QED BY <1>2, <3>1
  <2>4. full \in Seq(Entries) /\ Len(full) = Len(table)
    BY <1>1, <2>3
  <2>5. \A k \in DOMAIN table : table[k].ipAddr # ip
    BY <1>5 DEF findEth
  <2>6. new.ipAddr = ip /\ new.ethAddr = eth
    OBVIOUS
  <2> HIDE DEF full, new
  <2>7. \A j, k \in DOMAIN full : full[j].ipAddr = full[k].ipAddr => j = k
    BY <2>2, <2>5, <2>6 DEF GoodTable
  <2>8. \A k \in DOMAIN full :
           full[k].ipAddr # MyIpAddr => full[k].ethAddr \in EthsOf[full[k].ipAddr]
    BY <2>2, <2>6 DEF GoodTable, GoodSender
  <2>9. Cached(full, MyIpAddr) => own
    BY <2>2, <2>6 DEF GoodTable, GoodSender, Cached
  <2> QED BY <1>1, <2>1, <2>4, <2>7, <2>8, <2>9 DEF GoodTable
<1> QED BY <1>3, <1>4, <1>5
-----------------------------------------------------------------------------
(* The pending table. *)

\* The counter stays in its range since it counts slots.
LEMMA InUseFinite ==
  /\ IsFiniteSet(InUse) /\ Cardinality(InUse) \in 0..ARP_MAX_PENDING
  /\ ARP_MAX_PENDING \in Nat
<1>1. ARP_MAX_PENDING \in Nat
  BY SizesAssumption
<1>2. IsFiniteSet(Slots) /\ Cardinality(Slots) = ARP_MAX_PENDING
  BY <1>1, FS_Interval DEF Slots
<1>3. InUse \in SUBSET Slots
  BY DEF InUse
<1>4. IsFiniteSet(InUse) /\ Cardinality(InUse) <= Cardinality(Slots)
  BY <1>2, <1>3, FS_Subset
<1>5. Cardinality(InUse) \in Nat
  BY <1>4, FS_CardinalityType
<1> QED BY <1>1, <1>2, <1>4, <1>5

\* sendArpRequest finds a free slot whenever the counter says so.
LEMMA RequestKeepsPending ==
  ASSUME PendingSound, NEW ip \in Ips, sendArpRequest(ip)
  PROVE  PendingSound'
<1> DEFINE known == \E i \in Slots : ~Unused(i) /\ pending[i].target = ip
           slot == CHOOSE i \in Slots : Unused(i) /\ \A j \in Slots : Unused(j) => i <= j
<1>1. CASE known \/ pendingEntries = ARP_MAX_PENDING
  <2>1. pending' = pending /\ pendingEntries' = pendingEntries
    BY <1>1 DEF sendArpRequest
  <2> QED BY <2>1 DEF PendingSound, InUse, Unused
<1>2. CASE ~known /\ pendingEntries # ARP_MAX_PENDING
  <2>1. /\ pending' = [pending EXCEPT ![slot] = [attempts |-> 0, target |-> ip]]
        /\ pendingEntries' = pendingEntries + 1
    BY <1>2 DEF sendArpRequest
  <2>2. PICK first \in Slots : first = slot /\ Unused(first)
    <3>1. Cardinality(InUse) < ARP_MAX_PENDING
      BY <1>2, InUseFinite DEF PendingSound
    <3>2. InUse \in SUBSET (1..ARP_MAX_PENDING)
      BY DEF InUse, Slots
    <3>3. \E i \in (1..ARP_MAX_PENDING) \ InUse : \A j \in (1..ARP_MAX_PENDING) \ InUse : i <= j
      BY <3>1, <3>2, InUseFinite, FirstFree
    <3>4. \E i \in Slots : Unused(i) /\ \A j \in Slots : Unused(j) => i <= j
      BY <3>3 DEF InUse, Slots
    <3> QED BY <3>4
  <2>3. pending' \in [Slots -> [attempts : -1..ARP_RETRIES, target : Ips]]
    BY <2>1, <2>2, CountsAssumption DEF PendingSound
  <2>4. /\ ~Unused(first)' /\ pending'[first].target = ip
        /\ \A i \in Slots \ {first} : pending'[i] = pending[i]
    BY <2>1, <2>2 DEF PendingSound, Unused
  <2>5. InUse' = InUse \cup {first}
    BY <2>2, <2>4 DEF InUse, Unused
  <2>6. first \notin InUse
    BY <2>2 DEF InUse
  <2>7. pendingEntries' = Cardinality(InUse')
    BY <2>1, <2>5, <2>6, InUseFinite, FS_AddElement DEF PendingSound
  <2>8. ASSUME NEW i \in Slots, NEW j \in Slots,
               ~Unused(i)', ~Unused(j)', pending'[i].target = pending'[j].target
        PROVE  i = j
    BY <1>2, <2>4, <2>8 DEF PendingSound, Unused
  <2> QED BY <2>3, <2>7, <2>8 DEF PendingSound
<1> QED BY <1>1, <1>2

\* An entry that was answered is taken out and uncounted.
LEMMA ReplyKeepsPending ==
  ASSUME PendingSound, NEW i \in Slots, ~Unused(i),
         pending' = [pending EXCEPT ![i].attempts = -1],
         pendingEntries' = pendingEntries - 1
  PROVE  PendingSound'
<1>1. pending' \in [Slots -> [attempts : -1..ARP_RETRIES, target : Ips]]
  <2>1. [pending[i] EXCEPT !.attempts = -1] \in [attempts : -1..ARP_RETRIES, target : Ips]
    BY CountsAssumption DEF PendingSound
  <2>2. pending' = [pending EXCEPT ![i] = [pending[i] EXCEPT !.attempts = -1]]
    OBVIOUS
  <2> QED BY <2>1, <2>2 DEF PendingSound
<1>2. Unused(i)' /\ \A j \in Slots \ {i} : pending'[j] = pending[j]
  BY DEF PendingSound, Unused
<1>3. InUse' = InUse \ {i}
  BY <1>2 DEF InUse, Unused
<1>4. i \in InUse
  BY DEF InUse
<1>5. pendingEntries' = Cardinality(InUse')
  BY <1>3, <1>4, InUseFinite, FS_RemoveElement DEF PendingSound
<1>6. ASSUME NEW j \in Slots, NEW k \in Slots,
             ~Unused(j)', ~Unused(k)', pending'[j].target = pending'[k].target
      PROVE  j = k
  BY <1>2, <1>6 DEF PendingSound, Unused
<1> QED BY <1>1, <1>5, <1>6 DEF PendingSound

\* driveArp gives up as many entries as it uncounts; the others stay.
LEMMA DriveKeepsPending ==
  ASSUME PendingSound, NEW overdue \in SUBSET Slots, driveArp(overdue)
  PROVE  PendingSound'
<1> DEFINE dropped == {i \in Slots : ~Unused(i) /\ GivesUp(i)}
           repeated == {i \in overdue \ dropped : ~Unused(i)}
           P == [attempts : -1..ARP_RETRIES, target : Ips]
<1>1. /\ pending' = [i \in Slots |->
                       CASE i \in dropped -> [pending[i] EXCEPT !.attempts = -1]
                         [] i \in repeated -> Repeated(i)
                         [] OTHER -> pending[i]]
      /\ pendingEntries' = pendingEntries - Cardinality(dropped)
  BY DEF driveArp
<1>2. dropped \subseteq InUse
  BY DEF InUse
<1>3. ASSUME NEW i \in Slots
      PROVE  /\ pending'[i] \in P /\ pending'[i].target = pending[i].target
             /\ Unused(i)' <=> (Unused(i) \/ i \in dropped)
  <2>1. pending[i] \in P /\ pending[i].attempts \in -1..ARP_RETRIES /\ ARP_RETRIES \in Nat
    BY CountsAssumption DEF PendingSound
  <2>2. CASE i \in dropped
    <3>1. pending'[i] = [pending[i] EXCEPT !.attempts = -1]
      BY <1>1, <2>2
    <3> QED BY <2>1, <2>2, <3>1 DEF Unused
  <2>3. CASE i \notin dropped /\ i \in repeated
    <3>1. pending'[i] = [pending[i] EXCEPT !.attempts = @ + 1]
      BY <1>1, <2>3 DEF Repeated
    <3>2. pending[i].attempts # -1 /\ pending[i].attempts # ARP_RETRIES
      BY <2>3 DEF Unused, GivesUp
    <3>3. pending[i].attempts + 1 \in 0..ARP_RETRIES
      BY <2>1, <3>2
    <3> QED BY <2>1, <2>3, <3>1, <3>2, <3>3 DEF Unused
  <2>4. CASE i \notin dropped /\ i \notin repeated
    <3>1. pending'[i] = pending[i]
      BY <1>1, <2>4
    <3> QED BY <2>1, <2>4, <3>1 DEF Unused
  <2> QED BY <2>2, <2>3, <2>4
<1>4. pending' \in [Slots -> P]
  <2>1. pending' = [i \in Slots |-> pending'[i]]
    BY <1>1
  <2> QED BY <1>3, <2>1
<1>5. InUse' = InUse \ dropped
  BY <1>3 DEF InUse
<1> HIDE DEF dropped
<1>6. Cardinality(InUse') = Cardinality(InUse) - Cardinality(dropped)
  <2>1. InUse \cap dropped = dropped
    BY <1>2
  <2> QED BY <1>5, <2>1, InUseFinite, FS_Difference
<1>7. ASSUME NEW j \in Slots, NEW k \in Slots,
             ~Unused(j)', ~Unused(k)', pending'[j].target = pending'[k].target
      PROVE  j = k
  BY <1>3, <1>7 DEF PendingSound
<1> QED BY <1>1, <1>4, <1>6, <1>7 DEF PendingSound

\* clearPendingTable leaves an empty table and a counter that says so.
LEMMA ClearKeepsPending ==
  ASSUME PendingSound, clearPendingTable
  PROVE  PendingSound'
<1> DEFINE P == [attempts : -1..ARP_RETRIES, target : Ips]
<1>1. ASSUME NEW i \in Slots
      PROVE  pending'[i] \in P /\ Unused(i)'
  <2>1. pending[i] \in P
    BY DEF PendingSound
  <2>2. pending'[i] = [pending[i] EXCEPT !.attempts = -1]
    BY DEF clearPendingTable
  <2> QED BY <2>1, <2>2, CountsAssumption DEF Unused
<1>2. pending' \in [Slots -> P]
  <2>1. pending' = [i \in Slots |-> pending'[i]]
    BY DEF clearPendingTable
  <2> QED BY <1>1, <2>1
<1>3. InUse' = {}
  BY <1>1 DEF InUse
<1> QED BY <1>1, <1>2, <1>3, FS_EmptySet DEF PendingSound, clearPendingTable
-----------------------------------------------------------------------------
(* The steps. *)

\* The invariant holds when initStack has set the tables up.
LEMMA InitIInv == Init => IInv
<1> SUFFICES ASSUME Init PROVE IInv
  OBVIOUS
<1>1. \A i \in Slots : Unused(i)
  BY DEF Init, Unused
<1>2. PendingSound
  <2>1. InUse = {}
    BY <1>1 DEF InUse
  <2>2. pending \in [Slots -> [attempts : -1..ARP_RETRIES, target : Ips]]
    BY CountsAssumption DEF Init, Ips
  <2> QED BY <1>1, <2>1, <2>2, FS_EmptySet DEF PendingSound, Init
<1>3. GoodTable(arpTable, impostors # {})
  <2>1. arpTable = << >> /\ ARP_MAX_ENTRIES \in Nat
    BY SizesAssumption DEF Init
  <2> QED BY <2>1, EmptySeq DEF GoodTable, Cached
<1> QED BY <1>2, <1>3, CountsAssumption DEF IInv, RestTyped, Init

\* Who is on the network may be in the cache, the bot's own address only with
\* the Ethernet address of an impostor.
LEMMA SendersGood ==
  ASSUME NEW s \in Senders, RestTyped
  PROVE  /\ s[1] \in Ips /\ s[2] \in Eths
         /\ s[1] # MyIpAddr \/ s[2] # MyEthAddr => GoodSender(s[1], s[2], impostors # {})
<1>1. s[1] \in Ips /\ s[2] \in Eths /\ s[2] \in SendersAs(s[1])
  BY DEF Senders
<1>2. s[1] # MyIpAddr => s[2] \in EthsOf[s[1]]
  BY <1>1 DEF SendersAs
<1>3. s[1] = MyIpAddr /\ s[2] # MyEthAddr => impostors # {}
  BY <1>1 DEF SendersAs
<1> QED BY <1>1, <1>2, <1>3 DEF GoodSender

\* Each step keeps it.
LEMMA StepIInv == IInv /\ [Next]_vars => IInv'
<1> SUFFICES ASSUME IInv, [Next]_vars PROVE IInv'
  OBVIOUS
<1>0. PendingSound /\ RestTyped /\ GoodTable(arpTable, impostors # {}) /\ now \in 0..MaxTime
  BY DEF IInv, RestTyped
<1>1. ASSUME UNCHANGED <<pending, pendingEntries>> PROVE PendingSound'
  BY <1>0, <1>1 DEF PendingSound, InUse, Unused
<1>2. ASSUME UNCHANGED <<arpTable, impostors>> PROVE GoodTable(arpTable, impostors # {})'
  BY <1>0, <1>2 DEF GoodTable, Cached, Entries, Ips
<1>3. CASE selfCheck
  <2>1. PendingSound'
    <3>1. CASE findEth(arpTable, MyIpAddr) # {}
      BY <1>1, <1>3, <3>1 DEF selfCheck
    <3>2. CASE findEth(arpTable, MyIpAddr) = {}
      BY <1>0, <1>3, <3>2, RequestKeepsPending DEF selfCheck, Ips
    <3> QED BY <3>1, <3>2
  <2>2. phase' = "conflict" => phase = "conflict" \/ Cached(arpTable, MyIpAddr)
    BY <1>3 DEF selfCheck, findEth, Cached
  <2>3. phase' = "conflict" => impostors' # {}
    BY <1>0, <1>3, <2>2 DEF selfCheck, GoodTable, IInv
  <2> QED BY <1>2, <1>3, <2>1, <2>3 DEF IInv, RestTyped, selfCheck
<1>4. CASE selfCheckOver
  BY <1>0, <1>2, <1>4, ClearKeepsPending DEF IInv, RestTyped, selfCheckOver
<1>5. ASSUME NEW ip \in Hosts, resolve(ip) PROVE IInv'
  BY <1>0, <1>2, <1>5, RequestKeepsPending DEF IInv, RestTyped, resolve, Ips
<1>6. ASSUME NEW s \in Senders, NEW target \in Ips, processRequest(s[1], s[2], target)
      PROVE  IInv'
  <2>1. GoodSender(s[1], s[2], impostors # {})
    BY <1>0, <1>6, SendersGood DEF processRequest
  <2>2. GoodTable(updateOrAddCache(arpTable, s[2], s[1]), impostors # {})
    BY <1>0, <2>1, AddKeepsGood
  <2>3. GoodTable(arpTable', impostors' # {})
    BY <1>6, <2>2 DEF processRequest
  <2> QED BY <1>0, <1>1, <1>6, <2>3 DEF IInv, RestTyped, processRequest, GoodTable, Cached
<1>7. ASSUME NEW s \in Senders, processReply(s[1], s[2], MyIpAddr, MyEthAddr)
      PROVE  IInv'
  <2>1. PICK i \in Slots : /\ Satisfies(i, s[1], s[2])
                           /\ pending' = [pending EXCEPT ![i].attempts = -1]
    BY <1>7 DEF processReply
  <2>2. PendingSound'
    BY <1>0, <1>7, <2>1, ReplyKeepsPending DEF processReply, Satisfies
  <2>3. GoodSender(s[1], s[2], impostors # {})
    BY <1>0, <2>1, SendersGood DEF Satisfies
  <2> DEFINE own == impostors # {}
             t1 == updateOrAddCache(arpTable, s[2], s[1])
             t2 == updateEntries(t1, findEth(t1, MyIpAddr), MyEthAddr)
             t3 == updateEntries(t2, findEth(t2, s[1]), s[2])
  <2>4. GoodTable(t1, own)
    BY <1>0, <2>3, AddKeepsGood
  <2>5. GoodTable(t2, own)
    <3> HIDE DEF t1
    <3> QED BY <1>0, <2>4, UpdateKeepsGood, EthsAssumption DEF Ips
  <2>6. GoodTable(t3, own)
    <3> HIDE DEF t2
    <3> QED BY <1>0, <2>3, <2>5, UpdateKeepsGood DEF GoodSender
  <2>7. arpTable' = t3 /\ impostors' = impostors
    BY <1>7 DEF processReply, updatedByReply
  <2>8. GoodTable(arpTable', impostors' # {})
    BY <2>6, <2>7
  <2> QED BY <1>0, <1>7, <2>2, <2>8 DEF IInv, RestTyped, processReply, GoodTable, Cached
<1>8. ASSUME NEW overdue \in SUBSET Slots, driveArp(overdue) PROVE IInv'
  BY <1>0, <1>2, <1>8, DriveKeepsPending DEF IInv, RestTyped, driveArp
<1>9. CASE tick
  <2>1. now' \in 0..MaxTime
    BY <1>0, <1>9, CountsAssumption DEF tick
  <2> QED BY <1>0, <1>1, <1>2, <1>9, <2>1 DEF IInv, RestTyped, tick
<1>10. CASE UNCHANGED vars
  BY <1>0, <1>1, <1>2, <1>10 DEF IInv, RestTyped, vars
<1> QED
  BY <1>3, <1>4, <1>5, <1>6, <1>7, <1>8, <1>9, <1>10 DEF Next, HostAsks, HostReplies

\* It is an invariant.
LEMMA Inductive == Spec => []IInv
BY InitIInv, StepIInv, PTL DEF Spec

\* The counter that sendArpRequest and driveArp trust is the number of slots in
\* use, and no address is waited for twice.
THEOREM PendingIsCounted == Spec => []PendingCounted
<1>1. IInv => PendingCounted
  <2> SUFFICES ASSUME IInv PROVE PendingCounted
    OBVIOUS
  <2>1. TypeOK
    BY InUseFinite DEF IInv, PendingSound, RestTyped, GoodTable, Entries, TypeOK
  <2> QED BY <2>1 DEF IInv, PendingSound, PendingCounted, InUse
<1> QED BY <1>1, Inductive, PTL

\* updateOrAddCache never puts a second entry beside the one an address has, and
\* never writes behind the array, whichever entry a full table gives up.
THEOREM CacheHasOneEntry == Spec => []OneEntryPerAddress
<1>1. IInv => OneEntryPerAddress
  BY DEF IInv, GoodTable, OneEntryPerAddress
<1> QED BY <1>1, Inductive, PTL

\* What the cache says of another host came from that host.
THEOREM CacheIsGenuine == Spec => []CachedIsGenuine
<1>1. IInv => CachedIsGenuine
  BY DEF IInv, GoodTable, CachedIsGenuine
<1> QED BY <1>1, Inductive, PTL

\* The self-check of initStack fails only if there is an impostor.
THEOREM ConflictsAreReal == Spec => []ConflictIsReal
<1>1. IInv => ConflictIsReal
  BY DEF IInv, GoodTable, ConflictIsReal
<1> QED BY <1>1, Inductive, PTL
=============================================================================
