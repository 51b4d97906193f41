-------------------------------- MODULE Arp ---------------------------------
(***************************************************************************)
(* The ARP cache and the table of pending requests of TCPLIB/ARP.CPP, from *)
(* the self-check at the end of initStack (TCPLIB/UTILS.CPP) on.           *)
(*                                                                         *)
(* The network is external: a host asks and answers with one of its own    *)
(* Ethernet addresses, at any time and any number of times, and the bot's  *)
(* own packets may come back to it.  Another machine that uses the bot's   *)
(* IP address is an impostor; whether there is one is chosen at the start. *)
(* Requests the bot sends are only counted per pending entry (attempts).   *)
(***************************************************************************)
EXTENDS Integers, Sequences, FiniteSets

CONSTANTS
    Hosts,            \* IP addresses of the other hosts
    MyIpAddr,
    MyEthAddr,
    Eths,             \* Ethernet addresses
    EthsOf,           \* the addresses each of the hosts uses
    ImpostorEths,     \* the addresses an impostor may use
    ARP_MAX_PENDING,
    ARP_MAX_ENTRIES,
    ARP_RETRIES,
    MaxTime           \* bound: seconds of the clock

ASSUME HostsAssumption == MyIpAddr \notin Hosts
ASSUME EthsAssumption == /\ MyEthAddr \in Eths
                         /\ EthsOf \in [Hosts -> SUBSET (Eths \ {MyEthAddr})]
                         /\ ImpostorEths \subseteq Eths \ {MyEthAddr}
ASSUME SizesAssumption == {ARP_MAX_PENDING, ARP_MAX_ENTRIES} \subseteq Nat \ {0}
ASSUME CountsAssumption == {ARP_RETRIES, MaxTime} \subseteq Nat

VARIABLES
    phase,           \* "check" during the self-check, then "run" or "conflict"
    pending,         \* the pending table: attempts is -1 for a slot not in use
    pendingEntries,
    arpTable,        \* the cache, a sequence of `entries' records
    now,             \* the clock, in seconds
    impostors        \* the Ethernet addresses of the impostor, {} if there is none

vars == <<phase, pending, pendingEntries, arpTable, now, impostors>>

Ips == Hosts \cup {MyIpAddr}
Slots == 1..ARP_MAX_PENDING
Unused(i) == pending[i].attempts = -1

\* Who can be on the network with an IP address; the bot itself is, with its own.
SendersAs(ip) == IF ip = MyIpAddr THEN impostors \cup {MyEthAddr} ELSE EthsOf[ip]

\* Arp::init, without a SLIP gateway.
Init ==
    /\ phase = "check"
    /\ pending = [i \in Slots |-> [attempts |-> -1, target |-> MyIpAddr]]
    /\ pendingEntries = 0
    /\ arpTable = << >>
    /\ now = 0
    /\ impostors \in SUBSET ImpostorEths
-----------------------------------------------------------------------------
(* The cache. *)

Cached(table, ip) == \E k \in DOMAIN table : table[k].ipAddr = ip

\* Slip: the table is not searched first.
findEth_Never(table, ip) == {}

\* findEth: the place of an address in the table, if any.
findEth(table, ip) == {k \in DOMAIN table : table[k].ipAddr = ip}

\* updateEntry, for the places findEth has found.
updateEntries(table, places, eth) ==
    [k \in DOMAIN table |->
        IF k \in places THEN [table[k] EXCEPT !.ethAddr = eth, !.updated = now] ELSE table[k]]

\* The oldest entry, the first of them if there are several.
Oldest(table) ==
    CHOOSE k \in DOMAIN table :
        \A j \in DOMAIN table :
            table[k].updated < table[j].updated \/ (table[k].updated = table[j].updated /\ k <= j)

\* Slip: the entry that is thrown out keeps its IP address.
updateOrAddCache_KeepsIp(table, eth, ip) ==
    LET new == [ipAddr |-> ip, ethAddr |-> eth, updated |-> now]
    IN  CASE findEth(table, ip) # {} -> updateEntries(table, findEth(table, ip), eth)
          [] findEth(table, ip) = {} /\ Len(table) < ARP_MAX_ENTRIES -> Append(table, new)
          [] OTHER -> updateEntries(table, {Oldest(table)}, eth)

\* An entry there is is updated; a new one takes the next place or, in a full
\* table, that of the oldest.
updateOrAddCache(table, eth, ip) ==
    LET new == [ipAddr |-> ip, ethAddr |-> eth, updated |-> now]
    IN  CASE findEth(table, ip) # {} -> updateEntries(table, findEth(table, ip), eth)
          [] findEth(table, ip) = {} /\ Len(table) < ARP_MAX_ENTRIES -> Append(table, new)
          [] OTHER -> [table EXCEPT ![Oldest(table)] = new]
-----------------------------------------------------------------------------
(* The operations. *)

\* sendArpRequest: nothing if the address is pending or the table is full, as
\* the counter says; otherwise the first unused slot is taken.
sendArpRequest(ip) ==
    LET known == \E i \in Slots : ~Unused(i) /\ pending[i].target = ip
        slot == CHOOSE i \in Slots : Unused(i) /\ \A j \in Slots : Unused(j) => i <= j
    IN  IF known \/ pendingEntries = ARP_MAX_PENDING
        THEN UNCHANGED <<pending, pendingEntries>>
        ELSE /\ pending' = [pending EXCEPT ![slot] = [attempts |-> 0, target |-> ip]]
             /\ pendingEntries' = pendingEntries + 1

\* resolve, called for a packet that is to be sent.
resolve(ip) ==
    /\ phase = "run"
    /\ findEth(arpTable, ip) = {}
    /\ sendArpRequest(ip)
    /\ UNCHANGED <<phase, arpTable, now, impostors>>

\* The self-check resolves the bot's own address; an answer is a conflict, and
\* initStack fails.
selfCheck ==
    /\ phase = "check"
    /\ IF findEth(arpTable, MyIpAddr) # {}
       THEN phase' = "conflict" /\ UNCHANGED <<pending, pendingEntries>>
       ELSE sendArpRequest(MyIpAddr) /\ UNCHANGED phase
    /\ UNCHANGED <<arpTable, now, impostors>>

\* Slip: the slots are cleared, the counter is not.
clearPendingTable_KeepsCount ==
    /\ pending' = [i \in Slots |-> [pending[i] EXCEPT !.attempts = -1]]
    /\ UNCHANGED pendingEntries

clearPendingTable ==
    /\ pending' = [i \in Slots |-> [pending[i] EXCEPT !.attempts = -1]]
    /\ pendingEntries' = 0

\* The time of the self-check is over.
selfCheckOver ==
    /\ phase = "check"
    /\ phase' = "run"
    /\ clearPendingTable
    /\ UNCHANGED <<arpTable, now, impostors>>

\* processArp for a request: only one for the bot's address counts, and not one
\* from that address.
processRequest(sender, eth, target) ==
    /\ phase # "conflict"
    /\ target = MyIpAddr /\ sender # MyIpAddr
    /\ arpTable' = updateOrAddCache(arpTable, eth, sender)
    /\ UNCHANGED <<phase, pending, pendingEntries, now, impostors>>

\* Slip: the answer is taken from the bot itself, too.
Satisfies_Own(i, sender, eth) == ~Unused(i) /\ pending[i].target = sender

\* A reply that the pending entry i waits for; the bot's own does not count.
Satisfies(i, sender, eth) ==
    /\ ~Unused(i) /\ pending[i].target = sender
    /\ sender # MyIpAddr \/ eth # MyEthAddr

\* The cache after such a reply: the sender is added, and its target and itself
\* are updated where they are in the cache.
updatedByReply(sender, eth, target, targetEth) ==
    LET t1 == updateOrAddCache(arpTable, eth, sender)
        t2 == updateEntries(t1, findEth(t1, target), targetEth)
    IN  updateEntries(t2, findEth(t2, sender), eth)

\* processArp for a reply: it is dropped unless it was waited for.
processReply(sender, eth, target, targetEth) ==
    /\ phase # "conflict"
    /\ \E i \in Slots :
          /\ Satisfies(i, sender, eth) /\ \A j \in Slots : Satisfies(j, sender, eth) => i <= j
          /\ pending' = [pending EXCEPT ![i].attempts = -1]
    /\ pendingEntries' = pendingEntries - 1
    /\ arpTable' = updatedByReply(sender, eth, target, targetEth)
    /\ UNCHANGED <<phase, now, impostors>>

GivesUp(i) == pending[i].attempts = ARP_RETRIES

\* Slip: a repetition counts as a new request.
Repeated_Anew(i) == [pending[i] EXCEPT !.attempts = 0]

Repeated(i) == [pending[i] EXCEPT !.attempts = @ + 1]

\* driveArp and driveArp2: `overdue' are the slots whose time is over.  The one
\* that was repeated for the last time is given up in the next call.
driveArp(overdue) ==
    LET dropped == {i \in Slots : ~Unused(i) /\ GivesUp(i)}
        repeated == {i \in overdue \ dropped : ~Unused(i)}
    IN  /\ phase # "conflict" /\ pendingEntries # 0
        /\ pending' = [i \in Slots |->
                          CASE i \in dropped -> [pending[i] EXCEPT !.attempts = -1]
                            [] i \in repeated -> Repeated(i)
                            [] OTHER -> pending[i]]
        /\ pendingEntries' = pendingEntries - Cardinality(dropped)
        /\ UNCHANGED <<phase, arpTable, now, impostors>>

tick ==
    /\ now < MaxTime
    /\ now' = now + 1
    /\ UNCHANGED <<phase, pending, pendingEntries, arpTable, impostors>>
-----------------------------------------------------------------------------
Senders == {s \in Ips \X Eths : s[2] \in SendersAs(s[1])}
HostAsks == \E s \in Senders, target \in Ips : processRequest(s[1], s[2], target)
HostReplies == \E s \in Senders : processReply(s[1], s[2], MyIpAddr, MyEthAddr)

Next ==
    \/ selfCheck \/ selfCheckOver
    \/ \E ip \in Hosts : resolve(ip)
    \/ HostAsks \/ HostReplies
    \/ \E overdue \in SUBSET Slots : driveArp(overdue)
    \/ tick

\* A call of driveArp in which the time of slot i, in use, is over.
driveOverdue(i) == ~Unused(i) /\ \E overdue \in SUBSET Slots : i \in overdue /\ driveArp(overdue)

\* The loops call driveArp over and over while the clock goes on: a slot that stays
\* in use is overdue in some call, though not in the same one as the others.
Spec == Init /\ [][Next]_vars /\ \A i \in Slots : WF_vars(driveOverdue(i))
-----------------------------------------------------------------------------
(* Properties. *)

\* The ranges of the tables and counters.
TypeOK ==
    /\ phase \in {"check", "run", "conflict"}
    /\ pending \in [Slots -> [attempts : -1..ARP_RETRIES, target : Ips]]
    /\ pendingEntries \in 0..ARP_MAX_PENDING
    /\ arpTable \in Seq([ipAddr : Ips, ethAddr : Eths, updated : 0..MaxTime])
    /\ now \in 0..MaxTime
    /\ impostors \subseteq ImpostorEths

\* pendingEntries is the number of slots in use, which sendArpRequest relies on
\* when it looks for the free one, and no address is waited for twice; the
\* tables keep their bounds.
PendingCounted ==
    /\ TypeOK
    /\ pendingEntries = Cardinality({i \in Slots : ~Unused(i)})
    /\ \A i, j \in Slots : ~Unused(i) /\ ~Unused(j) /\ pending[i].target = pending[j].target => i = j

\* The cache does not grow beyond its array and has one entry per address, so a
\* new Ethernet address is never hidden behind an old one.
OneEntryPerAddress ==
    /\ Len(arpTable) <= ARP_MAX_ENTRIES
    /\ \A j, k \in DOMAIN arpTable : arpTable[j].ipAddr = arpTable[k].ipAddr => j = k

\* What the cache says of a host is an address that host uses, also after an
\* entry was replaced.
CachedIsGenuine ==
    \A k \in DOMAIN arpTable :
        arpTable[k].ipAddr # MyIpAddr => arpTable[k].ethAddr \in EthsOf[arpTable[k].ipAddr]

\* The self-check reports a conflict only if another machine has the bot's IP
\* address, although the bot's own packets may come back to it.
ConflictIsReal == Cached(arpTable, MyIpAddr) \/ phase = "conflict" => impostors # {}

\* A request does not stay pending: it is answered or given up after
\* ARP_RETRIES repetitions.
PendingEnds ==
    \A i \in Slots : (~Unused(i)) ~> (Unused(i) \/ phase = "conflict")
=============================================================================
