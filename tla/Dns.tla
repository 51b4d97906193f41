-------------------------------- MODULE Dns ---------------------------------
(***************************************************************************)
(* The resolver of TCPLIB/DNS.CPP, as it is built for the bot (recursive   *)
(* queries), with the port handlers of TCPLIB/UDP.CPP: operators from a    *)
(* record of its static variables to the next one.                         *)
(*                                                                         *)
(* Names are model values; all of them are fully qualified, so that no     *)
(* domain is appended, and none is empty, numeric or too long.  sinceStart *)
(* and sinceUpdate are the times since pendingQuery.start and lastUpdate.  *)
(* The cache is kept in the order of update, the oldest entry first.       *)
(***************************************************************************)
EXTENDS Integers, SequencesExt, FiniteSetsExt

CONSTANTS
    Names,
    Addrs,
    NoAddr,               \* 0.0.0.0
    DNS_MAX_ENTRIES,
    DNS_RETRY_THRESHOLD,  \* in ticks
    DNS_TIMEOUT,          \* in ticks
    MaxIdent,             \* idents are numbers below this; 65536 in the code
    UDP_MAX_CALLBACKS,
    DNS_HANDLER_PORT

ASSUME DnsAssumption ==
    /\ NoAddr \notin Addrs
    /\ {DNS_MAX_ENTRIES, MaxIdent, UDP_MAX_CALLBACKS} \subseteq Nat \ {0}
    /\ {DNS_RETRY_THRESHOLD, DNS_TIMEOUT} \subseteq Nat

\* The static variables at program start.
DnsStart ==
    [queryPending |-> FALSE, lastQueryRc |-> "Good", dnsTable |-> << >>,
     ident |-> 0, sinceStart |-> 0, sinceUpdate |-> 0,
     originalTarget |-> CHOOSE n \in Names : TRUE, targetName |-> CHOOSE n \in Names : TRUE]
-----------------------------------------------------------------------------
(* UDP: the ports that have a handler. *)

\* The table and the return code.
registerCallback(ports, port) ==
    IF Len(ports) = UDP_MAX_CALLBACKS \/ port \in ToSet(ports)
    THEN [ports |-> ports, rc |-> -1]
    ELSE [ports |-> Append(ports, port), rc |-> 0]

\* The last entry takes the place of the one that is removed.
unregisterCallback(ports, port) ==
    LET at == {i \in DOMAIN ports : ports[i] = port}
    IN  IF at = {} THEN ports ELSE Front([ports EXCEPT ![Min(at)] = Last(ports)])

\* What may have been on the wire after a request was to be sent: it has gone out,
\* or ARP did not answer in time.
sendUdp(wire, request) == {wire, wire \cup {request}}
-----------------------------------------------------------------------------
(* The cache and the hosts file. *)

find(table, name) == {k \in DOMAIN table : table[k].name = name}

addOrUpdate(table, name, addr) ==
    LET at == find(table, name)
        kept == CASE at # {} -> RemoveAt(table, Min(at))
                  [] at = {} /\ Len(table) = DNS_MAX_ENTRIES -> Tail(table)
                  [] OTHER -> table
    IN  Append(kept, [name |-> name, ipAddr |-> addr])

\* The file is a sequence of addresses with names.  The scan goes on after a
\* match, so that the last one counts.
scanHostsFile(file, name) ==
    LET matches == {k \in DOMAIN file : name \in file[k].names}
    IN  IF matches = {} THEN NoAddr ELSE file[Max(matches)].ipAddr
-----------------------------------------------------------------------------
(* Queries.  The result of resolve has the return code, the address written  *)
(* to the caller's variable, the new state, and whether a request is sent.   *)

newQuery(d, name, ident) ==
    [d EXCEPT !.queryPending = TRUE, !.lastQueryRc = "Good", !.ident = ident,
              !.sinceStart = 0, !.sinceUpdate = 0, !.originalTarget = name, !.targetName = name]

resolve(d, name, file, hasNameServer, ident) ==
    LET hit == find(d.dnsTable, name)
        host == scanHostsFile(file, name)
        Result(rc, addr, state) == [rc |-> rc, addr |-> addr, dns |-> state]
    IN  CASE ~hasNameServer -> Result(-2, NoAddr, d)
          [] hasNameServer /\ hit # {} -> Result(0, d.dnsTable[Min(hit)].ipAddr, d)
          [] hasNameServer /\ hit = {} /\ host # NoAddr ->
                Result(0, host, [d EXCEPT !.dnsTable = addOrUpdate(@, name, host)])
          [] hasNameServer /\ hit = {} /\ host = NoAddr /\ d.queryPending -> Result(2, NoAddr, d)
          [] OTHER -> Result(1, NoAddr, newQuery(d, name, ident))

\* The request that sendRequest puts on the wire, once ARP knows where to.
\* While it waits for that, only answers to older requests can come in, and the
\* handler drops them.
Request(d) == [ident |-> d.ident, name |-> d.targetName]
-----------------------------------------------------------------------------
(* Answers: an ident, a response code, and the records of the three sections *)
(* in their order.                                                          *)

\* Slip: any address counts.
TakesAddress_Any(d, r) == r.type = "A"

TakesAddress(d, r) == r.type = "A" /\ r.section = "answer" /\ r.name = d.targetName

\* One record.  A canonical name is taken from any section and of any owner;
\* other types are skipped.
takeRecord(d, r) ==
    CASE TakesAddress(d, r) ->
            [d EXCEPT !.dnsTable = addOrUpdate(@, d.originalTarget, r.data),
                      !.queryPending = FALSE, !.lastQueryRc = "Good"]
      [] ~TakesAddress(d, r) /\ r.type = "CNAME" -> [d EXCEPT !.targetName = r.data]
      [] OTHER -> d

\* Slip: a query without an address goes on.
answerDone_GoesOn(d, tested, stored) ==
    IF ~d.queryPending \/ tested = "Good" THEN d
    ELSE [d EXCEPT !.queryPending = FALSE, !.lastQueryRc = stored]

\* The end of the handler: without an address the query has failed.  The response
\* code is read twice, to test it and to keep it, out of a packet that has been
\* freed before; the two need not be the same.
answerDone(d, tested, stored) ==
    IF ~d.queryPending THEN d
    ELSE [d EXCEPT !.queryPending = FALSE,
                   !.lastQueryRc = IF tested # "Good" THEN stored ELSE "UnknownError"]

\* The records of an answer, one after the other.
takeRecords(d, records) ==
    LET taken[n \in 0..Len(records)] == IF n = 0 THEN d ELSE takeRecord(taken[n - 1], records[n])
    IN  taken[Len(records)]

\* It is not asked whether a query is pending at all.
udpHandler(d, m, tested, stored) ==
    IF m.ident # d.ident THEN d ELSE answerDone(takeRecords(d, m.records), tested, stored)

\* Udp::process: a packet for a port without a handler is dropped.
udpProcess(d, ports, m, tested, stored) ==
    IF DNS_HANDLER_PORT \in ToSet(ports) THEN udpHandler(d, m, tested, stored) ELSE d
-----------------------------------------------------------------------------
(* The clock. *)

\* Slip: the whole query starts anew.
drivePendingQuery2_Restarts(d) ==
    [d EXCEPT !.sinceUpdate = 0, !.ident = (@ + 1) % MaxIdent, !.sinceStart = 0]

\* The request is sent again under the next ident.
drivePendingQuery2(d) == [d EXCEPT !.sinceUpdate = 0, !.ident = (@ + 1) % MaxIdent]

RetryDue(d) ==
    /\ d.queryPending /\ d.sinceUpdate >= DNS_RETRY_THRESHOLD
    /\ d.sinceStart <= DNS_TIMEOUT

drivePendingQuery(d) ==
    CASE RetryDue(d) -> drivePendingQuery2(d)
      [] d.queryPending /\ d.sinceUpdate >= DNS_RETRY_THRESHOLD /\ ~RetryDue(d) ->
            [d EXCEPT !.queryPending = FALSE, !.lastQueryRc = "Timeout"]
      [] OTHER -> d

\* Times beyond the limits are all the same.
Later(d) == [d EXCEPT !.sinceStart = IF @ <= DNS_TIMEOUT THEN @ + 1 ELSE @,
                      !.sinceUpdate = IF @ < DNS_RETRY_THRESHOLD THEN @ + 1 ELSE @]
=============================================================================
