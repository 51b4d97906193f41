------------------------------ MODULE BotLife -------------------------------
(***************************************************************************)
(* The life of the program: main, setupSocket and cleanupSocket of         *)
(* BOT/BOT.CPP, the start and the end of the stack in TCPLIB/UTILS.CPP,    *)
(* and the parts of the stack these set up and take down.  The packet      *)
(* driver may interrupt between any two steps.                             *)
(*                                                                         *)
(* pc names the call that comes next; the connection itself is modelled by *)
(* BotTcp, the tables of reassembly by IpFrag and the self-check's ARP     *)
(* traffic by Arp, of which only the outcomes are left here.               *)
(***************************************************************************)
EXTENDS Dns

CONSTANTS
    PACKET_BUFFERS,
    NoSocket,        \* NULL
    Host,            \* the name of the IRC server
    BotHostAddr,     \* what a good BOT_HOST holds
    Canonical,       \* the aliases: a function from names to names
    AddrsOf,         \* the addresses of each name that is no alias
    HostsFiles,      \* what the hosts file may be
    Replies          \* what the name server may say: a code and records

\* initStack is asked for one socket.
TheSocket == "socket"

ASSUME LifeAssumption ==
    /\ PACKET_BUFFERS \in Nat \ {0}
    /\ NoSocket # TheSocket
    /\ Host \in Names /\ BotHostAddr \in Addrs
    /\ Canonical \in [Names -> Names] /\ AddrsOf \in [Names -> SUBSET Addrs]

\* The name server is honest: the addresses in an answer are those of the name
\* that was asked for, or of the name this one is an alias of.
Records == [section : {"answer", "authority", "additional"}, type : {"A", "CNAME", "NS"},
            name : Names, data : Names \cup Addrs]
ASSUME RepliesAssumption ==
    \A r \in Replies :
        /\ r.records \in Seq(Records)
        /\ \A k \in DOMAIN r.records :
              r.records[k].type = "A" /\ r.records[k].section = "answer" =>
                  r.records[k].data \in AddrsOf[Host] \cup AddrsOf[Canonical[Host]]

ASSUME HostsFilesAssumption ==
    HostsFiles \subseteq Seq([ipAddr : Addrs \cup {NoAddr}, names : SUBSET Names])

VARIABLES
    pc,
    ret,         \* where endStack returns to
    env,         \* the configuration: the mTCP file, the hosts file, BOT_HOST
    drv,         \* the packet driver and the packet buffers
    vec,         \* the interrupt vectors
    mem,         \* the blocks of memory
    socks,       \* the socket tables
    ports,       \* the UDP ports that have a handler
    dns,
    asked,       \* the requests that have been on the wire
    addr,        \* setupSocket's variable; NoAddr while nothing was written
    sock,
    started,     \* initStack has returned 0
    faults,      \* what went wrong beyond repair
    ignored      \* history: what the driver did that the code does not look for

vars == <<pc, ret, env, drv, vec, mem, socks, ports, dns, asked, addr, sock, started, faults, ignored>>
stack == <<drv, vec, mem, socks, ports>>

Blocks == {"packets", "ip", "sockets", "xmit"}

MtcpCfgs == [file : {"missing", "bad", "read"}, packetInt : BOOLEAN, ipAddr : BOOLEAN,
             leased : BOOLEAN, nameServer : BOOLEAN, preferred : BOOLEAN]

\* Static variables are zero; the old Ctrl-Break handler is one of them.
Init ==
    /\ pc = "openLog" /\ ret = "exited"
    /\ env \in [cfg : MtcpCfgs, hosts : HostsFiles, botHost : {"unset", "bad", "good"}]
    /\ drv = [Packet_int |-> FALSE, handle |-> "none", fs_index |-> 0, queued |-> 0, frags |-> 0]
    /\ vec = [timer_hooked |-> FALSE, ctrlBreak |-> "dos", oldCtrlBreak |-> "zero"]
    /\ mem = [b \in Blocks |-> "none"]
    /\ socks = [avail |-> << >>, active |-> << >>, allocated |-> 0]
    /\ ports = << >> /\ dns = DnsStart /\ asked = {}
    /\ addr = NoAddr /\ sock = NoSocket /\ started = FALSE
    /\ faults = {} /\ ignored = {}
-----------------------------------------------------------------------------
(* The start. *)

\* The order of the calls in setupSocket and initStack up to the self-check.
SetupNext ==
    [parseEnv |-> "Buffer_init", Buffer_init |-> "Packet_init", Packet_init |-> "hook",
     hook |-> "initForReassembly", initForReassembly |-> "TcpSocketMgr_init",
     TcpSocketMgr_init |-> "TcpBuffer_init", TcpBuffer_init |-> "Dns_init",
     Dns_init |-> "Buffer_startReceiving", Buffer_startReceiving |-> "selfCheck"]

goesOn == pc' = SetupNext[pc] /\ UNCHANGED ret

\* Slip: a failed setup is not cleaned up.
setupFails_JustExits == pc' = "exited" /\ UNCHANGED ret

\* Slip: it ends the stack before main does.
setupFails_EndsStack == pc' = "Buffer_stopReceiving" /\ ret' = "close"

\* main calls cleanupSocket, whatever has failed.
setupFails == pc' = "close" /\ UNCHANGED ret

\* initStack calls endStack before it reports the failure.
initStackFails == pc' = "Buffer_stopReceiving" /\ ret' = "close"

openLog ==
    /\ pc = "openLog"
    /\ pc' \in {"parseEnv", "exited"}
    /\ UNCHANGED <<ret, env, stack, dns, asked, addr, sock, started, faults, ignored>>

\* The lines must be read and well formed, PACKETINT and IPADDR be there, and
\* a lease from DHCP not be over.
CfgGood(c) == c.file = "read" /\ c.packetInt /\ c.ipAddr /\ c.leased

NameServerSet(c) == c.nameServer \/ c.preferred

parseEnv ==
    /\ pc = "parseEnv"
    /\ IF CfgGood(env.cfg) THEN goesOn ELSE setupFails
    /\ UNCHANGED <<env, stack, dns, asked, addr, sock, started, faults, ignored>>

Buffer_init ==
    /\ pc = "Buffer_init"
    /\ \/ /\ goesOn
          /\ mem' = [mem EXCEPT !["packets"] = "live"]
          /\ drv' = [drv EXCEPT !.fs_index = 0, !.queued = 0]
       \/ setupFails /\ UNCHANGED <<mem, drv>>
    /\ UNCHANGED <<env, vec, socks, ports, dns, asked, addr, sock, started, faults, ignored>>

Packet_init ==
    /\ pc = "Packet_init"
    /\ \/ goesOn /\ drv' = [drv EXCEPT !.Packet_int = TRUE, !.handle = "held"]
       \/ setupFails /\ UNCHANGED drv
    /\ UNCHANGED <<env, vec, mem, socks, ports, dns, asked, addr, sock, started, faults, ignored>>

\* The break handler, the two EtherTypes, and Timer_start.
hook ==
    /\ pc = "hook"
    /\ goesOn
    /\ vec' = [timer_hooked |-> TRUE, ctrlBreak |-> "bot", oldCtrlBreak |-> vec.ctrlBreak]
    /\ UNCHANGED <<env, drv, mem, socks, ports, dns, asked, addr, sock, started, faults, ignored>>

\* One of the three blocks that are allocated once the driver is live.
allocate(block) ==
    \/ goesOn /\ mem' = [mem EXCEPT ![block] = "live"]
    \/ initStackFails /\ UNCHANGED mem

initForReassembly ==
    /\ pc = "initForReassembly"
    /\ allocate("ip")
    /\ UNCHANGED <<env, drv, vec, socks, ports, dns, asked, addr, sock, started, faults, ignored>>

TcpSocketMgr_init ==
    /\ pc = "TcpSocketMgr_init"
    /\ allocate("sockets")
    /\ socks' = IF mem'["sockets"] # "live" THEN [socks EXCEPT !.allocated = 0]
                ELSE [avail |-> <<TheSocket>>, active |-> << >>, allocated |-> 1]
    /\ UNCHANGED <<env, drv, vec, ports, dns, asked, addr, sock, started, faults, ignored>>

TcpBuffer_init ==
    /\ pc = "TcpBuffer_init"
    /\ allocate("xmit")
    /\ UNCHANGED <<env, drv, vec, socks, ports, dns, asked, addr, sock, started, faults, ignored>>

Dns_init ==
    /\ pc = "Dns_init"
    /\ LET r == registerCallback(ports, DNS_HANDLER_PORT)
       IN  /\ ports' = r.ports
           /\ IF r.rc = 0 THEN goesOn ELSE initStackFails
    /\ UNCHANGED <<env, drv, vec, mem, socks, dns, asked, addr, sock, started, faults, ignored>>

Buffer_startReceiving ==
    /\ pc = "Buffer_startReceiving"
    /\ goesOn
    /\ drv' = [drv EXCEPT !.fs_index = PACKET_BUFFERS]
    /\ UNCHANGED <<env, vec, mem, socks, ports, dns, asked, addr, sock, started, faults, ignored>>

selfCheckDone ==
    /\ pc = "selfCheck"
    /\ \/ pc' = "getSocket" /\ started' = TRUE /\ UNCHANGED ret
       \/ initStackFails /\ UNCHANGED started
    /\ UNCHANGED <<env, stack, dns, asked, addr, sock, faults, ignored>>
-----------------------------------------------------------------------------
(* Packets. *)

\* Both calls of the driver: a packet takes a buffer and is queued.
receiver ==
    /\ drv.handle = "held" /\ drv.fs_index > 0
    /\ drv' = [drv EXCEPT !.fs_index = @ - 1, !.queued = @ + 1]
    /\ UNCHANGED <<pc, ret, env, vec, mem, socks, ports, dns, asked, addr, sock, started, faults, ignored>>

Messages == {[ident |-> q.ident, code |-> r.code, records |-> r.records] : q \in asked, r \in Replies}

\* What a byte may hold that the next packet has been written over.
Codes == {r.code : r \in Replies} \cup {"Good"}

\* udpHandler has freed the packet when it tests the response code and, if that
\* is an error, reads it again to keep it.  The driver may have given the buffer
\* to the next packet before the first of the two reads, or between them.
Overwritten(code) == {<<c, c>> : c \in Codes} \cup {<<code, c>> : c \in Codes}

\* An error was seen, and none was kept.
ErrorLost(read) == read[1] # "Good" /\ read[2] = "Good"

\* What PACKET_PROCESS_SINGLE may do: nothing, hand a message of the name server
\* to its handler, whose buffer the driver may take at once, free a packet nobody
\* wants, or keep a fragment, while some of the fragments, this one perhaps among
\* them, are complete or overdue.
PACKET_PROCESS_SINGLE ==
    LET freed == [drv EXCEPT !.queued = @ - 1, !.fs_index = @ + 1]
        Outcome(d, resolver, lost) == [drv |-> d, dns |-> resolver, errorLost |-> lost]
    IN  IF drv.queued = 0 THEN {Outcome(drv, dns, FALSE)}
        ELSE {Outcome(freed, udpProcess(dns, ports, m, m.code, m.code), FALSE) : m \in Messages}
             \cup (UNION {{Outcome(drv, udpProcess(dns, ports, m, read[1], read[2]), ErrorLost(read)) :
                             read \in Overwritten(m.code)} : m \in Messages})
             \cup {Outcome(freed, dns, FALSE)}
             \cup {Outcome([drv EXCEPT !.queued = @ - 1, !.frags = @ + 1 - k, !.fs_index = @ + k],
                           dns, FALSE) : k \in 0..(drv.frags + 1)}

\* The packets of a turn have been processed.
processed(o) ==
    /\ drv' = o.drv
    /\ ignored' = IF o.errorLost THEN ignored \cup {"overwritten"} ELSE ignored

\* A turn of one of the loops that do not drive a query.
turn ==
    /\ pc \in {"selfCheck", "connecting", "asmRun", "close"}
    /\ pc = "close" => sock # NoSocket
    /\ \E o \in PACKET_PROCESS_SINGLE : processed(o) /\ dns' = o.dns
    /\ UNCHANGED <<pc, ret, env, vec, mem, socks, ports, asked, addr, sock, started, faults>>

\* A request is on the wire, unless ARP did not answer in time.
sendRequest(d) == asked' \in sendUdp(asked, Request(d))

\* A turn of one of those that do.
drivenTurn ==
    \E o \in PACKET_PROCESS_SINGLE :
        /\ processed(o)
        /\ dns' = drivePendingQuery(o.dns)
        /\ IF RetryDue(o.dns) THEN sendRequest(dns') ELSE UNCHANGED asked

\* recvNewPacket's loop drives a query too.
recvTurn ==
    /\ pc = "asmRun" /\ drivenTurn
    /\ UNCHANGED <<pc, ret, env, vec, mem, socks, ports, addr, sock, started, faults>>
-----------------------------------------------------------------------------
(* The socket and the server's address. *)

getSocket ==
    /\ pc = "getSocket"
    /\ IF socks.avail = << >>
       THEN setupFails /\ UNCHANGED <<socks, sock>>
       ELSE /\ pc' = "getEnvironmentDetails" /\ UNCHANGED ret
            /\ sock' = Last(socks.avail)
            /\ socks' = [socks EXCEPT !.avail = Front(@)]
    /\ UNCHANGED <<env, drv, vec, mem, ports, dns, asked, addr, started, faults, ignored>>

getEnvironmentDetails ==
    /\ pc = "getEnvironmentDetails"
    /\ \/ env.botHost = "good" /\ pc' = "connect" /\ addr' = BotHostAddr /\ UNCHANGED ret
       \/ env.botHost = "bad" /\ setupFails /\ UNCHANGED addr
       \/ env.botHost = "unset" /\ pc' = "resolve" /\ UNCHANGED <<ret, addr>>
    /\ UNCHANGED <<env, stack, dns, asked, sock, started, faults, ignored>>

resolveHost(ident) == resolve(dns, Host, env.hosts, NameServerSet(env.cfg), ident)

\* scanHostsFile clears the caller's variable before it looks for the name.
Written(r) == IF r.rc >= 0 THEN r.addr ELSE addr

firstResolve ==
    /\ pc = "resolve"
    /\ \E ident \in 0..(MaxIdent - 1) :
          LET r == resolveHost(ident)
          IN  /\ IF r.rc < 0 THEN setupFails ELSE pc' = "dnsLoop" /\ UNCHANGED ret
              /\ dns' = r.dns /\ addr' = Written(r)
              /\ IF r.rc = 1 THEN sendRequest(r.dns) ELSE UNCHANGED asked
    /\ UNCHANGED <<env, stack, sock, started, faults, ignored>>

\* One turn of the loop that waits for the query; Alt-X ends it.
dnsLoop ==
    /\ pc = "dnsLoop" /\ dns.queryPending
    /\ drivenTurn
    /\ (UNCHANGED <<pc, ret>> \/ setupFails)
    /\ UNCHANGED <<env, vec, mem, socks, ports, addr, sock, started, faults>>

\* The second resolve's result is not looked at.
dnsDone ==
    /\ pc = "dnsLoop" /\ ~dns.queryPending
    /\ IF dns.lastQueryRc # "Good"
       THEN setupFails /\ UNCHANGED <<dns, addr, asked>>
       ELSE /\ pc' = "connect" /\ UNCHANGED ret
            /\ \E ident \in 0..(MaxIdent - 1) :
                  LET r == resolveHost(ident)
                  IN  /\ dns' = r.dns /\ addr' = Written(r)
                      /\ IF r.rc = 1 THEN sendRequest(r.dns) ELSE UNCHANGED asked
    /\ UNCHANGED <<env, stack, sock, started, faults, ignored>>

\* The timer interrupt.
tick ==
    /\ vec.timer_hooked /\ dns.queryPending
    /\ dns' = Later(dns)
    /\ UNCHANGED <<pc, ret, env, stack, asked, addr, sock, started, faults, ignored>>
-----------------------------------------------------------------------------
(* The connection. *)

makeActive(table, s) == IF s \in ToSet(table) THEN table ELSE Append(table, s)

\* The sockets behind it move up.
makeInactive(table, s) ==
    LET at == {i \in DOMAIN table : table[i] = s}
    IN  IF at = {} THEN table ELSE RemoveAt(table, Min(at))

connect ==
    /\ pc = "connect" /\ pc' = "connecting"
    /\ socks' = [socks EXCEPT !.active = makeActive(@, sock)]
    /\ UNCHANGED <<ret, env, drv, vec, mem, ports, dns, asked, addr, sock, started, faults, ignored>>

connected ==
    /\ pc = "connecting"
    /\ ((pc' = "asmRun" /\ UNCHANGED ret) \/ setupFails)
    /\ UNCHANGED <<env, stack, dns, asked, addr, sock, started, faults, ignored>>

asmRunDone ==
    /\ pc = "asmRun" /\ pc' = "close"
    /\ UNCHANGED <<ret, env, stack, dns, asked, addr, sock, started, faults, ignored>>
-----------------------------------------------------------------------------
(* The end. *)

\* sock->close.  Without a socket the state, the queues and the receive buffer
\* of a null pointer are used: the call may return, or never.
close ==
    /\ pc = "close"
    /\ IF sock = NoSocket
       THEN /\ pc' \in {"freeSocket", "lost"}
            /\ faults' = faults \cup {"closedNull"}
            /\ UNCHANGED socks
       ELSE /\ pc' = "freeSocket"
            /\ socks' = [socks EXCEPT !.active = makeInactive(@, sock)]
            /\ UNCHANGED faults
    /\ UNCHANGED <<ret, env, drv, vec, mem, ports, dns, asked, addr, sock, started, ignored>>

\* Slip: the tables are not compared.
Returned_Unchecked(s) == [socks EXCEPT !.avail = Append(@, s)]

Returned(s) ==
    IF Len(socks.avail) = socks.allocated THEN socks ELSE [socks EXCEPT !.avail = Append(@, s)]

freeSocket ==
    /\ pc = "freeSocket"
    /\ socks' = Returned(sock)
    /\ pc' = "Buffer_stopReceiving" /\ ret' = "exited"
    /\ UNCHANGED <<env, drv, vec, mem, ports, dns, asked, addr, sock, started, faults, ignored>>

\* Slip: the driver is released after everything else.
EndNext_ReleaseLast ==
    [Buffer_stopReceiving |-> "stopDnsTcp", stopDnsTcp |-> "reassemblyStop",
     reassemblyStop |-> "Packet_release_type", Packet_release_type |-> "unhook", unhook |-> ret]

\* The order of the calls in endStack.
EndNext ==
    [Buffer_stopReceiving |-> "Packet_release_type", Packet_release_type |-> "stopDnsTcp",
     stopDnsTcp |-> "reassemblyStop", reassemblyStop |-> "unhook", unhook |-> ret]

Buffer_stopReceiving ==
    /\ pc = "Buffer_stopReceiving" /\ pc' = EndNext[pc]
    /\ drv' = [drv EXCEPT !.fs_index = 0]
    /\ UNCHANGED <<ret, env, vec, mem, socks, ports, dns, asked, addr, sock, started, faults, ignored>>

\* Without Packet_int it is INT 0 that is called, the division by zero; what
\* happens then is up to its handler.  The driver may refuse; the result is not
\* looked at.
Packet_release_type ==
    /\ pc = "Packet_release_type"
    /\ \/ /\ ~drv.Packet_int
          /\ pc' \in {EndNext[pc], "exited"} /\ faults' = faults \cup {"int0"}
          /\ UNCHANGED <<drv, ignored>>
       \/ /\ drv.Packet_int
          /\ pc' = EndNext[pc] /\ UNCHANGED faults
          /\ \/ drv' = [drv EXCEPT !.handle = "released"] /\ UNCHANGED ignored
             \/ ignored' = ignored \cup {"refused"} /\ UNCHANGED drv
    /\ UNCHANGED <<ret, env, vec, mem, socks, ports, dns, asked, addr, sock, started>>

\* free, through a pointer that is not cleared afterwards.
Freed(block) == [mem EXCEPT ![block] = IF @ = "live" THEN "freed" ELSE @]
FreedTwice(block) == IF mem[block] = "freed" THEN {"freedTwice"} ELSE {}

\* Dns::stop, TcpSocketMgr::stop and TcpBuffer::stop.  The manager's pointer to
\* the sockets was never set, so that they are not freed.
stopDnsTcp ==
    /\ pc = "stopDnsTcp" /\ pc' = EndNext[pc]
    /\ ports' = unregisterCallback(ports, DNS_HANDLER_PORT)
    /\ mem' = Freed("xmit") /\ faults' = faults \cup FreedTwice("xmit")
    /\ UNCHANGED <<ret, env, drv, vec, socks, dns, asked, addr, sock, started, ignored>>

\* The fragments' buffers go back to the free list.
reassemblyStop ==
    /\ pc = "reassemblyStop" /\ pc' = EndNext[pc]
    /\ drv' = [drv EXCEPT !.fs_index = @ + drv.frags, !.frags = 0]
    /\ mem' = Freed("ip") /\ faults' = faults \cup FreedTwice("ip")
    /\ UNCHANGED <<ret, env, vec, socks, ports, dns, asked, addr, sock, started, ignored>>

\* Timer_stop, the break handler, and Buffer_stop, whose pointer was never set.
unhook ==
    /\ pc = "unhook" /\ pc' = EndNext[pc]
    /\ vec' = [vec EXCEPT !.timer_hooked = FALSE, !.ctrlBreak = vec.oldCtrlBreak]
    /\ faults' = faults \cup (IF vec.oldCtrlBreak = "zero" THEN {"nullVector"} ELSE {})
    /\ UNCHANGED <<ret, env, drv, mem, socks, ports, dns, asked, addr, sock, started, ignored>>
-----------------------------------------------------------------------------
initStack ==
    \/ Buffer_init \/ Packet_init \/ hook \/ initForReassembly \/ TcpSocketMgr_init
    \/ TcpBuffer_init \/ Dns_init \/ Buffer_startReceiving \/ selfCheckDone

setupSocket ==
    \/ parseEnv \/ initStack \/ getSocket \/ getEnvironmentDetails
    \/ firstResolve \/ dnsLoop \/ dnsDone \/ connect \/ connected

endStack ==
    Buffer_stopReceiving \/ Packet_release_type \/ stopDnsTcp \/ reassemblyStop \/ unhook

cleanupSocket == close \/ freeSocket \/ endStack

Next == openLog \/ setupSocket \/ asmRunDone \/ cleanupSocket \/ turn \/ recvTurn \/ receiver \/ tick

\* The loop runs and the clock ticks.
Spec == Init /\ [][Next]_vars /\ WF_vars(dnsLoop \/ dnsDone) /\ WF_vars(tick)
-----------------------------------------------------------------------------
(* Properties. *)

\* The addresses the name has: by the hosts file, or by the name server's records
\* for it or for the name it is an alias of.
Genuine(name) ==
    AddrsOf[name] \cup AddrsOf[Canonical[name]]
    \cup {env.hosts[k].ipAddr : k \in {i \in DOMAIN env.hosts : name \in env.hosts[i].names}}

\* However often requests are repeated and answers are late, repeated or without
\* an address, the bot connects only to BOT_HOST or to an address the host name
\* really has (setupSocket, udpHandler, the second resolve).  There is one way
\* around it, and it leads to 0.0.0.0 and nowhere else: a packet that overwrote an
\* error between the two reads of it, so that the query passed for a good one.
ConnectsToAnswered ==
    pc \in {"connect", "connecting", "asmRun"} =>
        \/ env.botHost = "good" /\ addr = BotHostAddr
        \/ env.botHost # "good" /\ addr \in Genuine(Host)
        \/ env.botHost # "good" /\ addr = NoAddr /\ "overwritten" \in ignored

\* A request that is repeated asks for the same name as the first one, although
\* answers replace targetName by the canonical name (udpHandler,
\* drivePendingQuery2).
AsksOriginal ==
    /\ \A q \in asked : q.name = Host
    /\ dns.queryPending => dns.targetName = dns.originalTarget

\* Once the driver can interrupt with packets everything they may reach is there,
\* until it no longer can (initStack, endStack).  If the driver has refused to be
\* released, packets may come again at the earliest when reassemblyStop has freed
\* the fragments' buffers.
ReceivesOnlyWhenReady ==
    drv.handle = "held" /\ drv.fs_index > 0 =>
        \/ /\ \A b \in Blocks : mem[b] = "live"
           /\ DNS_HANDLER_PORT \in ToSet(ports)
           /\ vec.timer_hooked
        \/ "refused" \in ignored /\ pc \notin {"Packet_release_type", "stopDnsTcp", "reassemblyStop"}

\* A program that has ended has left no interrupt behind that leads into its
\* memory, however far it came, but the packet driver's if that has refused to be
\* released (main, endStack).
UnhookedAtExit ==
    pc = "exited" =>
        /\ drv.handle = "held" => "refused" \in ignored
        /\ ~vec.timer_hooked /\ vec.ctrlBreak # "bot"

\* A socket is in the bot's hand or free, and never NULL or twice in a table;
\* what is free is not active (getSocket, freeSocket, makeActive, makeInactive).
SocketsAccounted ==
    /\ \A t \in {socks.avail, socks.active} : IsInjective(t) /\ ToSet(t) \subseteq {TheSocket}
    /\ ToSet(socks.avail) \cap ToSet(socks.active) = {}
    /\ Len(socks.avail) <= socks.allocated
    /\ socks.active # << >> => sock = TheSocket

\* After initStack has succeeded the end is clean: memory is freed once, only
\* vectors that were saved are restored, and no null pointer is closed
\* (setupSocket, cleanupSocket, endStack).
CleanAfterStart == started => faults = {}

\* A query comes to its end, with an answer or without (drivePendingQuery).
QueryEnds == pc = "dnsLoop" ~> pc # "dnsLoop"

\* endStack is safe to call at any time, as UTILS.CPP:936 says: it frees nothing
\* twice, calls the driver's interrupt only if there is one, and restores only
\* what was saved.
EndStackSafe == faults \subseteq {"closedNull"}
=============================================================================
