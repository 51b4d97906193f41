--------------------------- MODULE BotLifeProofs ----------------------------
(***************************************************************************)
(* For every configuration, name server and number of packet buffers: the  *)
(* driver can deliver packets only while everything they may reach is      *)
(* there, and a program that has ended has left no interrupt hooked, but   *)
(* for a driver that has refused to be released; the bot connects only to  *)
(* an address of the host, but for an answer that was overwritten while    *)
(* its code was read; and no socket is lost.                               *)
(***************************************************************************)
EXTENDS BotLife, SequenceTheorems, NatLemmas

\* The calls before the driver is live, those until packets may come, the loops
\* with what is between them, the calls until the driver is released, and the rest.
Starting == {"openLog", "parseEnv", "Buffer_init", "Packet_init"}
Opening == {"hook", "initForReassembly", "TcpSocketMgr_init", "TcpBuffer_init",
            "Dns_init", "Buffer_startReceiving"}
Running == {"selfCheck", "getSocket", "getEnvironmentDetails", "resolve", "dnsLoop",
            "connect", "connecting", "asmRun"}
Leaving == {"close", "freeSocket", "Buffer_stopReceiving", "Packet_release_type", "lost"}
Ending == {"stopDnsTcp", "reassemblyStop", "unhook", "exited"}

Drivers == [Packet_int : BOOLEAN, handle : {"none", "held", "released"},
            fs_index : Nat, queued : Nat, frags : Nat]

Types ==
    /\ pc \in Starting \cup Opening \cup Running \cup Leaving \cup Ending
    /\ ret \in {"exited", "close"}
    /\ drv \in Drivers
    /\ vec \in [timer_hooked : BOOLEAN, ctrlBreak : {"dos", "bot", "zero"},
                oldCtrlBreak : {"dos", "zero"}]
    /\ mem \in [Blocks -> {"none", "live", "freed"}]

\* No buffer is free, queued or held.
Empty == drv.fs_index = 0 /\ drv.queued = 0 /\ drv.frags = 0

Ready ==
    /\ \A b \in Blocks : mem[b] = "live"
    /\ DNS_HANDLER_PORT \in ToSet(ports)
    /\ vec.timer_hooked

\* What has been set up when a call of initStack is reached.
Progress ==
    /\ pc \in Starting \cup {"hook"} => vec.ctrlBreak = "dos" /\ ~vec.timer_hooked
    /\ pc \in Starting \cup Opening => Empty
    /\ pc \in Starting \cup (Opening \ {"Buffer_startReceiving"}) => ports = << >>
    /\ pc \in {"Packet_init"} \cup Opening => mem["packets"] = "live"
    /\ pc \in Opening => drv.Packet_int
    /\ pc \in Opening \ {"hook"} => vec.timer_hooked
    /\ pc \in Opening \ {"hook", "initForReassembly"} => mem["ip"] = "live"
    /\ pc \in {"TcpBuffer_init", "Dns_init", "Buffer_startReceiving"} => mem["sockets"] = "live"
    /\ pc \in {"Dns_init", "Buffer_startReceiving"} => mem["xmit"] = "live"
    /\ pc = "Buffer_startReceiving" => DNS_HANDLER_PORT \in ToSet(ports)
    /\ pc \in Running => Ready

\* The calls of endStack from the one that shuts packets out to the one that frees
\* the fragments' buffers.
Quiet == {"Packet_release_type", "stopDnsTcp", "reassemblyStop"}

\* Where the driver is live, and what it may find.
Driver ==
    /\ pc \in Starting => drv.handle # "held"
    /\ pc \in Ending /\ drv.handle = "held" => "refused" \in ignored
    /\ pc \in Quiet => drv.fs_index = 0
    /\ drv.handle = "held" => Ready \/ Empty \/ pc \in Quiet \/ "refused" \in ignored

\* Only a program that had a driver has hooked anything.
Hooks ==
    /\ drv.handle = "held" \/ vec.timer_hooked \/ vec.ctrlBreak = "bot" => drv.Packet_int
    /\ pc = "exited" => ~vec.timer_hooked /\ vec.ctrlBreak # "bot"

IInv == Types /\ Progress /\ Driver /\ Hooks
-----------------------------------------------------------------------------
(* The helpers. *)

\* What may come of a call of PACKET_PROCESS_SINGLE with a packet in the queue.
LEMMA Outcomes ==
    ASSUME NEW o \in PACKET_PROCESS_SINGLE, drv.queued # 0
    PROVE  LET freed == [drv EXCEPT !.queued = @ - 1, !.fs_index = @ + 1]
               kept(k) == [drv EXCEPT !.queued = @ - 1, !.frags = @ + 1 - k, !.fs_index = @ + k]
           IN  /\ o.drv = drv \/ o.drv = freed \/ \E k \in 0..(drv.frags + 1) : o.drv = kept(k)
               /\ \/ o.dns = dns
                  \/ \E m \in Messages : o.dns = udpProcess(dns, ports, m, m.code, m.code)
                  \/ \E m \in Messages : \E read \in Overwritten(m.code) :
                        /\ o.dns = udpProcess(dns, ports, m, read[1], read[2])
                        /\ o.errorLost = ErrorLost(read)
<1> DEFINE freed == [drv EXCEPT !.queued = @ - 1, !.fs_index = @ + 1]
           kept(k) == [drv EXCEPT !.queued = @ - 1, !.frags = @ + 1 - k, !.fs_index = @ + k]
           Outcome(d, resolver, lost) == [drv |-> d, dns |-> resolver, errorLost |-> lost]
           answers == {Outcome(freed, udpProcess(dns, ports, m, m.code, m.code), FALSE) : m \in Messages}
           torn(m) == {Outcome(drv, udpProcess(dns, ports, m, read[1], read[2]), ErrorLost(read)) :
                         read \in Overwritten(m.code)}
           allTorn == UNION {torn(m) : m \in Messages}
           fragments == {Outcome(kept(k), dns, FALSE) : k \in 0..(drv.frags + 1)}
<1>0. PACKET_PROCESS_SINGLE
        = answers \cup allTorn \cup {Outcome(freed, dns, FALSE)} \cup fragments
  BY Zenon DEF PACKET_PROCESS_SINGLE
<1>1. \/ \E m \in Messages : o = Outcome(freed, udpProcess(dns, ports, m, m.code, m.code), FALSE)
      \/ \E m \in Messages : \E read \in Overwritten(m.code) :
            o = Outcome(drv, udpProcess(dns, ports, m, read[1], read[2]), ErrorLost(read))
      \/ o = Outcome(freed, dns, FALSE)
      \/ \E k \in 0..(drv.frags + 1) : o = Outcome(kept(k), dns, FALSE)
  <2> HIDE DEF freed, kept, Outcome
  <2>1. \/ o \in answers
        \/ \E m \in Messages : o \in torn(m)
        \/ o = Outcome(freed, dns, FALSE)
        \/ o \in fragments
    <3>1. o \in allTorn => \E m \in Messages : o \in torn(m)
      <4> HIDE DEF torn
      <4> QED OBVIOUS
    <3> HIDE DEF answers, fragments, allTorn, torn
    <3> QED BY <1>0, <3>1
  <2> QED BY Zenon, <2>1
<1> HIDE DEF freed, kept
<1>2. /\ o.drv = drv \/ o.drv = freed \/ \E k \in 0..(drv.frags + 1) : o.drv = kept(k)
      /\ \/ o.dns = dns
         \/ \E m \in Messages : o.dns = udpProcess(dns, ports, m, m.code, m.code)
         \/ \E m \in Messages : \E read \in Overwritten(m.code) :
               /\ o.dns = udpProcess(dns, ports, m, read[1], read[2])
               /\ o.errorLost = ErrorLost(read)
  BY <1>1
<1> QED BY <1>2 DEF freed, kept

\* A call of PACKET_PROCESS_SINGLE leaves the driver alone, and without a packet
\* in the queue the buffers too.
LEMMA ProcessSingle ==
    ASSUME drv \in Drivers, NEW o \in PACKET_PROCESS_SINGLE
    PROVE  /\ o.drv \in Drivers
           /\ o.drv.handle = drv.handle
           /\ o.drv.Packet_int = drv.Packet_int
           /\ drv.queued = 0 => o.drv = drv
<1> DEFINE freed == [drv EXCEPT !.queued = @ - 1, !.fs_index = @ + 1]
           kept(k) == [drv EXCEPT !.queued = @ - 1, !.frags = @ + 1 - k, !.fs_index = @ + k]
<1>1. CASE drv.queued = 0
  BY <1>1 DEF PACKET_PROCESS_SINGLE
<1>2. CASE drv.queued # 0
  <2>1. o.drv = drv \/ o.drv = freed \/ \E k \in 0..(drv.frags + 1) : o.drv = kept(k)
    BY <1>2, Outcomes
  <2>2. CASE o.drv = freed
    <3>1. drv.queued - 1 \in Nat /\ drv.fs_index + 1 \in Nat
      BY <1>2 DEF Drivers
    <3>2. freed \in Drivers /\ freed.handle = drv.handle /\ freed.Packet_int = drv.Packet_int
      BY <3>1 DEF Drivers
    <3> QED BY <1>2, <2>2, <3>2
  <2>3. ASSUME NEW k \in 0..(drv.frags + 1), o.drv = kept(k)
        PROVE  /\ o.drv \in Drivers
               /\ o.drv.handle = drv.handle
               /\ o.drv.Packet_int = drv.Packet_int
    <3>1. drv.queued - 1 \in Nat /\ drv.frags + 1 - k \in Nat /\ drv.fs_index + k \in Nat
      BY <1>2 DEF Drivers
    <3>2. kept(k) \in Drivers /\ kept(k).handle = drv.handle /\ kept(k).Packet_int = drv.Packet_int
      BY <3>1 DEF Drivers
    <3> QED BY <2>3, <3>2
  <2>4. CASE o.drv = drv
    BY <2>4
  <2> QED BY <1>2, <2>1, <2>2, <2>3, <2>4
<1> QED BY <1>1, <1>2

\* With an empty table the DNS handler's port can be registered.
LEMMA RegisterFirst ==
    /\ registerCallback(<< >>, DNS_HANDLER_PORT).rc = 0
    /\ DNS_HANDLER_PORT \in ToSet(registerCallback(<< >>, DNS_HANDLER_PORT).ports)
<1>1. UDP_MAX_CALLBACKS # 0
  BY DnsAssumption
<1>2. ToSet(<< >>) = {}
  BY DEF ToSet
<1>3. registerCallback(<< >>, DNS_HANDLER_PORT)
        = [ports |-> Append(<< >>, DNS_HANDLER_PORT), rc |-> 0]
  BY <1>1, <1>2 DEF registerCallback
<1>4. DNS_HANDLER_PORT \in ToSet(Append(<< >>, DNS_HANDLER_PORT))
  BY DEF ToSet
<1> QED BY <1>3, <1>4
-----------------------------------------------------------------------------
(* The invariant. *)

\* The program starts in it.
LEMMA InitIInv == Init => IInv
  BY DEF Init, IInv, Types, Progress, Driver, Hooks, Starting, Opening, Running, Leaving,
         Ending, Quiet, Drivers, Blocks, Empty, Ready

\* Every step keeps the invariant.
LEMMA StepIInv == IInv /\ [Next]_vars => IInv'
<1> SUFFICES ASSUME IInv, [Next]_vars PROVE IInv'
  OBVIOUS
<1> USE DEF IInv, Types, Progress, Driver, Hooks, Starting, Opening, Running, Leaving, Ending,
            Quiet, Drivers, Empty, Ready
<1>1. CASE openLog
  BY <1>1 DEF openLog, stack
<1>2. CASE parseEnv
  BY <1>2 DEF parseEnv, stack, goesOn, setupFails, SetupNext
<1>3. CASE Buffer_init
  <2>1. CASE setupFails /\ UNCHANGED <<mem, drv>>
    BY <1>3, <2>1 DEF Buffer_init, setupFails
  <2>2. CASE /\ goesOn
             /\ mem' = [mem EXCEPT !["packets"] = "live"]
             /\ drv' = [drv EXCEPT !.fs_index = 0, !.queued = 0]
    <3>1. pc = "Buffer_init" /\ pc' = "Packet_init" /\ ret' = ret
      BY <1>3, <2>2 DEF Buffer_init, goesOn, SetupNext
    <3>2. drv' \in Drivers /\ drv'.handle = drv.handle /\ drv'.Packet_int = drv.Packet_int /\ Empty'
      BY <2>2, <3>1
    <3>3. mem' \in [Blocks -> {"none", "live", "freed"}] /\ mem'["packets"] = "live"
      BY <2>2 DEF Blocks
    <3>4. vec' = vec /\ ports' = ports
      BY <1>3 DEF Buffer_init
    <3> QED BY <3>1, <3>2, <3>3, <3>4
  <2> QED BY <1>3, <2>1, <2>2 DEF Buffer_init
<1>4. CASE Packet_init
  BY <1>4 DEF Packet_init, goesOn, setupFails, SetupNext
<1>5. CASE hook
  BY <1>5 DEF hook, goesOn, SetupNext
<1>6. CASE initForReassembly
  BY <1>6 DEF initForReassembly, allocate, goesOn, initStackFails, SetupNext, Blocks
<1>7. CASE TcpSocketMgr_init
  BY <1>7 DEF TcpSocketMgr_init, allocate, goesOn, initStackFails, SetupNext, Blocks
<1>8. CASE TcpBuffer_init
  BY <1>8 DEF TcpBuffer_init, allocate, goesOn, initStackFails, SetupNext, Blocks
<1>9. CASE Dns_init
  <2>1. pc = "Dns_init" /\ ports = << >>
    BY <1>9 DEF Dns_init
  <2>2. /\ pc' = "Buffer_startReceiving" /\ ret' = ret
        /\ DNS_HANDLER_PORT \in ToSet(ports')
    BY <1>9, <2>1, RegisterFirst DEF Dns_init, goesOn, SetupNext
  <2>3. UNCHANGED <<drv, vec, mem>>
    BY <1>9 DEF Dns_init
  <2> QED BY <2>1, <2>2, <2>3
<1>10. CASE Buffer_startReceiving
  <2>1. pc = "Buffer_startReceiving" /\ pc' = "selfCheck" /\ ret' = ret
    BY <1>10 DEF Buffer_startReceiving, goesOn, SetupNext
  <2>2. Ready
    BY <2>1 DEF Blocks
  <2>3. drv' \in Drivers /\ drv'.handle = drv.handle /\ drv'.Packet_int = drv.Packet_int
    BY <1>10, LifeAssumption DEF Buffer_startReceiving
  <2>4. UNCHANGED <<vec, mem, ports>>
    BY <1>10 DEF Buffer_startReceiving
  <2> QED BY <2>1, <2>2, <2>3, <2>4
<1>11. CASE selfCheckDone
  BY <1>11 DEF selfCheckDone, stack, initStackFails
<1>12. CASE getSocket
  BY <1>12 DEF getSocket, setupFails
<1>13. CASE getEnvironmentDetails
  BY <1>13 DEF getEnvironmentDetails, stack, setupFails
<1>14. CASE firstResolve
  BY <1>14 DEF firstResolve, stack, setupFails
<1>15. CASE dnsDone
  BY <1>15 DEF dnsDone, stack, setupFails
<1>16. CASE connect
  BY <1>16 DEF connect
<1>17. CASE connected
  BY <1>17 DEF connected, stack, setupFails
<1>18. CASE asmRunDone
  BY <1>18 DEF asmRunDone, stack
<1>19. CASE close
  <2>1. pc = "close" /\ pc' \in {"freeSocket", "lost"}
    BY <1>19 DEF close
  <2>2. UNCHANGED <<ret, drv, vec, mem, ports, ignored>>
    BY <1>19 DEF close
  <2> QED BY <2>1, <2>2
<1>20. CASE freeSocket
  BY <1>20 DEF freeSocket
<1>21. CASE Buffer_stopReceiving
  BY <1>21 DEF Buffer_stopReceiving, EndNext
<1>22. CASE Packet_release_type
  BY <1>22 DEF Packet_release_type, EndNext
<1>23. CASE stopDnsTcp
  BY <1>23 DEF stopDnsTcp, EndNext, Freed, Blocks
<1>24. CASE reassemblyStop
  <2>1. pc = "reassemblyStop" /\ pc' = "unhook"
    BY <1>24 DEF reassemblyStop, EndNext
  <2>2. drv' \in Drivers /\ drv'.handle = drv.handle /\ drv'.Packet_int = drv.Packet_int
    <3>1. drv.fs_index + drv.frags \in Nat
      OBVIOUS
    <3> QED BY <1>24, <3>1 DEF reassemblyStop
  <2>3. mem' \in [Blocks -> {"none", "live", "freed"}]
    BY <1>24 DEF reassemblyStop, Freed
  <2>4. UNCHANGED <<ret, vec, ports, ignored>>
    BY <1>24 DEF reassemblyStop
  <2> QED BY <2>1, <2>2, <2>3, <2>4
<1>25. CASE unhook
  BY <1>25 DEF unhook, EndNext
<1>26. CASE receiver
  <2>1. /\ Ready \/ "refused" \in ignored
        /\ pc \notin Starting \cup Opening \cup Quiet
    BY <1>26 DEF receiver
  <2>2. drv.fs_index - 1 \in Nat /\ drv.queued + 1 \in Nat
    BY <1>26 DEF receiver
  <2>3. drv' \in Drivers /\ drv'.handle = drv.handle /\ drv'.Packet_int = drv.Packet_int
    BY <1>26, <2>2 DEF receiver
  <2>4. UNCHANGED <<pc, ret, vec, mem, ports, ignored>>
    BY <1>26 DEF receiver
  <2> QED BY <2>1, <2>3, <2>4
<1>27. CASE tick
  BY <1>27 DEF tick, stack
<1>28. ASSUME NEW o \in PACKET_PROCESS_SINGLE, drv' = o.drv,
              UNCHANGED <<vec, mem, ports>>, ret' \in {"exited", "close"},
              "refused" \in ignored => "refused" \in ignored',
              pc \in Running \cup {"close"}, pc' = pc \/ pc' = "close"
       PROVE  IInv'
  <2>1. /\ drv' \in Drivers /\ drv'.handle = drv.handle /\ drv'.Packet_int = drv.Packet_int
        /\ drv.queued = 0 => drv' = drv
    BY <1>28, ProcessSingle
  <2>2. Ready' = Ready /\ (Empty => Empty')
    BY <1>28, <2>1
  <2> QED BY <1>28, <2>1, <2>2
<1>29. CASE dnsLoop
  BY <1>28, <1>29 DEF dnsLoop, drivenTurn, processed, setupFails
<1>30. CASE turn
  BY <1>28, <1>30 DEF turn, processed
<1>32. CASE recvTurn
  BY <1>28, <1>32 DEF recvTurn, drivenTurn, processed
<1>31. CASE UNCHANGED vars
  BY <1>31 DEF vars
<1> QED
  BY <1>1, <1>2, <1>3, <1>4, <1>5, <1>6, <1>7, <1>8, <1>9, <1>10, <1>11, <1>12, <1>13, <1>14, <1>15,
     <1>16, <1>17, <1>18, <1>19, <1>20, <1>21, <1>22, <1>23, <1>24, <1>25, <1>26, <1>27, <1>29,
     <1>30, <1>31, <1>32
     DEF Next, setupSocket, initStack, cleanupSocket, endStack

\* In every behaviour the driver can interrupt with packets only while all the
\* memory, the handler of the DNS port and the timer are there: initStack lets
\* packets in last, endStack shuts them out first.  If Packet_release_type fails
\* they stay out until reassemblyStop has freed the fragments' buffers.
THEOREM ReceivesReady == Spec => []ReceivesOnlyWhenReady
<1>1. IInv => ReceivesOnlyWhenReady
  BY DEF IInv, Types, Driver, Drivers, Ready, Empty, Quiet, ReceivesOnlyWhenReady
<1> QED BY <1>1, InitIInv, StepIInv, PTL DEF Spec

\* In every behaviour a program that has ended has restored the timer and the
\* break handler, whichever call of the setup failed and whether or not the driver
\* could be released, and has released the driver unless that refused.
THEOREM UnhookedExit == Spec => []UnhookedAtExit
<1>1. IInv => UnhookedAtExit
  BY DEF IInv, Types, Driver, Hooks, Drivers, Ending, UnhookedAtExit
<1> QED BY <1>1, InitIInv, StepIInv, PTL DEF Spec
-----------------------------------------------------------------------------
(* The end after a successful start. *)

\* What a start that succeeds leaves, and what the end still needs of it.
Sound ==
    /\ started \in BOOLEAN
    /\ pc \in Starting \cup Opening \cup {"selfCheck"} =>
          ~started /\ faults = {} /\ ret = "exited"
    /\ pc \in (Opening \ {"hook"}) \cup {"selfCheck"} => vec.oldCtrlBreak = "dos"
    /\ pc \in {"TcpBuffer_init", "Dns_init", "Buffer_startReceiving", "selfCheck", "getSocket"} =>
          socks.avail = <<TheSocket>>
    /\ started =>
          /\ faults = {} /\ ret = "exited"
          /\ drv.Packet_int /\ vec.oldCtrlBreak = "dos"
          /\ pc # "getSocket" => sock = TheSocket
          /\ pc \in Running \cup Leaving \cup {"stopDnsTcp"} => mem["xmit"] = "live"
          /\ pc \in Running \cup Leaving \cup {"stopDnsTcp", "reassemblyStop"} => mem["ip"] = "live"

\* The program starts in it.
LEMMA InitSound == Init => Sound
  BY DEF Init, Sound, Starting, Opening, Running, Leaving

\* Every step keeps it, where the first invariant holds.
LEMMA StepSound == IInv /\ Sound /\ [Next]_vars => Sound'
<1> SUFFICES ASSUME IInv, Sound, [Next]_vars PROVE Sound'
  OBVIOUS
<1> USE DEF IInv, Types, Progress, Hooks, Sound, Starting, Opening, Running, Leaving, Ending,
            Drivers, Ready
<1>1. CASE openLog
  BY <1>1 DEF openLog, stack
<1>2. CASE parseEnv
  BY <1>2 DEF parseEnv, stack, goesOn, setupFails, SetupNext
<1>3. CASE Buffer_init
  BY <1>3 DEF Buffer_init, goesOn, setupFails, SetupNext, Blocks
<1>4. CASE Packet_init
  BY <1>4 DEF Packet_init, goesOn, setupFails, SetupNext
<1>5. CASE hook
  BY <1>5 DEF hook, goesOn, SetupNext
<1>6. CASE initForReassembly
  BY <1>6 DEF initForReassembly, allocate, goesOn, initStackFails, SetupNext, Blocks
<1>7. CASE TcpSocketMgr_init
  BY <1>7 DEF TcpSocketMgr_init, allocate, goesOn, initStackFails, SetupNext, Blocks
<1>8. CASE TcpBuffer_init
  BY <1>8 DEF TcpBuffer_init, allocate, goesOn, initStackFails, SetupNext, Blocks
<1>9. CASE Dns_init
  BY <1>9 DEF Dns_init, goesOn, initStackFails, SetupNext
<1>10. CASE Buffer_startReceiving
  BY <1>10 DEF Buffer_startReceiving, goesOn, SetupNext
<1>11. CASE selfCheckDone
  <2>1. pc = "selfCheck" /\ drv.Packet_int /\ mem["xmit"] = "live" /\ mem["ip"] = "live"
    BY <1>11 DEF selfCheckDone, Blocks
  <2>2. UNCHANGED <<drv, vec, mem, socks, sock, faults>>
    BY <1>11 DEF selfCheckDone, stack
  <2>3. CASE pc' = "getSocket" /\ started' = TRUE /\ UNCHANGED ret
    BY <2>1, <2>2, <2>3
  <2>4. CASE initStackFails /\ UNCHANGED started
    BY <2>1, <2>2, <2>4 DEF initStackFails
  <2> QED BY <1>11, <2>3, <2>4 DEF selfCheckDone
<1>12. CASE getSocket
  <2>1. pc = "getSocket" /\ socks.avail = <<TheSocket>>
    BY <1>12 DEF getSocket
  <2>2. socks.avail # << >> /\ Last(socks.avail) = TheSocket
    BY <2>1 DEF Last
  <2>3. pc' = "getEnvironmentDetails" /\ ret' = ret /\ sock' = TheSocket
    BY <1>12, <2>2 DEF getSocket
  <2>4. UNCHANGED <<drv, vec, mem, started, faults>>
    BY <1>12 DEF getSocket
  <2> QED BY <2>1, <2>3, <2>4
<1>13. CASE getEnvironmentDetails
  BY <1>13 DEF getEnvironmentDetails, stack, setupFails
<1>14. CASE firstResolve
  BY <1>14 DEF firstResolve, stack, setupFails
<1>15. CASE dnsLoop
  <2>1. PICK o \in PACKET_PROCESS_SINGLE : drv' = o.drv
    BY <1>15 DEF dnsLoop, drivenTurn, processed
  <2>2. drv'.Packet_int = drv.Packet_int
    BY <2>1, ProcessSingle
  <2> QED BY <1>15, <2>2 DEF dnsLoop, setupFails
<1>16. CASE dnsDone
  BY <1>16 DEF dnsDone, stack, setupFails
<1>17. CASE connect
  BY <1>17 DEF connect
<1>18. CASE connected
  BY <1>18 DEF connected, stack, setupFails
<1>19. CASE asmRunDone
  BY <1>19 DEF asmRunDone, stack
<1>20. CASE close
  <2>1. started => sock # NoSocket
    BY <1>20, LifeAssumption DEF close
  <2> QED BY <1>20, <2>1 DEF close
<1>21. CASE freeSocket
  BY <1>21 DEF freeSocket
<1>22. CASE Buffer_stopReceiving
  BY <1>22 DEF Buffer_stopReceiving, EndNext
<1>23. CASE Packet_release_type
  BY <1>23 DEF Packet_release_type, EndNext
<1>24. CASE stopDnsTcp
  BY <1>24 DEF stopDnsTcp, EndNext, Freed, FreedTwice, Blocks
<1>25. CASE reassemblyStop
  BY <1>25 DEF reassemblyStop, EndNext, Freed, FreedTwice, Blocks
<1>26. CASE unhook
  BY <1>26 DEF unhook, EndNext
<1>27. CASE turn \/ recvTurn
  <2>1. PICK o \in PACKET_PROCESS_SINGLE : drv' = o.drv
    BY <1>27 DEF turn, recvTurn, drivenTurn, processed
  <2>2. drv'.Packet_int = drv.Packet_int
    BY <2>1, ProcessSingle
  <2> QED BY <1>27, <2>2 DEF turn, recvTurn
<1>28. CASE receiver
  BY <1>28 DEF receiver
<1>29. CASE tick
  BY <1>29 DEF tick, stack
<1>30. CASE UNCHANGED vars
  BY <1>30 DEF vars
<1> QED
  BY <1>1, <1>2, <1>3, <1>4, <1>5, <1>6, <1>7, <1>8, <1>9, <1>10, <1>11, <1>12, <1>13, <1>14, <1>15,
     <1>16, <1>17, <1>18, <1>19, <1>20, <1>21, <1>22, <1>23, <1>24, <1>25, <1>26, <1>27, <1>28, <1>29, <1>30
     DEF Next, setupSocket, initStack, cleanupSocket, endStack

\* In every behaviour in which initStack has succeeded, cleanupSocket and endStack
\* free nothing twice, restore only what was saved and close no null pointer,
\* whatever fails after it.
THEOREM CleanEnd == Spec => []CleanAfterStart
<1>1. Sound => CleanAfterStart
  BY DEF Sound, CleanAfterStart
<1> QED BY <1>1, InitIInv, StepIInv, InitSound, StepSound, PTL DEF Spec
-----------------------------------------------------------------------------
(* The records of an answer. *)

\* The loop over the records of udpHandler goes from state to state.
LEMMA RecordsTaken ==
  ASSUME NEW d, NEW records, Len(records) \in Nat
  PROVE  \E taken :
            /\ taken = [n \in 0..Len(records) |-> IF n = 0 THEN d ELSE takeRecord(taken[n - 1], records[n])]
            /\ takeRecords(d, records) = taken[Len(records)]
<1> DEFINE Turns(g, k) ==
             g = [n \in 0..k |-> IF n = 0 THEN d ELSE takeRecord(g[n - 1], records[n])]
           T == {k \in Nat : \E g : Turns(g, k)}
<1>1. 0 \in T
  <2> DEFINE g == [n \in 0..0 |-> d]
  <2>1. g = [n \in 0..0 |-> IF n = 0 THEN d ELSE takeRecord(g[n - 1], records[n])]
    OBVIOUS
  <2> QED BY <2>1
<1>2. ASSUME NEW k \in T PROVE k + 1 \in T
  <2>1. PICK g : Turns(g, k)
    BY <1>2
  <2> DEFINE h == [n \in 0..(k + 1) |-> IF n = k + 1 THEN takeRecord(g[k], records[k + 1]) ELSE g[n]]
  <2>2. ASSUME NEW n \in 0..(k + 1)
        PROVE  h[n] = IF n = 0 THEN d ELSE takeRecord(h[n - 1], records[n])
    <3>1. CASE n = k + 1
      <4>1. h[n - 1] = g[k] /\ h[n] = takeRecord(g[k], records[k + 1])
        BY <3>1
      <4> QED BY <3>1, <4>1
    <3>2. CASE n # k + 1
      <4>1. n \in 0..k /\ h[n] = g[n]
        BY <3>2
      <4>2. n # 0 => h[n - 1] = g[n - 1]
        BY <4>1
      <4>3. g[n] = IF n = 0 THEN d ELSE takeRecord(g[n - 1], records[n])
        BY <2>1, <4>1
      <4> QED BY <4>1, <4>2, <4>3
    <3> QED BY <3>1, <3>2
  <2>3. h = [n \in 0..(k + 1) |-> h[n]]
    OBVIOUS
  <2>4. Turns(h, k + 1)
    <3> HIDE DEF h
    <3> QED BY <2>2, <2>3
  <2>5. k + 1 \in Nat /\ \E f : Turns(f, k + 1)
    <3> HIDE DEF Turns
    <3> QED BY <1>2, <2>4
  <2> QED BY <2>5
<1>3. T = Nat
  <2> HIDE DEF T
  <2>1. T \in SUBSET Nat
    BY DEF T
  <2> QED BY <1>1, <1>2, <2>1, SetInduction
<1>4. \E g : Turns(g, Len(records))
  BY <1>3
<1>5. Turns(CHOOSE g : Turns(g, Len(records)), Len(records))
  BY <1>4
<1> QED BY <1>5 DEF takeRecords

\* What lastQueryRc may be.
OutcomeCodes == {"Timeout", "UnknownError"} \cup Codes

\* Where the addresses of the host come from.
HostAddrs == Genuine(Host)
Entries == [name : {Host}, ipAddr : HostAddrs]

\* The resolver's variables: it caches only addresses of the host.
Resolvers ==
    [queryPending : BOOLEAN, lastQueryRc : OutcomeCodes, dnsTable : Seq(Entries),
     ident : Int, sinceStart : Int, sinceUpdate : Int,
     originalTarget : Names, targetName : Names \cup Addrs]

\* What is said of one of its states d while the host is asked for.
Asking(d) ==
    /\ d \in Resolvers
    /\ d.originalTarget = Host

\* addOrUpdate: the cache keeps its kind, and is not empty afterwards.
LEMMA CacheUpdated ==
  ASSUME NEW table \in Seq(Entries), NEW a \in HostAddrs
  PROVE  addOrUpdate(table, Host, a) \in Seq(Entries) /\ addOrUpdate(table, Host, a) # << >>
<1> DEFINE at == find(table, Host)
           new == [name |-> Host, ipAddr |-> a]
<1>1. new \in Entries
  BY DEF Entries
<1>2. ASSUME NEW kept \in Seq(Entries)
      PROVE  Append(kept, new) \in Seq(Entries) /\ Append(kept, new) # << >>
  BY <1>1, AppendProperties
<1>3. CASE at # {}
  <2>1. at \in SUBSET Nat /\ at \subseteq 1..Len(table)
    BY DEF find
  <2>2. Min(at) \in 1..Len(table)
    BY <1>3, <2>1, MinLeast
  <2>3. ASSUME NEW i \in 1..Len(table) PROVE RemoveAt(table, i) \in Seq(Entries)
    <3>1. SubSeq(table, 1, i - 1) \in Seq(Entries) /\ SubSeq(table, i + 1, Len(table)) \in Seq(Entries)
      OBVIOUS
    <3> QED BY <3>1, ConcatProperties DEF RemoveAt
  <2>4. addOrUpdate(table, Host, a) = Append(RemoveAt(table, Min(at)), new)
    BY <1>3 DEF addOrUpdate
  <2> QED BY <1>2, <2>2, <2>3, <2>4
<1>4. CASE at = {} /\ Len(table) = DNS_MAX_ENTRIES
  <2>1. table # << >>
    BY <1>4, DnsAssumption
  <2>2. addOrUpdate(table, Host, a) = Append(Tail(table), new)
    BY <1>4 DEF addOrUpdate
  <2> QED BY <1>2, <2>1, <2>2, HeadTailProperties
<1>5. CASE at = {} /\ Len(table) # DNS_MAX_ENTRIES
  <2>1. addOrUpdate(table, Host, a) = Append(table, new)
    BY <1>5 DEF addOrUpdate
  <2> QED BY <1>2, <2>1
<1> QED BY <1>3, <1>4, <1>5

\* The addresses of an honest answer.
HonestRecord(r) ==
    /\ r \in Records
    /\ r.type = "A" /\ r.section = "answer" => r.data \in HostAddrs

\* One record: a query only ends with an address in the cache.
LEMMA RecordTaken ==
  ASSUME NEW d, Asking(d), NEW r, HonestRecord(r)
  PROVE  /\ Asking(takeRecord(d, r))
         /\ takeRecord(d, r).queryPending => d.queryPending
         /\ d.queryPending /\ ~takeRecord(d, r).queryPending => takeRecord(d, r).dnsTable # << >>
         /\ d.dnsTable # << >> => takeRecord(d, r).dnsTable # << >>
<1>1. CASE TakesAddress(d, r)
  <2> DEFINE t == addOrUpdate(d.dnsTable, Host, r.data)
  <2>1. t \in Seq(Entries) /\ t # << >>
    BY <1>1, CacheUpdated DEF TakesAddress, HonestRecord, Asking, Resolvers
  <2> HIDE DEF t
  <2>2. takeRecord(d, r) = [d EXCEPT !.dnsTable = t, !.queryPending = FALSE, !.lastQueryRc = "Good"]
    BY <1>1 DEF takeRecord, Asking, t
  <2> QED BY <2>1, <2>2 DEF Asking, Resolvers, OutcomeCodes, Codes
<1>2. CASE ~TakesAddress(d, r) /\ r.type = "CNAME"
  <2>1. takeRecord(d, r) = [d EXCEPT !.targetName = r.data]
    BY <1>2 DEF takeRecord
  <2> QED BY <2>1 DEF Asking, Resolvers, HonestRecord, Records
<1>3. CASE ~TakesAddress(d, r) /\ r.type # "CNAME"
  BY <1>3 DEF takeRecord
<1> QED BY <1>1, <1>2, <1>3

\* All of them.
LEMMA RecordsKeepAsking ==
  ASSUME NEW d, Asking(d), NEW records \in Seq(Records),
         \A k \in DOMAIN records : HonestRecord(records[k])
  PROVE  /\ Asking(takeRecords(d, records))
         /\ takeRecords(d, records).queryPending => d.queryPending
         /\ d.queryPending /\ ~takeRecords(d, records).queryPending =>
               takeRecords(d, records).dnsTable # << >>
<1>1. Len(records) \in Nat /\ DOMAIN records = 1..Len(records)
  OBVIOUS
<1>2. PICK taken :
         /\ taken = [n \in 0..Len(records) |-> IF n = 0 THEN d ELSE takeRecord(taken[n - 1], records[n])]
         /\ takeRecords(d, records) = taken[Len(records)]
  BY <1>1, RecordsTaken
<1> DEFINE P(e) == /\ Asking(e)
                   /\ e.queryPending => d.queryPending
                   /\ d.queryPending /\ ~e.queryPending => e.dnsTable # << >>
           T == {n \in Nat : n <= Len(records) => P(taken[n])}
<1>3. 0 \in T
  <2>1. taken[0] = d
    BY <1>1, <1>2
  <2> QED BY <2>1 DEF Asking, Resolvers
<1>4. ASSUME NEW n \in T, n + 1 <= Len(records) PROVE P(taken[n + 1])
  <2>1. n \in Nat /\ P(taken[n])
    BY <1>1, <1>4
  <2>2. taken[n + 1] = takeRecord(taken[n], records[n + 1])
    BY <1>1, <1>2, <1>4, <2>1
  <2>3. HonestRecord(records[n + 1])
    BY <1>1, <1>4, <2>1
  <2> DEFINE e == taken[n]
             r == records[n + 1]
  <2> HIDE DEF e, r
  <2>4. P(takeRecord(e, r))
    BY <2>1, <2>3, RecordTaken DEF e, r
  <2> QED BY <2>2, <2>4 DEF e, r
<1>5. T = Nat
  <2> HIDE DEF P
  <2>1. \A n \in T : n + 1 \in T
    BY <1>4
  <2> HIDE DEF T
  <2>2. T \in SUBSET Nat
    BY DEF T
  <2> QED BY <1>3, <2>1, <2>2, SetInduction
<1>6. P(taken[Len(records)])
  <2> HIDE DEF P
  <2> QED BY <1>1, <1>5
<1> QED BY <1>2, <1>6

\* udpHandler: the query is over with an answer to it, and then it is good only if
\* there is an address or the error was lost between the two reads of it.
LEMMA Handled ==
  ASSUME NEW d, Asking(d), NEW m, NEW tested \in Codes, NEW stored \in Codes,
         m.records \in Seq(Records),
         \A k \in DOMAIN m.records : HonestRecord(m.records[k]),
         NEW u, u = udpHandler(d, m, tested, stored)
  PROVE  /\ Asking(u)
         /\ u.queryPending => u = d
         /\ d.queryPending /\ ~u.queryPending /\ u.lastQueryRc = "Good" =>
               u.dnsTable # << >> \/ ErrorLost(<<tested, stored>>)
<1>1. CASE m.ident # d.ident
  BY <1>1 DEF udpHandler
<1>2. CASE m.ident = d.ident
  <2> DEFINE e == takeRecords(d, m.records)
  <2>1. /\ Asking(e)
        /\ d.queryPending /\ ~e.queryPending => e.dnsTable # << >>
    BY RecordsKeepAsking
  <2> HIDE DEF e
  <2>2. u = answerDone(e, tested, stored)
    BY <1>2 DEF udpHandler, e
  <2>3. CASE ~e.queryPending
    <3>1. u = e
      BY <2>2, <2>3 DEF answerDone
    <3> QED BY <2>1, <2>3, <3>1
  <2>4. CASE e.queryPending
    <3> DEFINE rc == IF tested # "Good" THEN stored ELSE "UnknownError"
    <3>1. rc \in OutcomeCodes /\ (rc = "Good" => ErrorLost(<<tested, stored>>))
      BY DEF OutcomeCodes, ErrorLost
    <3> HIDE DEF rc
    <3>2. u = [e EXCEPT !.queryPending = FALSE, !.lastQueryRc = rc]
      BY <2>2, <2>4 DEF answerDone, rc
    <3>3. u \in Resolvers /\ u.originalTarget = e.originalTarget
      BY <2>1, <3>1, <3>2 DEF Asking, Resolvers
    <3>4. u.queryPending = FALSE /\ u.lastQueryRc = rc
      BY <2>1, <3>2 DEF Asking, Resolvers
    <3> QED BY <2>1, <3>1, <3>3, <3>4 DEF Asking
  <2> QED BY <2>3, <2>4
<1> QED BY <1>1, <1>2
-----------------------------------------------------------------------------
(* The queries. *)

\* Before the host is asked for, the calls in which no query is running.
Before == Starting \cup Opening \cup {"selfCheck", "getSocket", "getEnvironmentDetails", "resolve"}

Configs == [cfg : MtcpCfgs, hosts : HostsFiles, botHost : {"unset", "bad", "good"}]

\* The inductive invariant of the queries: all that is asked and cached is about
\* the host, and a query that ended well has left its address in the cache, unless
\* the error it ended with was lost.
Resolving ==
    /\ env \in Configs /\ dns \in Resolvers
    /\ \A q \in asked : q.name = Host
    /\ dns.queryPending \/ asked # {} => dns.originalTarget = Host
    /\ dns.queryPending => dns.targetName = dns.originalTarget
    /\ pc \in Before => ~dns.queryPending /\ dns.lastQueryRc = "Good" /\ asked = {}
    /\ pc \in {"resolve", "dnsLoop"} => env.botHost = "unset"
    /\ pc = "dnsLoop" =>
          /\ NameServerSet(env.cfg)
          /\ ~dns.queryPending /\ dns.lastQueryRc = "Good" =>
                dns.dnsTable # << >> \/ "overwritten" \in ignored
    /\ pc \in {"connect", "connecting", "asmRun"} =>
          \/ env.botHost = "good" /\ addr = BotHostAddr
          \/ env.botHost # "good" /\ addr \in HostAddrs
          \/ env.botHost # "good" /\ addr = NoAddr /\ "overwritten" \in ignored

\* The messages of an honest name server.
LEMMA MessagesHonest ==
  ASSUME NEW m \in Messages
  PROVE  /\ asked # {} /\ m.code \in Codes /\ m.records \in Seq(Records)
         /\ \A k \in DOMAIN m.records : HonestRecord(m.records[k])
<1>1. PICK q \in asked, r \in Replies : m = [ident |-> q.ident, code |-> r.code, records |-> r.records]
  BY DEF Messages
<1>2. m.code = r.code /\ m.records = r.records
  BY <1>1
<1>3. m.code \in Codes
  BY <1>2 DEF Codes
<1>4. r.records \in Seq(Records)
  BY RepliesAssumption
<1>5. ASSUME NEW k \in DOMAIN r.records PROVE HonestRecord(r.records[k])
  <2>1. r.records[k] \in Records
    BY <1>4
  <2> QED BY <2>1, RepliesAssumption DEF HonestRecord, HostAddrs, Genuine
<1> QED BY <1>1, <1>2, <1>3, <1>4, <1>5

\* A packet does to the resolver what a message does, or nothing.
LEMMA ProcessSingleDns ==
  ASSUME NEW o \in PACKET_PROCESS_SINGLE, Resolving
  PROVE  /\ o.dns \in Resolvers
         /\ asked = {} => o.dns = dns
         /\ o.dns.originalTarget = dns.originalTarget
         /\ o.dns.queryPending => o.dns = dns
         /\ dns.queryPending /\ ~o.dns.queryPending /\ o.dns.lastQueryRc = "Good" =>
               o.dns.dnsTable # << >> \/ o.errorLost
<1>1. \/ o.dns = dns
      \/ \E m \in Messages : \E tested, stored \in Codes :
            /\ o.dns = udpHandler(dns, m, tested, stored)
            /\ ErrorLost(<<tested, stored>>) => o.errorLost
  <2>1. CASE drv.queued = 0
    BY <2>1 DEF PACKET_PROCESS_SINGLE
  <2>2. CASE drv.queued # 0
    <3>1. \/ o.dns = dns
          \/ \E m \in Messages : o.dns = udpProcess(dns, ports, m, m.code, m.code)
          \/ \E m \in Messages : \E read \in Overwritten(m.code) :
                /\ o.dns = udpProcess(dns, ports, m, read[1], read[2])
                /\ o.errorLost = ErrorLost(read)
      BY <2>2, Outcomes
    <3>2. ASSUME NEW m \in Messages, o.dns = udpProcess(dns, ports, m, m.code, m.code), o.dns # dns
          PROVE  o.dns = udpHandler(dns, m, m.code, m.code) /\ ~ErrorLost(<<m.code, m.code>>)
      BY <3>2 DEF udpProcess, ErrorLost
    <3>3. ASSUME NEW m \in Messages, NEW read \in Overwritten(m.code),
                 o.dns = udpProcess(dns, ports, m, read[1], read[2]), o.dns # dns
          PROVE  /\ o.dns = udpHandler(dns, m, read[1], read[2])
                 /\ read = <<read[1], read[2]>> /\ read[1] \in Codes /\ read[2] \in Codes
      BY <3>3, MessagesHonest DEF udpProcess, Overwritten
    <3>4. ASSUME NEW m \in Messages PROVE m.code \in Codes
      BY MessagesHonest
    <3> QED BY <3>1, <3>2, <3>3, <3>4
  <2> QED BY <2>1, <2>2
<1>2. CASE o.dns = dns
  BY <1>2 DEF Resolving
<1>3. ASSUME NEW m \in Messages, NEW tested \in Codes, NEW stored \in Codes,
             o.dns = udpHandler(dns, m, tested, stored), ErrorLost(<<tested, stored>>) => o.errorLost
      PROVE  /\ o.dns \in Resolvers
             /\ asked # {}
             /\ o.dns.originalTarget = dns.originalTarget
             /\ o.dns.queryPending => o.dns = dns
             /\ dns.queryPending /\ ~o.dns.queryPending /\ o.dns.lastQueryRc = "Good" =>
                   o.dns.dnsTable # << >> \/ o.errorLost
  <2>1. Asking(dns)
    BY MessagesHonest DEF Resolving, Asking
  <2>2. /\ Asking(o.dns)
        /\ o.dns.queryPending => o.dns = dns
        /\ dns.queryPending /\ ~o.dns.queryPending /\ o.dns.lastQueryRc = "Good" =>
              o.dns.dnsTable # << >> \/ ErrorLost(<<tested, stored>>)
    <3>1. m.records \in Seq(Records) /\ \A k \in DOMAIN m.records : HonestRecord(m.records[k])
      BY MessagesHonest
    <3> QED BY <1>3, <2>1, <3>1, Handled, Zenon
  <2>3. /\ o.dns \in Resolvers /\ asked # {}
        /\ o.dns.originalTarget = dns.originalTarget
    BY <2>1, <2>2, MessagesHonest DEF Asking
  <2> QED BY <1>3, <2>2, <2>3
<1> QED BY <1>1, <1>2, <1>3

\* The place of the last match is in the hosts file.
LEMMA MaxIn ==
  ASSUME NEW n \in Nat, NEW S \in SUBSET (1..n), S # {}
  PROVE  Max(S) \in S
<1> DEFINE D == {n - k : k \in S}
<1>1. D \in SUBSET Nat /\ D # {}
  <2>1. \A k \in S : n - k \in Nat
    OBVIOUS
  <2>2. D \in SUBSET Nat
    BY <2>1
  <2>3. PICK k \in S : TRUE
    OBVIOUS
  <2>4. n - k \in D
    BY <2>3
  <2> QED BY <2>2, <2>4
<1>2. PICK m \in D : \A j \in D : m <= j
  BY <1>1, LeastNatural
<1>3. PICK x \in S : m = n - x
  BY <1>2
<1>4. ASSUME NEW y \in S PROVE x >= y
  <2>1. n - y \in D
    OBVIOUS
  <2>2. n - x <= n - y
    BY <1>2, <1>3, <2>1
  <2> QED BY <2>2
<1>5. \E z \in S : \A y \in S : z >= y
  BY <1>4
<1> QED BY <1>5 DEF Max

\* scanHostsFile finds only addresses the file has for the host.
LEMMA ScannedIsGenuine ==
  ASSUME env \in Configs, scanHostsFile(env.hosts, Host) # NoAddr
  PROVE  scanHostsFile(env.hosts, Host) \in HostAddrs
<1> DEFINE file == env.hosts
           matches == {k \in DOMAIN file : Host \in file[k].names}
<1>1. file \in Seq([ipAddr : Addrs \cup {NoAddr}, names : SUBSET Names])
  BY HostsFilesAssumption DEF Configs
<1>2. Len(file) \in Nat /\ matches \in SUBSET (1..Len(file))
  BY <1>1
<1>3. matches # {} /\ scanHostsFile(file, Host) = file[Max(matches)].ipAddr
  BY DEF scanHostsFile
<1> HIDE DEF matches
<1>4. Max(matches) \in matches
  BY <1>2, <1>3, MaxIn
<1>5. file[Max(matches)].ipAddr \in {file[k].ipAddr : k \in matches}
  BY <1>4
<1> QED BY <1>3, <1>5 DEF HostAddrs, Genuine, matches

\* Setting the times of a query.
LEMMA TimesSet ==
  ASSUME NEW d \in Resolvers
  PROVE  /\ [d EXCEPT !.sinceUpdate = 0] \in Resolvers
         /\ [d EXCEPT !.sinceStart = 0, !.sinceUpdate = 0] \in Resolvers
<1>1. ASSUME NEW x \in Int PROVE [d EXCEPT !.sinceUpdate = x] \in Resolvers
  BY DEF Resolvers
<1>2. ASSUME NEW x \in Int PROVE [d EXCEPT !.sinceStart = x, !.sinceUpdate = x] \in Resolvers
  BY DEF Resolvers
<1>3. 0 \in Int
  OBVIOUS
<1> QED BY <1>1, <1>2, <1>3

\* resolve, for the host.
LEMMA HostResolved ==
  ASSUME Resolving, NEW ident \in Int, NEW r, r = resolveHost(ident)
  PROVE  /\ r.dns \in Resolvers
         /\ \/ r.rc = -2 /\ ~NameServerSet(env.cfg) /\ r.dns = dns
            \/ /\ r.rc = 0 /\ NameServerSet(env.cfg)
               /\ r.addr \in HostAddrs /\ r.dns.dnsTable # << >>
               /\ r.dns = [dns EXCEPT !.dnsTable = r.dns.dnsTable]
            \/ r.rc = 2 /\ NameServerSet(env.cfg) /\ dns.queryPending /\ r.dns = dns /\ dns.dnsTable = << >>
            \/ /\ r.rc = 1 /\ r.addr = NoAddr
               /\ NameServerSet(env.cfg) /\ ~dns.queryPending /\ dns.dnsTable = << >>
               /\ r.dns = newQuery(dns, Host, ident)
<1> DEFINE hit == find(dns.dnsTable, Host)
           host == scanHostsFile(env.hosts, Host)
           ns == NameServerSet(env.cfg)
<1>1. dns \in Resolvers /\ dns.dnsTable \in Seq(Entries)
  BY DEF Resolving, Resolvers
<1>2. hit = 1..Len(dns.dnsTable)
  <2>1. DOMAIN dns.dnsTable = 1..Len(dns.dnsTable)
    BY <1>1
  <2>2. ASSUME NEW k \in 1..Len(dns.dnsTable) PROVE dns.dnsTable[k].name = Host
    <3>1. dns.dnsTable[k] \in Entries
      BY <1>1
    <3> QED BY <3>1 DEF Entries
  <2> QED BY <2>1, <2>2 DEF find
<1>3. hit = {} <=> dns.dnsTable = << >>
  <2>1. Len(dns.dnsTable) \in Nat /\ (dns.dnsTable = << >> <=> Len(dns.dnsTable) = 0)
    BY <1>1, EmptySeq, LenProperties
  <2>2. ASSUME NEW n \in Nat PROVE 1..n = {} <=> n = 0
    <3>1. n # 0 => 1 \in 1..n
      OBVIOUS
    <3> QED BY <3>1
  <2> QED BY <1>2, <2>1, <2>2
<1> HIDE DEF hit, host
<1>4. CASE ~ns
  <2>1. r = [rc |-> -2, addr |-> NoAddr, dns |-> dns]
    BY <1>4 DEF resolveHost, resolve
  <2> QED BY <1>1, <1>4, <2>1
<1>5. CASE ns /\ hit # {}
  <2>1. r = [rc |-> 0, addr |-> dns.dnsTable[Min(hit)].ipAddr, dns |-> dns]
    BY <1>5 DEF resolveHost, resolve, hit
  <2>2. hit \in SUBSET Nat
    BY <1>1, <1>2
  <2>3. Min(hit) \in 1..Len(dns.dnsTable)
    BY <1>2, <1>5, <2>2, MinLeast
  <2>4. dns.dnsTable[Min(hit)] \in Entries
    BY <1>1, <2>3
  <2>5. dns = [dns EXCEPT !.dnsTable = dns.dnsTable]
    BY <1>1 DEF Resolvers
  <2> QED BY <1>1, <1>3, <1>5, <2>1, <2>4, <2>5 DEF Entries
<1>6. CASE ns /\ hit = {} /\ host # NoAddr
  <2> DEFINE t == addOrUpdate(dns.dnsTable, Host, host)
             new == [dns EXCEPT !.dnsTable = t]
  <2>1. host \in HostAddrs
    BY <1>6, ScannedIsGenuine DEF Resolving, host
  <2>2. t \in Seq(Entries) /\ t # << >>
    BY <1>1, <2>1, CacheUpdated
  <2>3. r = [rc |-> 0, addr |-> host, dns |-> new]
    BY <1>6 DEF resolveHost, resolve, hit, host
  <2> HIDE DEF t
  <2>4. new \in Resolvers /\ new.dnsTable = t
    BY <1>1, <2>2 DEF Resolvers
  <2> HIDE DEF new
  <2>5. r.dns = new /\ r.rc = 0 /\ r.addr = host
    BY <2>3
  <2>6. r.dns = [dns EXCEPT !.dnsTable = r.dns.dnsTable]
    BY <2>4, <2>5 DEF new
  <2> QED BY <1>6, <2>1, <2>2, <2>4, <2>5, <2>6
<1>7. CASE ns /\ hit = {} /\ host = NoAddr /\ dns.queryPending
  <2>1. r = [rc |-> 2, addr |-> NoAddr, dns |-> dns]
    BY <1>7 DEF resolveHost, resolve, hit, host
  <2> QED BY <1>1, <1>3, <1>7, <2>1
<1>8. CASE ns /\ hit = {} /\ host = NoAddr /\ ~dns.queryPending
  <2> DEFINE new == newQuery(dns, Host, ident)
  <2>1. r = [rc |-> 1, addr |-> NoAddr, dns |-> new]
    BY <1>8 DEF resolveHost, resolve, hit, host
  <2>2. new \in Resolvers
    <3> DEFINE d1 == [dns EXCEPT !.queryPending = TRUE, !.lastQueryRc = "Good", !.ident = ident]
               d2 == [d1 EXCEPT !.sinceStart = 0, !.sinceUpdate = 0]
    <3>1. d1 \in Resolvers
      BY <1>1 DEF Resolvers, OutcomeCodes, Codes
    <3>2. new = [d2 EXCEPT !.originalTarget = Host, !.targetName = Host]
      BY DEF newQuery
    <3> HIDE DEF d1
    <3>3. d2 \in Resolvers
      BY <3>1, TimesSet
    <3> HIDE DEF d2, new
    <3> QED BY <3>2, <3>3, LifeAssumption DEF Resolvers
  <2> HIDE DEF new
  <2>3. r.dns = new /\ r.rc = 1 /\ r.addr = NoAddr
    BY <2>1
  <2> QED BY <1>3, <1>8, <2>2, <2>3 DEF new
<1> QED BY <1>4, <1>5, <1>6, <1>7, <1>8

\* A new query is about the host.
LEMMA QueryAsksHost ==
  ASSUME dns \in Resolvers, NEW ident \in Int
  PROVE  /\ newQuery(dns, Host, ident).queryPending = TRUE
         /\ newQuery(dns, Host, ident).originalTarget = Host
         /\ newQuery(dns, Host, ident).targetName = Host
         /\ Request(newQuery(dns, Host, ident)).name = Host
  BY DEF newQuery, Resolvers, Request

\* The clock and a repetition leave the names alone.
LEMMA Driven ==
  ASSUME NEW d \in Resolvers
  PROVE  /\ drivePendingQuery(d) \in Resolvers
         /\ drivePendingQuery(d).originalTarget = d.originalTarget
         /\ drivePendingQuery(d).targetName = d.targetName
         /\ drivePendingQuery(d).dnsTable = d.dnsTable
         /\ drivePendingQuery(d).queryPending => d.queryPending
         /\ ~d.queryPending => drivePendingQuery(d) = d
         /\ d.queryPending /\ ~drivePendingQuery(d).queryPending =>
               drivePendingQuery(d).lastQueryRc # "Good"
         /\ RetryDue(d) => d.queryPending
         /\ Request(drivePendingQuery(d)).name = d.targetName
<1>1. CASE RetryDue(d)
  <2> DEFINE i == (d.ident + 1) % MaxIdent
             e == [d EXCEPT !.sinceUpdate = 0, !.ident = i]
  <2>1. i \in Int
    BY DnsAssumption DEF Resolvers
  <2>2. drivePendingQuery(d) = e /\ d.queryPending
    BY <1>1 DEF drivePendingQuery, drivePendingQuery2, RetryDue
  <2> HIDE DEF i
  <2>3. e \in Resolvers
    <3>1. [d EXCEPT !.ident = i] \in Resolvers
      BY <2>1 DEF Resolvers
    <3>2. e = [[d EXCEPT !.ident = i] EXCEPT !.sinceUpdate = 0]
      BY DEF Resolvers
    <3> QED BY <3>1, <3>2, TimesSet
  <2>4. /\ e.queryPending = d.queryPending /\ e.originalTarget = d.originalTarget
        /\ e.targetName = d.targetName /\ e.dnsTable = d.dnsTable
    BY DEF Resolvers
  <2> HIDE DEF e
  <2> QED BY <2>2, <2>3, <2>4 DEF Request
<1>2. CASE ~RetryDue(d) /\ d.queryPending /\ d.sinceUpdate >= DNS_RETRY_THRESHOLD
  <2>1. drivePendingQuery(d) = [d EXCEPT !.queryPending = FALSE, !.lastQueryRc = "Timeout"]
    BY <1>2 DEF drivePendingQuery
  <2> QED BY <1>2, <2>1 DEF Resolvers, OutcomeCodes, Codes, Request
<1>3. CASE ~RetryDue(d) /\ ~(d.queryPending /\ d.sinceUpdate >= DNS_RETRY_THRESHOLD)
  <2>1. drivePendingQuery(d) = d
    BY <1>3 DEF drivePendingQuery
  <2> QED BY <1>3, <2>1 DEF Request
<1> QED BY <1>1, <1>2, <1>3

\* The clock runs on.
LEMMA LaterTyped ==
  ASSUME NEW d \in Resolvers
  PROVE  /\ Later(d) \in Resolvers
         /\ Later(d).originalTarget = d.originalTarget /\ Later(d).targetName = d.targetName
         /\ Later(d).queryPending = d.queryPending
<1> DEFINE x == IF d.sinceStart <= DNS_TIMEOUT THEN d.sinceStart + 1 ELSE d.sinceStart
           y == IF d.sinceUpdate < DNS_RETRY_THRESHOLD THEN d.sinceUpdate + 1 ELSE d.sinceUpdate
<1>1. x \in Int /\ y \in Int
  BY DEF Resolvers
<1>2. Later(d) = [d EXCEPT !.sinceStart = x, !.sinceUpdate = y]
  BY DEF Later, Resolvers
<1> HIDE DEF x, y
<1> QED BY <1>1, <1>2 DEF Resolvers

\* What goes on the wire.
LEMMA RequestSent ==
  ASSUME \A q \in asked : q.name = Host, NEW d, Request(d).name = Host, sendRequest(d)
  PROVE  \A q \in asked' : q.name = Host
  BY DEF sendRequest, sendUdp

\* A turn of a loop that drives the query.
LEMMA TurnDriven ==
  ASSUME Resolving, drivenTurn
  PROVE  /\ dns' \in Resolvers /\ ignored \subseteq ignored'
         /\ \A q \in asked' : q.name = Host
         /\ dns'.queryPending \/ asked' # {} => dns'.originalTarget = Host
         /\ dns'.queryPending => dns'.targetName = dns'.originalTarget
         /\ dns.queryPending /\ ~dns'.queryPending /\ dns'.lastQueryRc = "Good" =>
               dns'.dnsTable # << >> \/ "overwritten" \in ignored'
<1>1. PICK o \in PACKET_PROCESS_SINGLE :
        /\ processed(o)
        /\ dns' = drivePendingQuery(o.dns)
        /\ IF RetryDue(o.dns) THEN sendRequest(dns') ELSE UNCHANGED asked
  BY DEF drivenTurn
<1>2. PICK d : d = o.dns
  OBVIOUS
<1>3. /\ d \in Resolvers
      /\ asked = {} => d = dns
      /\ d.originalTarget = dns.originalTarget
      /\ d.queryPending => d = dns
      /\ dns.queryPending /\ ~d.queryPending /\ d.lastQueryRc = "Good" => d.dnsTable # << >> \/ o.errorLost
  BY <1>2, ProcessSingleDns
<1>4. PICK e : e = drivePendingQuery(d)
  OBVIOUS
<1>5. /\ e \in Resolvers
      /\ e.originalTarget = d.originalTarget /\ e.targetName = d.targetName /\ e.dnsTable = d.dnsTable
      /\ e.queryPending => d.queryPending
      /\ ~d.queryPending => e = d
      /\ d.queryPending /\ ~e.queryPending => e.lastQueryRc # "Good"
      /\ RetryDue(d) => d.queryPending
      /\ Request(e).name = d.targetName
  BY <1>3, <1>4, Driven
<1>6. dns' = e /\ IF RetryDue(d) THEN sendRequest(e) ELSE UNCHANGED asked
  BY <1>1, <1>2, <1>4
<1>7. /\ \A q \in asked : q.name = Host
      /\ dns.queryPending \/ asked # {} => dns.originalTarget = Host
      /\ dns.queryPending => dns.targetName = dns.originalTarget
  BY DEF Resolving
<1>8. ignored \subseteq ignored' /\ (o.errorLost => "overwritten" \in ignored')
  BY <1>1 DEF processed
<1>9. CASE RetryDue(d)
  <2>1. d = dns /\ d.targetName = Host /\ d.originalTarget = Host
    BY <1>3, <1>5, <1>7, <1>9
  <2>2. \A q \in asked' : q.name = Host
    BY <1>5, <1>6, <1>7, <1>9, <2>1, RequestSent
  <2> QED BY <1>5, <1>6, <1>8, <2>1, <2>2, <1>3
<1>10. CASE ~RetryDue(d)
  <2>1. asked' = asked
    BY <1>6, <1>10
  <2>2. e.queryPending => d = dns /\ dns.queryPending
    BY <1>3, <1>5
  <2>3. ~e.queryPending /\ e.lastQueryRc = "Good" => e = d
    BY <1>5
  <2> QED BY <1>3, <1>5, <1>6, <1>7, <1>8, <2>1, <2>2, <2>3
<1> QED BY <1>9, <1>10

LEMMA InitResolving == Init => Resolving
<1> SUFFICES ASSUME Init PROVE Resolving
  OBVIOUS
<1>1. DnsStart.originalTarget \in Names /\ DnsStart.targetName \in Names
  BY LifeAssumption DEF DnsStart
<1>2. << >> \in Seq(Entries)
  BY EmptySeq
<1>3. DnsStart \in Resolvers
  BY <1>1, <1>2 DEF DnsStart, Resolvers, OutcomeCodes, Codes
<1>4. DnsStart.queryPending = FALSE /\ DnsStart.lastQueryRc = "Good"
  BY DEF DnsStart
<1>5. env \in Configs
  BY DEF Init, Configs
<1> QED BY <1>3, <1>4, <1>5 DEF Init, Resolving

\* The steps that leave the queries alone, and do not come from outside to where
\* they matter.
LEMMA OtherSteps ==
  ASSUME Resolving, UNCHANGED <<env, dns, asked, addr>>, ignored \subseteq ignored',
         pc' \in Before => pc \in Before,
         pc' \in {"resolve", "dnsLoop"} => pc' = pc,
         pc' \in {"connect", "connecting", "asmRun"} => pc \in {"connect", "connecting", "asmRun"}
  PROVE  Resolving'
<1>1. HostAddrs' = HostAddrs
  BY DEF HostAddrs, Genuine
<1>2. Resolvers' = Resolvers
  BY <1>1 DEF Resolvers, Entries
<1> QED BY <1>1, <1>2 DEF Resolving

LEMMA StepResolving == IInv /\ Resolving /\ [Next]_vars => Resolving'
<1> SUFFICES ASSUME IInv, Resolving, [Next]_vars PROVE Resolving'
  OBVIOUS
<1> USE DEF Before, Starting, Opening
<1>1. CASE openLog
  BY <1>1, OtherSteps DEF openLog
<1>2. CASE parseEnv
  BY <1>2, OtherSteps DEF parseEnv, goesOn, setupFails, SetupNext
<1>3. CASE Buffer_init
  BY <1>3, OtherSteps DEF Buffer_init, goesOn, setupFails, SetupNext
<1>4. CASE Packet_init
  BY <1>4, OtherSteps DEF Packet_init, goesOn, setupFails, SetupNext
<1>5. CASE hook
  BY <1>5, OtherSteps DEF hook, goesOn, SetupNext
<1>6. CASE initForReassembly
  BY <1>6, OtherSteps DEF initForReassembly, allocate, goesOn, initStackFails, SetupNext
<1>7. CASE TcpSocketMgr_init
  BY <1>7, OtherSteps DEF TcpSocketMgr_init, allocate, goesOn, initStackFails, SetupNext
<1>8. CASE TcpBuffer_init
  BY <1>8, OtherSteps DEF TcpBuffer_init, allocate, goesOn, initStackFails, SetupNext
<1>9. CASE Dns_init
  BY <1>9, OtherSteps DEF Dns_init, goesOn, initStackFails, SetupNext
<1>10. CASE Buffer_startReceiving
  BY <1>10, OtherSteps DEF Buffer_startReceiving, goesOn, SetupNext
<1>11. CASE selfCheckDone
  BY <1>11, OtherSteps DEF selfCheckDone, initStackFails
<1>12. CASE getSocket
  BY <1>12, OtherSteps DEF getSocket, setupFails
<1>13. CASE getEnvironmentDetails
  <2>1. HostAddrs' = HostAddrs /\ Resolvers' = Resolvers
    BY <1>13 DEF getEnvironmentDetails, Resolvers, Entries, HostAddrs, Genuine
  <2> QED BY <1>13, <2>1 DEF getEnvironmentDetails, setupFails, Resolving
<1>14. CASE firstResolve
  <2>1. env' = env /\ pc = "resolve"
    BY <1>14 DEF firstResolve
  <2>2. HostAddrs' = HostAddrs /\ Resolvers' = Resolvers
    BY <2>1 DEF Resolvers, Entries, HostAddrs, Genuine
  <2>3. PICK ident \in 0..(MaxIdent - 1) :
          LET r == resolveHost(ident)
          IN  /\ IF r.rc < 0 THEN setupFails ELSE pc' = "dnsLoop" /\ UNCHANGED ret
              /\ dns' = r.dns /\ addr' = Written(r)
              /\ IF r.rc = 1 THEN sendRequest(r.dns) ELSE UNCHANGED asked
    BY <1>14 DEF firstResolve
  <2>4. PICK r : r = resolveHost(ident)
    OBVIOUS
  <2>5. /\ IF r.rc < 0 THEN setupFails ELSE pc' = "dnsLoop" /\ UNCHANGED ret
        /\ dns' = r.dns
        /\ IF r.rc = 1 THEN sendRequest(r.dns) ELSE UNCHANGED asked
    BY <2>3, <2>4
  <2>6. ident \in Int
    BY DnsAssumption
  <2>7. /\ dns \in Resolvers /\ ~dns.queryPending /\ asked = {} /\ dns.lastQueryRc = "Good"
        /\ env.botHost = "unset" /\ env \in Configs
    BY <2>1 DEF Resolving
  <2> HIDE DEF Before, Starting, Opening
  <2>8. pc' \in {"close", "dnsLoop"} /\ pc' \notin Before
    BY <2>5 DEF setupFails, Before, Starting, Opening
  <2>9. CASE r.rc = -2 /\ ~NameServerSet(env.cfg) /\ r.dns = dns
    <3>1. pc' = "close" /\ dns' = dns /\ asked' = asked
      BY <2>5, <2>9 DEF setupFails
    <3> QED BY <2>1, <2>2, <2>7, <2>8, <3>1 DEF Resolving
  <2>10. CASE /\ r.rc = 0 /\ NameServerSet(env.cfg)
              /\ r.dns.dnsTable # << >> /\ r.dns \in Resolvers
              /\ r.dns = [dns EXCEPT !.dnsTable = r.dns.dnsTable]
    <3>1. pc' = "dnsLoop" /\ dns' = r.dns /\ asked' = asked
      BY <2>5, <2>10
    <3>2. r.dns.queryPending = dns.queryPending
      BY <2>7, <2>10 DEF Resolvers
    <3> QED BY <2>1, <2>2, <2>7, <2>8, <2>10, <3>1, <3>2 DEF Resolving
  <2>11. CASE /\ r.rc = 1 /\ NameServerSet(env.cfg) /\ r.dns \in Resolvers
              /\ r.dns = newQuery(dns, Host, ident)
    <3>1. pc' = "dnsLoop" /\ dns' = r.dns /\ sendRequest(r.dns)
      BY <2>5, <2>11
    <3>2. /\ r.dns.queryPending /\ r.dns.originalTarget = Host /\ r.dns.targetName = Host
          /\ Request(r.dns).name = Host
      BY <2>6, <2>7, <2>11, QueryAsksHost
    <3>3. \A q \in asked' : q.name = Host
      BY <2>7, <3>1, <3>2, RequestSent
    <3> QED BY <2>1, <2>2, <2>7, <2>8, <2>11, <3>1, <3>2, <3>3 DEF Resolving
  <2> QED BY <2>4, <2>6, <2>7, <2>9, <2>10, <2>11, HostResolved
<1>15. CASE dnsLoop
  <2>1. /\ env' = env /\ addr' = addr /\ pc = "dnsLoop" /\ dns.queryPending
        /\ pc' \in {"dnsLoop", "close"}
    BY <1>15 DEF dnsLoop, setupFails
  <2>2. HostAddrs' = HostAddrs /\ Resolvers' = Resolvers
    BY <2>1 DEF Resolvers, Entries, HostAddrs, Genuine
  <2>3. drivenTurn
    BY <1>15 DEF dnsLoop
  <2>4. /\ NameServerSet(env.cfg) /\ env.botHost = "unset" /\ env \in Configs
    BY <2>1 DEF Resolving
  <2>5. pc' \notin Before /\ pc' \notin {"connect", "connecting", "asmRun"} /\ pc' # "resolve"
    BY <2>1
  <2> HIDE DEF Before, Starting, Opening
  <2> QED BY <2>1, <2>2, <2>3, <2>4, <2>5, TurnDriven DEF Resolving
<1>31. CASE recvTurn
  <2>1. UNCHANGED <<pc, env, addr>> /\ pc = "asmRun" /\ drivenTurn
    BY <1>31 DEF recvTurn
  <2>2. HostAddrs' = HostAddrs /\ Resolvers' = Resolvers
    BY <2>1 DEF Resolvers, Entries, HostAddrs, Genuine
  <2>3. pc' \notin Before /\ pc' \notin {"resolve", "dnsLoop"}
    BY <2>1
  <2> HIDE DEF Before, Starting, Opening
  <2> QED BY <2>1, <2>2, <2>3, TurnDriven DEF Resolving
<1>16. CASE dnsDone
  <2>1. env' = env /\ ignored' = ignored /\ pc = "dnsLoop" /\ ~dns.queryPending
    BY <1>16 DEF dnsDone
  <2>2. HostAddrs' = HostAddrs /\ Resolvers' = Resolvers
    BY <2>1 DEF Resolvers, Entries, HostAddrs, Genuine
  <2>3. /\ NameServerSet(env.cfg) /\ dns \in Resolvers /\ env.botHost = "unset" /\ env \in Configs
        /\ dns.lastQueryRc = "Good" => dns.dnsTable # << >> \/ "overwritten" \in ignored
        /\ \A q \in asked : q.name = Host
        /\ asked # {} => dns.originalTarget = Host
    BY <2>1 DEF Resolving
  <2>4. CASE dns.lastQueryRc # "Good"
    BY <1>16, <2>4, OtherSteps DEF dnsDone, setupFails
  <2>5. CASE dns.lastQueryRc = "Good"
    <3>1. PICK ident \in 0..(MaxIdent - 1) :
            LET r == resolveHost(ident)
            IN  /\ dns' = r.dns /\ addr' = Written(r)
                /\ IF r.rc = 1 THEN sendRequest(r.dns) ELSE UNCHANGED asked
      BY <1>16, <2>5 DEF dnsDone
    <3>2. PICK r : r = resolveHost(ident)
      OBVIOUS
    <3>3. /\ pc' = "connect" /\ dns' = r.dns /\ addr' = Written(r)
          /\ IF r.rc = 1 THEN sendRequest(r.dns) ELSE UNCHANGED asked
      BY <1>16, <2>5, <3>1, <3>2 DEF dnsDone
    <3>4. ident \in Int
      BY DnsAssumption
    <3>5. pc' \notin Before /\ pc' \notin {"resolve", "dnsLoop"}
      BY <3>3
    <3> HIDE DEF Before, Starting, Opening
    <3>6. CASE /\ r.rc = 0 /\ r.addr \in HostAddrs /\ r.dns \in Resolvers
               /\ r.dns = [dns EXCEPT !.dnsTable = r.dns.dnsTable]
      <4>1. addr' = r.addr /\ asked' = asked
        BY <3>3, <3>6 DEF Written
      <4>2. r.dns.queryPending = dns.queryPending /\ r.dns.originalTarget = dns.originalTarget
        BY <2>3, <3>6 DEF Resolvers
      <4> QED BY <2>1, <2>2, <2>3, <3>3, <3>5, <3>6, <4>1, <4>2 DEF Resolving
    <3>7. CASE /\ r.rc = 1 /\ r.addr = NoAddr /\ dns.dnsTable = << >> /\ r.dns \in Resolvers
               /\ r.dns = newQuery(dns, Host, ident)
      <4>1. addr' = NoAddr /\ sendRequest(r.dns) /\ "overwritten" \in ignored
        BY <2>3, <2>5, <3>3, <3>7 DEF Written
      <4>2. /\ r.dns.queryPending /\ r.dns.originalTarget = Host /\ r.dns.targetName = Host
            /\ Request(r.dns).name = Host
        BY <2>3, <3>4, <3>7, QueryAsksHost
      <4>3. \A q \in asked' : q.name = Host
        BY <2>3, <4>1, <4>2, RequestSent
      <4> QED BY <2>1, <2>2, <2>3, <3>3, <3>5, <3>7, <4>1, <4>2, <4>3 DEF Resolving
    <3> QED BY <2>1, <2>3, <3>2, <3>4, <3>6, <3>7, HostResolved
  <2> QED BY <2>4, <2>5
<1>17. CASE connect
  BY <1>17, OtherSteps DEF connect
<1>18. CASE connected
  BY <1>18, OtherSteps DEF connected, setupFails
<1>19. CASE asmRunDone
  BY <1>19, OtherSteps DEF asmRunDone
<1>20. CASE close
  BY <1>20, OtherSteps DEF close
<1>21. CASE freeSocket
  BY <1>21, OtherSteps DEF freeSocket
<1>22. CASE Buffer_stopReceiving
  BY <1>22, OtherSteps DEF Buffer_stopReceiving, EndNext
<1>23. CASE Packet_release_type
  BY <1>23, OtherSteps DEF Packet_release_type, EndNext
<1>24. CASE stopDnsTcp
  BY <1>24, OtherSteps DEF stopDnsTcp, EndNext
<1>25. CASE reassemblyStop
  BY <1>25, OtherSteps DEF reassemblyStop, EndNext
<1>26. CASE unhook
  <2>1. ret \in {"exited", "close"}
    BY DEF IInv, Types
  <2> QED BY <1>26, <2>1, OtherSteps DEF unhook, EndNext
<1>27. CASE turn
  <2>1. /\ UNCHANGED <<pc, env, asked, addr>>
        /\ pc \in {"selfCheck", "connecting", "asmRun", "close"} /\ ignored \subseteq ignored'
    BY <1>27 DEF turn, processed
  <2>2. HostAddrs' = HostAddrs /\ Resolvers' = Resolvers
    BY <2>1 DEF Resolvers, Entries, HostAddrs, Genuine
  <2>3. PICK o \in PACKET_PROCESS_SINGLE : dns' = o.dns
    BY <1>27 DEF turn
  <2>4. /\ dns' \in Resolvers /\ (asked = {} => dns' = dns)
        /\ dns'.originalTarget = dns.originalTarget
        /\ dns'.queryPending => dns' = dns
    BY <2>3, ProcessSingleDns
  <2>5. pc \in Before => dns' = dns
    BY <2>4 DEF Resolving
  <2>6. pc \notin {"resolve", "dnsLoop"}
    BY <2>1
  <2> HIDE DEF Before, Starting, Opening
  <2> QED BY <2>1, <2>2, <2>4, <2>5, <2>6 DEF Resolving
<1>28. CASE receiver
  BY <1>28, OtherSteps DEF receiver
<1>29. CASE tick
  <2>1. /\ UNCHANGED <<pc, env, asked, addr, ignored>> /\ dns' = Later(dns) /\ dns.queryPending
        /\ dns \in Resolvers
    BY <1>29 DEF tick, Resolving
  <2>2. HostAddrs' = HostAddrs /\ Resolvers' = Resolvers
    BY <2>1 DEF Resolvers, Entries, HostAddrs, Genuine
  <2>3. /\ dns' \in Resolvers /\ dns'.queryPending = dns.queryPending
        /\ dns'.originalTarget = dns.originalTarget /\ dns'.targetName = dns.targetName
    BY <2>1, LaterTyped
  <2> HIDE DEF Before, Starting, Opening
  <2> QED BY <2>1, <2>2, <2>3 DEF Resolving
<1>30. CASE UNCHANGED vars
  BY <1>30, OtherSteps DEF vars
<1> QED
  BY <1>1, <1>2, <1>3, <1>4, <1>5, <1>6, <1>7, <1>8, <1>9, <1>10, <1>11, <1>12, <1>13, <1>14, <1>15,
     <1>16, <1>17, <1>18, <1>19, <1>20, <1>21, <1>22, <1>23, <1>24, <1>25, <1>26, <1>27, <1>28, <1>29, <1>30, <1>31
     DEF Next, setupSocket, initStack, cleanupSocket, endStack

\* Whatever the name server's answers are and whenever they come, every request
\* asks for the host, and so would the next one: a query goes on only if the
\* answer was for another ident, and then it changed nothing.
THEOREM RequestsAskOriginal == Spec => []AsksOriginal
<1>1. Resolving => AsksOriginal
  BY DEF Resolving, AsksOriginal
<1> QED BY <1>1, InitIInv, StepIInv, InitResolving, StepResolving, PTL DEF Spec

\* The bot connects only to BOT_HOST or to an address of the host, for every size
\* of the cache, every hosts file and every honest name server: the second
\* resolve, whose return code setupSocket does not look at, finds the host in the
\* cache.  It misses it, and the bot connects to 0.0.0.0, only if udpHandler tested
\* an error and kept a zero out of the packet it had freed.
THEOREM ConnectsToHost == Spec => []ConnectsToAnswered
<1>1. Resolving => ConnectsToAnswered
  BY DEF Resolving, ConnectsToAnswered, HostAddrs
<1> QED BY <1>1, InitIInv, StepIInv, InitResolving, StepResolving, PTL DEF Spec
-----------------------------------------------------------------------------
(* The socket. *)

NoTables == [avail |-> << >>, active |-> << >>, allocated |-> 0]
FreeTables == [avail |-> <<TheSocket>>, active |-> << >>, allocated |-> 1]
HeldTables == [avail |-> << >>, active |-> << >>, allocated |-> 1]
ActiveTables == [avail |-> << >>, active |-> <<TheSocket>>, allocated |-> 1]

\* The calls that are made with a socket in hand, and those after it was given back.
Holding == {"getEnvironmentDetails", "resolve", "dnsLoop", "connect", "connecting", "asmRun"}
After == {"Buffer_stopReceiving", "Packet_release_type"} \cup Ending

\* The inductive invariant of the tables: which of the four they are.  The variable
\* sock keeps its value after freeSocket, so that nothing but pc tells a socket in
\* hand from one given back.
Sockets ==
    /\ \/ socks = NoTables /\ sock = NoSocket
       \/ socks = FreeTables /\ (sock = NoSocket \/ (sock = TheSocket /\ ret = "exited" /\ pc \in After))
       \/ socks \in {HeldTables, ActiveTables} /\ sock = TheSocket /\ pc \in Holding \cup {"close"}
       \/ socks = HeldTables /\ sock = TheSocket /\ pc = "freeSocket"
    /\ pc \in Holding => sock = TheSocket
    /\ pc \in Starting \cup {"hook", "initForReassembly", "TcpSocketMgr_init"} => socks = NoTables

\* The tables in which a socket is put, and from which it is taken.
LEMMA Tables ==
  /\ makeActive(<< >>, TheSocket) = <<TheSocket>>
  /\ makeActive(<<TheSocket>>, TheSocket) = <<TheSocket>>
  /\ makeInactive(<< >>, TheSocket) = << >>
  /\ makeInactive(<<TheSocket>>, TheSocket) = << >>
<1>1. ToSet(<< >>) = {} /\ ToSet(<<TheSocket>>) = {TheSocket}
  BY DEF ToSet
<1>2. makeInactive(<< >>, TheSocket) = << >>
  BY DEF makeInactive
<1>3. makeInactive(<<TheSocket>>, TheSocket) = << >>
  <2>1. {i \in DOMAIN <<TheSocket>> : <<TheSocket>>[i] = TheSocket} = {1}
    OBVIOUS
  <2>2. Min({1}) = 1
    <3>1. {1} \in SUBSET Nat
      OBVIOUS
    <3> QED BY <3>1, MinLeast
  <2>3. RemoveAt(<<TheSocket>>, 1) = << >>
    BY DEF RemoveAt
  <2> QED BY <2>1, <2>2, <2>3 DEF makeInactive
<1> QED BY <1>1, <1>2, <1>3 DEF makeActive

LEMMA InitSockets == Init => Sockets
  BY DEF Init, Sockets, NoTables, Holding, Starting

LEMMA StepSockets == IInv /\ Sockets /\ [Next]_vars => Sockets'
<1> SUFFICES ASSUME IInv, Sockets, [Next]_vars PROVE Sockets'
  OBVIOUS
<1> USE DEF Sockets, Starting, Ending, Holding, After
<1>0. ret \in {"exited", "close"} /\ TheSocket # NoSocket
  BY LifeAssumption DEF IInv, Types
<1>1. CASE openLog
  BY <1>1 DEF openLog, stack
<1>2. CASE parseEnv
  BY <1>2 DEF parseEnv, stack, goesOn, setupFails, SetupNext
<1>3. CASE Buffer_init
  BY <1>3 DEF Buffer_init, goesOn, setupFails, SetupNext
<1>4. CASE Packet_init
  BY <1>4 DEF Packet_init, goesOn, setupFails, SetupNext
<1>5. CASE hook
  BY <1>5 DEF hook, goesOn, SetupNext
<1>6. CASE initForReassembly
  BY <1>6 DEF initForReassembly, allocate, goesOn, initStackFails, SetupNext
<1>7. CASE TcpSocketMgr_init
  <2>1. /\ socks = NoTables /\ sock = NoSocket /\ sock' = sock
        /\ pc' \in {"TcpBuffer_init", "Buffer_stopReceiving"}
    BY <1>0, <1>7 DEF TcpSocketMgr_init, allocate, goesOn, initStackFails, SetupNext, NoTables,
       FreeTables, HeldTables, ActiveTables
  <2>2. socks' = NoTables \/ socks' = FreeTables
    BY <1>7, <2>1 DEF TcpSocketMgr_init, NoTables, FreeTables
  <2> QED BY <2>1, <2>2
<1>8. CASE TcpBuffer_init
  BY <1>8 DEF TcpBuffer_init, allocate, goesOn, initStackFails, SetupNext
<1>9. CASE Dns_init
  BY <1>9 DEF Dns_init, goesOn, initStackFails, SetupNext
<1>10. CASE Buffer_startReceiving
  BY <1>10 DEF Buffer_startReceiving, goesOn, SetupNext
<1>11. CASE selfCheckDone
  BY <1>11 DEF selfCheckDone, stack, initStackFails
<1>12. CASE getSocket
  <2>1. socks \in {NoTables, FreeTables} /\ sock = NoSocket /\ pc = "getSocket"
    BY <1>0, <1>12 DEF getSocket
  <2>2. CASE socks = NoTables
    BY <1>12, <2>1, <2>2 DEF getSocket, setupFails, NoTables
  <2>3. CASE socks = FreeTables
    <3>1. socks.avail = <<TheSocket>>
      BY <2>3 DEF FreeTables
    <3>2. socks.avail # << >> /\ Last(socks.avail) = TheSocket /\ Front(socks.avail) = << >>
      BY <3>1 DEF Last, Front
    <3>3. pc' = "getEnvironmentDetails" /\ sock' = TheSocket
      BY <1>12, <3>2 DEF getSocket
    <3>4. socks' = [socks EXCEPT !.avail = << >>]
      BY <1>12, <3>2 DEF getSocket
    <3>5. socks' = HeldTables
      BY <2>3, <3>4 DEF FreeTables, HeldTables
    <3> QED BY <3>3, <3>5
  <2> QED BY <2>1, <2>2, <2>3
<1>13. CASE getEnvironmentDetails
  BY <1>0, <1>13 DEF getEnvironmentDetails, stack, setupFails
<1>14. CASE firstResolve
  BY <1>0, <1>14 DEF firstResolve, stack, setupFails
<1>15. CASE dnsLoop
  BY <1>0, <1>15 DEF dnsLoop, setupFails
<1>16. CASE dnsDone
  BY <1>0, <1>16 DEF dnsDone, stack, setupFails
<1>17. CASE connect
  <2>1. /\ socks \in {HeldTables, ActiveTables} /\ sock = TheSocket /\ sock' = TheSocket
        /\ pc' = "connecting"
    BY <1>0, <1>17 DEF connect
  <2>2. socks' = [socks EXCEPT !.active = makeActive(socks.active, TheSocket)]
    BY <1>17, <2>1 DEF connect
  <2>3. socks' = ActiveTables
    BY <2>1, <2>2, Tables DEF HeldTables, ActiveTables
  <2> QED BY <2>1, <2>3
<1>18. CASE connected
  BY <1>0, <1>18 DEF connected, stack, setupFails
<1>19. CASE asmRunDone
  BY <1>0, <1>19 DEF asmRunDone, stack
<1>20. CASE close
  <2>1. pc = "close" /\ sock' = sock /\ pc' \in {"freeSocket", "lost"} /\ ret' = ret
    BY <1>20 DEF close
  <2>2. CASE sock = NoSocket
    BY <1>0, <1>20, <2>1, <2>2 DEF close
  <2>3. CASE sock # NoSocket
    <3>1. sock = TheSocket /\ socks \in {HeldTables, ActiveTables} /\ pc' = "freeSocket"
      BY <1>20, <2>1, <2>3 DEF close
    <3>2. socks' = [socks EXCEPT !.active = makeInactive(socks.active, TheSocket)]
      BY <1>20, <2>3, <3>1 DEF close
    <3>3. socks' = HeldTables
      BY <3>1, <3>2, Tables DEF HeldTables, ActiveTables
    <3> QED BY <2>1, <3>1, <3>3
  <2> QED BY <2>2, <2>3
<1>21. CASE freeSocket
  <2>1. /\ pc = "freeSocket" /\ sock' = sock /\ pc' = "Buffer_stopReceiving" /\ ret' = "exited"
        /\ socks' = Returned(sock)
    BY <1>21 DEF freeSocket
  <2>2. CASE socks = NoTables /\ sock = NoSocket
    <3>1. Len(socks.avail) = socks.allocated
      BY <2>2 DEF NoTables
    <3> QED BY <2>1, <2>2, <3>1 DEF Returned
  <2>3. CASE socks = FreeTables
    <3>1. Len(socks.avail) = socks.allocated
      BY <2>3 DEF FreeTables
    <3>2. sock = NoSocket
      BY <2>1, <2>3 DEF FreeTables, HeldTables
    <3> QED BY <2>1, <2>3, <3>1, <3>2 DEF Returned
  <2>4. CASE socks = HeldTables /\ sock = TheSocket
    <3>1. Len(socks.avail) # socks.allocated
      BY <2>4 DEF HeldTables
    <3>2. socks' = [socks EXCEPT !.avail = Append(socks.avail, TheSocket)]
      BY <2>1, <2>4, <3>1 DEF Returned
    <3>3. socks' = FreeTables
      BY <2>4, <3>2 DEF HeldTables, FreeTables
    <3> QED BY <2>1, <2>4, <3>3
  <2> QED BY <2>1, <2>2, <2>3, <2>4
<1>22. CASE Buffer_stopReceiving
  BY <1>0, <1>22 DEF Buffer_stopReceiving, EndNext
<1>23. CASE Packet_release_type
  BY <1>0, <1>23 DEF Packet_release_type, EndNext
<1>24. CASE stopDnsTcp
  BY <1>0, <1>24 DEF stopDnsTcp, EndNext
<1>25. CASE reassemblyStop
  BY <1>0, <1>25 DEF reassemblyStop, EndNext
<1>26. CASE unhook
  BY <1>0, <1>26 DEF unhook, EndNext
<1>27. CASE turn \/ recvTurn
  BY <1>27 DEF turn, recvTurn
<1>28. CASE receiver
  BY <1>28 DEF receiver
<1>29. CASE tick
  BY <1>29 DEF tick, stack
<1>30. CASE UNCHANGED vars
  BY <1>30 DEF vars
<1> QED
  BY <1>1, <1>2, <1>3, <1>4, <1>5, <1>6, <1>7, <1>8, <1>9, <1>10, <1>11, <1>12, <1>13, <1>14, <1>15,
     <1>16, <1>17, <1>18, <1>19, <1>20, <1>21, <1>22, <1>23, <1>24, <1>25, <1>26, <1>27, <1>28, <1>29, <1>30
     DEF Next, setupSocket, initStack, cleanupSocket, endStack

\* Every behaviour accounts for the socket: freeSocket puts none into a table that
\* is full, also when initStack has failed and cleanupSocket runs all the same.
THEOREM SocketsAreAccounted == Spec => []SocketsAccounted
<1>1. Sockets => SocketsAccounted
  <2> SUFFICES ASSUME Sockets PROVE SocketsAccounted
    OBVIOUS
  <2>1. ToSet(<< >>) = {} /\ ToSet(<<TheSocket>>) = {TheSocket}
    BY DEF ToSet
  <2>2. IsInjective(<< >>) /\ IsInjective(<<TheSocket>>)
    BY DEF IsInjective
  <2>3. Len(<< >>) = 0 /\ Len(<<TheSocket>>) = 1
    OBVIOUS
  <2>4. CASE socks = NoTables
    BY <2>1, <2>2, <2>3, <2>4 DEF SocketsAccounted, NoTables
  <2>5. CASE socks = FreeTables
    BY <2>1, <2>2, <2>3, <2>5 DEF SocketsAccounted, FreeTables
  <2>6. CASE socks = HeldTables
    BY <2>1, <2>2, <2>3, <2>6 DEF SocketsAccounted, HeldTables
  <2>7. CASE socks = ActiveTables /\ sock = TheSocket
    BY <2>1, <2>2, <2>3, <2>7 DEF SocketsAccounted, ActiveTables
  <2> QED BY <2>4, <2>5, <2>6, <2>7 DEF Sockets
<1> QED BY <1>1, InitIInv, StepIInv, InitSockets, StepSockets, PTL DEF Spec
=============================================================================
