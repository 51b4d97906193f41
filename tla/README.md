# Verification of pdtb

pdtb is a Twitch IRC bot for DOS: `code/BOT` holds the bot (C++ glue and 8086
assembly), `code/TCPLIB` and `code/TCPINC` the mTCP stack that is linked into
`bot.exe` with the options of `code/MTCP.CFG` and `TCPINC/GLOBAL.CFG`. The program is
single threaded; what interrupts it is the packet driver, which delivers received packets
by an upcall at interrupt time, and the timer, which only counts. Everything else that makes it hard
comes from outside: the network loses, repeats and delays, and the server and ARP answer
when they like.

This directory holds TLA+ models of the parts that carry the program's logic, the TLC
configurations that check them on small instances, and TLAPS proofs of what matters most
for every size.

## Inventory

| Part | State | Operations | Talks to | What can go wrong |
|---|---|---|---|---|
| `BOT.CPP` | `sock`, `recvPacket`, `sendBuffer` | `setupSocket`, `recvNewPacket`, `currentSendBuffer`, `sendNewBuffer`, `cleanupSocket` | the stack, by calls and by polling loops; the assembly, by calls | buffers lost or missing, data dropped at the end, clean-up of what was never set up |
| `state.nas` | registers, `lineBuffer` | labels of `asmRun` | `BOT.CPP`, `logic.nas` | lines cut or joined wrongly at packet and buffer ends |
| `parse.nas` | `parseBuffer`, pointers and lengths | `doParse`, `paramAt` | `logic.nas` | full buffer, full parameter list, incomplete lines |
| `logic.nas`, `string.nas` | `botState`, `outBuffer` | `dispatchInit`, `dispatchLine`, `dispatchExit`, writers | `state.nas`, the parser, the log | output longer than the buffer, comparisons beyond the text |
| `log.nas` | a file handle | `openLog`, `writeLog`, `closeLog` | DOS | (output only) |
| `RINGBUF.H` | `first`, `next`, `entries`, `ring` | `enqueue`, `dequeue`, `peek`, `hasRoom` | the TCP socket's three queues | index wrap, full and empty |
| `PACKET.CPP` | free stack, ring of packets, buffer being copied | `receiver`, `Packet_process_internal`, `Buffer_free`, start and stop | the driver's interrupt, every protocol | interrupts between any two steps, a buffer with two owners |
| `TCP.CPP`, `TCP.H` | state, sequence numbers, three queues, transmit buffer pool | open, `enqueue`, `drivePackets`, `process`, `close` | IP, ARP, packet buffers, the bot | loss, repetition, reordering, retransmission, simultaneous open and close, time-outs |
| `TCPSOCKM.CPP` | free and active sockets | `getSocket`, `freeSocket`, `makeActive`, `makeInactive` | TCP | a socket twice in a table, or none at all |
| `ARP.CPP` | cache, pending table | `resolve`, `processArp`, `driveArp`, self-check | IP, packet buffers | counter and table disagree, stale or doubled entries |
| `IP.CPP` | reassembly tables, big packets | `process`, `processFragment`, `purgeOverdue` | packet buffers, TCP, UDP | incomplete and overlapping packets, fragments that keep their buffers, pools exhausted |
| `DNS.CPP`, `UDP.CPP` | one pending query, cache; port handlers | `resolve`, `udpHandler`, `drivePendingQuery` | UDP, ARP | late answers, retries, answers without an address |
| `UTILS.CPP` | configuration; the stack as a whole | `parseEnv`, `initStack`, `endStack` | all | half-started stack torn down |
| `TIMER.CPP`, `ETH*.CPP`, `IPASM.ASM`, `TRACE.CPP` | ticks, small tables | - | - | (hooked at the start, unhooked at the end: `BotLife`) |

`PROJECT.json` lists the hazards one by one, at the line where each bites, with the
properties that would catch it.

## Modules

| Module | Models | State and actions |
|---|---|---|
| `Fifo` | what a bounded queue promises | a sequence; `Put`, `Take`, `Look` |
| `RingBuffer` | `RINGBUF.H` | the fields of the class; one action per method. The mask is modelled as a remainder, which is the same for the powers of two the header demands |
| `PacketBuffers` | the buffers of `PACKET.CPP` | free stack, ring, the buffer being copied, the buffers held by handlers; the two halves of `receiver` are separate actions that may come anywhere, what runs with interrupts disabled is one step |
| `LineFramer` | `state.nas` | registers under their names, the bytes received so far; one action per label |
| `TcpSocket` | one socket of `TCP.CPP` | operators from a socket record to the next one, one per function of the file |
| `SeqNumbers` | the comparisons of sequence numbers in `process2` and `removeSentPackets` | the numbers of the code, modulo any number, and beside them those they stand for; a packet is sent, an acknowledgement processed |
| `BotTcp` | the loops of `BOT.CPP`, `connect` and `close` over that socket | a turn of a loop is: at most one packet, `drivePackets`, a look at the state. The server and the network are external actions |
| `IrcParse` | `parse.nas` | operators from a reader record (rest of the input, what was written, carry flag) to the next; `Reference` is an independent definition over the whole line |
| `BotLogic` | `logic.nas`, `string.nas` | bot state and the length of the last reply |
| `Arp`, `MCArp` | `ARP.CPP`, the self-check of `UTILS.CPP` | pending table, its counter, cache; hosts and an impostor are external |
| `IpFrag`, `MCIpFrag` | reassembly in `IP.CPP` | fragment controls, the list of free big packets, the count of free packet buffers, what upper layers keep; a turn of a loop with a fragment, with another packet or with none, the end of a reader, a tick |
| `Dns` | `DNS.CPP`, the port table of `UDP.CPP` | operators from a record of the static variables to the next one |
| `BotLife`, `MCBotLife` | `main`, `setupSocket`, `cleanupSocket`, `parseEnv`, `initStack`, `endStack`, `TCPSOCKM.CPP` | `pc` names the call that comes next; driver, vectors, memory, sockets, ports and the resolver are what the calls set up and take down. Every call that can fail has the failing outcome, the release of the driver included, whose result `endStack` does not look at |
| `*Proofs` | | theorems about the module they extend; `LineProofs` is about `LineFramer` and `IrcParse`, `QueueProofs` about `RingBuffer` and `SeqNumbers` |
| `LineEnd` | `LF` | the character that `state.nas` and the parser have in common |
| `NatLemmas` | | facts about sets of numbers and recursive functions that several proofs need |

`BotTcp` composes the socket, the transmit buffers and the bot; `RingBuffer` is shown to be
the sequence that `TcpSocket` uses for its queues (by `Fifo`), and `LineFramer` takes from
`BotTcp` only that packets carry the stream in order, which `StreamInOrder` states.
`LineFramer` in turn leaves open what `BotLogic` decides. `BotLife` composes `Dns` with the start
and the end of all the others, of which it keeps what their life depends on: `BotTcp` is its
`connecting`, `asmRun` and `close`, `Arp` its `selfCheck`, `PacketBuffers` and `IpFrag` its counts of free
buffers and of fragments kept.

In every module a definition `X_...` under a comment that begins with "Slip" is a wrong variant of
`X`. They are not used by any specification; putting one in the place of `X` must break the
property it is listed for in `PROJECT.json` ("mutants"), which shows that the property
can fail.

### Abstractions

- Packet contents are numbers: the arrival number in `PacketBuffers`, a position of the
  stream in `BotTcp`, a length in `BotLogic`.
- In `BotTcp` a message of the bot takes one sequence number, numbers start at 0 and do not wrap. The
  wrap is in `SeqNumbers`, which keeps of a connection only its numbers and its sent queue. There the
  server may acknowledge anything that has been sent, and an acknowledgement may be late and repeated,
  but not older than one turn of the numbers.
- Time is open in `BotTcp` and `Arp`: what waits for a time (retransmission, ARP retry, close) may
  find it over at any step, so every order of time-outs and answers occurs. `IpFrag` and `Dns`
  count ticks since a start, up to just beyond the longest time they are compared with.
- What the server could have sent may arrive at any later time, any number of times and in
  any order: `Arriving` is that set, and no message queue is needed.
- The loops of `drivePackets2` and of `IpReassembly::purgeOverdue` are recursive functions of the number of
  turns and of the slot, and the copying loop of `makeBigPacket` is `FlattenSeq`.
- `sendPureAck`, resets and window probes change nothing in the socket and are only on the
  wire; they are not in the model.
- The congestion of the receive buffers behind `BotTcp` (a packet that the driver drops) is
  a packet that does not arrive.
- In `IpFrag` offsets and lengths are in the 8-byte units of the header, and a sender does not
  use an ident again while the old datagram is still about. Fragments of the same datagram may
  be cut in every possible way, overlapping ones included. The upper layers keep any packet
  they get, up to as many as the incoming ring and `recvPacket` hold, or free it.
- In `Dns` names and addresses are model values, none of them numeric, empty, too long or to be
  completed by a domain. A record has a section, a type, an owner and a datum; names are compared
  by equality. The cache keeps the order of update (the code's clock counts seconds, so that
  among entries of one second it takes the one that is first in the table).
- `sendRequest` waits for ARP and processes packets meanwhile; the ident is new by then, so that
  the handler drops every answer that can come, and the wait is one step of `BotLife`.
- The response code is read twice from a packet that was freed before (`DNS.CPP:917` and `:919`), and the driver
  may write the next packet over it before the first read or between the two. `Overwritten` gives the pairs of codes
  that may be read: any code twice, or the true one and then any. `ignored` remembers that an error was seen and none kept.
  (In `PacketBuffers` a packet is held until `Buffer_free`, so that `HeldIntact` says nothing of these two reads.)
- `Pending_Sent` and `Pending_Outgoing` have 16 bits. `CounterSize` is the number of their values: 65536 in the
  program, 4 in the runs, so that the wrap is reached; the theorems hold for any number above the size of the ring.
  `replaced` counts the ACKs that `enqueue` took out of the queue without subtracting them (`TCP.CPP:953`); the code has no such field,
  and nothing but `CountersCover` reads it. Likewise `returned` in `PacketBuffers`, the buffers freed since the stop.
- What C leaves undefined is open in `BotLife`: `close` through a null pointer returns or does not, the
  handler of INT 0 returns or ends the program. Both are recorded in `faults`.
- The memory of packet buffers and sockets is never freed: `Buffer_stop` and `TcpSocketMgr::stop` look
  at pointers that are not set (`TcpSocketMgr::init` sets a local variable of the same name,
  `TCPSOCKM.CPP:102`). DOS takes it back at the exit; the model says the same by leaving these
  blocks live.
- The states of `logic.nas` compare a fixed number of bytes, beyond the text if it is
  shorter. `BotLogic` therefore lets the comparison succeed for any line short enough that the
  bytes compared can have been written, by this line or an earlier one.

## Runs

Passing runs (`tlc -config X.cfg M`):

| Run | Bounds | Shows |
|---|---|---|
| `ring` | 4 slots, 2 values | `RefinesFifo`: the ring is a bounded queue; `Inv`: why (the indexes agree with the count, live slots are filled). The ring's real size |
| `packets` | 3 buffers, 6 packets, 1 drop | buffers have one owner, packets are neither lost, overtaken nor changed while held, what arrived is processed, and nothing is received after the stop; only if the driver refuses to be released a copy may begin, into a buffer freed since. 6 packets let the ring of 4 slots wrap and every buffer be used again |
| `framer` | buffer of 3 bytes, stream of 8 in packets of up to 4 | lines are dispatched as they are; pieces only of lines that do not fit. Lines end before, at and after the end of a packet and of the buffer |
| `tcp_send` | ring 2, 2 transmit buffers, 2 messages, 1 unit from the server, windows 0 and 1, 1 retransmission, simultaneous open, counters of 4 values | buffers, order of delivery, sequence numbers, counters, and that a close ends. Ring and pool are exhausted within the bounds, and `Pending_Outgoing` wraps to 0 with packets queued: `CountersCover` fails there with `<=` for `<` |
| `tcp_recv` | 3 units in segments of up to 2, window 1, simultaneous open | the stream arrives in order and what is acknowledged is stored; 3 units in overlapping segments overfill the ring of 2 |
| `parse` | lines of up to 8 characters, a parse buffer of 5, 4 list entries | the parser agrees with the reference, with the buffer and the list full; no other text than a whole line is accepted |
| `arp` | 2 pending, cache of 2, 3 hosts, 2 retries | counter, cache and self-check, and that a request ends. The cache overflows, one host changes its address |
| `ipfrag` | 2 controls and big packets, 3 fragments a packet, big packets of 3 units, datagrams of 2, 3 and 4 units, 4 buffers, 3 packets kept upstream, time-out after 1 tick | buffers and big packets are conserved, the tables agree with their counter, what is read is what was sent, what is all there waits only if fragments overlap, and every reassembly ends. Both pools run out, controls are all in use, fragment lists fill up, a list that has everything and overlaps waits, and one datagram is too big |
| `life` | 2 packet buffers, a cache of 1, retry after 1 tick and time-out after 2, 4 idents, an alias with 2 addresses, 6 kinds of reply, 2 hosts files, every configuration | see below |

`life` runs the program from `main` to its exit. `ConnectsToAnswered`: whatever arrives, the bot connects
only to BOT_HOST or an address the host name has, or, if an error was overwritten between the two reads of it, to
0.0.0.0. `AsksOriginal`: repeated requests ask the first
question. `ReceivesOnlyWhenReady`: the driver can deliver only while everything a packet may reach
is there, except that one which refused to be released finds buffers again after `reassemblyStop`.
`UnhookedAtExit`: no vector is left behind, and no driver handle but in that case. `SocketsAccounted`: the tables hold sockets,
each once. `CleanAfterStart`: after a successful start the end has no fault. `QueryEnds`: the wait for
the name server ends. Two buffers let one packet be in a fragment list while another comes; a
query is sent up to three times, so that late answers to older idents arrive.

Violations, each with a finding in `PROJECT.json`:

| Run | Statement of the repository | What the code does |
|---|---|---|
| `no_buffer` | `state.nas:19`, sendPacket "rets 0 if good, positive int if bad" | without a transmit buffer the message is written through NULL |
| `overrun` | `string.nas:13`, "cx: len left in write buffer" | cx is the address of a variable, so nothing is truncated |
| `unsafe_end` | `UTILS.CPP:936`, endStack "should always be safe to call, even from within initStack" | ended before it was started it calls INT 0 and clears the break vector; ended twice it frees memory twice |

`no_buffer` uses the bounds of `tcp_send` without simultaneous open, `overrun` lines of the full 512
bytes, `unsafe_end` the bounds of `life`.

More disagreements were met while modelling, which no run shows as a violation. `TCP.CPP:2243` says of every packet that
`removeSentPackets` releases "This packet was acked", but `p->seqNum < targetSeqNum` does not look at the wrap:
with a packet that ends at 0xfffffff5 and the next one from 0xfffffff6 to 3 outstanding, an acknowledgement of
0xfffffff6 releases both, and the second is not sent again if it was lost. (`ReleasedUnacknowledged` proves that there is
such an acknowledgement; `reinit` starts below 2^31, so it takes a connection that has sent 2^31 bytes.) `state.nas:70` takes the 0 of
`recvNewPacket` as "No more packet", and `TCP.CPP:2598` says "Only put real packets on the sent queue"; but
data that arrives together with the server's FIN is in the incoming ring when `recvNewPacket`
reports the end (`BOT.CPP:144`); and a FIN that waits in `connectPacket` for its acknowledgement is
turned into a plain ACK when data arrives (`TCP.CPP:1993`), so that a lost FIN is not sent again
and `close` ends by its time-out.

Four of them are the exceptions that properties name, so that the runs show how far they go and the proofs that
they go no further. `endStack` does not look at the result of `Packet_release_type` (`UTILS.CPP:950`), which fails if the driver
refuses (`PACKET.CPP:488`), although the comment above it (`UTILS.CPP:945`) does not want later code "to accidentally return an incoming buffer": the fragments'
buffers that `reassemblyStop` frees are then given to the driver when their memory and the handlers are gone, and the
handle stays at the exit (`NoneGivenAfterStop`, `ReceivesOnlyWhenReady`, `UnhookedAtExit`). A response code that is
an error when it is tested and 0 when it is kept ends the query as a good one with nothing cached; `setupSocket`
does not look at the second `resolve`, whose `scanHostsFile` has cleared the address (`DNS.CPP:1010`), and connects to 0.0.0.0
(`ConnectsToAnswered`). Every ACK that a data packet replaces leaves `Pending_Outgoing` one too high, so that after some 65 thousand of
them it is 0 with a packet queued, and `drivePackets` leaves that packet alone until the counter changes again
(`CountersCover`). A fragment that overlaps the one before it is inserted (`IP.CPP:908`), and the datagram waits for its
time-out although every unit is there (`OnlyOverlappedWaits`).

### Fairness

- `PacketBuffers`: weak fairness of `Packet_process_internal`; every loop of the bot and of the
  stack calls `PACKET_PROCESS_SINGLE`.
- `LineFramer`: weak fairness of the steps of the processor between two packets. No packet
  need ever come.
- `BotTcp`: weak fairness of `close` and of `closeDone`. `close` is called by `cleanupSocket`
  without a condition, and its loop ends at the latest when the clock has passed
  `TCP_CLOSE_TIMEOUT`. Nothing is assumed of the server or the network.
- `Arp`: for each slot, weak fairness of a call of `driveArp` in which that slot is overdue; the loops call it again and
  again while the clock runs. Two slots need never be overdue in the same call.

- `IpFrag`: weak fairness of a turn without a fragment (the loops go round, and `purgeOverdue` is
  part of each) and of the tick. Fragments may come for ever.
- `BotLife`: weak fairness of the loop that waits for the query, and of the tick while a query is
  pending. Nothing is assumed of the name server or of the driver.

`CHECK_DEADLOCK FALSE` is given where the program may end, the stream may be over or a bound of
the model stops it.

## Proofs

`tlapm` checks eight modules. The theorems hold for every value of the constants that satisfies the
named assumptions, which TLC evaluates on the runs (`WrapAssumption` is a hypothesis of its theorems instead): sizes are positive, `LF` is a byte, NULL is no
socket or buffer, and what is external keeps its part (below, where it matters). Each invariance
proof has the same three facts about its `IInv`: `Init` implies it, every step keeps it (one step of the
proof per action), it implies the properties. TLC checked each `IInv` on the bounds of the run first.

- `QueueProofs`, the ring. `RingInvariant` is inductive as it stands: types, `next` = `first` +
  `entries` modulo the size, and every live slot filled. `RingRefinesFifo` maps the ring to the
  sequence of its live slots; `enqueue` appends to it, `dequeue` takes its head, and a refused call
  leaves it alone.
- `QueueProofs`, the sequence numbers, for every width of the numbers and every size of packets and queue as
  long as a full queue takes less than a turn of them (`WrapAssumption`; 4 packets of at most 1460 bytes, and 2^32, in the
  program). `SeqNumbers` has no run: TLC agreed with numbers modulo 8, packets of up to 3 numbers and 2 of
  them outstanding, over two wraps, and the proofs are about all of them. What they show: acknowledgements are
  accepted as they would be without a wrap (`AcksJudged`), release what they cover
  (`AcknowledgedAreReleased`), and what they release beyond that ends behind a wrap they have not
  reached (`EarlyReleases`), where it does happen (`ReleasedUnacknowledged`).
  `WrappedLater` says what the cut to 32 bits does to two numbers less than a turn apart; from it follow, by
  cases alone, the comparisons of `process2` (`Judged`) and of `removeSentPackets` (`Released`).
  `NumbersInv` adds to the properties that the packets of the queue lie in order below the next number and
  that their places bound what is outstanding (`Bounded`): the comparisons are right only for
  numbers less than a turn apart.
- `PacketBuffersProofs`. The invariant needs all of the parts at once: `OneOwner` (a buffer is on
  the free stack, being copied into, in the live part of the ring, or held) with `NoneLost` (the
  live part of the ring has as many slots as packets were received and not processed), so that
  the ring cannot overflow; `InOrder` and `HeldIntact` then follow step by step; `Quiescent` says what
  the free stack holds outside of reception: nothing, or after the stop what was freed since, which is what `StopIsFinal`
  leaves to a driver that refused to be released.
- `LineProofs`, the framer. The properties speak of the moment of dispatch. `Framing` strengthens them for
  all the labels: where the line and the buffer's content start in the stream, that no LF lies
  between, and what `di`, `dx` and `si` are then. `ShortLinesDispatched`, `LinesAreSlices` and
  `PartsAreOfOversized` are that invariant at `dispatchLine`.
- `LineProofs`, the parser, for a line of any length and any size of its buffer and its list. `WholeLinesOnly` rests on `Sound`: a reader that has not failed holds a
  suffix of its line with no CR before it; every operator keeps that, and `parseCRLF` accepts only what is
  left when that is CR LF. `ParsedByReference` follows the parser along the words of the line. `WordsListed` shows
  that `Words` is a table of the line (`WordTable`: words do not touch, and all between them is
  spaces), by counting stretches (`NumberTaken`). `At(r, l, p, out)` says of a reader that it has
  written `out` and is at position p, or has failed because `out` is too long: `CopyFrom`, `SkipAt` and
  `MarkedWord` move it along the table, `HeadParsed` does so for tags, prefix and command. For the loop
  of `parseParams`, `TurnIs` is kept by every turn: it has one parameter of the reference for each turn, or all of
  them and is at the CR, or has failed on a line that the reference refuses too. `ParamAt` is the case
  distinction of one parameter (a word, the rest behind a colon, or nothing), and `ReferenceParams` the same
  for the reference. The comparison of `hasParamRoom` is why a list of `paramsListMax` entries is refused.
- `ArpProofs`. `PendingSound`: the counter is the number of slots in use, no two of them for one
  address, so that a free slot is there whenever the counter says so. `GoodTable`: an entry per
  address, each with an Ethernet address its host has or had; the bot's own address is in it only if an
  impostor answered, from which `ConflictsAreReal` follows. That hosts answer for themselves only
  is the model's statement of the network (`EthsAssumption`, and the actions of the hosts).
- `IpFragProofs`. `Good` says of a turn, also between its calls, where the packet buffers are (free, with
  the caller, in a fragment list: their sum is constant, a buffer in two lists would break it), that
  the free list has every big packet that is not with a reader, once, that a fragment list is
  sorted and never complete after a turn, and that what a reader holds is what was sent.
  `ReadersGetWhatWasSent` goes through the loop of `makeBigPacket`: a complete list is contiguous, so that
  what the fragments' units add up to is the datagram (`CopiedUnits`). `WholeDatagramsLeave` is the other way round
  (`WholeIsComplete`): without an overlap the unit at the end of a fragment can only be the first of the next one.
- `BotLifeProofs`. `IInv` ties what is set up to how far the program is. `Progress` says for every `pc` of
  the start which blocks, handlers and vectors are there; `Driver` that as long as the driver holds a handle
  either everything is ready or it finds no buffer; `Hooks` that only a program that had a
  driver has hooked a vector, and that it has none at the exit. `Sound` adds, for a program whose
  `initStack` succeeded, that `endStack` has not run before and that there is a socket, from which `CleanEnd`
  follows. `RequestsAskOriginal` and `ConnectsToHost` rest on an invariant of the resolver: its pending question is
  BOT_HOST or a name BOT_HOST is an alias of, and every address in the cache belongs to its name. Both need
  an honest name server (`RepliesAssumption`: a record says what is so; late, repeated and useless
  replies are among them) and a hosts file without mistakes (`HostsFilesAssumption`).
- `BotTcpProofs`, on the socket and the bot together. A transmit buffer is on one of `outgoing`, `sent`, `free`, or
  with the bot (`Clean`); only `connectPacket` can be on two of them, which is why the queues of a
  connection are not simply disjoint. `SocketTyped`, `CountersAreEnough` and `BufferIsInOnePlace` follow. `Counted` says
  that `Pending_Outgoing` is the length of its queue and the ACKs replaced, as long as these cannot make it wrap; and `Early`
  that none is replaced before the connection is established, so that a wrap never hides the packet of the SYN (`SenderDriven`).
  One lemma per function of `TCP.CPP` says all that it changes (`Enqueued`, `SentFirst`, `SentRemoved`,
  ...); a loop of `drivePackets2` is handled by induction on its turns (`LoopInvariant`).
  `MessagesAreDelivered`, `NumbersAreUsedOnce` and `MessagesAreKept` rest on `SInv`, for every server, one that opens
  the connection itself included. Whether a segment that is sent again says the same as before depends
  on headers that are kept in buffers, on the order of two queues, and on where the connection is, so
  none of the three is inductive. `Allowed` is what the wire may carry under which number: the SYN (0, or -1
  if one of the server came first), message m under m, the FIN behind the last one. `HeadersSound`: what a buffer of
  `sent`, or the one that waits for ARP, would put out again is allowed. `MessagesSound`: `outgoing` has its messages
  in order, from the next number on, also when one shares the packet of an ACK. `AllHeld`: a message not sent
  is in `outgoing`, and one the server does not have is in one of the queues. `Phase` gives the next
  number by the state, of which there are four kinds: opening, transfer, behind the FIN, and closed
  before the SYN was answered, where the emptied packet of the SYN may still be sent again. `ServerGot` is the
  server's side. That an ACK releases nothing the server lacks comes from `ArrivingAcks`: what the
  server acknowledges lies below `rcv`.
  `StreamIsInOrder` and `AcknowledgedDataIsStored` rest on `Received`: the packets of the incoming ring follow each
  other (`Chained`) from the first unit the bot has not read up to `ackNum`, and an acknowledged FIN is one
  above the data. They need `SInv` as well: `processGood` in SYN_RECVED stores data and then clears the queues if the
  segment does not acknowledge the bot's SYN, so that the data would be acknowledged and lost. `SynAnswers` shows
  that no such segment arrives, since the server sends data only after it has the bot's SYN.
- `NatLemmas`. The provers cannot instantiate the library's induction theorems, which take a
  predicate; for a set of numbers they can (`SetInduction`). From it come the facts about recursive
  functions and searches: `Min`, the first free slot, `FlattenSeq`.

Only model-checked: liveness (`EventuallyProcessed`, `EventuallyRead`, `CloseEnds`, `PendingEnds`,
`ReassemblyEnds`, `QueryEnds`), which needs fairness and `ENABLED`. Every invariant of a passing run is a
theorem.

## Not modelled

- The log, tracing, SNTP, Unicode: output or not part of `bot.exe`. Tracing is compiled in (`NOTRACE` is nowhere defined), but only writes.
- `getEnvironmentDetails` gives `sscanf` the value of `canary` where it wants its address (`BOT.CPP:50`): text behind the port is
  written to wherever that value points. The model has the three outcomes of a BOT_HOST that is absent, well formed or refused.
- `recv`, `send` with the copying receive buffer, `shutdown`, listening sockets: not used by the bot.
- RTT estimate and advertised window: they only influence when something is sent.
- Checksums, header layout, the BIOS calls of the packet driver interface.
- The iterative resolver (`DNS_ITERATIVE`) and the sending of UDP fragments: compiled out. `flushCache`,
  `deleteFromCache`, `accept` and the countdown timers: not called by the bot.
- The token and line helpers of `UTILS.CPP` and `decodeName`: parsing of bytes; only their outcomes are
  in `BotLife` and `Dns`.

## Plan

Ring, packet buffers, framer, TCP socket with the bot's loops, sequence numbers, parser, logic, ARP,
reassembly, resolver, and the start and the end of the program are modelled, and everything that a
passing run checks as an invariant is proved. Open: a `BotTcp` whose numbers wrap, in which a message
that is released early is lost for good.
