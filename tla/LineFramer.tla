----------------------------- MODULE LineFramer -----------------------------
(***************************************************************************)
(* The bot's main loop, BOT/state.nas: it cuts the packets that            *)
(* recvNewPacket returns into lines, hands each line to dispatchLine and   *)
(* sends what dispatchLine wants sent.  One action per label of the        *)
(* assembly; the registers keep their names.                               *)
(*                                                                         *)
(* `stream' is everything received so far, and si points into it: the      *)
(* current packet is the bx bytes from si on.  What recvNewPacket,         *)
(* dispatchLine and sendPacket return is left open here.                   *)
(***************************************************************************)
EXTENDS LineEnd, Integers, Sequences

CONSTANTS
    Bytes,          \* the byte values that matter
    NUL,            \* what the line buffer is filled with when the program starts
    lineBufferLen,  \* 512
    MaxStream,      \* bound: bytes received in a run
    MaxPacket       \* bound: bytes in a packet

ASSUME BytesAssumption == LF \in Bytes
ASSUME LenAssumption == lineBufferLen \in Nat \ {0}
ASSUME BoundsAssumption == MaxStream \in Nat /\ MaxPacket \in Nat

VARIABLES
    pc,          \* the label control is at
    ax,          \* what asmRun returns, once pc is "End"
    stream, si,  \* bytes received, and the position of the next one to read
    bx,          \* bytes left in the current packet
    lineBuffer,  \* the line being put together
    di, dx,      \* next free place in lineBuffer, and places left
    lineStart,   \* where in the stream the line that si is in begins
    from         \* where in the stream the content of lineBuffer begins

regs == <<ax, stream, si, bx, lineBuffer, di, dx>>
vars == <<pc, ax, stream, si, bx, lineBuffer, di, dx, lineStart, from>>

Packets == UNION {[1..n -> Bytes] : n \in 1..MaxPacket}
Codes == {1, 2, 3, 10}  \* how dispatchInit and sendPacket fail

Init ==
    /\ pc = "Start" /\ ax = 0
    /\ stream = << >> /\ si = 1 /\ bx = 0
    /\ lineBuffer = [i \in 1..lineBufferLen |-> NUL]
    /\ di = 1 /\ dx = lineBufferLen
    /\ lineStart = 1 /\ from = 1

\* dispatchInit may fail, and so may sending the login.
stateStart ==
    /\ pc = "Start"
    /\ \/ pc' = "End" /\ ax' \in Codes
       \/ pc' = "GetPacket" /\ ax' = 0
    /\ di' = 1 /\ dx' = lineBufferLen
    /\ UNCHANGED <<stream, si, bx, lineBuffer, lineStart, from>>

\* recvNewPacket returns a packet, 0 (the server closed) or -1 (Alt-X).  For
\* -1 dispatchExit's message is sent, whatever that returns.
stateGetPacket ==
    /\ pc = "GetPacket"
    /\ \/ \E p \in Packets :
             /\ Len(stream) + Len(p) <= MaxStream
             /\ stream' = stream \o p
             /\ bx' = Len(p)
             /\ si' = Len(stream) + 1
             /\ pc' = "AppendLine"
             /\ UNCHANGED ax
       \/ pc' = "End" /\ ax' = 5 /\ UNCHANGED <<stream, bx, si>>
    /\ UNCHANGED <<lineBuffer, di, dx, lineStart, from>>

\* Slip: the byte is compared with LF before it is stored.
appendByte_DropsLF ==
    /\ bx # 0 /\ dx # 0
    /\ si' = si + 1 /\ bx' = bx - 1
    /\ IF stream[si] = LF
       THEN pc' = "Dispatch" /\ UNCHANGED <<lineBuffer, di, dx>>
       ELSE /\ pc' = "AppendLine"
            /\ lineBuffer' = [lineBuffer EXCEPT ![di] = stream[si]]
            /\ di' = di + 1 /\ dx' = dx - 1

\* .copyLoop: one byte moves from the packet to the line.
appendByte ==
    /\ bx # 0 /\ dx # 0
    /\ lineBuffer' = [lineBuffer EXCEPT ![di] = stream[si]]
    /\ di' = di + 1 /\ dx' = dx - 1
    /\ si' = si + 1 /\ bx' = bx - 1
    /\ pc' = IF stream[si] = LF THEN "Dispatch" ELSE "AppendLine"

\* Slip: the end of a packet ends the line.
stateAppendLine_PacketIsLine ==
    /\ pc = "AppendLine"
    /\ \/ /\ bx = 0 /\ pc' = IF di = 1 THEN "GetPacket" ELSE "Dispatch"
          /\ UNCHANGED <<lineBuffer, di, dx, si, bx>>
       \/ bx # 0 /\ dx = 0 /\ pc' = "SkipLine" /\ UNCHANGED <<lineBuffer, di, dx, si, bx>>
       \/ appendByte
    /\ UNCHANGED <<ax, stream, lineStart, from>>

\* The packet is tested first: a full line waits for the next packet.
stateAppendLine ==
    /\ pc = "AppendLine"
    /\ \/ bx = 0 /\ pc' = "GetPacket" /\ UNCHANGED <<lineBuffer, di, dx, si, bx>>
       \/ bx # 0 /\ dx = 0 /\ pc' = "SkipLine" /\ UNCHANGED <<lineBuffer, di, dx, si, bx>>
       \/ appendByte
    /\ UNCHANGED <<ax, stream, lineStart, from>>

\* Slip: the scan only ends at an LF, not with the packet.
scanned_OnlyAtLF(k) ==
    /\ \A j \in 1..k-1 : stream[si + j - 1] # LF
    /\ stream[si + k - 1] = LF

\* repne scasb over the rest of the packet: it stops after the first LF, or at
\* the end of the packet.
scanned(k) ==
    /\ \A j \in 1..k-1 : stream[si + j - 1] # LF
    /\ stream[si + k - 1] = LF \/ k = bx

\* The rest of the line in this packet is skipped; then the first
\* lineBufferLen bytes are dispatched, whether or not an LF was found.
stateSkipLine ==
    /\ pc = "SkipLine"
    /\ \E k \in 1..bx :
          /\ scanned(k)
          /\ si' = si + k
          /\ bx' = bx - k
    /\ pc' = "Dispatch"
    /\ UNCHANGED <<ax, stream, lineBuffer, di, dx, lineStart, from>>

\* The line buffer's content as dispatchLine gets it: cx bytes.
cx == lineBufferLen - dx

\* Slip: the position is left as it is, only dx goes back.
resetLine_KeepsPosition == dx' = lineBufferLen /\ UNCHANGED di

\* .finish: the line buffer is empty again.
resetLine == di' = 1 /\ dx' = lineBufferLen

\* dispatchLine looks at the line and may want something sent; when sending
\* fails the bot stops.
stateDispatch ==
    /\ pc = "Dispatch"
    /\ \/ /\ pc' = "End"
          /\ ax' \in Codes
          /\ UNCHANGED <<di, dx>>
       \/ /\ pc' = "AppendLine"
          /\ UNCHANGED ax
          /\ resetLine
    /\ from' = si
    /\ lineStart' = IF stream[si - 1] = LF THEN si ELSE lineStart
    /\ UNCHANGED <<stream, si, bx, lineBuffer>>

botStep == stateAppendLine \/ stateSkipLine \/ stateDispatch
Next == stateStart \/ stateGetPacket \/ botStep

\* The processor goes on with what it has; no packet need ever come.
Spec == Init /\ [][Next]_vars /\ WF_vars(botStep)
-----------------------------------------------------------------------------
\* The registers address what they should: di and dx the free part of
\* lineBuffer, si and bx the unread rest of what was received.
TypeOK ==
    /\ pc \in {"Start", "GetPacket", "AppendLine", "SkipLine", "Dispatch", "End"}
    /\ ax \in Codes \cup {0, 5}
    /\ stream \in Seq(Bytes)
    /\ si \in Nat \ {0} /\ bx \in Nat /\ si + bx = Len(stream) + 1
    /\ lineBuffer \in [1..lineBufferLen -> Bytes \cup {NUL}]
    /\ dx \in 0..lineBufferLen /\ di = lineBufferLen - dx + 1
    /\ lineStart \in Nat \ {0} /\ from \in Nat \ {0}

Running == pc \in {"GetPacket", "AppendLine", "SkipLine", "Dispatch"}

\* The bytes handed to dispatchLine are a stretch of what the server sent, none
\* lost or stale at a packet boundary or after an earlier line, and LF occurs
\* in it at most as its last byte.
LineIsSlice ==
    Running =>
        /\ \A i \in 1..cx : lineBuffer[i] = stream[from + i - 1]
        /\ \A i \in 1..cx-1 : lineBuffer[i] # LF

\* Every line of at most lineBufferLen bytes (its LF included) is dispatched
\* whole, also right after an oversized one: when the LF that ends it has been
\* read, dispatch comes next and the buffer holds exactly that line.
ShortLineDispatched ==
    /\ Running /\ pc # "Dispatch" => \A p \in lineStart..si-1 : stream[p] # LF
    /\ pc = "Dispatch" /\ stream[si - 1] = LF /\ si - lineStart <= lineBufferLen
         => from = lineStart /\ cx = si - lineStart
    /\ lineStart = 1 \/ stream[lineStart - 1] = LF

\* What is dispatched without an LF is a full buffer, so dispatchLine can only
\* take it for a broken message; and a dispatch that does not start where a line
\* starts is the rest of an oversized one.
PartOfOversized ==
    Running =>
        /\ pc = "Dispatch" /\ lineBuffer[cx] # LF => dx = 0
        /\ from = lineStart \/ from > lineStart + lineBufferLen

\* The inductive invariant: the above, and how the stretch of the stream in the
\* buffer and the part already read fit together at each label.
Framing ==
    /\ lineStart <= si /\ from <= si
    /\ pc = "Start" => from = 1 /\ lineStart = 1 /\ si = 1 /\ bx = 0
    /\ pc \in {"GetPacket", "AppendLine", "SkipLine"} => si = from + cx
    /\ pc \in {"GetPacket", "AppendLine", "SkipLine"} =>
          \A i \in 1..cx : lineBuffer[i] # LF
    /\ pc = "GetPacket" => bx = 0
    /\ pc = "SkipLine" => dx = 0 /\ bx # 0
    /\ pc = "Dispatch" =>
          /\ dx < lineBufferLen
          /\ \A p \in lineStart..si-2 : stream[p] # LF
          /\ \/ si = from + cx /\ lineBuffer[cx] = LF
             \/ si > from + cx /\ dx = 0 /\ (stream[si - 1] = LF \/ bx = 0)
Inv == TypeOK /\ LineIsSlice /\ ShortLineDispatched /\ PartOfOversized /\ Framing

\* The loop never gets stuck with something to read: a byte that was received
\* is consumed, or the bot ends.
EventuallyRead ==
    \A p \in 1..MaxStream : (Len(stream) >= p) ~> (si > p \/ pc = "End")
=============================================================================
