----------------------------- MODULE LineProofs -----------------------------
(***************************************************************************)
(* From bytes to lines to messages.  The bot's main loop frames lines      *)
(* correctly for every size of the line buffer, every packet size and      *)
(* every stream of bytes; the parser splits every line that ends as it     *)
(* should, and no other, whatever the sizes of its buffer and list.        *)
(***************************************************************************)
EXTENDS LineFramer, IrcParse, SequenceTheorems, NatLemmas

LEMMA InitInv == Init => Inv
<1>. SUFFICES ASSUME Init PROVE Inv
  OBVIOUS
<1>. USE LenAssumption DEF Init
<1>1. TypeOK
  BY DEF TypeOK
<1>2. LineIsSlice /\ ShortLineDispatched /\ PartOfOversized
  BY DEF LineIsSlice, ShortLineDispatched, PartOfOversized, Running
<1>3. Framing
  BY DEF Framing, cx
<1>. QED
  BY <1>1, <1>2, <1>3 DEF Inv

\* A copied byte extends the line; an LF completes it.
LEMMA AppendInv ==
    ASSUME Inv, pc = "AppendLine", appendByte, UNCHANGED <<ax, stream, lineStart, from>>
    PROVE  Inv'
<1>. USE LenAssumption
<1>0. TypeOK /\ LineIsSlice /\ ShortLineDispatched /\ PartOfOversized /\ Framing
  BY DEF Inv
<1>1. /\ bx # 0 /\ dx # 0
      /\ lineBuffer' = [lineBuffer EXCEPT ![di] = stream[si]]
      /\ di' = di + 1 /\ dx' = dx - 1 /\ si' = si + 1 /\ bx' = bx - 1
      /\ pc' = IF stream[si] = LF THEN "Dispatch" ELSE "AppendLine"
  BY DEF appendByte
<1>n. /\ si \in Nat \ {0} /\ bx \in Nat \ {0} /\ dx \in 1..lineBufferLen
      /\ lineStart \in Nat \ {0} /\ from \in Nat \ {0} /\ si + bx = Len(stream) + 1
      /\ di = cx + 1 /\ cx \in 0..lineBufferLen-1 /\ cx' = cx + 1 /\ si = from + cx
      /\ si \in 1..Len(stream) /\ stream[si] \in Bytes
  BY <1>0, <1>1 DEF TypeOK, cx, Framing
<1>b. \A i \in 1..cx+1 : lineBuffer'[i] = IF i = cx + 1 THEN stream[si] ELSE lineBuffer[i]
  BY <1>0, <1>1, <1>n DEF TypeOK
<1>2. TypeOK'
  <2>1. lineBuffer' \in [1..lineBufferLen -> Bytes \cup {NUL}]
    BY <1>0, <1>1, <1>n DEF TypeOK
  <2>2. pc' \in {"AppendLine", "Dispatch"}
    BY <1>1
  <2>3. dx' \in 0..lineBufferLen /\ di' = lineBufferLen - dx' + 1
    BY <1>0, <1>1, <1>n DEF TypeOK
  <2>. QED
    BY <1>0, <1>1, <1>n, <2>1, <2>2, <2>3 DEF TypeOK
<1>3. LineIsSlice'
  <2>1. ASSUME NEW i \in 1..cx+1 PROVE lineBuffer'[i] = stream[from + i - 1]
    <3>1. CASE i = cx + 1
      <4>1. from + i - 1 = si
        BY <3>1, <1>n
      <4>. QED
        BY <3>1, <4>1, <1>b
    <3>2. CASE i \in 1..cx
      BY <3>2, <1>0, <1>b, <1>n, SMTT(30) DEF LineIsSlice, Running
    <3>3. cx \in Nat
      BY <1>n
    <3>. QED
      BY <3>1, <3>2, <3>3
  <2>2. ASSUME NEW i \in 1..cx PROVE lineBuffer'[i] # LF
    BY <1>0, <1>b, <1>n DEF Framing
  <2>. QED
    BY <1>n, <2>1, <2>2 DEF LineIsSlice
<1>4. ShortLineDispatched'
  <2>1. \A p \in lineStart..si-1 : stream[p] # LF
    BY <1>0 DEF ShortLineDispatched, Running
  <2>2. pc' # "Dispatch" => \A p \in lineStart..si : stream[p] # LF
    BY <1>1, <1>n, <2>1
  <2>3. si + 1 - lineStart <= lineBufferLen => from = lineStart
    BY <1>0, <1>n DEF PartOfOversized, Running
  <2>4. lineStart = 1 \/ stream[lineStart - 1] = LF
    BY <1>0 DEF ShortLineDispatched
  <2>. QED
    BY <1>1, <1>n, <2>2, <2>3, <2>4 DEF ShortLineDispatched
<1>5. PartOfOversized'
  <2>1. pc' = "Dispatch" => lineBuffer'[cx + 1] = LF
    BY <1>1, <1>b, <1>n
  <2>2. from = lineStart \/ from > lineStart + lineBufferLen
    BY <1>0 DEF PartOfOversized, Running
  <2>. QED
    BY <1>n, <2>1, <2>2 DEF PartOfOversized
<1>6. Framing'
  <2>1. lineStart <= si + 1 /\ from <= si + 1
    BY <1>0, <1>n DEF Framing
  <2>2. pc' = "AppendLine" => \A i \in 1..cx+1 : lineBuffer'[i] # LF
    BY <1>0, <1>1, <1>b, <1>n DEF Framing
  <2>3. pc' = "Dispatch" => lineBuffer'[cx + 1] = LF
    BY <1>1, <1>b, <1>n
  <2>4. \A p \in lineStart..si-1 : stream[p] # LF
    BY <1>0 DEF ShortLineDispatched, Running
  <2>5. pc' \in {"AppendLine", "Dispatch"}
    BY <1>1
  <2>. QED
    BY <1>1, <1>n, <2>1, <2>2, <2>3, <2>4, <2>5 DEF Framing
<1>. QED
  BY <1>2, <1>3, <1>4, <1>5, <1>6 DEF Inv

\* Skipping the rest of an oversized line stops at its LF or with the packet.
LEMMA SkipInv == ASSUME Inv, stateSkipLine PROVE Inv'
<1>. USE LenAssumption
<1>0. TypeOK /\ LineIsSlice /\ ShortLineDispatched /\ PartOfOversized /\ Framing
  BY DEF Inv
<1>1. PICK k \in 1..bx : scanned(k) /\ si' = si + k /\ bx' = bx - k
  BY DEF stateSkipLine
<1>2. pc = "SkipLine" /\ pc' = "Dispatch" /\ UNCHANGED <<ax, stream, lineBuffer, di, dx, lineStart, from>>
  BY DEF stateSkipLine
<1>n. /\ si \in Nat \ {0} /\ bx \in Nat /\ k \in Nat \ {0} /\ k <= bx /\ dx = 0
      /\ lineStart \in Nat \ {0} /\ from \in Nat \ {0} /\ si + bx = Len(stream) + 1
      /\ cx = lineBufferLen /\ cx' = cx /\ si = from + cx
      /\ lineStart <= si /\ from <= si
  BY <1>0, <1>1, <1>2 DEF TypeOK, cx, Framing
<1>3. \A p \in lineStart..si+k-2 : stream[p] # LF
  <2>. TAKE p \in lineStart..si+k-2
  <2>1. CASE p <= si - 1
    BY <2>1, <1>0, <1>2, <1>n DEF ShortLineDispatched, Running
  <2>2. CASE p >= si
    <3>1. p - si + 1 \in 1..k-1 /\ si + (p - si + 1) - 1 = p
      BY <2>2, <1>n
    <3>. QED
      BY <3>1, <1>1 DEF scanned
  <2>. QED
    BY <2>1, <2>2, <1>n
<1>4. stream[si + k - 1] = LF \/ k = bx
  BY <1>1 DEF scanned
<1>5. TypeOK'
  BY <1>0, <1>1, <1>2, <1>n DEF TypeOK
<1>6. LineIsSlice'
  BY <1>0, <1>2, <1>n DEF LineIsSlice, Running
<1>o. from = lineStart \/ from > lineStart + lineBufferLen
  BY <1>0, <1>2 DEF PartOfOversized, Running
<1>7. ShortLineDispatched'
  <2>1. ~(si + k - lineStart <= lineBufferLen)
    BY <1>n, <1>o
  <2>2. lineStart = 1 \/ stream[lineStart - 1] = LF
    BY <1>0 DEF ShortLineDispatched
  <2>. QED
    BY <1>1, <1>2, <1>n, <2>1, <2>2 DEF ShortLineDispatched, Running
<1>8. PartOfOversized'
  BY <1>2, <1>n, <1>o DEF PartOfOversized
<1>9. Framing'
  BY <1>1, <1>2, <1>3, <1>4, <1>n DEF Framing
<1>. QED
  BY <1>5, <1>6, <1>7, <1>8, <1>9 DEF Inv

\* After a dispatch the buffer is empty, and what follows begins a new line
\* exactly if an LF was read.
LEMMA DispatchInv == ASSUME Inv, stateDispatch PROVE Inv'
<1>. USE LenAssumption
<1>0. TypeOK /\ LineIsSlice /\ ShortLineDispatched /\ PartOfOversized /\ Framing
  BY DEF Inv
<1>1. /\ pc = "Dispatch"
      /\ \/ pc' = "End" /\ ax' \in Codes /\ UNCHANGED <<di, dx>>
         \/ pc' = "AppendLine" /\ UNCHANGED ax /\ di' = 1 /\ dx' = lineBufferLen
      /\ from' = si
      /\ lineStart' = IF stream[si - 1] = LF THEN si ELSE lineStart
      /\ UNCHANGED <<stream, si, bx, lineBuffer>>
  BY DEF stateDispatch, resetLine
<1>n. /\ si \in Nat \ {0} /\ dx \in 0..lineBufferLen-1 /\ bx \in Nat
      /\ lineStart \in Nat \ {0} /\ from \in Nat \ {0} /\ cx = lineBufferLen - dx
      /\ lineStart <= si /\ from <= si /\ lineStart' \in Nat \ {0} /\ lineStart' <= si
      /\ pc' = "AppendLine" => cx' = 0
  BY <1>0, <1>1 DEF TypeOK, cx, Framing
<1>2. TypeOK'
  BY <1>0, <1>1, <1>n DEF TypeOK
<1>3. LineIsSlice'
  BY <1>1, <1>n DEF LineIsSlice, Running
<1>4. stream[si - 1] # LF => \A p \in lineStart..si-1 : stream[p] # LF
  <2>1. \A p \in lineStart..si-2 : stream[p] # LF
    BY <1>0, <1>1 DEF Framing
  <2>. QED
    BY <2>1, <1>n
<1>5. ShortLineDispatched'
  <2>1. lineStart' = 1 \/ stream[lineStart' - 1] = LF
    BY <1>0, <1>1 DEF ShortLineDispatched
  <2>2. \A p \in lineStart'..si-1 : stream[p] # LF
    BY <1>1, <1>4, <1>n
  <2>. QED
    BY <1>1, <2>1, <2>2 DEF ShortLineDispatched
<1>6. PartOfOversized'
  <2>1. CASE stream[si - 1] = LF
    BY <1>1, <2>1 DEF PartOfOversized
  <2>2. CASE stream[si - 1] # LF
    <3>1. from = lineStart \/ from > lineStart + lineBufferLen
      BY <1>0, <1>1 DEF PartOfOversized, Running
    <3>2. si > from + cx /\ dx = 0
      <4>1. CASE si = from + cx /\ lineBuffer[cx] = LF
        <5>1. cx \in 1..cx /\ from + cx - 1 = si - 1
          BY <1>n, <4>1
        <5>2. lineBuffer[cx] = stream[from + cx - 1]
          BY <1>0, <1>1, <5>1 DEF LineIsSlice, Running
        <5>. QED
          BY <2>2, <4>1, <5>1, <5>2
      <4>. QED
        BY <4>1, <1>0, <1>1 DEF Framing
    <3>3. from' > lineStart' + lineBufferLen
      BY <1>1, <1>n, <2>2, <3>1, <3>2
    <3>. QED
      BY <1>1, <3>3 DEF PartOfOversized
  <2>. QED
    BY <2>1, <2>2
<1>7. Framing'
  BY <1>1, <1>n DEF Framing
<1>. QED
  BY <1>2, <1>3, <1>5, <1>6, <1>7 DEF Inv

\* A new packet extends the stream and touches nothing that was read before.
LEMMA PacketInv ==
    ASSUME Inv, pc = "GetPacket", NEW p \in Packets,
           stream' = stream \o p, bx' = Len(p), si' = Len(stream) + 1, pc' = "AppendLine",
           UNCHANGED <<ax, lineBuffer, di, dx, lineStart, from>>
    PROVE  Inv'
<1>. USE LenAssumption
<1>0. TypeOK /\ LineIsSlice /\ ShortLineDispatched /\ PartOfOversized /\ Framing
  BY DEF Inv
<1>1. p \in Seq(Bytes) /\ Len(p) \in Nat
  BY DEF Packets
<1>n. /\ si \in Nat \ {0} /\ bx = 0 /\ si = Len(stream) + 1 /\ si' = si
      /\ lineStart \in Nat \ {0} /\ from \in Nat \ {0} /\ dx \in 0..lineBufferLen
      /\ si = from + cx /\ lineStart <= si /\ cx' = cx /\ cx \in 0..lineBufferLen
  BY <1>0 DEF TypeOK, cx, Framing
<1>2. /\ stream' \in Seq(Bytes) /\ Len(stream') = Len(stream) + Len(p)
      /\ \A i \in 1..Len(stream) : stream'[i] = stream[i]
  BY <1>0, <1>1 DEF TypeOK
<1>3. TypeOK'
  BY <1>0, <1>1, <1>2, <1>n DEF TypeOK
<1>4. LineIsSlice'
  <2>1. \A i \in 1..cx : from + i - 1 \in 1..Len(stream)
    BY <1>n
  <2>. QED
    BY <1>0, <1>2, <1>n, <2>1 DEF LineIsSlice, Running
<1>5. ShortLineDispatched'
  <2>1. \A q \in lineStart..si-1 : stream'[q] # LF
    BY <1>0, <1>2, <1>n DEF ShortLineDispatched, Running
  <2>2. lineStart = 1 \/ stream'[lineStart - 1] = LF
    BY <1>0, <1>2, <1>n DEF ShortLineDispatched
  <2>. QED
    BY <1>n, <2>1, <2>2 DEF ShortLineDispatched
<1>6. PartOfOversized' /\ Framing'
  BY <1>0, <1>n DEF PartOfOversized, Framing, Running
<1>. QED
  BY <1>3, <1>4, <1>5, <1>6 DEF Inv

LEMMA NextInv == Inv /\ [Next]_vars => Inv'
<1>. SUFFICES ASSUME Inv, [Next]_vars PROVE Inv'
  OBVIOUS
<1>. USE LenAssumption
<1>1. CASE stateStart
  <2>1. /\ pc = "Start" /\ di' = 1 /\ dx' = lineBufferLen
        /\ UNCHANGED <<stream, si, bx, lineBuffer, lineStart, from>>
        /\ (pc' = "End" /\ ax' \in Codes) \/ (pc' = "GetPacket" /\ ax' = 0)
    BY <1>1 DEF stateStart
  <2>2. TypeOK' /\ cx' = 0
    BY <2>1 DEF Inv, TypeOK, cx
  <2>3. from = 1 /\ lineStart = 1 /\ si = 1 /\ bx = 0
    BY <2>1 DEF Inv, Framing
  <2>. QED
    BY <2>1, <2>2, <2>3 DEF Inv, LineIsSlice, ShortLineDispatched, PartOfOversized, Framing, Running
<1>2. CASE stateGetPacket
  <2>1. CASE pc' = "End" /\ ax' = 5 /\ UNCHANGED <<stream, bx, si, lineBuffer, di, dx, lineStart, from>>
    BY <2>1 DEF Inv, TypeOK, LineIsSlice, ShortLineDispatched, PartOfOversized, Framing, Running, cx
  <2>2. ASSUME NEW p \in Packets, stream' = stream \o p, bx' = Len(p), si' = Len(stream) + 1,
               pc' = "AppendLine", UNCHANGED <<ax, lineBuffer, di, dx, lineStart, from>>
        PROVE  Inv'
    BY <1>2, <2>2, PacketInv DEF stateGetPacket
  <2>. QED
    BY <1>2, <2>1, <2>2 DEF stateGetPacket
<1>3. CASE stateAppendLine
  <2>1. CASE bx = 0 /\ pc' = "GetPacket" /\ UNCHANGED <<lineBuffer, di, dx, si, bx>>
    BY <1>3, <2>1 DEF stateAppendLine, Inv, TypeOK, LineIsSlice, ShortLineDispatched,
                      PartOfOversized, Framing, Running, cx
  <2>2. CASE bx # 0 /\ dx = 0 /\ pc' = "SkipLine" /\ UNCHANGED <<lineBuffer, di, dx, si, bx>>
    BY <1>3, <2>2 DEF stateAppendLine, Inv, TypeOK, LineIsSlice, ShortLineDispatched,
                      PartOfOversized, Framing, Running, cx
  <2>3. CASE appendByte
    BY <1>3, <2>3, AppendInv DEF stateAppendLine
  <2>. QED
    BY <1>3, <2>1, <2>2, <2>3 DEF stateAppendLine
<1>4. CASE UNCHANGED vars
  BY <1>4 DEF vars, Inv, TypeOK, LineIsSlice, ShortLineDispatched, PartOfOversized, Framing, Running, cx
<1>. QED
  BY <1>1, <1>2, <1>3, <1>4, SkipInv, DispatchInv DEF Next, botStep

\* It is an invariant.
LEMMA Inductive == Spec => []Inv
  BY InitInv, NextInv, PTL DEF Spec

\* For every buffer size and every way the stream is cut into packets: the
\* registers stay inside the buffer and the packet, and every line that fits is
\* dispatched whole.
THEOREM ShortLinesDispatched == Spec => [](TypeOK /\ ShortLineDispatched)
<1>1. Inv => TypeOK /\ ShortLineDispatched
  BY DEF Inv
<1>. QED
  BY <1>1, Inductive, PTL

\* For every buffer size and every way the stream is cut into packets: what is
\* dispatched is a stretch of the stream, nothing left out and nothing repeated.
THEOREM LinesAreSlices == Spec => []LineIsSlice
<1>1. Inv => LineIsSlice
  BY DEF Inv
<1>. QED
  BY <1>1, Inductive, PTL

\* For every buffer size and every way the stream is cut into packets: a dispatch
\* that is not a whole line is part of a line that does not fit the buffer.
THEOREM PartsAreOfOversized == Spec => []PartOfOversized
<1>1. Inv => PartOfOversized
  BY DEF Inv
<1>. QED
  BY <1>1, Inductive, PTL

-----------------------------------------------------------------------------
(* The parser.  A reader that has not failed is somewhere in its line: what *)
(* it has left is the line from a position on.                             *)

Chars == {SP, CR, LF, COLON, AT} \cup Others
Readers == [in : Seq(Chars), out : Seq(Chars), failed : BOOLEAN]
Suffix(l, p) == SubSeq(l, p, Len(l))

\* What is left of a line, character by character.
LEMMA SuffixParts ==
  ASSUME NEW l \in Seq(Chars), NEW p \in 1..Len(l) + 1
  PROVE  /\ Suffix(l, p) \in Seq(Chars) /\ Len(Suffix(l, p)) = Len(l) - p + 1
         /\ \A i \in 1..Len(l) - p + 1 : Suffix(l, p)[i] = l[p + i - 1]
<1>1. Len(l) \in Nat /\ p \in Int
  OBVIOUS
<1>2. \A i \in p..Len(l) : l[i] \in Chars
  BY <1>1
<1>3. /\ SubSeq(l, p, Len(l)) \in Seq(Chars)
      /\ Len(SubSeq(l, p, Len(l))) = IF p <= Len(l) THEN Len(l) - p + 1 ELSE 0
      /\ \A i \in 1..Len(l) - p + 1 : SubSeq(l, p, Len(l))[i] = l[p + i - 1]
  BY <1>1, <1>2, SubSeqProperties
<1> QED BY <1>1, <1>3 DEF Suffix

\* A part of a line is its characters between two positions.
LEMMA PartOfLine ==
  ASSUME NEW l \in Seq(Chars), NEW p \in 1..Len(l) + 1, NEW q \in p - 1..Len(l)
  PROVE  /\ SubSeq(l, p, q) \in Seq(Chars) /\ Len(SubSeq(l, p, q)) = q - p + 1
         /\ \A i \in 1..q - p + 1 : SubSeq(l, p, q)[i] = l[p + i - 1]
<1>1. Len(l) \in Nat /\ p \in Int /\ q \in Int
  OBVIOUS
<1>2. \A i \in p..q : l[i] \in Chars
  BY <1>1
<1>3. /\ SubSeq(l, p, q) \in Seq(Chars)
      /\ Len(SubSeq(l, p, q)) = IF p <= q THEN q - p + 1 ELSE 0
      /\ \A i \in 1..q - p + 1 : SubSeq(l, p, q)[i] = l[p + i - 1]
  BY <1>1, <1>2, SubSeqProperties
<1> QED BY <1>1, <1>3

\* peek and read see the character at the reader's position.
LEMMA SuffixTail ==
  ASSUME NEW l \in Seq(Chars), NEW p \in 1..Len(l)
  PROVE  /\ Suffix(l, p) # << >> /\ Head(Suffix(l, p)) = l[p]
         /\ Tail(Suffix(l, p)) = Suffix(l, p + 1)
<1>1. Len(l) \in Nat /\ Len(l) \in p..Len(l)
  OBVIOUS
<1>2. Head(SubSeq(l, p, Len(l))) = l[p] /\ Tail(SubSeq(l, p, Len(l))) = SubSeq(l, p + 1, Len(l))
  BY <1>1, HeadTailOfSubSeq
<1>3. Len(Suffix(l, p)) > 0
  BY <1>1, SuffixParts
<1> QED BY <1>2, <1>3 DEF Suffix

\* Cutting what is left gives a part of the line and what is left after it.
LEMMA SuffixCut ==
  ASSUME NEW l \in Seq(Chars), NEW p \in 1..Len(l) + 1, NEW n \in 0..Len(l) - p + 1
  PROVE  /\ SubSeq(Suffix(l, p), n + 1, Len(Suffix(l, p))) = Suffix(l, p + n)
         /\ SubSeq(Suffix(l, p), 1, n) = SubSeq(l, p, p + n - 1)
<1>0. Len(l) \in Nat
  OBVIOUS
<1> DEFINE s == Suffix(l, p)
<1>1. /\ s \in Seq(Chars) /\ Len(s) = Len(l) - p + 1
      /\ \A i \in 1..Len(l) - p + 1 : s[i] = l[p + i - 1]
  BY SuffixParts
<1>2. /\ Suffix(l, p + n) \in Seq(Chars) /\ Len(Suffix(l, p + n)) = Len(l) - (p + n) + 1
      /\ \A i \in 1..Len(l) - (p + n) + 1 : Suffix(l, p + n)[i] = l[p + n + i - 1]
  <2>1. p + n \in 1..Len(l) + 1
    BY <1>0
  <2> QED BY <2>1, SuffixParts
<1>3. /\ SubSeq(l, p, p + n - 1) \in Seq(Chars) /\ Len(SubSeq(l, p, p + n - 1)) = n
      /\ \A i \in 1..n : SubSeq(l, p, p + n - 1)[i] = l[p + i - 1]
  <2>1. p + n - 1 \in p - 1..Len(l) /\ p + n - 1 - p + 1 = n
    <3>1. \A i, k, m \in Int : i + k - 1 - i + 1 = k /\ (0 <= k /\ k <= m - i + 1 => i + k - 1 \in i - 1..m)
      OBVIOUS
    <3>2. p \in Int /\ n \in Int /\ Len(l) \in Int /\ 0 <= n /\ n <= Len(l) - p + 1
      BY <1>0
    <3> QED BY <3>1, <3>2
  <2> QED BY <2>1, PartOfLine, SMTT(30)
<1> HIDE DEF s
<1>4. /\ SubSeq(s, n + 1, Len(s)) \in Seq(Chars) /\ Len(SubSeq(s, n + 1, Len(s))) = Len(s) - n
      /\ \A i \in 1..Len(s) - n : SubSeq(s, n + 1, Len(s))[i] = s[n + i]
  <2>1. n + 1 \in 1..Len(s) + 1 /\ Len(s) \in (n + 1) - 1..Len(s)
    BY <1>0, <1>1
  <2>2. /\ SubSeq(s, n + 1, Len(s)) \in Seq(Chars)
        /\ Len(SubSeq(s, n + 1, Len(s))) = Len(s) - (n + 1) + 1
        /\ \A i \in 1..Len(s) - (n + 1) + 1 : SubSeq(s, n + 1, Len(s))[i] = s[(n + 1) + i - 1]
    BY <1>1, <2>1, PartOfLine
  <2> QED BY <2>1, <2>2, <1>0, <1>1
<1>5. /\ SubSeq(s, 1, n) \in Seq(Chars) /\ Len(SubSeq(s, 1, n)) = n
      /\ \A i \in 1..n : SubSeq(s, 1, n)[i] = s[i]
  <2>1. 1 \in 1..Len(s) + 1 /\ n \in 1 - 1..Len(s)
    BY <1>0, <1>1
  <2>2. /\ SubSeq(s, 1, n) \in Seq(Chars) /\ Len(SubSeq(s, 1, n)) = n - 1 + 1
        /\ \A i \in 1..n - 1 + 1 : SubSeq(s, 1, n)[i] = s[1 + i - 1]
    BY <1>1, <2>1, PartOfLine
  <2> QED BY <2>1, <2>2, <1>0
<1>6. SubSeq(s, n + 1, Len(s)) = Suffix(l, p + n)
  <2>1. Len(SubSeq(s, n + 1, Len(s))) = Len(Suffix(l, p + n))
    BY <1>0, <1>1, <1>2, <1>4
  <2>2. ASSUME NEW i \in 1..Len(SubSeq(s, n + 1, Len(s)))
        PROVE  SubSeq(s, n + 1, Len(s))[i] = Suffix(l, p + n)[i]
    <3>1. i \in 1..Len(s) - n /\ n + i \in 1..Len(l) - p + 1 /\ p + (n + i) - 1 = p + n + i - 1
      BY <1>0, <1>1, <1>4
    <3>2. SubSeq(s, n + 1, Len(s))[i] = l[p + n + i - 1]
      BY <1>1, <1>4, <3>1
    <3>3. Suffix(l, p + n)[i] = l[p + n + i - 1]
      BY <1>0, <1>1, <1>2, <3>1
    <3> QED BY <3>2, <3>3
  <2> QED BY <1>2, <1>4, <2>1, <2>2, SeqEqual
<1>7. SubSeq(s, 1, n) = SubSeq(l, p, p + n - 1)
  <2>2. ASSUME NEW i \in 1..n
        PROVE  SubSeq(s, 1, n)[i] = SubSeq(l, p, p + n - 1)[i]
    <3>1. i \in 1..Len(l) - p + 1
      BY <1>0
    <3> QED BY <1>1, <1>3, <1>5, <3>1
  <2> QED BY <1>3, <1>5, <2>2, SeqEqual
<1> QED BY <1>6, <1>7 DEF s

\* Before counts what comes before the first character to stop at.
LEMMA BeforeStop ==
  ASSUME NEW s \in Seq(Chars), NEW stop
  PROVE  /\ Before(s, stop) \in 0..Len(s)
         /\ \A i \in 1..Before(s, stop) : s[i] \notin stop
         /\ Before(s, stop) < Len(s) => s[Before(s, stop) + 1] \in stop
<1> DEFINE G == {i \in DOMAIN s : \A j \in 1..i : s[j] \notin stop}
<1>1. Len(s) \in Nat /\ DOMAIN s = 1..Len(s)
  OBVIOUS
<1>2. G \in SUBSET (1..Len(s)) /\ \A i \in G : \A j \in 1..i : j \in G
  BY <1>1
<1>3. \A i \in 1..Len(s) : i \in G <=> \A j \in 1..i : s[j] \notin stop
  BY <1>1
<1>4. Before(s, stop) = Cardinality(G)
  BY DEF Before
<1> HIDE DEF G
<1>5. Cardinality(G) \in 0..Len(s) /\ G = 1..Cardinality(G)
  BY <1>1, <1>2, FirstNumbers
<1>6. PICK n \in 0..Len(s) : n = Cardinality(G) /\ G = 1..n
  BY <1>5
<1>7. ASSUME NEW i \in 1..n PROVE s[i] \notin stop
  <2>1. i \in G
    BY <1>6
  <2>2. i \in 1..Len(s) /\ i \in 1..i
    BY <1>1
  <2> QED BY <1>3, <2>1, <2>2
<1>8. n < Len(s) => s[n + 1] \in stop
  <2>1. SUFFICES ASSUME n < Len(s), s[n + 1] \notin stop PROVE FALSE
    OBVIOUS
  <2>2. n + 1 \in 1..Len(s) /\ n + 1 \notin 1..n
    BY <1>1, <2>1
  <2>3. \A j \in 1..n + 1 : s[j] \notin stop
    BY <1>7, <2>1
  <2>4. n + 1 \in G
    BY <1>3, <2>2, <2>3
  <2> QED BY <1>6, <2>2, <2>4
<1> QED BY <1>4, <1>6, <1>7, <1>8

\* What a reader has read of its line, if it has not failed, has no CR in it.
Passed(l, in) ==
    \E p \in 1..Len(l) + 1 : in = Suffix(l, p) /\ \A i \in 1..p - 1 : l[i] # CR
Sound(l, r) == r \in Readers /\ (~r.failed => Passed(l, r.in))

\* Reading characters other than CR keeps a reader sound.
LEMMA PassedOn ==
  ASSUME NEW l \in Seq(Chars), NEW in, Passed(l, in), NEW n \in 0..Len(in),
         \A i \in 1..n : in[i] # CR
  PROVE  Passed(l, SubSeq(in, n + 1, Len(in))) /\ SubSeq(in, n + 1, Len(in)) \in Seq(Chars)
<1>1. PICK p \in 1..Len(l) + 1 : in = Suffix(l, p) /\ \A i \in 1..p - 1 : l[i] # CR
  BY DEF Passed
<1>2. /\ Suffix(l, p) \in Seq(Chars) /\ Len(Suffix(l, p)) = Len(l) - p + 1
      /\ \A i \in 1..Len(l) - p + 1 : Suffix(l, p)[i] = l[p + i - 1]
  BY SuffixParts
<1>3. n \in 0..Len(l) - p + 1 /\ Len(l) \in Nat
  BY <1>1, <1>2
<1>4. SubSeq(in, n + 1, Len(in)) = Suffix(l, p + n)
  BY <1>1, <1>3, SuffixCut
<1>5. p + n \in 1..Len(l) + 1
  BY <1>3
<1>6. ASSUME NEW i \in 1..p + n - 1 PROVE l[i] # CR
  <2>1. CASE i \in 1..p - 1
    BY <1>1, <2>1
  <2>2. CASE i \notin 1..p - 1
    <3>1. i - p + 1 \in 1..n /\ i - p + 1 \in 1..Len(l) - p + 1 /\ p + (i - p + 1) - 1 = i
      BY <1>3, <2>2
    <3>2. in[i - p + 1] = l[i]
      BY <1>1, <1>2, <3>1
    <3> QED BY <3>1, <3>2
  <2> QED BY <2>1, <2>2
<1>7. Suffix(l, p + n) \in Seq(Chars)
  BY <1>5, SuffixParts
<1>8. Passed(l, Suffix(l, p + n))
  BY <1>5, <1>6 DEF Passed
<1> QED BY <1>4, <1>7, <1>8

LEMMA FailSound ==
  ASSUME NEW l \in Seq(Chars), NEW r \in Readers
  PROVE  Fail(r) \in Readers /\ Fail(r).failed /\ Sound(l, Fail(r))
<1>1. Fail(r) \in Readers /\ Fail(r).failed
  BY DEF Fail, Readers
<1> QED BY <1>1 DEF Sound

LEMMA ReadSound ==
  ASSUME NEW l \in Seq(Chars), NEW r, Sound(l, r), ~r.failed, r.in # << >>, Head(r.in) # CR
  PROVE  Sound(l, read(r))
<1>1. r \in Readers /\ Passed(l, r.in)
  BY DEF Sound
<1>2. r.in \in Seq(Chars) /\ Len(r.in) \in Nat /\ Len(r.in) # 0
  BY <1>1, EmptySeq DEF Readers
<1>3. 1 \in 0..Len(r.in) /\ r.in[1] # CR
  BY <1>2
<1>4. SubSeq(r.in, 1 + 1, Len(r.in)) \in Seq(Chars) /\ Passed(l, SubSeq(r.in, 1 + 1, Len(r.in)))
  BY <1>1, <1>3, PassedOn
<1>5. Tail(r.in) \in Seq(Chars) /\ Passed(l, Tail(r.in))
  <2>1. Tail(r.in) = SubSeq(r.in, 1 + 1, Len(r.in))
    BY <1>2, TailIsSubSeq
  <2> QED BY <1>4, <2>1
<1>6. read(r) = [r EXCEPT !.in = Tail(r.in)]
  BY DEF read
<1>7. read(r) \in Readers /\ read(r).in = Tail(r.in)
  BY <1>1, <1>5, <1>6 DEF Readers
<1> QED BY <1>5, <1>7 DEF Sound

LEMMA CopySound ==
  ASSUME NEW l \in Seq(Chars), NEW r, Sound(l, r), NEW stop, CR \in stop
  PROVE  Sound(l, copyUntil(r, stop))
<1>0. r \in Readers /\ r.in \in Seq(Chars) /\ r.out \in Seq(Chars) /\ Len(r.in) \in Nat
  BY DEF Sound, Readers
<1>1. CASE r.failed
  BY <1>1 DEF copyUntil
<1>2. CASE ~r.failed
  <2>1. PICK n \in 0..Len(r.in) : n = Before(r.in, stop) /\ \A i \in 1..n : r.in[i] \notin stop
    BY <1>0, BeforeStop
  <2>2. CASE n = Len(r.in) \/ Len(r.out) + n > parseBufferLenMax
    <3>1. copyUntil(r, stop) = Fail(r)
      BY <1>2, <2>1, <2>2 DEF copyUntil
    <3> QED BY <1>0, <3>1, FailSound
  <2>3. CASE ~(n = Len(r.in) \/ Len(r.out) + n > parseBufferLenMax)
    <3>1. copyUntil(r, stop) = [r EXCEPT !.in = SubSeq(r.in, n + 1, Len(r.in)),
                                         !.out = r.out \o SubSeq(r.in, 1, n)]
      BY <1>2, <2>1, <2>3 DEF copyUntil
    <3>2. /\ Passed(l, SubSeq(r.in, n + 1, Len(r.in)))
          /\ SubSeq(r.in, n + 1, Len(r.in)) \in Seq(Chars)
      BY <1>2, <2>1, PassedOn DEF Sound
    <3>3. SubSeq(r.in, 1, n) \in Seq(Chars)
      <4>1. \A i \in 1..n : r.in[i] \in Chars
        BY <1>0, <2>1
      <4> QED BY <4>1, SubSeqProperties
    <3>4. r.out \o SubSeq(r.in, 1, n) \in Seq(Chars)
      BY <1>0, <3>3, ConcatProperties
    <3>5. /\ copyUntil(r, stop) \in Readers
          /\ copyUntil(r, stop).in = SubSeq(r.in, n + 1, Len(r.in))
      BY <1>0, <3>1, <3>2, <3>4 DEF Readers
    <3> QED BY <3>2, <3>5 DEF Sound
  <2> QED BY <2>2, <2>3
<1> QED BY <1>1, <1>2

LEMMA SkipSound ==
  ASSUME NEW l \in Seq(Chars), NEW r, Sound(l, r)
  PROVE  Sound(l, skipSpace(r))
<1> DEFINE stop == {CR, LF, COLON, AT} \cup Others
<1>0. r \in Readers /\ r.in \in Seq(Chars)
  BY DEF Sound, Readers
<1>1. CASE r.failed
  BY <1>1 DEF skipSpace
<1>2. CASE ~r.failed
  <2>1. PICK n \in 0..Len(r.in) : n = Before(r.in, stop) /\ \A i \in 1..n : r.in[i] \notin stop
    <3> HIDE DEF stop
    <3> QED BY <1>0, BeforeStop
  <2>2. CASE n = Len(r.in)
    <3>1. skipSpace(r) = Fail(r)
      BY <1>2, <2>1, <2>2 DEF skipSpace
    <3> QED BY <1>0, <3>1, FailSound
  <2>3. CASE n # Len(r.in)
    <3>1. skipSpace(r) = [r EXCEPT !.in = SubSeq(r.in, n + 1, Len(r.in))]
      BY <1>2, <2>1, <2>3 DEF skipSpace
    <3>2. /\ Passed(l, SubSeq(r.in, n + 1, Len(r.in)))
          /\ SubSeq(r.in, n + 1, Len(r.in)) \in Seq(Chars)
      BY <1>2, <2>1, PassedOn DEF Sound
    <3>3. skipSpace(r) \in Readers /\ skipSpace(r).in = SubSeq(r.in, n + 1, Len(r.in))
      BY <1>0, <3>1, <3>2 DEF Readers
    <3> QED BY <3>2, <3>3 DEF Sound
  <2> QED BY <2>2, <2>3
<1> QED BY <1>1, <1>2

LEMMA WordIfSound ==
  ASSUME NEW l \in Seq(Chars), NEW r, Sound(l, r), NEW c, c # CR
  PROVE  Sound(l, parseWordIf(r, c))
<1>0. r \in Readers
  BY DEF Sound
<1>1. CASE r.failed
  BY <1>1 DEF parseWordIf
<1>2. CASE ~r.failed /\ r.in = << >>
  BY <1>0, <1>2, FailSound DEF parseWordIf
<1>3. CASE ~r.failed /\ r.in # << >> /\ ~peekIs(r, {c})
  BY <1>3 DEF parseWordIf
<1>4. CASE ~r.failed /\ r.in # << >> /\ peekIs(r, {c})
  <2>1. Head(r.in) # CR
    BY <1>4 DEF peekIs
  <2>2. Sound(l, read(r))
    BY <1>4, <2>1, ReadSound
  <2>3. Sound(l, copyWord(read(r)))
    BY <2>2, CopySound DEF copyWord
  <2>4. parseWordIf(r, c) = skipSpace(copyWord(read(r)))
    BY <1>4 DEF parseWordIf
  <2> QED BY <2>3, <2>4, SkipSound
<1> QED BY <1>0, <1>1, <1>2, <1>3, <1>4 DEF Readers

LEMMA ParamSound ==
  ASSUME NEW l \in Seq(Chars), NEW r, Sound(l, r)
  PROVE  Sound(l, parseParam(r))
<1>1. Sound(l, skipSpace(r))
  BY SkipSound
<1>2. CASE peekIs(skipSpace(r), {COLON}) /\ ~skipSpace(r).failed
  <2>1. skipSpace(r).in # << >> /\ Head(skipSpace(r).in) # CR
    BY <1>2, CharAssumption DEF peekIs
  <2>2. Sound(l, read(skipSpace(r)))
    BY <1>1, <1>2, <2>1, ReadSound
  <2> QED BY <1>2, <2>2, CopySound DEF parseParam, copyToCR
<1>3. CASE ~(peekIs(skipSpace(r), {COLON}) /\ ~skipSpace(r).failed)
  BY <1>1, <1>3, CopySound DEF parseParam, copyWord
<1> QED BY <1>2, <1>3

\* The states the loop of parseParams goes through.
FirstTurn(r) == [r |-> r, params |-> << >>, more |-> TRUE]
TurnStates(turn, r, len) ==
    turn = [n \in 0..len |-> IF n = 0 THEN FirstTurn(r) ELSE paramStep(turn[n - 1])]

LEMMA ParamTurns ==
  ASSUME NEW r, NEW len \in Nat, len = paramsListMax + 1
  PROVE  \E turn : TurnStates(turn, r, len) /\ parseParams(r) = turn[len]
<1> DEFINE Step(n, before) == IF n = 0 THEN FirstTurn(r) ELSE paramStep(before)
           Runs(g, k) == g = [n \in 0..k |-> Step(n, g[n - 1])]
           T == {k \in Nat : \E g : Runs(g, k)}
<1>1. 0 \in T
  <2> DEFINE g == [n \in 0..0 |-> FirstTurn(r)]
  <2>1. g = [n \in 0..0 |-> Step(n, g[n - 1])]
    OBVIOUS
  <2> QED BY <2>1
<1>2. ASSUME NEW k \in T PROVE k + 1 \in T
  <2> HIDE DEF Step
  <2>1. PICK g : Runs(g, k)
    BY <1>2
  <2> DEFINE h == [n \in 0..(k + 1) |-> IF n = k + 1 THEN Step(k + 1, g[k]) ELSE g[n]]
  <2>2. ASSUME NEW n \in 0..(k + 1) PROVE h[n] = Step(n, h[n - 1])
    <3>1. CASE n = k + 1
      <4>1. h[n - 1] = g[k] /\ h[n] = Step(k + 1, g[k])
        BY <3>1
      <4> QED BY <3>1, <4>1
    <3>2. CASE n # k + 1
      <4>1. n \in 0..k /\ h[n] = g[n] /\ g[n] = Step(n, g[n - 1])
        BY <2>1, <3>2
      <4>2. n # 0 => h[n - 1] = g[n - 1]
        BY <4>1
      <4>3. n = 0 => \A x, y : Step(n, x) = Step(n, y)
        BY DEF Step
      <4> QED BY <4>1, <4>2, <4>3
    <3> QED BY <3>1, <3>2
  <2>3. h = [n \in 0..(k + 1) |-> h[n]]
    OBVIOUS
  <2>4. Runs(h, k + 1)
    <3> HIDE DEF h
    <3> QED BY <2>2, <2>3
  <2>5. k + 1 \in Nat /\ \E f : Runs(f, k + 1)
    <3> HIDE DEF Runs
    <3> QED BY <1>2, <2>4
  <2> QED BY <2>5
<1>3. T = Nat
  <2> HIDE DEF T
  <2>1. T \in SUBSET Nat
    BY DEF T
  <2> QED BY <1>1, <1>2, <2>1, SetInduction
<1>4. \E g : Runs(g, len)
  <2>1. len \in T
    BY <1>3
  <2> HIDE DEF Runs
  <2> QED BY <2>1
<1>5. Runs(CHOOSE g : Runs(g, len), len)
  <2> HIDE DEF Runs
  <2> QED BY <1>4
<1>6. parseParams(r) = (CHOOSE g : Runs(g, len))[len]
  BY DEF parseParams, FirstTurn
<1>7. TurnStates(CHOOSE g : Runs(g, len), r, len)
  BY <1>5 DEF TurnStates
<1> QED BY <1>6, <1>7

Turns == [r : Readers, params : Seq(Seq(Chars)), more : BOOLEAN]

LEMMA WrittenTyped ==
  ASSUME NEW r1 \in Readers, NEW r2 \in Readers
  PROVE  Written(r1, r2) \in Seq(Chars)
<1>1. /\ r1.out \in Seq(Chars) /\ r2.out \in Seq(Chars)
      /\ Len(r1.out) \in Nat /\ Len(r2.out) \in Nat
  BY DEF Readers
<1>2. \A i \in Len(r1.out) + 1..Len(r2.out) : r2.out[i] \in Chars
  BY <1>1
<1>3. Len(r1.out) + 1 \in Int /\ Len(r2.out) \in Int
  BY <1>1
<1>4. SubSeq(r2.out, Len(r1.out) + 1, Len(r2.out)) \in Seq(Chars)
  BY <1>2, <1>3, SubSeqProperties
<1> QED BY <1>4 DEF Written

\* A turn of the loop reads no CR.
LEMMA TurnSound ==
  ASSUME NEW l \in Seq(Chars), NEW p \in Turns, Sound(l, p.r)
  PROVE  paramStep(p) \in Turns /\ Sound(l, paramStep(p).r)
<1>0. p.r \in Readers /\ p.params \in Seq(Seq(Chars)) /\ p.more \in BOOLEAN
  BY DEF Turns
<1>1. CASE ~p.more \/ p.r.failed
  BY <1>1 DEF paramStep
<1>2. CASE ~(~p.more \/ p.r.failed) /\ ~hasParamRoom(Len(p.params) + 1)
  <2>1. paramStep(p) = [p EXCEPT !.r = Fail(p.r)]
    BY <1>2 DEF paramStep
  <2>2. Fail(p.r) \in Readers /\ Sound(l, Fail(p.r))
    BY <1>0, FailSound
  <2>3. paramStep(p) \in Turns /\ paramStep(p).r = Fail(p.r)
    BY <1>0, <2>1, <2>2 DEF Turns
  <2> QED BY <2>2, <2>3
<1>3. CASE ~(~p.more \/ p.r.failed) /\ hasParamRoom(Len(p.params) + 1)
  <2> DEFINE s == parseParam(p.r)
  <2>1. Sound(l, s) /\ s \in Readers
    BY ParamSound DEF Sound
  <2> HIDE DEF s
  <2>2. Append(p.params, Written(p.r, s)) \in Seq(Seq(Chars))
    <3>1. Written(p.r, s) \in Seq(Chars)
      BY <1>0, <2>1, WrittenTyped
    <3> QED BY <1>0, <3>1, AppendProperties
  <2>3. paramStep(p) = [r |-> s, params |-> Append(p.params, Written(p.r, s)), more |-> ~peekIs(s, {CR})]
    BY <1>3 DEF paramStep, s
  <2>4. (~peekIs(s, {CR})) \in BOOLEAN
    BY DEF peekIs
  <2>5. paramStep(p) \in Turns /\ paramStep(p).r = s
    BY <2>1, <2>2, <2>3, <2>4 DEF Turns
  <2> QED BY <2>1, <2>5
<1> QED BY <1>1, <1>2, <1>3

\* The parameters are read without passing a CR.
LEMMA ParamsSound ==
  ASSUME NEW l \in Seq(Chars), NEW r, Sound(l, r)
  PROVE  parseParams(r) \in Turns /\ Sound(l, parseParams(r).r)
<1>1. PICK len \in Nat : len = paramsListMax + 1
  BY SizeAssumption
<1>2. PICK turn : TurnStates(turn, r, len) /\ parseParams(r) = turn[len]
  BY <1>1, ParamTurns
<1> DEFINE N == {n \in Nat : n <= len => turn[n] \in Turns /\ Sound(l, turn[n].r)}
<1>3. 0 \in N
  <2>1. turn[0] = FirstTurn(r)
    BY <1>1, <1>2 DEF TurnStates
  <2>2. FirstTurn(r) \in Turns /\ FirstTurn(r).r = r
    <3>1. r \in Readers /\ << >> \in Seq(Seq(Chars))
      BY DEF Sound
    <3> QED BY <3>1 DEF FirstTurn, Turns
  <2> QED BY <2>1, <2>2
<1>4. ASSUME NEW n \in N PROVE n + 1 \in N
  <2>1. SUFFICES ASSUME n + 1 <= len
                 PROVE  turn[n + 1] \in Turns /\ Sound(l, turn[n + 1].r)
    OBVIOUS
  <2>2. PICK m \in 0..len : m = n + 1 /\ m # 0 /\ m - 1 = n
    BY <1>1, <2>1
  <2>3. turn[m] = paramStep(turn[m - 1])
    BY <1>2, <2>2 DEF TurnStates
  <2>4. turn[n] \in Turns /\ Sound(l, turn[n].r)
    BY <1>1, <2>1
  <2>5. paramStep(turn[n]) \in Turns /\ Sound(l, paramStep(turn[n]).r)
    BY <2>4, TurnSound
  <2> QED BY <2>2, <2>3, <2>5
<1>5. N = Nat
  <2> HIDE DEF N
  <2>1. N \in SUBSET Nat
    BY DEF N
  <2> QED BY <1>3, <1>4, <2>1, SetInduction
<1>6. len \in N
  BY <1>1, <1>5
<1> QED BY <1>1, <1>2, <1>6

\* A line that is parsed ends in CR LF and has no CR before.
LEMMA ParsedIsWhole ==
  ASSUME NEW l \in Seq(Chars), doParse(l).ok
  PROVE  /\ Len(l) >= 2 /\ l[Len(l) - 1] = CR /\ l[Len(l)] = LF
         /\ \A i \in 1..Len(l) - 2 : l[i] # CR
<1> DEFINE r0 == Reader(l)
           r1 == parseWordIf(r0, AT)
           r2 == parseWordIf(r1, COLON)
           r3 == copyWord(r2)
           p == parseParams(r3)
           r4 == parseCRLF(p.r)
<1>1. Sound(l, r0)
  <2>1. r0 \in Readers /\ r0.in = l
    BY DEF Reader, Readers
  <2>2. l = Suffix(l, 1)
    BY SubSeqFull DEF Suffix
  <2>3. 1 \in 1..Len(l) + 1 /\ \A i \in 1..1 - 1 : l[i] # CR
    OBVIOUS
  <2>4. Passed(l, l)
    BY <2>2, <2>3 DEF Passed
  <2> QED BY <2>1, <2>4 DEF Sound
<1>2. Sound(l, r1)
  <2> HIDE DEF r0
  <2> QED BY <1>1, CharAssumption, WordIfSound
<1>3. Sound(l, r2)
  <2> HIDE DEF r1
  <2> QED BY <1>2, CharAssumption, WordIfSound
<1>4. Sound(l, r3)
  <2> HIDE DEF r2
  <2> QED BY <1>3, CopySound DEF copyWord
<1>5. Sound(l, p.r)
  <2> HIDE DEF r3
  <2> QED BY <1>4, ParamsSound
<1>6. ~r4.failed /\ r4.in = << >>
  <2>1. (r4.failed \/ r4.in # << >>) => doParse(l) = NotParsed
    BY DEF doParse
  <2>2. ~NotParsed.ok
    BY DEF NotParsed
  <2> QED BY <2>1, <2>2
<1> HIDE DEF p
<1>7. p.r \in Readers /\ p.r.in \in Seq(Chars)
  BY <1>5 DEF Sound, Readers
<1>8. ~(p.r.failed \/ Len(p.r.in) < 2 \/ SubSeq(p.r.in, 1, 2) # <<CR, LF>>)
  <2>1. Fail(p.r).failed
    BY <1>7 DEF Fail, Readers
  <2> QED BY <1>6, <2>1 DEF parseCRLF
<1>9. SubSeq(p.r.in, 3, Len(p.r.in)) = << >>
  <2>1. r4 = [p.r EXCEPT !.in = SubSeq(p.r.in, 3, Len(p.r.in))]
    BY <1>8 DEF parseCRLF
  <2>2. r4.in = SubSeq(p.r.in, 3, Len(p.r.in))
    BY <1>7, <2>1 DEF Readers
  <2> QED BY <1>6, <2>2
<1>10. Len(p.r.in) = 2
  <2>1. Len(p.r.in) \in Nat /\ Len(p.r.in) >= 2 /\ \A i \in 3..Len(p.r.in) : p.r.in[i] \in Chars
    BY <1>7, <1>8
  <2>2. Len(SubSeq(p.r.in, 3, Len(p.r.in))) =
          IF 3 <= Len(p.r.in) THEN Len(p.r.in) - 3 + 1 ELSE 0
    BY <2>1, SubSeqProperties
  <2> DEFINE in == p.r.in
             n == Len(in)
             rest == SubSeq(in, 3, n)
  <2>3. rest = << >>
    BY <1>9
  <2>4. n \in Nat /\ n >= 2 /\ Len(rest) = IF 3 <= n THEN n - 3 + 1 ELSE 0
    BY <2>1, <2>2
  <2> HIDE DEF rest
  <2>5. Len(rest) = 0
    BY <2>3
  <2> HIDE DEF n
  <2>6. n = 2
    BY <2>4, <2>5
  <2> QED BY <2>6 DEF n
<1>11. p.r.in = <<CR, LF>>
  BY <1>7, <1>8, <1>10, SubSeqFull
<1>12. PICK at \in 1..Len(l) + 1 : p.r.in = Suffix(l, at) /\ \A i \in 1..at - 1 : l[i] # CR
  BY <1>5, <1>8 DEF Sound, Passed
<1>13. Len(l) - at + 1 = 2 /\ \A i \in 1..2 : Suffix(l, at)[i] = l[at + i - 1]
  <2>1. Len(Suffix(l, at)) = Len(l) - at + 1 /\ \A i \in 1..Len(l) - at + 1 : Suffix(l, at)[i] = l[at + i - 1]
    BY SuffixParts
  <2> QED BY <1>10, <1>12, <2>1
<1>14. Len(l) \in Nat /\ at = Len(l) - 1
  <2>1. Len(l) \in Nat /\ at \in Int
    OBVIOUS
  <2> QED BY <1>13, <2>1
<1>15. Suffix(l, at)[1] = CR /\ Suffix(l, at)[2] = LF
  BY <1>11, <1>12
<1>16. l[at] = CR /\ l[at + 1] = LF
  BY <1>13, <1>14, <1>15
<1> QED BY <1>12, <1>14, <1>16

\* The lines of the run: what is before the end has none of its characters.
BodyChars == {SP, COLON, AT} \cup Others

BodyTyped == body \in Seq(BodyChars)

\* Every line is made of the characters a server may put between two line ends.
THEOREM LinesTyped == Lines => []BodyTyped
<1>1. LinesInit => BodyTyped
  BY DEF LinesInit, BodyTyped
<1>2. BodyTyped /\ [LinesNext]_body => BodyTyped'
  <2> SUFFICES ASSUME BodyTyped, [LinesNext]_body PROVE BodyTyped'
    OBVIOUS
  <2>1. CASE LinesNext
    BY <2>1, AppendProperties DEF LinesNext, BodyChars, BodyTyped
  <2>2. CASE UNCHANGED body
    BY <2>2 DEF BodyTyped
  <2> QED BY <2>1, <2>2
<1> QED BY <1>1, <1>2, PTL DEF Lines

\* No two of the characters a parser looks for are the same.
LEMMA BodyHasNoEnd ==
  ASSUME NEW s \in Seq(BodyChars)
  PROVE  /\ s \in Seq(Chars) /\ CR \in Chars /\ LF \in Chars /\ CR # LF
         /\ \A i \in 1..Len(s) : s[i] \in BodyChars /\ s[i] # CR /\ s[i] # LF
         /\ \A c \in Others : c \in Chars /\ c # LF
<1>1. BodyChars \subseteq Chars /\ CR \in Chars /\ LF \in Chars
  BY DEF BodyChars, Chars
<1>2. CR # LF /\ CR \notin BodyChars /\ LF \notin BodyChars /\ Others \subseteq BodyChars
  BY CharAssumption DEF BodyChars
<1>3. s \in Seq(Chars)
  BY <1>1, SeqMonotonic
<1>4. \A i \in 1..Len(s) : s[i] \in BodyChars
  BY ElementOfSeq
<1> QED BY <1>1, <1>2, <1>3, <1>4

\* Only a body with CR LF behind it, and nothing else, is parsed.
LEMMA OnlyWhole ==
  ASSUME BodyTyped
  PROVE  OnlyWholeLines
<1>0. /\ body \in Seq(Chars) /\ CR \in Chars /\ LF \in Chars /\ CR # LF /\ Len(body) \in Nat
      /\ \A i \in 1..Len(body) : body[i] \in BodyChars /\ body[i] # CR /\ body[i] # LF
      /\ \A c \in Others : c \in Chars /\ c # LF
  BY BodyHasNoEnd DEF BodyTyped
<1>1. ~doParse(body).ok
  <2>1. SUFFICES ASSUME doParse(body).ok PROVE FALSE
    OBVIOUS
  <2>2. Len(body) >= 2 /\ body[Len(body)] = LF
    BY <1>0, <2>1, ParsedIsWhole
  <2> QED BY <1>0, <2>2
<1>2. ~doParse(Append(body, CR)).ok
  <2>1. SUFFICES ASSUME doParse(Append(body, CR)).ok PROVE FALSE
    OBVIOUS
  <2>2. PICK l \in Seq(Chars) : l = Append(body, CR) /\ Len(l) = Len(body) + 1 /\ l[Len(body) + 1] = CR
    <3>1. PICK l : l = Append(body, CR)
      OBVIOUS
    <3>2. l \in Seq(Chars) /\ Len(l) = Len(body) + 1 /\ l[Len(body) + 1] = CR
      BY <1>0, <3>1, AppendProperties
    <3> QED BY <3>1, <3>2
  <2>3. l[Len(l)] = LF
    BY <2>1, <2>2, ParsedIsWhole
  <2> QED BY <1>0, <2>2, <2>3
<1>3. ASSUME NEW c \in Others PROVE ~doParse(body \o <<CR, LF, c>>).ok
  <2>1. SUFFICES ASSUME doParse(body \o <<CR, LF, c>>).ok PROVE FALSE
    OBVIOUS
  <2> DEFINE end == <<CR, LF, c>>
             l == body \o end
  <2>2. end \in Seq(Chars) /\ Len(end) = 3 /\ end[3] = c
    BY <1>0
  <2> HIDE DEF end
  <2>3. l \in Seq(Chars) /\ Len(l) = Len(body) + 3 /\ l[Len(body) + 3] = c
    <3>1. /\ body \o end \in Seq(Chars) /\ Len(body \o end) = Len(body) + Len(end)
          /\ \A i \in 1..Len(body) + Len(end) : (body \o end)[i] =
                IF i <= Len(body) THEN body[i] ELSE end[i - Len(body)]
      BY <1>0, <2>2, ConcatProperties
    <3>2. PICK n \in Nat : n = Len(body)
      BY <1>0
    <3>3. n + 3 \in 1..n + 3 /\ ~(n + 3 <= n) /\ n + 3 - n = 3
      OBVIOUS
    <3>4. (body \o end)[n + 3] = end[3]
      BY <2>2, <3>1, <3>2, <3>3
    <3> QED BY <2>2, <3>1, <3>2, <3>4
  <2>4. doParse(l).ok
    BY <2>1 DEF end
  <2> HIDE DEF l
  <2>5. l[Len(l)] = LF
    BY <2>3, <2>4, ParsedIsWhole
  <2> QED BY <1>0, <2>3, <2>5
<1>4. ASSUME NEW i \in 0..Len(body) - 1
      PROVE  ~doParse(SubSeq(body, 1, i) \o <<CR>> \o SubSeq(body, i + 1, Len(body)) \o <<CR, LF>>).ok
  <2> DEFINE a == SubSeq(body, 1, i)
             b == SubSeq(body, i + 1, Len(body))
             x == a \o <<CR>>
             y == x \o b
             l == y \o <<CR, LF>>
  <2>1. a \in Seq(Chars) /\ Len(a) = i
    <3>1. 1 \in 1..Len(body) + 1 /\ i \in 1 - 1..Len(body) /\ i - 1 + 1 = i
      BY <1>0
    <3> QED BY <1>0, <3>1, PartOfLine
  <2>2. b \in Seq(Chars) /\ Len(b) = Len(body) - i
    <3>1. i + 1 \in 1..Len(body) + 1 /\ Len(body) \in i + 1 - 1..Len(body) /\ Len(body) - (i + 1) + 1 = Len(body) - i
      BY <1>0
    <3> QED BY <1>0, <3>1, PartOfLine
  <2> HIDE DEF a, b
  <2>3. <<CR>> \in Seq(Chars) /\ Len(<<CR>>) = 1 /\ <<CR, LF>> \in Seq(Chars) /\ Len(<<CR, LF>>) = 2
    BY <1>0
  <2>4. x \in Seq(Chars) /\ Len(x) = i + 1 /\ x[i + 1] = CR
    BY <1>0, <2>1, <2>3, ConcatProperties
  <2> HIDE DEF x
  <2>5. y \in Seq(Chars) /\ Len(y) = Len(body) + 1 /\ y[i + 1] = CR
    <3>1. PICK n \in Nat : n = Len(body)
      BY <1>0
    <3>2. i \in Nat /\ i + 1 \in 1..(i + 1) + (n - i) /\ (i + 1) + (n - i) = n + 1
      BY <3>1
    <3>3. /\ x \o b \in Seq(Chars) /\ Len(x \o b) = Len(x) + Len(b)
          /\ \A j \in 1..Len(x) + Len(b) : (x \o b)[j] = IF j <= Len(x) THEN x[j] ELSE b[j - Len(x)]
      BY <2>2, <2>4, ConcatProperties
    <3>4. Len(x \o b) = n + 1 /\ (x \o b)[i + 1] = CR
      BY <2>2, <2>4, <3>1, <3>2, <3>3
    <3> QED BY <3>1, <3>3, <3>4
  <2> HIDE DEF y
  <2>6. l \in Seq(Chars) /\ Len(l) = Len(body) + 3 /\ l[i + 1] = CR
    <3>1. i + 1 \in 1..Len(y) + 2 /\ i + 1 <= Len(y) /\ Len(y) + 2 = Len(body) + 3
      BY <1>0, <2>5
    <3> QED BY <2>3, <2>5, <3>1, ConcatProperties
  <2> HIDE DEF l
  <2>7. i + 1 \in 1..Len(l) - 2
    BY <1>0, <2>6
  <2>8. ~doParse(l).ok
    BY <2>6, <2>7, ParsedIsWhole
  <2> QED BY <2>8 DEF l, y, x, a, b
<1> QED BY <1>1, <1>2, <1>3, <1>4 DEF OnlyWholeLines

\* Whatever the line and the sizes: a line without its end, with a CR inside or
\* with something after its end is refused.
THEOREM WholeLinesOnly == Lines => []OnlyWholeLines
<1>1. BodyTyped => OnlyWholeLines
  BY OnlyWhole
<1> QED BY <1>1, LinesTyped, PTL

-----------------------------------------------------------------------------
(* The words of a line.                                                    *)

\* A stretch without spaces, in terms of its two ends.
LEMMA StretchIs ==
  ASSUME NEW s \in Seq(Chars), NEW w
  PROVE  w \in Stretches(s) <=>
            /\ w \in (1..Len(s)) \X (1..Len(s))
            /\ w[1] <= w[2] /\ \A k \in w[1]..w[2] : s[k] # SP
            /\ w[1] = 1 \/ s[w[1] - 1] = SP
            /\ w[2] = Len(s) \/ s[w[2] + 1] = SP
<1>1. DOMAIN s = 1..Len(s)
  OBVIOUS
<1> QED BY <1>1 DEF Stretches

\* Two stretches are one or lie apart.
LEMMA StretchesApart ==
  ASSUME NEW s \in Seq(Chars), NEW v \in Stretches(s), NEW w \in Stretches(s), v[1] <= w[1]
  PROVE  v = w \/ v[2] + 1 < w[1]
<1>1. /\ v \in (1..Len(s)) \X (1..Len(s)) /\ v[1] <= v[2] /\ \A k \in v[1]..v[2] : s[k] # SP
      /\ v[2] = Len(s) \/ s[v[2] + 1] = SP
  BY StretchIs
<1>2. /\ w \in (1..Len(s)) \X (1..Len(s)) /\ w[1] <= w[2] /\ \A k \in w[1]..w[2] : s[k] # SP
      /\ w[1] = 1 \/ s[w[1] - 1] = SP
      /\ w[2] = Len(s) \/ s[w[2] + 1] = SP
  BY StretchIs
<1> PICK a \in 1..Len(s), b \in 1..Len(s) : v = <<a, b>>
  BY <1>1
<1> PICK c \in 1..Len(s), d \in 1..Len(s) : w = <<c, d>>
  BY <1>2
<1>3. Len(s) \in Nat /\ a <= c
  OBVIOUS
<1>4. /\ a <= b /\ \A k \in a..b : s[k] # SP
      /\ b = Len(s) \/ s[b + 1] = SP
  BY <1>1
<1>5. /\ c <= d /\ \A k \in c..d : s[k] # SP
      /\ c = 1 \/ s[c - 1] = SP
      /\ d = Len(s) \/ s[d + 1] = SP
  BY <1>2
<1>6. a = c \/ b + 1 < c
  <2>1. SUFFICES ASSUME a < c, c <= b + 1 PROVE FALSE
    BY <1>3
  <2>2. CASE c = b + 1
    <3>1. b # Len(s) /\ s[c] = SP /\ c \in c..d
      BY <1>3, <1>4, <1>5, <2>2
    <3> QED BY <1>5, <3>1
  <2>3. CASE c <= b
    <3>1. c # 1 /\ c - 1 \in a..b
      BY <2>1, <2>3
    <3> QED BY <1>4, <1>5, <3>1
  <2> QED BY <2>1, <2>2, <2>3
<1>7. a = c => b = d
  <2>1. SUFFICES ASSUME a = c, b # d PROVE FALSE
    OBVIOUS
  <2>2. CASE b < d
    <3>1. b # Len(s) /\ b + 1 \in c..d
      BY <1>3, <1>4, <2>1, <2>2
    <3> QED BY <1>4, <1>5, <3>1
  <2>3. CASE d < b
    <3>1. d # Len(s) /\ d + 1 \in a..b
      BY <1>3, <1>5, <2>1, <2>3
    <3> QED BY <1>4, <1>5, <3>1
  <2> QED BY <2>1, <2>2, <2>3
<1> QED BY <1>6, <1>7

\* Every character that is not a space is in a stretch.
LEMMA InAStretch ==
  ASSUME NEW s \in Seq(Chars), NEW k \in 1..Len(s), s[k] # SP
  PROVE  \E w \in Stretches(s) : w[1] <= k /\ k <= w[2]
<1>0. Len(s) \in Nat
  OBVIOUS
<1> DEFINE F == {a \in 1..k : \A i \in a..k : s[i] # SP}
           G == {b \in k..Len(s) : b = Len(s) \/ s[b + 1] = SP}
<1>1. F \in SUBSET Nat /\ F # {}
  <2>1. k \in F
    OBVIOUS
  <2> QED BY <2>1
<1>2. G \in SUBSET Nat /\ G # {}
  <2>1. Len(s) \in G
    BY <1>0
  <2> QED BY <2>1
<1>3. PICK a \in F : \A i \in F : a <= i
  <2> HIDE DEF F
  <2> QED BY <1>1, LeastNatural
<1>4. PICK b \in G : \A i \in G : b <= i
  <2> HIDE DEF G
  <2> QED BY <1>2, LeastNatural
<1>5. a \in 1..k /\ \A i \in a..k : s[i] # SP
  BY <1>3
<1>6. b \in k..Len(s) /\ (b = Len(s) \/ s[b + 1] = SP)
  BY <1>4
<1>7. a = 1 \/ s[a - 1] = SP
  <2>1. SUFFICES ASSUME a # 1, s[a - 1] # SP PROVE FALSE
    OBVIOUS
  <2>2. a - 1 \in 1..k /\ \A i \in a - 1..k : s[i] # SP
    BY <1>5, <2>1
  <2>3. a - 1 \in F
    BY <2>2
  <2> QED BY <1>3, <1>5, <2>3
<1>8. ASSUME NEW i \in a..b PROVE s[i] # SP
  <2>1. SUFFICES ASSUME s[i] = SP PROVE FALSE
    OBVIOUS
  <2>2. i > k /\ i - 1 \in k..Len(s) /\ i - 1 < b /\ s[(i - 1) + 1] = SP
    BY <1>0, <1>5, <1>6, <2>1
  <2>3. i - 1 \in G
    BY <2>2
  <2>4. b <= i - 1
    <3> HIDE DEF G
    <3> QED BY <1>4, <2>3
  <2> QED BY <2>2, <2>4
<1>9. <<a, b>> \in Stretches(s)
  <2>1. <<a, b>> \in (1..Len(s)) \X (1..Len(s)) /\ a <= b
    BY <1>0, <1>5, <1>6
  <2>2. <<a, b>>[1] = a /\ <<a, b>>[2] = b
    OBVIOUS
  <2> QED BY <1>6, <1>7, <1>8, <2>1, <2>2, StretchIs
<1> QED BY <1>5, <1>6, <1>9

\* The stretches that begin before or at k.
UpTo(s, k) == {v \in Stretches(s) : v[1] <= k}

LEMMA FinitelyMany ==
  ASSUME NEW s \in Seq(Chars)
  PROVE  /\ IsFiniteSet(Stretches(s)) /\ Cardinality(Stretches(s)) \in Nat
         /\ \A k \in Int : IsFiniteSet(UpTo(s, k)) /\ Cardinality(UpTo(s, k)) \in 0..Cardinality(Stretches(s))
<1>1. IsFiniteSet((1..Len(s)) \X (1..Len(s)))
  <2>1. IsFiniteSet(1..Len(s))
    BY FS_Interval
  <2> QED BY <2>1, FS_Product
<1>2. Stretches(s) \in SUBSET ((1..Len(s)) \X (1..Len(s)))
  BY StretchIs
<1>3. IsFiniteSet(Stretches(s)) /\ Cardinality(Stretches(s)) \in Nat
  BY <1>1, <1>2, FS_Subset, FS_CardinalityType
<1>4. ASSUME NEW k \in Int
      PROVE IsFiniteSet(UpTo(s, k)) /\ Cardinality(UpTo(s, k)) \in 0..Cardinality(Stretches(s))
  <2>1. UpTo(s, k) \in SUBSET Stretches(s)
    BY DEF UpTo
  <2>2. IsFiniteSet(UpTo(s, k)) /\ Cardinality(UpTo(s, k)) <= Cardinality(Stretches(s))
    BY <1>3, <2>1, FS_Subset
  <2>3. Cardinality(UpTo(s, k)) \in Nat
    BY <2>2, FS_CardinalityType
  <2> QED BY <1>3, <2>2, <2>3
<1> QED BY <1>3, <1>4

\* A stretch that begins later has a higher number.
LEMMA LaterIsHigher ==
  ASSUME NEW s \in Seq(Chars), NEW v \in Stretches(s), NEW w \in Stretches(s), v[1] < w[1]
  PROVE  Cardinality(UpTo(s, v[1])) < Cardinality(UpTo(s, w[1]))
<1>1. v[1] \in Nat /\ w[1] \in Nat
  BY StretchIs
<1>2. UpTo(s, v[1]) \in SUBSET UpTo(s, w[1]) /\ w \in UpTo(s, w[1]) /\ w \notin UpTo(s, v[1])
  <2>1. \A u \in Stretches(s) : u[1] \in Nat
    BY StretchIs
  <2> QED BY <1>1, <2>1 DEF UpTo
<1>3. /\ IsFiniteSet(UpTo(s, w[1]))
      /\ Cardinality(UpTo(s, v[1])) \in Nat /\ Cardinality(UpTo(s, w[1])) \in Nat
  <2>1. PICK i \in Int, j \in Int : i = v[1] /\ j = w[1]
    BY <1>1
  <2>2. Cardinality(Stretches(s)) \in Nat
    BY FinitelyMany
  <2>3. IsFiniteSet(UpTo(s, i)) /\ Cardinality(UpTo(s, i)) \in 0..Cardinality(Stretches(s))
    BY FinitelyMany
  <2>4. IsFiniteSet(UpTo(s, j)) /\ Cardinality(UpTo(s, j)) \in 0..Cardinality(Stretches(s))
    BY FinitelyMany
  <2> QED BY <2>1, <2>2, <2>3, <2>4
<1>4. /\ Cardinality(UpTo(s, v[1])) <= Cardinality(UpTo(s, w[1]))
      /\ Cardinality(UpTo(s, w[1])) = Cardinality(UpTo(s, v[1])) => UpTo(s, w[1]) = UpTo(s, v[1])
  BY <1>2, <1>3, FS_Subset
<1>5. UpTo(s, w[1]) # UpTo(s, v[1])
  BY <1>2
<1> QED BY <1>3, <1>4, <1>5

\* Every number up to that of the last stretch is the number of one.
LEMMA NumberTaken ==
  ASSUME NEW s \in Seq(Chars), NEW n \in 1..Cardinality(Stretches(s))
  PROVE  \E w \in Stretches(s) : Cardinality(UpTo(s, w[1])) = n
<1>0. Len(s) \in Nat /\ Cardinality(Stretches(s)) \in Nat
  BY FinitelyMany
<1> DEFINE K == {k \in Nat : Cardinality(UpTo(s, k)) >= n}
<1>1. K \in SUBSET Nat /\ K # {}
  <2>1. UpTo(s, Len(s)) = Stretches(s)
    <3>1. \A u \in Stretches(s) : u[1] <= Len(s)
      BY <1>0, StretchIs
    <3> QED BY <3>1 DEF UpTo
  <2>2. Len(s) \in K
    BY <1>0, <2>1
  <2> QED BY <2>2
<1>2. PICK k \in K : \A i \in K : k <= i
  <2> HIDE DEF K
  <2> QED BY <1>1, LeastNatural
<1>3. k \in Nat /\ Cardinality(UpTo(s, k)) >= n
  BY <1>2
<1>4. k # 0
  <2>1. UpTo(s, 0) = {}
    <3>1. \A u \in Stretches(s) : ~(u[1] <= 0)
      BY StretchIs
    <3> QED BY <3>1 DEF UpTo
  <2>2. Cardinality(UpTo(s, 0)) = 0
    BY <2>1, FS_EmptySet
  <2> QED BY <1>0, <1>3, <2>2
<1>5. k - 1 \in Nat /\ Cardinality(UpTo(s, k - 1)) < n
  <2>1. k - 1 \in Nat /\ ~(k <= k - 1)
    BY <1>3, <1>4
  <2>2. k - 1 \notin K
    BY <1>2, <2>1
  <2>3. Cardinality(UpTo(s, k - 1)) \in Nat
    <3>1. k - 1 \in Int
      BY <2>1
    <3>2. Cardinality(UpTo(s, k - 1)) \in 0..Cardinality(Stretches(s))
      BY <3>1, FinitelyMany
    <3> QED BY <1>0, <3>2
  <2> QED BY <1>0, <2>1, <2>2, <2>3
<1>6. IsFiniteSet(UpTo(s, k - 1)) /\ Cardinality(UpTo(s, k - 1)) \in Nat /\ Cardinality(UpTo(s, k)) \in Nat
  BY <1>3, <1>5, FinitelyMany
<1>7. UpTo(s, k) # UpTo(s, k - 1)
  BY <1>3, <1>5, <1>6
<1>8. PICK w \in Stretches(s) : w[1] = k
  <2>1. \A u \in Stretches(s) : u[1] \in Nat
    BY StretchIs
  <2>2. SUFFICES ASSUME \A u \in Stretches(s) : u[1] # k PROVE FALSE
    OBVIOUS
  <2>3. \A u \in Stretches(s) : u[1] <= k <=> u[1] <= k - 1
    BY <1>3, <2>1, <2>2
  <2> QED BY <1>7, <2>3 DEF UpTo
<1>9. UpTo(s, k) = UpTo(s, k - 1) \cup {w}
  <2>1. \A u \in Stretches(s) : u[1] \in Nat
    BY StretchIs
  <2>2. \A u \in Stretches(s) : u[1] = k => u = w
    <3>1. SUFFICES ASSUME NEW u \in Stretches(s), u[1] = k PROVE u = w
      OBVIOUS
    <3>2. u = w \/ u[2] + 1 < w[1]
      BY <1>3, <1>8, <3>1, StretchesApart
    <3>3. u[1] <= u[2] /\ u[1] \in Nat /\ u[2] \in Nat
      BY StretchIs
    <3> QED BY <1>8, <3>1, <3>2, <3>3
  <2>3. \A u \in Stretches(s) : u[1] <= k <=> (u[1] <= k - 1 \/ u = w)
    BY <1>3, <1>8, <2>1, <2>2
  <2> QED BY <2>3, Zenon DEF UpTo
<1>10. Cardinality(UpTo(s, k)) <= Cardinality(UpTo(s, k - 1)) + 1
  <2> DEFINE S == UpTo(s, k - 1)
  <2>1. Cardinality(S \cup {w}) = IF w \in S THEN Cardinality(S) ELSE Cardinality(S) + 1
    <3> HIDE DEF S
    <3>1. IsFiniteSet(S)
      BY <1>6 DEF S
    <3> QED BY <3>1, FS_AddElement
  <2> QED BY <1>6, <1>9, <2>1
<1>11. Cardinality(UpTo(s, k)) = n
  BY <1>0, <1>3, <1>5, <1>6, <1>10
<1> QED BY <1>8, <1>11

\* Where word n begins, the end of the line after the last one; where it ends.
Begins(s, ws, n) == IF n <= Len(ws) THEN ws[n][1] ELSE Len(s) + 1
Ends(ws, n) == IF n = 0 THEN 0 ELSE ws[n][2]

\* A list of words is all the line has but the spaces between them.
WordTable(s, ws) ==
    /\ Len(ws) \in Nat
    /\ \A n \in 1..Len(ws) :
          /\ ws[n][1] \in 1..Len(s) /\ ws[n][2] \in ws[n][1]..Len(s)
          /\ \A k \in ws[n][1]..ws[n][2] : s[k] # SP
          /\ ws[n][2] = Len(s) \/ s[ws[n][2] + 1] = SP
    /\ \A n \in 0..Len(ws) :
          /\ Ends(ws, n) < Begins(s, ws, n + 1)
          /\ \A k \in Ends(ws, n) + 1..Begins(s, ws, n + 1) - 1 : s[k] = SP

LEMMA WordsListed ==
  ASSUME NEW s \in Seq(Chars)
  PROVE  WordTable(s, Words(s))
<1> DEFINE N == Cardinality(Stretches(s))
           ws == Words(s)
<1>0. N \in Nat /\ Len(s) \in Nat
  BY FinitelyMany
<1>1. ws = [n \in 1..N |-> CHOOSE w \in Stretches(s) : Cardinality(UpTo(s, w[1])) = n]
  BY DEF Words, UpTo
<1>2. ASSUME NEW n \in 1..N
      PROVE  ws[n] \in Stretches(s) /\ Cardinality(UpTo(s, ws[n][1])) = n
  <2>1. \E w \in Stretches(s) : Cardinality(UpTo(s, w[1])) = n
    BY NumberTaken
  <2>2. ws[n] = CHOOSE w \in Stretches(s) : Cardinality(UpTo(s, w[1])) = n
    BY <1>1
  <2> HIDE DEF ws
  <2> QED BY <2>1, <2>2
<1>3. Len(ws) = N
  <2> HIDE DEF N
  <2>1. DOMAIN ws = 1..N
    BY <1>1
  <2> QED BY <1>0, <1>1, <2>1
<1> HIDE DEF ws, N
<1>4. ASSUME NEW n \in 1..N
      PROVE  /\ ws[n] \in Stretches(s)
             /\ ws[n][1] \in 1..Len(s) /\ ws[n][2] \in ws[n][1]..Len(s)
             /\ \A k \in ws[n][1]..ws[n][2] : s[k] # SP
             /\ ws[n][2] = Len(s) \/ s[ws[n][2] + 1] = SP
  <2>1. PICK w \in Stretches(s) : w = ws[n]
    BY <1>2
  <2>2. /\ w \in (1..Len(s)) \X (1..Len(s))
        /\ w[1] <= w[2] /\ \A k \in w[1]..w[2] : s[k] # SP
        /\ w[2] = Len(s) \/ s[w[2] + 1] = SP
    BY StretchIs
  <2>3. w[1] \in 1..Len(s) /\ w[2] \in 1..Len(s)
    BY <2>2
  <2>4. w[2] \in w[1]..Len(s)
    BY <1>0, <2>2, <2>3
  <2> QED BY <2>1, <2>2, <2>3, <2>4
\* A word with a higher number comes later.
<1>5. ASSUME NEW m \in 1..N, NEW n \in 1..N, m < n
      PROVE  ws[m][2] + 1 < ws[n][1]
  <2>1. PICK v \in Stretches(s) : v = ws[m] /\ Cardinality(UpTo(s, v[1])) = m
    BY <1>2
  <2>2. PICK w \in Stretches(s) : w = ws[n] /\ Cardinality(UpTo(s, w[1])) = n
    BY <1>2
  <2>3. v[1] \in Nat /\ w[1] \in Nat
    BY StretchIs
  <2>4. ~(w[1] < v[1])
    <3>1. w[1] < v[1] => Cardinality(UpTo(s, w[1])) < Cardinality(UpTo(s, v[1]))
      BY LaterIsHigher
    <3>2. ~(n < m)
      BY <1>0, <1>5
    <3> QED BY <2>1, <2>2, <3>1, <3>2
  <2>5. v[1] <= w[1] /\ v # w
    BY <1>0, <1>5, <2>1, <2>2, <2>3, <2>4
  <2>6. v[2] + 1 < w[1]
    BY <2>5, StretchesApart
  <2> QED BY <2>1, <2>2, <2>6
\* Every stretch is listed.
<1>6. ASSUME NEW w \in Stretches(s) PROVE \E m \in 1..N : ws[m] = w
  <2>1. w[1] \in Int /\ w \in UpTo(s, w[1])
    <3>1. w[1] \in Int
      BY StretchIs
    <3> QED BY <3>1 DEF UpTo
  <2>2. PICK i \in Int : i = w[1]
    BY <2>1
  <2>3. IsFiniteSet(UpTo(s, i)) /\ Cardinality(UpTo(s, i)) \in 0..Cardinality(Stretches(s))
    BY FinitelyMany
  <2>4. UpTo(s, i) # {}
    BY <2>1, <2>2
  <2>5. Cardinality(UpTo(s, i)) # 0
    BY <2>3, <2>4, FS_EmptySet
  <2>6. PICK m \in 1..N : m = Cardinality(UpTo(s, i))
    BY <1>0, <2>3, <2>5 DEF N
  <2>7. PICK v \in Stretches(s) : v = ws[m] /\ Cardinality(UpTo(s, v[1])) = m
    BY <1>2
  <2>8. v[1] \in Nat /\ w[1] \in Nat
    BY StretchIs
  <2>9. Cardinality(UpTo(s, w[1])) = m
    BY <2>2, <2>6
  <2>10. ~(v[1] < w[1]) /\ ~(w[1] < v[1])
    <3>1. v[1] < w[1] => Cardinality(UpTo(s, v[1])) < Cardinality(UpTo(s, w[1]))
      BY LaterIsHigher
    <3>2. w[1] < v[1] => Cardinality(UpTo(s, w[1])) < Cardinality(UpTo(s, v[1]))
      BY LaterIsHigher
    <3>3. ~(m < m)
      BY <1>0
    <3> QED BY <2>7, <2>9, <3>1, <3>2, <3>3
  <2>11. v[1] <= w[1] /\ ~(v[2] + 1 < w[1])
    <3>1. v[1] = w[1]
      BY <2>8, <2>10
    <3>2. v[1] <= v[2] /\ v[2] \in Nat
      BY StretchIs
    <3> QED BY <2>8, <3>1, <3>2
  <2>12. v = w
    BY <2>11, StretchesApart
  <2> QED BY <2>7, <2>12
<1>7. ASSUME NEW n \in 0..N PROVE Ends(ws, n) < Begins(s, ws, n + 1)
  <2>1. CASE n = 0 /\ n < N
    <3>1. 1 \in 1..N /\ n + 1 = 1 /\ 1 <= N
      BY <1>0, <2>1
    <3>2. ws[1][1] > 0
      BY <1>0, <1>4, <3>1
    <3> QED BY <1>3, <2>1, <3>1, <3>2 DEF Ends, Begins
  <2>2. CASE n = 0 /\ n = N
    BY <1>0, <1>3, <2>2 DEF Ends, Begins
  <2>3. CASE n # 0 /\ n < N
    <3>1. n \in 1..N /\ n + 1 \in 1..N /\ n < n + 1 /\ n + 1 <= N
      BY <1>0, <2>3
    <3>2. ws[n][2] + 1 < ws[n + 1][1] /\ ws[n][2] \in Int /\ ws[n + 1][1] \in Int
      BY <1>0, <1>4, <1>5, <3>1
    <3>3. ws[n][2] < ws[n + 1][1]
      BY <3>2
    <3> QED BY <1>3, <2>3, <3>1, <3>3 DEF Ends, Begins
  <2>4. CASE n # 0 /\ n = N
    <3>1. n \in 1..N /\ ~(n + 1 <= N)
      BY <1>0, <2>4
    <3>2. ws[n][2] < Len(s) + 1
      BY <1>0, <1>4, <3>1
    <3> QED BY <1>3, <2>4, <3>1, <3>2 DEF Ends, Begins
  <2> QED BY <1>0, <2>1, <2>2, <2>3, <2>4
<1>8. ASSUME NEW n \in 0..N, NEW k \in Ends(ws, n) + 1..Begins(s, ws, n + 1) - 1
      PROVE  s[k] = SP
  <2>1. /\ Ends(ws, n) \in Nat
        /\ n # 0 => Ends(ws, n) = ws[n][2]
    <3>1. n # 0 => ws[n][2] \in Nat
      BY <1>0, <1>4, SMTT(30)
    <3> QED BY <3>1 DEF Ends
  <2>2. /\ Begins(s, ws, n + 1) \in 1..Len(s) + 1
        /\ n < N => Begins(s, ws, n + 1) = ws[n + 1][1]
    <3>1. n < N => n + 1 \in 1..N /\ n + 1 <= N
      BY <1>0
    <3>2. ~(n < N) => ~(n + 1 <= N)
      BY <1>0
    <3>3. n < N => ws[n + 1][1] \in 1..Len(s) + 1
      BY <1>0, <1>4, <3>1
    <3> QED BY <1>0, <1>3, <3>1, <3>2, <3>3 DEF Begins
  <2>3. SUFFICES ASSUME s[k] # SP PROVE FALSE
    OBVIOUS
  <2>4. k \in 1..Len(s) /\ Ends(ws, n) < k /\ k < Begins(s, ws, n + 1)
    BY <1>0, <2>1, <2>2
  <2>5. PICK w \in Stretches(s) : w[1] <= k /\ k <= w[2]
    BY <2>3, <2>4, InAStretch
  <2>6. PICK m \in 1..N : ws[m] = w
    BY <1>6
  <2>7. w[1] \in 1..Len(s) /\ w[2] \in 1..Len(s) /\ w[1] <= w[2]
    BY StretchIs
  <2>8. CASE m = n
    BY <1>0, <2>1, <2>4, <2>5, <2>6, <2>7, <2>8
  <2>9. CASE m < n
    <3>1. n \in 1..N /\ n # 0
      BY <1>0, <2>9
    <3>2. ws[m][2] + 1 < ws[n][1]
      BY <1>5, <2>9, <3>1
    <3>3. ws[n][1] \in 1..Len(s) /\ ws[n][2] \in ws[n][1]..Len(s)
      BY <1>4, <3>1
    <3> QED BY <1>0, <2>1, <2>4, <2>5, <2>6, <2>7, <3>1, <3>2, <3>3
  <2>10. CASE n < m
    <3>1. n < N /\ n + 1 \in 1..N
      BY <1>0, <2>10
    <3>2. PICK a \in 1..Len(s), b \in 1..Len(s) : a = ws[n + 1][1] /\ b = ws[n + 1][2] /\ a <= b
      <4>1. ws[n + 1][1] \in 1..Len(s) /\ ws[n + 1][2] \in ws[n + 1][1]..Len(s)
        BY <1>4, <3>1
      <4> QED BY <1>0, <4>1
    <3>3. k < a
      BY <2>2, <2>4, <3>1, <3>2
    <3>4. CASE m = n + 1
      BY <1>0, <2>4, <2>5, <2>6, <2>7, <3>2, <3>3, <3>4
    <3>5. CASE n + 1 < m
      <4>1. b + 1 < w[1]
        BY <1>5, <2>6, <3>1, <3>2, <3>5
      <4> QED BY <1>0, <2>4, <2>5, <2>7, <3>2, <3>3, <4>1
    <3> QED BY <1>0, <2>10, <3>4, <3>5
  <2> QED BY <1>0, <2>8, <2>9, <2>10
<1>9. WordTable(s, ws)
  BY <1>0, <1>3, <1>4, <1>7, <1>8 DEF WordTable
<1> QED BY <1>9 DEF ws

-----------------------------------------------------------------------------
(* The parser's operators on a line that ends in CR LF, position by position. *)

Line(s) == s \o <<CR, LF>>
Rd(l, p, out) == [in |-> Suffix(l, p), out |-> out, failed |-> FALSE]

LEMMA LineParts ==
  ASSUME NEW s \in Seq(BodyChars)
  PROVE  /\ s \in Seq(Chars) /\ Line(s) \in Seq(Chars) /\ Len(s) \in Nat /\ Len(Line(s)) = Len(s) + 2
         /\ \A i \in 1..Len(s) : Line(s)[i] = s[i] /\ s[i] # CR /\ s[i] # LF
         /\ Line(s)[Len(s) + 1] = CR /\ Line(s)[Len(s) + 2] = LF
         /\ \A p \in 1..Len(s) + 1 : \A q \in p - 1..Len(s) : SubSeq(Line(s), p, q) = SubSeq(s, p, q)
<1>1. /\ s \in Seq(Chars) /\ CR \in Chars /\ LF \in Chars
      /\ \A i \in 1..Len(s) : s[i] # CR /\ s[i] # LF
  BY BodyHasNoEnd
<1> DEFINE end == <<CR, LF>>
<1>2. end \in Seq(Chars) /\ Len(end) = 2 /\ end[1] = CR /\ end[2] = LF
  BY <1>1
<1> HIDE DEF end
<1> PICK n \in Nat : n = Len(s)
  BY <1>1
<1>3. /\ s \o end \in Seq(Chars) /\ Len(s \o end) = n + 2
      /\ \A i \in 1..n + 2 : (s \o end)[i] = IF i <= n THEN s[i] ELSE end[i - n]
  <2>1. /\ s \o end \in Seq(Chars) /\ Len(s \o end) = Len(s) + Len(end)
        /\ \A i \in 1..Len(s) + Len(end) : (s \o end)[i] = IF i <= Len(s) THEN s[i] ELSE end[i - Len(s)]
    BY <1>1, <1>2, ConcatProperties
  <2> QED BY <1>2, <2>1
<1>4. PICK l \in Seq(Chars) : l = s \o end
  BY <1>3
<1>5. \A i \in 1..n : l[i] = s[i]
  BY <1>3, <1>4
<1>6. l[n + 1] = CR /\ l[n + 2] = LF
  <2>1. n + 1 \in 1..n + 2 /\ ~(n + 1 <= n) /\ n + 1 - n = 1
    OBVIOUS
  <2>2. n + 2 \in 1..n + 2 /\ ~(n + 2 <= n) /\ n + 2 - n = 2
    OBVIOUS
  <2> QED BY <1>2, <1>3, <1>4, <2>1, <2>2
<1>7. ASSUME NEW p \in 1..n + 1, NEW q \in p - 1..n PROVE SubSeq(l, p, q) = SubSeq(s, p, q)
  <2>1. /\ SubSeq(s, p, q) \in Seq(Chars) /\ Len(SubSeq(s, p, q)) = q - p + 1
        /\ \A i \in 1..q - p + 1 : SubSeq(s, p, q)[i] = s[p + i - 1]
    BY <1>1, PartOfLine
  <2>2. /\ SubSeq(l, p, q) \in Seq(Chars) /\ Len(SubSeq(l, p, q)) = q - p + 1
        /\ \A i \in 1..q - p + 1 : SubSeq(l, p, q)[i] = l[p + i - 1]
    <3>1. Len(l) = n + 2 /\ p \in 1..Len(l) + 1 /\ q \in p - 1..Len(l)
      BY <1>3, <1>4
    <3> QED BY <3>1, PartOfLine
  <2>3. ASSUME NEW i \in 1..q - p + 1 PROVE SubSeq(l, p, q)[i] = SubSeq(s, p, q)[i]
    <3>1. p + i - 1 \in 1..n
      OBVIOUS
    <3> QED BY <1>5, <2>1, <2>2, <3>1
  <2> QED BY <2>1, <2>2, <2>3, SeqEqual
<1>8. Line(s) = l
  BY <1>4 DEF Line, end
<1> QED BY <1>1, <1>3, <1>4, <1>5, <1>6, <1>7, <1>8

LEMMA StopAt ==
  ASSUME NEW l \in Seq(Chars), NEW p \in 1..Len(l) + 1, NEW q \in p..Len(l), NEW stop,
         l[q] \in stop, \A i \in p..q - 1 : l[i] \notin stop
  PROVE  Before(Suffix(l, p), stop) = q - p
<1>1. Len(l) \in Nat
  OBVIOUS
<1>2. /\ Suffix(l, p) \in Seq(Chars) /\ Len(Suffix(l, p)) = Len(l) - p + 1
      /\ \A i \in 1..Len(l) - p + 1 : Suffix(l, p)[i] = l[p + i - 1]
  BY SuffixParts
<1>3. PICK n \in 0..Len(l) - p + 1 :
         /\ n = Before(Suffix(l, p), stop)
         /\ \A i \in 1..n : Suffix(l, p)[i] \notin stop
         /\ n < Len(l) - p + 1 => Suffix(l, p)[n + 1] \in stop
  <2>1. PICK s \in Seq(Chars) : s = Suffix(l, p)
    BY <1>2
  <2>2. /\ Before(s, stop) \in 0..Len(s)
        /\ \A i \in 1..Before(s, stop) : s[i] \notin stop
        /\ Before(s, stop) < Len(s) => s[Before(s, stop) + 1] \in stop
    BY BeforeStop
  <2>3. Len(s) = Len(l) - p + 1
    BY <1>2, <2>1
  <2> QED BY <2>1, <2>2, <2>3
<1>4. ~(n < q - p)
  <2>1. SUFFICES ASSUME n < q - p PROVE FALSE
    OBVIOUS
  <2>2. n + 1 \in 1..Len(l) - p + 1 /\ n < Len(l) - p + 1 /\ p + n \in p..q - 1 /\ p + (n + 1) - 1 = p + n
    BY <1>1, <2>1
  <2>3. l[p + n] \in stop
    BY <1>2, <1>3, <2>2
  <2> QED BY <2>2, <2>3
<1>5. ~(n > q - p)
  <2>1. SUFFICES ASSUME n > q - p PROVE FALSE
    OBVIOUS
  <2>2. PICK m \in 1..n : m = q - p + 1 /\ m \in 1..Len(l) - p + 1 /\ p + m - 1 = q
    BY <1>1, <2>1
  <2>3. Suffix(l, p)[m] \notin stop
    BY <1>3
  <2>4. Suffix(l, p)[m] = l[q]
    BY <1>2, <2>2
  <2> QED BY <2>3, <2>4
<1> QED BY <1>1, <1>3, <1>4, <1>5

\* peek and read at a position.
LEMMA PeekAt ==
  ASSUME NEW l \in Seq(Chars), NEW p \in 1..Len(l), NEW out, NEW cs
  PROVE  /\ Rd(l, p, out).in # << >> /\ ~Rd(l, p, out).failed
         /\ peekIs(Rd(l, p, out), cs) <=> l[p] \in cs
         /\ read(Rd(l, p, out)) = Rd(l, p + 1, out)
<1>1. /\ Suffix(l, p) # << >> /\ Head(Suffix(l, p)) = l[p]
      /\ Tail(Suffix(l, p)) = Suffix(l, p + 1)
  BY SuffixTail
<1>2. Rd(l, p, out).in = Suffix(l, p) /\ ~Rd(l, p, out).failed
  BY DEF Rd
<1>3. peekIs(Rd(l, p, out), cs) <=> l[p] \in cs
  BY <1>1, <1>2 DEF peekIs
<1>4. read(Rd(l, p, out)) = Rd(l, p + 1, out)
  <2>1. PICK t : t = read(Rd(l, p, out))
    OBVIOUS
  <2>2. t = [Rd(l, p, out) EXCEPT !.in = Suffix(l, p + 1)]
    BY <1>1, <1>2, <2>1 DEF read
  <2>3. t = Rd(l, p + 1, out)
    BY <2>2 DEF Rd
  <2> QED BY <2>1, <2>3
<1> QED BY <1>1, <1>2, <1>3, <1>4

\* A reader that has written `out' and is at p, or that has failed because `out'
\* is too long.
At(r, l, p, out) ==
    IF Len(out) > parseBufferLenMax THEN r.failed ELSE r = Rd(l, p, out)

\* The line from p to q has no character to stop at, q has one.
StopsAt(l, p, q, stop) ==
    /\ p \in 1..Len(l) /\ q \in p..Len(l)
    /\ l[q] \in stop /\ \A i \in p..q - 1 : l[i] \notin stop

LEMMA FailsOn ==
  ASSUME NEW r, r.failed
  PROVE  /\ skipSpace(r) = r /\ \A stop : copyUntil(r, stop) = r
         /\ \A c : parseWordIf(r, c) = r
BY DEF skipSpace, copyUntil, parseWordIf

LEMMA CopyAt ==
  ASSUME NEW l \in Seq(Chars), NEW p, NEW q, NEW stop, StopsAt(l, p, q, stop),
         NEW out \in Seq(Chars), Len(out) <= parseBufferLenMax
  PROVE  /\ At(copyUntil(Rd(l, p, out), stop), l, q, out \o SubSeq(l, p, q - 1))
         /\ out \o SubSeq(l, p, q - 1) \in Seq(Chars)
<1>1. /\ p \in 1..Len(l) /\ q \in p..Len(l)
      /\ l[q] \in stop /\ \A i \in p..q - 1 : l[i] \notin stop
  BY DEF StopsAt
<1>2. Len(l) \in Nat /\ parseBufferLenMax \in Nat /\ Len(out) \in Nat
  BY SizeAssumption
<1> PICK n \in Nat : n = q - p
  BY <1>1, <1>2
<1>3. Before(Suffix(l, p), stop) = n
  BY <1>1, <1>2, StopAt
<1>4. Len(Suffix(l, p)) = Len(l) - p + 1 /\ n # Len(l) - p + 1
  BY <1>1, <1>2, SuffixParts
<1>5. /\ SubSeq(Suffix(l, p), n + 1, Len(Suffix(l, p))) = Suffix(l, q)
      /\ SubSeq(Suffix(l, p), 1, n) = SubSeq(l, p, q - 1)
  <2>1. n \in 0..Len(l) - p + 1 /\ p \in 1..Len(l) + 1 /\ p + n = q /\ p + n - 1 = q - 1
    BY <1>1, <1>2
  <2> QED BY <2>1, SuffixCut
<1>6. SubSeq(l, p, q - 1) \in Seq(Chars) /\ Len(SubSeq(l, p, q - 1)) = n
  <2>1. p \in 1..Len(l) + 1 /\ q - 1 \in p - 1..Len(l) /\ q - 1 - p + 1 = n
    BY <1>1, <1>2
  <2> QED BY <2>1, PartOfLine
<1>7. /\ out \o SubSeq(l, p, q - 1) \in Seq(Chars)
      /\ Len(out \o SubSeq(l, p, q - 1)) = Len(out) + n
  BY <1>6, ConcatProperties
<1> DEFINE r == Rd(l, p, out)
<1>8. r.in = Suffix(l, p) /\ r.out = out /\ ~r.failed
  BY DEF Rd
<1>9. CASE Len(out) + n > parseBufferLenMax
  <2>1. copyUntil(r, stop) = Fail(r)
    BY <1>3, <1>8, <1>9 DEF copyUntil
  <2>2. Fail(r).failed
    BY DEF Fail, Rd
  <2> QED BY <1>7, <1>9, <2>1, <2>2 DEF At
<1>10. CASE ~(Len(out) + n > parseBufferLenMax)
  <2>1. copyUntil(r, stop) = [r EXCEPT !.in = SubSeq(r.in, n + 1, Len(r.in)),
                                       !.out = r.out \o SubSeq(r.in, 1, n)]
    BY <1>3, <1>4, <1>8, <1>10 DEF copyUntil
  <2>2. copyUntil(r, stop) = [r EXCEPT !.in = Suffix(l, q), !.out = out \o SubSeq(l, p, q - 1)]
    BY <1>5, <1>8, <2>1
  <2>3. copyUntil(r, stop) = Rd(l, q, out \o SubSeq(l, p, q - 1))
    BY <2>2 DEF Rd
  <2> QED BY <1>7, <1>10, <2>3 DEF At
<1> QED BY <1>7, <1>9, <1>10

LEMMA SkipAt ==
  ASSUME NEW l \in Seq(Chars), NEW p, NEW q, NEW out, NEW r, At(r, l, p, out),
         StopsAt(l, p, q, Chars \ {SP})
  PROVE  At(skipSpace(r), l, q, out)
<1>1. CASE Len(out) > parseBufferLenMax
  BY <1>1, FailsOn DEF At
<1>2. CASE ~(Len(out) > parseBufferLenMax)
  <2>1. /\ p \in 1..Len(l) /\ q \in p..Len(l) /\ Len(l) \in Nat
        /\ l[q] \in Chars \ {SP} /\ \A i \in p..q - 1 : l[i] \notin Chars \ {SP}
    BY DEF StopsAt
  <2> PICK n \in Nat : n = q - p
    BY <2>1
  <2>2. {CR, LF, COLON, AT} \cup Others = Chars \ {SP}
    BY CharAssumption DEF Chars
  <2>3. Before(Suffix(l, p), Chars \ {SP}) = n
    BY <2>1, StopAt
  <2>4. Len(Suffix(l, p)) = Len(l) - p + 1 /\ n # Len(l) - p + 1
    BY <2>1, SuffixParts
  <2>5. SubSeq(Suffix(l, p), n + 1, Len(Suffix(l, p))) = Suffix(l, q)
    <3>1. n \in 0..Len(l) - p + 1 /\ p \in 1..Len(l) + 1 /\ p + n = q
      BY <2>1
    <3> QED BY <3>1, SuffixCut
  <2>6. r = Rd(l, p, out) /\ r.in = Suffix(l, p) /\ ~r.failed
    BY <1>2 DEF At, Rd
  <2>7. skipSpace(r) = [r EXCEPT !.in = SubSeq(r.in, n + 1, Len(r.in))]
    BY <2>2, <2>3, <2>4, <2>6 DEF skipSpace
  <2>8. skipSpace(r) = [r EXCEPT !.in = Suffix(l, q)]
    BY <2>5, <2>6, <2>7
  <2>9. skipSpace(r) = Rd(l, q, out)
    BY <2>6, <2>8 DEF Rd
  <2> QED BY <1>2, <2>9 DEF At
<1> QED BY <1>1, <1>2

\* A reader that is too long stays so when more is written.
LEMMA LongerStill ==
  ASSUME NEW r, r.failed, NEW out \in Seq(Chars), Len(out) > parseBufferLenMax,
         NEW more \in Seq(Chars), NEW l, NEW p
  PROVE  At(r, l, p, out \o more)
<1>1. Len(out \o more) = Len(out) + Len(more) /\ Len(out) \in Nat /\ Len(more) \in Nat
  BY ConcatProperties
<1>2. Len(out \o more) > parseBufferLenMax
  BY <1>1, SizeAssumption
<1> QED BY <1>2 DEF At

LEMMA CopyFrom ==
  ASSUME NEW l \in Seq(Chars), NEW p, NEW q, NEW stop, StopsAt(l, p, q, stop),
         NEW out \in Seq(Chars), NEW r, At(r, l, p, out)
  PROVE  /\ At(copyUntil(r, stop), l, q, out \o SubSeq(l, p, q - 1))
         /\ SubSeq(l, p, q - 1) \in Seq(Chars) /\ out \o SubSeq(l, p, q - 1) \in Seq(Chars)
<1>1. p \in 1..Len(l) + 1 /\ q - 1 \in p - 1..Len(l)
  BY DEF StopsAt
<1>2. SubSeq(l, p, q - 1) \in Seq(Chars)
  BY <1>1, PartOfLine
<1>3. out \o SubSeq(l, p, q - 1) \in Seq(Chars)
  BY <1>2, ConcatProperties
<1>4. CASE Len(out) > parseBufferLenMax
  <2>1. r.failed /\ copyUntil(r, stop) = r
    BY <1>4, FailsOn DEF At
  <2>2. At(r, l, q, out \o SubSeq(l, p, q - 1))
    BY <1>2, <1>4, <2>1, LongerStill
  <2> QED BY <1>2, <1>3, <2>1, <2>2
<1>5. CASE ~(Len(out) > parseBufferLenMax)
  <2>1. r = Rd(l, p, out)
    BY <1>5 DEF At
  <2>2. Len(out) <= parseBufferLenMax
    BY <1>5, SizeAssumption
  <2>3. At(copyUntil(Rd(l, p, out), stop), l, q, out \o SubSeq(l, p, q - 1))
    BY <2>2, CopyAt
  <2> QED BY <1>2, <1>3, <2>1, <2>3
<1> QED BY <1>4, <1>5

\* parseWordIf on another character, and on its mark.
LEMMA WordIfNot ==
  ASSUME NEW l \in Seq(Chars), NEW p \in 1..Len(l), NEW out, NEW r, At(r, l, p, out),
         NEW c, l[p] # c
  PROVE  parseWordIf(r, c) = r
<1>1. CASE Len(out) > parseBufferLenMax
  BY <1>1, FailsOn DEF At
<1>2. CASE ~(Len(out) > parseBufferLenMax)
  <2>1. r = Rd(l, p, out)
    BY <1>2 DEF At
  <2>2. r.in # << >> /\ ~r.failed /\ ~peekIs(r, {c})
    BY <2>1, PeekAt
  <2> QED BY <2>2 DEF parseWordIf
<1> QED BY <1>1, <1>2

LEMMA WordIfMarked ==
  ASSUME NEW l \in Seq(Chars), NEW p \in 1..Len(l), NEW out \in Seq(Chars),
         NEW r, At(r, l, p, out), NEW c, l[p] = c,
         NEW q, StopsAt(l, p + 1, q, {SP, CR}), NEW z, StopsAt(l, q, z, Chars \ {SP})
  PROVE  /\ At(parseWordIf(r, c), l, z, out \o SubSeq(l, p + 1, q - 1))
         /\ SubSeq(l, p + 1, q - 1) \in Seq(Chars) /\ out \o SubSeq(l, p + 1, q - 1) \in Seq(Chars)
<1>0. p + 1 \in 1..Len(l) + 1 /\ q - 1 \in p + 1 - 1..Len(l)
  BY DEF StopsAt
<1>1. SubSeq(l, p + 1, q - 1) \in Seq(Chars)
  BY <1>0, PartOfLine
<1>2. CASE Len(out) > parseBufferLenMax
  <2>1. r.failed /\ parseWordIf(r, c) = r
    BY <1>2, FailsOn DEF At
  <2>2. At(r, l, z, out \o SubSeq(l, p + 1, q - 1))
    BY <1>1, <1>2, <2>1, LongerStill
  <2> QED BY <1>1, <2>1, <2>2, ConcatProperties
<1>3. CASE ~(Len(out) > parseBufferLenMax)
  <2>1. r = Rd(l, p, out)
    BY <1>3 DEF At
  <2>2. r.in # << >> /\ ~r.failed /\ peekIs(r, {c}) /\ read(r) = Rd(l, p + 1, out)
    BY <2>1, PeekAt
  <2>3. At(read(r), l, p + 1, out)
    BY <1>3, <2>2 DEF At
  <2>4. PICK x : x = copyWord(read(r)) /\ At(x, l, q, out \o SubSeq(l, p + 1, q - 1))
    BY <2>3, CopyFrom DEF copyWord
  <2>5. At(skipSpace(x), l, z, out \o SubSeq(l, p + 1, q - 1))
    BY <2>4, SkipAt
  <2>6. parseWordIf(r, c) = skipSpace(x)
    BY <2>2, <2>4 DEF parseWordIf
  <2> QED BY <1>1, <2>5, <2>6, ConcatProperties
<1> QED BY <1>2, <1>3

\* Where a word and the spaces behind it stop the parser.
LEMMA WordStops ==
  ASSUME NEW s \in Seq(BodyChars), NEW ws, WordTable(s, ws), NEW n \in 1..Len(ws),
         NEW x \in ws[n][1]..ws[n][2] + 1
  PROVE  /\ StopsAt(Line(s), x, ws[n][2] + 1, {SP, CR})
         /\ SubSeq(Line(s), x, ws[n][2] + 1 - 1) = SubSeq(s, x, ws[n][2])
         /\ ws[n][1] \in 1..Len(s) /\ ws[n][2] \in ws[n][1]..Len(s)
<1>1. /\ ws[n][1] \in 1..Len(s) /\ ws[n][2] \in ws[n][1]..Len(s)
      /\ \A k \in ws[n][1]..ws[n][2] : s[k] # SP
      /\ ws[n][2] = Len(s) \/ s[ws[n][2] + 1] = SP
  BY DEF WordTable
<1> PICK L \in Nat : L = Len(s)
  BY LineParts
<1> PICK a \in 1..L, b \in 1..L : a = ws[n][1] /\ b = ws[n][2] /\ a <= b
  BY <1>1
<1> PICK l \in Seq(Chars) : l = Line(s)
  BY LineParts
<1>2. /\ Len(l) = L + 2 /\ l[L + 1] = CR
      /\ \A i \in 1..L : l[i] = s[i] /\ s[i] # CR
      /\ \A p \in 1..L + 1 : \A q \in p - 1..L : SubSeq(l, p, q) = SubSeq(s, p, q)
  BY LineParts
<1>3. x \in a..b + 1
  OBVIOUS
<1>4. l[b + 1] \in {SP, CR}
  <2>1. CASE b = L
    BY <1>2, <2>1
  <2>2. CASE b # L
    <3>1. b + 1 \in 1..L /\ s[b + 1] = SP
      BY <1>1, <2>2
    <3> QED BY <1>2, <3>1
  <2> QED BY <2>1, <2>2
<1>5. ASSUME NEW i \in x..b + 1 - 1 PROVE l[i] \notin {SP, CR}
  <2>1. i \in a..b /\ i \in 1..L
    BY <1>3
  <2>2. s[i] # SP
    BY <1>1, <2>1
  <2> QED BY <1>2, <2>1, <2>2
<1>6. StopsAt(l, x, b + 1, {SP, CR})
  <2>1. x \in 1..Len(l) /\ b + 1 \in x..Len(l)
    BY <1>2, <1>3, SMTT(30)
  <2> QED BY <1>4, <1>5, <2>1 DEF StopsAt
<1>7. SubSeq(l, x, b + 1 - 1) = SubSeq(s, x, b)
  <2>1. x \in 1..L + 1 /\ b \in x - 1..L /\ b + 1 - 1 = b
    BY <1>3, SMTT(30)
  <2> QED BY <1>2, <2>1
<1> QED BY <1>1, <1>6, <1>7

LEMMA GapStops ==
  ASSUME NEW s \in Seq(BodyChars), NEW ws, WordTable(s, ws), NEW n \in 0..Len(ws),
         NEW x \in Ends(ws, n) + 1..Begins(s, ws, n + 1)
  PROVE  /\ StopsAt(Line(s), x, Begins(s, ws, n + 1), Chars \ {SP})
         /\ Begins(s, ws, n + 1) \in 1..Len(s) + 1 /\ Ends(ws, n) \in 0..Len(s)
         /\ n < Len(ws) => Begins(s, ws, n + 1) = ws[n + 1][1]
         /\ n = Len(ws) => Begins(s, ws, n + 1) = Len(s) + 1
<1> PICK L \in Nat : L = Len(s)
  BY LineParts
<1> PICK N \in Nat : N = Len(ws)
  BY DEF WordTable
<1>1. \A m \in 1..N : /\ ws[m][1] \in 1..L /\ ws[m][2] \in ws[m][1]..L
                      /\ \A k \in ws[m][1]..ws[m][2] : s[k] # SP
  BY DEF WordTable
<1>2. \A k \in Ends(ws, n) + 1..Begins(s, ws, n + 1) - 1 : s[k] = SP
  BY DEF WordTable
<1>3. Ends(ws, n) \in 0..L
  <2>1. n # 0 => ws[n][2] \in 0..L
    <3>1. n # 0 => n \in 1..N
      OBVIOUS
    <3> QED BY <1>1, <3>1
  <2> QED BY <2>1 DEF Ends
<1>4. n < N => /\ Begins(s, ws, n + 1) = ws[n + 1][1] /\ ws[n + 1][1] \in 1..L
               /\ s[ws[n + 1][1]] # SP
  <2>1. SUFFICES ASSUME n < N PROVE /\ Begins(s, ws, n + 1) = ws[n + 1][1] /\ ws[n + 1][1] \in 1..L
                                    /\ s[ws[n + 1][1]] # SP
    OBVIOUS
  <2>2. PICK m \in 1..N : m = n + 1
    BY <2>1
  <2>3. ws[m][1] \in ws[m][1]..ws[m][2]
    BY <1>1
  <2> QED BY <1>1, <2>2, <2>3 DEF Begins
<1>5. n = N => Begins(s, ws, n + 1) = L + 1
  BY DEF Begins
<1> PICK l \in Seq(Chars) : l = Line(s)
  BY LineParts
<1>6. Len(l) = L + 2 /\ l[L + 1] = CR /\ \A i \in 1..L : l[i] = s[i] /\ s[i] \in Chars
  BY LineParts, ElementOfSeq
<1>7. PICK z \in 1..L + 1 : z = Begins(s, ws, n + 1) /\ l[z] \in Chars \ {SP}
  <2>1. CASE n = N
    <3>1. CR \in Chars \ {SP}
      BY CharAssumption DEF Chars
    <3> QED BY <1>5, <1>6, <2>1, <3>1
  <2>2. CASE n < N
    BY <1>4, <1>6, <2>2
  <2> QED BY <2>1, <2>2
<1>8. x \in 1..Len(l) /\ z \in x..Len(l)
  BY <1>3, <1>6, <1>7
<1>9. ASSUME NEW i \in x..z - 1 PROVE l[i] \notin Chars \ {SP}
  <2>1. i \in Ends(ws, n) + 1..Begins(s, ws, n + 1) - 1 /\ i \in 1..L
    BY <1>3, <1>7
  <2> QED BY <1>2, <1>6, <2>1
<1>10. StopsAt(l, x, z, Chars \ {SP})
  BY <1>7, <1>8, <1>9 DEF StopsAt
<1> QED BY <1>3, <1>4, <1>5, <1>7, <1>10

\* The parts of the reference, each by its name there.
Lead(s) == s # << >> /\ Head(s) = SP
Marked(s, ws, n, c) == n <= Len(ws) /\ s[ws[n][1]] = c
TagsAt(s, ws) == IF ~Lead(s) /\ Marked(s, ws, 1, AT) THEN 1 ELSE 0
PrefixAt(s, ws) ==
    IF ~Lead(s) /\ Marked(s, ws, TagsAt(s, ws) + 1, COLON) THEN TagsAt(s, ws) + 1 ELSE TagsAt(s, ws)
CmdAt(s, ws) ==
    IF Lead(s) \/ PrefixAt(s, ws) = Len(ws) THEN PrefixAt(s, ws) ELSE PrefixAt(s, ws) + 1
Unmark(s, w) == SubSeq(s, w[1] + 1, w[2])
TagsOf(s, ws) == IF TagsAt(s, ws) = 1 THEN Unmark(s, ws[1]) ELSE << >>
PrefixOf(s, ws) == IF PrefixAt(s, ws) > TagsAt(s, ws) THEN Unmark(s, ws[PrefixAt(s, ws)]) ELSE << >>
CmdOf(s, ws) == IF CmdAt(s, ws) > PrefixAt(s, ws) THEN Text(s, ws[CmdAt(s, ws)]) ELSE << >>

\* A parser before a word takes it when it is marked, and nothing otherwise.
LEMMA MarkedWord ==
  ASSUME NEW s \in Seq(BodyChars), NEW ws, WordTable(s, ws), NEW n \in 1..Len(ws) + 1,
         NEW out \in Seq(Chars), NEW r, At(r, Line(s), Begins(s, ws, n), out), NEW c \in {AT, COLON}
  PROVE  IF Marked(s, ws, n, c)
         THEN /\ At(parseWordIf(r, c), Line(s), Begins(s, ws, n + 1), out \o Unmark(s, ws[n]))
              /\ Unmark(s, ws[n]) \in Seq(Chars) /\ out \o Unmark(s, ws[n]) \in Seq(Chars)
         ELSE parseWordIf(r, c) = r
<1> PICK N \in Nat : N = Len(ws)
  BY DEF WordTable
<1> PICK L \in Nat : L = Len(s)
  BY LineParts
<1> PICK l \in Seq(Chars) : l = Line(s)
  BY LineParts
<1>1. Len(l) = L + 2 /\ l[L + 1] = CR /\ \A i \in 1..L : l[i] = s[i]
  BY LineParts
<1>2. CASE n = N + 1
  <2>1. Begins(s, ws, n) = L + 1 /\ ~Marked(s, ws, n, c)
    BY <1>2 DEF Begins, Marked
  <2>2. L + 1 \in 1..Len(l) /\ l[L + 1] # c
    BY <1>1, CharAssumption
  <2>3. parseWordIf(r, c) = r
    BY <2>1, <2>2, WordIfNot
  <2> QED BY <2>1, <2>3
<1>3. CASE n # N + 1
  <2>1. n \in 1..N
    BY <1>3
  <2>2. ws[n][1] \in 1..L /\ ws[n][2] \in ws[n][1]..L
    BY <2>1 DEF WordTable
  <2> PICK a \in 1..L, b \in 1..L : a = ws[n][1] /\ b = ws[n][2] /\ a <= b
    BY <2>2
  <2>3. Begins(s, ws, n) = a /\ a \in 1..Len(l) /\ l[a] = s[a]
    BY <1>1, <2>1 DEF Begins
  <2>4. CASE s[a] # c
    <3>1. ~Marked(s, ws, n, c)
      BY <2>4 DEF Marked
    <3>2. parseWordIf(r, c) = r
      BY <2>3, <2>4, WordIfNot
    <3> QED BY <3>1, <3>2
  <2>5. CASE s[a] = c
    <3>1. Marked(s, ws, n, c)
      BY <2>1, <2>5 DEF Marked
    <3>2. a + 1 \in ws[n][1]..ws[n][2] + 1
      <4>1. \A i, j \in Nat : i <= j => i + 1 \in i..j + 1
        OBVIOUS
      <4>2. a \in Nat /\ b \in Nat /\ a <= b
        OBVIOUS
      <4> QED BY <4>1, <4>2
    <3>3. /\ StopsAt(l, a + 1, b + 1, {SP, CR})
          /\ SubSeq(l, a + 1, b + 1 - 1) = SubSeq(s, a + 1, b)
      BY <2>1, <3>2, WordStops
    <3>4. Ends(ws, n) = b /\ n \in 0..N
      BY <2>1 DEF Ends
    <3>5. b < Begins(s, ws, n + 1)
      BY <3>4 DEF WordTable
    <3>6. b + 1 \in Ends(ws, n) + 1..Begins(s, ws, n + 1)
      <4>1. Begins(s, ws, n + 1) \in Int
        <5>1. n < N => ws[n + 1][1] \in Int
          <6>1. n < N => n + 1 \in 1..N
            BY <2>1
          <6> QED BY <6>1 DEF WordTable
        <5>2. ~(n < N) => ~(n + 1 <= N)
          BY <2>1
        <5>3. n < N => n + 1 <= N
          BY <2>1
        <5> QED BY <5>1, <5>2, <5>3 DEF Begins
      <4> QED BY <3>4, <3>5, <4>1
    <3>7. StopsAt(l, b + 1, Begins(s, ws, n + 1), Chars \ {SP})
      BY <3>4, <3>6, GapStops
    <3>8. PICK z : z = Begins(s, ws, n + 1)
      OBVIOUS
    <3> PICK q : q = b + 1
      OBVIOUS
    <3>9. /\ At(r, l, a, out) /\ l[a] = c /\ a \in 1..Len(l)
          /\ StopsAt(l, a + 1, q, {SP, CR}) /\ StopsAt(l, q, z, Chars \ {SP})
      BY <2>3, <2>5, <3>3, <3>7, <3>8
    <3>10. /\ At(parseWordIf(r, c), l, z, out \o SubSeq(l, a + 1, q - 1))
           /\ SubSeq(l, a + 1, q - 1) \in Seq(Chars)
           /\ out \o SubSeq(l, a + 1, q - 1) \in Seq(Chars)
      BY <3>9, WordIfMarked
    <3>11. Unmark(s, ws[n]) = SubSeq(l, a + 1, q - 1)
      <4>1. b + 1 - 1 = q - 1
        OBVIOUS
      <4> QED BY <3>3, <4>1 DEF Unmark
    <3> QED BY <3>1, <3>8, <3>10, <3>11
  <2> QED BY <2>4, <2>5
<1> QED BY <1>2, <1>3

\* Tags, prefix and command: what is written after them and where the parser is,
\* which is in the spaces before the next word, if the line does not begin there.
LEMMA HeadParsed ==
  ASSUME NEW s \in Seq(BodyChars), NEW ws, WordTable(s, ws),
         NEW r0, r0 = Reader(Line(s)), NEW r1, r1 = parseWordIf(r0, AT),
         NEW r2, r2 = parseWordIf(r1, COLON), NEW r3, r3 = copyWord(r2)
  PROVE  \E p1, p2, p3 :
            /\ At(r1, Line(s), p1, TagsOf(s, ws))
            /\ At(r2, Line(s), p2, TagsOf(s, ws) \o PrefixOf(s, ws))
            /\ At(r3, Line(s), p3, TagsOf(s, ws) \o PrefixOf(s, ws) \o CmdOf(s, ws))
            /\ CmdAt(s, ws) \in 0..Len(ws)
            /\ p3 \in Ends(ws, CmdAt(s, ws)) + 1..Begins(s, ws, CmdAt(s, ws) + 1)
            /\ TagsOf(s, ws) \in Seq(Chars) /\ PrefixOf(s, ws) \in Seq(Chars) /\ CmdOf(s, ws) \in Seq(Chars)
<1> PICK N \in Nat : N = Len(ws)
  BY DEF WordTable
<1> PICK L \in Nat : L = Len(s)
  BY LineParts
<1> PICK l \in Seq(Chars) : l = Line(s)
  BY LineParts
<1>0. /\ s \in Seq(Chars) /\ Len(l) = L + 2 /\ l[L + 1] = CR /\ \A i \in 1..L : l[i] = s[i]
      /\ \A p \in 1..L + 1 : \A q \in p - 1..L : SubSeq(l, p, q) = SubSeq(s, p, q)
  BY LineParts
<1>e. << >> \in Seq(Chars) /\ Len(<< >>) = 0 /\ ~(Len(<< >>) > parseBufferLenMax)
  BY SizeAssumption
<1>c. \A x \in Seq(Chars) : x \o << >> = x /\ << >> \o x = x
  BY ConcatEmptySeq
<1>1. At(r0, l, 1, << >>)
  <2>1. l = Suffix(l, 1)
    BY SubSeqFull DEF Suffix
  <2>2. r0 = Rd(l, 1, << >>)
    BY <2>1 DEF Reader, Rd
  <2> QED BY <1>e, <2>2 DEF At
<1>2. CASE Lead(s)
  <2>1. L \in Nat \ {0} /\ l[1] = SP /\ 1 \in 1..Len(l)
    <3>1. L # 0
      BY <1>0, <1>2 DEF Lead
    <3>2. s[1] = SP
      BY <1>0, <1>2 DEF Lead
    <3> QED BY <1>0, <3>1, <3>2
  <2>2. r1 = r0 /\ r2 = r0
    <3>1. r1 = r0
      BY <1>1, <2>1, CharAssumption, WordIfNot
    <3>2. r2 = r1
      BY <1>1, <2>1, <3>1, CharAssumption, WordIfNot
    <3> QED BY <3>1, <3>2
  <2>3. At(r3, l, 1, << >>)
    <3>1. StopsAt(l, 1, 1, {SP, CR})
      BY <2>1 DEF StopsAt
    <3>2. At(r3, l, 1, << >> \o SubSeq(l, 1, 1 - 1))
      BY <1>1, <1>e, <2>2, <3>1, CopyFrom DEF copyWord
    <3>3. SubSeq(l, 1, 1 - 1) = << >>
      BY SubSeqEmpty
    <3> QED BY <1>c, <1>e, <3>2, <3>3
  <2>4. TagsAt(s, ws) = 0 /\ PrefixAt(s, ws) = 0 /\ CmdAt(s, ws) = 0
    BY <1>2 DEF TagsAt, PrefixAt, CmdAt
  <2>5. TagsOf(s, ws) = << >> /\ PrefixOf(s, ws) = << >> /\ CmdOf(s, ws) = << >>
    BY <2>4 DEF TagsOf, PrefixOf, CmdOf
  <2>6. 1 \in Ends(ws, 0) + 1..Begins(s, ws, 0 + 1) /\ 0 \in 0..N
    <3>1. Ends(ws, 0) = 0 /\ Ends(ws, 0) < Begins(s, ws, 0 + 1)
      BY DEF Ends, WordTable
    <3>2. Begins(s, ws, 0 + 1) \in Int
      <4>1. 1 <= N => ws[1][1] \in Int
        BY DEF WordTable
      <4> QED BY <4>1 DEF Begins
    <3> QED BY <3>1, <3>2
  <2>7. << >> \o << >> \o << >> = << >> /\ << >> \o << >> = << >>
    BY <1>c, <1>e
  <2> QED BY <1>1, <1>e, <2>2, <2>3, <2>4, <2>5, <2>6, <2>7
<1>3. CASE ~Lead(s)
  <2>1. Begins(s, ws, 1) = 1
    <3>1. PICK z \in 1..L + 1 : z = Begins(s, ws, 1)
      <4>1. 1 <= N => ws[1][1] \in 1..L
        BY DEF WordTable
      <4> QED BY <4>1 DEF Begins
    <3>2. Ends(ws, 0) = 0 /\ 0 \in 0..N /\ 0 + 1 = 1
      BY DEF Ends
    <3>3. \A k \in 0 + 1..z - 1 : s[k] = SP
      BY <3>1, <3>2 DEF WordTable
    <3>4. z > 1 => s[1] = SP /\ L > 0
      BY <3>1, <3>3
    <3>5. L > 0 /\ s[1] = SP => Lead(s)
      <4>1. L > 0 => s # << >> /\ Head(s) = s[1]
        BY <1>0
      <4> QED BY <4>1 DEF Lead
    <3> QED BY <1>3, <3>1, <3>4, <3>5
  <2> DEFINE t == TagsAt(s, ws)
             p == PrefixAt(s, ws)
             c == CmdAt(s, ws)
             T == TagsOf(s, ws)
             P == PrefixOf(s, ws)
             C == CmdOf(s, ws)
  <2>2. t \in 0..N /\ t \in {0, 1} /\ T \in Seq(Chars) /\ At(r1, l, Begins(s, ws, t + 1), T)
    <3>1. 1 \in 1..N + 1 /\ At(r0, l, Begins(s, ws, 1), << >>)
      BY <1>1, <2>1
    <3>2. IF Marked(s, ws, 1, AT)
          THEN /\ At(r1, l, Begins(s, ws, 1 + 1), << >> \o Unmark(s, ws[1]))
               /\ Unmark(s, ws[1]) \in Seq(Chars)
          ELSE r1 = r0
      BY <1>e, <3>1, MarkedWord
    <3>3. CASE Marked(s, ws, 1, AT)
      <4>1. t = 1 /\ T = Unmark(s, ws[1]) /\ 1 <= N
        BY <1>3, <3>3 DEF TagsAt, TagsOf, Marked
      <4> HIDE DEF t, T
      <4> QED BY <1>c, <3>2, <3>3, <4>1
    <3>4. CASE ~Marked(s, ws, 1, AT)
      <4>1. t = 0 /\ T = << >>
        BY <3>4 DEF TagsAt, TagsOf
      <4> HIDE DEF t, T
      <4> QED BY <1>e, <3>1, <3>2, <3>4, <4>1
    <3> QED BY <3>3, <3>4
  <2>3. p \in 0..N /\ p \in t..t + 1 /\ P \in Seq(Chars) /\ T \o P \in Seq(Chars) /\ At(r2, l, Begins(s, ws, p + 1), T \o P)
    <3> HIDE DEF T, t
    <3>1. t + 1 \in 1..N + 1 /\ At(r1, l, Begins(s, ws, t + 1), T) /\ T \in Seq(Chars)
      BY <2>2
    <3>2. IF Marked(s, ws, t + 1, COLON)
          THEN /\ At(r2, l, Begins(s, ws, t + 1 + 1), T \o Unmark(s, ws[t + 1]))
               /\ Unmark(s, ws[t + 1]) \in Seq(Chars) /\ T \o Unmark(s, ws[t + 1]) \in Seq(Chars)
          ELSE r2 = r1
      BY <3>1, MarkedWord
    <3>3. CASE Marked(s, ws, t + 1, COLON)
      <4>1. p = t + 1 /\ t + 1 <= N
        BY <1>3, <3>3 DEF PrefixAt, t, Marked
      <4>2. P = Unmark(s, ws[t + 1])
        BY <2>2, <4>1 DEF PrefixOf, t
      <4> HIDE DEF p, P
      <4> QED BY <2>2, <3>2, <3>3, <4>1, <4>2
    <3>4. CASE ~Marked(s, ws, t + 1, COLON)
      <4>1. p = t
        BY <3>4 DEF PrefixAt, t
      <4>2. P = << >>
        BY <2>2, <4>1 DEF PrefixOf, t
      <4>3. T \o P = T
        BY <1>c, <2>2, <4>2
      <4> HIDE DEF p, P
      <4> QED BY <1>e, <2>2, <3>1, <3>2, <3>4, <4>1, <4>2, <4>3
    <3> QED BY <3>3, <3>4
  <2> HIDE DEF T, P, t, p
  <2>4. CASE p = N
    <3>1. c = p /\ C = << >>
      BY <2>3, <2>4 DEF CmdAt, CmdOf, p
    <3>2. Begins(s, ws, p + 1) = L + 1
      BY <2>4 DEF Begins
    <3>3. StopsAt(l, L + 1, L + 1, {SP, CR})
      BY <1>0 DEF StopsAt
    <3>4. At(r3, l, L + 1, T \o P \o SubSeq(l, L + 1, L + 1 - 1))
      <4>1. PICK q : q = L + 1
        OBVIOUS
      <4>0. PICK out : out = T \o P /\ out \in Seq(Chars)
        BY <2>3
      <4>2. StopsAt(l, q, q, {SP, CR}) /\ At(r2, l, q, out)
        BY <2>3, <3>2, <3>3, <4>0, <4>1
      <4>3. At(copyUntil(r2, {SP, CR}), l, q, out \o SubSeq(l, q, q - 1))
        BY <4>0, <4>2, CopyFrom
      <4> QED BY <4>0, <4>1, <4>3 DEF copyWord
    <3>5. SubSeq(l, L + 1, L + 1 - 1) = << >>
      BY SubSeqEmpty
    <3>6. L + 1 \in Ends(ws, p) + 1..Begins(s, ws, p + 1)
      <4>1. Ends(ws, p) < L + 1
        BY <2>3, <3>2 DEF WordTable
      <4>2. Ends(ws, p) \in Int
        BY <2>3 DEF Ends, WordTable
      <4> QED BY <3>2, <4>1, <4>2
    <3> QED BY <2>2, <2>3, <3>1, <3>4, <3>5, <3>6, <1>e DEF T, P
  <2>5. CASE p # N
    <3>1. c = p + 1 /\ c \in 1..N /\ C = Text(s, ws[c])
      <4>1. c = p + 1
        BY <1>3, <2>5 DEF CmdAt, p
      <4>2. c \in 1..N /\ c > p
        BY <2>3, <2>5, <4>1
      <4> QED BY <4>1, <4>2 DEF CmdOf, p
    <3> HIDE DEF c, C
    <3>2. ws[c][1] \in 1..L /\ ws[c][2] \in ws[c][1]..L
      BY <3>1 DEF WordTable
    <3> PICK a \in 1..L, b \in 1..L : a = ws[c][1] /\ b = ws[c][2] /\ a <= b
      BY <3>2
    <3>3. Begins(s, ws, p + 1) = a
      BY <3>1 DEF Begins
    <3>4. StopsAt(l, a, b + 1, {SP, CR}) /\ SubSeq(l, a, b + 1 - 1) = SubSeq(s, a, b)
      <4>1. a \in ws[c][1]..ws[c][2] + 1
        OBVIOUS
      <4> QED BY <3>1, <4>1, WordStops
    <3>5. /\ At(r3, l, b + 1, T \o P \o SubSeq(l, a, b + 1 - 1))
          /\ SubSeq(l, a, b + 1 - 1) \in Seq(Chars)
      <4>1. PICK q : q = b + 1
        OBVIOUS
      <4>0. PICK out : out = T \o P /\ out \in Seq(Chars)
        BY <2>3
      <4>2. StopsAt(l, a, q, {SP, CR}) /\ At(r2, l, a, out)
        BY <2>3, <3>3, <3>4, <4>0, <4>1
      <4>3. /\ At(copyUntil(r2, {SP, CR}), l, q, out \o SubSeq(l, a, q - 1))
            /\ SubSeq(l, a, q - 1) \in Seq(Chars)
        <5>1. PICK stop : stop = {SP, CR}
          OBVIOUS
        <5>2. StopsAt(l, a, q, stop) /\ At(r2, l, a, out)
          BY <4>2, <5>1
        <5>3. /\ At(copyUntil(r2, stop), l, q, out \o SubSeq(l, a, q - 1))
              /\ SubSeq(l, a, q - 1) \in Seq(Chars)
          BY <4>0, <5>2, CopyFrom
        <5> QED BY <5>1, <5>3
      <4> QED BY <4>0, <4>1, <4>3, SMTT(30) DEF copyWord
    <3>6. C = SubSeq(l, a, b + 1 - 1)
      BY <3>1, <3>4 DEF Text
    <3>7. b + 1 \in Ends(ws, c) + 1..Begins(s, ws, c + 1) /\ c \in 0..N
      <4>1. Ends(ws, c) = b /\ c \in 0..N
        BY <3>1 DEF Ends
      <4>2. b < Begins(s, ws, c + 1)
        BY <4>1 DEF WordTable
      <4>3. Begins(s, ws, c + 1) \in Int
        <5>1. c + 1 <= N => ws[c + 1][1] \in Int
          <6>1. c + 1 <= N => c + 1 \in 1..N
            BY <3>1
          <6> QED BY <6>1 DEF WordTable
        <5> QED BY <5>1 DEF Begins
      <4> QED BY <4>1, <4>2, <4>3
    <3> QED BY <2>2, <2>3, <3>5, <3>6, <3>7 DEF T, P, C, c
  <2> QED BY <2>4, <2>5
<1> QED BY <1>2, <1>3

LongAfter(s, ws, c) == {n \in c + 1..Len(ws) : Marked(s, ws, n, COLON)}
WordsEnd(s, ws, c) ==
    IF LongAfter(s, ws, c) = {} THEN Len(ws)
    ELSE (CHOOSE n \in LongAfter(s, ws, c) : \A m \in LongAfter(s, ws, c) : n <= m) - 1
LastOf(s, ws, c) ==
    IF LongAfter(s, ws, c) # {} THEN <<SubSeq(s, ws[WordsEnd(s, ws, c) + 1][1] + 1, Len(s))>>
    ELSE IF WordsEnd(s, ws, c) = c \/ Last(s) = SP THEN << << >> >> ELSE << >>
ParamsAfter(s, ws, c) ==
    [n \in 1..WordsEnd(s, ws, c) - c |-> Text(s, ws[c + n])] \o LastOf(s, ws, c)

\* The parameter behind the j before: none is left, the rest of the line, or a
\* word, which is the last one if the line ends with it.
ParamIs(s, ws, c, ps, j) ==
    \/ c + j = Len(ws) /\ Len(ps) = j + 1 /\ ps[j + 1] = << >>
    \/ /\ c + j < Len(ws) /\ s[ws[c + j + 1][1]] = COLON
       /\ Len(ps) = j + 1 /\ ps[j + 1] = SubSeq(s, ws[c + j + 1][1] + 1, Len(s))
    \/ /\ c + j < Len(ws) /\ s[ws[c + j + 1][1]] # COLON
       /\ ps[j + 1] = Text(s, ws[c + j + 1])
       /\ Len(ps) = j + 1 <=> ws[c + j + 1][2] = Len(s)

LEMMA WordsEndIs ==
  ASSUME NEW s \in Seq(BodyChars), NEW ws, WordTable(s, ws), NEW c \in 0..Len(ws)
  PROVE  /\ WordsEnd(s, ws, c) \in c..Len(ws)
         /\ \A n \in c + 1..WordsEnd(s, ws, c) : s[ws[n][1]] # COLON
         /\ LongAfter(s, ws, c) = {} <=> WordsEnd(s, ws, c) = Len(ws)
         /\ WordsEnd(s, ws, c) < Len(ws) => s[ws[WordsEnd(s, ws, c) + 1][1]] = COLON
<1> PICK N \in Nat : N = Len(ws)
  BY DEF WordTable
<1> DEFINE long == LongAfter(s, ws, c)
           k == WordsEnd(s, ws, c)
<1>0. long \in SUBSET Nat /\ \A n \in c + 1..N : n \in long <=> s[ws[n][1]] = COLON
  BY DEF LongAfter, Marked
<1>00. \A n \in long : n \in c + 1..N
  BY DEF LongAfter
<1>1. CASE long = {}
  <2>1. k = N
    BY <1>1 DEF WordsEnd
  <2> HIDE DEF long, k
  <2> QED BY <1>0, <1>1, <2>1 DEF long, k
<1>2. CASE long # {}
  <2>1. \E n \in long : \A m \in long : n <= m
    <3> HIDE DEF long
    <3> QED BY <1>0, <1>2, LeastNatural
  <2>2. k + 1 \in long /\ (\A m \in long : k + 1 <= m) /\ k \in Int
    <3>1. PICK x : x = CHOOSE n \in long : \A m \in long : n <= m
      OBVIOUS
    <3>2. x \in long /\ \A m \in long : x <= m
      BY <2>1, <3>1
    <3>3. k = x - 1
      BY <1>2, <3>1 DEF WordsEnd
    <3>4. x \in Nat
      BY <1>0, <3>2
    <3> HIDE DEF k, long
    <3>5. k + 1 = x
      BY <3>3, <3>4
    <3> QED BY <3>2, <3>3, <3>4, <3>5
  <2> HIDE DEF long, k
  <2>3. k + 1 \in c + 1..N /\ k \in c..N /\ k < N
    BY <1>00, <2>2
  <2>4. ASSUME NEW n \in c + 1..k PROVE s[ws[n][1]] # COLON
    <3>1. n \notin long /\ n \in c + 1..N
      BY <2>2, <2>3
    <3> QED BY <1>0, <3>1
  <2>5. s[ws[k + 1][1]] = COLON
    BY <1>0, <2>2, <2>3
  <2> QED BY <1>2, <2>3, <2>4, <2>5 DEF long, k
<1> QED BY <1>1, <1>2

LEMMA OneOrNone ==
  ASSUME NEW S
  PROVE  /\ << >> \in Seq(S) /\ Len(<< >>) = 0
         /\ \A x \in S : <<x>> \in Seq(S) /\ Len(<<x>>) = 1 /\ <<x>>[1] = x
OBVIOUS

\* The parameters of the reference, one by one.
LEMMA ReferenceParams ==
  ASSUME NEW s \in Seq(BodyChars), NEW ws, WordTable(s, ws), NEW c \in 0..Len(ws),
         NEW ps, ps = ParamsAfter(s, ws, c)
  PROVE  /\ ps \in Seq(Seq(Chars)) /\ Len(ps) \in Nat \ {0}
         /\ \A j \in 0..Len(ps) - 1 : c + j \in 0..Len(ws) /\ ParamIs(s, ws, c, ps, j)
<1> PICK N \in Nat : N = Len(ws)
  BY DEF WordTable
<1> PICK L \in Nat : L = Len(s)
  BY LineParts
<1>0. s \in Seq(Chars)
  BY LineParts
<1>1. \A n \in 1..N : /\ ws[n][1] \in 1..L /\ ws[n][2] \in ws[n][1]..L
                      /\ \A i \in ws[n][1]..ws[n][2] : s[i] # SP
  BY DEF WordTable
<1> DEFINE kk == WordsEnd(s, ws, c)
<1>2. PICK k \in c..N :
        /\ k = kk /\ \A n \in c + 1..k : s[ws[n][1]] # COLON
        /\ LongAfter(s, ws, c) = {} <=> k = N
        /\ k < N => s[ws[k + 1][1]] = COLON
  BY WordsEndIs
<1> PICK d \in Nat : d = k - c
  OBVIOUS
<1>3. ASSUME NEW n \in 1..d PROVE Text(s, ws[c + n]) \in Seq(Chars)
  <2>1. PICK m \in 1..N : m = c + n
    OBVIOUS
  <2>2. ws[m][1] \in 1..Len(s) + 1 /\ ws[m][2] \in ws[m][1] - 1..Len(s)
    BY <1>1
  <2> QED BY <1>0, <2>1, <2>2, PartOfLine DEF Text
<1> DEFINE words == [n \in 1..d |-> Text(s, ws[c + n])]
           last == LastOf(s, ws, c)
<1>4. /\ words \in Seq(Seq(Chars)) /\ Len(words) = d
      /\ \A n \in 1..d : words[n] = Text(s, ws[c + n])
  BY <1>3, IsASeq
<1>5. CASE k < N
  <2>1. last = <<SubSeq(s, ws[k + 1][1] + 1, L)>>
    BY <1>2, <1>5, SMTT(30) DEF LastOf
  <2> DEFINE x == SubSeq(s, ws[k + 1][1] + 1, L)
  <2>2. x \in Seq(Chars)
    <3>1. PICK m \in 1..N : m = k + 1
      BY <1>5
    <3>2. PICK p \in 1..L + 1 : p = ws[m][1] + 1
      BY <1>1, <3>1, SMTT(30)
    <3>3. L \in p - 1..L
      OBVIOUS
    <3> QED BY <1>0, <3>1, <3>2, <3>3, PartOfLine
  <2> HIDE DEF x
  <2>3. last \in Seq(Seq(Chars)) /\ Len(last) = 1 /\ last[1] = x
    <3>1. last = <<x>>
      BY <2>1 DEF x
    <3>2. <<x>> \in Seq(Seq(Chars)) /\ Len(<<x>>) = 1 /\ <<x>>[1] = x
      BY <2>2, OneOrNone
    <3> HIDE DEF last
    <3> QED BY <3>1, <3>2, Zenon
  <2> HIDE DEF words, last
  <2>4. ps = words \o last
    BY <1>2 DEF ParamsAfter, words, last
  <2>5. /\ ps \in Seq(Seq(Chars)) /\ Len(ps) = d + 1
        /\ \A i \in 1..d + 1 : ps[i] = IF i <= d THEN words[i] ELSE last[i - d]
    <3>1. /\ words \o last \in Seq(Seq(Chars)) /\ Len(words \o last) = Len(words) + Len(last)
          /\ \A i \in 1..Len(words) + Len(last) :
                (words \o last)[i] = IF i <= Len(words) THEN words[i] ELSE last[i - Len(words)]
      BY <1>4, <2>3, ConcatProperties
    <3> QED BY <1>4, <2>3, <2>4, <3>1
  <2>6. ASSUME NEW j \in 0..d PROVE c + j \in 0..N /\ ParamIs(s, ws, c, ps, j)
    <3>1. j + 1 \in 1..d + 1 /\ c + j \in 0..N /\ c + j < N
      BY <1>5
    <3>2. CASE j = d
      <4>1. c + j = k /\ j + 1 - d = 1 /\ ~(j + 1 <= d)
        BY <3>2
      <4>2. ps[j + 1] = x
        <5>1. PICK i \in 1..d + 1 : i = j + 1 /\ ~(i <= d) /\ i - d = 1
          BY <3>1, <4>1
        <5>2. ps[i] = IF i <= d THEN words[i] ELSE last[i - d]
          BY <2>5
        <5>3. ps[i] = last[1]
          BY <5>1, <5>2
        <5> QED BY <2>3, <5>1, <5>3
      <4>3. s[ws[c + j + 1][1]] = COLON /\ x = SubSeq(s, ws[c + j + 1][1] + 1, Len(s))
        BY <1>2, <1>5, <4>1 DEF x
      <4>4. Len(ps) = j + 1
        BY <2>5, <3>2
      <4> QED BY <3>1, <4>2, <4>3, <4>4 DEF ParamIs
    <3>3. CASE j # d
      <4>1. PICK n \in 1..d : n = j + 1 /\ n <= d
        BY <3>3
      <4>2. ps[n] = Text(s, ws[c + n])
        BY <1>4, <2>5, <3>1, <4>1
      <4>3. PICK m \in c + 1..k : m = c + n /\ m = c + j + 1 /\ m \in 1..N
        BY <4>1
      <4>4. s[ws[m][1]] # COLON
        BY <1>2
      <4>5. Len(ps) # j + 1
        BY <2>5, <3>3
      <4>6. ws[m][2] # L
        <5>1. m < N /\ m \in 0..N
          BY <1>5
        <5>2. Ends(ws, m) < Begins(s, ws, m + 1)
          BY <5>1 DEF WordTable
        <5>3. Ends(ws, m) = ws[m][2]
          BY <4>3 DEF Ends
        <5>4. Begins(s, ws, m + 1) \in 1..L
          <6>1. PICK o \in 1..N : o = m + 1
            BY <5>1
          <6> QED BY <1>1, <6>1 DEF Begins
        <5> QED BY <5>2, <5>3, <5>4
      <4> QED BY <3>1, <4>1, <4>2, <4>3, <4>4, <4>5, <4>6 DEF ParamIs
    <3> QED BY <3>1, <3>2, <3>3
  <2>7. Len(ps) - 1 = d
    BY <2>5
  <2> QED BY <2>5, <2>6, <2>7
<1>6. CASE k = N
  <2>1. last = IF k = c \/ Last(s) = SP THEN << << >> >> ELSE << >>
    BY <1>2, <1>6 DEF LastOf
  <2>2. d > 0 => s \in Seq(Chars) /\ s # << >> /\ Last(s) = s[L]
    <3>1. d > 0 => N \in 1..N
      BY <1>6
    <3>2. d > 0 => L # 0
      BY <1>1, <3>1
    <3> QED BY <1>0, <3>2 DEF Last
  <2> PICK e \in 0..1 : e = IF k = c \/ Last(s) = SP THEN 1 ELSE 0
    OBVIOUS
  <2>3. /\ last \in Seq(Seq(Chars)) /\ Len(last) = e
        /\ e = 1 => last[1] = << >>
    <3>1. PICK none : none = << >>
      OBVIOUS
    <3>2. none \in Seq(Chars)
      BY <3>1, OneOrNone
    <3>3. <<none>> \in Seq(Seq(Chars)) /\ Len(<<none>>) = 1 /\ <<none>>[1] = none
      BY <3>2, OneOrNone
    <3>4. << >> \in Seq(Seq(Chars)) /\ Len(<< >>) = 0
      BY OneOrNone
    <3> HIDE DEF last
    <3>5. last = IF k = c \/ Last(s) = SP THEN <<none>> ELSE << >>
      BY <2>1, <3>1
    <3>6. CASE k = c \/ Last(s) = SP
      <4>1. last = <<none>> /\ e = 1
        BY <3>5, <3>6
      <4> QED BY <3>1, <3>3, <4>1
    <3>7. CASE ~(k = c \/ Last(s) = SP)
      <4>1. last = << >> /\ e = 0
        BY <3>5, <3>7
      <4> QED BY <3>4, <4>1
    <3> QED BY <3>6, <3>7
  <2> HIDE DEF words, last
  <2>4. ps = words \o last
    BY <1>2 DEF ParamsAfter, words, last
  <2>5. /\ ps \in Seq(Seq(Chars)) /\ Len(ps) = d + e
        /\ \A i \in 1..d + e : ps[i] = IF i <= d THEN words[i] ELSE last[i - d]
    <3>1. /\ words \o last \in Seq(Seq(Chars)) /\ Len(words \o last) = Len(words) + Len(last)
          /\ \A i \in 1..Len(words) + Len(last) :
                (words \o last)[i] = IF i <= Len(words) THEN words[i] ELSE last[i - Len(words)]
      BY <1>4, <2>3, ConcatProperties
    <3> QED BY <1>4, <2>3, <2>4, <3>1
  <2>6. ASSUME NEW j \in 0..d + e - 1 PROVE c + j \in 0..N /\ ParamIs(s, ws, c, ps, j)
    <3>1. j + 1 \in 1..d + e /\ c + j \in 0..N
      BY <1>6
    <3>2. CASE j = d
      <4>1. e = 1 /\ c + j = N /\ j + 1 - d = 1 /\ ~(j + 1 <= d)
        BY <1>6, <3>2
      <4>2. ps[j + 1] = last[j + 1 - d]
        <5>1. PICK i \in 1..d + e : i = j + 1 /\ ~(i <= d)
          BY <3>1, <4>1
        <5>2. ps[i] = IF i <= d THEN words[i] ELSE last[i - d]
          BY <2>5
        <5>3. ps[i] = last[i - d]
          BY <5>1, <5>2
        <5> QED BY <5>1, <5>3
      <4>3. last[j + 1 - d] = << >>
        BY <2>3, <4>1
      <4>4. Len(ps) = j + 1
        BY <2>5, <3>2, <4>1
      <4> QED BY <3>1, <4>1, <4>2, <4>3, <4>4 DEF ParamIs
    <3>3. CASE j # d
      <4>1. PICK n \in 1..d : n = j + 1 /\ n <= d
        BY <3>3
      <4>2. ps[n] = Text(s, ws[c + n])
        BY <1>4, <2>5, <3>1, <4>1
      <4>3. PICK m \in c + 1..k : m = c + n /\ m = c + j + 1 /\ m \in 1..N
        BY <4>1
      <4>4. s[ws[m][1]] # COLON
        BY <1>2
      <4>5. c + j < N
        BY <4>3
      <4>6. PICK b \in 1..L : b = ws[m][2] /\ s[b] # SP
        <5>1. ws[m][1] \in 1..L /\ ws[m][2] \in ws[m][1]..L
          BY <1>1, <4>3
        <5>2. PICK b \in 1..L : b = ws[m][2] /\ b \in ws[m][1]..ws[m][2]
          BY <5>1
        <5>3. s[b] # SP
          BY <1>1, <4>3, <5>2
        <5> QED BY <5>2, <5>3
      <4>7. Ends(ws, m) = b /\ b < Begins(s, ws, m + 1) /\ m \in 0..N
        <5>1. Ends(ws, m) = b /\ m \in 0..N
          BY <4>3, <4>6, SMTT(30) DEF Ends
        <5> QED BY <5>1 DEF WordTable
      <4>8. CASE m < N
        <5>1. Len(ps) # j + 1
          <6>1. d + e \in Int /\ d + e # j + 1
            <7>1. m = c + j + 1 /\ m < c + d /\ e \in Int
              BY <1>6, <4>3, <4>8
            <7> QED BY <7>1
          <6> QED BY <2>5, <6>1
        <5>2. b # L
          <6>1. PICK o \in 1..N : o = m + 1
            BY <4>8
          <6>2. Begins(s, ws, m + 1) \in 1..L
            BY <1>1, <6>1 DEF Begins
          <6> QED BY <4>7, <6>2
        <5> QED BY <3>1, <4>1, <4>2, <4>3, <4>4, <4>5, <4>6, <5>1, <5>2 DEF ParamIs
      <4>9. CASE m = N
        <5>1. d > 0 /\ d = j + 1 /\ k # c
          BY <1>6, <4>1, <4>3, <4>9
        <5>2. Len(ps) = j + 1 <=> e = 0
          BY <2>5, <5>1
        <5>3. e = 0 <=> s[L] # SP
          BY <2>2, <5>1
        <5>4. s[L] # SP <=> b = L
          <6>1. Begins(s, ws, m + 1) = L + 1
            BY <4>9 DEF Begins
          <6>2. \A i \in b + 1..L + 1 - 1 : s[i] = SP
            <7>1. \A i \in Ends(ws, m) + 1..Begins(s, ws, m + 1) - 1 : s[i] = SP
              BY <4>7 DEF WordTable
            <7> QED BY <4>7, <6>1, <7>1
          <6>3. b < L => L \in b + 1..L + 1 - 1
            BY <4>6
          <6>4. b < L => s[L] = SP
            BY <6>2, <6>3
          <6>5. b <= L
            BY <4>6
          <6> QED BY <4>6, <6>4, <6>5
        <5>5. Len(ps) = j + 1 <=> b = L
          BY <5>2, <5>3, <5>4
        <5> QED BY <3>1, <4>1, <4>2, <4>3, <4>4, <4>5, <4>6, <5>5 DEF ParamIs
      <4> QED BY <4>3, <4>8, <4>9
    <3> QED BY <3>1, <3>2, <3>3
  <2>7. Len(ps) - 1 = d + e - 1 /\ Len(ps) \in Nat \ {0}
    <3>1. d = 0 => e = 1
      OBVIOUS
    <3> QED BY <2>5, <3>1
  <2> QED BY <2>5, <2>6, <2>7
<1> QED BY <1>5, <1>6

\* Where the parser stops behind a word, and behind the rest of a line.
LEMMA WordAhead ==
  ASSUME NEW s \in Seq(BodyChars), NEW ws, WordTable(s, ws), NEW m \in 1..Len(ws)
  PROVE  \E y : /\ StopsAt(Line(s), ws[m][1], y, {SP, CR})
                /\ SubSeq(Line(s), ws[m][1], y - 1) = Text(s, ws[m])
                /\ ws[m][2] = Len(s) => y = Len(s) + 1
                /\ ws[m][2] # Len(s) => y \in 1..Len(s)
                /\ y \in Ends(ws, m) + 1..Begins(s, ws, m + 1)
<1>1. PICK N \in Nat : N = Len(ws)
  BY DEF WordTable
<1>2. PICK L \in Nat : L = Len(s)
  BY LineParts
<1>3. \A i \in 1..N : ws[i][1] \in 1..L /\ ws[i][2] \in ws[i][1]..L
  BY <1>1, <1>2 DEF WordTable
<1>4. m \in 1..N
  BY <1>1
<1>5. PICK a \in 1..L : a = ws[m][1]
  BY <1>3, <1>4
<1>6. PICK b \in 1..L : b = ws[m][2] /\ a <= b
  BY <1>3, <1>4, <1>5
<1>7. PICK y : y = b + 1
  OBVIOUS
<1>8. StopsAt(Line(s), a, y, {SP, CR})
  <2>1. a \in a..b + 1
    BY <1>6
  <2>2. a \in ws[m][1]..ws[m][2] + 1
    BY <1>5, <1>6, <2>1
  <2>3. StopsAt(Line(s), a, ws[m][2] + 1, {SP, CR})
    BY <2>2, WordStops
  <2> QED BY <1>6, <1>7, <2>3
<1>9. SubSeq(Line(s), a, y - 1) = Text(s, ws[m])
  <2>1. y - 1 = b /\ a \in 1..L + 1 /\ b \in a - 1..L
    BY <1>6, <1>7
  <2>2. SubSeq(Line(s), a, b) = SubSeq(s, a, b)
    BY <1>2, <2>1, LineParts
  <2> QED BY <1>5, <1>6, <2>1, <2>2 DEF Text
<1>10. y \in Ends(ws, m) + 1..Begins(s, ws, m + 1)
  <2>1. Ends(ws, m) = b /\ m \in 0..Len(ws)
    BY <1>1, <1>4, <1>6 DEF Ends
  <2>2. b < Begins(s, ws, m + 1)
    BY <2>1 DEF WordTable
  <2>3. Begins(s, ws, m + 1) \in Int
    <3>1. m + 1 <= N => m + 1 \in 1..N
      BY <1>4
    <3>2. m + 1 <= N => ws[m + 1][1] \in Int
      BY <1>3, <3>1
    <3> QED BY <1>1, <1>2, <3>2 DEF Begins
  <2> QED BY <1>7, <2>1, <2>2, <2>3
<1>11. (b = L => y = L + 1) /\ (b # L => y \in 1..L)
  BY <1>7
<1> QED BY <1>2, <1>5, <1>6, <1>8, <1>9, <1>10, <1>11

LEMMA RestAhead ==
  ASSUME NEW s \in Seq(BodyChars), NEW z \in 1..Len(s)
  PROVE  /\ StopsAt(Line(s), z + 1, Len(s) + 1, {CR})
         /\ SubSeq(Line(s), z + 1, Len(s) + 1 - 1) = SubSeq(s, z + 1, Len(s))
<1>1. PICK L \in Nat : L = Len(s)
  BY LineParts
<1>2. /\ Len(Line(s)) = L + 2 /\ Line(s)[L + 1] = CR /\ \A i \in 1..L : Line(s)[i] # CR
      /\ \A p \in 1..L + 1 : \A q \in p - 1..L : SubSeq(Line(s), p, q) = SubSeq(s, p, q)
  BY <1>1, LineParts
<1>3. z + 1 \in 1..L + 2 /\ L + 1 \in z + 1..L + 2
  BY <1>1
<1>4. \A i \in z + 1..L + 1 - 1 : i \in 1..L
  BY <1>1
<1>5. StopsAt(Line(s), z + 1, L + 1, {CR})
  BY <1>2, <1>3, <1>4 DEF StopsAt
<1>6. SubSeq(Line(s), z + 1, L + 1 - 1) = SubSeq(s, z + 1, L)
  <2>1. PICK q : q = L + 1 - 1
    OBVIOUS
  <2>2. q = L /\ z + 1 \in 1..L + 1 /\ L \in z + 1 - 1..L
    BY <1>1, <2>1
  <2>3. SubSeq(Line(s), z + 1, q) = SubSeq(s, z + 1, L)
    <3>1. PICK p \in 1..L + 1 : p = z + 1 /\ L \in p - 1..L
      BY <2>2
    <3>2. SubSeq(Line(s), p, L) = SubSeq(s, p, L)
      BY <1>2, <3>1
    <3> QED BY <2>2, <3>1, <3>2
  <2> QED BY <2>1, <2>3
<1> QED BY <1>1, <1>5, <1>6

\* parseParam behind j parameters takes the one the reference has there, and is
\* at the end of the line behind the last one only.
LEMMA ParamAt ==
  ASSUME NEW s \in Seq(BodyChars), NEW ws, WordTable(s, ws), NEW c \in Nat, NEW j \in Nat,
         c + j \in 0..Len(ws), NEW ps, ps \in Seq(Seq(Chars)), Len(ps) \in Nat, ParamIs(s, ws, c, ps, j),
         NEW x \in Ends(ws, c + j) + 1..Begins(s, ws, c + j + 1),
         NEW out \in Seq(Chars), NEW r, At(r, Line(s), x, out)
  PROVE  /\ ps[j + 1] \in Seq(Chars) /\ out \o ps[j + 1] \in Seq(Chars)
         /\ \E y : /\ At(parseParam(r), Line(s), y, out \o ps[j + 1])
                   /\ Len(ps) = j + 1 => y = Len(s) + 1
                   /\ Len(ps) # j + 1 => /\ y \in 1..Len(s) /\ c + (j + 1) \in 0..Len(ws)
                                         /\ y \in Ends(ws, c + (j + 1)) + 1..Begins(s, ws, c + (j + 1) + 1)
<1> PICK N \in Nat : N = Len(ws)
  BY DEF WordTable
<1> PICK L \in Nat : L = Len(s)
  BY LineParts
<1> PICK l \in Seq(Chars) : l = Line(s)
  BY LineParts
<1>0. /\ s \in Seq(Chars) /\ Len(l) = L + 2 /\ l[L + 1] = CR
      /\ \A i \in 1..L : l[i] = s[i] /\ s[i] # CR
      /\ \A p \in 1..L + 1 : \A q \in p - 1..L : SubSeq(l, p, q) = SubSeq(s, p, q)
  BY LineParts
<1> PICK n \in 0..N : n = c + j
  OBVIOUS
<1>1. PICK z \in 1..L + 1 :
        /\ z = Begins(s, ws, n + 1) /\ StopsAt(l, x, z, Chars \ {SP})
        /\ n < N => z = ws[n + 1][1]
        /\ n = N => z = L + 1
  <2>1. x \in Ends(ws, n) + 1..Begins(s, ws, n + 1) /\ n \in 0..Len(ws)
    OBVIOUS
  <2>2. /\ StopsAt(Line(s), x, Begins(s, ws, n + 1), Chars \ {SP})
        /\ Begins(s, ws, n + 1) \in 1..Len(s) + 1
        /\ n < Len(ws) => Begins(s, ws, n + 1) = ws[n + 1][1]
        /\ n = Len(ws) => Begins(s, ws, n + 1) = Len(s) + 1
    BY <2>1, GapStops
  <2> QED BY <2>2
<1> PICK sk : sk = skipSpace(r)
  OBVIOUS
<1>2. At(sk, l, z, out) /\ z \in 1..Len(l)
  <2>1. At(skipSpace(r), l, z, out)
    BY <1>1, SkipAt
  <2> QED BY <1>1, <2>1 DEF StopsAt
\* A text behind `out', when the reader takes it.
<1>3. ASSUME NEW text \in Seq(Chars), NEW y,
             Len(out) > parseBufferLenMax \/ At(parseParam(r), l, y, out \o text)
      PROVE  At(parseParam(r), l, y, out \o text) /\ out \o text \in Seq(Chars)
  <2>1. CASE Len(out) > parseBufferLenMax
    <3>1. sk.failed /\ parseParam(r) = sk
      <4>1. sk.failed
        BY <1>2, <2>1 DEF At
      <4>2. copyWord(sk) = sk
        BY <4>1, FailsOn DEF copyWord
      <4> QED BY <4>1, <4>2 DEF parseParam
    <3>2. At(parseParam(r), l, y, out \o text)
      BY <2>1, <3>1, LongerStill
    <3> QED BY <3>2, ConcatProperties
  <2>2. CASE ~(Len(out) > parseBufferLenMax)
    BY <1>3, <2>2, ConcatProperties
  <2> QED BY <2>1, <2>2
<1>4. ~(Len(out) > parseBufferLenMax) =>
        /\ sk = Rd(l, z, out) /\ ~sk.failed /\ (peekIs(sk, {COLON}) <=> l[z] = COLON)
        /\ read(sk) = Rd(l, z + 1, out)
  <2>1. SUFFICES ASSUME ~(Len(out) > parseBufferLenMax)
                 PROVE  /\ sk = Rd(l, z, out) /\ ~sk.failed /\ (peekIs(sk, {COLON}) <=> l[z] = COLON)
                        /\ read(sk) = Rd(l, z + 1, out)
    OBVIOUS
  <2>2. sk = Rd(l, z, out)
    BY <1>2, <2>1 DEF At
  <2>3. /\ Rd(l, z, out).in # << >> /\ ~Rd(l, z, out).failed
        /\ peekIs(Rd(l, z, out), {COLON}) <=> l[z] \in {COLON}
        /\ read(Rd(l, z, out)) = Rd(l, z + 1, out)
    <3>1. PICK cs : cs = {COLON}
      OBVIOUS
    <3>2. /\ Rd(l, z, out).in # << >> /\ ~Rd(l, z, out).failed
          /\ peekIs(Rd(l, z, out), cs) <=> l[z] \in cs
          /\ read(Rd(l, z, out)) = Rd(l, z + 1, out)
      <4>1. z \in 1..Len(l) /\ l \in Seq(Chars)
        BY <1>2
      <4>2. \A p \in 1..Len(l) : \A o, d :
               /\ Rd(l, p, o).in # << >> /\ ~Rd(l, p, o).failed
               /\ peekIs(Rd(l, p, o), d) <=> l[p] \in d
               /\ read(Rd(l, p, o)) = Rd(l, p + 1, o)
        BY <4>1, PeekAt
      <4> QED BY <4>1, <4>2
    <3> QED BY <3>1, <3>2
  <2> QED BY <2>2, <2>3
\* What the reader takes when there is room: from some place to the next stop.
<1>5. ASSUME NEW g \in {z, z + 1}, NEW y, NEW stop, StopsAt(l, g, y, stop),
             ~(Len(out) > parseBufferLenMax) => parseParam(r) = copyUntil(Rd(l, g, out), stop)
      PROVE  /\ At(parseParam(r), l, y, out \o SubSeq(l, g, y - 1))
             /\ SubSeq(l, g, y - 1) \in Seq(Chars) /\ out \o SubSeq(l, g, y - 1) \in Seq(Chars)
  <2>1. g \in 1..Len(l) + 1 /\ y - 1 \in g - 1..Len(l)
    BY <1>5 DEF StopsAt
  <2>2. SubSeq(l, g, y - 1) \in Seq(Chars)
    BY <2>1, PartOfLine
  <2>3. ~(Len(out) > parseBufferLenMax) => At(parseParam(r), l, y, out \o SubSeq(l, g, y - 1))
    <3>1. SUFFICES ASSUME ~(Len(out) > parseBufferLenMax)
                   PROVE  At(parseParam(r), l, y, out \o SubSeq(l, g, y - 1))
      OBVIOUS
    <3>2. At(Rd(l, g, out), l, g, out)
      BY <3>1 DEF At
    <3>3. At(copyUntil(Rd(l, g, out), stop), l, y, out \o SubSeq(l, g, y - 1))
      BY <1>5, <3>2, CopyFrom
    <3> QED BY <1>5, <3>1, <3>3
  <2> QED BY <1>3, <2>2, <2>3
<1>6. l[z] # COLON /\ ~(Len(out) > parseBufferLenMax) => parseParam(r) = copyUntil(Rd(l, z, out), {SP, CR})
  BY <1>4 DEF parseParam, copyWord
<1>7. l[z] = COLON /\ ~(Len(out) > parseBufferLenMax) => parseParam(r) = copyUntil(Rd(l, z + 1, out), {CR})
  BY <1>4 DEF parseParam, copyToCR
<1>8. CASE n = N
  <2>1. Len(ps) = j + 1 /\ ps[j + 1] = << >>
    BY <1>8 DEF ParamIs
  <2>2. z = L + 1 /\ l[z] = CR /\ l[z] # COLON
    BY <1>0, <1>1, <1>8, CharAssumption
  <2>3. StopsAt(l, z, z, {SP, CR})
    BY <1>2, <2>2 DEF StopsAt
  <2>4. /\ At(parseParam(r), l, z, out \o SubSeq(l, z, z - 1))
        /\ SubSeq(l, z, z - 1) \in Seq(Chars) /\ out \o SubSeq(l, z, z - 1) \in Seq(Chars)
    BY <1>5, <1>6, <2>2, <2>3
  <2>5. SubSeq(l, z, z - 1) = << >>
    BY SubSeqEmpty
  <2> QED BY <2>1, <2>2, <2>4, <2>5
<1>9. CASE n # N /\ l[z] = COLON
  <2>1. PICK m \in 1..N : m = n + 1 /\ m = c + j + 1
    BY <1>9
  <2>2. z = ws[m][1] /\ z \in 1..L /\ s[z] = COLON
    <3>1. ws[m][1] \in 1..L
      BY DEF WordTable
    <3> QED BY <1>0, <1>1, <1>9, <2>1, <3>1
  <2>3. Len(ps) = j + 1 /\ ps[j + 1] = SubSeq(s, z + 1, L)
    BY <1>9, <2>1, <2>2 DEF ParamIs
  <2>4. StopsAt(l, z + 1, L + 1, {CR}) /\ SubSeq(l, z + 1, L + 1 - 1) = SubSeq(s, z + 1, L)
    <3>1. z \in 1..Len(s)
      BY <2>2
    <3> QED BY <3>1, RestAhead
  <2>6. PICK y : y = L + 1
    OBVIOUS
  <2>7. PICK g \in {z, z + 1} : g = z + 1
    OBVIOUS
  <2>8. /\ At(parseParam(r), l, y, out \o SubSeq(l, g, y - 1))
        /\ SubSeq(l, g, y - 1) \in Seq(Chars) /\ out \o SubSeq(l, g, y - 1) \in Seq(Chars)
    <3>1. StopsAt(l, g, y, {CR})
      BY <2>4, <2>6, <2>7
    <3>2. ~(Len(out) > parseBufferLenMax) => parseParam(r) = copyUntil(Rd(l, g, out), {CR})
      BY <1>7, <1>9, <2>7
    <3> QED BY <1>5, <3>1, <3>2
  <2>9. ps[j + 1] = SubSeq(l, g, y - 1)
    BY <2>3, <2>4, <2>6, <2>7
  <2> QED BY <2>3, <2>6, <2>8, <2>9
<1>10. CASE n # N /\ l[z] # COLON
  <2>1. PICK m \in 1..N : m = n + 1 /\ m = c + j + 1 /\ m = c + (j + 1)
    BY <1>10
  <2>2. z = ws[m][1] /\ s[z] # COLON
    <3>1. ws[m][1] \in 1..L
      BY DEF WordTable
    <3>2. z = ws[m][1]
      BY <1>1, <1>10, <2>1
    <3> QED BY <1>0, <1>10, <3>1, <3>2
  <2>3. /\ ps[j + 1] = Text(s, ws[m])
        /\ Len(ps) = j + 1 <=> ws[m][2] = Len(s)
    BY <1>10, <2>1, <2>2 DEF ParamIs
  <2>4. PICK y : /\ StopsAt(l, z, y, {SP, CR}) /\ SubSeq(l, z, y - 1) = Text(s, ws[m])
                 /\ ws[m][2] = Len(s) => y = Len(s) + 1
                 /\ ws[m][2] # Len(s) => y \in 1..Len(s)
                 /\ y \in Ends(ws, m) + 1..Begins(s, ws, m + 1)
    <3>1. m \in 1..Len(ws)
      OBVIOUS
    <3> QED BY <2>2, <3>1, WordAhead
  <2>5. /\ At(parseParam(r), l, y, out \o SubSeq(l, z, y - 1))
        /\ SubSeq(l, z, y - 1) \in Seq(Chars) /\ out \o SubSeq(l, z, y - 1) \in Seq(Chars)
    BY <1>5, <1>6, <1>10, <2>4
  <2>6. c + (j + 1) = m /\ m \in 0..Len(ws)
    BY <2>1
  <2> QED BY <2>3, <2>4, <2>5, <2>6
<1> QED BY <1>8, <1>9, <1>10

\* The text behind a text that was written before.
LEMMA WrittenIs ==
  ASSUME NEW l, NEW p, NEW q, NEW a \in Seq(Chars), NEW b \in Seq(Chars)
  PROVE  Written(Rd(l, p, a), Rd(l, q, a \o b)) = b
<1>1. /\ a \o b \in Seq(Chars) /\ Len(a \o b) = Len(a) + Len(b)
      /\ \A i \in 1..Len(a) + Len(b) : (a \o b)[i] = IF i <= Len(a) THEN a[i] ELSE b[i - Len(a)]
  BY ConcatProperties
<1> PICK n \in Nat, m \in Nat : n = Len(a) /\ m = Len(b)
  OBVIOUS
<1> PICK t \in Seq(Chars) : t = a \o b
  BY <1>1
<1>2. Len(t) = n + m /\ \A i \in 1..m : t[n + i] = b[i]
  <2>1. ASSUME NEW i \in 1..m PROVE t[n + i] = b[i]
    <3>1. n + i \in 1..n + m /\ ~(n + i <= n) /\ n + i - n = i
      OBVIOUS
    <3> QED BY <1>1, <3>1
  <2> QED BY <1>1, <2>1
<1>3. /\ SubSeq(t, n + 1, n + m) \in Seq(Chars) /\ Len(SubSeq(t, n + 1, n + m)) = n + m - (n + 1) + 1
      /\ \A i \in 1..n + m - (n + 1) + 1 : SubSeq(t, n + 1, n + m)[i] = t[n + 1 + i - 1]
  <2>1. n + 1 \in 1..Len(t) + 1 /\ n + m \in n + 1 - 1..Len(t)
    BY <1>2
  <2> QED BY <2>1, PartOfLine
<1>4. Len(SubSeq(t, n + 1, n + m)) = m
  BY <1>3
<1>5. ASSUME NEW i \in 1..m PROVE SubSeq(t, n + 1, n + m)[i] = b[i]
  <2>1. i \in 1..n + m - (n + 1) + 1 /\ n + 1 + i - 1 = n + i
    OBVIOUS
  <2> QED BY <1>2, <1>3, <2>1
<1>6. SubSeq(t, n + 1, n + m) = b
  BY <1>3, <1>4, <1>5, SeqEqual
<1>7. Written(Rd(l, p, a), Rd(l, q, a \o b)) = SubSeq(t, n + 1, n + m)
  BY <1>2 DEF Written, Rd
<1> QED BY <1>6, <1>7

\* What is written when the parser has the first j parameters behind `head'.
Writes(tot, head, ps) ==
    /\ tot[0] = head
    /\ \A j \in 0..Len(ps) - 1 : tot[j + 1] = tot[j] \o ps[j + 1]

LEMMA WritesMore ==
  ASSUME NEW head \in Seq(Chars), NEW ps \in Seq(Seq(Chars)), NEW tot, Writes(tot, head, ps)
  PROVE  /\ \A j \in 0..Len(ps) : tot[j] \in Seq(Chars)
         /\ \A j \in 0..Len(ps) : Len(tot[j]) <= Len(tot[Len(ps)])
<1> PICK M \in Nat : M = Len(ps)
  OBVIOUS
<1>1. \A j \in 0..M - 1 : ps[j + 1] \in Seq(Chars)
  <2>1. \A i \in 1..M : ps[i] \in Seq(Chars)
    OBVIOUS
  <2> QED BY <2>1
<1> DEFINE T == {j \in Nat : j <= M => tot[j] \in Seq(Chars)}
<1>2. T = Nat
  <2>1. 0 \in T
    BY DEF Writes
  <2>2. ASSUME NEW j \in T PROVE j + 1 \in T
    <3>1. SUFFICES ASSUME j + 1 <= M PROVE tot[j + 1] \in Seq(Chars)
      OBVIOUS
    <3>2. j \in 0..M - 1 /\ tot[j] \in Seq(Chars)
      BY <3>1
    <3>3. tot[j + 1] = tot[j] \o ps[j + 1]
      BY <3>2 DEF Writes
    <3> QED BY <1>1, <3>2, <3>3, ConcatProperties
  <2> HIDE DEF T
  <2>3. T \in SUBSET Nat
    BY DEF T
  <2> QED BY <2>1, <2>2, <2>3, SetInduction
<1>3. \A j \in 0..M : tot[j] \in Seq(Chars)
  BY <1>2
<1> DEFINE U == {n \in Nat : n <= M => Len(tot[M - n]) <= Len(tot[M])}
<1>4. U = Nat
  <2>1. 0 \in U
    <3>1. M - 0 = M /\ Len(tot[M]) \in Nat
      BY <1>3
    <3> QED BY <3>1
  <2>2. ASSUME NEW n \in U PROVE n + 1 \in U
    <3>1. SUFFICES ASSUME n + 1 <= M PROVE Len(tot[M - (n + 1)]) <= Len(tot[M])
      OBVIOUS
    <3>2. PICK j : j = M - (n + 1)
      OBVIOUS
    <3>0. j \in 0..M - 1 /\ j + 1 = M - n
      BY <3>1, <3>2
    <3>3. Len(tot[j + 1]) <= Len(tot[M])
      <4>1. Len(tot[M - n]) <= Len(tot[M])
        BY <3>1
      <4> QED BY <3>0, <4>1
    <3>4. tot[j + 1] = tot[j] \o ps[j + 1]
      BY <3>0 DEF Writes
    <3>5. Len(tot[j + 1]) = Len(tot[j]) + Len(ps[j + 1])
      <4>1. PICK a \in Seq(Chars), b \in Seq(Chars) : a = tot[j] /\ b = ps[j + 1]
        <5>1. j \in 0..M /\ j \in 0..M - 1
          BY <3>0
        <5> QED BY <1>1, <1>3, <5>1
      <4>2. Len(a \o b) = Len(a) + Len(b)
        BY ConcatProperties
      <4> QED BY <3>4, <4>1, <4>2
    <3>6. Len(tot[j]) \in Nat /\ Len(ps[j + 1]) \in Nat /\ Len(tot[M]) \in Nat
      BY <1>1, <1>3, <3>0, SMTT(30)
    <3>7. Len(tot[j]) <= Len(tot[M])
      <4>1. \A a, b, d : a \in Nat /\ b \in Nat /\ d \in Nat /\ a + b <= d => a <= d
        OBVIOUS
      <4>2. Len(tot[j]) + Len(ps[j + 1]) <= Len(tot[M])
        BY <3>3, <3>5, Zenon
      <4> QED BY <3>6, <4>1, <4>2
    <3> QED BY <3>2, <3>7
  <2> HIDE DEF U
  <2>3. U \in SUBSET Nat
    BY DEF U
  <2> QED BY <2>1, <2>2, <2>3, SetInduction
<1>5. ASSUME NEW j \in 0..M PROVE Len(tot[j]) <= Len(tot[M])
  <2>0. PICK n : n = M - j
    OBVIOUS
  <2>1. n \in Nat /\ n <= M /\ M - n = j
    BY <2>0
  <2>2. n \in U
    <3> HIDE DEF U
    <3> QED BY <1>4, <2>1
  <2> QED BY <2>1, <2>2
<1> QED BY <1>3, <1>5

LEMMA TextsJoin ==
  ASSUME NEW a \in Seq(Chars), NEW b \in Seq(Chars), NEW t \in Seq(Chars)
  PROVE  (a \o b) \o t = a \o (b \o t)
BY ConcatAssociative

\* There is such a table, and its end is all the text.
LEMMA AllWritten ==
  ASSUME NEW head \in Seq(Chars), NEW ps \in Seq(Seq(Chars)), Len(ps) # 0
  PROVE  \E tot : Writes(tot, head, ps) /\ tot[Len(ps)] = head \o FlattenSeq(ps)
<1> PICK M \in Nat \ {0} : M = Len(ps)
  OBVIOUS
<1>1. PICK flat : /\ flat = [i \in 1..M |-> IF i = 1 THEN ps[i] ELSE flat[i - 1] \o ps[i]]
                  /\ FlattenSeq(ps) = flat[M]
  BY Flattened
<1>2. \A i \in 1..M : ps[i] \in Seq(Chars)
  OBVIOUS
<1>3. \A i \in 1..M : flat[i] = IF i = 1 THEN ps[i] ELSE flat[i - 1] \o ps[i]
  BY <1>1
<1> DEFINE T == {n \in Nat : n + 1 <= M => flat[n + 1] \in Seq(Chars)}
<1>4. T = Nat
  <2>1. 0 \in T
    BY <1>2, <1>3
  <2>2. ASSUME NEW n \in T PROVE n + 1 \in T
    <3>1. SUFFICES ASSUME n + 1 + 1 <= M PROVE flat[n + 1 + 1] \in Seq(Chars)
      OBVIOUS
    <3>2. PICK i \in 1..M : i = n + 1 + 1 /\ i # 1 /\ i - 1 = n + 1 /\ n + 1 <= M
      BY <3>1
    <3>3. flat[i] = flat[i - 1] \o ps[i] /\ flat[i - 1] \in Seq(Chars)
      BY <1>3, <3>2
    <3>4. flat[i] \in Seq(Chars)
      BY <1>2, <3>3, ConcatProperties
    <3> QED BY <3>2, <3>4
  <2> HIDE DEF T
  <2>3. T \in SUBSET Nat
    BY DEF T
  <2> QED BY <2>1, <2>2, <2>3, SetInduction
<1>5. ASSUME NEW i \in 1..M PROVE flat[i] \in Seq(Chars)
  <2>1. PICK n \in Nat : n = i - 1 /\ n + 1 = i /\ n + 1 <= M
    OBVIOUS
  <2>2. n \in T
    BY <1>4
  <2> QED BY <2>1, <2>2
<1> DEFINE tot == [j \in 0..M |-> IF j = 0 THEN head ELSE head \o flat[j]]
<1>6. ASSUME NEW j \in 0..M - 1 PROVE tot[j + 1] = tot[j] \o ps[j + 1]
  <2>1. PICK i \in 1..M : i = j + 1 /\ i - 1 = j
    OBVIOUS
  <2>2. tot[i] = head \o flat[i]
    <3>1. i \in 0..M /\ i # 0
      BY <2>1
    <3> QED BY <3>1
  <2>3. CASE j = 0
    <3>1. flat[i] = ps[i] /\ tot[j] = head
      BY <1>3, <2>1, <2>3
    <3> HIDE DEF tot
    <3> QED BY <2>1, <2>2, <3>1
  <2>4. CASE j # 0
    <3>1. flat[i] = flat[j] \o ps[i] /\ tot[j] = head \o flat[j] /\ flat[j] \in Seq(Chars)
      <4>1. j \in 1..M /\ j \in 0..M /\ i # 1
        BY <2>1, <2>4
      <4>2. tot[j] = head \o flat[j]
        BY <2>4, <4>1
      <4>3. flat[i] = flat[i - 1] \o ps[i]
        BY <1>3, <4>1
      <4> HIDE DEF tot
      <4> QED BY <1>5, <2>1, <4>1, <4>2, <4>3
    <3>2. head \o (flat[j] \o ps[i]) = (head \o flat[j]) \o ps[i]
      <4>1. PICK a \in Seq(Chars), b \in Seq(Chars) : a = flat[j] /\ b = ps[i]
        BY <1>2, <3>1
      <4>2. (head \o a) \o b = head \o (a \o b)
        BY TextsJoin
      <4> QED BY <4>1, <4>2
    <3> HIDE DEF tot
    <3> QED BY <2>1, <2>2, <3>1, <3>2
  <2> QED BY <2>3, <2>4
<1>7. tot[0] = head /\ tot[M] = head \o FlattenSeq(ps)
  <2>1. 0 \in 0..M /\ M \in 0..M /\ M # 0
    OBVIOUS
  <2>2. tot[0] = head /\ tot[M] = head \o flat[M]
    BY <2>1
  <2> HIDE DEF tot
  <2> QED BY <1>1, <2>2
<1> HIDE DEF tot
<1>8. Writes(tot, head, ps)
  BY <1>6, <1>7 DEF Writes
<1> QED BY <1>7, <1>8

\* The loop of parseParams before turn n + 1: it has failed on a line that is
\* refused, or has the first j parameters, all of them or one for each turn.
Refused(ps, tot) == Len(ps) >= paramsListMax \/ Len(tot[Len(ps)]) > parseBufferLenMax
HasParams(p, j, y, s, ws, c, ps, tot) ==
    /\ p.r = Rd(Line(s), y, tot[j]) /\ p.params = SubSeq(ps, 1, j)
    /\ p.more <=> j # Len(ps)
    /\ Len(tot[j]) <= parseBufferLenMax /\ (j = 0 \/ j < paramsListMax)
    /\ j = Len(ps) => y = Len(s) + 1
    /\ j # Len(ps) => c + j \in 0..Len(ws) /\ y \in Ends(ws, c + j) + 1..Begins(s, ws, c + j + 1)
TurnIs(p, n, s, ws, c, ps, tot) ==
    \/ p.r.failed /\ Refused(ps, tot)
    \/ \E j \in 0..Len(ps) : j \in {n, Len(ps)} /\ \E y : HasParams(p, j, y, s, ws, c, ps, tot)

LEMMA OneMore ==
  ASSUME NEW ps \in Seq(Seq(Chars)), NEW j \in 0..Len(ps) - 1
  PROVE  /\ Append(SubSeq(ps, 1, j), ps[j + 1]) = SubSeq(ps, 1, j + 1)
         /\ Len(SubSeq(ps, 1, j)) = j
<1>1. j + 1 \in 1..Len(ps) /\ j \in 0..Len(ps)
  OBVIOUS
<1>2. Len(SubSeq(ps, 1, j)) = j
  BY <1>1
<1>3. SubSeq(ps, 1, j + 1) = Append(SubSeq(ps, 1, j), ps[j + 1])
  <2>1. PICK k \in 1..Len(ps) : k = j + 1 /\ k - 1 = j
    BY <1>1
  <2>2. SubSeq(ps, 1, k) = Append(SubSeq(ps, 1, k - 1), ps[k])
    BY SubSeqRecursiveSecond
  <2> QED BY <2>1, <2>2
<1> QED BY <1>2, <1>3

LEMMA TurnOn ==
  ASSUME NEW s \in Seq(BodyChars), NEW ws, WordTable(s, ws), NEW c \in 0..Len(ws),
         NEW ps, ps = ParamsAfter(s, ws, c), NEW head \in Seq(Chars), NEW tot, Writes(tot, head, ps),
         NEW n \in Nat, NEW p, TurnIs(p, n, s, ws, c, ps, tot)
  PROVE  TurnIs(paramStep(p), n + 1, s, ws, c, ps, tot)
<1>0. /\ ps \in Seq(Seq(Chars)) /\ Len(ps) \in Nat \ {0}
      /\ \A j \in 0..Len(ps) - 1 : c + j \in 0..Len(ws) /\ ParamIs(s, ws, c, ps, j)
  BY ReferenceParams
<1> PICK M \in Nat \ {0} : M = Len(ps)
  BY <1>0
<1> PICK L \in Nat : L = Len(s)
  BY LineParts
<1>1. /\ \A j \in 0..M : tot[j] \in Seq(Chars)
      /\ \A j \in 0..M : Len(tot[j]) <= Len(tot[M])
  BY <1>0, WritesMore
<1>2. CASE p.r.failed /\ Refused(ps, tot)
  <2>1. paramStep(p) = p
    BY <1>2 DEF paramStep
  <2> QED BY <1>2, <2>1 DEF TurnIs
<1>3. CASE \E j \in 0..M : j \in {n, M} /\ \E y : HasParams(p, j, y, s, ws, c, ps, tot)
  <2>1. PICK j \in 0..M : j \in {n, M} /\ \E y : HasParams(p, j, y, s, ws, c, ps, tot)
    BY <1>3
  <2>2. PICK x : HasParams(p, j, x, s, ws, c, ps, tot)
    BY <2>1
  <2>3. ~p.r.failed
    BY <2>2 DEF HasParams, Rd
  <2>4. CASE j = M
    <3>1. paramStep(p) = p
      BY <2>2, <2>4 DEF paramStep, HasParams
    <3> QED BY <2>2, <2>4, <3>1 DEF TurnIs
  <2>5. CASE j # M
    <3>1. /\ j = n /\ j \in 0..M - 1 /\ c + j \in 0..Len(ws) /\ ParamIs(s, ws, c, ps, j)
      BY <1>0, <2>1, <2>5
    <3>2. /\ p.more /\ p.r = Rd(Line(s), x, tot[j]) /\ p.params = SubSeq(ps, 1, j)
          /\ x \in Ends(ws, c + j) + 1..Begins(s, ws, c + j + 1)
          /\ Len(tot[j]) <= parseBufferLenMax
      BY <2>2, <2>5 DEF HasParams
    <3>3. Len(p.params) = j
      BY <1>0, <3>1, <3>2, OneMore
    <3>4. CASE ~hasParamRoom(j + 1)
      <4>1. paramStep(p) = [p EXCEPT !.r = Fail(p.r)]
        BY <2>3, <3>2, <3>3, <3>4 DEF paramStep
      <4>2. Fail(p.r).failed
        BY <3>2 DEF Fail, Rd
      <4>3. paramStep(p).r.failed
        BY <4>1, <4>2
      <4>4. M >= paramsListMax
        BY <3>1, <3>4, SizeAssumption DEF hasParamRoom
      <4> QED BY <4>3, <4>4 DEF TurnIs, Refused
    <3>5. CASE hasParamRoom(j + 1)
      <4>1. PICK r : r = parseParam(p.r)
        OBVIOUS
      <4>2. paramStep(p) = [r |-> r, params |-> Append(p.params, Written(p.r, r)), more |-> ~peekIs(r, {CR})]
        BY <2>3, <3>2, <3>3, <3>5, <4>1 DEF paramStep
      <4>3. tot[j + 1] = tot[j] \o ps[j + 1] /\ tot[j] \in Seq(Chars) /\ tot[j + 1] \in Seq(Chars)
        <5>1. j + 1 \in 0..M /\ j \in 0..Len(ps) - 1
          BY <3>1
        <5> QED BY <1>1, <5>1 DEF Writes
      <4>4. At(p.r, Line(s), x, tot[j])
        <5>1. Len(tot[j]) \in Nat /\ parseBufferLenMax \in Nat
          BY <4>3, SizeAssumption
        <5> QED BY <3>2, <5>1 DEF At
      <4>5. /\ ps[j + 1] \in Seq(Chars)
            /\ \E y : /\ At(parseParam(p.r), Line(s), y, tot[j] \o ps[j + 1])
                      /\ Len(ps) = j + 1 => y = Len(s) + 1
                      /\ Len(ps) # j + 1 => /\ y \in 1..Len(s) /\ c + (j + 1) \in 0..Len(ws)
                                            /\ y \in Ends(ws, c + (j + 1)) + 1..Begins(s, ws, c + (j + 1) + 1)
        <5>1. c \in Nat /\ j \in Nat /\ Len(ps) \in Nat
          BY <1>0
        <5>2. PICK pr, out : pr = p.r /\ out = tot[j]
          OBVIOUS
        <5>3. out \in Seq(Chars) /\ At(pr, Line(s), x, out)
          BY <4>3, <4>4, <5>2
        <5>4. /\ ps[j + 1] \in Seq(Chars)
              /\ \E y : /\ At(parseParam(pr), Line(s), y, out \o ps[j + 1])
                        /\ Len(ps) = j + 1 => y = Len(s) + 1
                        /\ Len(ps) # j + 1 => /\ y \in 1..Len(s) /\ c + (j + 1) \in 0..Len(ws)
                                              /\ y \in Ends(ws, c + (j + 1)) + 1..Begins(s, ws, c + (j + 1) + 1)
          BY <1>0, <3>1, <3>2, <5>1, <5>3, ParamAt
        <5> QED BY <5>2, <5>4
      <4>6. PICK y : /\ At(r, Line(s), y, tot[j + 1])
                     /\ M = j + 1 => y = L + 1
                     /\ M # j + 1 => /\ y \in 1..L /\ c + (j + 1) \in 0..Len(ws)
                                     /\ y \in Ends(ws, c + (j + 1)) + 1..Begins(s, ws, c + (j + 1) + 1)
        BY <4>1, <4>3, <4>5
      <4> PICK k \in 0..M : k = j + 1 /\ k = n + 1
        BY <3>1
      <4>7. CASE Len(tot[k]) > parseBufferLenMax
        <5>1. paramStep(p).r.failed
          BY <4>2, <4>6, <4>7 DEF At
        <5>2. Len(tot[M]) > parseBufferLenMax
          <6>1. Len(tot[k]) \in Nat /\ Len(tot[M]) \in Nat /\ Len(tot[k]) <= Len(tot[M]) /\ parseBufferLenMax \in Nat
            BY <1>1, SizeAssumption
          <6> QED BY <4>7, <6>1
        <5> QED BY <5>1, <5>2 DEF TurnIs, Refused
      <4>8. CASE ~(Len(tot[k]) > parseBufferLenMax)
        <5>1. r = Rd(Line(s), y, tot[k])
          BY <4>6, <4>8 DEF At
        <5>2. Written(p.r, r) = ps[k]
          <6>1. PICK a \in Seq(Chars), b \in Seq(Chars) : a = tot[j] /\ b = ps[k]
            BY <4>3, <4>5
          <6>2. Written(Rd(Line(s), x, a), Rd(Line(s), y, a \o b)) = b
            BY WrittenIs
          <6>3. p.r = Rd(Line(s), x, a) /\ r = Rd(Line(s), y, a \o b)
            BY <3>2, <4>3, <5>1, <6>1
          <6> QED BY <6>1, <6>2, <6>3
        <5>3. paramStep(p).params = SubSeq(ps, 1, k)
          BY <1>0, <3>1, <3>2, <4>2, <5>2, OneMore, SMTT(30)
        <5>4. peekIs(r, {CR}) <=> k = M
          <6>1. /\ Line(s) \in Seq(Chars) /\ Len(Line(s)) = L + 2 /\ Line(s)[L + 1] = CR
                /\ \A i \in 1..L : Line(s)[i] # CR
            BY LineParts
          <6>2. y \in 1..Len(Line(s))
            <7>1. L + 1 \in 1..L + 2 /\ \A i \in 1..L : i \in 1..L + 2
              OBVIOUS
            <7> QED BY <4>6, <6>1, <7>1
          <6>3. PICK cs : cs = {CR}
            OBVIOUS
          <6>4. peekIs(Rd(Line(s), y, tot[k]), cs) <=> Line(s)[y] \in cs
            BY <6>1, <6>2, PeekAt
          <6>5. Line(s)[y] \in {CR} <=> k = M
            BY <4>6, <6>1
          <6> QED BY <5>1, <6>3, <6>4, <6>5
        <5>5. Len(tot[k]) <= parseBufferLenMax
          <6>1. Len(tot[k]) \in Nat /\ parseBufferLenMax \in Nat
            BY <1>1, SizeAssumption
          <6> QED BY <4>8, <6>1
        <5>6. paramStep(p).r = Rd(Line(s), y, tot[k]) /\ (paramStep(p).more <=> k # M)
          <6>1. paramStep(p).r = r /\ paramStep(p).more = ~peekIs(r, {CR})
            BY <4>2
          <6> QED BY <5>1, <5>4, <6>1
        <5>7. k < paramsListMax
          BY <3>5 DEF hasParamRoom
        <5>8. HasParams(paramStep(p), k, y, s, ws, c, ps, tot)
          BY <4>6, <5>3, <5>5, <5>6, <5>7 DEF HasParams
        <5> QED BY <5>8 DEF TurnIs
      <4> QED BY <4>7, <4>8
    <3> QED BY <3>4, <3>5
  <2> QED BY <2>4, <2>5
<1> QED BY <1>2, <1>3 DEF TurnIs

\* The parameters of a line that is not refused are those of the reference.
ParamsDone(p, s, ps, tot) ==
    IF Refused(ps, tot) THEN p.r.failed
    ELSE p.r = Rd(Line(s), Len(s) + 1, tot[Len(ps)]) /\ p.params = ps

LEMMA ParamsParsed ==
  ASSUME NEW s \in Seq(BodyChars), NEW ws, WordTable(s, ws), NEW c \in 0..Len(ws),
         NEW ps, ps = ParamsAfter(s, ws, c), NEW head \in Seq(Chars), NEW tot, Writes(tot, head, ps),
         NEW x \in Ends(ws, c) + 1..Begins(s, ws, c + 1), NEW r, At(r, Line(s), x, head),
         NEW p, p = parseParams(r)
  PROVE  ParamsDone(p, s, ps, tot)
<1>0. ps \in Seq(Seq(Chars)) /\ Len(ps) \in Nat \ {0}
  BY ReferenceParams
<1> PICK M \in Nat \ {0} : M = Len(ps)
  BY <1>0
<1>1. /\ \A j \in 0..M : tot[j] \in Seq(Chars)
      /\ \A j \in 0..M : Len(tot[j]) <= Len(tot[M])
  BY <1>0, WritesMore
<1>2. PICK len \in Nat : len = paramsListMax + 1
  BY SizeAssumption
<1>3. PICK turn : TurnStates(turn, r, len) /\ p = turn[len]
  BY <1>2, ParamTurns
<1> DEFINE T == {n \in Nat : n <= len => TurnIs(turn[n], n, s, ws, c, ps, tot)}
<1>4. 0 \in T
  <2>1. turn[0] = FirstTurn(r)
    BY <1>2, <1>3 DEF TurnStates
  <2>2. FirstTurn(r).r = r /\ FirstTurn(r).params = << >> /\ FirstTurn(r).more
    BY DEF FirstTurn
  <2>3. tot[0] = head /\ 0 \in 0..M
    BY DEF Writes
  <2>4. CASE Len(head) > parseBufferLenMax
    <3>1. turn[0].r.failed
      BY <2>1, <2>2, <2>4 DEF At
    <3>2. Len(tot[M]) > parseBufferLenMax
      <4>1. Len(tot[0]) <= Len(tot[M]) /\ Len(tot[0]) \in Nat /\ Len(tot[M]) \in Nat /\ parseBufferLenMax \in Nat
        BY <1>1, <2>3, SizeAssumption
      <4> QED BY <2>3, <2>4, <4>1
    <3>3. TurnIs(turn[0], 0, s, ws, c, ps, tot)
      BY <3>1, <3>2 DEF TurnIs, Refused
    <3> QED BY <3>3
  <2>5. CASE ~(Len(head) > parseBufferLenMax)
    <3>1. r = Rd(Line(s), x, head)
      BY <2>5 DEF At
    <3>2. SubSeq(ps, 1, 0) = << >>
      BY SubSeqEmpty
    <3>3. Len(tot[0]) <= parseBufferLenMax
      BY <2>3, <2>5, SizeAssumption
    <3>4. 0 # Len(ps) /\ c + 0 = c /\ c \in 0..Len(ws)
      BY <1>0
    <3>5. HasParams(turn[0], 0, x, s, ws, c, ps, tot)
      BY <2>1, <2>2, <2>3, <3>1, <3>2, <3>3, <3>4 DEF HasParams
    <3>6. TurnIs(turn[0], 0, s, ws, c, ps, tot)
      BY <2>3, <3>5 DEF TurnIs
    <3> QED BY <3>6
  <2> QED BY <2>4, <2>5
<1>5. ASSUME NEW n \in T PROVE n + 1 \in T
  <2>1. SUFFICES ASSUME n + 1 <= len PROVE TurnIs(turn[n + 1], n + 1, s, ws, c, ps, tot)
    OBVIOUS
  <2>2. PICK m \in 0..len : m = n + 1 /\ m # 0 /\ m - 1 = n
    BY <1>2, <2>1
  <2>3. turn[m] = paramStep(turn[m - 1])
    BY <1>3, <2>2 DEF TurnStates
  <2>4. PICK q : q = turn[n] /\ TurnIs(q, n, s, ws, c, ps, tot)
    BY <1>2, <2>1
  <2>5. TurnIs(paramStep(q), n + 1, s, ws, c, ps, tot)
    BY <2>4, TurnOn
  <2> QED BY <2>2, <2>3, <2>4, <2>5
<1>6. TurnIs(p, len, s, ws, c, ps, tot)
  <2>1. T = Nat
    <3> HIDE DEF T
    <3>1. T \in SUBSET Nat
      BY DEF T
    <3> QED BY <1>4, <1>5, <3>1, SetInduction
  <2>2. len \in T
    <3> HIDE DEF T
    <3> QED BY <1>2, <2>1
  <2> QED BY <1>2, <1>3, <2>2
<1>7. CASE p.r.failed /\ Refused(ps, tot)
  BY <1>7 DEF ParamsDone
<1>8. CASE \E j \in 0..M : j \in {len, M} /\ \E y : HasParams(p, j, y, s, ws, c, ps, tot)
  <2>1. PICK j \in 0..M : j \in {len, M} /\ \E y : HasParams(p, j, y, s, ws, c, ps, tot)
    BY <1>8
  <2>2. PICK y : HasParams(p, j, y, s, ws, c, ps, tot)
    BY <2>1
  <2>3. j = M /\ M < paramsListMax
    <3>1. j = 0 \/ j < paramsListMax
      BY <2>2 DEF HasParams
    <3>2. paramsListMax \in Nat
      BY SizeAssumption
    <3> QED BY <1>2, <2>1, <3>1, <3>2
  <2>4. /\ p.r = Rd(Line(s), Len(s) + 1, tot[M]) /\ p.params = SubSeq(ps, 1, M)
        /\ Len(tot[M]) <= parseBufferLenMax
    BY <2>2, <2>3 DEF HasParams
  <2>5. SubSeq(ps, 1, M) = ps
    BY <1>0, SubSeqFull
  <2>6. ~Refused(ps, tot)
    <3>1. Len(tot[M]) \in Nat /\ parseBufferLenMax \in Nat /\ paramsListMax \in Nat
      BY <1>1, SizeAssumption
    <3> QED BY <2>3, <2>4, <3>1 DEF Refused
  <2> QED BY <2>4, <2>5, <2>6 DEF ParamsDone
<1> QED BY <1>6, <1>7, <1>8 DEF TurnIs

\* The reference by its parts.
LEMMA ReferenceIs ==
  ASSUME NEW s
  PROVE  LET ws == Words(s)
             m == [ok |-> TRUE, tags |-> TagsOf(s, ws), prefix |-> PrefixOf(s, ws),
                   cmd |-> CmdOf(s, ws), params |-> ParamsAfter(s, ws, CmdAt(s, ws))]
             all == m.tags \o m.prefix \o m.cmd \o FlattenSeq(m.params)
         IN  Reference(s) = IF Len(m.params) < paramsListMax /\ Len(all) <= parseBufferLenMax THEN m ELSE NotParsed
BY DEF Reference, Lead, Marked, TagsAt, PrefixAt, CmdAt, Unmark, TagsOf, PrefixOf, CmdOf,
       LongAfter, WordsEnd, LastOf, ParamsAfter

\* doParse on a line that ends in CR LF.
LEMMA ParsedAsReference ==
  ASSUME NEW s \in Seq(BodyChars)
  PROVE  doParse(Line(s)) = Reference(s)
<1> PICK ws : ws = Words(s)
  OBVIOUS
<1>1. WordTable(s, ws) /\ s \in Seq(Chars)
  BY LineParts, WordsListed
<1> PICK l \in Seq(Chars) : l = Line(s)
  BY LineParts
<1>2. PICK r0, r1, r2, r3 : /\ r0 = Reader(l) /\ r1 = parseWordIf(r0, AT)
                            /\ r2 = parseWordIf(r1, COLON) /\ r3 = copyWord(r2)
  OBVIOUS
<1>3. PICK p, r4 : p = parseParams(r3) /\ r4 = parseCRLF(p.r)
  OBVIOUS
<1>4. PICK t, f, m, c : t = TagsOf(s, ws) /\ f = PrefixOf(s, ws) /\ m = CmdOf(s, ws) /\ c = CmdAt(s, ws)
  OBVIOUS
<1>5. PICK ps : ps = ParamsAfter(s, ws, c)
  OBVIOUS
<1>6. PICK p1, p2, p3 :
        /\ At(r1, l, p1, t) /\ At(r2, l, p2, t \o f) /\ At(r3, l, p3, t \o f \o m)
        /\ c \in 0..Len(ws) /\ p3 \in Ends(ws, c) + 1..Begins(s, ws, c + 1)
        /\ t \in Seq(Chars) /\ f \in Seq(Chars) /\ m \in Seq(Chars)
  <2>1. /\ r0 = Reader(Line(s)) /\ r1 = parseWordIf(r0, AT)
        /\ r2 = parseWordIf(r1, COLON) /\ r3 = copyWord(r2)
    BY <1>2
  <2>2. \E p1, p2, p3 :
            /\ At(r1, Line(s), p1, TagsOf(s, ws))
            /\ At(r2, Line(s), p2, TagsOf(s, ws) \o PrefixOf(s, ws))
            /\ At(r3, Line(s), p3, TagsOf(s, ws) \o PrefixOf(s, ws) \o CmdOf(s, ws))
            /\ CmdAt(s, ws) \in 0..Len(ws)
            /\ p3 \in Ends(ws, CmdAt(s, ws)) + 1..Begins(s, ws, CmdAt(s, ws) + 1)
            /\ TagsOf(s, ws) \in Seq(Chars) /\ PrefixOf(s, ws) \in Seq(Chars) /\ CmdOf(s, ws) \in Seq(Chars)
    BY <1>1, <2>1, HeadParsed
  <2> QED BY <1>4, <2>2
<1>7. t \o f \in Seq(Chars) /\ t \o f \o m \in Seq(Chars)
  BY <1>6, ConcatProperties
<1>8. ps \in Seq(Seq(Chars)) /\ Len(ps) \in Nat \ {0}
  BY <1>1, <1>5, <1>6, ReferenceParams
<1> PICK head \in Seq(Chars) : head = t \o f \o m
  BY <1>7
<1>9. PICK tot : Writes(tot, head, ps) /\ tot[Len(ps)] = head \o FlattenSeq(ps)
  BY <1>8, AllWritten
<1>10. PICK all : all = tot[Len(ps)]
  OBVIOUS
<1>a. all \in Seq(Chars)
  <2>1. Len(ps) \in 0..Len(ps)
    BY <1>8
  <2>2. \A j \in 0..Len(ps) : tot[j] \in Seq(Chars)
    BY <1>8, <1>9, WritesMore
  <2> QED BY <1>10, <2>1, <2>2
<1>11. Refused(ps, tot) <=> ~(Len(ps) < paramsListMax /\ Len(all) <= parseBufferLenMax)
  <2>2. Len(all) \in Nat /\ Len(ps) \in Nat /\ paramsListMax \in Nat /\ parseBufferLenMax \in Nat
    BY <1>8, <1>a, SizeAssumption
  <2> QED BY <1>10, <2>2 DEF Refused
<1>12. Reference(s) =
         IF ~Refused(ps, tot)
         THEN [ok |-> TRUE, tags |-> t, prefix |-> f, cmd |-> m, params |-> ps] ELSE NotParsed
  <2>1. Reference(s) =
          IF Len(ps) < paramsListMax /\ Len(t \o f \o m \o FlattenSeq(ps)) <= parseBufferLenMax
          THEN [ok |-> TRUE, tags |-> t, prefix |-> f, cmd |-> m, params |-> ps] ELSE NotParsed
    BY <1>4, <1>5, ReferenceIs
  <2>2. t \o f \o m \o FlattenSeq(ps) = all
    BY <1>9, <1>10
  <2> QED BY <1>11, <2>1, <2>2
<1>13. IF Refused(ps, tot) THEN p.r.failed
       ELSE p.r = Rd(l, Len(s) + 1, all) /\ p.params = ps
  <2>1. At(r3, Line(s), p3, head)
    BY <1>6
  <2>2. ParamsDone(p, s, ps, tot)
    <3>1. WordTable(s, ws) /\ c \in 0..Len(ws) /\ ps = ParamsAfter(s, ws, c)
      BY <1>1, <1>5, <1>6
    <3>2. Writes(tot, head, ps) /\ p3 \in Ends(ws, c) + 1..Begins(s, ws, c + 1)
      BY <1>6, <1>9
    <3>3. p = parseParams(r3)
      BY <1>3
    <3> QED BY <2>1, <3>1, <3>2, <3>3, ParamsParsed
  <2> QED BY <1>10, <2>2 DEF ParamsDone
<1>14. doParse(l) = IF r4.failed \/ r4.in # << >> THEN NotParsed
                    ELSE [ok |-> TRUE, tags |-> Written(r0, r1), prefix |-> Written(r1, r2),
                          cmd |-> Written(r2, r3), params |-> p.params]
  BY <1>2, <1>3 DEF doParse
<1>15. CASE Refused(ps, tot)
  <2>1. r4 = Fail(p.r) /\ p.r.failed
    BY <1>3, <1>13, <1>15 DEF parseCRLF
  <2>2. r4.failed
    BY <2>1 DEF Fail
  <2> QED BY <1>12, <1>14, <1>15, <2>2
<1>16. CASE ~Refused(ps, tot)
  <2>1. r4.in = << >> /\ ~r4.failed
    <3> PICK L \in Nat : L = Len(s)
      BY LineParts
    <3>1. Len(l) = L + 2 /\ l[L + 1] = CR /\ l[L + 2] = LF
      BY LineParts
    <3>2. PICK in : in = Suffix(l, L + 1)
      OBVIOUS
    <3>3. in \in Seq(Chars) /\ Len(in) = 2 /\ in[1] = CR /\ in[2] = LF
      <4>1. L + 1 \in 1..Len(l) + 1 /\ Len(l) - (L + 1) + 1 = 2
        BY <3>1
      <4>2. /\ in \in Seq(Chars) /\ Len(in) = 2
            /\ \A i \in 1..2 : in[i] = l[L + 1 + i - 1]
        <5>1. PICK q \in 1..Len(l) + 1 : q = L + 1 /\ Len(l) - q + 1 = 2
          BY <4>1
        <5>2. /\ Suffix(l, q) \in Seq(Chars) /\ Len(Suffix(l, q)) = Len(l) - q + 1
              /\ \A i \in 1..Len(l) - q + 1 : Suffix(l, q)[i] = l[q + i - 1]
          BY SuffixParts
        <5> QED BY <3>2, <5>1, <5>2
      <4>3. L + 1 + 1 - 1 = L + 1 /\ L + 1 + 2 - 1 = L + 2 /\ 1 \in 1..2 /\ 2 \in 1..2
        OBVIOUS
      <4> QED BY <3>1, <4>2, <4>3
    <3>4. SubSeq(in, 1, 2) = <<CR, LF>>
      <4>1. in = <<CR, LF>>
        BY <3>3
      <4>2. SubSeq(in, 1, 2) = in
        BY <3>3, SubSeqFull
      <4> QED BY <4>1, <4>2
    <3>5. SubSeq(in, 3, 2) = << >>
      BY SubSeqEmpty
    <3>6. p.r = [in |-> in, out |-> all, failed |-> FALSE]
      BY <1>13, <1>16, <3>2 DEF Rd
    <3>7. p.r.in = in /\ ~p.r.failed
      BY <3>6
    <3>8. r4 = [p.r EXCEPT !.in = SubSeq(p.r.in, 3, Len(p.r.in))]
      <4>1. ~(p.r.failed \/ Len(p.r.in) < 2 \/ SubSeq(p.r.in, 1, 2) # <<CR, LF>>)
        <5>1. Len(p.r.in) = 2
          BY <3>3, <3>7
        <5>2. SubSeq(p.r.in, 1, 2) = <<CR, LF>>
          BY <3>4, <3>7, Zenon
        <5> QED BY <3>7, <5>1, <5>2
      <4> QED BY <1>3, <4>1 DEF parseCRLF
    <3>9. SubSeq(p.r.in, 3, Len(p.r.in)) = << >>
      BY <3>3, <3>5, <3>7
    <3> QED BY <3>6, <3>8, <3>9
  <2>2. Len(head) <= Len(all) /\ Len(all) <= parseBufferLenMax
    <3>1. head = tot[0] /\ 0 \in 0..Len(ps)
      BY <1>8, <1>9 DEF Writes
    <3> QED BY <1>8, <1>9, <1>10, <1>11, <1>16, <3>1, WritesMore
  <2>3. r1 = Rd(l, p1, t) /\ r2 = Rd(l, p2, t \o f) /\ r3 = Rd(l, p3, t \o f \o m)
    <3>1. Len(t \o f) = Len(t) + Len(f)
      BY <1>6, ConcatProperties
    <3>2. Len(head) = Len(t \o f) + Len(m)
      BY <1>6, <1>7, ConcatProperties
    <3>3. Len(all) \in Nat
      BY <1>a
    <3>4. Len(t) \in Nat /\ Len(f) \in Nat /\ Len(m) \in Nat /\ parseBufferLenMax \in Nat
      BY <1>6, SizeAssumption
    <3>5. ~(Len(t) > parseBufferLenMax) /\ ~(Len(t \o f) > parseBufferLenMax) /\ ~(Len(head) > parseBufferLenMax)
      BY <2>2, <3>1, <3>2, <3>3, <3>4
    <3> QED BY <1>6, <3>5 DEF At
  <2>4. r0 = Rd(l, 1, << >>)
    <3>1. l = Suffix(l, 1)
      BY SubSeqFull DEF Suffix
    <3> QED BY <1>2, <3>1 DEF Reader, Rd
  <2>5. Written(r0, r1) = t
    <3>1. << >> \in Seq(Chars) /\ << >> \o t = t
      BY <1>6, ConcatEmptySeq
    <3>2. PICK none \in Seq(Chars) : none = << >>
      BY <3>1
    <3>3. Written(Rd(l, 1, none), Rd(l, p1, none \o t)) = t
      BY <1>6, WrittenIs
    <3> QED BY <2>3, <2>4, <3>1, <3>2, <3>3
  <2>6. Written(r1, r2) = f
    BY <1>6, <2>3, WrittenIs
  <2>7. Written(r2, r3) = m
    <3>1. PICK a \in Seq(Chars) : a = t \o f
      BY <1>7
    <3>2. Written(Rd(l, p2, a), Rd(l, p3, a \o m)) = m
      BY <1>6, WrittenIs
    <3> QED BY <2>3, <3>1, <3>2
  <2> QED BY <1>12, <1>13, <1>14, <1>16, <2>1, <2>5, <2>6, <2>7
<1> QED BY <1>15, <1>16

\* Whatever the line and the sizes of parseBuffer and the list: doParse takes a
\* line apart as the reference does and refuses what does not fit.
THEOREM ParsedByReference == Lines => []ParsesAsReference
<1>1. BodyTyped => ParsesAsReference
  BY ParsedAsReference DEF BodyTyped, Line, ParsesAsReference
<1> QED BY <1>1, LinesTyped, PTL
=============================================================================
