------------------------------ MODULE IrcParse ------------------------------
(***************************************************************************)
(* The parser of BOT/parse.nas: a line of the server is split into tags,   *)
(* prefix, command and parameters, copied one after the other into         *)
(* parseBuffer.  Characters are told apart only as far as the parser does. *)
(*                                                                         *)
(* The operators take and give a reader: the input left (si, bx), what has *)
(* been written (di, cx) and the carry flag's "failed".  Each returns its  *)
(* reader unchanged once it has failed, as do_parse does.                  *)
(***************************************************************************)
EXTENDS LineEnd, Naturals, Sequences, FiniteSets, SequencesExt

CONSTANTS
    SP, CR, COLON, AT,       \* with LF, the characters the parser looks for
    Others,                  \* any other
    parseBufferLenMax,
    paramsListMax,
    MaxLine                  \* bound: characters before the end of the line

ASSUME CharAssumption ==
    /\ SP \notin {CR, LF, COLON, AT} /\ CR \notin {LF, COLON, AT}
    /\ LF \notin {COLON, AT} /\ COLON # AT
    /\ {SP, CR, LF, COLON, AT} \cap Others = {}
ASSUME SizeAssumption == {parseBufferLenMax, paramsListMax, MaxLine} \subseteq Nat

Reader(line) == [in |-> line, out |-> << >>, failed |-> FALSE]

Fail(r) == [r EXCEPT !.failed = TRUE]

\* peek: it fails at the end of the input.
peekIs(r, cs) == r.in # << >> /\ Head(r.in) \in cs

read(r) == IF r.in = << >> THEN Fail(r) ELSE [r EXCEPT !.in = Tail(@)]

\* How many characters are before the first one of `stop'.
Before(in, stop) ==
    Cardinality({i \in DOMAIN in : \A j \in 1..i : in[j] \notin stop})

\* copyUntil is the loop of copyWord and copyToCR: the end of the input or of
\* parseBuffer is a failure.
copyUntil(r, stop) ==
    LET n == Before(r.in, stop)
    IN  IF r.failed THEN r
        ELSE IF n = Len(r.in) \/ Len(r.out) + n > parseBufferLenMax THEN Fail(r)
        ELSE [r EXCEPT !.in = SubSeq(@, n + 1, Len(@)), !.out = @ \o SubSeq(r.in, 1, n)]

\* Slip: a word goes on to the end of the line.
copyWord_ToCR(r) == copyUntil(r, {CR})

copyWord(r) == copyUntil(r, {SP, CR})
copyToCR(r) == copyUntil(r, {CR})

skipSpace(r) ==
    LET n == Before(r.in, {CR, LF, COLON, AT} \cup Others)
    IN  IF r.failed THEN r
        ELSE IF n = Len(r.in) THEN Fail(r)
        ELSE [r EXCEPT !.in = SubSeq(@, n + 1, Len(@))]

parseWordIf(r, c) ==
    CASE r.failed -> r
      [] ~r.failed /\ r.in = << >> -> Fail(r)
      [] ~r.failed /\ r.in # << >> /\ ~peekIs(r, {c}) -> r
      [] OTHER -> skipSpace(copyWord(read(r)))

parseCRLF(r) ==
    IF r.failed \/ Len(r.in) < 2 \/ SubSeq(r.in, 1, 2) # <<CR, LF>> THEN Fail(r)
    ELSE [r EXCEPT !.in = SubSeq(@, 3, Len(@))]

\* The text between two states of the writer: a pointer and a length in the code.
Written(r1, r2) == SubSeq(r2.out, Len(r1.out) + 1, Len(r2.out))

\* One parameter: the rest of the line after a colon, or a word.
parseParam(r) ==
    LET s == skipSpace(r)
    IN  IF peekIs(s, {COLON}) /\ ~s.failed THEN copyToCR(read(s)) ELSE copyWord(s)

\* Slip: one parameter more than the list's entries.
hasParamRoom_OffByOne(n) == n <= paramsListMax

\* The list is given up one entry before it is full.
hasParamRoom(n) == n < paramsListMax

\* A turn of parseParams; `more' is cleared when the end of the line is next.
paramStep(p) ==
    LET r == parseParam(p.r)
    IN  IF ~p.more \/ p.r.failed THEN p
        ELSE IF ~hasParamRoom(Len(p.params) + 1) THEN [p EXCEPT !.r = Fail(@)]
        ELSE [r |-> r, params |-> Append(p.params, Written(p.r, r)), more |-> ~peekIs(r, {CR})]

\* The loop of parseParams, turn by turn.  It always reads one parameter, which
\* may be empty.
parseParams(r) ==
    LET turn[n \in 0..paramsListMax + 1] ==
            IF n = 0 THEN [r |-> r, params |-> << >>, more |-> TRUE]
            ELSE paramStep(turn[n - 1])
    IN  turn[paramsListMax + 1]

NotParsed == [ok |-> FALSE]

\* Slip: what is left of the input does not matter.
doParse_Leftover(line) ==
    LET r0 == Reader(line)
        r1 == parseWordIf(r0, AT)
        r2 == parseWordIf(r1, COLON)
        r3 == copyWord(r2)
        p == parseParams(r3)
        r4 == parseCRLF(p.r)
    IN  IF r4.failed THEN NotParsed
        ELSE [ok |-> TRUE, tags |-> Written(r0, r1), prefix |-> Written(r1, r2),
              cmd |-> Written(r2, r3), params |-> p.params]

\* doParse and parseMessage.
doParse(line) ==
    LET r0 == Reader(line)
        r1 == parseWordIf(r0, AT)
        r2 == parseWordIf(r1, COLON)
        r3 == copyWord(r2)
        p == parseParams(r3)
        r4 == parseCRLF(p.r)
    IN  IF r4.failed \/ r4.in # << >> THEN NotParsed
        ELSE [ok |-> TRUE, tags |-> Written(r0, r1), prefix |-> Written(r1, r2),
              cmd |-> Written(r2, r3), params |-> p.params]
-----------------------------------------------------------------------------
(* The lines, one character longer in every step; the end is added by the  *)
(* properties.                                                             *)

VARIABLE body

LinesInit == body = << >>

LinesNext ==
    /\ Len(body) < MaxLine
    /\ \E c \in {SP, COLON, AT} \cup Others : body' = Append(body, c)

Lines == LinesInit /\ [][LinesNext]_body
-----------------------------------------------------------------------------
(* What a line says, without a reader: its maximal stretches without spaces. *)

Stretches(s) ==
    {w \in (DOMAIN s) \X (DOMAIN s) :
        /\ w[1] <= w[2] /\ \A k \in w[1]..w[2] : s[k] # SP
        /\ w[1] = 1 \/ s[w[1] - 1] = SP
        /\ w[2] = Len(s) \/ s[w[2] + 1] = SP}

\* The words in order, as <<first, last>> positions.
Words(s) ==
    [n \in 1..Cardinality(Stretches(s)) |->
        CHOOSE w \in Stretches(s) : Cardinality({v \in Stretches(s) : v[1] <= w[1]}) = n]

Text(s, w) == SubSeq(s, w[1], w[2])

\* Tags and prefix are words of their own, with their mark; a line that begins
\* with a space has neither and an empty command.  The first parameter with a
\* colon takes the rest of the line.  A line that ends in a space, or has no
\* parameter, has an empty last one.
Reference(s) ==
    LET ws == Words(s)
        lead == s # << >> /\ Head(s) = SP
        marked(n, c) == n <= Len(ws) /\ s[ws[n][1]] = c
        t == IF ~lead /\ marked(1, AT) THEN 1 ELSE 0
        p == IF ~lead /\ marked(t + 1, COLON) THEN t + 1 ELSE t
        c == IF lead \/ p = Len(ws) THEN p ELSE p + 1
        long == {n \in c + 1..Len(ws) : marked(n, COLON)}
        k == IF long = {} THEN Len(ws) ELSE (CHOOSE n \in long : \A m \in long : n <= m) - 1
        words == [n \in 1..k - c |-> Text(s, ws[c + n])]
        last == IF long # {} THEN <<SubSeq(s, ws[k + 1][1] + 1, Len(s))>>
                ELSE IF k = c \/ Last(s) = SP THEN << << >> >> ELSE << >>
        unmark(w) == SubSeq(s, w[1] + 1, w[2])
        m == [ok |-> TRUE,
              tags |-> IF t = 1 THEN unmark(ws[1]) ELSE << >>,
              prefix |-> IF p > t THEN unmark(ws[p]) ELSE << >>,
              cmd |-> IF c > p THEN Text(s, ws[c]) ELSE << >>,
              params |-> words \o last]
        all == m.tags \o m.prefix \o m.cmd \o FlattenSeq(m.params)
    IN  IF Len(m.params) < paramsListMax /\ Len(all) <= parseBufferLenMax THEN m ELSE NotParsed

\* doParse splits every line that ends in CR LF as the reference does, and
\* refuses those with too many parameters or too long for parseBuffer.
ParsesAsReference == doParse(body \o <<CR, LF>>) = Reference(body)

\* A line without its end, with a CR inside or with something after its end is
\* refused (testParse_noCR, testParse_leftoverInput).
OnlyWholeLines ==
    /\ ~doParse(body).ok
    /\ ~doParse(Append(body, CR)).ok
    /\ \A c \in Others : ~doParse(body \o <<CR, LF, c>>).ok
    /\ \A i \in 0..Len(body) - 1 :
          ~doParse(SubSeq(body, 1, i) \o <<CR>> \o SubSeq(body, i + 1, Len(body)) \o <<CR, LF>>).ok
=============================================================================
