------------------------------ MODULE BotLogic ------------------------------
(***************************************************************************)
(* The answers of BOT/logic.nas, built with the writers of BOT/string.nas. *)
(* Texts are their lengths in bytes, with the sizes of the program.        *)
(*                                                                         *)
(* buildBuffer passes outBufferLen to the writers as the room that is      *)
(* left.  In NASM that is the address of the variable, so the room is a    *)
(* number that has nothing to do with outBuffer (RoomPassed).  In memory   *)
(* outBuffer is followed by outBufferLen and botState: what is written     *)
(* beyond them overwrites the bot's state, which is a code address.        *)
(***************************************************************************)
EXTENDS Naturals, Sequences, FiniteSetsExt

CONSTANTS
    MaxLineLen,      \* the longest line the server sends; state.nas takes up to 512
    RoomPassed       \* the address of outBufferLen

outBufferMax == 512
pongCmdLen == 4
privmsgCmdLen == 7
helloTextLen == 11
startCmdLen == 80

VARIABLES
    botState,   \* "startState", "idleState", or "overwritten"
    reply       \* what the last line was answered with, and its length

vars == <<botState, reply>>

NoReply == [what |-> "nothing", len |-> 0]

\* dispatchInit: outBuffer takes at most outBufferMax bytes of the BOT_AUTH file.
Init ==
    /\ botState = "startState"
    /\ reply \in [what : {"auth"}, len : 0..outBufferMax]
-----------------------------------------------------------------------------
(* The lines: what the comparisons of the two states find, and the length of *)
(* the parameter the replies repeat.                                        *)

\* The states compare a fixed number of bytes from cmdBuffer or from the second
\* parameter on, however long those are.  Behind a command that is too short lie
\* the parameters, behind the last of them what earlier lines left in parseBuffer.
Starts == {"PI", "004", "other"}
helloLen == 6

\* The shortest line: no command, a space before each parameter, and CR LF.
LineLen(line) == 1 + line.p0 + (IF line.hello THEN 1 ELSE 0) + 2

\* A line that parses and is not too long.  The ">HELLO" is in a part of
\* parseBuffer that this line or an earlier one has written.
Lines == {line \in [starts : Starts, p0 : 0..MaxLineLen, hello : BOOLEAN] :
             /\ LineLen(line) <= MaxLineLen
             /\ line.hello => line.p0 + helloLen <= MaxLineLen - 2}
-----------------------------------------------------------------------------
(* string.nas: the writers return the room that is left. *)

writeChar(room) == IF room = 0 THEN 0 ELSE room - 1
writeStr(room, len) == room - Min({room, len})
writeCRLF(room) == writeChar(writeChar(room))

writeHello(room, line) ==
    writeCRLF(writeStr(writeChar(writeChar(
        writeStr(writeChar(writeStr(room, privmsgCmdLen)), line.p0))), helloTextLen))

writePong(room, line) ==
    writeCRLF(writeStr(writeChar(writeChar(writeStr(room, pongCmdLen))), line.p0))

\* The room left after the bot's state has run, and the state after it.
startState(room, line) ==
    IF line.starts = "004"
    THEN [room |-> writeStr(room, startCmdLen), what |-> "join", next |-> "idleState"]
    ELSE [room |-> room, what |-> "nothing", next |-> "startState"]

idleState(room, line) ==
    CASE line.starts = "PI" ->
            [room |-> writePong(room, line), what |-> "pong", next |-> "idleState"]
      [] line.starts # "PI" /\ line.hello ->
            [room |-> writeHello(room, line), what |-> "hello", next |-> "idleState"]
      [] OTHER -> [room |-> room, what |-> "nothing", next |-> "idleState"]

\* buildBuffer: the state named by botState runs.
buildBuffer(line) ==
    IF botState = "startState" THEN startState(RoomPassed, line) ELSE idleState(RoomPassed, line)

\* outBuffer and outBufferLen take 514 bytes; botState comes next.
Overwrites(len) == len > outBufferMax + 2

\* A state that was overwritten is called all the same; nothing can be said
\* about what happens then, so there is no such step.
dispatchLine(line) ==
    /\ botState # "overwritten"
    /\ LET b == buildBuffer(line)
           len == RoomPassed - b.room
       IN  /\ reply' = [what |-> b.what, len |-> len]
           /\ botState' = IF Overwrites(len) THEN "overwritten" ELSE b.next

\* A line that does not parse is only logged.
badParse ==
    /\ botState # "overwritten"
    /\ reply' = NoReply
    /\ UNCHANGED botState

Next == (\E line \in Lines : dispatchLine(line)) \/ badParse

Spec == Init /\ [][Next]_vars
-----------------------------------------------------------------------------
(* Properties. *)

\* string.nas:13: cx is the "len left in write buffer", so what the writers have
\* written is never longer than the buffer they write to.
ReplyFits == reply.len <= outBufferMax
=============================================================================
