---------------------------- MODULE Segmentation ----------------------------
(***************************************************************************)
(* How a chat client turns a command into PDUs (cclient.c: messageSend,    *)
(* sendBroadcast), what the server forwards of one (server.c: messageSend, *)
(* messageBroadcast), and how the server and the receiving client          *)
(* (multicast, printBcast) find their way in it.                           *)
(*                                                                         *)
(* A line is what processStdin passes on: [flag, to, text], with the       *)
(* recipients' handles of %M (5) and %C (6) and the text, the terminator   *)
(* included.  Handles and texts are sequences of bytes.  The loop copies   *)
(* the text into a buffer behind the header and sends what it has whenever *)
(* the buffer is full: a "part".                                           *)
(***************************************************************************)
EXTENDS Integers, Sequences

CONSTANTS
    myHandle,
    Lines,
    BufferSize,     \* 200: the size of buf
    PartLimit,      \* 199: a part of this length is sent
    HandleSize,     \* 100: the readers copy a handle into an array of this size
    UInt8           \* 256: the reader's position is a uint8_t

Byte == 0 .. UInt8 - 1

ASSUME SegmentationAssumption ==
    /\ UInt8 \in Nat /\ BufferSize \in Nat /\ PartLimit \in Nat /\ HandleSize \in Nat
    /\ 5 < PartLimit /\ PartLimit < BufferSize /\ BufferSize + 2 < UInt8 /\ 6 < UInt8
    /\ myHandle \in Seq(Byte) /\ Len(myHandle) + 2 < BufferSize
    /\ Len(myHandle) <= HandleSize
    /\ \A l \in Lines :
        /\ l.flag \in {4, 5, 6}
        /\ l.to \in Seq(Seq(Byte)) /\ Len(l.to) \in Byte
        /\ \A i \in DOMAIN l.to : Len(l.to[i]) \in Byte
        /\ l.text \in Seq(Byte)
        /\ \A i \in DOMAIN l.text : l.text[i] = 0 <=> i = Len(l.text)
        /\ l.flag = 4 => l.to = << >>
        /\ l.flag # 4 => l.text # << >>

VARIABLES
    pc,         \* "idle", "handles" or "text"
    line,       \* the line being sent, or the last one
    buf,        \* the part of buf that is written, up to bufPointer
    handleNext, \* the handle that is copied next
    headerEnd,
    input,      \* how much of the text has been copied
    parts       \* history: the payloads sent for the line, with the place in
                \* the text where each begins

segmentationVars == <<pc, line, buf, handleNext, headerEnd, input, parts>>

\* The header leaves room in buf for a byte of text.
HeaderFits == headerEnd < BufferSize

NoLine == [flag |-> 4, to |-> << >>, text |-> << >>]

SegmentationInit ==
    /\ pc = "idle" /\ line = NoLine
    /\ buf = << >> /\ handleNext = 1 /\ headerEnd = 0 /\ input = 0 /\ parts = << >>

\* messageSend and sendBroadcast up to the list of handles, which a broadcast
\* has not.
messageSend(l) ==
    /\ pc = "idle"
    /\ pc' = "handles"
    /\ line' = l
    /\ buf' = <<l.flag, Len(myHandle)>> \o myHandle \o (IF l.flag = 4 THEN << >> ELSE <<Len(l.to)>>)
    /\ handleNext' = 1
    /\ headerEnd' = 0 /\ input' = 0 /\ parts' = << >>

CopyHandle ==
    /\ pc = "handles" /\ handleNext <= Len(line.to)
    /\ buf' = buf \o <<Len(line.to[handleNext])>> \o line.to[handleNext]
    /\ handleNext' = handleNext + 1
    /\ UNCHANGED <<pc, line, headerEnd, input, parts>>

EndOfHeader ==
    /\ pc = "handles" /\ handleNext > Len(line.to)
    /\ pc' = "text"
    /\ headerEnd' = Len(buf)
    /\ UNCHANGED <<line, buf, handleNext, input, parts>>

Part == [bytes |-> Append(buf, line.text[input + 1]),
         from |-> input - (Len(buf) - headerEnd)]

\* Fault: the byte that fills the part is lost.
CopyByte_dropsLast ==
    /\ pc = "text" /\ input < Len(line.text)
    /\ input' = input + 1
    /\ IF Len(buf) + 1 >= PartLimit
       THEN /\ parts' = Append(parts, [Part EXCEPT !.bytes = buf])
            /\ buf' = SubSeq(buf, 1, headerEnd)
       ELSE /\ buf' = Append(buf, line.text[input + 1])
            /\ UNCHANGED parts
    /\ UNCHANGED <<pc, line, handleNext, headerEnd>>

\* One byte of text goes behind what is there; a full buffer is sent, and only
\* its header is kept.
CopyByte ==
    /\ pc = "text" /\ input < Len(line.text)
    /\ input' = input + 1
    /\ IF Len(buf) + 1 >= PartLimit
       THEN /\ parts' = Append(parts, Part)
            /\ buf' = SubSeq(buf, 1, headerEnd)
       ELSE /\ buf' = Append(buf, line.text[input + 1])
            /\ UNCHANGED parts
    /\ UNCHANGED <<pc, line, handleNext, headerEnd>>

\* The rest is sent even when it is empty.
SendRest ==
    /\ pc = "text" /\ input = Len(line.text)
    /\ parts' = Append(parts, [bytes |-> buf, from |-> input - (Len(buf) - headerEnd)])
    /\ pc' = "idle"
    /\ UNCHANGED <<line, buf, handleNext, headerEnd, input>>

Segment == CopyHandle \/ EndOfHeader \/ CopyByte \/ SendRest

SegmentationNext == Segment \/ \E l \in Lines : messageSend(l)

SegmentationSpec == SegmentationInit /\ [][SegmentationNext]_segmentationVars

-----------------------------------------------------------------------------
(* The server forwards a message as it came, but of a broadcast all except the last
   two bytes: messageLen, from which it takes 2, is the length of the payload. *)

messageBroadcast(part) == SubSeq(part, 1, Len(part) - 2)

(* The readers.  A payload arrives at dataBuffer + 2: its byte i there is
   part[i - 1]. *)

\* The handles fit the arrays the server, and the client that prints a message,
\* copy them into, with a terminator behind them; the client puts it one byte
\* further on.  What longer ones do is undefined.
HandlesFit ==
    /\ Len(myHandle) + 1 < HandleSize
    /\ \A i \in DOMAIN line.to : Len(line.to[i]) < HandleSize

At(part, i) == part[i - 1]

\* Where the handle list starts, as server and client compute it.
handleListStart(part) == (4 + At(part, 3)) % UInt8

\* readerLocation at the i-th handle of the list; the one after the last is
\* where the text starts.
readerLocation(part) ==
    LET numRecipients == At(part, handleListStart(part))
        location[i \in 1 .. numRecipients + 1] ==
            IF i = 1 THEN (handleListStart(part) + 1) % UInt8
            ELSE (location[i - 1] + At(part, location[i - 1]) + 1) % UInt8
    IN  location

\* The handles the server looks up.
RecipientsOf(part) ==
    LET location == readerLocation(part) IN
    [i \in 1 .. Len(location) - 1 |->
        SubSeq(part, location[i], location[i] + At(part, location[i]) - 1)]

\* Where multicast, or printBcast, starts to print.
TextStart(part) ==
    IF part[1] = 4 THEN 4 + At(part, 3)
    ELSE LET location == readerLocation(part) IN location[Len(location)]

TextOf(part) == SubSeq(part, TextStart(part) - 1, Len(part))

-----------------------------------------------------------------------------
(* Properties *)

Body(part) == SubSeq(part.bytes, headerEnd + 1, Len(part.bytes))

\* The parts of a line, the one being filled included, follow each other in the
\* text without gap or overlap from its first byte on: nothing of it is lost and
\* nothing is sent twice.
NothingLost ==
    pc # "handles" /\ headerEnd > 0 =>
        /\ \A k \in DOMAIN parts :
            /\ parts[k].from = IF k = 1 THEN 0
                               ELSE parts[k - 1].from + Len(Body(parts[k - 1]))
            /\ Body(parts[k]) = SubSeq(line.text, parts[k].from + 1,
                                       parts[k].from + Len(Body(parts[k])))
        /\ pc = "idle" =>
            parts[Len(parts)].from + Len(Body(parts[Len(parts)])) = Len(line.text)

\* What is sent lies within buf exactly when the header leaves room in it for a
\* byte: handles that are long together do not (a hundred characters each are
\* enough for a message to one client), and the text is then written behind buf.
StaysInBuffer ==
    /\ pc # "handles" /\ HeaderFits => Len(buf) <= BufferSize
    /\ pc = "idle" /\ parts # << >> =>
        (HeaderFits <=> \A k \in DOMAIN parts : Len(parts[k].bytes) <= BufferSize)

\* Every part is a message of its own: from it alone the server finds all the
\* recipients, and the client the text, whatever bytes the text has, if the handles
\* fit the readers' arrays.  Of a part of a broadcast the client finds the text without
\* its last two bytes, if it has as many; otherwise its header is cut.  The one byte
\* positions do not wrap in a part that fitted the sender's buffer.
PartsStandAlone ==
    HeaderFits /\ HandlesFit =>
        \A k \in DOMAIN parts :
            LET part == parts[k].bytes
                body == Body(parts[k])
            IN  /\ part[1] # 4 => RecipientsOf(part) = line.to /\ TextOf(part) = body
                /\ part[1] = 4 /\ Len(body) >= 2 =>
                     TextOf(messageBroadcast(part)) = SubSeq(body, 1, Len(body) - 2)

HasTerminator(bytes) == \E i \in DOMAIN bytes : bytes[i] = 0

\* Of a message only the end of the text is terminated, in the last part or, when that
\* is empty, in the one before: every other part is printed together with whatever the
\* receiver's buffer holds behind it.  So is every part of a broadcast.
TerminatedOnlyAtEnd ==
    pc = "idle" /\ HeaderFits =>
        \A k \in DOMAIN parts :
            LET body == Body(parts[k]) IN
            IF line.flag = 4 THEN ~HasTerminator(SubSeq(body, 1, Len(body) - 2))
            ELSE HasTerminator(body) <=>
                    \/ k = Len(parts) /\ body # << >>
                    \/ k = Len(parts) - 1 /\ Body(parts[k + 1]) = << >>

\* cclient.c:331-345, server.c:127, 191-218.  A text cut at the limit reaches the server
\* in parts that lose and repeat nothing, leave the buffer only when their header does,
\* and need no other to be understood.  A message's recipients get them whole, and only
\* their end is terminated; a broadcast's get them without the last two bytes, and
\* never terminated.
PartsCarryTheText == NothingLost /\ StaysInBuffer /\ PartsStandAlone /\ TerminatedOnlyAtEnd
=============================================================================
