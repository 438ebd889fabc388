------------------------------ MODULE Framing ------------------------------
(***************************************************************************)
(* PDUs over byte streams (PDU.c, safeUtil.c): each begins with its length *)
(* in two bytes, is sent with one send() and received with two recv() that *)
(* wait for all bytes.  A send() fills the connection and waits until the  *)
(* receiver has made room; the receiver, one process for all senders, asks *)
(* poll which connection has something, and stays with it until the PDU is *)
(* complete or the sender is gone.                                         *)
(***************************************************************************)
EXTENDS Integers, Sequences, FiniteSetsExt, Functions

CONSTANTS
    Senders,        \* numbers, ordered as their descriptors
    Payloads,
    UInt8,          \* 256: what one byte of the length counts to
    BufferSize,     \* 1024: MAXBUF of the server
    Capacity,       \* bytes that a connection holds
    MaxSent,        \* bound: PDUs a sender sends
    MayDie,         \* senders that are killed or reset at any moment
    Stopped         \* senders that may stop for ever without ending (SIGSTOP)

Byte == 0 .. UInt8 - 1

\* A payload fits the buffer, with its length, and every length fits two bytes.
ASSUME FramingAssumption ==
    /\ Senders \subseteq Nat
    /\ UInt8 \in Nat \ {0} /\ BufferSize \in Nat /\ BufferSize < UInt8 * UInt8
    /\ Payloads \subseteq Seq(Byte)
    /\ \A p \in Payloads : Len(p) + 2 <= BufferSize
    /\ Capacity \in Nat /\ MaxSent \in Nat

VARIABLES
    sending,        \* per sender, what send() has not copied yet
    wire,           \* per sender, the bytes on their way
    gone,           \* the sender has ended
    open,           \* the receiver has the connection open
    receiver,       \* "poll", "header", "payload" or "exited"
    socket,         \* the connection recvPDU works on
    got,            \* what recv() has received
    need,           \* how much it waits for
    sent, delivered, \* history: payloads handed to sendPDU and from recvPDU
    torn            \* history: the last one delivered was not complete

senderVars == <<sending, gone, sent>>
receiverVars == <<open, receiver, socket, got, need, delivered, torn>>
vars == <<senderVars, wire, receiverVars>>

-----------------------------------------------------------------------------
(* Senders *)

PDU(p) == <<(Len(p) + 2) \div UInt8, (Len(p) + 2) % UInt8>> \o p

sendPDU(s) ==
    /\ ~gone[s] /\ sending[s] = << >> /\ Len(sent[s]) < MaxSent
    /\ \E p \in Payloads :
        /\ sending' = [sending EXCEPT ![s] = PDU(p)]
        /\ sent' = [sent EXCEPT ![s] = Append(@, p)]
    /\ UNCHANGED <<gone, wire, receiverVars>>

\* Fault: what does not fit is not sent.
Copied_once(s, n) == << >>

\* What is left for send() when the kernel has taken n bytes.
Copied(s, n) == SubSeq(sending[s], n + 1, Len(sending[s]))

\* send() does not return before all bytes are copied.
Transmit(s) ==
    /\ ~gone[s] /\ open[s] /\ sending[s] # << >>
    /\ \E n \in 1 .. Min({Capacity - Len(wire[s]), Len(sending[s])}) :
        /\ wire' = [wire EXCEPT ![s] = @ \o SubSeq(sending[s], 1, n)]
        /\ sending' = [sending EXCEPT ![s] = Copied(s, n)]
    /\ UNCHANGED <<gone, sent, receiverVars>>

Ends(s) ==
    /\ gone' = [gone EXCEPT ![s] = TRUE]
    /\ sending' = [sending EXCEPT ![s] = << >>]
    /\ UNCHANGED <<sent, receiverVars>>

\* What was copied still arrives.
Killed(s) == s \in MayDie /\ ~gone[s] /\ Ends(s) /\ UNCHANGED wire

\* Of that, too, the end may be lost.
Reset(s) ==
    /\ s \in MayDie /\ ~gone[s]
    /\ Ends(s)
    /\ \E n \in 0 .. Len(wire[s]) : wire' = [wire EXCEPT ![s] = SubSeq(@, 1, n)]

\* The other end is closed: the sender reads of it, or its send() fails.
CutOff(s) ==
    /\ ~gone[s] /\ (~open[s] \/ receiver = "exited")
    /\ Ends(s) /\ UNCHANGED wire

SenderStep(s) == sendPDU(s) \/ Transmit(s) \/ CutOff(s)

-----------------------------------------------------------------------------
(* The receiver *)

HasInput == {s \in Senders : open[s] /\ (wire[s] # << >> \/ gone[s])}

Receiving == receiver \in {"header", "payload"}

\* Fault: recv() without MSG_WAITALL.
Returns_early == got # << >> \/ (wire[socket] = << >> /\ gone[socket])

\* recv() returns when it has all it waits for, or when the sender is gone and
\* there is no more.
Returns == Len(got) = need \/ (wire[socket] = << >> /\ gone[socket])

pollCall ==
    /\ receiver = "poll" /\ HasInput # {}
    /\ socket' = Min(HasInput)
    /\ receiver' = "header"
    /\ got' = << >> /\ need' = 2
    /\ UNCHANGED <<senderVars, wire, open, delivered, torn>>

Taken == Min({need - Len(got), Len(wire[socket])})

recv ==
    /\ Receiving /\ ~Returns /\ wire[socket] # << >>
    /\ got' = got \o SubSeq(wire[socket], 1, Taken)
    /\ wire' = [wire EXCEPT ![socket] = SubSeq(@, Taken + 1, Len(@))]
    /\ UNCHANGED <<senderVars, open, receiver, socket, need, delivered, torn>>

\* A result of 0: the server closes, the client exits.
Closed ==
    /\ receiver' = "poll"
    /\ open' = [open EXCEPT ![socket] = FALSE]
    /\ got' = << >> /\ need' = 0
    /\ UNCHANGED <<senderVars, wire, socket, delivered, torn>>

exit ==
    /\ receiver' = "exited"
    /\ UNCHANGED <<senderVars, wire, open, socket, got, need, delivered, torn>>

\* Fault: bytes in the order of the host.
PDULength_swapped(header) == header[2] * UInt8 + header[1]

PDULength(header) == header[1] * UInt8 + header[2]

\* Of a header of which only one byte came, the other is what the stack held.
Headers ==
    IF Len(got) = 2 THEN {got} ELSE {Append(got, stale) : stale \in Byte}

\* A length over that of the buffer ends the receiver; one below 2 makes a negative
\* size, at which recv() finds the end or refuses.
AfterHeader ==
    /\ receiver = "header" /\ Returns
    /\ IF got = << >> THEN Closed
       ELSE \E header \in Headers :
            \/ PDULength(header) < 2 /\ Closed
            \/ PDULength(header) \notin 2 .. BufferSize /\ exit
            \/ /\ PDULength(header) \in 2 .. BufferSize
               /\ receiver' = "payload"
               /\ got' = << >> /\ need' = PDULength(header) - 2
               /\ UNCHANGED <<senderVars, wire, open, socket, delivered, torn>>

\* What came of the payload is handed to the receiver's handler.
AfterPayload ==
    /\ receiver = "payload" /\ Returns
    /\ IF got = << >> THEN Closed
       ELSE /\ receiver' = "poll"
            /\ delivered' = [delivered EXCEPT ![socket] = Append(@, got)]
            /\ torn' = [torn EXCEPT ![socket] = Len(got) < need]
            /\ got' = << >> /\ need' = 0
            /\ UNCHANGED <<senderVars, wire, open, socket>>

recvPDU == pollCall \/ recv \/ AfterHeader \/ AfterPayload

-----------------------------------------------------------------------------
Init ==
    /\ sending = [s \in Senders |-> << >>] /\ wire = [s \in Senders |-> << >>]
    /\ gone = [s \in Senders |-> FALSE] /\ open = [s \in Senders |-> TRUE]
    /\ receiver = "poll" /\ socket \in Senders /\ got = << >> /\ need = 0
    /\ sent = [s \in Senders |-> << >>] /\ delivered = [s \in Senders |-> << >>]
    /\ torn = [s \in Senders |-> FALSE]

Next == recvPDU \/ \E s \in Senders : SenderStep(s) \/ Killed(s) \/ Reset(s)

Spec == Init /\ [][Next]_vars

\* The receiver runs, and so does every sender that is not stopped: a send() under
\* way goes on; nobody has to send.
FairSpec ==
    /\ Spec
    /\ WF_vars(recvPDU)
    /\ \A s \in Senders \ Stopped : WF_vars(Transmit(s))

-----------------------------------------------------------------------------
(* Properties *)

\* PDU.c:3-42.  Whatever the sizes in which bytes arrive, and whenever senders end,
\* the receiver gets the PDUs that were sent, whole and in order; only the last one
\* of a sender that ended may be cut, and it is handed on as if it were whole.
Q == INSTANCE PduQueue WITH over <- [s \in Senders |-> torn[s] \/ ~open[s]]

ImplementsPduQueue == Q!Spec

\* PDU.c:20, server.c:143, 151.  The receiver closes the connection of a sender that
\* lives only when that sent a PDU without payload, and exits only on a header of
\* which a sender that has ended left one byte.
AliveIsNotClosed ==
    /\ \A s \in Senders : open[s] \/ gone[s] \/ << >> \in Range(sent[s])
    /\ receiver = "exited" => gone[socket] /\ Len(got) = 1

\* The receiver waits for the rest of a PDU whose sender neither sends nor ends.
StuckWithStopped == Receiving /\ socket \in Stopped /\ ~gone[socket] /\ sending[socket] # << >>

\* PDU.c:35.  A PDU that the receiver has begun is received, or its sender ends, or
\* the receiver waits for a sender that is stopped in the middle of it, for ever and
\* with everybody else.
ReceiveEnds == Receiving ~> (~Receiving \/ []StuckWithStopped)

\* pollLib.c:89.  A connection below that of s is what poll names first.
Overtaken(s) == \E r \in HasInput : r < s

\* server.c:90-99, pollLib.c:89.  Everything sent by a sender that runs is delivered
\* unless such a wait comes between, its connection is closed, the receiver exits, or
\* lower connections have something again and again.
SentIsDelivered ==
    \A s \in Senders \ Stopped :
        (delivered[s] # sent[s]) ~>
            \/ delivered[s] = sent[s]
            \/ gone[s] \/ ~open[s] \/ receiver = "exited"
            \/ []StuckWithStopped
            \/ []<>Overtaken(s)

\* PDU.c:35, server.c:90-99.  Nothing but a sender that is stopped in the middle of
\* a PDU holds up the receiver, and nothing but that or busy senders below it holds up
\* a sender, whatever else arrives in pieces or ends.
OnlyStoppedOrBusyHoldUp == ReceiveEnds /\ SentIsDelivered
=============================================================================
