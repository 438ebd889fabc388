-------------------------------- MODULE Rcopy --------------------------------
(***************************************************************************)
(* The UDP file copy of program3: rcopy clients (rcopy.c), the server's    *)
(* parent and the children it forks (server.c), the packets (sendData.c)   *)
(* and the errors sendtoErr injects on either side (PacketManager.cpp).    *)
(*                                                                         *)
(* Parent and children read one and the same UDP socket, "inbox": whoever  *)
(* calls recvfrom next takes its first datagram, whoever it is from.       *)
(* Datagrams may be lost, but neither overtake each other nor multiply.    *)
(*                                                                         *)
(* A server packet is [flag, file, seq, garbled]: file is the client whose *)
(* file a block is from, seq the number the child gave it, and garbled     *)
(* says that a byte of that number was flipped, so that its receiver reads *)
(* another.  A client packet is [flag, from, seq, garbled]: seq is the     *)
(* number an RR acknowledges, unless garbled says that its payload, or the *)
(* number of the block it answers, was flipped.                            *)
(***************************************************************************)
EXTENDS Integers, Sequences

CONSTANTS
    Clients,
    Blocks,          \* how many blocks fread finds in the file a client names, or
                     \* NoFile when there is no such file
    windowSize,      \* argv[3] of every client
    FlippedSizes,    \* what windowSize, or the number of blocks, may become
                     \* when a byte of the connect packet is flipped
    Faulty,          \* the clients with an error rate above 0
    ServerFaulty,    \* the environment gives the children an error rate above 0
    LastPidCount,    \* processClient forks while pidCount <= 10
    NoFile, NoClient

ASSUME RcopyAssumption ==
    /\ Blocks \in [Clients -> Nat \cup {NoFile}]
    /\ windowSize \in Nat /\ FlippedSizes \subseteq Nat
    /\ Faulty \subseteq Clients /\ ServerFaulty \in BOOLEAN
    /\ LastPidCount \in Nat
    /\ NoFile \notin Nat /\ NoClient \notin Clients

VARIABLES
    inbox,      \* the receive queue of the server's socket
    parent,     \* "up", "exited" by handleZombies, "interrupted" by SIGINT
    children,   \* every child ever forked, in order
    client,     \* "start", "connected" (nothing received yet), "loop", "done", "crashed"
    clientBox,  \* the receive queue of each client's socket
    received    \* history: the data packets each client has processed

serverVars == <<parent, children>>
clientVars == <<client, clientBox, received>>
vars == <<inbox, serverVars, clientVars>>

FlagRR       == 5
FlagConnect  == 8
FlagResponse == 9
FlagData     == 16
FlagUnknown  == 247   \* a flag byte after errorFlipBits: no case of any switch

\* One child.  server is the client that setupInfo->server is the address of;
\* file is the client whose file it opened, or NoClient for a file nobody asked
\* for; left is what fread still finds, or NoFile when fopen failed.  misread and
\* firstTaken are history: whether the connect packet was flipped on its way, and
\* the sender of the first packet the child took.
Child == [pc : {"start", "poll", "recv", "read", "dead"},
          server : Clients, file : Clients \cup {NoClient}, left : Nat \cup {NoFile},
          window : Nat, misread : BOOLEAN,
          seq : Nat, firstTaken : Clients \cup {NoClient}]

pidCount == Len(children)
Alive(k) == children[k].pc # "dead"

-----------------------------------------------------------------------------
(* Sending *)

\* A datagram arrives at the end of the queue or not at all.
Arrives(box, packets) == {box \o packets, box}

\* One byte is inverted: the flag, a byte its receiver acts on, or one nobody does.
errorFlipBits(packet) ==
    {<<packet>>, <<[packet EXCEPT !.flag = FlagUnknown]>>,
     <<[packet EXCEPT !.garbled = TRUE]>>}

\* What the library puts on the wire.  With an error rate a packet may also be
\* dropped or flipped.
SentByLibrary(faulty, packet) ==
    {<<packet>>} \cup IF faulty THEN {<< >>} \cup errorFlipBits(packet) ELSE {}

\* garbled: the number to acknowledge was already flipped.
ClientSends(c, flag, seq, garbled) ==
    \E p \in SentByLibrary(c \in Faulty, [flag |-> flag, from |-> c, seq |-> seq,
                                         garbled |-> garbled]) :
        inbox' \in Arrives(inbox, p)

\* The program asks for an error rate of 0, but the environment overrides it.
ChildSends(k, flag, seq) ==
    \E p \in SentByLibrary(ServerFaulty, [flag |-> flag, file |-> children[k].file,
                                         seq |-> seq, garbled |-> FALSE]) :
      \E box \in Arrives(clientBox[children[k].server], p) :
        clientBox' = [clientBox EXCEPT ![children[k].server] = box]

-----------------------------------------------------------------------------
(* The clients: rcopy.c *)

connectBuf(c) ==
    /\ client[c] = "start"
    /\ client' = [client EXCEPT ![c] = "connected"]
    /\ ClientSends(c, FlagConnect, 0, FALSE)
    /\ UNCHANGED <<serverVars, clientBox, received>>

\* Fault: after a second of silence the client goes on waiting.
Timeout_retries(c) ==
    /\ client[c] \in {"connected", "loop"}
    /\ clientBox[c] = << >>
    /\ UNCHANGED vars

\* pollCall(1000) found nothing: the loop and the program end.
Timeout(c) ==
    /\ client[c] \in {"connected", "loop"}
    /\ clientBox[c] = << >>
    /\ client' = [client EXCEPT ![c] = "done"]
    /\ UNCHANGED <<inbox, serverVars, clientBox, received>>

\* In the first round udpHeader->checksum is read through a pointer never set.
CrashOnFirst(c) ==
    /\ client[c] = "connected"
    /\ clientBox[c] # << >>
    /\ client' = [client EXCEPT ![c] = "crashed"]
    /\ clientBox' = [clientBox EXCEPT ![c] = Tail(@)]
    /\ UNCHANGED <<inbox, serverVars, received>>

\* Fault: the RR asks for the packet after the one received.
talkToServer_next(c) ==
    /\ client[c] \in {"connected", "loop"}
    /\ clientBox[c] # << >>
    /\ client' = [client EXCEPT ![c] = "loop"]
    /\ clientBox' = [clientBox EXCEPT ![c] = Tail(@)]
    /\ LET packet == Head(clientBox[c]) IN
       IF packet.flag = FlagData
       THEN /\ received' = [received EXCEPT ![c] = Append(@, packet)]
            /\ ClientSends(c, FlagRR, packet.seq + 1, packet.garbled)
       ELSE UNCHANGED <<received, inbox>>
    /\ UNCHANGED serverVars

\* A data packet is answered with an RR that carries the number read from it:
\* verifyData's result is dropped, so a flipped one is answered like any other.
talkToServer(c) ==
    /\ client[c] \in {"connected", "loop"}
    /\ clientBox[c] # << >>
    /\ client' = [client EXCEPT ![c] = "loop"]
    /\ clientBox' = [clientBox EXCEPT ![c] = Tail(@)]
    /\ LET packet == Head(clientBox[c]) IN
       IF packet.flag = FlagData
       THEN /\ received' = [received EXCEPT ![c] = Append(@, packet)]
            /\ ClientSends(c, FlagRR, packet.seq, packet.garbled)
       ELSE UNCHANGED <<received, inbox>>
    /\ UNCHANGED serverVars

ClientStep(c) == connectBuf(c) \/ Timeout(c) \/ CrashOnFirst(c) \/ talkToServer(c)

-----------------------------------------------------------------------------
(* The parent: server.c *)

\* What handleSend starts with.  One byte of a connect's payload may have been
\* flipped.  Then it names no file, another client's, or one nobody asked for; or it
\* asks for another window, or for blocks of another size.
NewChild(connect) ==
    LET c == connect.from
        Starts(file, left, window) ==
          [pc |-> "start", server |-> c, file |-> file, left |-> left, window |-> window,
           misread |-> connect.garbled, seq |-> 0, firstTaken |-> NoClient]
    IN  {Starts(c, Blocks[c], windowSize)} \cup
        IF ~connect.garbled THEN {}
        ELSE {Starts(c, NoFile, windowSize)} \cup
             {Starts(other, Blocks[other], windowSize) : other \in Clients} \cup
             {Starts(NoClient, n, windowSize) : n \in FlippedSizes} \cup
             {Starts(c, Blocks[c], n) : n \in FlippedSizes} \cup
             {Starts(c, n, windowSize) : n \in FlippedSizes}

\* The poll set of the parent is empty: pollCall(0) answers -1, the loop never
\* ends, and recvfrom blocks.  Only flag 8 does anything, and when fork fails or the
\* limit is passed not even that; no client sends flag 16.
processClient ==
    /\ parent = "up"
    /\ inbox # << >>
    /\ inbox' = Tail(inbox)
    /\ \/ UNCHANGED children
       \/ /\ Head(inbox).flag = FlagConnect /\ pidCount <= LastPidCount
          /\ \E child \in NewChild(Head(inbox)) : children' = Append(children, child)
    /\ UNCHANGED <<parent, clientVars>>

\* SIGCHLD.
handleZombies ==
    /\ parent = "up"
    /\ \E k \in DOMAIN children : ~Alive(k)
    /\ parent' = "exited"
    /\ UNCHANGED <<inbox, children, clientVars>>

\* SIGINT from the terminal goes to every process of the server.
gracefulClosing ==
    /\ parent = "up"
    /\ parent' = "interrupted"
    /\ children' = [k \in DOMAIN children |-> [children[k] EXCEPT !.pc = "dead"]]
    /\ UNCHANGED <<inbox, clientVars>>

Parent == processClient \/ handleZombies

-----------------------------------------------------------------------------
(* The children: handleSend of server.c *)

Becomes(k, pc) == children' = [children EXCEPT ![k].pc = pc]

\* Fault: the child sends without waiting for a packet.
handleSend_atOnce(k) ==
    /\ children[k].pc = "start"
    /\ Becomes(k, "read")
    /\ ChildSends(k, FlagResponse, 0)
    /\ UNCHANGED <<inbox, parent, client, received>>

\* The answer says GOOD FILE or BAD FILE.
handleSend(k) ==
    /\ children[k].pc = "start"
    /\ Becomes(k, "poll")
    /\ ChildSends(k, FlagResponse, 0)
    /\ UNCHANGED <<inbox, parent, client, received>>

\* pollCall(1000).  What it saw may be gone when recvfrom is called.
PollReady(k) ==
    /\ children[k].pc = "poll"
    /\ inbox # << >>
    /\ Becomes(k, "recv")
    /\ UNCHANGED <<inbox, parent, clientVars>>

\* Fault: after a second of silence the child goes on waiting.
PollTimeout_retries(k) ==
    /\ children[k].pc = "poll"
    /\ inbox = << >>
    /\ UNCHANGED vars

PollTimeout(k) ==
    /\ children[k].pc = "poll"
    /\ inbox = << >>
    /\ Becomes(k, "dead")
    /\ UNCHANGED <<inbox, parent, clientVars>>

\* Fault: the sender's address overwrites setupInfo->server, as in rcopy.c.
Recv_turnsTo(k) ==
    /\ children[k].pc = "recv"
    /\ inbox # << >>
    /\ inbox' = Tail(inbox)
    /\ children' = [children EXCEPT ![k].pc = "read", ![k].server = Head(inbox).from,
         ![k].firstTaken = IF @ = NoClient THEN Head(inbox).from ELSE @]
    /\ UNCHANGED <<parent, clientVars>>

\* recvfrom: whatever is first, its sender is only noted.
Recv(k) ==
    /\ children[k].pc = "recv"
    /\ inbox # << >>
    /\ inbox' = Tail(inbox)
    /\ children' = [children EXCEPT ![k].pc = "read",
         ![k].firstTaken = IF @ = NoClient THEN Head(inbox).from ELSE @]
    /\ UNCHANGED <<parent, clientVars>>

\* One round of the loop around fread: every block goes out, one after the other,
\* whatever has been acknowledged.
SendBlock(k) ==
    /\ children[k].pc = "read"
    /\ children[k].left \notin {NoFile, 0}
    /\ children' = [children EXCEPT ![k].seq = @ + 1, ![k].left = @ - 1]
    /\ ChildSends(k, FlagData, children[k].seq)
    /\ UNCHANGED <<inbox, parent, client, received>>

EndOfFile(k) ==
    /\ children[k].pc = "read"
    /\ children[k].left = 0
    /\ Becomes(k, "poll")
    /\ UNCHANGED <<inbox, parent, clientVars>>

\* Where handleSend may crash: allocating a window of a flipped size; reading the
\* flag through a pointer never set; fread on a file that was not opened, or into
\* a slot past the end of the window.
Crash(k) ==
    /\ \/ children[k].pc = "start" /\ children[k].window # windowSize
       \/ children[k].pc = "poll" /\ inbox # << >>
       \/ /\ children[k].pc = "read"
          /\ \/ children[k].left = NoFile
             \/ children[k].left # 0 /\ children[k].seq >= children[k].window
    /\ Becomes(k, "dead")
    /\ UNCHANGED <<inbox, parent, clientVars>>

ChildStep(k) ==
    \/ handleSend(k) \/ PollReady(k) \/ PollTimeout(k)
    \/ Recv(k) \/ SendBlock(k) \/ EndOfFile(k) \/ Crash(k)

-----------------------------------------------------------------------------
\* Nothing may happen: the clients have ended, and what is left of the server
\* waits in recvfrom.
Waiting ==
    /\ \A c \in Clients : client[c] \in {"done", "crashed"}
    /\ parent = "up" => inbox = << >>
    /\ \A k \in DOMAIN children :
          Alive(k) => children[k].pc = "recv" /\ inbox = << >>
    /\ UNCHANGED vars

Init ==
    /\ inbox = << >>
    /\ parent = "up"
    /\ children = << >>
    /\ client = [c \in Clients |-> "start"]
    /\ clientBox = [c \in Clients |-> << >>]
    /\ received = [c \in Clients |-> << >>]

Next == \/ Parent
        \/ gracefulClosing
        \/ \E k \in DOMAIN children : ChildStep(k)
        \/ \E c \in Clients : ClientStep(c)
        \/ Waiting

Spec == Init /\ [][Next]_vars

\* The slots of children: pidCount counts up to LastPidCount + 1 and never down.
Slots == 1..(LastPidCount + 1)

\* Every process is scheduled.  Nothing is assumed of users or of the network.
Fairness ==
    /\ WF_vars(processClient) /\ WF_vars(handleZombies)
    /\ \A k \in Slots : WF_vars(k \in DOMAIN children /\ ChildStep(k))
    /\ \A c \in Clients : WF_vars(ClientStep(c))

FairSpec == Spec /\ Fairness

-----------------------------------------------------------------------------
ClientPacket == [flag : {FlagRR, FlagConnect, FlagUnknown}, from : Clients,
                 seq : Nat, garbled : BOOLEAN]
ServerPacket == [flag : {FlagResponse, FlagData, FlagUnknown},
                 file : Clients \cup {NoClient}, seq : Nat, garbled : BOOLEAN]

\* Types of the processes' state and of the queues between them.
TypeOK ==
    /\ inbox \in Seq(ClientPacket)
    /\ parent \in {"up", "exited", "interrupted"}
    /\ children \in Seq(Child) /\ pidCount <= LastPidCount + 1
    /\ client \in [Clients -> {"start", "connected", "loop", "done", "crashed"}]
    /\ clientBox \in [Clients -> Seq(ServerPacket)]
    /\ received \in [Clients -> Seq(ServerPacket)]

\* server.c:246.  A child takes packets of every client off the shared socket, and
\* several children run at once; yet a client only gets blocks of the file it asked
\* for, unless its connect packet was flipped, and those whose number came intact
\* each at most once and in order.
KeepsToItsClient ==
    \A c \in Clients :
      \A i \in DOMAIN received[c] :
        /\ \/ received[c][i].file = c
           \/ \E k \in DOMAIN children : children[k].server = c /\ children[k].misread
        /\ \A j \in DOMAIN received[c] :
             (i < j /\ ~received[c][i].garbled /\ ~received[c][j].garbled) =>
               received[c][i].seq < received[c][j].seq

\* rcopy.c:189-198.  An RR that is on its way acknowledges a block that the child of
\* its client has sent, through losses and crashes, unless the number was flipped in
\* the block it answers or in the RR.
AcksFollowData ==
    \A i \in DOMAIN inbox :
      (inbox[i].flag = FlagRR /\ ~inbox[i].garbled) =>
        \E k \in DOMAIN children :
            children[k].server = inbox[i].from /\ inbox[i].seq < children[k].seq

\* server.c:232-261.  A child waits for a packet before it sends the first block,
\* and its client waits for a block before it sends another packet.  So the packet
\* that sets a child going is never its own client's: it is one that was meant for
\* another child or for the parent, and a client that is alone gets no data.
FirstPacketIsForeign ==
    \A k \in DOMAIN children :
      children[k].seq > 0 => children[k].firstTaken \in Clients \ {children[k].server}

\* rcopy.c:112.  Whatever is lost, and whether or not a server is left, a client
\* that was started ends.
ClientsEnd == \A c \in Clients : <>(client[c] \in {"done", "crashed"})

\* server.c:232, 246.  A child ends after a second of silence, or else hangs in
\* recvfrom for good because another process took the packet poll told it of.
ChildrenEndOrHang ==
    \A k \in Slots :
      <>[](k \in DOMAIN children =>
             ~Alive(k) \/ (children[k].pc = "recv" /\ inbox = << >>))

\* server.c:283, "SIGCHLD handler - clean up terminated processes": the end of a
\* child does not end the server.
ServiceOutlivesTransfers == parent # "exited"
=============================================================================
