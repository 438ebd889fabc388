------------------------------- MODULE Packet -------------------------------
(***************************************************************************)
(* The packets of program3, byte by byte: the header and the checksum of   *)
(* sendData.c, the request rcopy builds (connectBuf), what the server      *)
(* reads of it (processClient), the child's answer, its blocks and what it *)
(* makes of the RRs (handleSend), the RRs rcopy sends (talkToServer), and  *)
(* the check the library makes of what it receives (recvfrom_Mod).         *)
(*                                                                         *)
(* One packet is under way at a time, behind those that wait in the        *)
(* server's socket, and none is lost; Rcopy has the other interleavings.   *)
(***************************************************************************)
EXTENDS Checksum

CONSTANTS
    Requests,       \* [name, window, size] of rcopy's arguments
    Files,          \* what the file on the server may hold
    Padding,        \* the bytes that memory not written yet may hold
    NameSize,       \* 100: what the server copies out for the name
    MAXBUF,         \* 80: what rcopy receives of a packet at most
    Others,         \* what packets of other rcopys hold where an RR has its number
    MaxFlips,       \* bound: how many bytes are flipped in a transfer
    MaxOthers,      \* bound: how many packets of other rcopys the child receives
    None

Header == 7     \* sequence number, checksum, flag

FlagRR      == 5
FlagConnect == 8
FlagAnswer  == 9
FlagData    == 16

GoodFile == <<71, 79, 79, 68, 32, 70, 73, 76, 69>>
BadFile  == <<66, 65, 68, 32, 70, 73, 76, 69>>

\* What goes over the wire, what the server reads of a request, and what a receiver
\* makes of a packet.
UdpPacket == [from : {"rcopy", "server"}, bytes : Seq(0 .. 255), flipped : BOOLEAN]
SetupInfo == [name : Seq(0 .. 255), window : Seq(0 .. 255), size : Nat]
Arrival == [packet : UdpPacket, at : {"rcopy", "server"}, buf : Seq(0 .. 255),
            verdict : Int \cup {None}, reported : BOOLEAN]

\* A name's length is a uint8_t, the window an int, and a block has to go out in
\* one datagram, in which UDP has room for 65527 bytes.
ASSUME PacketAssumption ==
    /\ NameSize \in 1 .. 256 /\ MAXBUF \in Nat /\ MAXBUF > Header
    /\ Padding \subseteq 0 .. 255 /\ Padding # {}
    /\ \A r \in Requests : /\ r.name \in Seq(1 .. 255) /\ Len(r.name) < NameSize
                           /\ r.window \in Nat /\ r.window <= 2147483647
                           /\ r.size \in Nat \ {0} /\ Header + r.size <= 65527
    /\ Files \subseteq Seq(0 .. 255)
    /\ Others \subseteq Seq(0 .. 255)
    /\ None \notin UdpPacket \cup SetupInfo \cup Arrival

VARIABLES
    order,      \* the byte orders of rcopy's machine and of the server's
    request,    \* rcopy's arguments
    file,       \* the file the server's child has opened
    setup,      \* setupInfo as the server reads it from the request, or None
    child,      \* where the child forked for it is: "none", "started", "polling"
                \* or "sending"
    seq,        \* the child's count of blocks
    held,       \* the child's buf: whose packet it is and the four bytes behind its
                \* header, [from, number], or None
    rrBuf,      \* the child's rrBuf, by its bytes
    udpHeader,  \* rcopy's pointer of that name: whether it has been set
    wire,       \* the packet under way [from, bytes, flipped], or None
    waiting,    \* the packets in the server's socket
    arrival,    \* the packet that arrived last, what was received of it, what
                \* verifyData returned (None: not called, or compared with what an
                \* unset pointer gave) and what the library reported, or None
    blocks,     \* history: the payloads rcopy has received, in order
    acks,       \* history: the number of each RR that reached the server, in order;
                \* None for one that the child did not receive
    others,     \* how many packets of other rcopys the child has received
    flips       \* how many bytes have been flipped

server == <<setup, child, seq, held, rrBuf>>
vars == <<order, request, file, server, udpHeader, wire, waiting, arrival, blocks, acks,
          others, flips>>

-----------------------------------------------------------------------------
(* sendData.c *)

\* A number stored in memory and read back byte by byte.
Native(o, n) == IF o = "little" THEN <<n % 256, n \div 256>> ELSE <<n \div 256, n % 256>>

\* The checksum is taken of the packet with a checksum of 0, and goes through
\* htons.
sendData(from, buf, sequence, flag) ==
    LET sum == ntohs(order[from], in_cksum(order[from],
                                    NetworkLong(sequence) \o <<0, 0, flag>> \o buf))
    IN  NetworkLong(sequence) \o Native(order[from], sum) \o <<flag>> \o buf

\* Fault: the checksum is not zeroed before it is taken again.
verifyData_notZeroed(at, buf) ==
    ntohs(order[at], in_cksum(order[at], buf)) - Word(order[at], buf[5], buf[6])

verifyData(at, buf) ==
    ntohs(order[at], in_cksum(order[at], [buf EXCEPT ![5] = 0, ![6] = 0]))
        - Word(order[at], buf[5], buf[6])

Send(from, buf, sequence, flag) ==
    wire' = [from |-> from, bytes |-> sendData(from, buf, sequence, flag), flipped |-> FALSE]

\* errorFlipBits: any one byte is inverted.  The library runs one event of its list
\* on a packet, so no packet is flipped twice.
Flip ==
    /\ wire # None /\ ~wire.flipped /\ flips < MaxFlips
    /\ \E i \in DOMAIN wire.bytes :
        wire' = [from |-> wire.from, flipped |-> TRUE,
                 bytes |-> [wire.bytes EXCEPT ![i] = 255 - @]]
    /\ flips' = flips + 1
    /\ UNCHANGED <<order, request, file, server, udpHeader, waiting, arrival, blocks, acks,
                   others>>

\* The library takes the checksum of the packet with the checksum in it.
recvfrom_Mod(at, buf) == in_cksum(order[at], buf) # 0

\* recvfrom: of a longer packet the first "room" bytes are received.
Received(packet, room) == SubSeq(packet.bytes, 1, Min({room, Len(packet.bytes)}))

\* The verdict is the receiver's own if it compares with the checksum it received.
Receive(packet, at, room, compares) ==
    LET buf == Received(packet, room) IN
    arrival' = [packet |-> packet, at |-> at, buf |-> buf,
                verdict |-> IF compares THEN verifyData(at, buf) ELSE None,
                reported |-> recvfrom_Mod(at, buf)]

\* The four bytes that an RR has its number in.
NumberIn(buf) == SubSeq(buf, Header + 1, Header + 4)

-----------------------------------------------------------------------------
(* The request *)

\* Fault: the numbers are not brought to network byte order.
connectBuf_native ==
    /\ wire = None /\ arrival = None
    /\ Send("rcopy", request.name \o NetworkLong(request.window)
                                  \o Native(order.rcopy, request.size), 0, FlagConnect)
    /\ UNCHANGED <<order, request, file, server, udpHeader, waiting, arrival, blocks, acks,
                   others, flips>>

\* The name goes out without a terminator.
connectBuf ==
    /\ wire = None /\ arrival = None
    /\ Send("rcopy", request.name \o NetworkLong(request.window)
                                  \o NetworkShort(request.size), 0, FlagConnect)
    /\ UNCHANGED <<order, request, file, server, udpHeader, waiting, arrival, blocks, acks,
                   others, flips>>

\* strlen of the NameSize bytes that follow the header: up to the first byte 0,
\* which in a request is one of the window's.
NameLength(buf) ==
    Min({i \in 0 .. NameSize : buf[Header + 1 + i] = 0} \cup {NameSize})

\* The name, then window and size right after it.  The window is compared by its
\* bytes: it may exceed what fits an integer here.
Parsed(buf) ==
    LET n == NameLength(buf) IN
    [name |-> SubSeq(buf, Header + 1, Header + n),
     window |-> SubSeq(buf, Header + n + 1, Header + n + 4),
     size |-> Short(buf, Header + n + 5)]

\* verifyData's result is dropped.  Behind the datagram buf holds what was there.
processClient ==
    /\ wire # None /\ wire.from = "rcopy" /\ child = "none"
    /\ Receive(wire, "server", Len(wire.bytes), TRUE)
    /\ IF wire.bytes[7] = FlagConnect
       THEN /\ \E behind \in Padding :
                 setup' = Parsed(wire.bytes \o [i \in 1 .. NameSize + 6 |-> behind])
            /\ child' = "started"
            /\ held' = [from |-> "connect", number |-> NumberIn(wire.bytes)]
       ELSE UNCHANGED <<setup, child, held>>
    /\ wire' = None
    /\ UNCHANGED <<order, request, file, seq, rrBuf, udpHeader, waiting, blocks, acks,
                   others, flips>>

-----------------------------------------------------------------------------
(* The blocks *)

Size == request.size

\* The request as it was sent; a transfer under another one is not followed beyond
\* the child's answer.
AsRequested ==
    /\ setup # None
    /\ setup = [name |-> request.name, window |-> NetworkLong(request.window), size |-> Size]

\* The file asked for is there; one of another name may be or not.
handleSend_open ==
    /\ child = "started" /\ wire = None
    /\ \E answer \in {GoodFile, BadFile} :
        /\ setup.name = request.name => answer = GoodFile
        /\ Send("server", answer, 0, FlagAnswer)
    /\ child' = "polling"
    /\ UNCHANGED <<order, request, file, setup, seq, held, rrBuf, udpHeader, waiting, arrival,
                   blocks, acks, others, flips>>

\* fread fills as much of window[k] as the file has; all of it is sent.
Block(k, pad) ==
    [j \in 1 .. Size |-> IF k * Size + j <= Len(file) THEN file[k * Size + j] ELSE pad]

AtEnd == seq * Size >= Len(file)

\* The bound by the window is the model's: past it the child writes outside of its
\* table and may crash, which Rcopy has.
handleSend ==
    /\ AsRequested /\ child = "sending" /\ wire = None
    /\ ~AtEnd /\ seq < request.window
    /\ \E pad \in Padding : Send("server", Block(seq, pad), seq, FlagData)
    /\ seq' = seq + 1
    /\ UNCHANGED <<order, request, file, setup, child, held, rrBuf, udpHeader, waiting, arrival,
                   blocks, acks, others, flips>>

\* The number of the block goes back in the payload of an RR, through ntohl and
\* htonl: its bytes are the ones that came.  Nothing is done with the answer.
talkToServer ==
    /\ wire # None /\ wire.from = "server"
    /\ Receive(wire, "rcopy", MAXBUF, udpHeader)
    /\ udpHeader' = TRUE
    /\ LET buf == Received(wire, MAXBUF) IN
       IF buf[7] = FlagData
       THEN /\ blocks' = Append(blocks, SubSeq(buf, Header + 1, Len(buf)))
            /\ wire' = [from |-> "rcopy", flipped |-> FALSE,
                        bytes |-> sendData("rcopy", SubSeq(buf, 1, 4), 0, FlagRR)]
       ELSE wire' = None /\ UNCHANGED blocks
    /\ UNCHANGED <<order, request, file, server, waiting, acks, others, flips>>

\* The socket's buffer: an RR waits there for a process of the server.
Arrive ==
    /\ child # "none"
    /\ wire # None /\ wire.from = "rcopy"
    /\ waiting' = Append(waiting, wire) /\ wire' = None
    /\ UNCHANGED <<order, request, file, server, udpHeader, arrival, blocks, acks, others, flips>>

\* The child polls at the start and once it has sent what there is.
ChildReceives ==
    /\ AsRequested
    /\ child = "polling" \/ (child = "sending" /\ AtEnd)

\* Fault: the number is taken from the packet that is received.
NextRound_fresh(from, number) ==
    /\ rrBuf' \in {rrBuf, number}
    /\ held' = [from |-> from, number |-> number]
    /\ child' = "sending"

\* A round of the child's loop up to its recvfrom.  The flag is read through a
\* pointer that is never set, and is any: rrBuf stays, or takes its bytes from the
\* packet that buf holds, the one before.
NextRound(from, number) ==
    /\ rrBuf' \in {rrBuf, held.number}
    /\ held' = [from |-> from, number |-> number]
    /\ child' = "sending"

\* The child does not check what it receives.
handleSend_RR ==
    /\ ChildReceives /\ waiting # << >>
    /\ LET packet == Head(waiting) IN
       /\ NextRound("rcopy", NumberIn(packet.bytes))
       /\ Receive(packet, "server", Len(packet.bytes), FALSE)
       /\ acks' = Append(acks, NumberIn(packet.bytes))
    /\ waiting' = Tail(waiting)
    /\ UNCHANGED <<order, request, file, setup, seq, udpHeader, wire, blocks, others, flips>>

\* The socket is that of all of the server's processes: the child receives a packet
\* of another rcopy, as far as its buf is concerned,
handleSend_other ==
    /\ ChildReceives /\ others < MaxOthers
    /\ \E number \in Others : NextRound("other", number)
    /\ others' = others + 1
    /\ UNCHANGED <<order, request, file, setup, seq, udpHeader, wire, waiting, arrival, blocks,
                   acks, flips>>

\* and another of them receives the RR, as the parent does here: no case is for it.
processClient_RR ==
    /\ waiting # << >>
    /\ Receive(Head(waiting), "server", Len(Head(waiting).bytes), TRUE)
    /\ acks' = Append(acks, None)
    /\ waiting' = Tail(waiting)
    /\ UNCHANGED <<order, request, file, server, udpHeader, wire, blocks, others, flips>>

-----------------------------------------------------------------------------
Init ==
    /\ order \in [{"rcopy", "server"} -> Orders]
    /\ request \in Requests /\ file \in Files
    /\ setup = None /\ child = "none" /\ seq = 0 /\ held = None /\ rrBuf = NetworkLong(0)
    /\ udpHeader = FALSE /\ wire = None /\ waiting = << >> /\ arrival = None
    /\ blocks = << >> /\ acks = << >> /\ others = 0 /\ flips = 0

Next ==
    \/ connectBuf \/ Flip \/ processClient \/ handleSend_open \/ handleSend \/ talkToServer
    \/ Arrive \/ handleSend_RR \/ handleSend_other \/ processClient_RR

Spec == Init /\ [][Next]_vars

-----------------------------------------------------------------------------
(* Properties *)

\* On everything sent, in_cksum is the Internet checksum whatever carries occur, and a
\* machine of the other byte order computes the same number, in its own order.  That
\* goes for odd lengths too: the byte left is mopped up alone (libcpe464/checksum.c:75-79),
\* where the comment above the function (:37-41) has it read one byte too many and wants
\* the length to be even.
ChecksumRight ==
    wire # None =>
        /\ \A o \in Orders : in_cksum(o, wire.bytes) = InternetChecksum(o, wire.bytes)
        /\ in_cksum("big", wire.bytes) = Swapped(in_cksum("little", wire.bytes))

\* verifyData returns 0 for a packet that arrived as it was sent and for no packet
\* with a byte inverted, wherever the byte is, as long as both machines have one
\* byte order.  Between machines of different order an intact packet passes only
\* if the two bytes of its checksum are the same.
VerdictTellsFlips ==
    arrival # None /\ arrival.verdict # None /\ arrival.buf = arrival.packet.bytes =>
        /\ order.rcopy = order.server => (arrival.verdict = 0 <=> ~arrival.packet.flipped)
        /\ order.rcopy # order.server /\ ~arrival.packet.flipped =>
               (arrival.verdict = 0 <=> arrival.buf[5] = arrival.buf[6])

\* The library, which takes the checksum over the whole packet, calls an intact
\* packet corrupted exactly when it comes from a little-endian machine, whose
\* htons has put the checksum's bytes the other way round, and they differ.
LibraryMisreports ==
    arrival # None /\ arrival.buf = arrival.packet.bytes /\ ~arrival.packet.flipped =>
        (arrival.reported <=> /\ order[arrival.packet.from] = "little"
                              /\ arrival.buf[5] # arrival.buf[6])

\* sendData.c:60-74, PacketManager.cpp:410-429.  Which of the two checks of a packet
\* tells a damaged one from an intact one, and between which machines.
ChecksTell == VerdictTellsFlips /\ LibraryMisreports

\* Name, window and size arrive as rcopy was given them as long as the window is
\* below 2^24: the name ends, on the wire, at the high byte of the window.
RequestArrives ==
    arrival # None /\ ~arrival.packet.flipped /\ arrival.packet.bytes[7] = FlagConnect =>
        (AsRequested <=> request.window < 16777216)

\* rcopy receives every block in its place in the file, cut to what MAXBUF leaves
\* room for; behind the end of the file it receives whatever memory held.
BlocksArrive ==
    flips = 0 =>
        \A k \in DOMAIN blocks :
            /\ Len(blocks[k]) = Min({Size, MAXBUF - Header})
            /\ \A j \in DOMAIN blocks[k] :
                LET at == (k - 1) * Size + j IN
                IF at <= Len(file) THEN blocks[k][j] = file[at] ELSE blocks[k][j] \in Padding

\* What rrBuf may hold without an RR of this transfer: its first value, the start of
\* the request that buf held at first, or what another rcopy's packet has there.
Elsewhere ==
    {NetworkLong(0)} \cup Others
        \cup {SubSeq(request.name \o NetworkLong(request.window) \o NetworkShort(request.size), 1, 4)}

\* The number in an RR that the child receives is the one it gave the block: blocks are
\* acknowledged in order, and none that was not received.  What rrBuf makes of it
\* trails: with the RR of a block in buf, it holds the number of an earlier block at
\* best, so the last RR is never looked at.
NumbersComeBack ==
    flips = 0 =>
        /\ Len(acks) <= Len(blocks)
        /\ \A k \in DOMAIN acks : acks[k] = NetworkLong(k - 1) \/ acks[k] = None
        /\ held # None /\ held.from = "rcopy" =>
            \E n \in 0 .. Len(acks) - 1 :
                /\ held.number = NetworkLong(n)
                /\ rrBuf \in Elsewhere \/ \E m \in 0 .. n - 1 : rrBuf = NetworkLong(m)

\* rcopy.c:127-200, 280-303, server.c:65-131, 181-264.  What one end writes is what the
\* other reads, for the request, the blocks and the numbers in the RRs, on any two
\* machines; the child knows of a block's RR only after a later packet.
EndsAgree == RequestArrives /\ BlocksArrive /\ NumbersComeBack
=============================================================================
