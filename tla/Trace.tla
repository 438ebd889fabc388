------------------------------- MODULE Trace -------------------------------
(***************************************************************************)
(* The packet trace of program1: main reads a capture packet by packet     *)
(* (trace.c) and every parser reads its header at the offsets of its       *)
(* struct (inc/) and hands the rest on.  What is printed is a record of    *)
(* the values printed; their wording and layout are left out.              *)
(*                                                                         *)
(* The program is the one built for a little-endian machine: that is how   *)
(* its bit fields lie in a byte.                                           *)
(***************************************************************************)
EXTENDS Frame

CONSTANTS
    Frames,         \* descriptions of the frames a capture may hold
    MaxPackets      \* bound: the length of a capture

ASSUME FramesAssumption == \A d \in Frames : IsFrame(d)

VARIABLES
    captured,       \* the frames read so far
    reports         \* what was printed of each

traceVars == <<captured, reports>>

\* n bytes of a struct member at an offset.
Field(packet, at, n) == SubSeq(packet, at + 1, at + n)

After(packet, n) == SubSeq(packet, n + 1, Len(packet))

ntohs_at(packet, at) == Short(packet, at + 1)

\* Does the checksum of n bytes from the start of "bytes" come out as 0?  When
\* they go past the end of the packet, whatever memory holds decides.
ChecksumVerdicts(bytes, n) ==
    IF n > Len(bytes) THEN {"Correct", "Incorrect"}
    ELSE {IF in_cksum("little", SubSeq(bytes, 1, n)) = 0 THEN "Correct" ELSE "Incorrect"}

-----------------------------------------------------------------------------
(* The parsers *)

\* A reply or a request of ARP; of another operation the line is left out.
get_arp_info(packet) ==
    [section |-> "ARP",
     opcode |-> CASE ntohs_at(packet, 6) = 1 -> "Request"
                  [] ntohs_at(packet, 6) = 2 -> "Reply"
                  [] OTHER -> "",
     senderMac |-> Field(packet, 8, 6), senderIp |-> Field(packet, 14, 4),
     targetMac |-> Field(packet, 18, 6), targetIp |-> Field(packet, 24, 4)]

get_icmp_info(packet) ==
    [section |-> "ICMP",
     type |-> CASE packet[1] = 0 -> <<"Reply">>
                [] packet[1] = 8 -> <<"Request">>
                [] OTHER -> <<"", packet[1]>>]

\* A port that has a name is printed by it, any other by its number.
PortPrinted(n) ==
    CASE n = 53 -> <<"DNS">> [] n = 23 -> <<"Telnet">> [] n = 80 -> <<"HTTP">>
      [] n = 20 -> <<"FTP">> [] n = 110 -> <<"POP3">> [] n = 25 -> <<"SMTP">>
      [] OTHER -> <<"", n>>

get_udp_info(packet) ==
    [section |-> "UDP",
     srcPort |-> PortPrinted(ntohs_at(packet, 0)),
     destPort |-> PortPrinted(ntohs_at(packet, 2))]

Bit(byte, value) == (byte \div value) % 2 = 1

\* Fault: rst_flag lies above psh_flag.
tcp_t_flags_swapped(byte) ==
    [SYN |-> Bit(byte, 2), RST |-> Bit(byte, 8), FIN |-> Bit(byte, 1), ACK |-> Bit(byte, 16)]

tcp_t_flags(byte) ==
    [SYN |-> Bit(byte, 2), RST |-> Bit(byte, 4), FIN |-> Bit(byte, 1), ACK |-> Bit(byte, 16)]

\* The pseudo header and as many bytes behind it as its tcp_len says.
get_tcp_info_verdicts(packet, psHead, tcpLen) ==
    ChecksumVerdicts(psHead \o packet, 12 + tcpLen)

get_tcp_info(packet, psHead, tcpLen) ==
    [section : {"TCP"},
     srcPort : {PortPrinted(ntohs_at(packet, 0))},
     destPort : {PortPrinted(ntohs_at(packet, 2))},
     seqNum : {Field(packet, 4, 4)}, ack : {Field(packet, 8, 4)},
     dataOffset : {4 * (packet[13] \div 16)},
     flags : {tcp_t_flags(packet[14])},
     window : {ntohs_at(packet, 14)},
     covered : {tcpLen},
     checksum : get_tcp_info_verdicts(packet, psHead, tcpLen)]

\* The length of a header in bytes.
HeaderLen(packet) == 4 * (packet[1] % 16)

\* Fault: the IP header counts as part of the segment.
tcp_len_withHeader(packet) == ntohs_at(packet, 2) % 65536

\* A uint16_t: it wraps when the total length is below that of the header.
tcp_len(packet) == (ntohs_at(packet, 2) - HeaderLen(packet)) % 65536

\* struct tcp_ps_head as get_ip_info fills it in.
ps_head(packet) ==
    Field(packet, 12, 4) \o Field(packet, 16, 4) \o <<0, packet[10]>>
        \o NetworkShort(tcp_len(packet))

\* The parser of the next header; none for a protocol that has no case.  The
\* fragment offset is not looked at.
NextHeaders(packet) ==
    LET next == After(packet, HeaderLen(packet)) IN
    CASE packet[10] = 1 -> {get_icmp_info(next)}
      [] packet[10] = 6 -> get_tcp_info(next, ps_head(packet), tcp_len(packet))
      [] packet[10] = 17 -> {get_udp_info(next)}
      [] OTHER -> {[section |-> "none"]}

get_ip_info_verdicts(packet) == ChecksumVerdicts(packet, HeaderLen(packet))

get_ip_info(packet) ==
    [section : {"IP"},
     version : {packet[1] \div 16}, headerLen : {HeaderLen(packet)},
     dscp : {packet[2] \div 4}, ecn : {packet[2] % 4}, ttl : {packet[9]},
     proto : {CASE packet[10] = 1 -> "ICMP" [] packet[10] = 6 -> "TCP"
                [] packet[10] = 17 -> "UDP" [] OTHER -> "Unknown"},
     checksum : get_ip_info_verdicts(packet),
     sender : {Field(packet, 12, 4)}, dest : {Field(packet, 16, 4)},
     next : NextHeaders(packet)]

\* The reports a frame may get.
get_eth_info(packet) ==
    LET type == ntohs_at(packet, 12)
        rest == After(packet, 14)
    IN  [section : {"Ethernet"},
         dest : {Field(packet, 0, 6)}, src : {Field(packet, 6, 6)},
         type : {CASE type = TypeOf.ip -> "IP" [] type = TypeOf.arp -> "ARP"
                   [] OTHER -> "Unknown"},
         next : CASE type = TypeOf.ip -> get_ip_info(rest)
                  [] type = TypeOf.arp -> {get_arp_info(rest)}
                  [] OTHER -> {[section |-> "none"]}]

-----------------------------------------------------------------------------
TraceInit == captured = << >> /\ reports = << >>

\* One round of main's loop: pcap_next_ex found a packet.
NextPacket ==
    /\ Len(captured) < MaxPackets
    /\ \E d \in Frames :
        /\ captured' = Append(captured, d)
        /\ \E report \in get_eth_info(FrameBytes(d)) :
            reports' = Append(reports, [number |-> Len(captured) + 1, eth |-> report])

TraceSpec == TraceInit /\ [][NextPacket]_traceVars

-----------------------------------------------------------------------------
(* Properties *)

\* The names the trace knows ports by (tcp_parse.c:21-67). FTP is 20 here, the data
\* port; IANA assigns the control connection 21.
AssignedPort ==
    [DNS |-> 53, Telnet |-> 23, HTTP |-> 80, FTP |-> 20, POP3 |-> 110, SMTP |-> 25]

Names(printed, port) ==
    \/ printed = <<"", port>>
    \/ Len(printed) = 1 /\ AssignedPort[printed[1]] = port

TransportReported(r, t) ==
    CASE t.proto = 6 ->
           /\ r.section = "TCP" /\ Names(r.srcPort, t.srcPort) /\ Names(r.destPort, t.destPort)
           /\ r.seqNum = t.seqNum /\ r.ack = t.ack /\ r.window = t.window
           /\ r.dataOffset = 4 * t.dataOffset
           /\ \A f \in DOMAIN r.flags : r.flags[f] <=> f \in t.flags
      [] t.proto = 17 ->
           r.section = "UDP" /\ Names(r.srcPort, t.srcPort) /\ Names(r.destPort, t.destPort)
      [] t.proto = 1 ->
           /\ r.section = "ICMP"
           /\ r.type \in {<<"", t.type>>} \cup
                 (CASE t.type = 0 -> {<<"Reply">>} [] t.type = 8 -> {<<"Request">>} [] OTHER -> {})
      [] OTHER -> r.section = "none"

\* The report of a packet is what was sent: every parser reads at the offsets of
\* the standards, behind headers of any length, and each layer finds the next.  A
\* later fragment has no transport header, and what is printed for one is not
\* covered.
ReportsWhatWasSent ==
    \A k \in DOMAIN reports :
        LET d == captured[k]
            r == reports[k].eth
            n == r.next
        IN  /\ reports[k].number = k
            /\ r.dest = d.destMac /\ r.src = d.srcMac
            /\ CASE d.kind = "other" -> r.type = "Unknown" /\ n.section = "none"
                 [] d.kind = "arp" ->
                      /\ r.type = "ARP"
                      /\ d.op \in {1, 2} => n.opcode = <<"Request", "Reply">>[d.op]
                      /\ n.senderMac = d.senderMac /\ n.senderIp = d.senderIp
                      /\ n.targetMac = d.targetMac /\ n.targetIp = d.targetIp
                 [] d.kind = "ip" ->
                      /\ r.type = "IP"
                      /\ n.version = 4 /\ n.headerLen = 4 * d.ihl
                      /\ n.dscp = d.dscp /\ n.ecn = d.ecn /\ n.ttl = d.ttl
                      /\ n.sender = d.src /\ n.dest = d.dest
                      /\ d.fragment = 0 => TransportReported(n.next, d.transport)

\* A checksum is called correct exactly when the packet is intact: the IP header's
\* over all of its options, TCP's over segments of odd length and whatever padding
\* Ethernet has put behind them.  TCP's is only claimed where the segment is whole
\* and the total length was filled in.
ChecksumsJudged ==
    \A k \in DOMAIN reports :
        LET d == captured[k]
            ip == reports[k].eth.next
        IN  d.kind = "ip" =>
                /\ (ip.checksum = "Correct") <=> d.intact
                /\ d.transport.proto = 6 /\ ~d.offloaded /\ d.fragment = 0 =>
                       ((ip.next.checksum = "Correct") <=> d.transport.intact)

\* The checksum of TCP runs over the segment and nothing else, except in a packet
\* captured before its total length was filled in: 0 less the header length wraps
\* to nearly 2^16, and the checksum runs that far past the packet.
CoversTheSegment ==
    \A k \in DOMAIN reports :
        LET d == captured[k] IN
        d.kind = "ip" =>
            (d.transport.proto = 6 =>
                reports[k].eth.next.next.covered =
                    IF d.offloaded THEN 65536 - 4 * d.ihl ELSE Len(Segment(d)))

\* ip_parse.c:46-52, 70-71, tcp_parse.c:98-111.  Both checksums are taken over what they are
\* defined over, and the verdicts are right wherever that is so.
ChecksumsRight == ChecksumsJudged /\ CoversTheSegment
=============================================================================
