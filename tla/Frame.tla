------------------------------- MODULE Frame -------------------------------
(***************************************************************************)
(* Ethernet frames as the standards lay them out: the reference that the   *)
(* packet trace of program1 is checked against.  A frame is described by a *)
(* record; FrameBytes gives its bytes.                                     *)
(*                                                                         *)
(*   [kind |-> "arp", op, senderMac, senderIp, targetMac, targetIp]        *)
(*   [kind |-> "ip", ihl, dscp, ecn, ttl, src, dest, offloaded, fragment,  *)
(*    pad, intact, transport]                                              *)
(*   [kind |-> "other", type]                                              *)
(*                                                                         *)
(* An offloaded packet was captured before the network card filled in its  *)
(* total length, which is 0.  "fragment" is the fragment offset.  A packet *)
(* or a segment that is not intact has a byte inverted after its checksum  *)
(* was taken.  "pad" is what Ethernet adds to a short frame.               *)
(***************************************************************************)
EXTENDS Checksum

TypeOf == [ip |-> 2048, arp |-> 2054]       \* 0x0800 and 0x0806

WithChecksum(bytes, at, sum) ==
    [bytes EXCEPT ![at] = sum \div 256, ![at + 1] = sum % 256]

\* The byte at "at" is inverted.
Damaged(bytes, at) == [bytes EXCEPT ![at] = 255 - @]

\* RFC 826
ArpBytes(d) ==
    <<0, 1, 8, 0, 6, 4>> \o NetworkShort(d.op)
        \o d.senderMac \o d.senderIp \o d.targetMac \o d.targetIp

\* RFC 793: the flags from the low bit of byte 13 on.
FlagsByte(flags) ==
    LET bit(f, value) == IF f \in flags THEN value ELSE 0
    IN  bit("FIN", 1) + bit("SYN", 2) + bit("RST", 4)
            + bit("PSH", 8) + bit("ACK", 16) + bit("URG", 32)

TcpHeader(t) ==
    NetworkShort(t.srcPort) \o NetworkShort(t.destPort) \o t.seqNum \o t.ack
        \o <<16 * t.dataOffset, FlagsByte(t.flags)>>
        \o NetworkShort(t.window) \o <<0, 0, 0, 0>>
        \o [i \in 1 .. 4 * (t.dataOffset - 5) |-> 1]

TcpSegment(d, t) ==
    LET segment == TcpHeader(t) \o t.payload
        pseudo == d.src \o d.dest \o <<0, 6>> \o NetworkShort(Len(segment))
        whole == WithChecksum(segment, 17, InternetChecksum("big", pseudo \o segment))
    IN  IF t.intact THEN whole ELSE Damaged(whole, Len(whole))

\* RFC 768 and RFC 792; a transport of another protocol is its payload.
Segment(d) ==
    LET t == d.transport IN
    CASE t.proto = 6 -> TcpSegment(d, t)
      [] t.proto = 17 -> NetworkShort(t.srcPort) \o NetworkShort(t.destPort) \o <<0, 8, 0, 0>>
      [] t.proto = 1 -> <<t.type, 0, 0, 0, 0, 0, 0, 0>>
      [] OTHER -> t.payload

\* RFC 791
IpHeader(d) ==
    LET total == IF d.offloaded THEN 0 ELSE 4 * d.ihl + Len(Segment(d))
        header == <<64 + d.ihl, 4 * d.dscp + d.ecn>> \o NetworkShort(total)
                  \o <<0, 7>> \o NetworkShort(d.fragment)
                  \o <<d.ttl, d.transport.proto, 0, 0>> \o d.src \o d.dest
                  \o [i \in 1 .. 4 * (d.ihl - 5) |-> 1]
        whole == WithChecksum(header, 11, InternetChecksum("big", header))
    IN  IF d.intact THEN whole ELSE Damaged(whole, 6)

FrameBytes(d) ==
    d.destMac \o d.srcMac \o
    CASE d.kind = "arp" -> NetworkShort(TypeOf.arp) \o ArpBytes(d)
      [] d.kind = "ip" -> NetworkShort(TypeOf.ip) \o IpHeader(d) \o Segment(d) \o d.pad
      [] d.kind = "other" -> NetworkShort(d.type)

-----------------------------------------------------------------------------
(* What a description may say *)

IsBytes(b, n) == b \in Seq(0 .. 255) /\ Len(b) = n

IsShort(n) == n \in Nat /\ n <= 65535

IsTransport(t) ==
    /\ t.proto \in 0 .. 255
    /\ t.proto \in {6, 17} => IsShort(t.srcPort) /\ IsShort(t.destPort)
    /\ t.proto = 6 =>
         /\ IsBytes(t.seqNum, 4) /\ IsBytes(t.ack, 4) /\ IsShort(t.window)
         /\ t.dataOffset \in 5 .. 15 /\ t.intact \in BOOLEAN
         /\ t.flags \subseteq {"FIN", "SYN", "RST", "PSH", "ACK", "URG"}
    /\ t.proto = 1 => t.type \in 0 .. 255
    /\ t.proto \notin {1, 17} => t.payload \in Seq(0 .. 255)

\* The total length of an IP packet has two bytes.
IsIpPacket(d) ==
    /\ d.ihl \in 5 .. 15 /\ d.dscp \in 0 .. 63 /\ d.ecn \in 0 .. 3 /\ d.ttl \in 0 .. 255
    /\ IsBytes(d.src, 4) /\ IsBytes(d.dest, 4) /\ d.pad \in Seq(0 .. 255)
    /\ IsShort(d.fragment) /\ d.offloaded \in BOOLEAN /\ d.intact \in BOOLEAN
    /\ IsTransport(d.transport) /\ IsShort(4 * d.ihl + Len(Segment(d)))

IsFrame(d) ==
    /\ IsBytes(d.destMac, 6) /\ IsBytes(d.srcMac, 6)
    /\ \/ /\ d.kind = "arp" /\ IsShort(d.op)
          /\ IsBytes(d.senderMac, 6) /\ IsBytes(d.senderIp, 4)
          /\ IsBytes(d.targetMac, 6) /\ IsBytes(d.targetIp, 4)
       \/ d.kind = "ip" /\ IsIpPacket(d)
       \/ d.kind = "other" /\ IsShort(d.type) /\ d.type \notin {TypeOf.ip, TypeOf.arp}
=============================================================================
