------------------------------ MODULE MCTrace ------------------------------
(* Values of Trace's constants for TLC. *)
EXTENDS Trace

MacA == <<0, 1, 2, 3, 4, 5>>
MacB == <<160, 177, 194, 211, 228, 255>>
IpA == <<192, 168, 1, 2>>
IpB == <<10, 255, 0, 1>>

ArpFrames ==
    [kind : {"arp"}, destMac : {MacA}, srcMac : {MacB}, op : {1, 2, 3},
     senderMac : {MacB}, senderIp : {IpA}, targetMac : {MacA}, targetIp : {IpB}]

OtherFrames == [kind : {"other"}, destMac : {MacB}, srcMac : {MacA}, type : {34525}]

TcpSegments(srcPorts, dataOffsets, flagSets, payloads, intact) ==
    [proto : {6}, srcPort : srcPorts, destPort : {25}, seqNum : {<<255, 0, 0, 1>>},
     ack : {<<0, 0, 0, 9>>}, dataOffset : dataOffsets, flags : flagSets,
     window : {258}, payload : payloads, intact : intact]

UdpSegments == [proto : {17}, srcPort : {110}, destPort : {20, 23}]
IcmpSegments == [proto : {1}, type : {0, 8, 11}]
OtherSegments == [proto : {89}, payload : {<<1, 2>>}]

IpFrames(transports, offloaded, fragments, pads, intact) ==
    [kind : {"ip"}, destMac : {MacA}, srcMac : {MacB}, ihl : {5, 6},
     dscp : {46}, ecn : {1}, ttl : {64}, src : {IpA}, dest : {IpB},
     offloaded : offloaded, fragment : fragments, pad : pads,
     intact : intact, transport : transports]

\* Every combination of what decides on the checksums; the rest one by one.
MCFrames ==
    ArpFrames \cup OtherFrames
        \cup IpFrames(TcpSegments({53}, {5, 6}, {{"SYN"}}, {<< >>, <<255, 255, 7>>}, BOOLEAN),
                      BOOLEAN, {0}, {<< >>, <<9, 0, 255>>}, BOOLEAN)
        \cup IpFrames(TcpSegments({49152}, {5}, {{"FIN", "ACK"}, {"RST"}, {"PSH", "ACK"}},
                                  {<<1>>}, {TRUE}),
                      {FALSE}, {0, 1}, {<< >>}, {TRUE})
        \cup IpFrames(UdpSegments \cup IcmpSegments \cup OtherSegments,
                      {FALSE}, {0, 1}, {<<9>>}, {TRUE})
=============================================================================
