----------------------------- MODULE MCSession -----------------------------
(***************************************************************************)
(* Two DHCP servers, one of which names no gateway; a ring of two slots.   *)
(***************************************************************************)
EXTENDS Session

MCServers == {"s1", "s2"}
MCGatewayOf == [s \in MCServers |-> IF s = "s1" THEN "gw" ELSE "none"]
MCDnsOf == [s \in MCServers |-> IF s = "s1" THEN "dns" ELSE "none"]
MCGarbage == [kind |-> "garbage"]
MCFrames == {MCGarbage}
    \cup {Dhcp(t, s, mine) : t \in {"offer", "ack", "nak"}, s \in MCServers, mine \in BOOLEAN}
    \cup {ArpReply(h) : h \in {"gw", "dns"}}
    \cup {Ip(p, n) : p \in {"tcp", "udp"}, n \in 1..MaxStray}
MCBlocks == [frame : MCFrames, size : 0..2, inner : 0..2]
MCUdpFrames == {Ip("udp", 1)}

\* A frame, one that inflates beyond a slot, one too large for a slot, an empty block.
MCPacket(n, m) == [frame |-> Ip("tcp", 1), size |-> n, inner |-> m]
MCMessages == UNION {[1..n -> {MCPacket(1, 1), MCPacket(1, 2), MCPacket(2, 2), MCPacket(0, 0)}] :
                       n \in 1..3}

=============================================================================
