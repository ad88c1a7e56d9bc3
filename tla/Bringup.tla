------------------------------ MODULE Bringup ------------------------------
(***************************************************************************)
(* From a logged-in connection to a configured tunnel: nativeDoDhcp        *)
(* (softether_do_dhcp, then softether_resolve_gateway for the gateway and, *)
(* failing that, for the DNS server), each of them a consumer of the one   *)
(* receive queue.                                                          *)
(*                                                                         *)
(* Everything the server has sent waits in `wire', in order; a protocol    *)
(* message is any prefix of it.  The DHCP servers and the other hosts of   *)
(* the virtual LAN are external: they may answer late, more than once or   *)
(* not at all, and their broadcasts for others reach us too.               *)
(***************************************************************************)
EXTENDS RecvQueue

CONSTANTS
    Servers,        \* DHCP servers; s also names the address s leases
    GatewayOf,      \* the router option of each server, NoAddr when absent
    DnsOf,          \* its DNS option
    NoAddr,
    MaxRetries,     \* DHCP_MAX_RETRIES
    DhcpTimeout,    \* DHCP_TIMEOUT_MS in polls
    ArpPolls, ArpAttempts,
    MaxWire,        \* bound: blocks under way
    MaxStray        \* bound: frames nobody asked for

VARIABLES
    bpc,            \* where the bring-up is
    retry, elapsed, \* softether_do_dhcp, wait_dhcp_response
    lease,          \* dhcp_result_t and server_id
    assigned,       \* conn->assigned_ip
    gwIp, gwMac,    \* conn->gateway_ip, conn->gateway_mac (NoAddr: not resolved)
    gwCall,         \* first or second call of softether_resolve_gateway
    polls,          \* receive calls made by softether_resolve_gateway
    up,             \* conn->state == STATE_CONNECTED
    broken,         \* the primary socket has failed
    wire,           \* blocks under way to us
    todo,           \* what each server has received and not answered
    bound,          \* servers holding a lease for us
    arpAsked,       \* addresses we have sent an ARP request for
    strays          \* unsolicited frames so far

clientVars == <<bpc, retry, elapsed, lease, assigned, gwIp, gwMac, gwCall, polls, up, broken>>
lanVars == <<wire, todo, bound, arpAsked, strays>>
bringupVars == <<queueVars, clientVars, lanVars>>

Dhcp(type, s, mine) == [kind |-> "dhcp", type |-> type, from |-> s, mine |-> mine]
ArpReply(h) == [kind |-> "arp_reply", from |-> h]
Ip(path, n) == [kind |-> "ip", path |-> path, n |-> n]
Whole(f) == [frame |-> f, size |-> 1, inner |-> 1]

Hosts == UNION {{GatewayOf[s], DnsOf[s]} : s \in Servers} \ {NoAddr}
NoLease == [ip |-> NoAddr, gw |-> NoAddr, dns |-> NoAddr, sid |-> NoAddr]

Idle == [s \in Servers |-> {}]

BringupInit ==
    /\ QueueInit
    /\ bpc = "off" /\ retry = 0 /\ elapsed = 0 /\ lease = NoLease /\ assigned = NoAddr
    /\ gwIp = NoAddr /\ gwMac = NoAddr /\ gwCall = 1 /\ polls = 0 /\ up = TRUE /\ broken = FALSE
    /\ wire = <<>> /\ todo = Idle
    /\ bound = {} /\ arpAsked = {} /\ strays = 0

InDhcp == bpc \in {"offer", "ack"}
Receiving == InDhcp \/ (bpc = "arp" /\ polls < ArpPolls * ArpAttempts)

-----------------------------------------------------------------------------
(* The receive queue, called by whichever phase is receiving.               *)

Poll ==
    /\ Receiving
    /\ \/ FillNothing /\ (broken \/ ~up => rc' = "-1") /\ UNCHANGED <<wire, broken, strays>>
       \/ /\ up /\ ~broken
          /\ \E n \in 1..Len(wire) : /\ n <= QueueSize + 1 /\ FillMessage(SubSeq(wire, 1, n))
                                     /\ wire' = SubSeq(wire, n + 1, Len(wire))
          /\ UNCHANGED <<broken, strays>>
       \/ /\ up /\ strays < MaxStray /\ strays' = strays + 1
          /\ Drain(Ip("udp", strays'))
          /\ UNCHANGED <<wire, broken>>
       \/ (ReadBlock \/ FillEnd) /\ UNCHANGED <<wire, broken, strays>>
       \/ ReadFails /\ broken' = (rc' = "-1") /\ UNCHANGED <<wire, strays>>
    /\ UNCHANGED <<bpc, retry, elapsed, lease, assigned, gwIp, gwMac, gwCall, polls, up,
                   todo, bound, arpAsked>>

-----------------------------------------------------------------------------
(* softether_do_dhcp.                                                       *)

RetryUncounted == bpc' = "discover" /\ retry' = retry
Retry == bpc' = "discover" /\ retry' = retry + 1

Discover ==
    /\ bpc = "discover"
    /\ \/ /\ up /\ retry < MaxRetries
          /\ todo' = [s \in Servers |-> todo[s] \cup {"discover"}]
          /\ bpc' = "offer" /\ elapsed' = 0
       \/ bpc' = "failed" /\ UNCHANGED <<todo, elapsed>>    \* out of retries, or no send
    /\ UNCHANGED <<queueVars, retry, lease, assigned, gwIp, gwMac, gwCall, polls, up, broken,
                   wire, bound, arpAsked, strays>>

Request ==
    /\ bpc = "request"
    /\ \/ /\ up /\ todo' = [todo EXCEPT ![lease.sid] = @ \cup {"request"}]
          /\ bpc' = "ack" /\ elapsed' = 0
       \/ bpc' = "failed" /\ UNCHANGED <<todo, elapsed>>
    /\ UNCHANGED <<queueVars, retry, lease, assigned, gwIp, gwMac, gwCall, polls, up, broken,
                   wire, bound, arpAsked, strays>>

\* parse_dhcp_response: an absent option leaves what an earlier message said.
Parse(f) ==
    IF f.type = "nak"
      THEN [lease EXCEPT !.ip = NoAddr, !.sid = f.from]
      ELSE [ip |-> f.from, sid |-> f.from,
            gw |-> IF GatewayOf[f.from] # NoAddr THEN GatewayOf[f.from] ELSE lease.gw,
            dns |-> IF DnsOf[f.from] # NoAddr THEN DnsOf[f.from] ELSE lease.dns]
ForAnyone(f) == f.kind = "dhcp"
ForUs(f) == f.kind = "dhcp" /\ f.mine

\* nativeDoDhcp after an ACK; what the servers still send counts as stray from now on.
Leased ==
    /\ IF lease'.gw # NoAddr
         THEN bpc' = "gateway" /\ assigned' = lease'.ip
         ELSE bpc' = "done" /\ UNCHANGED assigned
    /\ retry' = 0 /\ todo' = Idle

\* A frame in wait_dhcp_response.
DhcpFrame ==
    /\ InDhcp /\ up /\ Dequeue
    /\ lease' = IF ForUs(FrontFrame) THEN Parse(FrontFrame) ELSE lease
    /\ \/ /\ ~ForUs(FrontFrame) /\ UNCHANGED <<bpc, retry, assigned, todo>>
       \/ /\ ForUs(FrontFrame) /\ bpc = "offer" /\ FrontFrame.type = "offer"
          /\ bpc' = "request" /\ UNCHANGED <<retry, assigned, todo>>
       \/ /\ ForUs(FrontFrame) /\ bpc = "ack" /\ FrontFrame.type = "ack"
          /\ Leased
       \/ /\ ForUs(FrontFrame) /\ bpc = "ack" /\ FrontFrame.type = "nak"
          /\ bpc' = "failed" /\ UNCHANGED <<retry, assigned, todo>>
       \/ /\ ForUs(FrontFrame) /\ <<bpc, FrontFrame.type>> \in {<<"offer", "ack">>, <<"offer", "nak">>, <<"ack", "offer">>}
          /\ Retry /\ UNCHANGED <<assigned, todo>>
    /\ elapsed' = IF bpc' = bpc THEN elapsed ELSE 0
    /\ UNCHANGED <<gwIp, gwMac, gwCall, polls, up, broken, wire, bound, arpAsked, strays>>

\* Nothing to read: only this counts towards the timeout.  An error ends the exchange.
DhcpIdle ==
    /\ InDhcp
    /\ \/ /\ up /\ rc = "0" /\ elapsed' = elapsed + 1
          /\ IF elapsed' >= DhcpTimeout THEN Retry ELSE UNCHANGED <<bpc, retry>>
       \/ /\ rc = "-1" \/ ~up
          /\ bpc' = "failed" /\ UNCHANGED <<retry, elapsed>>
    /\ Consumed
    /\ UNCHANGED <<lease, assigned, gwIp, gwMac, gwCall, polls, up, broken, lanVars>>

-----------------------------------------------------------------------------
(* softether_resolve_gateway, called for the gateway and then for the DNS   *)
(* server: ArpAttempts rounds of ArpPolls receive calls, the request being  *)
(* sent first and after every round.                                        *)

AskGateway ==
    /\ bpc = "gateway" /\ polls' = 0
    /\ \/ /\ up /\ bpc' = "arp"
          /\ gwIp' = IF gwCall = 1 THEN lease.gw ELSE lease.dns
          /\ arpAsked' = arpAsked \cup {gwIp'}
       \/ ~up /\ bpc' = "done" /\ UNCHANGED <<gwIp, arpAsked>>
    /\ UNCHANGED <<queueVars, retry, elapsed, lease, assigned, gwMac, gwCall, up, broken,
                   wire, todo, bound, strays>>

FromAnyone(f) == f.kind = "arp_reply"
FromGateway(f) == f.kind = "arp_reply" /\ f.from = gwIp

\* One receive call of the wait; whatever it returns other than the reply is dropped.
ArpPoll ==
    /\ bpc = "arp" /\ polls < ArpPolls * ArpAttempts /\ polls' = polls + 1
    /\ \/ /\ up /\ Dequeue
          /\ IF FromGateway(FrontFrame)
               THEN gwMac' = FrontFrame.from /\ bpc' = "done"
               ELSE UNCHANGED <<gwMac, bpc>>
       \/ /\ rc \in {"0", "-1"} \/ ~up
          /\ Consumed /\ UNCHANGED <<gwMac, bpc>>
    /\ arpAsked' = IF up /\ bpc' = "arp" /\ polls' % ArpPolls = 0
                     THEN arpAsked \cup {gwIp} ELSE arpAsked
    /\ UNCHANGED <<retry, elapsed, lease, assigned, gwIp, gwCall, up, broken,
                   wire, todo, bound, strays>>

ArpGivesUp ==
    /\ bpc = "arp" /\ polls = ArpPolls * ArpAttempts
    /\ IF gwCall = 1 /\ lease.dns # NoAddr
         THEN gwCall' = 2 /\ bpc' = "gateway"
         ELSE bpc' = "done" /\ UNCHANGED gwCall
    /\ UNCHANGED <<queueVars, retry, elapsed, lease, assigned, gwIp, gwMac, polls, up, broken,
                   lanVars>>

\* softether_disconnect, from another thread.
Disconnected ==
    /\ bpc \notin {"off", "done", "failed"} /\ up /\ up' = FALSE
    /\ UNCHANGED <<queueVars, bpc, retry, elapsed, lease, assigned, gwIp, gwMac, gwCall, polls,
                   broken, lanVars>>

-----------------------------------------------------------------------------
(* The virtual LAN.                                                         *)

Arrives(b) == Len(wire) < MaxWire /\ wire' = Append(wire, b)

ServerAnswers(s) ==
    \/ /\ "discover" \in todo[s] /\ Arrives(Whole(Dhcp("offer", s, TRUE)))
       /\ todo' = [todo EXCEPT ![s] = @ \ {"discover"}] /\ UNCHANGED bound
    \/ /\ "request" \in todo[s] /\ Arrives(Whole(Dhcp("ack", s, TRUE)))
       /\ todo' = [todo EXCEPT ![s] = @ \ {"request"}] /\ bound' = bound \cup {s}
    \/ /\ "request" \in todo[s] /\ s \notin bound /\ Arrives(Whole(Dhcp("nak", s, TRUE)))
       /\ todo' = [todo EXCEPT ![s] = @ \ {"request"}] /\ UNCHANGED bound

\* What we never asked for: gratuitous ARP, an answer of a server to another client,
\* a packet.
StrayBlocks(n) ==
    {Whole(ArpReply(h)) : h \in IF bpc = "arp" THEN Hosts ELSE {}}
    \cup {Whole(Dhcp("ack", s, FALSE)) : s \in IF InDhcp THEN Servers ELSE {}}
    \cup {Whole(Ip("tcp", n))}

Lan ==
    /\ Receiving /\ up /\ ~broken
    /\ \/ InDhcp /\ \E s \in Servers : ServerAnswers(s) /\ UNCHANGED <<arpAsked, strays>>
       \/ /\ strays < MaxStray /\ strays' = strays + 1
          /\ \E b \in StrayBlocks(strays') : Arrives(b)
          /\ UNCHANGED <<todo, bound, arpAsked>>
       \/ /\ \E h \in arpAsked : Arrives(Whole(ArpReply(h))) /\ arpAsked' = arpAsked \ {h}
          /\ UNCHANGED <<todo, bound, strays>>
    /\ UNCHANGED <<queueVars, clientVars>>

BringupStep == \/ Poll \/ Discover \/ Request \/ DhcpFrame \/ DhcpIdle
               \/ AskGateway \/ ArpPoll \/ ArpGivesUp
BringupNext == BringupStep \/ Disconnected \/ Lan

-----------------------------------------------------------------------------
\* A bring-up that reports success holds a lease: the address it configures is one
\* the server named in the lease has bound to it, with that server's gateway, whatever
\* offers and acknowledgements of other servers or of an earlier retry (all of them
\* with the same transaction id) arrived in between.
LeaseIsBound ==
    bpc \in {"gateway", "arp", "done"} =>
        /\ lease.ip \in bound /\ lease.sid = lease.ip
        /\ GatewayOf[lease.sid] \in {NoAddr, lease.gw}
        /\ assigned \in {NoAddr, lease.ip}

\* Outgoing packets go to the station that answered for the address being resolved: a
\* late reply for the gateway is not taken for the DNS server's.
GatewayMacIsGateways ==
    gwMac \in {NoAddr, gwIp}

=============================================================================
