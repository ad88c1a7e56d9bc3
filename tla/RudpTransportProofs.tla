------------------------ MODULE RudpTransportProofs ------------------------
(***************************************************************************)
(* Proofs about RudpTransport, for every window, segment, FIFO and buffer  *)
(* size and every bound.  The inductive invariant adds to the properties   *)
(* what is known of the datagrams in flight and of the pending ACKs.       *)
(***************************************************************************)
EXTENDS RudpTransport, FiniteSetTheorems, SequenceTheorems, TLAPS

\* A datagram to the client only acknowledges what the server has, and its
\* payload is a segment the server queued.
NetCOK ==
  \A p \in netC : /\ 1..p.max_ack \subseteq peer_got /\ p.acks \subseteq peer_got
                  /\ p.data => p.seq \in 1..Len(peer_log)

\* A datagram to the server only acknowledges what the client holds, and its
\* payload is a segment the client queued.
NetPOK ==
  \A p \in netP : /\ p.max_ack <= last_recv_complete_seq
                  /\ \A s \in p.acks : Held(s)
                  /\ p.data => p.seq \in 1..(next_send_seq - 1)

\* The ACKs still to be sent are for segments the client holds.
ReplyAcksOK == \A s \in reply_acks : Held(s)

\* The bound on the server's sequence numbers.
PeerLogBound == Len(peer_log) <= MaxPeerSeq

\* The inductive invariant: the properties and what supports them.
IInv ==
  /\ PeerLogBound
  /\ TypeOK /\ NetCOK /\ NetPOK /\ ReplyAcksOK
  /\ SendWindow /\ AckedIsReceived /\ PeerAckedIsHeld /\ DeliveredInOrder

\* What the worker may send, and what the server may send, in a state.
ClientDatagram(p) ==
  /\ p \in Packets /\ p.max_ack = last_recv_complete_seq /\ p.acks \subseteq reply_acks
  /\ p.data => p.seq \in 1..(next_send_seq - 1)

PeerDatagram(p) ==
  /\ p \in Packets /\ 1..p.max_ack \subseteq peer_got /\ p.acks \subseteq peer_got
  /\ p.data => p.seq \in 1..Len(peer_log)

\* The network never holds what was not in it or sent.
LEMMA CarriedSubset ==
  \A net, pkts : \A kept \in Carried(net, pkts) : kept \subseteq net \cup pkts
BY DEF Carried

\* Every datagram the worker builds is well formed and acknowledges only
\* pending ACKs.
LEMMA DatagramOK ==
  ASSUME TypeOK, NEW k \in {"init", "seg", "disc"}, NEW a \in SUBSET reply_acks,
         NEW s \in Nat, NEW d \in BOOLEAN, d => s \in 1..(next_send_seq - 1)
  PROVE  ClientDatagram(Datagram(k, a, s, d))
<1>1. a \in SUBSET Nat /\ last_recv_complete_seq \in Nat
  BY DEF TypeOK, RecvTypes
<1>2. Datagram(k, a, s, d) \in Packets
  BY <1>1 DEF Datagram, Packets
<1> QED BY <1>2 DEF Datagram, ClientDatagram

\* What rt_set_disconnected may change: the session ends, and only disconnect
\* segments are sent.
LEMMA SetDisconnectedEffect ==
  ASSUME TypeOK, NEW b \in BOOLEAN, rt_set_disconnected(b)
  PROVE  /\ status' = "DISCONNECTED" /\ pair_shut' = TRUE
         /\ result' \in {"none", "ok", "fail"}
         /\ reply_acks' \subseteq reply_acks
         /\ \A p \in netP' : p \in netP \/ ClientDatagram(p)
<1>1. \A p \in netP' : p \in netP \/ ClientDatagram(p)
  <2>1. CASE netP' \in Carried(netP, {Datagram("disc", reply_acks, 0, FALSE),
                                      Datagram("disc", {}, 0, FALSE)})
    <3>1. netP' \subseteq netP \cup {Datagram("disc", reply_acks, 0, FALSE),
                                    Datagram("disc", {}, 0, FALSE)}
      BY <2>1, CarriedSubset
    <3>2. /\ ClientDatagram(Datagram("disc", reply_acks, 0, FALSE))
          /\ ClientDatagram(Datagram("disc", {}, 0, FALSE))
      BY DatagramOK
    <3> QED BY <3>1, <3>2
  <2>2. CASE netP' = netP
    BY <2>2
  <2> QED BY <2>1, <2>2 DEF rt_set_disconnected, rt_send_udp
<1> QED BY <1>1 DEF TypeOK, SessionTypes, rt_set_disconnected, rt_signal_result

\* The session rudp_transport_connect sets up is well typed.
LEMMA TypeInit == Init => TypeOK
<1> SUFFICES ASSUME Init PROVE TypeOK
  OBVIOUS
<1>1. seg_log \in Seq(Segments) /\ Len(seg_log) = next_send_seq - 1
  BY DEF Init
<1>2. send_log \in Seq(Nat) /\ segmented \in 0..Len(send_log)
  BY DEF Init
<1>3. /\ recv_log \in Seq(Nat) /\ pumped \in 0..Len(recv_log) /\ app_read \in 0..pumped
      /\ peer_log \in Seq(Kinds) /\ last_recv_complete_seq \in 0..Len(peer_log)
      /\ recv_segments \in Seq(1..Len(peer_log))
  BY DEF Init
<1>4. halt \in BOOLEAN /\ pair_shut \in BOOLEAN /\ app_open \in BOOLEAN
  BY DEF Init
<1>5. /\ pc \in Stages
      /\ status \in {"CONNECT_SENT", "ESTABLISHED", "DISCONNECTED"}
      /\ result \in {"none", "ok", "fail"}
      /\ peer_status \in {"none", "up", "down"}
      /\ netC \subseteq Packets /\ netP \subseteq Packets
  BY DEF Init, Stages
<1>6. /\ next_send_seq \in Nat \ {0}
      /\ send_segments = {} /\ fresh = {} /\ resend = {} /\ reply_acks = {}
      /\ peer_unacked = {} /\ peer_got = {} /\ peer_acks = {}
      /\ app_written = 0 /\ ingested = 0
  BY DEF Init
<1> QED BY <1>1, <1>2, <1>3, <1>4, <1>5, <1>6
    DEF TypeOK, SessionTypes, SendTypes, StreamTypes, RecvTypes, NetTypes

\* Seqs that were in use stay in use when next_send_seq grows.
LEMMA IntervalGrows == \A a, b \in Int : a <= b => 1..(a - 1) \subseteq 1..(b - 1)
OBVIOUS

\* What the send side looks like after a segment has been queued or refused.
QueueTyped ==
  /\ next_send_seq' \in Nat \ {0} /\ next_send_seq' >= next_send_seq
  /\ send_segments' \subseteq 1..(next_send_seq' - 1)
  /\ fresh' \subseteq send_segments'
  /\ seg_log' \in Seq(Segments) /\ Len(seg_log') = next_send_seq' - 1

\* rt_queue_segment adds the next segment at the end, or nothing.
LEMMA QueueEffect ==
  ASSUME SendTypes, NEW kind \in Kinds, NEW units \in Seq(Nat),
         rt_queue_segment(kind, units)
  PROVE  QueueTyped
<1>1. CASE Cardinality(send_segments) >= MaxNumAck
  <2>1. UNCHANGED <<next_send_seq, send_segments, fresh, seg_log>>
    BY <1>1 DEF rt_queue_segment
  <2> QED BY <2>1 DEF SendTypes, QueueTyped
<1>2. CASE ~(Cardinality(send_segments) >= MaxNumAck)
  <2>1. [kind |-> kind, units |-> units] \in Segments
    BY DEF Segments
  <2>2. seg_log' = Append(seg_log, [kind |-> kind, units |-> units])
    BY <1>2 DEF rt_queue_segment
  <2>3. seg_log' \in Seq(Segments) /\ Len(seg_log') = Len(seg_log) + 1
    BY <2>1, <2>2 DEF SendTypes
  <2>4. /\ next_send_seq' = next_send_seq + 1
        /\ send_segments' = send_segments \cup {next_send_seq}
        /\ fresh' = fresh \cup {next_send_seq}
    BY <1>2 DEF rt_queue_segment
  <2> QED BY <2>3, <2>4 DEF SendTypes, QueueTyped
<1> QED BY <1>1, <1>2

\* rt_queue_segment keeps the send queue well typed.
LEMMA QueueTypedStep ==
  ASSUME SendTypes, QueueTyped, UNCHANGED <<resend, peer_got, peer_acks>>
  PROVE  SendTypes'
<1>1. 1..(next_send_seq - 1) \subseteq 1..(next_send_seq' - 1)
  <2>1. next_send_seq \in Int /\ next_send_seq' \in Int /\ next_send_seq <= next_send_seq'
    BY DEF SendTypes, QueueTyped
  <2> QED BY <2>1, IntervalGrows
<1>2. /\ resend' \subseteq 1..(next_send_seq' - 1)
      /\ peer_got' \subseteq 1..(next_send_seq' - 1) /\ peer_acks' \subseteq peer_got'
  BY <1>1 DEF SendTypes
<1> QED BY <1>2 DEF SendTypes, QueueTyped

\* A segment takes at least one unit and no more than the FIFO holds.
LEMMA ShareTyped ==
  ASSUME StreamTypes
  PROVE  /\ NextShare \in Nat /\ segmented + NextShare <= Len(send_log)
         /\ segmented < Len(send_log) => NextShare >= 1
         /\ SubSeq(send_log, segmented + 1, segmented + NextShare) \in Seq(Nat)
<1>1. /\ NextShare \in Nat /\ segmented + NextShare <= Len(send_log)
      /\ segmented < Len(send_log) => NextShare >= 1
  BY ConstantsAssumption DEF StreamTypes, NextShare
<1> QED BY <1>1 DEF StreamTypes

\* No step takes the send queue, its log or the server's view of it out of
\* their types.
LEMMA SendTypesStep ==
  ASSUME SendTypes, StreamTypes, NetPOK, [Next]_vars
  PROVE  SendTypes'
<1>1. CASE \E p \in netC : HandleSegment(p)
  BY <1>1 DEF SendTypes, HandleSegment, rt_process_acks, peerVars
<1>2. CASE \E p \in netC : HandleDisconnect(p)
  BY <1>2 DEF SendTypes, HandleDisconnect, rt_process_acks, peerVars
<1>3. CASE DrainSegment
  <2>1. CASE rt_queue_segment("resp", <<>>)
    <3>1. "resp" \in Kinds /\ <<>> \in Seq(Nat)
      BY DEF Kinds
    <3>2. QueueTyped
      BY <2>1, <3>1, QueueEffect
    <3>3. UNCHANGED <<resend, peer_got, peer_acks>>
      BY <1>3 DEF DrainSegment, peerVars
    <3> QED BY <3>2, <3>3, QueueTypedStep
  <2>2. CASE UNCHANGED <<next_send_seq, send_segments, fresh, seg_log>>
    BY <1>3, <2>2 DEF SendTypes, DrainSegment, peerVars
  <2> QED BY <1>3, <2>1, <2>2 DEF DrainSegment
<1>4. CASE rt_segment_send_fifo
  <2>1. CASE rt_queue_segment("data",
                 SubSeq(send_log, segmented + 1, segmented + NextShare))
    <3>1. "data" \in Kinds
      BY DEF Kinds
    <3>2. SubSeq(send_log, segmented + 1, segmented + NextShare) \in Seq(Nat)
      BY ShareTyped
    <3>3. QueueTyped
      BY <2>1, <3>1, <3>2, QueueEffect
    <3>4. UNCHANGED <<resend, peer_got, peer_acks>>
      BY <1>4 DEF rt_segment_send_fifo, peerVars
    <3> QED BY <3>3, <3>4, QueueTypedStep
  <2>2. CASE UNCHANGED <<next_send_seq, send_segments, fresh, seg_log>>
    BY <1>4, <2>2 DEF SendTypes, rt_segment_send_fifo, peerVars
  <2> QED BY <1>4, <2>1, <2>2 DEF rt_segment_send_fifo
<1>5. CASE QueueKeepalive
  <2>1. "req" \in Kinds /\ <<>> \in Seq(Nat) /\ rt_queue_segment("req", <<>>)
    BY <1>5 DEF Kinds, QueueKeepalive
  <2>2. QueueTyped
    BY <2>1, QueueEffect
  <2>3. UNCHANGED <<resend, peer_got, peer_acks>>
    BY <1>5 DEF QueueKeepalive, peerVars
  <2> QED BY <2>2, <2>3, QueueTypedStep
<1>6. CASE \E late \in SUBSET send_segments : BeginResend(late)
  BY <1>6 DEF SendTypes, BeginResend, DueSegments, sendVars, peerVars
<1>7. CASE \E s \in resend : ResendSegment(s)
  BY <1>7 DEF SendTypes, ResendSegment, peerVars
<1>8. CASE \E p \in netP : PeerHandle(p)
  BY <1>8 DEF SendTypes, PeerHandle, NetPOK, clientVars, sendVars
<1>9. CASE \E s \in peer_unacked : PeerTransmit(s)
  BY <1>9 DEF SendTypes, PeerTransmit, PeerSend, clientVars, sendVars
<1>10. CASE PeerAck
  BY <1>10 DEF SendTypes, PeerAck, PeerSend, clientVars, sendVars
<1>11. CASE PeerDisconnect
  BY <1>11 DEF SendTypes, PeerDisconnect, PeerSend, clientVars, sendVars
<1>12. CASE UNCHANGED <<next_send_seq, send_segments, fresh, resend, seg_log, peer_got, peer_acks>>
  BY <1>12 DEF SendTypes
<1> QED
  BY <1>1, <1>2, <1>3, <1>4, <1>5, <1>6, <1>7, <1>8, <1>9, <1>10, <1>11, <1>12
     DEF Next, Worker, Interrupt, Application, Server, rt_handle_udp_packet,
     InterruptConnectSent, Timeout, BeginInterrupt, DrainDone,
     rt_pump_recv_to_pair, rt_pump_pair_to_send, ResendDone, DrainAcks,
     PollReturns, WorkerExit, AppWrite, AppRead, AppClose,
     rudp_transport_disconnect, Lose, PeerAccept, PeerQueue, sessVars,
     sendVars, recvVars, appVars, peerVars, clientVars, vars

\* No step moves a cursor of the send FIFO past its end.
LEMMA StreamTypesStep ==
  ASSUME StreamTypes, [Next]_vars
  PROVE  StreamTypes'
<1>1. CASE rt_pump_pair_to_send
  <2>1. ChunkSize \in Nat /\ (ingested < app_written => ingested + ChunkSize <= app_written)
    BY ConstantsAssumption DEF StreamTypes, ChunkSize
  <2>2. CASE rt_fifo_write(ChunkSize) /\ ingested < app_written /\ ingested' = ingested + ChunkSize
    <3>1. [i \in 1..ChunkSize |-> ingested + i] \in Seq(Nat)
      BY <2>1 DEF StreamTypes
    <3>2. send_log' \in Seq(Nat) /\ Len(send_log') >= Len(send_log)
      BY <2>1, <2>2, <3>1 DEF StreamTypes, rt_fifo_write
    <3> QED BY <1>1, <2>1, <2>2, <3>2
         DEF StreamTypes, rt_pump_pair_to_send, appVars
  <2>3. CASE UNCHANGED <<send_log, ingested>>
    BY <1>1, <2>3 DEF StreamTypes, rt_pump_pair_to_send, appVars
  <2> QED BY <1>1, <2>2, <2>3 DEF rt_pump_pair_to_send
<1>2. CASE rt_segment_send_fifo
  BY <1>2, ShareTyped DEF StreamTypes, rt_segment_send_fifo, appVars
<1>3. CASE \E n \in 1..PairSize : AppWrite(n)
  BY <1>3 DEF StreamTypes, AppWrite, sendVars
<1>4. CASE UNCHANGED <<app_written, ingested, send_log, segmented>>
  BY <1>4 DEF StreamTypes
<1> QED
  BY <1>1, <1>2, <1>3, <1>4 DEF Next, Worker, Interrupt, Application, Server,
     rt_handle_udp_packet, HandleSegment, HandleDisconnect,
     InterruptConnectSent, Timeout, BeginInterrupt, DrainSegment, DrainDone,
     rt_pump_recv_to_pair, QueueKeepalive, BeginResend, ResendSegment,
     ResendDone, DrainAcks, PollReturns, WorkerExit, AppRead, AppClose,
     rudp_transport_disconnect, Lose, PeerAccept, PeerHandle, PeerQueue,
     PeerTransmit, PeerAck, PeerDisconnect, sessVars, sendVars, recvVars,
     appVars, peerVars, clientVars, vars

\* No step takes the session's status, result and flags out of their types.
LEMMA SessionTypesStep ==
  ASSUME TypeOK, [Next]_vars
  PROVE  SessionTypes'
<1>1. CASE \E p \in netC : HandleSegment(p)
  BY <1>1
       DEF TypeOK, SessionTypes, Stages, HandleSegment, rt_signal_result,
           sessVars, clientVars, peerVars, appVars
<1>2. CASE \E p \in netC : HandleDisconnect(p)
  BY <1>2, SetDisconnectedEffect
       DEF TypeOK, SessionTypes, Stages, HandleDisconnect, appVars, peerVars
<1>3. CASE InterruptConnectSent
  BY <1>3
       DEF TypeOK, SessionTypes, Stages, InterruptConnectSent, LoopTests,
           sessVars, clientVars, peerVars, appVars
<1>4. CASE Timeout
  BY <1>4, SetDisconnectedEffect
       DEF TypeOK, SessionTypes, Stages, Timeout, appVars, peerVars
<1>5. CASE BeginInterrupt
  BY <1>5
       DEF TypeOK, SessionTypes, Stages, BeginInterrupt, sessVars, clientVars,
           peerVars, appVars
<1>6. CASE DrainSegment
  BY <1>6
       DEF TypeOK, SessionTypes, Stages, DrainSegment, sessVars, clientVars,
           peerVars, appVars
<1>7. CASE DrainDone
  BY <1>7
       DEF TypeOK, SessionTypes, Stages, DrainDone, sessVars, clientVars,
           peerVars, appVars
<1>8. CASE rt_pump_recv_to_pair
  BY <1>8, SetDisconnectedEffect
       DEF TypeOK, SessionTypes, Stages, rt_pump_recv_to_pair, appVars, peerVars
<1>9. CASE rt_pump_pair_to_send
  BY <1>9, SetDisconnectedEffect
       DEF TypeOK, SessionTypes, Stages, rt_pump_pair_to_send, appVars, peerVars
<1>10. CASE rt_segment_send_fifo
  BY <1>10
       DEF TypeOK, SessionTypes, Stages, rt_segment_send_fifo, sessVars,
           clientVars, peerVars, appVars
<1>11. CASE QueueKeepalive
  BY <1>11
       DEF TypeOK, SessionTypes, Stages, QueueKeepalive, sessVars, clientVars,
           peerVars, appVars
<1>12. CASE \E late \in SUBSET send_segments : BeginResend(late)
  BY <1>12
       DEF TypeOK, SessionTypes, Stages, BeginResend, sessVars, clientVars,
           peerVars, appVars
<1>13. CASE \E s \in resend : ResendSegment(s)
  BY <1>13
       DEF TypeOK, SessionTypes, Stages, ResendSegment, sessVars, clientVars,
           peerVars, appVars
<1>14. CASE ResendDone
  BY <1>14
       DEF TypeOK, SessionTypes, Stages, ResendDone, sessVars, clientVars,
           peerVars, appVars
<1>15. CASE DrainAcks
  BY <1>15
       DEF TypeOK, SessionTypes, Stages, DrainAcks, LoopTests, sessVars,
           clientVars, peerVars, appVars
<1>16. CASE PollReturns
  BY <1>16
       DEF TypeOK, SessionTypes, Stages, PollReturns, sessVars, clientVars,
           peerVars, appVars
<1>17. CASE WorkerExit
  BY <1>17, SetDisconnectedEffect
       DEF TypeOK, SessionTypes, Stages, WorkerExit, appVars, peerVars
<1>18. CASE \E n \in 1..PairSize : AppWrite(n)
  BY <1>18
       DEF TypeOK, SessionTypes, Stages, AppWrite, sessVars, clientVars,
           peerVars, appVars
<1>19. CASE AppRead
  BY <1>19
       DEF TypeOK, SessionTypes, Stages, AppRead, sessVars, clientVars,
           peerVars, appVars
<1>20. CASE AppClose
  BY <1>20
       DEF TypeOK, SessionTypes, Stages, AppClose, sessVars, clientVars,
           peerVars, appVars
<1>21. CASE rudp_transport_disconnect
  BY <1>21
       DEF TypeOK, SessionTypes, Stages, rudp_transport_disconnect, sessVars,
           clientVars, peerVars, appVars
<1>22. CASE Lose
  BY <1>22
       DEF TypeOK, SessionTypes, Stages, Lose, sessVars, clientVars, peerVars,
           appVars
<1>23. CASE \E p \in netP : PeerAccept(p)
  BY <1>23
       DEF TypeOK, SessionTypes, Stages, PeerAccept, sessVars, clientVars,
           peerVars, appVars
<1>24. CASE \E p \in netP : PeerHandle(p)
  BY <1>24
       DEF TypeOK, SessionTypes, Stages, PeerHandle, sessVars, clientVars,
           peerVars, appVars
<1>25. CASE \E kind \in PeerKinds : PeerQueue(kind)
  BY <1>25
       DEF TypeOK, SessionTypes, Stages, PeerQueue, sessVars, clientVars,
           peerVars, appVars
<1>26. CASE \E s \in peer_unacked : PeerTransmit(s)
  BY <1>26
       DEF TypeOK, SessionTypes, Stages, PeerTransmit, sessVars, clientVars,
           peerVars, appVars
<1>27. CASE PeerAck
  BY <1>27
       DEF TypeOK, SessionTypes, Stages, PeerAck, sessVars, clientVars,
           peerVars, appVars
<1>28. CASE PeerDisconnect
  BY <1>28
       DEF TypeOK, SessionTypes, Stages, PeerDisconnect, sessVars, clientVars,
           peerVars, appVars
<1>29. CASE UNCHANGED <<vars>>
  BY <1>29 DEF SessionTypes, TypeOK, vars, sessVars, appVars, peerVars
<1> QED
  BY <1>1, <1>2, <1>3, <1>4, <1>5, <1>6, <1>7, <1>8, <1>9, <1>10, <1>11,
     <1>12, <1>13, <1>14, <1>15, <1>16, <1>17, <1>18, <1>19, <1>20, <1>21,
     <1>22, <1>23, <1>24, <1>25, <1>26, <1>27, <1>28, <1>29 DEF Next, Worker,
     Interrupt, Application, Server, rt_handle_udp_packet, sessVars,
     sendVars, recvVars, appVars, peerVars, clientVars, vars

\* What the client keeps of a payload comes from the server's log.
LEMMA PayloadEffect ==
  ASSUME RecvTypes, NEW seq \in 1..Len(peer_log), rt_process_recv_payload(seq)
  PROVE  /\ recv_segments' \in Seq(1..Len(peer_log))
         /\ reply_acks' \subseteq 1..Len(peer_log)
<1>1. recv_segments' \in Seq(1..Len(peer_log))
  <2>1. Append(recv_segments, seq) \in Seq(1..Len(peer_log))
    BY AppendProperties DEF RecvTypes
  <2> QED BY <2>1 DEF RecvTypes, rt_process_recv_payload
<1>2. reply_acks' \subseteq 1..Len(peer_log)
  BY DEF RecvTypes, rt_process_recv_payload, rt_add_ack
<1> QED BY <1>1, <1>2

\* No step takes the receive buffer, the pending ACKs or the receive FIFO's
\* cursors out of their types.
LEMMA RecvTypesStep ==
  ASSUME TypeOK, NetCOK, [Next]_vars
  PROVE  RecvTypes'
<1>1. CASE \E p \in netC : HandleSegment(p)
  <2>1. PICK p \in netC : HandleSegment(p)
    BY <1>1
  <2>2. CASE p.data
    <3>1. p.seq \in 1..Len(peer_log) /\ rt_process_recv_payload(p.seq)
      BY <2>1, <2>2 DEF NetCOK, HandleSegment
    <3>2. /\ recv_segments' \in Seq(1..Len(peer_log))
          /\ reply_acks' \subseteq 1..Len(peer_log)
      BY <3>1, PayloadEffect DEF TypeOK
    <3> QED BY <2>1, <3>2
         DEF TypeOK, RecvTypes, HandleSegment, appVars, peerVars
  <2>3. CASE ~p.data
    BY <2>1, <2>3 DEF TypeOK, RecvTypes, HandleSegment, appVars, peerVars
  <2> QED BY <2>2, <2>3
<1>2. CASE \E p \in netC : HandleDisconnect(p)
  BY <1>2, SetDisconnectedEffect
       DEF TypeOK, RecvTypes, HandleDisconnect, recvVars, appVars, peerVars
<1>3. CASE Timeout
  BY <1>3, SetDisconnectedEffect
       DEF TypeOK, RecvTypes, Timeout, recvVars, appVars, peerVars
<1>4. CASE DrainSegment
  <2>1. /\ Head(recv_segments) \in 1..Len(peer_log)
        /\ Tail(recv_segments) \in Seq(1..Len(peer_log))
    BY <1>4 DEF TypeOK, RecvTypes, DrainSegment, CanDrain
  <2>2. recv_log' \in Seq(Nat) /\ Len(recv_log') >= Len(recv_log)
    BY <1>4, <2>1 DEF TypeOK, RecvTypes, DrainSegment
  <2>3. last_recv_complete_seq' \in 0..Len(peer_log)
    BY <1>4, <2>1 DEF DrainSegment
  <2>4. /\ recv_segments' = Tail(recv_segments)
        /\ UNCHANGED <<peer_log, peer_unacked, reply_acks, pumped, app_read>>
    BY <1>4 DEF DrainSegment, appVars, peerVars
  <2> QED BY <2>1, <2>2, <2>3, <2>4 DEF TypeOK, RecvTypes
<1>5. CASE rt_pump_recv_to_pair
  <2>1. reply_acks' \subseteq reply_acks
    BY <1>5, SetDisconnectedEffect DEF rt_pump_recv_to_pair
  <2>2. pumped' \in 0..Len(recv_log) /\ pumped' >= pumped
    <3>1. (pumped < Len(recv_log) /\ pumped' = pumped + 1) \/ pumped' = pumped
      BY <1>5 DEF rt_pump_recv_to_pair
    <3> QED BY <3>1 DEF TypeOK, RecvTypes
  <2> QED BY <1>5, <2>1, <2>2
       DEF TypeOK, RecvTypes, rt_pump_recv_to_pair, appVars, peerVars
<1>6. CASE rt_pump_pair_to_send
  <2>1. reply_acks' \subseteq reply_acks
    BY <1>6, SetDisconnectedEffect DEF rt_pump_pair_to_send
  <2> QED BY <1>6, <2>1
       DEF TypeOK, RecvTypes, rt_pump_pair_to_send, recvVars, appVars, peerVars
<1>7. CASE \E s \in resend : ResendSegment(s)
  BY <1>7
       DEF TypeOK, RecvTypes, rt_send_segment_now, ResendSegment, recvVars,
           appVars, peerVars
<1>8. CASE DrainAcks
  BY <1>8
       DEF TypeOK, RecvTypes, rt_send_segment_now, DrainAcks, recvVars, appVars,
           peerVars
<1>9. CASE WorkerExit
  BY <1>9, SetDisconnectedEffect
       DEF TypeOK, RecvTypes, WorkerExit, recvVars, appVars, peerVars
<1>10. CASE AppRead
  BY <1>10 DEF TypeOK, RecvTypes, AppRead, recvVars, peerVars
<1>11. CASE \E p \in netP : PeerHandle(p)
  BY <1>11 DEF TypeOK, RecvTypes, PeerHandle, clientVars, recvVars, appVars
<1>12. CASE \E kind \in PeerKinds : PeerQueue(kind)
  <2>1. /\ peer_log' \in Seq(Kinds) /\ Len(peer_log') = Len(peer_log) + 1
        /\ peer_unacked' = peer_unacked \cup {Len(peer_log) + 1}
    BY <1>12, ConstantsAssumption DEF TypeOK, RecvTypes, Kinds, PeerQueue
  <2>2. 1..Len(peer_log) \subseteq 1..Len(peer_log')
    BY <2>1 DEF TypeOK, RecvTypes
  <2>3. recv_segments \in Seq(1..Len(peer_log'))
    <3>1. recv_segments \in Seq(1..Len(peer_log))
      BY DEF TypeOK, RecvTypes
    <3> QED BY <2>2, <3>1, SeqMonotonic
  <2>4. UNCHANGED <<last_recv_complete_seq, recv_segments, reply_acks, recv_log,
                    pumped, app_read>>
    BY <1>12 DEF PeerQueue, clientVars, recvVars, appVars
  <2>5. peer_unacked' \subseteq 1..Len(peer_log')
    <3>1. Len(peer_log) \in Nat /\ peer_unacked \subseteq 1..Len(peer_log)
      BY DEF TypeOK, RecvTypes
    <3>2. Len(peer_log) + 1 \in 1..Len(peer_log')
      BY <2>1, <3>1
    <3> QED BY <2>1, <2>2, <3>1, <3>2
  <2>6. last_recv_complete_seq \in 0..Len(peer_log') /\ reply_acks \subseteq 1..Len(peer_log')
    BY <2>1, <2>2 DEF TypeOK, RecvTypes
  <2> QED BY <2>1, <2>3, <2>4, <2>5, <2>6 DEF TypeOK, RecvTypes
<1>13. CASE UNCHANGED <<peer_log, peer_unacked, last_recv_complete_seq, recv_segments,
                       reply_acks, recv_log, pumped, app_read>>
  BY <1>13 DEF RecvTypes, TypeOK
<1> QED
  BY <1>1, <1>2, <1>3, <1>4, <1>5, <1>6, <1>7, <1>8, <1>9, <1>10, <1>11,
     <1>12, <1>13 DEF Next, Worker, Interrupt, Application, Server,
     rt_handle_udp_packet, InterruptConnectSent, BeginInterrupt, DrainDone,
     rt_segment_send_fifo, QueueKeepalive, BeginResend, ResendDone,
     PollReturns, AppWrite, AppClose, rudp_transport_disconnect, Lose,
     PeerAccept, PeerTransmit, PeerAck, PeerDisconnect, sessVars, sendVars,
     recvVars, appVars, peerVars, clientVars, vars

\* Whatever is in the network to the server was there or is the worker's.
LEMMA SentByClient ==
  ASSUME TypeOK, [Next]_vars
  PROVE  \A p \in netP' : p \in netP \/ ClientDatagram(p)
<1>1. CASE \E p \in netC : HandleDisconnect(p)
  BY <1>1, SetDisconnectedEffect DEF HandleDisconnect
<1>2. CASE InterruptConnectSent
  <2>1. netP' \subseteq netP \cup {Datagram("init", {}, 0, FALSE)}
    BY <1>2, CarriedSubset DEF InterruptConnectSent, rt_send_udp
  <2>2. ClientDatagram(Datagram("init", {}, 0, FALSE))
    BY DatagramOK
  <2> QED BY <2>1, <2>2
<1>3. CASE Timeout
  BY <1>3, SetDisconnectedEffect DEF Timeout
<1>4. CASE rt_pump_recv_to_pair
  BY <1>4, SetDisconnectedEffect DEF rt_pump_recv_to_pair
<1>5. CASE rt_pump_pair_to_send
  BY <1>5, SetDisconnectedEffect DEF rt_pump_pair_to_send
<1>6. CASE \E s \in resend : ResendSegment(s)
  <2>1. PICK s \in resend : ResendSegment(s)
    BY <1>6
  <2>2. netP' \subseteq netP \cup {Datagram("seg", reply_acks, s, TRUE)}
    BY <2>1, CarriedSubset DEF ResendSegment, rt_send_segment_now, rt_send_udp
  <2>3. ClientDatagram(Datagram("seg", reply_acks, s, TRUE))
    <3>1. s \in Nat /\ s \in 1..(next_send_seq - 1)
      BY DEF TypeOK, SendTypes
    <3>2. reply_acks \in SUBSET reply_acks /\ TRUE \in BOOLEAN
      OBVIOUS
    <3> QED BY <3>1, <3>2, DatagramOK
  <2> QED BY <2>2, <2>3
<1>7. CASE DrainAcks
  <2>1. netP' \subseteq netP \cup {Datagram("seg", reply_acks, next_send_seq, FALSE)}
    BY <1>7, CarriedSubset DEF DrainAcks, rt_send_segment_now, rt_send_udp
  <2>2. ClientDatagram(Datagram("seg", reply_acks, next_send_seq, FALSE))
    BY DatagramOK DEF TypeOK, SendTypes
  <2> QED BY <2>1, <2>2
<1>8. CASE WorkerExit
  BY <1>8, SetDisconnectedEffect DEF WorkerExit
<1>9. CASE Lose
  BY <1>9 DEF Lose
<1>10. CASE \E p \in netP : PeerAccept(p)
  BY <1>10 DEF Consumed, PeerAccept
<1>11. CASE \E p \in netP : PeerHandle(p)
  BY <1>11 DEF Consumed, PeerHandle
<1>12. CASE UNCHANGED <<netP>>
  BY <1>12
<1> QED
  BY <1>1, <1>2, <1>3, <1>4, <1>5, <1>6, <1>7, <1>8, <1>9, <1>10, <1>11, <1>12
     DEF Next, Worker, Interrupt, Application, Server, rt_handle_udp_packet,
     HandleSegment, BeginInterrupt, DrainSegment, DrainDone,
     rt_segment_send_fifo, QueueKeepalive, BeginResend, ResendDone,
     PollReturns, AppWrite, AppRead, AppClose, rudp_transport_disconnect,
     PeerQueue, PeerTransmit, PeerAck, PeerDisconnect, sessVars, sendVars,
     recvVars, appVars, peerVars, clientVars, vars

\* Whatever is in the network to the client was there or is the server's.
LEMMA SentByServer ==
  ASSUME TypeOK, [Next]_vars
  PROVE  \A p \in netC' : p \in netC \/ PeerDatagram(p)
<1>1. CASE \E p \in netC : HandleSegment(p)
  BY <1>1 DEF Consumed, HandleSegment
<1>2. CASE \E p \in netC : HandleDisconnect(p)
  BY <1>2 DEF Consumed, HandleDisconnect
<1>3. CASE Lose
  BY <1>3 DEF Lose
<1>4. CASE \E s \in peer_unacked : PeerTransmit(s)
  <2>0. PICK s \in peer_unacked : PeerTransmit(s)
    BY <1>4
  <2>1. PICK n \in 0..Len(seg_log) :
          /\ PeerComplete(n)
          /\ netC' \in Carried(netC, {[kind |-> "seg", max_ack |-> n, acks |-> peer_acks,
                                      seq |-> s, data |-> TRUE]})
    BY <2>0 DEF PeerTransmit, PeerSend
  <2> DEFINE d == [kind |-> "seg", max_ack |-> n, acks |-> peer_acks, seq |-> s, data |-> TRUE]
  <2>2. netC' \subseteq netC \cup {d}
    BY <2>1, CarriedSubset
  <2>3. PeerDatagram(d)
    BY <2>1
         DEF TypeOK, SendTypes, RecvTypes, PeerDatagram, PeerComplete, Packets
  <2> QED BY <2>2, <2>3
<1>5. CASE PeerAck
  <2>1. PICK n \in 0..Len(seg_log) :
          /\ PeerComplete(n)
          /\ netC' \in Carried(netC, {[kind |-> "seg", max_ack |-> n, acks |-> peer_acks,
                                      seq |-> Len(peer_log) + 1, data |-> FALSE]})
    BY <1>5 DEF PeerAck, PeerSend
  <2> DEFINE d == [kind |-> "seg", max_ack |-> n, acks |-> peer_acks,
               seq |-> Len(peer_log) + 1, data |-> FALSE]
  <2>2. netC' \subseteq netC \cup {d}
    BY <2>1, CarriedSubset
  <2>3. PeerDatagram(d)
    BY <2>1
         DEF TypeOK, SendTypes, RecvTypes, PeerDatagram, PeerComplete, Packets
  <2> QED BY <2>2, <2>3
<1>6. CASE PeerDisconnect
  <2>1. PICK n \in 0..Len(seg_log) :
          /\ PeerComplete(n)
          /\ netC' \in Carried(netC, {[kind |-> "disc", max_ack |-> n, acks |-> peer_acks,
                                      seq |-> 0, data |-> FALSE]})
    BY <1>6 DEF PeerDisconnect, PeerSend
  <2> DEFINE d == [kind |-> "disc", max_ack |-> n, acks |-> peer_acks, seq |-> 0, data |-> FALSE]
  <2>2. netC' \subseteq netC \cup {d}
    BY <2>1, CarriedSubset
  <2>3. PeerDatagram(d)
    BY <2>1
         DEF TypeOK, SendTypes, RecvTypes, PeerDatagram, PeerComplete, Packets
  <2> QED BY <2>2, <2>3
<1>7. CASE UNCHANGED <<netC>>
  BY <1>7
<1> QED
  BY <1>1, <1>2, <1>3, <1>4, <1>5, <1>6, <1>7 DEF Next, Worker, Interrupt,
     Application, Server, rt_handle_udp_packet, InterruptConnectSent, Timeout,
     BeginInterrupt, DrainSegment, DrainDone, rt_pump_recv_to_pair,
     rt_pump_pair_to_send, rt_segment_send_fifo, QueueKeepalive, BeginResend,
     ResendSegment, ResendDone, DrainAcks, PollReturns, WorkerExit, AppWrite,
     AppRead, AppClose, rudp_transport_disconnect, PeerAccept, PeerHandle,
     PeerQueue, sessVars, sendVars, recvVars, appVars, peerVars, clientVars,
     vars

\* Whatever is in the network is a well-formed datagram.
LEMMA NetTypesStep ==
  ASSUME TypeOK, [Next]_vars
  PROVE  NetTypes'
BY SentByClient, SentByServer DEF TypeOK, NetTypes, ClientDatagram, PeerDatagram

\* The type invariant is preserved, given what is known of the datagrams.
LEMMA TypeStep ==
  ASSUME TypeOK, NetCOK, NetPOK, [Next]_vars
  PROVE  TypeOK'
<1>1. SessionTypes'
  BY SessionTypesStep
<1>2. SendTypes'
  BY SendTypesStep DEF TypeOK
<1>3. StreamTypes'
  BY StreamTypesStep DEF TypeOK
<1>4. RecvTypes'
  BY RecvTypesStep
<1>5. NetTypes'
  BY NetTypesStep
<1> QED BY <1>1, <1>2, <1>3, <1>4, <1>5 DEF TypeOK

\* The client never gives up a segment it holds.
LEMMA HeldGrows ==
  ASSUME TypeOK, [Next]_vars
  PROVE  \A s \in Nat : Held(s) => Held(s)'
<1>1. CASE \E p \in netC : HandleSegment(p)
  <2>1. UNCHANGED last_recv_complete_seq
    BY <1>1 DEF HandleSegment
  <2>2. recv_segments' = recv_segments \/ \E q : recv_segments' = Append(recv_segments, q)
    BY <1>1 DEF HandleSegment, rt_process_recv_payload
  <2>3. CASE recv_segments' = recv_segments
    BY <2>1, <2>3 DEF Held, Buffered
  <2>4. CASE \E q : recv_segments' = Append(recv_segments, q)
    <3>1. PICK q : recv_segments' = Append(recv_segments, q)
      BY <2>4
    <3>2. /\ Len(recv_segments') = Len(recv_segments) + 1
          /\ \A i \in 1..Len(recv_segments) : recv_segments'[i] = recv_segments[i]
      BY <3>1 DEF TypeOK, RecvTypes
    <3> QED BY <2>1, <3>2 DEF TypeOK, RecvTypes, Held, Buffered
  <2> QED BY <2>2, <2>3, <2>4
<1>2. CASE DrainSegment
  <2>1. /\ recv_segments # <<>>
        /\ last_recv_complete_seq' = recv_segments[1]
        /\ last_recv_complete_seq' = last_recv_complete_seq + 1
        /\ recv_segments' = Tail(recv_segments)
    BY <1>2 DEF TypeOK, RecvTypes, DrainSegment, CanDrain
  <2>2. \A i \in 2..Len(recv_segments) : /\ i - 1 \in 1..Len(recv_segments')
                                        /\ recv_segments'[i - 1] = recv_segments[i]
    BY <2>1 DEF TypeOK, RecvTypes
  <2>3. ASSUME NEW s \in Nat, Held(s) PROVE Held(s)'
    <3>1. CASE s <= last_recv_complete_seq
      BY <2>1, <3>1 DEF TypeOK, RecvTypes, Held
    <3>2. CASE Buffered(s)
      <4>1. PICK i \in 1..Len(recv_segments) : recv_segments[i] = s
        BY <3>2 DEF Buffered
      <4>2. CASE i = 1
        <5>1. s = last_recv_complete_seq'
          BY <2>1, <4>1, <4>2
        <5>2. s <= last_recv_complete_seq'
          BY <5>1
        <5> QED BY <5>2 DEF Held
      <4>3. CASE i # 1
        BY <2>2, <4>1, <4>3 DEF TypeOK, RecvTypes, Held, Buffered
      <4> QED BY <4>2, <4>3
    <3> QED BY <2>3, <3>1, <3>2 DEF Held
  <2> QED BY <2>3
<1>3. CASE UNCHANGED <<last_recv_complete_seq, recv_segments>>
  BY <1>3 DEF Held, Buffered
<1> QED
  BY <1>1, <1>2, <1>3 DEF Next, Worker, Interrupt, Application, Server,
     rt_handle_udp_packet, HandleDisconnect, InterruptConnectSent, Timeout,
     BeginInterrupt, DrainDone, rt_pump_recv_to_pair, rt_pump_pair_to_send,
     rt_segment_send_fifo, QueueKeepalive, BeginResend, ResendSegment,
     ResendDone, DrainAcks, PollReturns, WorkerExit, AppWrite, AppRead,
     AppClose, rudp_transport_disconnect, Lose, PeerAccept, PeerHandle,
     PeerQueue, PeerTransmit, PeerAck, PeerDisconnect, sessVars, sendVars,
     recvVars, appVars, peerVars, clientVars, vars

\* Sequence numbers, the server's log and what it has received only grow.
LEMMA LogsGrow ==
  ASSUME TypeOK, [Next]_vars
  PROVE  /\ next_send_seq' >= next_send_seq /\ peer_got \subseteq peer_got'
         /\ Len(peer_log') >= Len(peer_log)
<1>1. CASE DrainSegment
  <2>1. next_send_seq' \in {next_send_seq, next_send_seq + 1}
    BY <1>1 DEF rt_queue_segment, DrainSegment
  <2>2. UNCHANGED <<peer_got, peer_log>>
    BY <1>1 DEF DrainSegment, peerVars
  <2> QED BY <2>1, <2>2 DEF TypeOK, SendTypes, RecvTypes
<1>2. CASE rt_segment_send_fifo
  <2>1. next_send_seq' \in {next_send_seq, next_send_seq + 1}
    BY <1>2 DEF rt_queue_segment, rt_segment_send_fifo
  <2>2. UNCHANGED <<peer_got, peer_log>>
    BY <1>2 DEF rt_segment_send_fifo, peerVars
  <2> QED BY <2>1, <2>2 DEF TypeOK, SendTypes, RecvTypes
<1>3. CASE QueueKeepalive
  <2>1. next_send_seq' \in {next_send_seq, next_send_seq + 1}
    BY <1>3 DEF rt_queue_segment, QueueKeepalive
  <2>2. UNCHANGED <<peer_got, peer_log>>
    BY <1>3 DEF QueueKeepalive, peerVars
  <2> QED BY <2>1, <2>2 DEF TypeOK, SendTypes, RecvTypes
<1>4. CASE \E p \in netP : PeerHandle(p)
  BY <1>4 DEF TypeOK, SendTypes, RecvTypes, PeerHandle, clientVars, sendVars
<1>5. CASE \E kind \in PeerKinds : PeerQueue(kind)
  <2>1. \E k : peer_log' = Append(peer_log, k)
    BY <1>5 DEF PeerQueue
  <2>2. UNCHANGED <<next_send_seq, peer_got>>
    BY <1>5 DEF PeerQueue, clientVars, sendVars
  <2> QED BY <2>1, <2>2 DEF TypeOK, SendTypes, RecvTypes
<1>6. CASE UNCHANGED <<next_send_seq, peer_got, peer_log>>
  BY <1>6 DEF TypeOK, SendTypes, RecvTypes
<1> QED
  BY <1>1, <1>2, <1>3, <1>4, <1>5, <1>6 DEF Next, Worker, Interrupt,
     Application, Server, rt_handle_udp_packet, HandleSegment,
     HandleDisconnect, InterruptConnectSent, Timeout, BeginInterrupt,
     DrainDone, rt_pump_recv_to_pair, rt_pump_pair_to_send, BeginResend,
     ResendSegment, ResendDone, DrainAcks, PollReturns, WorkerExit, AppWrite,
     AppRead, AppClose, rudp_transport_disconnect, Lose, PeerAccept,
     PeerTransmit, PeerAck, PeerDisconnect, sessVars, sendVars, recvVars,
     appVars, peerVars, clientVars, vars

\* last_recv_complete_seq never goes back.
LEMMA CompleteGrows ==
  ASSUME TypeOK, [Next]_vars
  PROVE  last_recv_complete_seq' >= last_recv_complete_seq
<1>1. CASE DrainSegment
  BY <1>1 DEF TypeOK, RecvTypes, DrainSegment, CanDrain
<1>2. CASE UNCHANGED <<last_recv_complete_seq>>
  BY <1>2 DEF TypeOK, RecvTypes
<1> QED
  BY <1>1, <1>2 DEF Next, Worker, Interrupt, Application, Server,
     rt_handle_udp_packet, HandleSegment, HandleDisconnect,
     InterruptConnectSent, Timeout, BeginInterrupt, DrainDone,
     rt_pump_recv_to_pair, rt_pump_pair_to_send, rt_segment_send_fifo,
     QueueKeepalive, BeginResend, ResendSegment, ResendDone, DrainAcks,
     PollReturns, WorkerExit, AppWrite, AppRead, AppClose,
     rudp_transport_disconnect, Lose, PeerAccept, PeerHandle, PeerQueue,
     PeerTransmit, PeerAck, PeerDisconnect, sessVars, sendVars, recvVars,
     appVars, peerVars, clientVars, vars

\* What is known of the datagrams in flight stays true: what they acknowledge
\* is still held, and what they carry was queued.
LEMMA NetStep ==
  ASSUME IInv, [Next]_vars
  PROVE  NetCOK' /\ NetPOK'
<1>1. /\ TypeOK /\ NetCOK /\ NetPOK /\ ReplyAcksOK /\ TypeOK'
  BY TypeStep DEF IInv
<1>2. NetCOK'
  <2> SUFFICES ASSUME NEW p \in netC'
               PROVE  /\ 1..p.max_ack \subseteq peer_got' /\ p.acks \subseteq peer_got'
                      /\ p.data => p.seq \in 1..Len(peer_log')
    BY DEF NetCOK
  <2>1. peer_got \subseteq peer_got' /\ 1..Len(peer_log) \subseteq 1..Len(peer_log')
    BY <1>1, LogsGrow DEF TypeOK, RecvTypes
  <2>2. p \in netC \/ PeerDatagram(p)
    BY <1>1, SentByServer
  <2> QED BY <1>1, <2>1, <2>2 DEF NetCOK, PeerDatagram
<1>3. NetPOK'
  <2> SUFFICES ASSUME NEW p \in netP'
               PROVE  /\ p.max_ack <= last_recv_complete_seq'
                      /\ \A s \in p.acks : Held(s)'
                      /\ p.data => p.seq \in 1..(next_send_seq' - 1)
    BY DEF NetPOK
  <2>1. p \in Packets /\ last_recv_complete_seq' >= last_recv_complete_seq
    BY <1>1, CompleteGrows DEF TypeOK, NetTypes
  <2>2. 1..(next_send_seq - 1) \subseteq 1..(next_send_seq' - 1)
    <3>1. next_send_seq \in Int /\ next_send_seq' \in Int /\ next_send_seq <= next_send_seq'
      BY <1>1, LogsGrow DEF TypeOK, SendTypes
    <3> QED BY <3>1, IntervalGrows
  <2>3. p \in netP \/ ClientDatagram(p)
    BY <1>1, SentByClient
  <2>4. p.max_ack <= last_recv_complete_seq /\ \A s \in p.acks : Held(s)
    BY <1>1, <2>1, <2>3
         DEF NetPOK, ClientDatagram, ReplyAcksOK, Packets, TypeOK, RecvTypes
  <2>5. p.data => p.seq \in 1..(next_send_seq - 1)
    BY <1>1, <2>3 DEF NetPOK, ClientDatagram
  <2>6. p.max_ack \in Nat /\ p.acks \subseteq Nat
    BY <2>1 DEF Packets
  <2>7. p.max_ack <= last_recv_complete_seq'
    BY <1>1, <2>1, <2>4, <2>6 DEF TypeOK, RecvTypes
  <2>8. \A s \in p.acks : Held(s)'
    BY <1>1, <2>4, <2>6, HeldGrows
  <2> QED BY <2>2, <2>5, <2>7, <2>8
<1> QED BY <1>2, <1>3

\* A pending ACK is only added for a segment that is held.
LEMMA ReplyAcksStep ==
  ASSUME IInv, [Next]_vars
  PROVE  ReplyAcksOK'
<1>1. TypeOK /\ NetCOK /\ ReplyAcksOK
  BY DEF IInv
<1>2. reply_acks \subseteq Nat /\ \A s \in Nat : Held(s) => Held(s)'
  BY <1>1, HeldGrows DEF TypeOK, RecvTypes
<1>3. CASE reply_acks' \subseteq reply_acks
  BY <1>1, <1>2, <1>3 DEF ReplyAcksOK
<1>4. CASE \E p \in netC : HandleSegment(p)
  <2>1. PICK p \in netC : HandleSegment(p)
    BY <1>4
  <2>2. CASE ~p.data
    BY <1>3, <2>1, <2>2 DEF HandleSegment
  <2>3. CASE p.data
    <3>1. /\ p.seq \in 1..Len(peer_log) /\ rt_process_recv_payload(p.seq)
          /\ UNCHANGED last_recv_complete_seq
      BY <1>1, <2>1, <2>3 DEF NetCOK, HandleSegment
    <3>2. CASE reply_acks' \subseteq reply_acks
      BY <1>3, <3>2
    <3>3. CASE ~(reply_acks' \subseteq reply_acks)
      <4>1. Acknowledges(p.seq) /\ reply_acks' \subseteq reply_acks \cup {p.seq}
        BY <3>1, <3>3 DEF rt_process_recv_payload, rt_add_ack
      <4>2. Held(p.seq)'
        <5>1. CASE Stores(p.seq)
          <6>1. recv_segments' = Append(recv_segments, p.seq)
            BY <3>1, <5>1 DEF rt_process_recv_payload
          <6>2. /\ Len(recv_segments') = Len(recv_segments) + 1
                /\ Len(recv_segments) \in Nat
                /\ recv_segments'[Len(recv_segments) + 1] = p.seq
            BY <1>1, <6>1 DEF TypeOK, RecvTypes
          <6> QED BY <6>2 DEF Held, Buffered
        <5>2. CASE ~Stores(p.seq)
          <6>1. Held(p.seq)
            BY <4>1, <5>2 DEF Acknowledges, Held
          <6> QED BY <1>2, <3>1, <6>1
        <5> QED BY <5>1, <5>2
      <4> QED BY <1>1, <1>2, <4>1, <4>2 DEF ReplyAcksOK
    <3> QED BY <3>2, <3>3
  <2> QED BY <2>2, <2>3
<1>5. CASE \E s \in resend : ResendSegment(s)
  BY <1>3, <1>5 DEF ResendSegment, rt_send_segment_now
<1>6. CASE DrainAcks
  BY <1>3, <1>6 DEF DrainAcks, rt_send_segment_now
<1>7. CASE \/ \E p \in netC : HandleDisconnect(p)
           \/ Timeout \/ WorkerExit \/ rt_pump_recv_to_pair \/ rt_pump_pair_to_send
  BY <1>1, <1>3, <1>7, SetDisconnectedEffect
     DEF HandleDisconnect, Timeout, WorkerExit, rt_pump_recv_to_pair, rt_pump_pair_to_send
<1> QED
  BY <1>3, <1>4, <1>5, <1>6, <1>7 DEF Next, Worker, Interrupt, Application,
     Server, rt_handle_udp_packet, InterruptConnectSent, BeginInterrupt,
     DrainSegment, DrainDone, rt_segment_send_fifo, QueueKeepalive,
     BeginResend, ResendDone, PollReturns, AppWrite, AppRead, AppClose,
     rudp_transport_disconnect, Lose, PeerAccept, PeerHandle, PeerQueue,
     PeerTransmit, PeerAck, PeerDisconnect, sessVars, sendVars, recvVars,
     appVars, peerVars, clientVars, vars

\* No handled ACK removes a segment that the server does not have.
LEMMA AckedIsReceivedStep ==
  ASSUME IInv, [Next]_vars
  PROVE  AckedIsReceived'
<1>1. CASE \E p \in netC : HandleSegment(p)
  <2>1. PICK p \in netC : HandleSegment(p)
    BY <1>1
  <2>2. /\ send_segments' = {s \in send_segments : s > p.max_ack /\ s \notin p.acks}
        /\ UNCHANGED <<next_send_seq, peer_got>>
    BY <2>1 DEF HandleSegment, rt_process_acks, peerVars
  <2>3. p.max_ack \in Nat /\ 1..p.max_ack \subseteq peer_got /\ p.acks \subseteq peer_got
    BY DEF IInv, NetCOK, TypeOK, NetTypes, Packets
  <2>4. ASSUME NEW s \in 1..(next_send_seq - 1) PROVE s \in send_segments' \cup peer_got
    <3>1. s \in send_segments \/ s \in peer_got
      BY DEF IInv, AckedIsReceived
    <3>2. s \in Nat /\ s >= 1
      BY DEF IInv, TypeOK, SendTypes
    <3> QED BY <2>2, <2>3, <3>1, <3>2
  <2> QED BY <2>2, <2>4 DEF AckedIsReceived
<1>2. CASE \E p \in netC : HandleDisconnect(p)
  <2>1. PICK p \in netC : HandleDisconnect(p)
    BY <1>2
  <2>2. /\ send_segments' = {s \in send_segments : s > p.max_ack /\ s \notin p.acks}
        /\ UNCHANGED <<next_send_seq, peer_got>>
    BY <2>1 DEF HandleDisconnect, rt_process_acks, peerVars
  <2>3. p.max_ack \in Nat /\ 1..p.max_ack \subseteq peer_got /\ p.acks \subseteq peer_got
    BY DEF IInv, NetCOK, TypeOK, NetTypes, Packets
  <2>4. ASSUME NEW s \in 1..(next_send_seq - 1) PROVE s \in send_segments' \cup peer_got
    <3>1. s \in send_segments \/ s \in peer_got
      BY DEF IInv, AckedIsReceived
    <3>2. s \in Nat /\ s >= 1
      BY DEF IInv, TypeOK, SendTypes
    <3> QED BY <2>2, <2>3, <3>1, <3>2
  <2> QED BY <2>2, <2>4 DEF AckedIsReceived
<1>3. CASE DrainSegment
  <2>1. /\ \/ next_send_seq' = next_send_seq /\ send_segments' = send_segments
           \/ /\ next_send_seq' = next_send_seq + 1
              /\ send_segments' = send_segments \cup {next_send_seq}
        /\ UNCHANGED peer_got
    BY <1>3 DEF rt_queue_segment, DrainSegment, peerVars
  <2> QED BY <2>1 DEF IInv, TypeOK, SendTypes, AckedIsReceived
<1>4. CASE rt_segment_send_fifo
  <2>1. /\ \/ next_send_seq' = next_send_seq /\ send_segments' = send_segments
           \/ /\ next_send_seq' = next_send_seq + 1
              /\ send_segments' = send_segments \cup {next_send_seq}
        /\ UNCHANGED peer_got
    BY <1>4 DEF rt_queue_segment, rt_segment_send_fifo, peerVars
  <2> QED BY <2>1 DEF IInv, TypeOK, SendTypes, AckedIsReceived
<1>5. CASE QueueKeepalive
  <2>1. /\ \/ next_send_seq' = next_send_seq /\ send_segments' = send_segments
           \/ /\ next_send_seq' = next_send_seq + 1
              /\ send_segments' = send_segments \cup {next_send_seq}
        /\ UNCHANGED peer_got
    BY <1>5 DEF rt_queue_segment, QueueKeepalive, peerVars
  <2> QED BY <2>1 DEF IInv, TypeOK, SendTypes, AckedIsReceived
<1>6. CASE \E p \in netP : PeerHandle(p)
  BY <1>6 DEF IInv, AckedIsReceived, PeerHandle, clientVars, sendVars
<1>7. CASE UNCHANGED <<next_send_seq, send_segments, peer_got>>
  BY <1>7 DEF AckedIsReceived, IInv
<1> QED
  BY <1>1, <1>2, <1>3, <1>4, <1>5, <1>6, <1>7 DEF Next, Worker, Interrupt,
     Application, Server, rt_handle_udp_packet, InterruptConnectSent, Timeout,
     BeginInterrupt, DrainDone, rt_pump_recv_to_pair, rt_pump_pair_to_send,
     BeginResend, ResendSegment, ResendDone, DrainAcks, PollReturns,
     WorkerExit, AppWrite, AppRead, AppClose, rudp_transport_disconnect, Lose,
     PeerAccept, PeerQueue, PeerTransmit, PeerAck, PeerDisconnect, sessVars,
     sendVars, recvVars, appVars, peerVars, clientVars, vars

\* Queueing the next segment while the window is open keeps the window.
LEMMA QueueKeepsWindow ==
  ASSUME IInv,
         \/ UNCHANGED <<next_send_seq, send_segments>>
         \/ /\ ~WindowFull /\ next_send_seq' = next_send_seq + 1
            /\ send_segments' = send_segments \cup {next_send_seq}
  PROVE  SendWindow'
<1>1. /\ next_send_seq \in Int /\ MaxNumAck \in Nat \ {0}
      /\ send_segments \subseteq 1..(next_send_seq - 1)
      /\ \A s \in send_segments : next_send_seq - MaxNumAck <= s
  BY ConstantsAssumption DEF IInv, TypeOK, SendTypes, SendWindow
<1>2. CASE UNCHANGED <<next_send_seq, send_segments>>
  BY <1>1, <1>2 DEF SendWindow
<1>3. CASE /\ ~WindowFull /\ next_send_seq' = next_send_seq + 1
           /\ send_segments' = send_segments \cup {next_send_seq}
  <2>1. \A s \in send_segments : s \in Int /\ next_send_seq + 1 - MaxNumAck <= s
    BY <1>1, <1>3 DEF WindowFull
  <2> QED BY <1>1, <1>3, <2>1 DEF SendWindow
<1> QED BY <1>2, <1>3

\* No step leaves a queued segment behind the send window.
LEMMA SendWindowStep ==
  ASSUME IInv, [Next]_vars
  PROVE  SendWindow'
<1>1. CASE \E p \in netC : HandleSegment(p)
  BY <1>1 DEF IInv, SendWindow, rt_process_acks, HandleSegment
<1>2. CASE \E p \in netC : HandleDisconnect(p)
  BY <1>2 DEF IInv, SendWindow, rt_process_acks, HandleDisconnect
<1>3. CASE DrainSegment
  <2>1. \/ UNCHANGED <<next_send_seq, send_segments>>
        \/ /\ ~WindowFull /\ next_send_seq' = next_send_seq + 1
           /\ send_segments' = send_segments \cup {next_send_seq}
    BY <1>3 DEF rt_queue_segment, DrainSegment, WindowFull
  <2> QED BY <2>1, QueueKeepsWindow
<1>4. CASE rt_segment_send_fifo
  <2>1. \/ UNCHANGED <<next_send_seq, send_segments>>
        \/ /\ ~WindowFull /\ next_send_seq' = next_send_seq + 1
           /\ send_segments' = send_segments \cup {next_send_seq}
    BY <1>4 DEF rt_queue_segment, rt_segment_send_fifo
  <2> QED BY <2>1, QueueKeepsWindow
<1>5. CASE QueueKeepalive
  <2>1. \/ UNCHANGED <<next_send_seq, send_segments>>
        \/ /\ ~WindowFull /\ next_send_seq' = next_send_seq + 1
           /\ send_segments' = send_segments \cup {next_send_seq}
    BY <1>5 DEF rt_queue_segment, QueueKeepalive, WindowFull
  <2> QED BY <2>1, QueueKeepsWindow
<1>6. CASE UNCHANGED <<next_send_seq, send_segments>>
  BY <1>6 DEF SendWindow, IInv
<1> QED
  BY <1>1, <1>2, <1>3, <1>4, <1>5, <1>6 DEF Next, Worker, Interrupt,
     Application, Server, rt_handle_udp_packet, InterruptConnectSent, Timeout,
     BeginInterrupt, DrainDone, rt_pump_recv_to_pair, rt_pump_pair_to_send,
     BeginResend, ResendSegment, ResendDone, DrainAcks, PollReturns,
     WorkerExit, AppWrite, AppRead, AppClose, rudp_transport_disconnect, Lose,
     PeerAccept, PeerHandle, PeerQueue, PeerTransmit, PeerAck, PeerDisconnect,
     sessVars, sendVars, recvVars, appVars, peerVars, clientVars, vars

\* The server only drops a segment that the client holds.
LEMMA PeerAckedIsHeldStep ==
  ASSUME IInv, [Next]_vars
  PROVE  PeerAckedIsHeld'
<1>1. TypeOK /\ NetPOK /\ PeerAckedIsHeld /\ Len(peer_log) \in Nat
  BY DEF IInv, TypeOK, RecvTypes
<1>2. \A s \in Nat : Held(s) => Held(s)'
  BY <1>1, HeldGrows
<1>3. CASE \E p \in netP : PeerHandle(p)
  <2>1. PICK p \in netP : PeerHandle(p)
    BY <1>3
  <2>2. /\ peer_unacked' = {s \in peer_unacked : s > p.max_ack /\ s \notin p.acks}
        /\ UNCHANGED peer_log
    BY <2>1 DEF PeerHandle
  <2>3. /\ p.max_ack \in Nat /\ p.max_ack <= last_recv_complete_seq
        /\ last_recv_complete_seq \in Nat /\ \A s \in p.acks : Held(s)
    BY <1>1 DEF NetPOK, TypeOK, NetTypes, Packets, RecvTypes
  <2>4. ASSUME NEW s \in 1..Len(peer_log) PROVE s \in peer_unacked' \/ Held(s)'
    <3>1. s \in peer_unacked \/ Held(s)
      BY <1>1 DEF PeerAckedIsHeld
    <3>2. s \in Nat /\ (s <= p.max_ack => s <= last_recv_complete_seq)
      BY <1>1, <2>3
    <3>3. s <= p.max_ack \/ s \in p.acks => Held(s)
      BY <2>3, <3>2 DEF Held
    <3> QED BY <1>2, <2>2, <2>3, <3>1, <3>2, <3>3
  <2> QED BY <2>2, <2>4 DEF PeerAckedIsHeld
<1>4. CASE \E kind \in PeerKinds : PeerQueue(kind)
  <2>1. /\ Len(peer_log') = Len(peer_log) + 1
        /\ peer_unacked' = peer_unacked \cup {Len(peer_log) + 1}
    BY <1>1, <1>4 DEF PeerQueue, TypeOK, RecvTypes
  <2> QED BY <1>1, <1>2, <2>1 DEF PeerAckedIsHeld
<1>5. CASE UNCHANGED <<peer_log, peer_unacked>>
  BY <1>1, <1>2, <1>5 DEF PeerAckedIsHeld
<1> QED
  BY <1>3, <1>4, <1>5 DEF Next, Worker, Interrupt, Application, Server,
     rt_handle_udp_packet, HandleSegment, HandleDisconnect,
     InterruptConnectSent, Timeout, BeginInterrupt, DrainSegment, DrainDone,
     rt_pump_recv_to_pair, rt_pump_pair_to_send, rt_segment_send_fifo,
     QueueKeepalive, BeginResend, ResendSegment, ResendDone, DrainAcks,
     PollReturns, WorkerExit, AppWrite, AppRead, AppClose,
     rudp_transport_disconnect, Lose, PeerAccept, PeerTransmit, PeerAck,
     PeerDisconnect, sessVars, sendVars, recvVars, appVars, peerVars,
     clientVars, vars

\* Draining is the only step that adds to the receive FIFO, and it adds the
\* next segment.
LEMMA DeliveredInOrderStep ==
  ASSUME IInv, [Next]_vars
  PROVE  DeliveredInOrder'
<1>1. /\ TypeOK /\ DeliveredInOrder /\ recv_log \in Seq(Nat) /\ peer_log \in Seq(Kinds)
      /\ Len(peer_log) \in Nat /\ last_recv_complete_seq \in 0..Len(peer_log)
      /\ Len(recv_log) \in Nat
  BY DEF IInv, TypeOK, RecvTypes
<1>2. CASE DrainSegment
  <2> DEFINE seq == last_recv_complete_seq + 1
  <2>1. /\ last_recv_complete_seq' = seq /\ UNCHANGED peer_log
        /\ recv_log' = IF peer_log[seq] = "data" THEN Append(recv_log, seq) ELSE recv_log
    BY <1>2 DEF DrainSegment, CanDrain, peerVars
  <2>2. seq \in Nat /\ \A s \in 1..seq : s = seq \/ s \in 1..last_recv_complete_seq
    BY <1>1
  <2>3. CASE peer_log[seq] = "data"
    <3>1. /\ Len(recv_log') = Len(recv_log) + 1
          /\ recv_log'[Len(recv_log) + 1] = seq
          /\ \A i \in 1..Len(recv_log) : recv_log'[i] = recv_log[i]
      BY <1>1, <2>1, <2>2, <2>3
    <3>2. \A i \in 1..Len(recv_log') : i = Len(recv_log) + 1 \/ i \in 1..Len(recv_log)
      BY <1>1, <3>1
    <3>3. \A i \in 1..Len(recv_log) : recv_log[i] \in 1..last_recv_complete_seq /\ recv_log[i] < seq
      BY <1>1 DEF DeliveredInOrder
    <3>4. \A i, j \in 1..Len(recv_log') : i < j => recv_log'[i] < recv_log'[j]
      <4> SUFFICES ASSUME NEW i \in 1..Len(recv_log'), NEW j \in 1..Len(recv_log'), i < j
                   PROVE  recv_log'[i] < recv_log'[j]
        OBVIOUS
      <4>1. i \in 1..Len(recv_log)
        BY <1>1, <3>1
      <4>2. CASE j = Len(recv_log) + 1
        BY <3>1, <3>3, <4>1, <4>2
      <4>3. CASE j \in 1..Len(recv_log)
        BY <1>1, <3>1, <4>1, <4>3 DEF DeliveredInOrder
      <4> QED BY <3>2, <4>2, <4>3
    <3>5. \A i \in 1..Len(recv_log') : /\ recv_log'[i] \in 1..last_recv_complete_seq'
                                       /\ peer_log'[recv_log'[i]] = "data"
      <4> SUFFICES ASSUME NEW i \in 1..Len(recv_log')
                   PROVE  recv_log'[i] \in 1..seq /\ peer_log[recv_log'[i]] = "data"
        BY <2>1
      <4>1. CASE i = Len(recv_log) + 1
        BY <1>1, <2>3, <3>1, <4>1
      <4>2. CASE i \in 1..Len(recv_log)
        BY <1>1, <3>1, <4>2 DEF DeliveredInOrder
      <4> QED BY <3>2, <4>1, <4>2
    <3>6. \A s \in 1..last_recv_complete_seq' :
            peer_log'[s] = "data" => \E i \in 1..Len(recv_log') : recv_log'[i] = s
      <4> SUFFICES ASSUME NEW s \in 1..seq, peer_log[s] = "data"
                   PROVE  \E i \in 1..Len(recv_log') : recv_log'[i] = s
        BY <2>1
      <4>1. CASE s = seq
        BY <1>1, <3>1, <4>1
      <4>2. CASE s \in 1..last_recv_complete_seq
        <5>1. PICK i \in 1..Len(recv_log) : recv_log[i] = s
          BY <1>1, <4>2 DEF DeliveredInOrder
        <5>2. i \in 1..Len(recv_log') /\ recv_log'[i] = s
          BY <1>1, <3>1, <5>1
        <5> QED BY <5>2
      <4> QED BY <2>2, <4>1, <4>2
    <3> QED BY <3>4, <3>5, <3>6 DEF DeliveredInOrder
  <2>4. CASE peer_log[seq] # "data"
    <3>1. UNCHANGED <<recv_log, peer_log>> /\ last_recv_complete_seq' = seq
      BY <2>1, <2>4
    <3>2. \A s \in 1..last_recv_complete_seq : s \in 1..seq
      BY <1>1
    <3> QED BY <1>1, <2>2, <2>4, <3>1, <3>2 DEF DeliveredInOrder
  <2> QED BY <2>3, <2>4
<1>3. CASE \E kind \in PeerKinds : PeerQueue(kind)
  <2>1. UNCHANGED <<recv_log, last_recv_complete_seq>>
    BY <1>3 DEF PeerQueue, clientVars, recvVars
  <2>2. \A s \in 1..last_recv_complete_seq : peer_log'[s] = peer_log[s]
    <3>1. PICK k \in Kinds : peer_log' = Append(peer_log, k)
      BY <1>3, ConstantsAssumption DEF PeerQueue, Kinds
    <3>2. \A s \in 1..Len(peer_log) : peer_log'[s] = peer_log[s]
      BY <1>1, <3>1
    <3> QED BY <1>1, <3>2
  <2> QED BY <1>1, <2>1, <2>2 DEF DeliveredInOrder
<1>4. CASE UNCHANGED <<recv_log, last_recv_complete_seq, peer_log>>
  BY <1>1, <1>4 DEF DeliveredInOrder
<1> QED
  BY <1>2, <1>3, <1>4 DEF Next, Worker, Interrupt, Application, Server,
     rt_handle_udp_packet, HandleSegment, HandleDisconnect,
     InterruptConnectSent, Timeout, BeginInterrupt, DrainDone,
     rt_pump_recv_to_pair, rt_pump_pair_to_send, rt_segment_send_fifo,
     QueueKeepalive, BeginResend, ResendSegment, ResendDone, DrainAcks,
     PollReturns, WorkerExit, AppWrite, AppRead, AppClose,
     rudp_transport_disconnect, Lose, PeerAccept, PeerHandle, PeerTransmit,
     PeerAck, PeerDisconnect, sessVars, sendVars, recvVars, appVars, peerVars,
     clientVars, vars

\* The server's log stays within its bound.
LEMMA PeerLogBoundStep == IInv /\ [Next]_vars => PeerLogBound'
<1> SUFFICES ASSUME IInv, [Next]_vars PROVE PeerLogBound'
  OBVIOUS
<1>1. ASSUME NEW kind \in PeerKinds, PeerQueue(kind) PROVE PeerLogBound'
  <2>1. peer_log \in Seq(Kinds) /\ kind \in Kinds /\ MaxPeerSeq \in Nat
    BY ConstantsAssumption DEF IInv, TypeOK, RecvTypes, Kinds
  <2>2. Len(peer_log') = Len(peer_log) + 1 /\ Len(peer_log) < MaxPeerSeq
    BY <1>1, <2>1 DEF PeerQueue
  <2>3. Len(peer_log) \in Nat
    BY <2>1
  <2> QED BY <2>1, <2>2, <2>3 DEF PeerLogBound
<1>2. CASE UNCHANGED peer_log
  BY <1>2 DEF IInv, PeerLogBound
<1> QED
  BY <1>1, <1>2 DEF Next, Worker, Interrupt, Application, Server,
     rt_handle_udp_packet, HandleSegment, HandleDisconnect,
     InterruptConnectSent, Timeout, BeginInterrupt, DrainSegment, DrainDone,
     rt_pump_recv_to_pair, rt_pump_pair_to_send, rt_segment_send_fifo,
     QueueKeepalive, BeginResend, ResendSegment, ResendDone, DrainAcks,
     PollReturns, WorkerExit, AppWrite, AppRead, AppClose,
     rudp_transport_disconnect, Lose, PeerAccept, PeerHandle, PeerTransmit,
     PeerAck, PeerDisconnect, sessVars, sendVars, recvVars, appVars, peerVars,
     clientVars, vars

\* The inductive invariant holds when the worker starts.
LEMMA InitIInv == Init => IInv
<1> SUFFICES ASSUME Init PROVE IInv
  OBVIOUS
<1>1. TypeOK
  BY TypeInit
<1>2. /\ netC = {} /\ netP = {} /\ reply_acks = {} /\ send_segments = {} /\ next_send_seq = 1
      /\ Len(peer_log) = 0 /\ Len(recv_log) = 0 /\ MaxPeerSeq \in Nat
      /\ last_recv_complete_seq = 0
  BY ConstantsAssumption DEF Init
<1> QED
  BY <1>1, <1>2
       DEF IInv, PeerLogBound, NetCOK, NetPOK, ReplyAcksOK, SendWindow,
           AckedIsReceived,
     PeerAckedIsHeld, DeliveredInOrder

\* The inductive invariant holds in every reachable state.
THEOREM Invariance == Spec => []IInv
<1>1. Init => IInv
  BY InitIInv
<1>2. IInv /\ [Next]_vars => IInv'
  <2> SUFFICES ASSUME IInv, [Next]_vars PROVE IInv'
    OBVIOUS
  <2>1. TypeOK'
    BY TypeStep DEF IInv
  <2> QED
    BY <2>1, PeerLogBoundStep, NetStep, ReplyAcksStep, SendWindowStep,
         AckedIsReceivedStep,
       PeerAckedIsHeldStep, DeliveredInOrderStep DEF IInv
<1> QED BY <1>1, <1>2, PTL DEF Spec

\* Every variable keeps its type and every cursor stays inside its log.
THEOREM TypeCorrect == Spec => []TypeOK
<1>1. IInv => TypeOK
  BY DEF IInv
<1> QED BY <1>1, Invariance, PTL

\* The send window bounds the whole send queue.
THEOREM SendWindowHolds == Spec => []SendWindow
<1>1. IInv => SendWindow
  BY DEF IInv
<1> QED BY <1>1, Invariance, PTL

\* What the server may drop because the client acknowledged it, the client holds.
THEOREM AcksAreSound == Spec => []PeerAckedIsHeld
<1>1. IInv => PeerAckedIsHeld
  BY DEF IInv
<1> QED BY <1>1, Invariance, PTL

\* A segment leaves send_segments only when the server has it, whatever ACKs
\* rt_process_ack and rt_process_ack2 are given, in whatever order.
THEOREM UnackedAreKept == Spec => []AckedIsReceived
<1>1. IInv => AckedIsReceived
  BY DEF IInv
<1> QED BY <1>1, Invariance, PTL

\* What the application is given is the server's data, in order, once each.
THEOREM DeliveryIsInOrder == Spec => []DeliveredInOrder
<1>1. IInv => DeliveredInOrder
  BY DEF IInv
<1> QED BY <1>1, Invariance, PTL

\* While the window is open the array of send segments has room.
LEMMA OpenWindowHasRoom ==
  ASSUME IInv, ~WindowFull
  PROVE  Cardinality(send_segments) < MaxNumAck /\ Cardinality(send_segments) \in Nat
<1> DEFINE low == next_send_seq + 1 - MaxNumAck
<1>1. /\ next_send_seq \in Int /\ MaxNumAck \in Nat \ {0} /\ low \in Int
      /\ send_segments \subseteq 1..(next_send_seq - 1)
  BY ConstantsAssumption DEF IInv, TypeOK, SendTypes
<1>2. send_segments \subseteq low..(next_send_seq - 1)
  BY <1>1 DEF WindowFull
<1>3. /\ IsFiniteSet(low..(next_send_seq - 1))
      /\ Cardinality(low..(next_send_seq - 1)) = MaxNumAck - 1
  <2>1. next_send_seq - 1 \in Int /\ (low > next_send_seq - 1 => MaxNumAck = 1)
    BY <1>1
  <2>2. /\ IsFiniteSet(low..(next_send_seq - 1))
        /\ Cardinality(low..(next_send_seq - 1)) =
             IF low > next_send_seq - 1 THEN 0 ELSE (next_send_seq - 1) - low + 1
    BY <1>1, <2>1, FS_Interval
  <2> QED BY <1>1, <2>1, <2>2
<1>4. Cardinality(send_segments) <= MaxNumAck - 1 /\ Cardinality(send_segments) \in Nat
  BY <1>2, <1>3, FS_Subset, FS_CardinalityType
<1> QED BY <1>1, <1>4

\* rt_segment_send_fifo never advances the FIFO past a segment that
\* rt_queue_segment refused.
THEOREM NothingIsRefused == Spec => NothingRefused
<1>1. IInv /\ [Next]_vars => [segmented' # segmented => Len(seg_log') > Len(seg_log)]_vars
  <2> SUFFICES ASSUME IInv, [Next]_vars, segmented' # segmented
               PROVE  Len(seg_log') > Len(seg_log)
    OBVIOUS
  <2>1. CASE rt_segment_send_fifo
    <3>1. ~WindowFull
      BY <2>1 DEF rt_segment_send_fifo
    <3>2. ~(Cardinality(send_segments) >= MaxNumAck)
      <4>1. Cardinality(send_segments) < MaxNumAck /\ Cardinality(send_segments) \in Nat
        BY <3>1, OpenWindowHasRoom
      <4> QED BY <4>1, ConstantsAssumption
    <3>3. \E r : seg_log' = Append(seg_log, r)
      BY <2>1, <3>2 DEF rt_segment_send_fifo, rt_queue_segment
    <3> QED BY <3>3 DEF IInv, TypeOK, SendTypes
  <2>2. CASE UNCHANGED segmented
    BY <2>2
  <2> QED
    BY <2>1, <2>2 DEF Next, Worker, Interrupt, Application, Server,
       rt_handle_udp_packet, HandleSegment, HandleDisconnect,
       InterruptConnectSent, Timeout, BeginInterrupt, DrainSegment, DrainDone,
       rt_pump_recv_to_pair, rt_pump_pair_to_send, QueueKeepalive,
       BeginResend, ResendSegment, ResendDone, DrainAcks, PollReturns,
       WorkerExit, AppWrite, AppRead, AppClose, rudp_transport_disconnect,
       Lose, PeerAccept, PeerHandle, PeerQueue, PeerTransmit, PeerAck,
       PeerDisconnect, sessVars, sendVars, recvVars, appVars, peerVars,
       clientVars, vars
<1> QED BY <1>1, Invariance, PTL DEF Spec, NothingRefused

\* The abstract stream's view of the state.
DownSent == {n \in 1..Len(peer_log) : peer_log[n] = "data"}
DownRcvd == SubSeq(recv_log, 1, app_read)

\* A read by the application delivers the first item not yet delivered.
LEMMA ReadDelivers ==
  ASSUME IInv, AppRead
  PROVE  \E n \in 1..MaxPeerSeq : Down!Deliver(n)
<1> DEFINE n == recv_log[app_read + 1]
<1>1. /\ recv_log \in Seq(Nat) /\ Len(recv_log) \in Nat /\ Len(peer_log) \in Nat
      /\ pumped \in 0..Len(recv_log) /\ app_read \in 0..pumped
      /\ last_recv_complete_seq \in 0..Len(peer_log)
      /\ app_read < pumped /\ app_read' = app_read + 1
      /\ UNCHANGED <<recv_log, peer_log>>
  BY DEF IInv, TypeOK, RecvTypes, AppRead, recvVars, peerVars
<1>2. app_read + 1 \in 1..Len(recv_log)
  BY <1>1
<1>3. n \in 1..last_recv_complete_seq /\ peer_log[n] = "data"
  BY <1>2 DEF IInv, DeliveredInOrder
<1>4. n \in DownSent
  BY <1>1, <1>3 DEF DownSent
<1>5. /\ DownRcvd \in Seq(Nat) /\ Len(DownRcvd) = app_read
      /\ \A i \in 1..app_read : DownRcvd[i] = recv_log[i]
  BY <1>1 DEF DownRcvd
<1>6. \A m \in DownSent : m < n <=> \E i \in 1..Len(DownRcvd) : DownRcvd[i] = m
  <2> SUFFICES ASSUME NEW m \in DownSent
               PROVE  m < n <=> \E i \in 1..app_read : recv_log[i] = m
    BY <1>5
  <2>1. m \in 1..Len(peer_log) /\ peer_log[m] = "data"
    BY DEF DownSent
  <2>2. ASSUME m < n PROVE \E i \in 1..app_read : recv_log[i] = m
    <3>1. m \in 1..last_recv_complete_seq
      BY <1>1, <1>3, <2>1, <2>2
    <3>2. PICK i \in 1..Len(recv_log) : recv_log[i] = m
      BY <2>1, <3>1 DEF IInv, DeliveredInOrder
    <3>3. app_read + 1 < i => n < m
      BY <1>2, <3>2 DEF IInv, DeliveredInOrder
    <3>4. n \in Int /\ m \in Int
      BY <1>1, <1>2, <2>1
    <3>5. ~(app_read + 1 < i) /\ i # app_read + 1
      BY <2>2, <3>2, <3>3, <3>4
    <3> QED BY <1>1, <3>2, <3>5
  <2>3. ASSUME NEW i \in 1..app_read, recv_log[i] = m PROVE m < n
    <3>1. i \in 1..Len(recv_log) /\ i < app_read + 1
      BY <1>1
    <3> QED BY <1>2, <2>3, <3>1 DEF IInv, DeliveredInOrder
  <2> QED BY <2>2, <2>3
<1>7. DownRcvd' = Append(DownRcvd, n)
  <2>1. DownRcvd' = SubSeq(recv_log, 1, app_read + 1)
    BY <1>1 DEF DownRcvd
  <2>2. /\ SubSeq(recv_log, 1, app_read + 1) \in Seq(Nat)
        /\ Len(SubSeq(recv_log, 1, app_read + 1)) = app_read + 1
        /\ \A i \in 1..(app_read + 1) : SubSeq(recv_log, 1, app_read + 1)[i] = recv_log[i]
    BY <1>1, <1>2
  <2>3. /\ Append(DownRcvd, n) \in Seq(Nat) /\ Len(Append(DownRcvd, n)) = app_read + 1
        /\ \A i \in 1..(app_read + 1) : Append(DownRcvd, n)[i] = recv_log[i]
    <3>1. n \in Nat
      BY <1>1, <1>2
    <3> QED BY <1>1, <1>5, <3>1
  <2> HIDE DEF n
  <2> QED BY <2>1, <2>2, <2>3, SeqEqual
<1>8. DownSent' = DownSent
  BY <1>1 DEF DownSent
<1>9. n \in 1..MaxPeerSeq
  BY <1>1, <1>3, ConstantsAssumption DEF IInv, PeerLogBound
<1> QED BY <1>4, <1>6, <1>7, <1>8, <1>9 DEF Down!Deliver, DownSent, DownRcvd

\* A server segment is sent on the abstract stream if it is data.
LEMMA QueueSends ==
  ASSUME IInv, NEW kind \in PeerKinds, PeerQueue(kind)
  PROVE  /\ DownRcvd' = DownRcvd
         /\ \/ DownSent' = DownSent
            \/ \E n \in 1..MaxPeerSeq : Down!Send(n)
<1> DEFINE n == Len(peer_log) + 1
<1>1. /\ peer_log \in Seq(Kinds) /\ kind \in Kinds /\ MaxPeerSeq \in Nat
      /\ peer_log' = Append(peer_log, kind) /\ Len(peer_log) < MaxPeerSeq
      /\ UNCHANGED <<recv_log, app_read>>
  BY ConstantsAssumption
     DEF IInv, TypeOK, RecvTypes, Kinds, PeerQueue, clientVars, recvVars, appVars
<1>2. /\ Len(peer_log) \in Nat /\ Len(peer_log') = n /\ peer_log'[n] = kind
      /\ \A i \in 1..Len(peer_log) : peer_log'[i] = peer_log[i]
  BY <1>1
<1>3. DownRcvd' = DownRcvd
  BY <1>1 DEF DownRcvd
<1>4. DownSent' = IF kind = "data" THEN DownSent \cup {n} ELSE DownSent
  BY <1>2 DEF DownSent
<1>5. n \in 1..MaxPeerSeq /\ \A m \in DownSent : m < n
  BY <1>1, <1>2 DEF DownSent
<1> HIDE DEF n
<1> QED BY <1>3, <1>4, <1>5 DEF Down!Send, DownSent, DownRcvd

\* Draining adds behind what the application has read.
LEMMA DrainStutters ==
  ASSUME IInv, DrainSegment
  PROVE  DownSent' = DownSent /\ DownRcvd' = DownRcvd
<1>1. /\ recv_log \in Seq(Nat) /\ Len(recv_log) \in Nat /\ app_read \in 0..Len(recv_log)
      /\ recv_segments \in Seq(1..Len(peer_log)) /\ recv_segments # <<>>
      /\ UNCHANGED <<app_read, peer_log>>
  BY DEF IInv, TypeOK, RecvTypes, DrainSegment, CanDrain, appVars, peerVars
<1>2. Head(recv_segments) \in Nat
  BY <1>1
<1>3. \/ recv_log' = recv_log
      \/ recv_log' = Append(recv_log, Head(recv_segments))
  BY DEF DrainSegment
<1>4. /\ recv_log' \in Seq(Nat) /\ app_read \in 0..Len(recv_log')
      /\ \A i \in 1..Len(recv_log) : recv_log'[i] = recv_log[i]
  <2>1. CASE recv_log' = recv_log
    BY <1>1, <2>1
  <2>2. CASE recv_log' = Append(recv_log, Head(recv_segments))
    <3> DEFINE h == Head(recv_segments)
    <3>1. h \in Nat /\ recv_log' = Append(recv_log, h)
      BY <1>2, <2>2
    <3> HIDE DEF h
    <3> QED BY <1>1, <3>1
  <2> QED BY <1>3, <2>1, <2>2
<1>5. SubSeq(recv_log', 1, app_read) = SubSeq(recv_log, 1, app_read)
  <2>1. /\ SubSeq(recv_log', 1, app_read) \in Seq(Nat)
        /\ Len(SubSeq(recv_log', 1, app_read)) = app_read
        /\ \A i \in 1..app_read : SubSeq(recv_log', 1, app_read)[i] = recv_log'[i]
    BY <1>1, <1>4
  <2>2. /\ SubSeq(recv_log, 1, app_read) \in Seq(Nat)
        /\ Len(SubSeq(recv_log, 1, app_read)) = app_read
        /\ \A i \in 1..app_read : SubSeq(recv_log, 1, app_read)[i] = recv_log[i]
    BY <1>1
  <2>3. \A i \in 1..app_read : i \in 1..Len(recv_log)
    BY <1>1
  <2> QED BY <1>4, <2>1, <2>2, <2>3, SeqEqual
<1> QED BY <1>1, <1>5 DEF DownSent, DownRcvd

\* The receive direction implements VirtualTcp: queueing a data segment is
\* its Send, a read by the application its Deliver, all else stutters.
THEOREM Refinement == Spec => DownIsVirtualTcp
<1>1. Init => Down!Init
  BY DEF Init, Down!Init
<1>2. IInv /\ [Next]_vars => [Down!Next]_<<DownSent, DownRcvd>>
  <2> SUFFICES ASSUME IInv, [Next]_vars
               PROVE  Down!Next \/ (DownSent' = DownSent /\ DownRcvd' = DownRcvd)
    OBVIOUS
  <2>1. CASE AppRead
    BY <2>1, ReadDelivers DEF Down!Next
  <2>2. CASE \E kind \in PeerKinds : PeerQueue(kind)
    BY <2>2, QueueSends DEF Down!Next
  <2>3. CASE DrainSegment
    BY <2>3, DrainStutters
  <2>4. CASE UNCHANGED <<peer_log, recv_log, app_read>>
    BY <2>4 DEF DownSent, DownRcvd
  <2> QED
    BY <2>1, <2>2, <2>3, <2>4 DEF Next, Worker, Interrupt, Application,
       Server, rt_handle_udp_packet, HandleSegment, HandleDisconnect,
       InterruptConnectSent, Timeout, BeginInterrupt, DrainDone,
       rt_pump_recv_to_pair, rt_pump_pair_to_send, rt_segment_send_fifo,
       QueueKeepalive, BeginResend, ResendSegment, ResendDone, DrainAcks,
       PollReturns, WorkerExit, AppWrite, AppClose, rudp_transport_disconnect,
       Lose, PeerAccept, PeerHandle, PeerTransmit, PeerAck, PeerDisconnect,
       sessVars, sendVars, recvVars, appVars, peerVars, clientVars, vars
<1> QED
  BY <1>1, <1>2, Invariance, PTL
     DEF Spec, DownIsVirtualTcp, Down!Spec, DownSent, DownRcvd

=============================================================================
