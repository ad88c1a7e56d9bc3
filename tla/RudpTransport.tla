--------------------------- MODULE RudpTransport ---------------------------
(***************************************************************************)
(* The R-UDP transport of rudp_transport.c ("virtual TCP over UDP").       *)
(*                                                                         *)
(* One worker thread pumps bytes between a socket pair, whose other end is *)
(* the application's byte-stream fd, and a UDP socket.  The worker runs a  *)
(* loop: handle the datagrams that have arrived, then rt_interrupt, whose  *)
(* stages are the values of pc; every iteration of a stage's loop is one   *)
(* step, so the application, the network and the peer interleave with it.  *)
(*                                                                         *)
(* The FIFOs are kept as append-only logs with cursors.  Bytes are units:  *)
(* unit 0 is the Magic_Disconnect value that opens the stream and unit k   *)
(* is the k-th unit the application wrote.  A segment of the peer is one   *)
(* unit, named by its sequence number.  Timers are abstracted: whatever is *)
(* due by time may or may not be due at any step.  The server and the      *)
(* network are external; the network loses, duplicates and reorders.       *)
(***************************************************************************)
EXTENDS Integers, Sequences, FiniteSets

CONSTANTS
  MaxNumAck,    \* RUDP_T_MAX_NUM_ACK: both windows and the ACK list
  SegmentSize,  \* RUDP_T_MAX_SEGMENT_SIZE, in units
  FifoSize,     \* RUDP_T_MAX_FIFO_SIZE, in units
  PairSize,     \* buffer of each direction of the socket pair, in units
  PeerWindow,   \* how many unacknowledged segments the server keeps
  MaxSeq,       \* bound: keepalives are only queued below this client seq
  MaxApp,       \* bound: units the application writes
  MaxPeerSeq,   \* bound: segments the server queues
  PeerKinds,    \* bound: the kinds of segment the server queues
  Endings,      \* bound: who may end the session
  NetSize       \* bound: datagrams in flight in each direction

ASSUME ConstantsAssumption ==
  /\ MaxNumAck \in Nat \ {0} /\ SegmentSize \in Nat \ {0}
  /\ FifoSize \in Nat \ {0} /\ PairSize \in Nat \ {0}
  /\ PeerWindow \in Nat \ {0}
  /\ MaxSeq \in Nat /\ MaxApp \in Nat /\ MaxPeerSeq \in Nat /\ NetSize \in Nat
  /\ PeerKinds \subseteq {"data", "req", "resp"}
  /\ Endings \subseteq {"app", "owner", "server", "timeout"}

VARIABLES
  pc,           \* stage of the worker's loop
  status,       \* se->status
  result,       \* result_ready / result_ok
  halt,         \* t->halt
  \* sending
  next_send_seq,
  send_segments,  \* seqs in se->send_segments (the array is in seq order)
  fresh,          \* those of them never transmitted (next_send_tick = 0)
  resend,         \* what the retransmission loop has still to send
  seg_log,        \* kind and units of every segment queued so far, by seq
  send_log,       \* units accepted by se->send_fifo so far
  segmented,      \* how many of them have been put in segments
  \* receiving
  last_recv_complete_seq,
  recv_segments,  \* seqs in se->recv_segments, in array order
  reply_acks,
  recv_log,       \* peer segments accepted by se->recv_fifo so far
  pumped,         \* how many of them have been written to the socket pair
  \* the socket pair and the application
  pair_shut,      \* shutdown(worker_fd, SHUT_RDWR) was called
  app_open,       \* the application has not closed its end
  app_written,    \* units the application has written
  ingested,       \* how many of them the worker has read
  app_read,       \* peer segments the application has read
  \* network and server
  netC, netP,     \* datagrams on their way to the client, to the server
  peer_status,
  peer_log,       \* kind of every segment the server queued, by seq
  peer_unacked,
  peer_got,       \* client segments the server has received
  peer_acks

sessVars == <<pc, status, result, halt>>
sendVars == <<next_send_seq, send_segments, fresh, seg_log, send_log, segmented>>
recvVars == <<last_recv_complete_seq, recv_segments, recv_log, pumped>>
appVars  == <<app_open, app_written, app_read>>
peerVars == <<peer_status, peer_log, peer_unacked, peer_got, peer_acks>>
vars == <<sessVars, sendVars, resend, recvVars, reply_acks, pair_shut, appVars,
          ingested, netC, netP, peerVars>>

Kinds == {"data", "req", "resp"}
Stages == {"recv", "drain", "flush", "ingest", "segment", "keepalive",
           "resend", "acks", "poll", "exit", "done"}
Packets == [kind: {"init", "seg", "disc"}, max_ack: Nat, acks: SUBSET Nat,
            seq: Nat, data: BOOLEAN]
Segments == [kind: Kinds, units: Seq(Nat)]

Init ==
  /\ pc = "recv" /\ status = "CONNECT_SENT" /\ result = "none" /\ halt = FALSE
  /\ next_send_seq = 1 /\ send_segments = {} /\ fresh = {} /\ resend = {}
  /\ seg_log = <<>> /\ send_log = <<0>> /\ segmented = 0
  /\ last_recv_complete_seq = 0 /\ recv_segments = <<>> /\ reply_acks = {}
  /\ recv_log = <<>> /\ pumped = 0
  /\ pair_shut = FALSE /\ app_open = TRUE
  /\ app_written = 0 /\ ingested = 0 /\ app_read = 0
  /\ netC = {} /\ netP = {}
  /\ peer_status = "none" /\ peer_log = <<>> /\ peer_unacked = {}
  /\ peer_got = {} /\ peer_acks = {}

-----------------------------------------------------------------------------
(* Helpers of the worker.                                                  *)

WindowFullOneLate == \E m \in send_segments : m + MaxNumAck < next_send_seq

\* The window test of rt_segment_send_fifo: seq_min is the least queued seq.
WindowFull == \E m \in send_segments : m + MaxNumAck - 1 < next_send_seq

\* A datagram of the client: MAX_ACK, the pending ACKs, SEQ and a payload.
Datagram(kind, acks, seq, data) ==
  [kind |-> kind, max_ack |-> last_recv_complete_seq, acks |-> acks,
   seq |-> seq, data |-> data]

\* A network holding net and given pkts: when they do not fit it loses some,
\* older ones first.
Carried(net, pkts) ==
  IF Cardinality(net \cup pkts) <= NetSize THEN {net \cup pkts}
  ELSE {kept \in SUBSET (net \cup pkts) :
          Cardinality(kept) = NetSize /\ kept \cap pkts # {}}

rt_send_udp(pkts) == netP' \in Carried(netP, pkts)

\* Every datagram sent carries and clears the pending ACKs.
rt_send_segment_now(seq, data) ==
  /\ rt_send_udp({Datagram("seg", reply_acks, seq, data)})
  /\ reply_acks' = {}

\* A full array refuses the segment silently.
rt_queue_segment(kind, units) ==
  IF Cardinality(send_segments) >= MaxNumAck
  THEN UNCHANGED <<next_send_seq, send_segments, fresh, seg_log>>
  ELSE /\ send_segments' = send_segments \cup {next_send_seq}
       /\ fresh' = fresh \cup {next_send_seq}
       /\ seg_log' = Append(seg_log, [kind |-> kind, units |-> units])
       /\ next_send_seq' = next_send_seq + 1

\* The first result wins.
rt_signal_result(ok) == result' = IF result = "none" THEN ok ELSE result

\* by_you = FALSE: the disconnect segments go out first, the first of the
\* five with the pending ACKs and the others with none.
rt_set_disconnected(by_you) ==
  /\ status' = "DISCONNECTED"
  /\ pair_shut' = TRUE
  /\ rt_signal_result("fail")
  /\ IF ~by_you /\ status = "ESTABLISHED"
     THEN /\ rt_send_udp({Datagram("disc", reply_acks, 0, FALSE),
                          Datagram("disc", {}, 0, FALSE)})
          /\ reply_acks' = {}
     ELSE UNCHANGED <<netP, reply_acks>>

AcksOneTooMany(p) ==
  /\ send_segments' = {s \in send_segments : s > p.max_ack + 1 /\ s \notin p.acks}
  /\ fresh' = {s \in fresh : s > p.max_ack + 1 /\ s \notin p.acks}

\* rt_process_ack2 and rt_process_ack for every ACK of the datagram.
rt_process_acks(p) ==
  /\ send_segments' = {s \in send_segments : s > p.max_ack /\ s \notin p.acks}
  /\ fresh' = {s \in fresh : s > p.max_ack /\ s \notin p.acks}

rt_add_ack(seq) ==
  reply_acks' = IF Cardinality(reply_acks) < MaxNumAck
                THEN reply_acks \cup {seq} ELSE reply_acks

Buffered(seq) == \E i \in 1..Len(recv_segments) : recv_segments[i] = seq

InWindow(seq) == seq <= last_recv_complete_seq + MaxNumAck

\* Whether a payload is new, in the window, and has room.
Stores(seq) ==
  /\ seq > last_recv_complete_seq /\ InWindow(seq)
  /\ ~Buffered(seq) /\ Len(recv_segments) < MaxNumAck

\* What is beyond the window or finds no room is not acknowledged.
Acknowledges(seq) ==
  /\ InWindow(seq)
  /\ seq <= last_recv_complete_seq \/ Buffered(seq) \/ Stores(seq)

RefusesTheLast(seq) ==
  /\ IF Stores(seq) /\ Len(recv_segments) < MaxNumAck - 1
     THEN recv_segments' = Append(recv_segments, seq)
     ELSE UNCHANGED recv_segments
  /\ IF Acknowledges(seq) THEN rt_add_ack(seq) ELSE UNCHANGED reply_acks

\* The payload is stored behind what arrived before it.
rt_process_recv_payload(seq) ==
  /\ IF Stores(seq) THEN recv_segments' = Append(recv_segments, seq)
                    ELSE UNCHANGED recv_segments
  /\ IF Acknowledges(seq) THEN rt_add_ack(seq) ELSE UNCHANGED reply_acks

-----------------------------------------------------------------------------
(* The worker: datagrams.                                                  *)

\* The network may deliver a datagram again.
Consumed(net, p) == {net, net \ {p}}

\* An authentic segment: ACKs, then the payload, then establishment.
HandleSegment(p) ==
  /\ pc = "recv" /\ status # "DISCONNECTED"
  /\ p \in netC /\ p.kind = "seg"
  /\ netC' \in Consumed(netC, p)
  /\ rt_process_acks(p)
  /\ IF p.data THEN rt_process_recv_payload(p.seq)
               ELSE UNCHANGED <<recv_segments, reply_acks>>
  /\ status' = "ESTABLISHED"
  /\ IF status = "CONNECT_SENT" THEN rt_signal_result("ok") ELSE UNCHANGED result
  /\ UNCHANGED <<pc, halt, next_send_seq, seg_log, send_log, segmented, resend,
                 last_recv_complete_seq, recv_log, pumped, pair_shut, appVars,
                 ingested, netP, peerVars>>

\* The peer's Magic_Disconnect: ACKs count, then the session is over.
HandleDisconnect(p) ==
  /\ pc = "recv" /\ status # "DISCONNECTED"
  /\ p \in netC /\ p.kind = "disc"
  /\ netC' \in Consumed(netC, p)
  /\ rt_process_acks(p)
  /\ rt_set_disconnected(TRUE)
  /\ UNCHANGED <<pc, halt, next_send_seq, seg_log, send_log, segmented, resend,
                 recvVars, appVars, ingested, peerVars>>

rt_handle_udp_packet(p) == HandleSegment(p) \/ HandleDisconnect(p)

-----------------------------------------------------------------------------
(* The worker: rt_interrupt.                                               *)

StopsOnceConnected == halt /\ status # "CONNECT_SENT"

\* while (!t->halt) and the test after rt_interrupt.
Stops == halt

\* Back to the top of the loop, through poll(), unless it is to end.
LoopTests == pc' = IF Stops THEN "exit" ELSE "poll"

\* CONNECT_SENT: the request is sent every RUDP_T_RESEND_TIMER.
InterruptConnectSent ==
  /\ pc = "recv" /\ status = "CONNECT_SENT"
  /\ LoopTests
  /\ \/ rt_send_udp({Datagram("init", {}, 0, FALSE)})
     \/ UNCHANGED netP
  /\ UNCHANGED <<status, result, halt, sendVars, resend, recvVars, reply_acks,
                 pair_shut, appVars, ingested, netC, peerVars>>

\* connect_timeout_ms without an answer, or RUDP_T_TIMEOUT_MS of silence.  A
\* connection request due at the same time is a step of InterruptConnectSent.
Timeout ==
  /\ "timeout" \in Endings
  /\ pc = "recv" /\ status # "DISCONNECTED"
  /\ rt_set_disconnected(FALSE)
  /\ pc' = "exit"
  /\ UNCHANGED <<halt, sendVars, resend, recvVars, appVars, ingested, netC,
                 peerVars>>

\* Out of the datagram loop: rt_interrupt's established part, or the end.
BeginInterrupt ==
  /\ pc = "recv" /\ status # "CONNECT_SENT"
  /\ pc' = IF status = "ESTABLISHED" THEN "drain" ELSE "exit"
  /\ UNCHANGED <<status, result, halt, sendVars, resend, recvVars, reply_acks,
                 pair_shut, appVars, ingested, netC, netP, peerVars>>

DrainsAnyHead ==
  /\ recv_segments # <<>>
  /\ peer_log[Head(recv_segments)] = "data" => Len(recv_log) - pumped < FifoSize

DrainsBelowFull ==
  /\ recv_segments # <<>>
  /\ Head(recv_segments) = last_recv_complete_seq + 1
  /\ peer_log[Head(recv_segments)] = "data" => Len(recv_log) - pumped + 1 < FifoSize

\* Whether the head of recv_segments is the next segment and can be stored.
CanDrain ==
  /\ recv_segments # <<>>
  /\ Head(recv_segments) = last_recv_complete_seq + 1
  /\ peer_log[Head(recv_segments)] = "data" => Len(recv_log) - pumped < FifoSize

DrainSegment ==
  /\ pc = "drain" /\ CanDrain
  /\ LET seq == Head(recv_segments) IN
     /\ last_recv_complete_seq' = seq
     /\ recv_log' = IF peer_log[seq] = "data" THEN Append(recv_log, seq)
                                              ELSE recv_log
     /\ IF peer_log[seq] = "req" /\ send_segments = {}
        THEN rt_queue_segment("resp", <<>>)
        ELSE UNCHANGED <<next_send_seq, send_segments, fresh, seg_log>>
  /\ recv_segments' = Tail(recv_segments)
  /\ UNCHANGED <<sessVars, send_log, segmented, resend, pumped, reply_acks,
                 pair_shut, appVars, ingested, netC, netP, peerVars>>

DrainDone ==
  /\ pc = "drain" /\ ~CanDrain
  /\ pc' = "flush"
  /\ UNCHANGED <<status, result, halt, sendVars, resend, recvVars, reply_acks,
                 pair_shut, appVars, ingested, netC, netP, peerVars>>

\* send() on the worker's end of the pair fails once either end is closed.
PairBroken == pair_shut \/ ~app_open

rt_pump_recv_to_pair ==
  /\ pc = "flush"
  /\ \/ \* one write that the socket accepts
        /\ pumped < Len(recv_log) /\ ~PairBroken
        /\ pumped - app_read < PairSize
        /\ pumped' = pumped + 1
        /\ UNCHANGED <<pc, status, result, pair_shut, netP, reply_acks>>
     \/ \* EPIPE
        /\ pumped < Len(recv_log) /\ PairBroken
        /\ rt_set_disconnected(FALSE)
        /\ pc' = "ingest"
        /\ UNCHANGED pumped
     \/ \* FIFO empty, or EAGAIN
        /\ pumped = Len(recv_log) \/ (~PairBroken /\ pumped - app_read >= PairSize)
        /\ pc' = "ingest"
        /\ UNCHANGED <<status, result, pair_shut, netP, reply_acks, pumped>>
  /\ UNCHANGED <<halt, sendVars, resend, last_recv_complete_seq, recv_segments,
                 recv_log, appVars, ingested, netC, peerVars>>

\* recv() returns what is buffered, up to a segment's worth.
ChunkSize == IF app_written - ingested < SegmentSize
             THEN app_written - ingested ELSE SegmentSize

\* rt_fifo_write: all of it, or nothing when it does not fit.
rt_fifo_write(n) ==
  send_log' = IF Len(send_log) - segmented + n <= FifoSize
              THEN send_log \o [i \in 1..n |-> ingested + i] ELSE send_log

rt_pump_pair_to_send ==
  /\ pc = "ingest"
  /\ \/ \* one recv(); the result of rt_fifo_write is not looked at
        /\ Len(send_log) - segmented < FifoSize
        /\ ingested < app_written
        /\ rt_fifo_write(ChunkSize)
        /\ ingested' = ingested + ChunkSize
        /\ UNCHANGED <<pc, status, result, pair_shut, netP, reply_acks>>
     \/ \* recv() = 0
        /\ Len(send_log) - segmented < FifoSize
        /\ ingested = app_written /\ PairBroken
        /\ rt_set_disconnected(FALSE)
        /\ pc' = "segment"
        /\ UNCHANGED <<send_log, ingested>>
     \/ \* FIFO full, or EAGAIN
        /\ \/ Len(send_log) - segmented >= FifoSize
           \/ ingested = app_written /\ ~PairBroken
        /\ pc' = "segment"
        /\ UNCHANGED <<send_log, ingested, status, result, pair_shut, netP,
                       reply_acks>>
  /\ UNCHANGED <<halt, next_send_seq, send_segments, fresh, seg_log, segmented,
                 resend, recvVars, appVars, netC, peerVars>>

\* The next segment's share of the FIFO.
NextShare == IF Len(send_log) - segmented < SegmentSize
             THEN Len(send_log) - segmented ELSE SegmentSize

rt_segment_send_fifo ==
  /\ pc = "segment"
  /\ \/ /\ ~WindowFull /\ segmented < Len(send_log)
        /\ rt_queue_segment("data",
                            SubSeq(send_log, segmented + 1, segmented + NextShare))
        /\ segmented' = segmented + NextShare
        /\ UNCHANGED pc
     \/ /\ WindowFull \/ segmented = Len(send_log)
        /\ pc' = "keepalive"
        /\ UNCHANGED <<next_send_seq, send_segments, fresh, seg_log, segmented>>
  /\ UNCHANGED <<status, result, halt, send_log, resend, recvVars, reply_acks,
                 pair_shut, appVars, ingested, netC, netP, peerVars>>

\* The periodic keepalive request, when its time has come.
QueueKeepalive ==
  /\ pc = "keepalive"
  /\ send_segments = {} /\ next_send_seq < MaxSeq
  /\ rt_queue_segment("req", <<>>)
  /\ UNCHANGED <<sessVars, send_log, segmented, resend, recvVars, reply_acks,
                 pair_shut, appVars, ingested, netC, netP, peerVars>>

NeverRetransmitted(late) == fresh

\* Segments never sent are due; others (late) are due if their timer says so.
DueSegments(late) ==
  {s \in fresh \cup late : \A m \in send_segments : s <= m + MaxNumAck - 1}

BeginResend(late) ==
  /\ pc = "keepalive"
  /\ late \subseteq send_segments
  /\ resend' = DueSegments(late)
  /\ pc' = "resend"
  /\ UNCHANGED <<status, result, halt, sendVars, recvVars, reply_acks, pair_shut,
                 appVars, ingested, netC, netP, peerVars>>

\* The loop sends them in the order of the array.
ResendSegment(s) ==
  /\ pc = "resend" /\ s \in resend
  /\ \A r \in resend : s <= r
  /\ rt_send_segment_now(s, TRUE)
  /\ resend' = resend \ {s}
  /\ fresh' = fresh \ {s}
  /\ UNCHANGED <<sessVars, next_send_seq, send_segments, seg_log, send_log,
                 segmented, recvVars, pair_shut, appVars, ingested, netC, peerVars>>

ResendDone ==
  /\ pc = "resend" /\ resend = {}
  /\ pc' = "acks"
  /\ UNCHANGED <<status, result, halt, sendVars, resend, recvVars, reply_acks,
                 pair_shut, appVars, ingested, netC, netP, peerVars>>

\* An empty segment with the ACKs nothing else carried; then the loop's tests.
DrainAcks ==
  /\ pc = "acks"
  /\ IF reply_acks # {}
     THEN rt_send_segment_now(next_send_seq, FALSE) /\ UNCHANGED pc
     ELSE /\ IF status = "DISCONNECTED" THEN pc' = "exit" ELSE LoopTests
          /\ UNCHANGED <<netP, reply_acks>>
  /\ UNCHANGED <<status, result, halt, sendVars, resend, recvVars, pair_shut,
                 appVars, ingested, netC, peerVars>>

\* poll() returns; the loop's condition is tested again.
PollReturns ==
  /\ pc = "poll"
  /\ pc' = IF Stops THEN "exit" ELSE "recv"
  /\ UNCHANGED <<status, result, halt, sendVars, resend, recvVars, reply_acks,
                 pair_shut, appVars, ingested, netC, netP, peerVars>>

\* rt_worker after its loop.
WorkerExit ==
  /\ pc = "exit"
  /\ rt_set_disconnected(FALSE)
  /\ pc' = "done"
  /\ UNCHANGED <<halt, sendVars, resend, recvVars, appVars, ingested, netC,
                 peerVars>>

-----------------------------------------------------------------------------
(* The application and the owner of the transport.                         *)

\* The fd is handed out once rudp_transport_connect has returned 0.
AppWrite(n) ==
  /\ app_open /\ result = "ok" /\ ~pair_shut
  /\ app_written + n <= MaxApp
  /\ app_written - ingested + n <= PairSize
  /\ app_written' = app_written + n
  /\ UNCHANGED <<sessVars, sendVars, resend, recvVars, reply_acks, pair_shut,
                 app_open, app_read, ingested, netC, netP, peerVars>>

AppRead ==
  /\ app_open /\ result = "ok" /\ app_read < pumped
  /\ app_read' = app_read + 1
  /\ UNCHANGED <<sessVars, sendVars, resend, recvVars, reply_acks, pair_shut,
                 app_open, app_written, ingested, netC, netP, peerVars>>

AppClose ==
  /\ "app" \in Endings
  /\ app_open /\ result = "ok"
  /\ app_open' = FALSE
  /\ UNCHANGED <<sessVars, sendVars, resend, recvVars, reply_acks, pair_shut,
                 app_written, app_read, ingested, netC, netP, peerVars>>

\* rudp_transport_disconnect, rudp_transport_destroy and the failure path of
\* rudp_transport_connect ask the worker to stop.
rudp_transport_disconnect ==
  /\ "owner" \in Endings
  /\ ~halt
  /\ halt' = TRUE /\ pair_shut' = TRUE
  /\ UNCHANGED <<pc, status, result, sendVars, resend, recvVars, reply_acks,
                 appVars, ingested, netC, netP, peerVars>>

-----------------------------------------------------------------------------
(* The network and the server (external).                                  *)

Lose ==
  /\ \/ \E p \in netC : netC' = netC \ {p} /\ UNCHANGED netP
     \/ \E p \in netP : netP' = netP \ {p} /\ UNCHANGED netC
  /\ UNCHANGED <<sessVars, sendVars, resend, recvVars, reply_acks, pair_shut,
                 appVars, ingested, peerVars>>

clientVars == <<sessVars, sendVars, resend, recvVars, reply_acks, pair_shut,
                appVars, ingested>>

PeerAccept(p) ==
  /\ p \in netP /\ p.kind = "init"
  /\ netP' \in Consumed(netP, p)
  /\ peer_status' = IF peer_status = "none" THEN "up" ELSE peer_status
  /\ UNCHANGED <<clientVars, netC, peer_log, peer_unacked, peer_got, peer_acks>>

PeerHandle(p) ==
  /\ peer_status = "up"
  /\ p \in netP /\ p.kind \in {"seg", "disc"}
  /\ netP' \in Consumed(netP, p)
  /\ peer_unacked' = {s \in peer_unacked : s > p.max_ack /\ s \notin p.acks}
  /\ IF p.data THEN /\ peer_got' = peer_got \cup {p.seq}
                    /\ peer_acks' = peer_acks \cup {p.seq}
               ELSE UNCHANGED <<peer_got, peer_acks>>
  /\ peer_status' = IF p.kind = "disc" THEN "down" ELSE peer_status
  /\ UNCHANGED <<clientVars, netC, peer_log>>

PeerQueue(kind) ==
  /\ peer_status = "up" /\ Len(peer_log) < MaxPeerSeq
  /\ \A m \in peer_unacked : Len(peer_log) + 1 < m + PeerWindow
  /\ peer_log' = Append(peer_log, kind)
  /\ peer_unacked' = peer_unacked \cup {Len(peer_log) + 1}
  /\ UNCHANGED <<clientVars, netC, netP, peer_status, peer_got, peer_acks>>

\* The server's cumulative ACK: it has everything up to n and not n + 1.
PeerComplete(n) == 1..n \subseteq peer_got /\ n + 1 \notin peer_got

PeerSend(kind, seq, data) ==
  /\ peer_status = "up"
  /\ \E n \in 0..Len(seg_log) :
       /\ PeerComplete(n)
       /\ netC' \in Carried(netC, {[kind |-> kind, max_ack |-> n, acks |-> peer_acks,
                                   seq |-> seq, data |-> data]})
  /\ peer_acks' = {}

PeerTransmit(s) ==
  /\ s \in peer_unacked
  /\ PeerSend("seg", s, TRUE)
  /\ UNCHANGED <<clientVars, netP, peer_status, peer_log, peer_unacked, peer_got>>

PeerAck ==
  /\ peer_acks # {}
  /\ PeerSend("seg", Len(peer_log) + 1, FALSE)
  /\ UNCHANGED <<clientVars, netP, peer_status, peer_log, peer_unacked, peer_got>>

PeerDisconnect ==
  /\ "server" \in Endings
  /\ PeerSend("disc", 0, FALSE)
  /\ peer_status' = "down"
  /\ UNCHANGED <<clientVars, netP, peer_log, peer_unacked, peer_got>>

-----------------------------------------------------------------------------
Interrupt ==
  \/ InterruptConnectSent \/ Timeout \/ BeginInterrupt
  \/ DrainSegment \/ DrainDone \/ rt_pump_recv_to_pair
  \/ rt_pump_pair_to_send \/ rt_segment_send_fifo \/ QueueKeepalive
  \/ \E late \in SUBSET send_segments : BeginResend(late)
  \/ \E s \in resend : ResendSegment(s)
  \/ ResendDone \/ DrainAcks \/ PollReturns \/ WorkerExit

Worker == Interrupt \/ \E p \in netC : rt_handle_udp_packet(p)

Application ==
  \/ \E n \in 1..PairSize : AppWrite(n)
  \/ AppRead \/ AppClose \/ rudp_transport_disconnect

Server ==
  \/ \E p \in netP : PeerAccept(p) \/ PeerHandle(p)
  \/ \E kind \in PeerKinds : PeerQueue(kind)
  \/ \E s \in peer_unacked : PeerTransmit(s)
  \/ PeerAck \/ PeerDisconnect

Next == Worker \/ Application \/ Server \/ Lose

Spec == Init /\ [][Next]_vars

Over == status = "DISCONNECTED" \/ peer_status = "down"

(* Fairness.  The worker thread is scheduled and none of its calls blocks; *)
(* the application reads; the server retransmits; a queued segment's timer *)
(* runs out (its interval is capped by RUDP_T_RESEND_TIMER_MAX).  A        *)
(* datagram that is in the network again and again is handled, unless the  *)
(* session ends.  Writing, closing and losing are never forced.            *)
Due(n) == \E late \in SUBSET send_segments : n \in late /\ BeginResend(late)
Arrives(n) == \E p \in netC : p.data /\ p.seq = n /\ HandleSegment(p)
ArrivesAtPeer(n) == \E p \in netP : p.data /\ p.seq = n /\ PeerHandle(p)

GetsThrough(n) ==
  []<>(~Over /\ \E p \in netC : p.data /\ p.seq = n) => []<><<Arrives(n)>>_vars
GetsThroughToPeer(n) ==
  []<>(~Over /\ \E p \in netP : p.data /\ p.seq = n) => []<><<ArrivesAtPeer(n)>>_vars

StopSpec == Spec /\ WF_vars(Interrupt)

\* What bounds the client's sequence numbers in a bounded instance: the magic,
\* the application's units, keepalives, and responses to the server's.
MaxClientSeq ==
  1 + MaxApp + MaxSeq + IF "req" \in PeerKinds THEN MaxPeerSeq ELSE 0

LiveSpec ==
  /\ StopSpec /\ WF_vars(AppRead)
  /\ \A n \in 1..MaxPeerSeq : WF_vars(PeerTransmit(n)) /\ GetsThrough(n)
  /\ \A n \in 1..MaxClientSeq : SF_vars(Due(n)) /\ GetsThroughToPeer(n)

-----------------------------------------------------------------------------
(* Properties.                                                             *)

SessionTypes ==
  /\ pc \in Stages
  /\ status \in {"CONNECT_SENT", "ESTABLISHED", "DISCONNECTED"}
  /\ result \in {"none", "ok", "fail"}
  /\ halt \in BOOLEAN /\ pair_shut \in BOOLEAN /\ app_open \in BOOLEAN
  /\ peer_status \in {"none", "up", "down"}

SendTypes ==
  /\ next_send_seq \in Nat \ {0}
  /\ send_segments \subseteq 1..(next_send_seq - 1)
  /\ fresh \subseteq send_segments
  /\ resend \subseteq 1..(next_send_seq - 1)
  /\ seg_log \in Seq(Segments) /\ Len(seg_log) = next_send_seq - 1
  /\ peer_got \subseteq 1..(next_send_seq - 1)
  /\ peer_acks \subseteq peer_got

StreamTypes ==
  /\ app_written \in Nat /\ ingested \in 0..app_written
  /\ send_log \in Seq(Nat) /\ segmented \in 0..Len(send_log)

RecvTypes ==
  /\ peer_log \in Seq(Kinds)
  /\ peer_unacked \subseteq 1..Len(peer_log)
  /\ last_recv_complete_seq \in 0..Len(peer_log)
  /\ recv_segments \in Seq(1..Len(peer_log))
  /\ reply_acks \subseteq 1..Len(peer_log)
  /\ recv_log \in Seq(Nat)
  /\ pumped \in 0..Len(recv_log) /\ app_read \in 0..pumped

NetTypes == netC \subseteq Packets /\ netP \subseteq Packets

\* Every variable has its type, and the cursors stay inside their logs: no
\* stage reads past what was written, and the seqs in the arrays exist.
TypeOK == SessionTypes /\ SendTypes /\ StreamTypes /\ RecvTypes /\ NetTypes

\* The window of rt_segment_send_fifo bounds the whole array: every queued
\* segment is within MaxNumAck of next_send_seq, keepalives and responses
\* included, whatever order the ACKs came in.
SendWindow == \A s \in send_segments : next_send_seq - MaxNumAck <= s

\* No unit leaves the send FIFO without being queued: rt_queue_segment's
\* silent refusal at a full array is never met by rt_segment_send_fifo, which
\* advances the FIFO whatever rt_queue_segment did.
NothingRefused == [][segmented' # segmented => Len(seg_log') > Len(seg_log)]_vars

\* A client segment is dropped from send_segments only when the server has
\* it: no ACK, cumulative or single, late or repeated, removes another one.
AckedIsReceived == \A s \in 1..(next_send_seq - 1) : s \in send_segments \cup peer_got

\* What the client acknowledged it keeps: a segment the server stopped
\* retransmitting has been drained or is in recv_segments.
Held(s) == s <= last_recv_complete_seq \/ Buffered(s)
PeerAckedIsHeld == \A s \in 1..Len(peer_log) : s \in peer_unacked \/ Held(s)

\* What goes into the receive FIFO, and from there to the application, is
\* exactly the data segments up to last_recv_complete_seq, once each and in
\* the order of their sequence numbers; keepalives never get into it.
DeliveredInOrder ==
  /\ \A i, j \in 1..Len(recv_log) : i < j => recv_log[i] < recv_log[j]
  /\ \A i \in 1..Len(recv_log) : /\ recv_log[i] \in 1..last_recv_complete_seq
                                  /\ peer_log[recv_log[i]] = "data"
  /\ \A s \in 1..last_recv_complete_seq :
       peer_log[s] = "data" => \E i \in 1..Len(recv_log) : recv_log[i] = s

\* The abstract stream from the server to the application.
Down == INSTANCE VirtualTcp WITH
  Items <- 1..MaxPeerSeq,
  sent <- {n \in 1..Len(peer_log) : peer_log[n] = "data"},
  rcvd <- SubSeq(recv_log, 1, app_read)

\* The receive direction is a virtual TCP: what the application reads from
\* its fd is what the server sent, in order, once, with nothing left out,
\* through loss, duplication, reordering and full buffers.
DownIsVirtualTcp == Down!Spec

\* A data segment the server queued reaches the application, unless one of
\* the two sides gives up the session.
DataDelivered ==
  \A n \in 1..MaxPeerSeq :
    (status = "ESTABLISHED" /\ n <= Len(peer_log) /\ peer_log[n] = "data")
      ~> (Over \/ ~app_open \/ \E i \in 1..app_read : recv_log[i] = n)

\* A segment the client queued reaches the server, unless one of the two
\* sides gives up the session.
QueuedArrives ==
  \A n \in 1..MaxClientSeq : (n < next_send_seq) ~> (Over \/ n \in peer_got)

\* rudp_transport_destroy's pthread_join returns: once asked to, the worker
\* stops, from any stage of its loop.
WorkerStops == halt ~> pc = "done"
=============================================================================
