----------------------------- MODULE RecvQueue -----------------------------
(***************************************************************************)
(* The receive queue of a connection: the ring recv_queue[] with its head, *)
(* tail and count, filled by softether_fill_recv_queue and emptied by the  *)
(* receive functions.  One call reads one protocol message, which carries  *)
(* any number of blocks, or drains the UDP-acceleration queue.             *)
(*                                                                         *)
(* A block is a frame with the size it has on the wire; in a compressed    *)
(* session also the size it inflates to.  The choice of the socket and the *)
(* races with teardown are the subject of SocketPool.                      *)
(***************************************************************************)
EXTENDS Integers, Sequences

CONSTANTS
    Frames,         \* the Ethernet frames
    Garbage,        \* a block stored without being inflated
    QueueSize,      \* RECV_QUEUE_SIZE
    MaxFrame,       \* MAX_QUEUED_FRAME
    MaxBlock,       \* MAX_BLOCK_SIZE
    Compress,       \* conn->server_use_compress
    Blocks,         \* the blocks the server may send
    Messages,       \* the messages it makes of them in the data phase
    UdpFrames,      \* the frames that may come over UDP acceleration
    MaxSkipped      \* bound: blocks skipped

ASSUME QueueAssumption ==
    /\ QueueSize \in Nat \ {0} /\ MaxFrame \in Nat /\ MaxBlock \in Nat /\ MaxSkipped \in Nat
    /\ Compress \in BOOLEAN /\ Garbage \in Frames
    /\ Blocks \subseteq [frame : Frames, size : Nat, inner : Nat]
    /\ Messages \subseteq Seq(Blocks) /\ UdpFrames \subseteq Frames

VARIABLES
    ring, head, tail, count,    \* recv_queue, recv_queue_head, _tail, _count
    skipped,                    \* rx_skipped_blocks
    reading,                    \* the blocks of the current message still to be read
    rc                          \* what softether_fill_recv_queue returned, or where it is

queueVars == <<ring, head, tail, count, skipped, reading, rc>>

Slots == 0..(QueueSize - 1)
Slot(i) == i % QueueSize
InFill == rc \in {"blocks", "draining"}
MayCall == rc \in {"none", "1"}     \* the consumer has dealt with the last result

QueueInit == /\ ring = [i \in Slots |-> Garbage] /\ head = 0 /\ tail = 0 /\ count = 0
             /\ skipped = 0 /\ reading = <<>> /\ rc = "none"

Put(f) == /\ ring' = [ring EXCEPT ![tail] = f]
          /\ tail' = Slot(tail + 1)
          /\ count' = count + 1
          /\ UNCHANGED <<head, skipped>>

\* A block of a compressed session that does not inflate into a slot is stored as is.
Decode(b) == IF Compress /\ b.inner > MaxFrame THEN Garbage ELSE b.frame

\* The consumers call softether_fill_recv_queue only on an empty queue.  No data, a
\* keepalive (answered) or an empty message returns 0, a poll or state error -1.
FillNothing == /\ MayCall /\ count = 0 /\ rc' \in {"0", "-1"}
               /\ UNCHANGED <<ring, head, tail, count, skipped, reading>>

FillMessage(blocks) ==
    /\ MayCall /\ count = 0
    /\ reading' = blocks /\ rc' = "blocks"
    /\ UNCHANGED <<ring, head, tail, count, skipped>>

\* drain_rudp_into_recv_queue: while there is a frame and room for it.
Drain(f) ==
    /\ rc = "draining" \/ (MayCall /\ count = 0)
    /\ count < QueueSize
    /\ Put(f) /\ rc' = "draining" /\ UNCHANGED reading

ReadBlockOverwrites ==
    /\ rc = "blocks" /\ reading # <<>>
    /\ LET b == Head(reading)
       IN  IF b.size \in 1..MaxFrame
             THEN /\ ring' = [ring EXCEPT ![tail] = Decode(b)] /\ tail' = Slot(tail + 1)
                  /\ count' = (IF count = QueueSize THEN count ELSE count + 1)
                  /\ UNCHANGED <<head, skipped>>
             ELSE UNCHANGED <<ring, head, tail, count, skipped>>
    /\ reading' = Tail(reading) /\ UNCHANGED rc

\* One block: queued, skipped when the queue is full or the block too large for a
\* slot, passed over when it is empty.
ReadBlock ==
    /\ rc = "blocks" /\ reading # <<>>
    /\ LET b == Head(reading)
       IN  \/ /\ b.size \in 1..MaxFrame /\ count < QueueSize
              /\ Put(Decode(b))
           \/ /\ b.size = 0 /\ UNCHANGED <<ring, head, tail, count, skipped>>
           \/ /\ b.size \in 1..MaxBlock /\ (b.size > MaxFrame \/ count = QueueSize)
              /\ skipped < MaxSkipped
              /\ skipped' = skipped + 1 /\ UNCHANGED <<ring, head, tail, count>>
    /\ reading' = Tail(reading) /\ UNCHANGED rc

\* The socket fails in the middle of the message, or a block is larger than allowed:
\* what has been queued stays.  On an additional socket the call returns 0.
ReadFails ==
    /\ rc = "blocks" /\ reading # <<>>
    /\ reading' = <<>> /\ rc' \in {"0", "-1"}
    /\ UNCHANGED <<ring, head, tail, count, skipped>>

FillEnd ==
    /\ rc = "draining" \/ (rc = "blocks" /\ reading = <<>>)
    /\ rc' = IF count > 0 THEN "1" ELSE "0"
    /\ UNCHANGED <<ring, head, tail, count, skipped, reading>>

\* A consumer takes the frame at the head.  The slot it was in is dead and is blanked.
FrontFrame == ring[head]
Dequeue ==
    /\ MayCall /\ count > 0
    /\ ring' = [ring EXCEPT ![head] = Garbage]
    /\ head' = Slot(head + 1) /\ count' = count - 1
    /\ UNCHANGED <<tail, skipped, reading, rc>>

\* The consumer returns, with the result of the call.
Consumed ==
    /\ ~InFill /\ rc' = "none"
    /\ UNCHANGED <<ring, head, tail, count, skipped, reading>>

QueueNext == \/ FillNothing \/ ReadBlock \/ ReadFails \/ FillEnd \/ Dequeue \/ Consumed
             \/ \E m \in Messages : FillMessage(m)
             \/ \E f \in UdpFrames : Drain(f)
QueueSpec == QueueInit /\ [][QueueNext]_queueVars

-----------------------------------------------------------------------------
QueueTypeOK ==
    /\ ring \in [Slots -> Frames] /\ head \in Slots /\ tail \in Slots /\ count \in 0..QueueSize
    /\ skipped \in Nat /\ reading \in Seq(Blocks)
    /\ rc \in {"none", "0", "1", "-1", "blocks", "draining"}

\* The frames in the ring, from the head on.
Queued == [i \in 1..count |-> ring[Slot(head + i - 1)]]

Fifo == INSTANCE FrameFifo WITH fifo <- Queued, Capacity <- QueueSize

\* The ring with its three indices behaves as a bounded FIFO, whatever the wrap-around
\* and whatever was left behind by a message whose socket failed half way.
RingIsFifo == Fifo!Spec

=============================================================================
