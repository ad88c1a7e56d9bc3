-------------------------- MODULE RecvQueueProofs --------------------------
(***************************************************************************)
(* The ring of RecvQueue implements the bounded FIFO of FrameFifo, for     *)
(* every ring size, every set of frames and every traffic.  The invariant  *)
(* the step simulation rests on ties the three indices together:           *)
(* tail = (head + count) mod QueueSize, with count at most QueueSize.      *)
(***************************************************************************)
EXTENDS RecvQueue, SequenceTheorems, TLAPS

Indices == tail = Slot(head + count)
IInv == QueueTypeOK /\ Indices

\* Within two laps the slot of an index is the index itself or the index less one lap.
LEMMA Wrap == ASSUME NEW N \in Nat \ {0}, NEW a \in 0..(2 * N - 1)
              PROVE  a % N = IF a < N THEN a ELSE a - N
  OBVIOUS

\* The ring index arithmetic of the receive queue, for one wrap at most.
LEMMA SlotValue ==
    \A a \in 0..(2 * QueueSize - 1) : Slot(a) = IF a < QueueSize THEN a ELSE a - QueueSize
  BY Wrap, QueueAssumption DEF Slot

\* The frames in the ring form a sequence of frames as long as the count.
LEMMA QueuedType ==
    ASSUME IInv
    PROVE  /\ Queued \in Seq(Frames) /\ Len(Queued) = count
           /\ \A i \in 1..count : Slot(head + i - 1) \in Slots
<1>1. \A i \in 1..count : Slot(head + i - 1) \in Slots
  <2> SUFFICES ASSUME NEW i \in 1..count PROVE Slot(head + i - 1) \in Slots
    OBVIOUS
  <2>1. head + i - 1 \in 0..(2 * QueueSize - 1)
    BY QueueAssumption DEF IInv, QueueTypeOK, Slots
  <2>q. QED
    BY <2>1, SlotValue, QueueAssumption DEF Slots
<1>2. \A i \in 1..count : ring[Slot(head + i - 1)] \in Frames
  BY <1>1 DEF IInv, QueueTypeOK
<1>3. count \in Nat
  BY QueueAssumption DEF IInv, QueueTypeOK
<1>q. QED
  BY <1>1, <1>2, <1>3 DEF Queued

\* A frame put at the tail becomes the last of the queue: no slot in use is touched.
LEMMA PutAppends ==
    ASSUME IInv, NEW f \in Frames, count < QueueSize, Put(f)
    PROVE  /\ Queued' = Append(Queued, f)
           /\ ring' \in [Slots -> Frames] /\ head' \in Slots /\ tail' \in Slots
           /\ count' \in 0..QueueSize /\ Indices'
<1> USE QueueAssumption
<1>1. /\ head \in 0..(QueueSize - 1) /\ count \in 0..(QueueSize - 1) /\ QueueSize \in Nat \ {0}
      /\ tail \in 0..(QueueSize - 1) /\ head' = head /\ count' = count + 1
      /\ tail' = Slot(tail + 1) /\ tail = Slot(head + count)
      /\ ring \in [Slots -> Frames] /\ ring' = [ring EXCEPT ![tail] = f]
  BY DEF IInv, QueueTypeOK, Put, Slots, Indices
<1>2. tail = IF head + count < QueueSize THEN head + count ELSE head + count - QueueSize
  BY <1>1, SlotValue
<1>3. tail' = IF tail + 1 < QueueSize THEN tail + 1 ELSE tail + 1 - QueueSize
  BY <1>1, SlotValue
<1>4. Slot(head + (count + 1)) =
        IF head + count + 1 < QueueSize THEN head + count + 1 ELSE head + count + 1 - QueueSize
  BY <1>1, SlotValue
<1>5. tail' = Slot(head' + count')
  BY <1>1, <1>2, <1>3, <1>4
<1>6. \A i \in 1..count : Slot(head + i - 1) # tail
  <2> SUFFICES ASSUME NEW i \in 1..count PROVE Slot(head + i - 1) # tail
    OBVIOUS
  <2>1. Slot(head + i - 1) =
          IF head + i - 1 < QueueSize THEN head + i - 1 ELSE head + i - 1 - QueueSize
    BY <1>1, SlotValue
  <2>q. QED
    BY <2>1, <1>1, <1>2
<1>7. Slot(head + (count + 1) - 1) = tail
  BY <1>1
<1>8. \A i \in 1..count : Slot(head + i - 1) \in Slots
  BY QueuedType
<1>9. Queued' = [i \in 1..(count + 1) |-> ring'[Slot(head + i - 1)]]
  BY <1>1 DEF Queued
<1>10. \A i \in 1..count : ring'[Slot(head + i - 1)] = ring[Slot(head + i - 1)]
  BY <1>1, <1>6, <1>8
<1>11. ring'[Slot(head + (count + 1) - 1)] = f
  BY <1>1, <1>7 DEF Slots
<1> DEFINE q == [i \in 1..(count + 1) |-> ring'[Slot(head + i - 1)]]
<1>12. /\ Append(Queued, f) \in Seq(Frames) /\ Len(Append(Queued, f)) = count + 1
       /\ \A i \in 1..count : Append(Queued, f)[i] = Queued[i]
       /\ Append(Queued, f)[count + 1] = f
  BY QueuedType, AppendProperties
<1>13. ring' \in [Slots -> Frames] /\ head' \in Slots /\ tail' \in Slots /\ count' \in 0..QueueSize
  BY <1>1, <1>3 DEF Slots
<1>14. \A i \in 1..(count + 1) : ring'[Slot(head + i - 1)] = Append(Queued, f)[i]
  <2> SUFFICES ASSUME NEW i \in 1..(count + 1)
               PROVE  ring'[Slot(head + i - 1)] = Append(Queued, f)[i]
    OBVIOUS
  <2>1. CASE i = count + 1
    BY <2>1, <1>11, <1>12
  <2>2. CASE i # count + 1
    <3>1. i \in 1..count
      BY <2>2, <1>1
    <3>2. Queued[i] = ring[Slot(head + i - 1)]
      BY <3>1 DEF Queued
    <3>q. QED
      BY <3>1, <3>2, <1>10, <1>12
  <2>q. QED
    BY <2>1, <2>2
<1>15. q \in Seq(Frames) /\ Len(q) = count + 1
  <2>1. \A i \in 1..(count + 1) : ring'[Slot(head + i - 1)] \in Frames
    <3>1. \A i \in 1..(count + 1) : Append(Queued, f)[i] \in Frames
      BY <1>12, ElementOfSeq
    <3>q. QED
      BY <3>1, <1>14
  <2>q. QED
    BY <2>1, <1>1
<1>16. q = Append(Queued, f)
  <2>1. \A i \in 1..Len(q) : q[i] = Append(Queued, f)[i]
    BY <1>14, <1>15
  <2> HIDE DEF q
  <2>q. QED
    BY <2>1, <1>15, <1>12, SeqEqual
<1>q. QED
  BY <1>5, <1>9, <1>13, <1>16 DEF Indices

\* Taking a frame off the head leaves the tail of the queue.
LEMMA DequeueTakesFirst ==
    ASSUME IInv, Dequeue
    PROVE  /\ Queued # <<>> /\ Queued' = Tail(Queued)
           /\ ring' \in [Slots -> Frames] /\ head' \in Slots /\ tail' \in Slots
           /\ count' \in 0..QueueSize /\ Indices'
<1> USE QueueAssumption
<1>1. /\ head \in 0..(QueueSize - 1) /\ count \in 1..QueueSize /\ QueueSize \in Nat \ {0}
      /\ tail \in 0..(QueueSize - 1) /\ tail' = tail /\ count' = count - 1
      /\ head' = Slot(head + 1) /\ tail = Slot(head + count)
      /\ ring \in [Slots -> Frames] /\ ring' = [ring EXCEPT ![head] = Garbage]
  BY DEF IInv, QueueTypeOK, Dequeue, Slots, Indices
<1>2. head' = IF head + 1 < QueueSize THEN head + 1 ELSE head + 1 - QueueSize
  BY <1>1, SlotValue
<1>3. \A i \in 0..(count - 1) : Slot(head' + i) = Slot(head + (i + 1))
  <2> SUFFICES ASSUME NEW i \in 0..(count - 1) PROVE Slot(head' + i) = Slot(head + (i + 1))
    OBVIOUS
  <2>1. Slot(head + (i + 1)) = IF head + i + 1 < QueueSize THEN head + i + 1
                                                          ELSE head + i + 1 - QueueSize
    BY <1>1, SlotValue
  <2>2. Slot(head' + i) = IF head' + i < QueueSize THEN head' + i ELSE head' + i - QueueSize
    BY <1>1, <1>2, SlotValue
  <2>q. QED
    BY <2>1, <2>2, <1>1, <1>2
<1>4. tail' = Slot(head' + count')
  BY <1>1, <1>3
<1>5. \A i \in 1..(count - 1) : Slot(head + (i + 1) - 1) # head
  <2> SUFFICES ASSUME NEW i \in 1..(count - 1) PROVE Slot(head + (i + 1) - 1) # head
    OBVIOUS
  <2>1. Slot(head + (i + 1) - 1) = IF head + i < QueueSize THEN head + i ELSE head + i - QueueSize
    BY <1>1, SlotValue
  <2>q. QED
    BY <2>1, <1>1
<1>6. /\ Queued \in Seq(Frames) /\ Len(Queued) = count /\ Queued # <<>>
      /\ Tail(Queued) \in Seq(Frames) /\ Len(Tail(Queued)) = count - 1
      /\ \A i \in 1..(count - 1) : Tail(Queued)[i] = Queued[i + 1]
  BY QueuedType, HeadTailProperties, <1>1
<1>7. \A i \in 1..(count - 1) : ring'[Slot(head' + i - 1)] = Tail(Queued)[i]
  <2> SUFFICES ASSUME NEW i \in 1..(count - 1)
               PROVE  ring'[Slot(head' + i - 1)] = Tail(Queued)[i]
    OBVIOUS
  <2>1. Slot(head' + i - 1) = Slot(head + (i + 1) - 1)
    BY <1>1, <1>2, <1>3
  <2>2. Slot(head + (i + 1) - 1) \in Slots /\ i + 1 \in 1..count
    <3>1. i + 1 \in 1..count
      BY <1>1
    <3>q. QED
      BY <3>1, QueuedType
  <2>3. ring'[Slot(head + (i + 1) - 1)] = ring[Slot(head + (i + 1) - 1)]
    BY <2>2, <1>1, <1>5
  <2>4. Queued[i + 1] = ring[Slot(head + (i + 1) - 1)]
    BY <2>2 DEF Queued
  <2>q. QED
    BY <2>1, <2>3, <2>4, <1>6
<1> DEFINE q == [i \in 1..(count - 1) |-> ring'[Slot(head' + i - 1)]]
<1>8. Queued' = q
  BY <1>1 DEF Queued
<1>9. q \in Seq(Frames) /\ Len(q) = count - 1
  <2>1. \A i \in 1..(count - 1) : ring'[Slot(head' + i - 1)] \in Frames
    BY <1>6, <1>7
  <2>q. QED
    BY <2>1, <1>1
<1>10. q = Tail(Queued)
  <2>1. \A i \in 1..Len(q) : q[i] = Tail(Queued)[i]
    BY <1>7, <1>9
  <2> HIDE DEF q
  <2>q. QED
    BY <2>1, <1>6, <1>9, SeqEqual
<1>11. ring' \in [Slots -> Frames] /\ head' \in Slots /\ tail' \in Slots /\ count' \in 0..QueueSize
  BY <1>1, <1>2 DEF Slots
<1>q. QED
  BY <1>4, <1>6, <1>8, <1>10, <1>11 DEF Indices

\* Every step of the ring keeps its indices consistent and is a step of the FIFO, or
\* none: the blocks of a message that breaks off are simply never put.
LEMMA StepSimulation ==
    ASSUME IInv, [QueueNext]_queueVars
    PROVE  IInv' /\ [Fifo!Next]_<<Queued, skipped>>
<1> USE QueueAssumption
<1>1. ASSUME NEW f \in Frames, count < QueueSize, Put(f),
             reading' \in Seq(Blocks), rc' \in {"none", "0", "1", "-1", "blocks", "draining"}
      PROVE  IInv' /\ Fifo!Next
  <2>1. /\ Queued' = Append(Queued, f) /\ Indices' /\ ring' \in [Slots -> Frames]
        /\ head' \in Slots /\ tail' \in Slots /\ count' \in 0..QueueSize
    BY <1>1, PutAppends
  <2>2. skipped' = skipped /\ Len(Queued) < QueueSize
    BY <1>1, QueuedType DEF Put
  <2>q. QED
    BY <1>1, <2>1, <2>2 DEF IInv, QueueTypeOK, Fifo!Next, Fifo!Put
<1>2. ASSUME UNCHANGED <<ring, head, tail, count>>, skipped' \in {skipped, skipped + 1},
             reading' \in Seq(Blocks), rc' \in {"none", "0", "1", "-1", "blocks", "draining"}
      PROVE  IInv' /\ [Fifo!Next]_<<Queued, skipped>>
  <2>1. Queued' = Queued
    BY <1>2 DEF Queued
  <2>2. IInv'
    BY <1>2 DEF IInv, QueueTypeOK, Indices
  <2>q. QED
    BY <1>2, <2>1, <2>2 DEF Fifo!Next, Fifo!Skip
<1>3. reading \in Seq(Blocks) /\ rc \in {"none", "0", "1", "-1", "blocks", "draining"}
  BY DEF IInv, QueueTypeOK
<1>4. CASE FillNothing
  BY <1>2, <1>3, <1>4 DEF FillNothing
<1>5. ASSUME NEW m \in Messages, FillMessage(m)
      PROVE  IInv' /\ [Fifo!Next]_<<Queued, skipped>>
  BY <1>2, <1>3, <1>5 DEF FillMessage
<1>6. ASSUME NEW f \in UdpFrames, Drain(f)
      PROVE  IInv' /\ [Fifo!Next]_<<Queued, skipped>>
  BY <1>1, <1>3, <1>6 DEF Drain
<1>7. CASE ReadBlock
  <2>1. reading' \in Seq(Blocks) /\ Head(reading) \in Blocks /\ rc' = rc
    BY <1>3, <1>7, HeadTailProperties DEF ReadBlock
  <2>2. Decode(Head(reading)) \in Frames
    BY <2>1 DEF Decode
  <2>3. CASE Put(Decode(Head(reading))) /\ count < QueueSize
    BY <1>1, <1>3, <2>1, <2>2, <2>3
  <2>4. CASE UNCHANGED <<ring, head, tail, count>> /\ skipped' \in {skipped, skipped + 1}
    BY <1>2, <1>3, <2>1, <2>4
  <2>q. QED
    BY <1>7, <2>3, <2>4 DEF ReadBlock
<1>8. CASE ReadFails
  BY <1>2, <1>3, <1>8 DEF ReadFails
<1>9. CASE FillEnd
  BY <1>2, <1>3, <1>9 DEF FillEnd
<1>10. CASE Dequeue
  <2>1. /\ Queued # <<>> /\ Queued' = Tail(Queued) /\ Indices' /\ ring' \in [Slots -> Frames]
        /\ head' \in Slots /\ tail' \in Slots /\ count' \in 0..QueueSize
    BY <1>10, DequeueTakesFirst
  <2>2. skipped' = skipped /\ reading' = reading /\ rc' = rc
    BY <1>10 DEF Dequeue
  <2>q. QED
    BY <2>1, <2>2 DEF IInv, QueueTypeOK, Fifo!Next, Fifo!Take
<1>11. CASE Consumed
  BY <1>2, <1>3, <1>11 DEF Consumed
<1>12. CASE UNCHANGED queueVars
  BY <1>2, <1>3, <1>12 DEF queueVars
<1>q. QED
  BY <1>4, <1>5, <1>6, <1>7, <1>8, <1>9, <1>10, <1>11, <1>12 DEF QueueNext

\* The receive queue is a bounded FIFO, for every ring size and every traffic: what
\* softether_receive and its variants take off the ring is what softether_fill_recv_queue
\* put there, in that order, each frame once.
THEOREM QueueImplementsFifo == QueueSpec => RingIsFifo
<1>1. QueueInit => IInv
  <2> SUFFICES ASSUME QueueInit PROVE IInv
    OBVIOUS
  <2>1. Slot(0) = 0
    BY SlotValue, QueueAssumption
  <2>2. QueueTypeOK
    BY QueueAssumption DEF QueueInit, QueueTypeOK, Slots
  <2>q. QED
    BY <2>1, <2>2, QueueAssumption DEF QueueInit, IInv, Indices
<1>2. QueueInit => Fifo!Init
  BY DEF QueueInit, Fifo!Init, Queued
<1>3. IInv /\ [QueueNext]_queueVars => IInv' /\ [Fifo!Next]_<<Queued, skipped>>
  BY StepSimulation
<1>q. QED
  BY <1>1, <1>2, <1>3, PTL DEF QueueSpec, RingIsFifo, Fifo!Spec

=============================================================================
