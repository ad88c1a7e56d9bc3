----------------------------- MODULE FrameFifo -----------------------------
(***************************************************************************)
(* What the receive queue promises its consumers (softether_receive,       *)
(* softether_receive_raw, softether_receive_batch): a bounded first-in     *)
(* first-out queue of frames.  A frame leaves only from the front, a frame *)
(* that enters goes to the back, and nothing is forgotten silently: a      *)
(* block that is not queued is counted.                                    *)
(***************************************************************************)
EXTENDS Naturals, Sequences

CONSTANTS Frames, Capacity

VARIABLES fifo, skipped

Init == fifo = <<>> /\ skipped = 0

Put == /\ Len(fifo) < Capacity
       /\ \E f \in Frames : fifo' = Append(fifo, f)
       /\ UNCHANGED skipped
Take == fifo # <<>> /\ fifo' = Tail(fifo) /\ UNCHANGED skipped
Skip == skipped' = skipped + 1 /\ UNCHANGED fifo

Next == Put \/ Take \/ Skip
Spec == Init /\ [][Next]_<<fifo, skipped>>

=============================================================================
