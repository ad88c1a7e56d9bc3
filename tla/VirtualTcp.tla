----------------------------- MODULE VirtualTcp -----------------------------
(***************************************************************************)
(* What the R-UDP transport promises in one direction (rudp_transport.h:   *)
(* "virtual TCP over UDP", a "byte-stream fd" used "like an                *)
(* already-connected TCP socket"): the receiver reads the items that were  *)
(* sent, each once, in the order they were sent, with none left out.       *)
(***************************************************************************)
EXTENDS Naturals, Sequences

CONSTANT Items  \* what may be sent; an item's number is its place

VARIABLES sent, rcvd

Init == sent = {} /\ rcvd = <<>>

Send(n) ==
  /\ \A m \in sent : m < n
  /\ sent' = sent \cup {n}
  /\ UNCHANGED rcvd

\* The item delivered is the first that has not been.
Deliver(n) ==
  /\ n \in sent
  /\ \A m \in sent : m < n <=> \E i \in 1..Len(rcvd) : rcvd[i] = m
  /\ rcvd' = Append(rcvd, n)
  /\ UNCHANGED sent

Next == \E n \in Items : Send(n) \/ Deliver(n)

Spec == Init /\ [][Next]_<<sent, rcvd>>
=============================================================================
