-------------------------- MODULE MCTransportRace --------------------------
(* Model checking of TransportRace; the cfg files choose the transports.   *)
EXTENDS TransportRace
=============================================================================
