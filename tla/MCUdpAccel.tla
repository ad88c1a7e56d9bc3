----------------------------- MODULE MCUdpAccel -----------------------------
(* UdpAccel for TLC. *)
EXTENDS UdpAccel
=============================================================================
