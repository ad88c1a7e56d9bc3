-------------------------- MODULE MCRudpTransport --------------------------
(* Model checking of RudpTransport; the cfg files give the bounds.         *)
EXTENDS RudpTransport
=============================================================================
