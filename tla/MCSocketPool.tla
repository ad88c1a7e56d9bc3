---------------------------- MODULE MCSocketPool ----------------------------
(* SocketPool for TLC. *)
EXTENDS SocketPool
=============================================================================
