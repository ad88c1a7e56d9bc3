---------------------------- MODULE MCConnection ----------------------------
(* Model-checking instance of Connection; see MCConnection_*.cfg.            *)
EXTENDS Connection

=============================================================================
