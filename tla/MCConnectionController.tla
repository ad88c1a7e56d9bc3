---------------------- MODULE MCConnectionController ----------------------
(* Small instances of ConnectionController.  Reconnects are interchangeable.*)
EXTENDS ConnectionController, TLC

ReconnectSymmetry == Permutations(Reconnects)
=============================================================================
