------------------------- MODULE MCClientConnection -------------------------
(* ClientConnection with one or two sockets; see the configurations.       *)
EXTENDS ClientConnection, TLC
=============================================================================
