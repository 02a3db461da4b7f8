---------------------------- MODULE MCReceiverApp ----------------------------
(* ReceiverApp with two ports, two services in a process and two identities. *)
EXTENDS ReceiverApp
=============================================================================
