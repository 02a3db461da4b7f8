------------------------------ MODULE MCSenderApp ------------------------------
(* SenderApp with two devices, two sockets at a time and two storage calls under way. *)
EXTENDS SenderApp, TLC

\* Devices are interchangeable, and so are sockets.
Symmetry == Permutations(Devices) \cup Permutations(Conns)
=============================================================================
