---------------------------- MODULE MCWssGateway ----------------------------
(* WssGateway with few sockets and short deadlines; see the configurations. *)
EXTENDS WssGateway, TLC

\* Sockets are interchangeable (used without liveness only).
Symmetry == Permutations(Conns)
=============================================================================
