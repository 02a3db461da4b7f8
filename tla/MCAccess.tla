------------------------------ MODULE MCAccess ------------------------------
(* Access with three pairing requests, two kept at a time, and one connection. *)
EXTENDS Access, TLC

\* Requests are interchangeable (safety only).
Symmetry == Permutations(Requests)
=============================================================================
