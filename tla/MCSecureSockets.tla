--------------------------- MODULE MCSecureSockets ---------------------------
(* Sockets and hosts are interchangeable in SecureSockets. *)
EXTENDS SecureSockets, TLC

Symmetry == Permutations(Sockets) \cup Permutations(Hosts)
===============================================================================
