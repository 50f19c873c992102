--------------------------- MODULE MCServerDispatch ---------------------------
(* Instances of ServerDispatch for TLC. *)
EXTENDS ServerDispatch

CONSTANTS k1, k2, k3, k4, w1, w2

MCClients == {k1, k2, k3, k4}
MCWorkers == {w1, w2}
===============================================================================
