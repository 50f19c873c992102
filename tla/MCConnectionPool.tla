--------------------------- MODULE MCConnectionPool ---------------------------
(* Instances of ConnectionPool for TLC. *)
EXTENDS ConnectionPool, TLC

CONSTANTS c1, c2, t1, t2, p1, p2, p3

MCConnections == {c1, c2}
MCThreads == {t1, t2}
MCProxies == {p1, p2, p3}

(* Connections, threads and proxies are interchangeable. *)
Symmetry ==
  Permutations(MCConnections) \cup Permutations(MCThreads) \cup Permutations(MCProxies)
===============================================================================
