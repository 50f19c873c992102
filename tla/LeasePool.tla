------------------------------ MODULE LeasePool ------------------------------
(***************************************************************************)
(* What the connection pool promises its callers, without locks, maps or   *)
(* scans: every connection is either free or leased to exactly one holder, *)
(* a holder may hand its lease to another holder, and a lease that ends    *)
(* makes its connection free again.  No connection is ever lost and none   *)
(* is ever shared.                                                         *)
(*                                                                         *)
(* ConnectionPool implements this specification (LeaseSpec there).         *)
(***************************************************************************)
CONSTANTS
  Connections,   \* the connections of the pool
  Holders,       \* what can hold a lease
  None           \* no lease

VARIABLES
  free,          \* the connections nobody holds
  lease          \* lease[h]: the connection h holds, or None

leaseVars == <<free, lease>>

Init ==
  /\ free = Connections
  /\ lease = [h \in Holders |-> None]

(* A holder with no lease takes a free connection. *)
Acquire(h, c) ==
  /\ lease[h] = None
  /\ c \in free
  /\ free' = free \ {c}
  /\ lease' = [lease EXCEPT ![h] = c]

(* A holder hands its lease to one that has none. *)
Pass(h, g) ==
  /\ lease[h] # None
  /\ lease[g] = None
  /\ lease' = [lease EXCEPT ![g] = lease[h], ![h] = None]
  /\ UNCHANGED free

(* A holder gives its connection back. *)
Return(h) ==
  /\ lease[h] # None
  /\ free' = free \cup {lease[h]}
  /\ lease' = [lease EXCEPT ![h] = None]

Next ==
  \/ \E h \in Holders, c \in Connections : Acquire(h, c)
  \/ \E h, g \in Holders : Pass(h, g)
  \/ \E h \in Holders : Return(h)

Spec == Init /\ [][Next]_leaseVars
==============================================================================
