------------------------- MODULE ConnectionPoolProofs -------------------------
(***************************************************************************)
(* Proofs about ConnectionPool for any set of connections, threads and     *)
(* proxies, and for every implementation of Connection.                    *)
(*                                                                         *)
(* The argument rests on the discipline of the mutex.  Only its holder     *)
(* changes the two maps, and a holder's loop visits a snapshot of the idle *)
(* map, so whatever the loop has still to visit is idle (PoolInv).  When   *)
(* callers never pass a proxy to release_connection, a connection that is  *)
(* held is busy (LeaseInv), so the loop cannot meet it and get_connection  *)
(* cannot hand it out again.                                               *)
(***************************************************************************)
EXTENDS ConnectionPool, TLAPS

(* What the operations under way know of their arguments. *)
CallsOK ==
  /\ \A t \in Threads : pc[t] \in {"get", "release", "destroy"} => arg[t] \in Proxies
  /\ \A t \in Threads : pc[t] \in {"out", "beat"} => arg[t] = None
  /\ \A t, u \in Threads : arg[t] # None /\ arg[t] = arg[u] => t = u
  /\ \A t \in Threads : pc[t] = "get" => proxy[arg[t]] = Dead
  /\ \A t \in Threads : pc[t] \in {"release", "destroy"} => proxy[arg[t]] \in Connections

SpentHold == \A p \in spent : Holds(p)

PoolInv ==
  /\ TypeOK
  /\ Conserved
  /\ CallsOK
  /\ SpentHold
  /\ todo \subseteq idle
  /\ chosen # None => mtx # None /\ pc[mtx] = "get" /\ chosen \in todo

LeaseInv ==
  /\ PoolInv
  /\ spent = {}
  /\ \A t \in Threads : pc[t] # "release"
  /\ ExclusiveLease
  /\ LeaseIsValid

(* The maps, the mutex and the calls under way are well formed initially. *)
LEMMA PoolInit == Init => PoolInv
  BY PoolAssumption
  DEF Init, PoolInv, TypeOK, Conserved, CallsOK, SpentHold, Holds

(* Every step of the pool and of its callers keeps them so. *)
LEMMA PoolStep == PoolInv /\ [Next]_vars => PoolInv'
<1> SUFFICES ASSUME PoolInv, [Next]_vars PROVE PoolInv'
  OBVIOUS
<1> USE PoolAssumption DEF PoolInv, TypeOK, Conserved, CallsOK, SpentHold, Holds, Operations
<1>1. ASSUME NEW t \in Threads, NEW p \in Proxies, CallGet(t, p) PROVE PoolInv'
  BY <1>1 DEF CallGet, Enter, InCall
<1>2. ASSUME NEW t \in Threads, NEW p \in Proxies, CallRelease(t, p) PROVE PoolInv'
  BY <1>2 DEF CallRelease, Enter, InCall
<1>3. ASSUME NEW t \in Threads, NEW p \in Proxies, CallDestroy(t, p) PROVE PoolInv'
  BY <1>3 DEF CallDestroy, Enter, InCall
<1>4. ASSUME NEW t \in Threads, CallHeartBeat(t) PROVE PoolInv'
  BY <1>4 DEF CallHeartBeat, Enter
<1>5. ASSUME NEW t \in Threads, NEW p \in Proxies, DestroyNull(t, p) PROVE PoolInv'
  BY <1>5 DEF DestroyNull, InCall
<1>6. ASSUME NEW t \in Threads, NEW p \in Proxies, NEW q \in Proxies,
             MoveConstruct(t, p, q) \/ MoveAssign(t, p, q)
      PROVE PoolInv'
  BY <1>6 DEF MoveConstruct, MoveAssign, Transfer, InCall
<1>7. ASSUME NEW t \in Threads, Lock(t) PROVE PoolInv'
  BY <1>7 DEF Lock
<1>8. ASSUME NEW t \in Threads, GetNothing(t) PROVE PoolInv'
  BY <1>8 DEF GetNothing, Inside, Leave
<1>9. ASSUME NEW t \in Threads, NEW c \in Connections,
             CheckHealthy(t, c) \/ CheckConnected(t, c)
      PROVE PoolInv'
  BY <1>9 DEF CheckHealthy, CheckConnected, Scans, Inside
<1>10. ASSUME NEW t \in Threads, NEW c \in Connections, SkipRefused(t, c) PROVE PoolInv'
  BY <1>10 DEF SkipRefused, Scans, Inside
<1>11. ASSUME NEW t \in Threads, Release(t) PROVE PoolInv'
  BY <1>11 DEF Release, MakeIdle, Inside, Leave
<1>12. ASSUME NEW t \in Threads, Destroy(t) PROVE PoolInv'
  BY <1>12 DEF Destroy, MakeIdle, Inside, Leave
<1>13. ASSUME NEW t \in Threads, NEW c \in Connections, BeatOne(t, c) PROVE PoolInv'
  BY <1>13 DEF BeatOne, Inside
<1>14. ASSUME NEW t \in Threads, EndBeat(t) PROVE PoolInv'
  BY <1>14 DEF EndBeat, Inside, Leave
<1>15. ASSUME NEW c \in Connections, LinkDrops(c) PROVE PoolInv'
  BY <1>15 DEF LinkDrops
<1>16. ASSUME NEW t \in Threads, HandOut(t) PROVE PoolInv'
  BY <1>16 DEF HandOut, Inside, Leave
<1>17. CASE UNCHANGED vars
  BY <1>17 DEF vars
<1>18. QED
  BY <1>1, <1>2, <1>3, <1>4, <1>5, <1>6, <1>7, <1>8, <1>9, <1>10, <1>11, <1>12,
     <1>13, <1>14, <1>15, <1>16, <1>17
  DEF Next, Step, Caller

LEMMA PoolInvariant == Spec => []PoolInv
<1>1. QED BY PoolInit, PoolStep, PTL DEF Spec

(* The state of the pool is well typed, and the holder of the mutex is in an *)
(* operation (unique_lock is taken and given back inside each function).     *)
THEOREM PoolTypeOK == Spec => []TypeOK
<1>1. PoolInv => TypeOK BY DEF PoolInv
<1>2. QED BY <1>1, PoolInvariant, PTL

(* No connection is lost or duplicated by the two maps, however callers use *)
(* their proxies: size() is constant.                                       *)
THEOREM PoolConserved == Spec => []Conserved
<1>1. PoolInv => Conserved BY DEF PoolInv
<1>2. QED BY <1>1, PoolInvariant, PTL

-------------------------------------------------------------------------------
(* Callers that never pass a proxy to release_connection. *)

(* A held connection is busy and has one holder: the steps that change a    *)
(* proxy or a map.                                                          *)
LEMMA LeaseStep ==
  ASSUME "explicit_release" \notin Habits
  PROVE  LeaseInv /\ [Next]_vars => LeaseInv'
<1> SUFFICES ASSUME LeaseInv, [Next]_vars PROVE LeaseInv'
  OBVIOUS
<1>0. PoolInv /\ PoolInv'
  BY PoolStep DEF LeaseInv
<1> DEFINE Goal == spent' = {} /\ ExclusiveLease' /\ LeaseIsValid'
<1>a. (\A t \in Threads : pc[t] # "release")'
  BY DEF LeaseInv, PoolInv, TypeOK, Next, Step, Caller, vars, Lock, GetNothing, Leave,
         CheckHealthy, CheckConnected, SkipRefused, HandOut, Release, Destroy, BeatOne,
         EndBeat, LinkDrops, CallGet, CallRelease, CallDestroy, CallHeartBeat, Enter,
         DestroyNull, MoveConstruct, MoveAssign
<1> SUFFICES Goal
  BY <1>0, <1>a DEF LeaseInv
<1> USE <1>0, PoolAssumption
    DEF LeaseInv, PoolInv, TypeOK, Conserved, CallsOK, ExclusiveLease, LeaseIsValid,
        Leases, Holds, valid
<1>1. CASE UNCHANGED <<proxy, spent, busy>>
  BY <1>1
<1>2. ASSUME NEW t \in Threads, NEW p \in Proxies, DestroyNull(t, p) PROVE Goal
  BY <1>2 DEF DestroyNull
<1>3. ASSUME NEW t \in Threads, NEW p \in Proxies, NEW q \in Proxies,
             MoveConstruct(t, p, q) \/ MoveAssign(t, p, q)
      PROVE Goal
  BY <1>3 DEF MoveConstruct, MoveAssign, Transfer
<1>4. ASSUME NEW t \in Threads, GetNothing(t) PROVE Goal
  BY <1>4 DEF GetNothing, Inside
<1>5. ASSUME NEW t \in Threads, HandOut(t) PROVE Goal
  <2>1. chosen \notin busy /\ chosen \in Connections /\ arg[t] \in Proxies
    BY <1>5 DEF HandOut, Inside
  <2>2. QED
    BY <1>5, <2>1 DEF HandOut, Inside
<1>6. ASSUME NEW t \in Threads, Destroy(t) PROVE Goal
  BY <1>6 DEF Destroy, MakeIdle, Inside
<1>7. ASSUME NEW t \in Threads, NEW p \in Proxies, CallRelease(t, p) PROVE Goal
  BY <1>7 DEF CallRelease
<1>8. ASSUME NEW t \in Threads, Release(t) PROVE Goal
  BY <1>8 DEF Release, Inside
<1>9. QED
  BY <1>1, <1>2, <1>3, <1>4, <1>5, <1>6, <1>7, <1>8
  DEF Next, Step, Caller, vars, Lock, CheckHealthy, CheckConnected, SkipRefused,
      BeatOne, EndBeat, LinkDrops, CallGet, CallDestroy, CallHeartBeat, Enter

LEMMA LeaseInvariant ==
  ASSUME "explicit_release" \notin Habits
  PROVE  Spec => []LeaseInv
<1>1. Init => LeaseInv
  BY PoolInit, PoolAssumption
  DEF LeaseInv, Init, ExclusiveLease, LeaseIsValid, Leases, Holds
<1>2. QED BY <1>1, LeaseStep, PTL DEF Spec

(* Two callers never hold one connection: get_connection extracts what it   *)
(* returns from the idle map, and the moves leave their source empty.       *)
THEOREM PoolExclusive ==
  ASSUME "explicit_release" \notin Habits
  PROVE  Spec => []ExclusiveLease
<1>1. LeaseInv => ExclusiveLease BY DEF LeaseInv
<1>2. QED BY <1>1, LeaseInvariant, PTL

(* valid() is true of every proxy that has a connection. *)
THEOREM PoolLeaseIsValid ==
  ASSUME "explicit_release" \notin Habits
  PROVE  Spec => []LeaseIsValid
<1>1. LeaseInv => LeaseIsValid BY DEF LeaseInv
<1>2. QED BY <1>1, LeaseInvariant, PTL

(* heart_beat and get_connection never touch a connection somebody holds:   *)
(* their loops visit idle connections only, and a held one is busy.         *)
THEOREM PoolLoopsSpareLeased ==
  ASSUME "explicit_release" \notin Habits
  PROVE  Spec => []LoopsSpareLeased
<1>1. LeaseInv => LoopsSpareLeased
  BY DEF LeaseInv, PoolInv, Conserved, LoopsSpareLeased, LeaseIsValid, Leased, valid
<1>2. QED BY <1>1, LeaseInvariant, PTL

-------------------------------------------------------------------------------
(* Callers that never assign to a proxy that holds a connection. *)

LEMMA ReasonStep ==
  ASSUME "overwrite" \notin Habits
  PROVE  PoolInv /\ BusyForAReason /\ [Next]_vars => BusyForAReason'
<1> SUFFICES ASSUME PoolInv, BusyForAReason, [Next]_vars, NEW c \in busy'
             PROVE  \E p \in Proxies :
                      proxy'[p] = c /\ (p \notin spent' \/ InCall(p)')
  BY DEF BusyForAReason
<1> DEFINE Goal == \E p \in Proxies :
                     proxy'[p] = c /\ (p \notin spent' \/ InCall(p)')
<1> SUFFICES Goal
  OBVIOUS
<1> USE PoolAssumption
    DEF PoolInv, TypeOK, CallsOK, SpentHold, BusyForAReason, Holds, InCall, Operations
<1>1. CASE UNCHANGED <<busy, proxy, spent, arg>>
  BY <1>1
<1>2. ASSUME NEW t \in Threads, NEW p \in Proxies,
             CallGet(t, p) \/ CallDestroy(t, p) \/ CallRelease(t, p)
      PROVE Goal
  BY <1>2 DEF CallGet, CallDestroy, CallRelease, Enter
<1>3. ASSUME NEW t \in Threads, CallHeartBeat(t) \/ GetNothing(t) \/ EndBeat(t)
      PROVE Goal
  BY <1>3 DEF CallHeartBeat, Enter, GetNothing, EndBeat, Leave, Inside
<1>4. ASSUME NEW t \in Threads, NEW p \in Proxies, DestroyNull(t, p) PROVE Goal
  BY <1>4 DEF DestroyNull
<1>5. ASSUME NEW t \in Threads, NEW p \in Proxies, NEW q \in Proxies,
             MoveConstruct(t, p, q) \/ MoveAssign(t, p, q)
      PROVE Goal
  BY <1>5 DEF MoveConstruct, MoveAssign, Transfer
<1>6. ASSUME NEW t \in Threads, HandOut(t) PROVE Goal
  <2>1. arg[t] \in Proxies /\ arg[t] \notin spent /\ proxy[arg[t]] = Dead
    BY <1>6 DEF HandOut, Inside
  <2>2. CASE c = chosen
    BY <1>6, <2>1, <2>2 DEF HandOut
  <2>3. CASE c # chosen
    BY <1>6, <2>1, <2>3 DEF HandOut, Leave
  <2>4. QED BY <2>2, <2>3
<1>7. ASSUME NEW t \in Threads, Release(t) \/ Destroy(t) PROVE Goal
  BY <1>7 DEF Release, Destroy, MakeIdle, Inside, Leave, Conserved
<1>8. QED
  BY <1>1, <1>2, <1>3, <1>4, <1>5, <1>6, <1>7
  DEF Next, Step, Caller, vars, Lock, CheckHealthy, CheckConnected, SkipRefused,
      BeatOne, LinkDrops

(* A busy connection has a holder or is being released: the destructor of   *)
(* each proxy gives its connection back, so none stays busy for ever.       *)
THEOREM PoolBusyForAReason ==
  ASSUME "overwrite" \notin Habits
  PROVE  Spec => []BusyForAReason
<1>1. Init => BusyForAReason BY DEF Init, BusyForAReason
<1>2. QED BY <1>1, PoolInvariant, ReasonStep, PTL DEF Spec

-------------------------------------------------------------------------------
(* What get_connection's scan has left behind is not connected. *)

(* Only the holder of the mutex changes the idle map or connects, so what   *)
(* refused earlier in the scan is still down and still all there is besides *)
(* what the scan has yet to visit.                                          *)
ScanInv ==
  \A t \in Threads : Inside(t, "get") => (idle \ todo) \cap up = {}

LEMMA ScanStep == PoolInv /\ ScanInv /\ [Next]_vars => ScanInv'
<1> SUFFICES ASSUME PoolInv, ScanInv, [Next]_vars, NEW t \in Threads, Inside(t, "get")'
             PROVE  (idle' \ todo') \cap up' = {}
  BY DEF ScanInv
<1> USE PoolAssumption DEF PoolInv, TypeOK, ScanInv, Inside
<1>1. CASE Inside(t, "get") /\ UNCHANGED <<idle, todo>> /\ up' \subseteq up
  BY <1>1
<1>2. ASSUME NEW u \in Threads, Lock(u) PROVE (idle' \ todo') \cap up' = {}
  BY <1>2 DEF Lock
<1>3. ASSUME NEW u \in Threads, NEW c \in Connections,
             CheckHealthy(u, c) \/ CheckConnected(u, c) \/ SkipRefused(u, c)
      PROVE (idle' \ todo') \cap up' = {}
  BY <1>3 DEF CheckHealthy, CheckConnected, SkipRefused, Scans
<1>4. ASSUME NEW u \in Threads,
             GetNothing(u) \/ HandOut(u) \/ Release(u) \/ Destroy(u) \/ EndBeat(u)
      PROVE FALSE
  <2>1. mtx' = None
    BY <1>4 DEF GetNothing, HandOut, Release, Destroy, EndBeat, Leave
  <2>2. QED BY <2>1
<1>5. ASSUME NEW u \in Threads, NEW c \in Connections, BeatOne(u, c) PROVE FALSE
  BY <1>5 DEF BeatOne
<1>6. ASSUME NEW u \in Threads, Caller(u)
      PROVE  Inside(t, "get") /\ UNCHANGED <<idle, todo, up>>
  <2>1. UNCHANGED <<idle, todo, up, mtx>>
    BY <1>6 DEF Caller, CallGet, CallRelease, CallDestroy, CallHeartBeat, Enter,
                DestroyNull, MoveConstruct, MoveAssign
  <2>2. pc' = pc \/ (pc[u] = "out" /\ pc' = [pc EXCEPT ![u] = "get"])
        \/ (pc[u] = "out" /\ pc'[u] # "get" /\ \A v \in Threads \ {u} : pc'[v] = pc[v])
    BY <1>6 DEF Caller, CallGet, CallRelease, CallDestroy, CallHeartBeat, Enter,
                DestroyNull, MoveConstruct, MoveAssign
  <2>3. mtx = t
    BY <2>1
  <2>4. pc[t] # "out"
    BY <2>3
  <2>5. QED BY <2>1, <2>2, <2>3, <2>4
<1>7. QED
  BY <1>1, <1>2, <1>3, <1>4, <1>5, <1>6 DEF Next, Step, LinkDrops, vars

(* get_connection returns an empty proxy only if no idle connection is up,  *)
(* for any number of connections and whatever connect() does.               *)
THEOREM PoolNoneMissed == Spec => NoneMissed
<1>1. PoolInv /\ ScanInv /\ [Next]_vars
        => [\A t \in Threads :
              Inside(t, "get") /\ pc'[t] = "out" /\ proxy'[arg[t]] = None
                => idle \cap up = {}]_vars
  <2> SUFFICES ASSUME PoolInv, ScanInv, [Next]_vars, NEW t \in Threads,
                      Inside(t, "get"), pc'[t] = "out", proxy'[arg[t]] = None
               PROVE  idle \cap up = {}
    OBVIOUS
  <2> USE PoolAssumption DEF PoolInv, TypeOK, CallsOK, ScanInv, Inside
  <2>1. CASE pc' = pc
    BY <2>1
  <2>2. ASSUME NEW u \in Threads, GetNothing(u) PROVE idle \cap up = {}
    BY <2>2 DEF GetNothing
  <2>3. ASSUME NEW u \in Threads, HandOut(u) PROVE FALSE
    <3>1. u = t /\ arg[t] \in Proxies
      BY <2>3 DEF HandOut
    <3>2. proxy'[arg[t]] = chosen /\ chosen # None
      BY <2>3, <3>1 DEF HandOut
    <3>3. QED BY <3>2
  <2>4. ASSUME NEW u \in Threads, Release(u) \/ Destroy(u) \/ EndBeat(u) PROVE FALSE
    BY <2>4 DEF Release, Destroy, EndBeat, Leave
  <2>5. ASSUME NEW u \in Threads, Caller(u) PROVE pc' = pc
    <3>1. CASE pc' = pc
      BY <3>1
    <3>2. CASE \E op \in Operations : pc[u] = "out" /\ pc' = [pc EXCEPT ![u] = op]
      BY <3>2 DEF Operations
    <3>3. QED
      BY <2>5, <3>1, <3>2
      DEF Caller, CallGet, CallRelease, CallDestroy, CallHeartBeat, Enter, DestroyNull,
          MoveConstruct, MoveAssign, Operations
  <2>6. QED
    BY <2>1, <2>2, <2>3, <2>4, <2>5
    DEF Next, Step, vars, Lock, CheckHealthy, CheckConnected, SkipRefused, BeatOne,
        LinkDrops
<1>2. Init => ScanInv
  BY PoolAssumption DEF Init, ScanInv, Inside
<1>3. QED
  BY <1>1, <1>2, PoolInvariant, ScanStep, PTL DEF Spec, NoneMissed

-------------------------------------------------------------------------------
(* Callers that do neither: every step is a step of the leases, or none. *)

LEMMA LeaseRefined ==
  ASSUME Habits = {}
  PROVE  LeaseInv /\ LeaseInv' /\ [Next]_vars => [Lease!Next]_(Lease!leaseVars)
<1> SUFFICES ASSUME LeaseInv, LeaseInv', [Next]_vars
             PROVE  Lease!Next \/ UNCHANGED Lease!leaseVars
  OBVIOUS
<1> DEFINE lease == [p \in Proxies |-> IF p \in Leases THEN proxy[p] ELSE None]
<1>a. lease = [p \in Proxies |-> IF Holds(p) THEN proxy[p] ELSE None]
  BY DEF LeaseInv, Leases
<1>b. lease' = [p \in Proxies |-> IF proxy'[p] \in Connections THEN proxy'[p] ELSE None]
  BY DEF LeaseInv, Leases, Holds
<1>1. CASE UNCHANGED <<idle, proxy>>
  BY <1>1, <1>a, <1>b DEF Lease!leaseVars, Holds
<1> USE PoolAssumption DEF LeaseInv, PoolInv, TypeOK, CallsOK, Holds
<1>2. ASSUME NEW t \in Threads, NEW p \in Proxies, DestroyNull(t, p)
      PROVE UNCHANGED Lease!leaseVars
  <2>1. lease' = lease BY <1>2, <1>a, <1>b DEF DestroyNull
  <2>2. QED BY <1>2, <2>1 DEF DestroyNull, Lease!leaseVars
<1>3. ASSUME NEW t \in Threads, NEW p \in Proxies, NEW q \in Proxies,
             MoveConstruct(t, p, q) \/ MoveAssign(t, p, q)
      PROVE Lease!Next \/ UNCHANGED Lease!leaseVars
  <2>1. proxy' = [proxy EXCEPT ![q] = proxy[p], ![p] = None] /\ idle' = idle
    BY <1>3 DEF MoveConstruct, MoveAssign, Transfer
  <2>2. ~Holds(q) /\ p # q
    BY <1>3 DEF MoveConstruct, MoveAssign
  <2>3. CASE Holds(p)
    <3>1. lease[p] # None /\ lease[q] = None
      BY <2>2, <2>3, <1>a
    <3>2. lease' = [lease EXCEPT ![q] = lease[p], ![p] = None]
      BY <2>1, <2>2, <2>3, <1>a, <1>b
    <3>3. Lease!Pass(p, q)
      BY <3>1, <3>2, <2>1 DEF Lease!Pass
    <3>4. QED BY <3>3 DEF Lease!Next
  <2>4. CASE ~Holds(p)
    <3>1. lease' = lease BY <2>1, <2>2, <2>4, <1>a, <1>b
    <3>2. QED BY <3>1, <2>1 DEF Lease!leaseVars
  <2>5. QED BY <2>3, <2>4
<1>4. ASSUME NEW t \in Threads, GetNothing(t) PROVE UNCHANGED Lease!leaseVars
  <2>1. lease' = lease BY <1>4, <1>a, <1>b DEF GetNothing, Inside
  <2>2. QED BY <1>4, <2>1 DEF GetNothing, Lease!leaseVars
<1>5. ASSUME NEW t \in Threads, HandOut(t) PROVE Lease!Next
  <2>0. PICK c \in Connections : c = chosen
    BY <1>5 DEF HandOut
  <2>1. arg[t] \in Proxies /\ proxy[arg[t]] = Dead /\ c \in idle
    BY <1>5, <2>0 DEF HandOut, Inside
  <2>2. proxy' = [proxy EXCEPT ![arg[t]] = c] /\ idle' = idle \ {c}
    BY <1>5, <2>0 DEF HandOut
  <2>3. lease[arg[t]] = None
    BY <2>1, <1>a
  <2>4. lease' = [lease EXCEPT ![arg[t]] = c]
    BY <2>1, <2>2, <1>a, <1>b
  <2>5. Lease!Acquire(arg[t], c)
    BY <2>1, <2>2, <2>3, <2>4 DEF Lease!Acquire
  <2>6. QED BY <2>1, <2>5 DEF Lease!Next
<1>6. ASSUME NEW t \in Threads, Destroy(t) PROVE Lease!Next
  <2>1. arg[t] \in Proxies /\ Holds(arg[t])
    BY <1>6 DEF Destroy, Inside
  <2>2. proxy[arg[t]] \in busy
    BY <2>1 DEF LeaseIsValid, Leases, valid
  <2>3. proxy' = [proxy EXCEPT ![arg[t]] = Dead] /\ idle' = idle \cup {proxy[arg[t]]}
    BY <1>6, <2>2 DEF Destroy, MakeIdle
  <2>4. lease[arg[t]] = proxy[arg[t]]
    BY <2>1, <1>a
  <2>5. lease' = [lease EXCEPT ![arg[t]] = None]
    BY <2>1, <2>3, <1>a, <1>b
  <2>6. PICK h \in Proxies : h = arg[t]
    BY <2>1
  <2>7. Lease!Return(h)
    BY <2>1, <2>3, <2>4, <2>5, <2>6 DEF Lease!Return
  <2>8. QED BY <2>7 DEF Lease!Next
<1>7. QED
  BY <1>1, <1>2, <1>3, <1>4, <1>5, <1>6
  DEF Next, Step, Caller, vars, Lock, CheckHealthy, CheckConnected, SkipRefused,
      Release, Inside, BeatOne, EndBeat, LinkDrops, CallGet, CallRelease, CallDestroy, CallHeartBeat, Enter, Lease!leaseVars

(* The pool implements exclusive, lossless leases (LeasePool): a connection *)
(* is leased when get_connection hands it out, passed on by a move, and     *)
(* returned by the destructor of the proxy that holds it at the end.        *)
THEOREM PoolImplementsLeases ==
  ASSUME Habits = {}
  PROVE  Spec => LeaseSpec
<1>1. Init => Lease!Init
  BY PoolAssumption DEF Init, Lease!Init, Leases, Holds
<1>2. Spec => []LeaseInv
  BY LeaseInvariant
<1>3. QED BY <1>1, <1>2, LeaseRefined, PTL DEF Spec, LeaseSpec, Lease!Spec
===============================================================================
