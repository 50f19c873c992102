---------------------------- MODULE ConnectionPool ----------------------------
(***************************************************************************)
(* cpool::ConnectionPool (include/connection-pool/pool.h and               *)
(* src/connection_pool/pool.cpp): two maps of connections, idle and busy,  *)
(* behind one mutex, and the ConnectionProxy objects through which callers *)
(* hold a connection.                                                      *)
(*                                                                         *)
(* A call of the pool is a sequence of steps: the call itself, waiting for *)
(* the mutex, and the body that runs while the mutex is held.  The body of *)
(* get_connection connects idle connections one after the other, and the   *)
(* body of heart_beat beats them one after the other, so both are several  *)
(* steps, between which other threads move proxies and make calls, and     *)
(* links drop: also between the check of a connection and its hand-out.    *)
(*                                                                         *)
(* A proxy's pointers m_pool and m_connection are null together in every   *)
(* constructor and move of pool.cpp, so one value stands for both.         *)
(***************************************************************************)
CONSTANTS
  Connections,    \* the Connection objects given to the constructor
  Threads,        \* the threads that call the pool
  Proxies,        \* the places where callers keep a ConnectionProxy object
  Habits,         \* which optional uses of the API the callers make
  ConnectResults, \* what connect() of the Connection implementation may do
  ReportsHealth,  \* is_healthy() tells the truth (TestConnection) or is
                  \* always false (TcpConnection)
  None,           \* nullptr, a free mutex, no argument
  Dead            \* no object at this place: not constructed, or destructed

(***************************************************************************)
(* Callers are code outside this library.  "explicit_release" is a call of *)
(* release_connection(ConnectionProxy &&), as tests/test_basic.h makes it; *)
(* "overwrite" is a move assignment to a proxy that still holds a          *)
(* connection.                                                             *)
(***************************************************************************)
AllHabits == {"explicit_release", "overwrite"}

ASSUME PoolAssumption ==
  /\ Habits \subseteq AllHabits
  /\ ConnectResults \subseteq {"true", "false", "throws"}
  /\ ReportsHealth \in BOOLEAN
  /\ None \notin Connections \cup Threads \cup Proxies
  /\ Dead \notin Connections \cup {None}

VARIABLES
  idle,    \* keys of m_connections_idle
  busy,    \* keys of m_connections_busy
  mtx,     \* the thread that holds m_connections_mtx, or None
  pc,      \* pc[t]: the operation thread t is in, or "out"
  arg,     \* arg[t]: the proxy that operation works on, or None
  todo,    \* the idle connections the holder's loop has still to visit
  chosen,  \* the connection that check_connect() has just accepted, or None
  proxy,   \* proxy[p]: the m_connection of the proxy at p, None, or Dead
  spent,   \* proxies passed to release_connection: their callers gave them up
  up       \* the connections whose link to the server works

vars == <<idle, busy, mtx, pc, arg, todo, chosen, proxy, spent, up>>

Operations == {"get", "release", "destroy", "beat"}

(* The constructor.  TcpConnection objects connect when they are            *)
(* constructed, a TestConnection starts disconnected.                       *)
Init ==
  /\ idle = Connections
  /\ busy = {}
  /\ mtx = None
  /\ pc = [t \in Threads |-> "out"]
  /\ arg = [t \in Threads |-> None]
  /\ todo = {}
  /\ chosen = None
  /\ proxy = [p \in Proxies |-> Dead]
  /\ spent = {}
  /\ up = IF ReportsHealth THEN {} ELSE Connections

-------------------------------------------------------------------------------
(* Calls.  A proxy that is the argument of a running call is left alone by  *)
(* the other threads: C++ callers must not race on one object.              *)

InCall(p) == \E t \in Threads : arg[t] = p

Holds(p) == proxy[p] \in Connections

Enter(t, op, p) ==
  /\ pc[t] = "out"
  /\ pc' = [pc EXCEPT ![t] = op]
  /\ arg' = [arg EXCEPT ![t] = p]
  /\ UNCHANGED <<idle, busy, mtx, todo, chosen, proxy, up>>

(* get_connection() is called; its result will be constructed at p. *)
CallGet(t, p) ==
  /\ proxy[p] = Dead
  /\ ~InCall(p)
  /\ Enter(t, "get", p)
  /\ UNCHANGED spent

(* release_connection(std::move(p)): the caller gives p up, but the callee  *)
(* does not reset it.  A null m_connection returns at once, changing        *)
(* nothing, so only a proxy that has one makes a step.                      *)
CallRelease(t, p) ==
  /\ "explicit_release" \in Habits
  /\ Holds(p)
  /\ p \notin spent
  /\ ~InCall(p)
  /\ Enter(t, "release", p)
  /\ spent' = spent \cup {p}

(* ~ConnectionProxy() of a proxy that has a pool. *)
CallDestroy(t, p) ==
  /\ Holds(p)
  /\ ~InCall(p)
  /\ Enter(t, "destroy", p)
  /\ UNCHANGED spent

CallHeartBeat(t) ==
  /\ Enter(t, "beat", None)
  /\ UNCHANGED spent

-------------------------------------------------------------------------------
(* Operations on proxies that take no lock. *)

(* ~ConnectionProxy() of a null proxy. *)
DestroyNull(t, p) ==
  /\ pc[t] = "out"
  /\ proxy[p] = None
  /\ ~InCall(p)
  /\ proxy' = [proxy EXCEPT ![p] = Dead]
  /\ spent' = spent \ {p}
  /\ UNCHANGED <<idle, busy, mtx, pc, arg, todo, chosen, up>>

(* A copy in place of a move: the source keeps its pointers. *)
Transfer_Copies(p, q) ==
  /\ proxy' = [proxy EXCEPT ![q] = proxy[p]]
  /\ spent' = IF p \in spent THEN (spent \ {p}) \cup {q} ELSE spent \ {q}

Transfer(p, q) ==
  /\ proxy' = [proxy EXCEPT ![q] = proxy[p], ![p] = None]
  /\ spent' = IF p \in spent THEN (spent \ {p}) \cup {q} ELSE spent \ {q}

(* ConnectionProxy(ConnectionProxy &&other): q is constructed from p. *)
MoveConstruct(t, p, q) ==
  /\ pc[t] = "out"
  /\ proxy[p] # Dead
  /\ proxy[q] = Dead
  /\ ~InCall(p)
  /\ ~InCall(q)
  /\ Transfer(p, q)
  /\ UNCHANGED <<idle, busy, mtx, pc, arg, todo, chosen, up>>

(* operator=(ConnectionProxy &&other): q = std::move(p).  What q held       *)
(* before is overwritten, not released.                                     *)
MoveAssign(t, p, q) ==
  /\ pc[t] = "out"
  /\ p # q
  /\ proxy[p] # Dead
  /\ proxy[q] # Dead
  /\ ~InCall(p)
  /\ ~InCall(q)
  /\ Holds(q) /\ q \notin spent => "overwrite" \in Habits
  /\ Transfer(p, q)
  /\ UNCHANGED <<idle, busy, mtx, pc, arg, todo, chosen, up>>

(* ConnectionProxy::valid(). *)
valid(p) == Holds(p) /\ proxy[p] \in busy

-------------------------------------------------------------------------------
(* Bodies, run while the mutex is held. *)

(* A heart beat, or a scan, that also visits the busy connections. *)
Lock_AllConnections(t) ==
  /\ pc[t] \in Operations
  /\ mtx = None
  /\ mtx' = t
  /\ todo' = IF pc[t] \in {"get", "beat"} THEN idle \cup busy ELSE {}
  /\ UNCHANGED <<idle, busy, pc, arg, chosen, proxy, spent, up>>

(* Every operation starts by locking; the loops range over the idle map. *)
Lock(t) ==
  /\ pc[t] \in Operations
  /\ mtx = None
  /\ mtx' = t
  /\ todo' = IF pc[t] \in {"get", "beat"} THEN idle ELSE {}
  /\ UNCHANGED <<idle, busy, pc, arg, chosen, proxy, spent, up>>

(* A return that forgets the mutex. *)
Leave_Locked(t) ==
  /\ mtx' = mtx
  /\ todo' = {}
  /\ chosen' = None
  /\ pc' = [pc EXCEPT ![t] = "out"]
  /\ arg' = [arg EXCEPT ![t] = None]

(* unique_lock's destructor and the return from the operation. *)
Leave(t) ==
  /\ mtx' = None
  /\ todo' = {}
  /\ chosen' = None
  /\ pc' = [pc EXCEPT ![t] = "out"]
  /\ arg' = [arg EXCEPT ![t] = None]

Inside(t, op) == mtx = t /\ pc[t] = op

(* An early return that forgets the mutex. *)
GetNothing_KeepsMutex(t) ==
  /\ Inside(t, "get")
  /\ todo = {}
  /\ chosen = None
  /\ proxy' = [proxy EXCEPT ![arg[t]] = None]
  /\ pc' = [pc EXCEPT ![t] = "out"]
  /\ arg' = [arg EXCEPT ![t] = None]
  /\ UNCHANGED <<idle, busy, mtx, todo, chosen, spent, up>>

(* get_connection found no idle connection, or none that connects. *)
GetNothing(t) ==
  /\ Inside(t, "get")
  /\ todo = {}
  /\ chosen = None
  /\ proxy' = [proxy EXCEPT ![arg[t]] = None]
  /\ Leave(t)
  /\ UNCHANGED <<idle, busy, spent, up>>

(* is_healthy() as the two implementations in the repository answer it. *)
is_healthy(c) == ReportsHealth /\ c \in up

Scans(t, c) == Inside(t, "get") /\ chosen = None /\ c \in todo

(* check_connect(c), one turn of get_connection's loop: a healthy connection *)
(* is accepted as it is; for another one connect() decides, and an exception *)
(* of connect() is caught and counts as success.                            *)
CheckHealthy(t, c) ==
  /\ Scans(t, c)
  /\ is_healthy(c)
  /\ chosen' = c
  /\ UNCHANGED <<idle, busy, mtx, pc, arg, todo, proxy, spent, up>>

CheckConnected(t, c) ==
  /\ Scans(t, c)
  /\ ~is_healthy(c)
  /\ \/ "true" \in ConnectResults /\ up' = up \cup {c}
     \/ "throws" \in ConnectResults /\ up' = up \ {c}
  /\ chosen' = c
  /\ UNCHANGED <<idle, busy, mtx, pc, arg, todo, proxy, spent>>

(* The loop ends with the first connection that refuses. *)
SkipRefused_Stops(t, c) ==
  /\ Scans(t, c)
  /\ ~is_healthy(c)
  /\ "false" \in ConnectResults
  /\ up' = up \ {c}
  /\ todo' = {}
  /\ UNCHANGED <<idle, busy, mtx, pc, arg, chosen, proxy, spent>>

(* A connect() that returns false lets the loop go on. *)
SkipRefused(t, c) ==
  /\ Scans(t, c)
  /\ ~is_healthy(c)
  /\ "false" \in ConnectResults
  /\ up' = up \ {c}
  /\ todo' = todo \ {c}
  /\ UNCHANGED <<idle, busy, mtx, pc, arg, chosen, proxy, spent>>

(* The connection is entered in the busy map and stays in the idle one. *)
HandOut_KeepsIdle(t) ==
  /\ Inside(t, "get")
  /\ chosen # None
  /\ busy' = busy \cup {chosen}
  /\ proxy' = [proxy EXCEPT ![arg[t]] = chosen]
  /\ Leave(t)
  /\ UNCHANGED <<idle, spent, up>>

(* The accepted connection moves from the idle to the busy map, whatever    *)
(* has become of its link since the check, and is returned.                 *)
HandOut(t) ==
  /\ Inside(t, "get")
  /\ chosen # None
  /\ idle' = idle \ {chosen}
  /\ busy' = busy \cup {chosen}
  /\ proxy' = [proxy EXCEPT ![arg[t]] = chosen]
  /\ Leave(t)
  /\ UNCHANGED <<spent, up>>

(* The connection is dropped from the busy map only. *)
MakeIdle_Loses(c) ==
  IF c \in busy
  THEN busy' = busy \ {c} /\ UNCHANGED idle
  ELSE UNCHANGED <<busy, idle>>

(* The body of the private release_connection: only a busy connection       *)
(* moves.                                                                   *)
MakeIdle(c) ==
  IF c \in busy
  THEN busy' = busy \ {c} /\ idle' = idle \cup {c}
  ELSE UNCHANGED <<busy, idle>>

(* release_connection(ConnectionProxy &&): the proxy keeps its pointers. *)
Release(t) ==
  /\ Inside(t, "release")
  /\ MakeIdle(proxy[arg[t]])
  /\ Leave(t)
  /\ UNCHANGED <<proxy, spent, up>>

(* A destructor that does not give the connection back. *)
Destroy_KeepsBusy(t) ==
  /\ Inside(t, "destroy")
  /\ proxy' = [proxy EXCEPT ![arg[t]] = Dead]
  /\ spent' = spent \ {arg[t]}
  /\ Leave(t)
  /\ UNCHANGED <<idle, busy, up>>

(* The destructor's release, after which the object is gone. *)
Destroy(t) ==
  /\ Inside(t, "destroy")
  /\ MakeIdle(proxy[arg[t]])
  /\ proxy' = [proxy EXCEPT ![arg[t]] = Dead]
  /\ spent' = spent \ {arg[t]}
  /\ Leave(t)
  /\ UNCHANGED up

(* heart_beat(): one connection after the other, then unlock. *)
BeatOne(t, c) ==
  /\ Inside(t, "beat")
  /\ c \in todo
  /\ todo' = todo \ {c}
  /\ UNCHANGED <<idle, busy, mtx, pc, arg, chosen, proxy, spent, up>>

EndBeat(t) ==
  /\ Inside(t, "beat")
  /\ todo = {}
  /\ Leave(t)
  /\ UNCHANGED <<idle, busy, proxy, spent, up>>

-------------------------------------------------------------------------------
(* A link fails, or its user calls disconnect().  One that is down comes up  *)
(* by connect() only, which the pool alone calls.                           *)
LinkDrops(c) ==
  /\ c \in up
  /\ up' = up \ {c}
  /\ UNCHANGED <<idle, busy, mtx, pc, arg, todo, chosen, proxy, spent>>

(* The steps of a call under way: its thread takes them when it is run. *)
Step(t) ==
  \/ Lock(t)
  \/ GetNothing(t)
  \/ \E c \in Connections :
       CheckHealthy(t, c) \/ CheckConnected(t, c) \/ SkipRefused(t, c)
  \/ HandOut(t)
  \/ Release(t)
  \/ Destroy(t)
  \/ \E c \in Connections : BeatOne(t, c)
  \/ EndBeat(t)

(* What callers decide to do: nothing obliges them. *)
Caller(t) ==
  \/ \E p \in Proxies : CallGet(t, p) \/ CallRelease(t, p) \/ CallDestroy(t, p)
  \/ CallHeartBeat(t)
  \/ \E p \in Proxies : DestroyNull(t, p)
  \/ \E p, q \in Proxies : MoveConstruct(t, p, q) \/ MoveAssign(t, p, q)

Next ==
  \/ \E t \in Threads : Step(t) \/ Caller(t)
  \/ \E c \in Connections : LinkDrops(c)

Spec == Init /\ [][Next]_vars

(* connect() and heart_beat() return, and a runnable thread is run; nothing *)
(* is assumed of the order in which the mutex admits its waiters.           *)
Fairness == \A t \in Threads : WF_vars(Step(t))

FairSpec == Spec /\ Fairness

-------------------------------------------------------------------------------
(* Properties. *)

(* Types of the state, and the lock discipline of pool.cpp: the holder of   *)
(* the mutex is inside an operation, and a loop is under way only there.    *)
TypeOK ==
  /\ idle \subseteq Connections
  /\ busy \subseteq Connections
  /\ mtx \in Threads \cup {None}
  /\ pc \in [Threads -> Operations \cup {"out"}]
  /\ arg \in [Threads -> Proxies \cup {None}]
  /\ todo \subseteq Connections
  /\ chosen \in Connections \cup {None}
  /\ proxy \in [Proxies -> Connections \cup {None, Dead}]
  /\ spent \subseteq Proxies
  /\ up \subseteq Connections
  /\ mtx # None => pc[mtx] # "out"
  /\ mtx = None => todo = {} /\ chosen = None

(* No connection is lost or entered twice, whatever callers do: the two     *)
(* maps partition the connections, so size() stays what tests/test_basic.h  *)
(* asserts of it (extract and insert in get_connection, release_connection).*)
Conserved == idle \cup busy = Connections /\ idle \cap busy = {}

(* The proxies their callers still count on, and what they hold. *)
Leases == {p \in Proxies : Holds(p) /\ p \notin spent}

Leased == {proxy[p] : p \in Leases}

(* Two callers never hold the same connection (get_connection extracts what *)
(* it returns, the moves reset their source).                               *)
ExclusiveLease ==
  \A p, q \in Leases : proxy[p] = proxy[q] => p = q

(* A connection is busy for as long as a caller holds it: valid() is true   *)
(* of every proxy that was not given up.                                    *)
LeaseIsValid == \A p \in Leases : valid(p)

(* "Only send heart beat on idle connections, busy connections should be    *)
(* busy for a reason": neither heart_beat's loop nor get_connection's, both *)
(* of which snapshot the idle map, will touch a connection somebody uses.   *)
LoopsSpareLeased == todo \cap Leased = {}

(* The heart beat alone, as the comment puts it. *)
BeatSparesLeased ==
  \A t \in Threads : Inside(t, "beat") => todo \cap Leased = {}

(* The other half of that comment: a busy connection has a holder, or the   *)
(* release of one is under way.  Otherwise it never becomes idle again.     *)
BusyForAReason ==
  \A c \in busy : \E p \in Proxies : proxy[p] = c /\ (p \notin spent \/ InCall(p))

(* get_connection answers that there is none only if there is none: a        *)
(* refused connect() must not keep it from a later one whose link is up, and *)
(* nothing of the scan is out of date when it ends, though links drop and    *)
(* proxies move meanwhile (the continue of its loop).                        *)
NoneMissed ==
  [][\A t \in Threads :
       Inside(t, "get") /\ pc'[t] = "out" /\ proxy'[arg[t]] = None
         => idle \cap up = {}]_vars

(* A call returns, also the one that holds the mutex, however long its loop *)
(* is; unless the mutex is given back and taken again for ever, for         *)
(* std::mutex promises a waiter no more than that.                          *)
CallsReturn ==
  \A t \in Threads :
    pc[t] # "out" ~> (pc[t] = "out" \/ ([]<>(mtx # None) /\ []<>(mtx = None)))

(* The pool implements exclusive, lossless leases. *)
Lease == INSTANCE LeasePool WITH
  Holders <- Proxies,
  free <- idle,
  lease <- [p \in Proxies |-> IF p \in Leases THEN proxy[p] ELSE None]

LeaseSpec == Lease!Spec
===============================================================================
