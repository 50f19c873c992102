----------------------------- MODULE ServerSetup -----------------------------
(***************************************************************************)
(* How servers come to life: the constructors, SetHandler, SetPipeline,    *)
(* SetConfigValues and Start of CProxySocket, CApiGatewaySocket,           *)
(* CProtocolSocket and LibuvProxySocket (interface/), and the Open they    *)
(* share (socket/CServerSocket.cpp, libuv-socket/LibuvServerSocket.cpp),   *)
(* while the sessions of servers already started use what was set.         *)
(*                                                                         *)
(* The descriptors of the process are numbers, given away again as soon as *)
(* they are closed; a CServerSocket whose Start could not bind has closed  *)
(* its number and keeps it.  Owners may start a server that runs, and may  *)
(* destruct it.  A server has one session at a time here, and one listening *)
(* thread: how sessions share the listener and the workers is module       *)
(* ServerDispatch.                                                         *)
(***************************************************************************)
EXTENDS Integers, FiniteSets

CONSTANTS
  Servers,
  Kinds,       \* which classes are looked at
  Pipelines,   \* arguments of SetPipeline
  Services,    \* entries of TARGET_ENDPOINT_CONFIG::services
  MaxFd,       \* bound: the highest descriptor
  MaxCalls,    \* bound: how often owners call a setter
  MaxStarts,   \* bound: how often a server is started
  None

ASSUME SetupAssumption ==
  /\ Kinds \subseteq {"proxy", "gateway", "protocol", "libuv"}
  /\ MaxFd \in Nat /\ MaxCalls \in Nat /\ MaxStarts \in Nat
  /\ None \notin Servers
  /\ "ThreadHandler" \notin Pipelines

VARIABLES
  kind,            \* kind[s]: the class of s; never changes
  table,           \* table[f]: the server that opened what f stands for, or None
  bound,           \* descriptors of sockets that have an address,
  listening,       \* and of those that listen
  phase,           \* phase[s]: where the owner of s is
  s_,              \* s_[s]: the descriptor as s knows it
  handler,         \* handler[s]: whether m_handler is set
  routine_override,\* thread_routine_override: "ThreadHandler" or a pipeline
  services,        \* services[s]: those of m_configValues
  balancers,       \* balancers[s][n]: what the n-th Start's LoadBalancer has;
  loadBalancer,    \* loadBalancer[s]: which of them s uses, 0 before the first
  thread_routine,  \* thread_routine[s], or None
  listener,        \* listener[s]: where the listening thread of s is
  session,         \* session[s]: the session of a client, or None
  promised,        \* history: what had been set when s was started last
  misused,         \* history: servers started again, or destructed, while
                   \* their listening thread was running
  closes,          \* history: how often s has closed the number it knows
  robbed,          \* history: servers whose socket another server closed
  starts, calls    \* counters, for the bounds

descriptors == <<table, bound, listening, s_>>
settings == <<handler, routine_override, services, calls>>
balancing == <<balancers, loadBalancer>>
serving == <<thread_routine, listener, session>>
history == <<promised, misused, closes, robbed, starts>>
vars == <<kind, descriptors, phase, settings, balancing, serving, history>>

Fds == 0..MaxFd

INVALID_SOCKET == -1

(* LibuvServerSocket is no Socket: it has no descriptor of its own until    *)
(* its thread runs.                                                         *)
IsSocket(s) == kind[s] # "libuv"

Balances(s) == kind[s] \in {"proxy", "libuv"}

Init ==
  /\ kind \in [Servers -> Kinds]
  /\ table = [f \in Fds |-> None]
  /\ bound = {} /\ listening = {}
  /\ phase = [s \in Servers |-> IF IsSocket(s) THEN "unborn" ELSE "idle"]
  /\ s_ = [s \in Servers |-> INVALID_SOCKET]
  /\ handler = [s \in Servers |-> FALSE]
  /\ routine_override = [s \in Servers |-> "ThreadHandler"]
  /\ services = [s \in Servers |-> {}]
  /\ balancers = [s \in Servers |-> [n \in 1..MaxStarts |-> {}]]
  /\ loadBalancer = [s \in Servers |-> 0]
  /\ thread_routine = [s \in Servers |-> None]
  /\ listener = [s \in Servers |-> "none"]
  /\ session = [s \in Servers |-> None]
  /\ promised = [s \in Servers |-> [routine |-> None, services |-> {}]]
  /\ misused = {} /\ robbed = {}
  /\ closes = [s \in Servers |-> 0]
  /\ starts = [s \in Servers |-> 0]
  /\ calls = 0

Goto(s, place) == phase' = [phase EXCEPT ![s] = place]

-------------------------------------------------------------------------------
(* The kernel. *)

Free(f) == table[f] = None /\ \A g \in 0..(f - 1) : table[g] # None

Holds(s) == s_[s] \in Fds /\ table[s_[s]] # None

(* What a number stood for is kept with it. *)
CloseSocket_KeepsState(s) ==
  LET f == s_[s] IN
  /\ table' = IF f \in Fds THEN [table EXCEPT ![f] = None] ELSE table
  /\ UNCHANGED <<bound, listening>>
  /\ robbed' = IF Holds(s) THEN robbed \cup ({table[f]} \ {s}) ELSE robbed

(* s closes the number it knows, whatever that stands for. *)
CloseSocket(s) ==
  LET f == s_[s] IN
  /\ table' = IF f \in Fds THEN [table EXCEPT ![f] = None] ELSE table
  /\ bound' = bound \ {f}
  /\ listening' = listening \ {f}
  /\ robbed' = IF Holds(s) THEN robbed \cup ({table[f]} \ {s}) ELSE robbed

-------------------------------------------------------------------------------
(* Constructors. *)

(* The constructor of Socket opens a descriptor, *)
CreateSocket(s) ==
  /\ phase[s] = "unborn"
  /\ \E f \in Fds : Free(f) /\ table' = [table EXCEPT ![f] = s]
  /\ Goto(s, "base")
  /\ UNCHANGED <<kind, bound, listening, s_, settings, balancing, serving, history>>

(* and that of CServerSocket another, in its place. *)
Construct(s) ==
  /\ phase[s] = "base"
  /\ \E f \in Fds :
       /\ Free(f)
       /\ table' = [table EXCEPT ![f] = s]
       /\ s_' = [s_ EXCEPT ![s] = f]
  /\ Goto(s, "idle")
  /\ UNCHANGED <<kind, bound, listening, settings, balancing, serving, history>>

(* socket() may fail at any time.  What the first one opened stays open.    *)
ConstructThrows(s) ==
  /\ phase[s] \in {"unborn", "base"}
  /\ Goto(s, "gone")
  /\ UNCHANGED <<kind, descriptors, settings, balancing, serving, history>>

-------------------------------------------------------------------------------
(* What the owner sets, before or after Start. *)

Sets(s) ==
  /\ phase[s] \in {"idle", "closed"}
  /\ calls < MaxCalls
  /\ calls' = calls + 1
  /\ UNCHANGED <<kind, descriptors, phase, balancing, serving, history>>

SetHandler(s) ==
  /\ Sets(s)
  /\ handler' = [handler EXCEPT ![s] = ~@]
  /\ UNCHANGED <<routine_override, services>>

SetPipeline(s, p) ==
  /\ Sets(s)
  /\ routine_override' = [routine_override EXCEPT ![s] = p]
  /\ UNCHANGED <<handler, services>>

(* The API gateway has a configuration of its own, which its Start does not *)
(* read; CProtocolSocket has none.                                          *)
SetConfigValues(s, c) ==
  /\ Balances(s)
  /\ Sets(s)
  /\ services' = [services EXCEPT ![s] = c]
  /\ UNCHANGED <<handler, routine_override>>

-------------------------------------------------------------------------------
(* Start. *)

(* A listening thread has been made, and has not ended. *)
Threaded(s) == listener[s] \in {"loop_init", "loop", "call", "wait"}

(* A Start of one server.  Owners do not start a libuv server again while   *)
(* its thread runs.                                                         *)
Begins(s) ==
  /\ phase[s] \in {"idle", "closed"}
  /\ IsSocket(s) \/ ~Threaded(s)
  /\ starts[s] < MaxStarts
  /\ starts' = [starts EXCEPT ![s] = @ + 1]
  /\ promised' = [promised EXCEPT ![s] =
                    [routine |-> routine_override[s], services |-> services[s]]]
  /\ misused' = IF Threaded(s) THEN misused \cup {s} ELSE misused
  /\ UNCHANGED <<kind, descriptors, settings, serving, closes, robbed>>

(* Start of CApiGatewaySocket and CProtocolSocket. *)
StartOpens(s) ==
  /\ ~Balances(s)
  /\ Begins(s)
  /\ Goto(s, "bind")
  /\ UNCHANGED balancing

(* Start of CProxySocket and LibuvProxySocket makes a new load balancer. *)
StartBalances(s) ==
  /\ Balances(s)
  /\ Begins(s)
  /\ loadBalancer' = [loadBalancer EXCEPT ![s] = starts[s] + 1]
  /\ Goto(s, "balance")
  /\ UNCHANGED balancers

OpenPlace(s) == IF IsSocket(s) THEN "bind" ELSE "thread"

AddServer(s) ==
  /\ phase[s] = "balance"
  /\ \E v \in services[s] \ balancers[s][loadBalancer[s]] :
       balancers' = [balancers EXCEPT ![s][loadBalancer[s]] = @ \cup {v}]
  /\ UNCHANGED <<kind, descriptors, phase, settings, loadBalancer, serving, history>>

(* Open is called before the configuration is read to its end. *)
Balanced_Early(s) ==
  /\ phase[s] = "balance"
  /\ Goto(s, OpenPlace(s))
  /\ UNCHANGED <<kind, descriptors, settings, balancing, serving, history>>

(* Open is called when every service has been added. *)
Balanced(s) ==
  /\ phase[s] = "balance"
  /\ services[s] = balancers[s][loadBalancer[s]]
  /\ Goto(s, OpenPlace(s))
  /\ UNCHANGED <<kind, descriptors, settings, balancing, serving, history>>

(* bind() gives an address to a socket that has none. *)
Bind(s) ==
  /\ phase[s] = "bind"
  /\ Holds(s)
  /\ s_[s] \notin bound
  /\ bound' = bound \cup {s_[s]}
  /\ Goto(s, "listen")
  /\ UNCHANGED <<kind, table, listening, s_, settings, balancing, serving, history>>

(* A failure is logged and Open goes on. *)
BindFails_GoesOn(s) ==
  /\ phase[s] = "bind"
  /\ Goto(s, "thread")
  /\ UNCHANGED <<kind, descriptors, settings, balancing, serving, history>>

(* The port is taken, or what s_ stands for is no socket without an address. *)
(* Open closes it, whoever may be waiting in accept() on it, and throws.     *)
BindFails(s) ==
  /\ phase[s] = "bind"
  /\ CloseSocket(s)
  /\ closes' = [closes EXCEPT ![s] = @ + 1]
  /\ Goto(s, "closed")
  /\ UNCHANGED <<kind, s_, settings, balancing, serving, promised, misused, starts>>

(* listen() gives an address to a socket that lost its own meanwhile. *)
Listen(s) ==
  /\ phase[s] = "listen"
  /\ Holds(s)
  /\ bound' = bound \cup {s_[s]} /\ listening' = listening \cup {s_[s]}
  /\ Goto(s, "thread")
  /\ UNCHANGED <<kind, table, s_, settings, balancing, serving, history>>

(* The socket is closed here too. *)
ListenFails_Closes(s) ==
  /\ phase[s] = "listen"
  /\ CloseSocket(s)
  /\ Goto(s, "idle")
  /\ UNCHANGED <<kind, s_, settings, balancing, serving, promised, misused, closes, starts>>

(* Open throws and leaves the socket as it is. *)
ListenFails(s) ==
  /\ phase[s] = "listen"
  /\ Goto(s, "idle")
  /\ UNCHANGED <<kind, descriptors, settings, balancing, serving, history>>

(* The routine is copied; the thread of a CServerSocket goes to accept, that *)
(* of a LibuvServerSocket has yet to listen.  pthread_create() may fail, and *)
(* nobody looks at it: Start returns true.  Of two threads of one server    *)
(* either is followed.                                                      *)
StartListeningThread(s) ==
  /\ phase[s] = "thread"
  /\ thread_routine' = [thread_routine EXCEPT ![s] = routine_override[s]]
  /\ \/ listener' = [listener EXCEPT ![s] = IF IsSocket(s) THEN "call" ELSE "loop_init"]
     \/ UNCHANGED listener
  /\ Goto(s, "idle")
  /\ UNCHANGED <<kind, descriptors, settings, balancing, session, history>>

(* ~CServerSocket closes the number, and stops no thread. *)
Destruct(s) ==
  /\ IsSocket(s)
  /\ phase[s] \in {"idle", "closed"}
  /\ CloseSocket(s)
  /\ closes' = [closes EXCEPT ![s] = @ + 1]
  /\ Goto(s, "gone")
  /\ misused' = IF Threaded(s) THEN misused \cup {s} ELSE misused
  /\ UNCHANGED <<kind, s_, settings, balancing, serving, promised, starts>>

-------------------------------------------------------------------------------
(* The listening threads. *)

(* uv_tcp_bind opens the socket and uv_listen succeeds. *)
UvListen(s) ==
  /\ listener[s] = "loop_init"
  /\ \E f \in Fds :
       /\ Free(f)
       /\ table' = [table EXCEPT ![f] = s]
       /\ s_' = [s_ EXCEPT ![s] = f]
       /\ bound' = bound \cup {f} /\ listening' = listening \cup {f}
  /\ listener' = [listener EXCEPT ![s] = "loop"]
  /\ UNCHANGED <<kind, phase, settings, balancing, thread_routine, session, history>>

(* The thread ends, and the socket, if there is one, stays open. *)
UvListenFails(s) ==
  /\ listener[s] = "loop_init"
  /\ \/ UNCHANGED table
     \/ \E f \in Fds : Free(f) /\ table' = [table EXCEPT ![f] = s]
  /\ listener' = [listener EXCEPT ![s] = "ended"]
  /\ UNCHANGED <<kind, bound, listening, s_, phase, settings, balancing, thread_routine,
                 session, history>>

CallAccept(s) ==
  /\ listener[s] = "call"
  /\ s_[s] \in listening
  /\ listener' = [listener EXCEPT ![s] = "wait"]
  /\ UNCHANGED <<kind, descriptors, phase, settings, balancing, thread_routine, session,
                 history>>

(* An exception that leaves a thread's routine ends the process; the kernel  *)
(* closes what it had open.                                                 *)
ProcessEnds ==
  /\ phase' = [s \in Servers |-> "gone"]
  /\ listener' = [s \in Servers |-> "ended"]
  /\ session' = [s \in Servers |-> None]
  /\ table' = [f \in Fds |-> None] /\ bound' = {} /\ listening' = {}
  /\ UNCHANGED <<kind, s_, settings, balancing, thread_routine, history>>

(* accept() may fail at any time, and fails at once when the number stands   *)
(* for no listening socket.  Nobody catches what Accept throws.  The threads *)
(* of a destructed server use what is left of it: either they go on, or the  *)
(* process ends here too.                                                   *)
AcceptThrows(s) ==
  /\ listener[s] \in {"call", "wait"}
  /\ ProcessEnds

(* A client comes.  Its CLIENT_DATA waits for a worker; the loop of libuv   *)
(* runs ClientThreadProc itself, and takes no other client until it is done. *)
Accept(s) ==
  /\ listener[s] \in {"wait", "loop"}
  /\ session[s] = None
  /\ session' = [session EXCEPT ![s] = [at |-> "task", routine |-> None, balancer |-> 0]]
  /\ listener' = [listener EXCEPT ![s] = IF @ = "wait" THEN "call" ELSE @]
  /\ UNCHANGED <<kind, descriptors, phase, settings, balancing, thread_routine, history>>

-------------------------------------------------------------------------------
(* Sessions, up to their first use of what owners set. *)

At(s, where) == session[s] # None /\ session[s].at = where

InSession ==
  UNCHANGED <<kind, descriptors, phase, settings, balancing, thread_routine, listener, history>>

(* The routine is the one set last. *)
ClientThreadProc_Override(s) ==
  /\ At(s, "task")
  /\ session' = [session EXCEPT ![s] =
                   [at |-> "routine", routine |-> routine_override[s],
                    balancer |-> loadBalancer[s]]]
  /\ InSession

(* ThreadHandler reads the load balancer before anything else. *)
ClientThreadProc(s) ==
  /\ At(s, "task")
  /\ session' = [session EXCEPT ![s] =
                   [at |-> "routine", routine |-> thread_routine[s],
                    balancer |-> loadBalancer[s]]]
  /\ InSession

(* GetHandler() and, but for CProtocolSocket, requestServer(), which reads   *)
(* the services of the load balancer.                                       *)
RequestServer(s) ==
  /\ At(s, "routine") /\ session[s].routine = "ThreadHandler"
  /\ handler[s] /\ kind[s] # "protocol"
  /\ session' = [session EXCEPT ![s].at = "requested"]
  /\ InSession

(* The routine returns: a pipeline or a relay when it is done, ThreadHandler *)
(* at once when there is no handler.                                        *)
SessionEnds(s) ==
  /\ session[s] # None /\ session[s].at # "task"
  /\ session[s].at = "routine" /\ session[s].routine = "ThreadHandler" =>
       ~handler[s] \/ kind[s] = "protocol"
  /\ session' = [session EXCEPT ![s] = None]
  /\ InSession

(* It throws.  ClientThreadProc of CServerSocket catches; that of           *)
(* LibuvServerSocket does not.  After requestServer, ThreadHandler of        *)
(* LibuvProxySocket uses a client_socket nobody has set: the session, or    *)
(* the process, may end there.                                              *)
SessionThrows(s) ==
  /\ session[s] # None /\ session[s].at # "task"
  /\ session[s].routine = "ThreadHandler" => handler[s]
  /\ IF IsSocket(s)
     THEN session' = [session EXCEPT ![s] = None] /\ InSession
     ELSE ProcessEnds

-------------------------------------------------------------------------------
Owner(s) ==
  \/ CreateSocket(s) \/ Construct(s) \/ ConstructThrows(s)
  \/ SetHandler(s)
  \/ \E p \in Pipelines : SetPipeline(s, p)
  \/ \E c \in SUBSET Services : SetConfigValues(s, c)
  \/ StartOpens(s) \/ StartBalances(s) \/ AddServer(s) \/ Balanced(s)
  \/ Bind(s) \/ BindFails(s) \/ Listen(s) \/ ListenFails(s)
  \/ StartListeningThread(s)
  \/ Destruct(s)

Thread(s) ==
  \/ UvListen(s) \/ UvListenFails(s)
  \/ CallAccept(s) \/ AcceptThrows(s) \/ Accept(s)
  \/ ClientThreadProc(s) \/ RequestServer(s) \/ SessionEnds(s) \/ SessionThrows(s)

Next == \E s \in Servers : Owner(s) \/ Thread(s)

Spec == Init /\ [][Next]_vars

-------------------------------------------------------------------------------
(* Properties. *)

Phases == {"unborn", "base", "idle", "balance", "bind", "listen", "thread", "closed", "gone"}

TypeOK ==
  /\ kind \in [Servers -> Kinds]
  /\ table \in [Fds -> Servers \cup {None}]
  /\ listening \subseteq bound /\ bound \subseteq {f \in Fds : table[f] # None}
  /\ phase \in [Servers -> Phases]
  /\ s_ \in [Servers -> Fds \cup {INVALID_SOCKET}]
  /\ handler \in [Servers -> BOOLEAN]
  /\ routine_override \in [Servers -> Pipelines \cup {"ThreadHandler"}]
  /\ services \in [Servers -> SUBSET Services]
  /\ balancers \in [Servers -> [1..MaxStarts -> SUBSET Services]]
  /\ loadBalancer \in [Servers -> 0..MaxStarts]
  /\ thread_routine \in [Servers -> Pipelines \cup {"ThreadHandler", None}]
  /\ listener \in [Servers -> {"none", "loop_init", "loop", "call", "wait", "ended"}]
  /\ misused \subseteq Servers /\ robbed \subseteq Servers
  /\ closes \in [Servers -> Nat]
  /\ starts \in [Servers -> 0..MaxStarts] /\ calls \in 0..MaxCalls

Running(s) == listener[s] \in {"call", "wait", "loop"}

(* A session runs the routine that was set when its server was started,     *)
(* whatever SetPipeline was given since: the routine is copied before the   *)
(* listening thread is made.  A server started again while its thread runs  *)
(* is left out, as its second Start assigns the routine under the sessions, *)
(* and one destructed then, as its routine is gone.                         *)
RoutineOfStart ==
  \A s \in Servers \ misused :
    session[s] # None /\ ~At(s, "task") => session[s].routine = promised[s].routine

(* The session of a proxy finds a load balancer that has every service of   *)
(* the configuration its server was started with, however early the client  *)
(* comes, and no others, whatever SetConfigValues was given since.  A       *)
(* server started again while its thread runs is left out: its second Start *)
(* gives running sessions a new load balancer, empty at first               *)
(* (CProxySocket.h:81).  One whose first Start failed is not.               *)
BalancerReady ==
  \A s \in Servers \ misused :
    Balances(s) /\ session[s] # None /\ ~At(s, "task") =>
      /\ session[s].balancer # 0
      /\ balancers[s][session[s].balancer] = promised[s].services

(* A server that accepts clients does so on a listening socket of its own,  *)
(* unless it closed that socket itself (its owner started it again or       *)
(* destructed it while it ran, or started it again after a Start that could *)
(* not bind) or another server did; and no server closes the socket of      *)
(* another before some server closes its number a second time, which only a *)
(* Start or the destructor after a Start that could not bind do.            *)
AcceptsOnItsOwn ==
  /\ \A s \in Servers \ robbed :
       Running(s) /\ closes[s] = 0 => s_[s] \in listening /\ table[s_[s]] = s
  /\ robbed # {} => \E s \in Servers : closes[s] > 1
===============================================================================
