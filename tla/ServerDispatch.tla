---------------------------- MODULE ServerDispatch ----------------------------
(***************************************************************************)
(* How CServerSocket (socket/CServerSocket.cpp) brings clients to          *)
(* sessions: one listener thread accepts connections and pushes a task for *)
(* each on the process's thread pool, whose workers run the sessions:      *)
(* CProxySocket::ThreadHandler up to the point where both sockets are      *)
(* connected, or the request loop of CProtocolSocket::ThreadHandler.  What *)
(* a relay does is module ProxyRelay; here it is the stage "relay", which  *)
(* lasts as long as the peers want.  How a server is started is module     *)
(* ServerSetup.                                                            *)
(*                                                                         *)
(* The descriptors of the process are a limited resource.  Neither the     *)
(* listener nor a session ever closes the client's socket, and no session  *)
(* that relayed closes the target's.                                       *)
(***************************************************************************)
EXTENDS Naturals, Sequences, FiniteSets, Functions

CONSTANTS
  Clients,      \* clients that may connect, each once
  Workers,      \* threads of ThreadPoolSingleton::pool
  FdLimit,      \* how many descriptors the process may open for sessions
  None

ASSUME DispatchAssumption ==
  /\ FdLimit \in Nat
  /\ None \notin Clients

VARIABLES
  kind,         \* "proxy" or "protocol": the class of the server; never changes
  handler,      \* whether m_handler is set
  backlog,      \* connections the kernel completed and nobody accepted
  listener,     \* "call", "wait" (inside accept), "push", or "dead"
  new_sock,     \* the client accepted last, until its task is pushed
  tasks,        \* the queue of the thread pool
  serving,      \* serving[w]: the client of worker w's session, or None
  stage,        \* stage[c]: where the session of client c is
  open,         \* open descriptors: <<"client", c>> and <<"target", c>>
  arrived,      \* history: clients in the order they connected
  started       \* history: clients in the order their sessions started

vars == <<kind, handler, backlog, listener, new_sock, tasks, serving, stage, open, arrived, started>>

Stages == {"none", "entered", "connecting", "relay", "requests",
           "failed", "relayed", "answered"}

Init ==
  /\ kind \in {"proxy", "protocol"}
  /\ handler = FALSE
  /\ backlog = <<>>
  /\ listener = "call"
  /\ new_sock = None
  /\ tasks = <<>>
  /\ serving = [w \in Workers |-> None]
  /\ stage = [c \in Clients |-> "none"]
  /\ open = {}
  /\ arrived = <<>>
  /\ started = <<>>

(* The process runs.  An exception that leaves the listener's thread        *)
(* routine ends it, with all its threads.                                   *)
Alive == listener # "dead"

(* accept() reserves a descriptor before it waits for a connection. *)
InUse == Cardinality(open) + (IF listener = "wait" THEN 1 ELSE 0)

-------------------------------------------------------------------------------
(* The owner of the server sets or clears the handler, before or after      *)
(* Start, and while sessions run.                                           *)
SetHandler ==
  /\ Alive
  /\ handler' = ~handler
  /\ UNCHANGED <<kind, backlog, listener, new_sock, tasks, serving, stage, open, arrived, started>>

(* The kernel and the listener. *)

ClientConnects(c) ==
  /\ Alive
  /\ c \notin Range(arrived)
  /\ backlog' = Append(backlog, c)
  /\ arrived' = Append(arrived, c)
  /\ UNCHANGED <<kind, handler, listener, new_sock, tasks, serving, stage, open, started>>

CallAccept ==
  /\ listener = "call"
  /\ InUse < FdLimit
  /\ listener' = "wait"
  /\ UNCHANGED <<kind, handler, backlog, new_sock, tasks, serving, stage, open, arrived, started>>

(* accept() fails: for want of a descriptor, or because the connection was  *)
(* aborted, a signal came, memory ran out, ...  For every error but EAGAIN, *)
(* which a blocking socket does not have, Accept throws, and nothing in     *)
(* ListenThreadProc catches it.                                             *)
AcceptThrows ==
  /\ listener \in {"call", "wait"}
  /\ listener' = "dead"
  /\ UNCHANGED <<kind, handler, backlog, new_sock, tasks, serving, stage, open, arrived, started>>

Accept ==
  /\ listener = "wait"
  /\ backlog # <<>>
  /\ new_sock' = Head(backlog)
  /\ backlog' = Tail(backlog)
  /\ open' = open \cup {<<"client", Head(backlog)>>}
  /\ listener' = "push"
  /\ UNCHANGED <<kind, handler, tasks, serving, stage, arrived, started>>

(* The task is pushed and the connection kept as the latest one. *)
PushTask_KeepsSock ==
  /\ listener = "push"
  /\ tasks' = Append(tasks, new_sock)
  /\ UNCHANGED new_sock
  /\ listener' = "call"
  /\ UNCHANGED <<kind, handler, backlog, serving, stage, open, arrived, started>>

(* clientData is made for this connection, and the task owns it. *)
PushTask ==
  /\ listener = "push"
  /\ tasks' = Append(tasks, new_sock)
  /\ new_sock' = None
  /\ listener' = "call"
  /\ UNCHANGED <<kind, handler, backlog, serving, stage, open, arrived, started>>

-------------------------------------------------------------------------------
(* The workers. *)

(* One CLIENT_DATA for all connections: the task sees the latest one. *)
StartSession_SharedData(w) ==
  LET c == IF new_sock # None THEN new_sock ELSE tasks[Len(tasks)] IN
  /\ Alive
  /\ serving[w] = None
  /\ tasks # <<>>
  /\ serving' = [serving EXCEPT ![w] = c]
  /\ tasks' = Tail(tasks)
  /\ stage' = [stage EXCEPT ![c] = "entered"]
  /\ started' = Append(started, c)
  /\ UNCHANGED <<kind, handler, backlog, listener, new_sock, open, arrived>>

(* The pool hands out tasks in the order they were pushed (external). *)
StartSession(w) ==
  /\ Alive
  /\ serving[w] = None
  /\ tasks # <<>>
  /\ serving' = [serving EXCEPT ![w] = Head(tasks)]
  /\ tasks' = Tail(tasks)
  /\ stage' = [stage EXCEPT ![Head(tasks)] = "entered"]
  /\ started' = Append(started, Head(tasks))
  /\ UNCHANGED <<kind, handler, backlog, listener, new_sock, open, arrived>>

(* An exception that is not caught takes the worker with it. *)
EndSession_LosesWorker(w, outcome) ==
  /\ stage' = [stage EXCEPT ![serving[w]] = outcome]
  /\ serving' = IF outcome = "failed" THEN serving ELSE [serving EXCEPT ![w] = None]

(* ClientThreadProc returns, also when the session threw. *)
EndSession(w, outcome) ==
  /\ stage' = [stage EXCEPT ![serving[w]] = outcome]
  /\ serving' = [serving EXCEPT ![w] = None]

At(w, where) == Alive /\ serving[w] # None /\ stage[serving[w]] = where

(* GetHandler() is null. *)
NoHandler(w) ==
  /\ At(w, "entered")
  /\ ~handler
  /\ EndSession(w, "failed")
  /\ UNCHANGED <<kind, handler, backlog, listener, new_sock, tasks, open, arrived, started>>

(* Socket() of the CClientSocket to the target. *)
OpenTarget(w) ==
  /\ At(w, "entered") /\ kind = "proxy"
  /\ handler
  /\ InUse < FdLimit
  /\ open' = open \cup {<<"target", serving[w]>>}
  /\ stage' = [stage EXCEPT ![serving[w]] = "connecting"]
  /\ UNCHANGED <<kind, handler, backlog, listener, new_sock, tasks, serving, arrived, started>>

(* CreateSocket throws, for want of a descriptor or for another reason;     *)
(* ClientThreadProc catches.                                                *)
OpenTargetThrows(w) ==
  /\ At(w, "entered") /\ kind = "proxy"
  /\ handler
  /\ EndSession(w, "failed")
  /\ UNCHANGED <<kind, handler, backlog, listener, new_sock, tasks, open, arrived, started>>

ConnectTarget(w) ==
  /\ At(w, "connecting")
  /\ stage' = [stage EXCEPT ![serving[w]] = "relay"]
  /\ UNCHANGED <<kind, handler, backlog, listener, new_sock, tasks, serving, open, arrived, started>>

(* The descriptor of a target that refused stays open. *)
ConnectTargetThrows_Leaks(w) ==
  /\ At(w, "connecting")
  /\ open' = open
  /\ EndSession(w, "failed")
  /\ UNCHANGED <<kind, handler, backlog, listener, new_sock, tasks, arrived, started>>

(* Connect throws in the constructor of CClientSocket: the base class is    *)
(* destructed, which closes the descriptor, and ClientThreadProc catches.   *)
ConnectTargetThrows(w) ==
  /\ At(w, "connecting")
  /\ open' = open \ {<<"target", serving[w]>>}
  /\ EndSession(w, "failed")
  /\ UNCHANGED <<kind, handler, backlog, listener, new_sock, tasks, arrived, started>>

(* The relay loop is left.  Neither socket is closed. *)
RelayEnds(w) ==
  /\ At(w, "relay")
  /\ EndSession(w, "relayed")
  /\ UNCHANGED <<kind, handler, backlog, listener, new_sock, tasks, open, arrived, started>>

(* CProtocolSocket: a request is read and answered, over and over. *)
EnterRequests(w) ==
  /\ At(w, "entered") /\ kind = "protocol"
  /\ handler
  /\ stage' = [stage EXCEPT ![serving[w]] = "requests"]
  /\ UNCHANGED <<kind, handler, backlog, listener, new_sock, tasks, serving, open, arrived, started>>

(* A read fails, or the handler throws.  The socket is not closed. *)
RequestsEnd(w) ==
  /\ At(w, "requests")
  /\ \E outcome \in {"answered", "failed"} : EndSession(w, outcome)
  /\ UNCHANGED <<kind, handler, backlog, listener, new_sock, tasks, open, arrived, started>>

-------------------------------------------------------------------------------
Listener == CallAccept \/ Accept \/ PushTask

(* Steps a worker takes by itself. *)
Worker(w) ==
  \/ StartSession(w)
  \/ NoHandler(w)
  \/ OpenTarget(w) \/ OpenTargetThrows(w)
  \/ ConnectTarget(w) \/ ConnectTargetThrows(w)
  \/ EnterRequests(w)

Next ==
  \/ SetHandler
  \/ \E c \in Clients : ClientConnects(c)
  \/ Listener \/ AcceptThrows
  \/ \E w \in Workers : Worker(w) \/ RelayEnds(w) \/ RequestsEnd(w)

Spec == Init /\ [][Next]_vars

(* Threads are run, connect() returns, and so does an accept() for which    *)
(* there is no descriptor.  Other failures of accept() may happen or not.   *)
(* When a session ends is up to its peers: they may keep it for ever.       *)
Fairness ==
  /\ WF_vars(Listener)
  /\ WF_vars(InUse >= FdLimit /\ listener = "call" /\ AcceptThrows)
  /\ \A w \in Workers : WF_vars(Worker(w))

FairSpec == Spec /\ Fairness

(* Peers that end their sessions some day. *)
FiniteSessionsSpec ==
  FairSpec /\ \A w \in Workers : WF_vars(RelayEnds(w) \/ RequestsEnd(w))

-------------------------------------------------------------------------------
(* Properties. *)

TypeOK ==
  /\ kind \in {"proxy", "protocol"}
  /\ handler \in BOOLEAN
  /\ backlog \in Seq(Clients)
  /\ listener \in {"call", "wait", "push", "dead"}
  /\ new_sock \in Clients \cup {None}
  /\ listener = "push" <=> new_sock # None
  /\ tasks \in Seq(Clients)
  /\ serving \in [Workers -> Clients \cup {None}]
  /\ stage \in [Clients -> Stages]
  /\ open \subseteq {"client", "target"} \X Clients
  /\ InUse <= FdLimit
  /\ arrived \in Seq(Clients)
  /\ started \in Seq(Clients)

(* No connection is lost, served twice or overtaken on its way from the     *)
(* kernel through the listener and the pool to a worker, although listener  *)
(* and workers share only the queue and a heap-allocated CLIENT_DATA.       *)
Conveyed ==
  arrived = started \o tasks \o (IF new_sock = None THEN <<>> ELSE <<new_sock>>) \o backlog

(* A session is run by one worker, from its start to its end. *)
OneWorkerEach ==
  \A c \in Clients :
    stage[c] \in {"entered", "connecting", "relay", "requests"} <=>
      \E w \in Workers : serving[w] = c /\ \A v \in Workers \ {w} : serving[v] # c

(* Every client that connects gets its session, in its turn, although       *)
(* sessions may throw at each of their steps, if sessions end and for as    *)
(* long as the process lives.                                               *)
EveryClientServed ==
  \A c \in Clients :
    c \in Range(arrived) ~> stage[c] \in {"failed", "relayed", "answered"} \/ ~Alive

(* How many clients the listener has taken over from the kernel: those with *)
(* a session, those in the queue, and the one in hand.                      *)
Accepted == Len(started) + Len(tasks) + (IF new_sock = None THEN 0 ELSE 1)

(* What the open descriptors are spent on: one on each client accepted so   *)
(* far, whatever became of its session, for nobody closes it; and one on    *)
(* the target of each session that is connecting, relays or has relayed.  A *)
(* session that failed at any of its steps leaves no target open (Connect   *)
(* that throws in a constructor, ClientThreadProc's catch).                 *)
DescriptorsAccounted ==
  \A c \in Clients :
    /\ <<"client", c>> \in open <=> \E i \in 1..Accepted : arrived[i] = c
    /\ <<"target", c>> \in open <=> stage[c] \in {"connecting", "relay", "relayed"}
===============================================================================
