--------------------------- MODULE ServerSetupProofs ---------------------------
(***************************************************************************)
(* Proofs about ServerSetup for any number of servers of any classes, and  *)
(* any configurations, descriptors, calls and starts.                      *)
(*                                                                         *)
(* What owners set may change between any two steps of the threads, except *)
(* during a Start of the same server (Order); a session therefore finds    *)
(* what Start copied (AsStarted).  Descriptors are shared by all servers:  *)
(* the number of a server that has not closed it stands for its own socket *)
(* unless another closed it (Own), and only a server that closes its       *)
(* number again can be that other.                                         *)
(***************************************************************************)
EXTENDS ServerSetup, TLAPS

(* Between the begin of a Start and its end. *)
Starting(s) == phase[s] \in {"balance", "bind", "listen", "thread"}

SessionTypeOK ==
  /\ session \in [Servers -> [at : {"task", "routine", "requested"},
                              routine : Pipelines \cup {"ThreadHandler", None},
                              balancer : 0..MaxStarts] \cup {None}]
  /\ promised \in [Servers -> [routine : Pipelines \cup {"ThreadHandler", None},
                               services : SUBSET Services]]

(* How far an owner and the thread of a server may be at the same time. *)
Order(s) ==
  /\ Starting(s) => /\ promised[s].routine = routine_override[s]
                    /\ promised[s].services = services[s]
                    /\ Balances(s) => loadBalancer[s] \in 1..MaxStarts
  /\ phase[s] \in {"unborn", "base"} => listener[s] = "none"
  /\ IsSocket(s) => listener[s] \notin {"loop_init", "loop"}
  /\ ~IsSocket(s) => /\ phase[s] \in {"idle", "balance", "thread", "gone"}
                     /\ listener[s] \notin {"call", "wait"}
                     /\ s \notin misused
  /\ session[s] # None => Running(s)
  /\ s \notin misused /\ Threaded(s) => phase[s] = "idle"

(* The load balancer of a server that was started. *)
Balancing(s) ==
  /\ loadBalancer[s] \in 1..MaxStarts
  /\ balancers[s][loadBalancer[s]] = promised[s].services

(* What a session finds is what its server was started with. *)
AsStarted(s) ==
  s \notin misused =>
    /\ Threaded(s) => thread_routine[s] = promised[s].routine
    /\ Balances(s) /\ (phase[s] \in {"bind", "listen", "thread"} \/ Threaded(s)) => Balancing(s)
    /\ session[s] # None /\ session[s].at # "task" =>
         /\ session[s].routine = promised[s].routine
         /\ Balances(s) => session[s].balancer = loadBalancer[s]

(* A server's number stands for its own socket. *)
Owns(s) == s_[s] \in Fds /\ table[s_[s]] = s

OwnSocket(s) ==
  /\ IsSocket(s) => /\ phase[s] # "closed"
                    /\ Starting(s) \/ phase[s] = "idle" => Owns(s)
                    /\ phase[s] = "thread" => s_[s] \in listening
  /\ Running(s) => Owns(s) /\ s_[s] \in listening

Own ==
  /\ \A s \in Servers \ robbed : closes[s] = 0 => OwnSocket(s)
  /\ robbed # {} => \E s \in Servers : closes[s] > 1

PointwiseInv ==
  TypeOK /\ SessionTypeOK /\ \A s \in Servers : Order(s) /\ AsStarted(s)

(* What a step of server s leaves alone in the others. *)
Apart(s) ==
  \A r \in Servers \ {s} :
    /\ kind'[r] = kind[r] /\ phase'[r] = phase[r] /\ listener'[r] = listener[r]
    /\ routine_override'[r] = routine_override[r] /\ services'[r] = services[r]
    /\ balancers'[r] = balancers[r] /\ loadBalancer'[r] = loadBalancer[r]
    /\ thread_routine'[r] = thread_routine[r] /\ session'[r] = session[r]
    /\ promised'[r] = promised[r] /\ starts'[r] = starts[r]
    /\ (r \in misused' <=> r \in misused)

LEMMA OthersKeep ==
  ASSUME NEW s \in Servers, PointwiseInv, Apart(s), Order(s)', AsStarted(s)'
  PROVE  \A r \in Servers : Order(r)' /\ AsStarted(r)'
<1> SUFFICES ASSUME NEW r \in Servers, r # s PROVE Order(r)' /\ AsStarted(r)'
  OBVIOUS
<1>1. Order(r) /\ AsStarted(r) BY DEF PointwiseInv
<1>2. r \in Servers \ {s} OBVIOUS
<1>3. Order(r)'
  BY <1>1, <1>2 DEF Order, Starting, IsSocket, Balances, Threaded, Running, Apart
<1>4. AsStarted(r)'
  BY <1>1, <1>2 DEF AsStarted, Starting, Threaded, Balances, Balancing, Apart
<1>5. QED BY <1>3, <1>4

-------------------------------------------------------------------------------
(* Types. *)

LEMMA SetupTypeInit == Init => TypeOK /\ SessionTypeOK
  BY SetupAssumption DEF Init, TypeOK, SessionTypeOK, Fds, INVALID_SOCKET, Phases

(* A server closes its number. *)
LEMMA CloseTypes ==
  ASSUME TypeOK, NEW s \in Servers, CloseSocket(s)
  PROVE  /\ table' \in [Fds -> Servers \cup {None}]
         /\ listening' \subseteq bound' /\ bound' \subseteq {f \in Fds : table'[f] # None}
         /\ robbed' \subseteq Servers
<1>1. table' \in [Fds -> Servers \cup {None}]
  BY DEF CloseSocket, TypeOK
<1>2. listening' \subseteq bound' /\ bound' \subseteq {f \in Fds : table'[f] # None}
  BY DEF CloseSocket, TypeOK
<1>3. robbed' \subseteq Servers
  <2>1. CASE Holds(s) BY <2>1 DEF CloseSocket, Holds, TypeOK
  <2>2. CASE ~Holds(s) BY <2>2 DEF CloseSocket, TypeOK
  <2>3. QED BY <2>1, <2>2
<1>4. QED BY <1>1, <1>2, <1>3

LEMMA OwnerTypes ==
  ASSUME PointwiseInv, NEW s \in Servers, Owner(s)
  PROVE  TypeOK' /\ SessionTypeOK'
<1> USE SetupAssumption
    DEF PointwiseInv, TypeOK, SessionTypeOK, Phases, Goto, Sets, Begins,
        descriptors, settings, balancing, serving, history
<1>1. CASE CreateSocket(s) BY <1>1 DEF CreateSocket
<1>2. CASE Construct(s) BY <1>2 DEF Construct
<1>3. CASE ConstructThrows(s) BY <1>3 DEF ConstructThrows
<1>4. CASE SetHandler(s) BY <1>4 DEF SetHandler
<1>5. ASSUME NEW p \in Pipelines, SetPipeline(s, p) PROVE TypeOK' /\ SessionTypeOK'
  BY <1>5 DEF SetPipeline
<1>6. ASSUME NEW c \in SUBSET Services, SetConfigValues(s, c) PROVE TypeOK' /\ SessionTypeOK'
  BY <1>6 DEF SetConfigValues
<1>7. CASE StartOpens(s) BY <1>7 DEF StartOpens
<1>8. CASE StartBalances(s) BY <1>8 DEF StartBalances
<1>9. CASE AddServer(s)
  <2>1. PICK v \in services[s] : balancers' = [balancers EXCEPT ![s][loadBalancer[s]] = @ \cup {v}]
    BY <1>9 DEF AddServer
  <2>2. v \in Services /\ balancers[s] \in [1..MaxStarts -> SUBSET Services]
    OBVIOUS
  <2>3. [balancers[s] EXCEPT ![loadBalancer[s]] = @ \cup {v}] \in [1..MaxStarts -> SUBSET Services]
    BY <2>2
  <2>4. balancers' \in [Servers -> [1..MaxStarts -> SUBSET Services]]
    BY <2>1, <2>3
  <2>5. QED BY <1>9, <2>4 DEF AddServer
<1>10. CASE Balanced(s) BY <1>10 DEF Balanced, OpenPlace
<1>11. CASE Bind(s) BY <1>11 DEF Bind, Holds
<1>12. CASE BindFails(s) BY <1>12, CloseTypes DEF BindFails
<1>13. CASE Listen(s) BY <1>13 DEF Listen, Holds
<1>14. CASE ListenFails(s) BY <1>14 DEF ListenFails
<1>15. CASE StartListeningThread(s) BY <1>15 DEF StartListeningThread
<1>16. CASE Destruct(s) BY <1>16, CloseTypes DEF Destruct
<1>17. QED
  BY <1>1, <1>2, <1>3, <1>4, <1>5, <1>6, <1>7, <1>8, <1>9, <1>10, <1>11, <1>12, <1>13, <1>14,
     <1>15, <1>16 DEF Owner

LEMMA ThreadTypes ==
  ASSUME PointwiseInv, NEW s \in Servers, Thread(s)
  PROVE  TypeOK' /\ SessionTypeOK'
<1> USE SetupAssumption
    DEF PointwiseInv, TypeOK, SessionTypeOK, Phases, At, InSession, ProcessEnds,
        descriptors, settings, balancing, serving, history
<1>1. CASE UvListen(s) BY <1>1 DEF UvListen
<1>2. CASE UvListenFails(s)
  <2>1. table' = table \/ \E f \in Fds : Free(f) /\ table' = [table EXCEPT ![f] = s]
    BY <1>2 DEF UvListenFails
  <2>2. /\ table' \in [Fds -> Servers \cup {None}]
        /\ \A f \in Fds : table[f] # None => table'[f] # None
    <3>1. CASE table' = table BY <3>1
    <3>2. ASSUME NEW f \in Fds, table' = [table EXCEPT ![f] = s]
          PROVE  /\ table' \in [Fds -> Servers \cup {None}]
                 /\ \A g \in Fds : table[g] # None => table'[g] # None
      BY <3>2
    <3>3. QED BY <2>1, <3>1, <3>2
  <2>3. QED BY <1>2, <2>2 DEF UvListenFails
<1>3. CASE CallAccept(s) BY <1>3 DEF CallAccept
<1>4. CASE AcceptThrows(s) BY <1>4 DEF AcceptThrows
<1>5. CASE Accept(s) BY <1>5 DEF Accept
<1>6. CASE ClientThreadProc(s) BY <1>6 DEF ClientThreadProc
<1>7. CASE RequestServer(s)
  <2>1. /\ session[s] \in [at : {"task", "routine", "requested"},
                           routine : Pipelines \cup {"ThreadHandler", None},
                           balancer : 0..MaxStarts]
        /\ session' = [session EXCEPT ![s] = [session[s] EXCEPT !.at = "requested"]]
    BY <1>7 DEF RequestServer
  <2>2. [session[s] EXCEPT !.at = "requested"]
          \in [at : {"task", "routine", "requested"},
              routine : Pipelines \cup {"ThreadHandler", None},
              balancer : 0..MaxStarts]
    BY <2>1
  <2>3. QED BY <1>7, <2>1, <2>2 DEF RequestServer
<1>8. CASE SessionEnds(s) BY <1>8 DEF SessionEnds
<1>9. CASE SessionThrows(s)
  <2>1. CASE IsSocket(s)
    <3>1. InSession /\ session' = [session EXCEPT ![s] = None] BY <1>9, <2>1 DEF SessionThrows
    <3>2. QED BY <3>1
  <2>2. CASE ~IsSocket(s) BY <1>9, <2>2 DEF SessionThrows
  <2>3. QED BY <2>1, <2>2
<1>10. QED BY <1>1, <1>2, <1>3, <1>4, <1>5, <1>6, <1>7, <1>8, <1>9 DEF Thread

-------------------------------------------------------------------------------
(* What owners and threads of one server may do to it. *)

(* A step of Open only moves its owner on, whatever it does to descriptors. *)
LEMMA OpenKeeps ==
  ASSUME PointwiseInv, NEW s \in Servers, phase[s] \in {"bind", "listen"},
         NEW place \in {"listen", "thread", "idle", "closed"}, Goto(s, place),
         UNCHANGED <<kind, settings, balancing, serving, promised, misused, starts>>
  PROVE  Apart(s) /\ Order(s)' /\ AsStarted(s)'
<1>1. /\ phase \in [Servers -> Phases] /\ phase'[s] = place
      /\ \A r \in Servers \ {s} : phase'[r] = phase[r]
  BY DEF PointwiseInv, TypeOK, Goto
<1>2. /\ kind' = kind /\ routine_override' = routine_override /\ services' = services
      /\ balancers' = balancers /\ loadBalancer' = loadBalancer
      /\ thread_routine' = thread_routine /\ listener' = listener /\ session' = session
      /\ promised' = promised /\ starts' = starts /\ misused' = misused
  BY DEF settings, balancing, serving
<1>3. Order(s) /\ AsStarted(s) BY DEF PointwiseInv
<1>4. Apart(s) BY <1>1, <1>2 DEF Apart
<1>5. /\ Balances(s)' = Balances(s) /\ IsSocket(s)' = IsSocket(s)
      /\ Threaded(s)' = Threaded(s) /\ Running(s)' = Running(s)
      /\ Balancing(s)' = Balancing(s)
  BY <1>2 DEF Balances, IsSocket, Threaded, Running, Balancing
<1>6. Starting(s) /\ IsSocket(s) BY <1>3 DEF Starting, Order
<1>7. s \notin misused => ~Threaded(s) BY <1>3 DEF Order
<1>8. Order(s)'
  BY <1>1, <1>2, <1>3, <1>5, <1>6, <1>7 DEF Order, Starting
<1>9. AsStarted(s)'
  <2>1. s \notin misused =>
          (Balances(s) /\ phase[s] \in {"bind", "listen", "thread"} => Balancing(s))
    BY <1>3 DEF AsStarted
  <2>2. s \notin misused /\ session[s] # None /\ session[s].at # "task" =>
          /\ session[s].routine = promised[s].routine
          /\ Balances(s) => session[s].balancer = loadBalancer[s]
    BY <1>3 DEF AsStarted
  <2>3. QED BY <1>2, <1>5, <1>7, <2>1, <2>2 DEF AsStarted
<1>10. QED BY <1>4, <1>8, <1>9

LEMMA OwnerKeeps ==
  ASSUME PointwiseInv, NEW s \in Servers, Owner(s)
  PROVE  Apart(s) /\ Order(s)' /\ AsStarted(s)'
<1> USE SetupAssumption
    DEF PointwiseInv, TypeOK, SessionTypeOK, Goto, Sets, Begins, Apart, Order, AsStarted,
        Starting, Threaded, Running, Balancing, IsSocket, Balances,
        descriptors, settings, balancing, serving, history
<1>1. CASE CreateSocket(s) \/ Construct(s) \/ ConstructThrows(s)
  <2>1. /\ phase[s] \in {"unborn", "base"} /\ phase'[s] \in {"base", "idle", "gone"}
        /\ UNCHANGED <<kind, settings, balancing, serving, history>>
    BY <1>1 DEF CreateSocket, Construct, ConstructThrows
  <2>2. listener[s] = "none" /\ session[s] = None /\ IsSocket(s)
    BY <2>1
  <2>3. Apart(s)
    BY <1>1 DEF CreateSocket, Construct, ConstructThrows
  <2>4. Order(s)' BY <2>1, <2>2
  <2>5. AsStarted(s)' BY <2>1, <2>2
  <2>6. QED BY <2>3, <2>4, <2>5
<1>4. CASE SetHandler(s) BY <1>4 DEF SetHandler
<1>5. ASSUME NEW p \in Pipelines, SetPipeline(s, p) PROVE Apart(s) /\ Order(s)' /\ AsStarted(s)'
  BY <1>5 DEF SetPipeline
<1>6. ASSUME NEW c \in SUBSET Services, SetConfigValues(s, c)
      PROVE  Apart(s) /\ Order(s)' /\ AsStarted(s)'
  BY <1>6 DEF SetConfigValues
<1>7. CASE StartOpens(s) BY <1>7 DEF StartOpens
<1>8. CASE StartBalances(s) BY <1>8 DEF StartBalances
<1>9. CASE AddServer(s) BY <1>9 DEF AddServer
<1>10. CASE Balanced(s) BY <1>10 DEF Balanced, OpenPlace
<1>11. CASE Bind(s) BY <1>11, OpenKeeps DEF Bind
<1>12. CASE BindFails(s) BY <1>12, OpenKeeps DEF BindFails
<1>13. CASE Listen(s) BY <1>13, OpenKeeps DEF Listen
<1>14. CASE ListenFails(s) BY <1>14, OpenKeeps DEF ListenFails
<1>15. CASE StartListeningThread(s)
  <2>1. /\ phase[s] = "thread" /\ phase'[s] = "idle"
        /\ thread_routine'[s] = routine_override[s]
        /\ \/ listener'[s] \in {"call", "loop_init"} /\ (listener'[s] = "call" <=> IsSocket(s))
           \/ listener'[s] = listener[s]
        /\ UNCHANGED <<kind, settings, balancing, session, history>>
    BY <1>15 DEF StartListeningThread
  <2>2. Apart(s) BY <1>15 DEF StartListeningThread
  <2>3. Order(s)'
    <3>1. ~IsSocket(s) => session[s] = None
      BY <2>1
    <3>2. QED BY <2>1, <3>1
  <2>4. AsStarted(s)' BY <2>1
  <2>5. QED BY <2>2, <2>3, <2>4
<1>16. CASE Destruct(s)
  <2>1. /\ IsSocket(s) /\ phase[s] \in {"idle", "closed"} /\ phase'[s] = "gone"
        /\ (s \in misused \/ Threaded(s) <=> s \in misused')
        /\ UNCHANGED <<kind, settings, balancing, serving, promised, starts>>
    BY <1>16 DEF Destruct
  <2>2. Apart(s) BY <1>16 DEF Destruct
  <2>3. Order(s)' BY <2>1
  <2>4. AsStarted(s)' BY <2>1
  <2>5. QED BY <2>2, <2>3, <2>4
<1>17. QED
  BY <1>1, <1>4, <1>5, <1>6, <1>7, <1>8, <1>9, <1>10, <1>11, <1>12, <1>13, <1>14,
     <1>15, <1>16 DEF Owner

LEMMA ThreadKeeps ==
  ASSUME PointwiseInv, NEW s \in Servers, Thread(s), ~ProcessEnds
  PROVE  Apart(s) /\ Order(s)' /\ AsStarted(s)'
<1> USE SetupAssumption
    DEF PointwiseInv, TypeOK, SessionTypeOK, Apart, Order, AsStarted, At, InSession,
        Starting, Threaded, Running, Balancing, IsSocket, Balances,
        descriptors, settings, balancing, serving, history
<1>1. CASE UvListen(s) BY <1>1 DEF UvListen
<1>2. CASE UvListenFails(s) BY <1>2 DEF UvListenFails
<1>3. CASE CallAccept(s) BY <1>3 DEF CallAccept
<1>4. CASE AcceptThrows(s) BY <1>4 DEF AcceptThrows
<1>5. CASE Accept(s) BY <1>5 DEF Accept
<1>6. CASE ClientThreadProc(s) BY <1>6 DEF ClientThreadProc
<1>7. CASE RequestServer(s) BY <1>7 DEF RequestServer
<1>8. CASE SessionEnds(s) BY <1>8 DEF SessionEnds
<1>9. CASE SessionThrows(s) BY <1>9 DEF SessionThrows
<1>10. QED BY <1>1, <1>2, <1>3, <1>4, <1>5, <1>6, <1>7, <1>8, <1>9 DEF Thread

(* An exception ends the process, and with it whatever was under way. *)
LEMMA EndKeeps ==
  ASSUME PointwiseInv, ProcessEnds
  PROVE  \A s \in Servers : Order(s)' /\ AsStarted(s)'
<1> SUFFICES ASSUME NEW s \in Servers PROVE Order(s)' /\ AsStarted(s)'
  OBVIOUS
<1>1. /\ phase'[s] = "gone" /\ listener'[s] = "ended" /\ session'[s] = None
      /\ kind' = kind /\ misused' = misused
  BY DEF ProcessEnds, history
<1>2. ~IsSocket(s) => s \notin misused
  BY DEF PointwiseInv, Order
<1>3. QED
  BY <1>1, <1>2
  DEF Order, AsStarted, Starting, Threaded, Running, IsSocket, Balances

LEMMA PointwiseInit == Init => PointwiseInv
<1> SUFFICES ASSUME Init PROVE PointwiseInv
  OBVIOUS
<1>1. TypeOK /\ SessionTypeOK BY SetupTypeInit
<1>2. \A s \in Servers : Order(s) /\ AsStarted(s)
  BY DEF Init, Order, AsStarted, Starting, Threaded, Running, IsSocket, Balances
<1>3. QED BY <1>1, <1>2 DEF PointwiseInv

LEMMA PointwiseStep == PointwiseInv /\ [Next]_vars => PointwiseInv'
<1> SUFFICES ASSUME PointwiseInv, [Next]_vars PROVE PointwiseInv'
  OBVIOUS
<1>1. ASSUME NEW s \in Servers, Owner(s) PROVE PointwiseInv'
  BY <1>1, OwnerTypes, OwnerKeeps, OthersKeep DEF PointwiseInv
<1>2. ASSUME NEW s \in Servers, Thread(s) PROVE PointwiseInv'
  <2>1. TypeOK' /\ SessionTypeOK' BY <1>2, ThreadTypes
  <2>2. CASE ProcessEnds BY <2>1, <2>2, EndKeeps DEF PointwiseInv
  <2>3. CASE ~ProcessEnds
    BY <1>2, <2>1, <2>3, ThreadKeeps, OthersKeep DEF PointwiseInv
  <2>4. QED BY <2>2, <2>3
<1>3. CASE UNCHANGED vars
  <2>1. TypeOK' /\ SessionTypeOK'
    BY <1>3
    DEF PointwiseInv, TypeOK, SessionTypeOK, vars, descriptors, settings, balancing, serving, history
  <2>2. \A s \in Servers : Order(s)' /\ AsStarted(s)'
    BY <1>3
    DEF PointwiseInv, Order, AsStarted, Starting, Threaded, Running, IsSocket, Balances, Balancing,
        vars, descriptors, settings, balancing, serving, history
  <2>3. QED BY <2>1, <2>2 DEF PointwiseInv
<1>4. QED BY <1>1, <1>2, <1>3 DEF Next

LEMMA PointwiseInvariant == Spec => []PointwiseInv
  BY PointwiseInit, PointwiseStep, PTL DEF Spec

(* The variables of the servers have their types, and only descriptors that *)
(* are open have an address and listen.                                     *)
THEOREM SetupTypeOK == Spec => []TypeOK
<1>1. PointwiseInv => TypeOK BY DEF PointwiseInv
<1>2. QED BY <1>1, PointwiseInvariant, PTL

(* SetPipeline does not change the routine of a server that was started     *)
(* (StartListeningThread copies it), nor what its sessions run.             *)
THEOREM SetupRoutineOfStart == Spec => []RoutineOfStart
<1>1. PointwiseInv => RoutineOfStart
  BY DEF PointwiseInv, AsStarted, RoutineOfStart, At
<1>2. QED BY <1>1, PointwiseInvariant, PTL

(* A session of a proxy finds its load balancer complete, however early the *)
(* client and however late SetConfigValues (Start of CProxySocket).         *)
THEOREM SetupBalancerReady == Spec => []BalancerReady
<1>1. PointwiseInv => BalancerReady
  <2> SUFFICES ASSUME PointwiseInv, NEW s \in Servers \ misused,
                      Balances(s), session[s] # None, ~At(s, "task")
               PROVE  /\ session[s].balancer # 0
                      /\ balancers[s][session[s].balancer] = promised[s].services
    BY DEF BalancerReady
  <2>1. session[s].balancer = loadBalancer[s]
    BY DEF PointwiseInv, AsStarted, At
  <2>2. Threaded(s)
    BY DEF PointwiseInv, Order, Running, Threaded
  <2>3. Balancing(s)
    BY <2>2 DEF PointwiseInv, AsStarted
  <2>4. QED BY <2>1, <2>3, SetupAssumption DEF Balancing
<1>2. QED BY <1>1, PointwiseInvariant, PTL

-------------------------------------------------------------------------------
(* The descriptors of all servers. *)

(* A step after which no number that another server knows means less. *)
LEMMA OwnKept ==
  ASSUME NEW s \in Servers, PointwiseInv, Own, Apart(s), robbed' = robbed, closes' = closes,
         s \notin robbed /\ closes[s] = 0 => OwnSocket(s)',
         \A r \in Servers \ {s} :
           /\ s_'[r] = s_[r]
           /\ Owns(r) => /\ table'[s_[r]] = r
                         /\ s_[r] \in listening => s_[r] \in listening'
  PROVE  Own'
<1>1. ASSUME NEW r \in Servers \ robbed, closes[r] = 0 PROVE OwnSocket(r)'
  <2>1. CASE r = s BY <1>1, <2>1
  <2>2. CASE r # s
    <3>1. r \in Servers \ {s} /\ OwnSocket(r) BY <1>1, <2>2 DEF Own
    <3>2. QED BY <3>1 DEF OwnSocket, Owns, Apart, IsSocket, Starting, Running
  <2>3. QED BY <2>1, <2>2
<1>2. QED BY <1>1, Zenon DEF Own

(* A server that closes its number for the first time closes its own.       *)
LEMMA OwnClosed ==
  ASSUME PointwiseInv, Own, NEW s \in Servers, CloseSocket(s), Apart(s), s_' = s_,
         IsSocket(s), phase[s] \in {"idle", "closed", "bind"},
         closes' = [closes EXCEPT ![s] = @ + 1]
  PROVE  Own'
<1>1. /\ closes[s] \in Nat /\ closes'[s] = closes[s] + 1
      /\ \A r \in Servers \ {s} : closes'[r] = closes[r]
  BY DEF PointwiseInv, TypeOK
<1>2. /\ robbed \subseteq robbed'
      /\ robbed' # robbed => Holds(s) /\ table[s_[s]] # s
      /\ Holds(s) /\ table[s_[s]] # s => table[s_[s]] \in robbed'
  BY DEF CloseSocket
<1>3. ASSUME NEW r \in Servers, r \notin robbed', closes'[r] = 0 PROVE OwnSocket(r)'
  <2>1. r \in Servers \ {s}
    <3>1. closes'[s] # 0 BY <1>1
    <3>2. QED BY <1>3, <3>1
  <2>2. OwnSocket(r)
    <3>1. r \in Servers \ robbed /\ closes[r] = 0 BY <1>1, <1>2, <1>3, <2>1
    <3>2. QED BY <3>1 DEF Own
  <2>3. ASSUME Owns(r)
        PROVE  table'[s_[r]] = r /\ (s_[r] \in listening => s_[r] \in listening')
    <3>1. s_[r] \in Fds /\ table[s_[r]] = r BY <2>3 DEF Owns
    <3>2. r # None BY SetupAssumption
    <3>3. s_[r] # s_[s] BY <1>2, <1>3, <2>1, <3>1, <3>2 DEF Holds
    <3>4. QED BY <3>1, <3>3 DEF CloseSocket, PointwiseInv, TypeOK
  <2>4. QED BY <2>1, <2>2, <2>3 DEF OwnSocket, Owns, Apart, IsSocket, Starting, Running
<1>4. ASSUME robbed' # {} PROVE \E r \in Servers : closes'[r] > 1
  <2>1. CASE robbed # {}
    <3>1. PICK r \in Servers : closes[r] > 1 BY <2>1 DEF Own
    <3>2. closes'[r] > 1 BY <1>1, <3>1
    <3>3. QED BY <3>2
  <2>2. CASE robbed = {}
    <3>1. ~Owns(s) BY <1>2, <1>4, <2>2 DEF Owns
    <3>2. ~OwnSocket(s) BY <3>1 DEF OwnSocket, Starting
    <3>3. closes[s] # 0 BY <2>2, <3>2 DEF Own
    <3>4. closes'[s] > 1 BY <1>1, <3>3
    <3>5. QED BY <3>4
  <2>3. QED BY <2>1, <2>2
<1>5. QED BY <1>3, <1>4, Zenon DEF Own

(* A new descriptor has a number that nobody owns. *)
LEMMA OwnOpened ==
  ASSUME PointwiseInv, NEW f \in Fds, Free(f), NEW s \in Servers,
         table' = [table EXCEPT ![f] = s]
  PROVE  /\ table'[f] = s
         /\ \A r \in Servers : Owns(r) => s_[r] # f /\ table'[s_[r]] = r
  BY SetupAssumption DEF Free, Owns, PointwiseInv, TypeOK

(* Most steps of an owner leave descriptors alone, or add to what they stand *)
(* for.                                                                     *)
LEMMA OwnByOwner ==
  ASSUME PointwiseInv, Own, NEW s \in Servers, Owner(s), Apart(s)
  PROVE  Own'
<1> USE DEF Goto, descriptors, settings, balancing, serving, history
<1>b. /\ s \notin robbed /\ closes[s] = 0 => OwnSocket(s)
      /\ Order(s)
  BY DEF Own, PointwiseInv
<1>1. CASE CreateSocket(s)
  <2>1. PICK f \in Fds : Free(f) /\ table' = [table EXCEPT ![f] = s] BY <1>1 DEF CreateSocket
  <2>2. /\ phase[s] = "unborn" /\ phase'[s] = "base"
        /\ UNCHANGED <<kind, listener, s_, listening, robbed, closes>>
    BY <1>1 DEF CreateSocket, PointwiseInv, TypeOK
  <2>3. OwnSocket(s)' BY <1>b, <2>2 DEF OwnSocket, Order, Starting, Running
  <2>4. QED BY <2>1, <2>2, <2>3, OwnOpened, OwnKept
<1>2. CASE Construct(s)
  <2>1. PICK f \in Fds : Free(f) /\ table' = [table EXCEPT ![f] = s] /\ s_' = [s_ EXCEPT ![s] = f]
    BY <1>2 DEF Construct
  <2>2. /\ phase[s] = "base" /\ phase'[s] = "idle"
        /\ UNCHANGED <<kind, listener, listening, robbed, closes>>
    BY <1>2 DEF Construct, PointwiseInv, TypeOK
  <2>3. s_'[s] = f /\ \A r \in Servers \ {s} : s_'[r] = s_[r]
    BY <2>1 DEF PointwiseInv, TypeOK
  <2>4. Owns(s)'
    <3>1. table'[f] = s BY <2>1, OwnOpened
    <3>2. QED BY <2>3, <3>1, Zenon DEF Owns
  <2>5. OwnSocket(s)' BY <1>b, <2>2, <2>4 DEF OwnSocket, Order, Starting, Running
  <2>6. ASSUME NEW r \in Servers \ {s}, Owns(r)
        PROVE  table'[s_[r]] = r /\ (s_[r] \in listening => s_[r] \in listening')
    BY <2>1, <2>2, <2>6, OwnOpened
  <2>7. QED BY <2>2, <2>3, <2>5, <2>6, OwnKept
<1>3. ASSUME UNCHANGED <<kind, table, listening, s_, robbed, closes, listener>>,
             \/ phase'[s] \in {"gone", phase[s]}
             \/ /\ phase[s] \in {"bind", "listen", "idle"}
                /\ phase'[s] \in {"balance", "bind", "listen", "idle"}
             \/ /\ phase[s] = "balance" /\ phase'[s] \in {"bind", "thread"}
                /\ phase'[s] = "thread" <=> ~IsSocket(s)
             \/ phase[s] = "closed" /\ IsSocket(s)
      PROVE  Own'
  <2>1. s \notin robbed /\ closes[s] = 0 => OwnSocket(s)'
    BY <1>b, <1>3 DEF OwnSocket, Owns, Starting, Running, IsSocket
  <2>2. QED BY <1>3, <2>1, OwnKept DEF Owns
<1>4. CASE SetHandler(s) \/ (\E p \in Pipelines : SetPipeline(s, p))
           \/ (\E c \in SUBSET Services : SetConfigValues(s, c))
  BY <1>3, <1>4 DEF Sets, SetHandler, SetPipeline, SetConfigValues
<1>5. CASE ConstructThrows(s)
  BY <1>3, <1>5 DEF ConstructThrows, PointwiseInv, TypeOK
<1>6. CASE StartOpens(s) \/ StartBalances(s)
  <2>1. UNCHANGED <<kind, descriptors, listener, robbed, closes>>
    BY <1>6 DEF StartOpens, StartBalances, Begins
  <2>2. /\ phase[s] \in {"idle", "closed"} /\ phase'[s] \in {"bind", "balance"}
        /\ phase[s] = "closed" => IsSocket(s)
    BY <1>6, <1>b DEF StartOpens, StartBalances, Begins, Order, PointwiseInv, TypeOK
  <2>3. QED BY <1>3, <2>1, <2>2
<1>7. CASE AddServer(s)
  BY <1>3, <1>7 DEF AddServer
<1>8. CASE Balanced(s)
  BY <1>3, <1>8 DEF Balanced, OpenPlace, PointwiseInv, TypeOK
<1>9. CASE Bind(s) \/ ListenFails(s)
  BY <1>3, <1>9 DEF Bind, ListenFails, PointwiseInv, TypeOK
<1>10. CASE Listen(s)
  <2>1. /\ UNCHANGED <<kind, table, s_, listener, robbed, closes>>
        /\ listening' = listening \cup {s_[s]}
        /\ phase[s] = "listen" /\ phase'[s] = "thread"
    BY <1>10 DEF Listen, PointwiseInv, TypeOK
  <2>2. s \notin robbed /\ closes[s] = 0 => OwnSocket(s)'
    BY <1>b, <2>1 DEF OwnSocket, Owns, Starting, Running, IsSocket
  <2>3. QED BY <2>1, <2>2, OwnKept DEF Owns
<1>11. CASE StartListeningThread(s)
  <2>1. /\ UNCHANGED <<kind, descriptors, robbed, closes>>
        /\ phase[s] = "thread" /\ phase'[s] = "idle"
        /\ \/ listener'[s] = IF IsSocket(s) THEN "call" ELSE "loop_init"
           \/ listener'[s] = listener[s]
    BY <1>11 DEF StartListeningThread, PointwiseInv, TypeOK
  <2>2. s \notin robbed /\ closes[s] = 0 => OwnSocket(s)'
    BY <1>b, <2>1 DEF OwnSocket, Owns, Starting, Running, IsSocket
  <2>3. QED BY <2>1, <2>2, OwnKept DEF Owns
<1>12. CASE BindFails(s)
  <2>1. IsSocket(s) BY <1>12, <1>b DEF BindFails, Order
  <2>2. QED BY <1>12, <2>1, OwnClosed DEF BindFails
<1>13. CASE Destruct(s)
  BY <1>13, OwnClosed DEF Destruct
<1>14. QED
  BY <1>1, <1>2, <1>4, <1>5, <1>6, <1>7, <1>8, <1>9, <1>10, <1>11, <1>12, <1>13 DEF Owner

LEMMA OwnByThread ==
  ASSUME PointwiseInv, Own, NEW s \in Servers, Thread(s), ~ProcessEnds, Apart(s)
  PROVE  Own'
<1>0. UNCHANGED <<kind, phase, robbed, closes>>
  BY DEF Thread, UvListen, UvListenFails, CallAccept, AcceptThrows, Accept, ClientThreadProc,
     RequestServer, SessionEnds, SessionThrows, InSession, history
<1>b. /\ s \notin robbed /\ closes[s] = 0 => OwnSocket(s)
      /\ Order(s)
  BY DEF Own, PointwiseInv
<1> USE DEF descriptors, settings, balancing, serving, history
<1>1. ASSUME UNCHANGED descriptors, Running(s) \/ UNCHANGED listener PROVE Own'
  <2>1. s \notin robbed /\ closes[s] = 0 => OwnSocket(s)'
    BY <1>0, <1>b, <1>1 DEF OwnSocket, Owns, Starting, Running, IsSocket
  <2>2. QED BY <1>0, <1>1, <2>1, OwnKept DEF Owns
<1>2. CASE UvListen(s)
  <2>1. PICK f \in Fds : /\ Free(f) /\ table' = [table EXCEPT ![f] = s]
                         /\ s_' = [s_ EXCEPT ![s] = f] /\ listening' = listening \cup {f}
    BY <1>2 DEF UvListen
  <2>2. s_'[s] = f /\ \A r \in Servers \ {s} : s_'[r] = s_[r]
    BY <2>1 DEF PointwiseInv, TypeOK
  <2>3. table'[f] = s /\ f \in listening' BY <2>1, OwnOpened
  <2>4. OwnSocket(s)'
    <3>1. ~IsSocket(s)' BY <1>0, <1>2, <1>b DEF UvListen, Order, IsSocket
    <3>2. QED BY <2>2, <2>3, <3>1 DEF OwnSocket, Owns
  <2>5. ASSUME NEW r \in Servers \ {s}, Owns(r)
        PROVE  table'[s_[r]] = r /\ (s_[r] \in listening => s_[r] \in listening')
    BY <2>1, <2>5, OwnOpened
  <2>6. QED BY <1>0, <2>2, <2>4, <2>5, OwnKept
<1>3. CASE UvListenFails(s)
  <2>1. /\ listener[s] = "loop_init" /\ listener'[s] = "ended" /\ UNCHANGED <<listening, s_>>
        /\ \/ UNCHANGED table
           \/ \E f \in Fds : Free(f) /\ table' = [table EXCEPT ![f] = s]
    BY <1>3 DEF UvListenFails, PointwiseInv, TypeOK
  <2>2. \A r \in Servers : Owns(r) => table'[s_[r]] = r
    <3>1. CASE UNCHANGED table BY <3>1 DEF Owns
    <3>2. ASSUME NEW f \in Fds, Free(f), table' = [table EXCEPT ![f] = s]
          PROVE  \A r \in Servers : Owns(r) => table'[s_[r]] = r
      BY <3>2, OwnOpened
    <3>3. QED BY <2>1, <3>1, <3>2
  <2>3. OwnSocket(s)'
    BY <1>0, <1>b, <2>1 DEF OwnSocket, Order, Running, IsSocket
  <2>4. QED BY <1>0, <2>1, <2>2, <2>3, OwnKept
<1>4. CASE CallAccept(s)
  <2>1. UNCHANGED descriptors /\ listener[s] = "call"
    BY <1>4 DEF CallAccept
  <2>2. QED BY <1>1, <2>1 DEF Running
<1>5. CASE Accept(s)
  <2>1. UNCHANGED descriptors /\ listener[s] \in {"wait", "loop"}
    BY <1>5 DEF Accept
  <2>2. QED BY <1>1, <2>1 DEF Running
<1>6. CASE InSession
  BY <1>1, <1>6 DEF InSession
<1>7. AcceptThrows(s) => FALSE
  BY DEF AcceptThrows
<1>8. QED
  BY <1>2, <1>3, <1>4, <1>5, <1>6, <1>7
  DEF Thread, ClientThreadProc, RequestServer, SessionEnds, SessionThrows

(* Nothing runs on when the process ends. *)
LEMMA OwnAtEnd == Own /\ ProcessEnds => Own'
<1> SUFFICES ASSUME Own, ProcessEnds PROVE Own'
  OBVIOUS
<1>1. /\ robbed' = robbed /\ closes' = closes
      /\ \A s \in Servers : phase'[s] = "gone" /\ listener'[s] = "ended"
  BY DEF ProcessEnds, history
<1>2. \A s \in Servers : OwnSocket(s)'
  BY <1>1 DEF OwnSocket, Starting, Running
<1>3. QED BY <1>1, <1>2 DEF Own

LEMMA OwnStep == PointwiseInv /\ Own /\ [Next]_vars => Own'
<1> SUFFICES ASSUME PointwiseInv, Own, [Next]_vars PROVE Own'
  OBVIOUS
<1>1. ASSUME NEW s \in Servers, Owner(s) PROVE Own'
  BY <1>1, OwnerKeeps, OwnByOwner
<1>2. ASSUME NEW s \in Servers, Thread(s) PROVE Own'
  <2>1. CASE ProcessEnds BY <2>1, OwnAtEnd
  <2>2. CASE ~ProcessEnds BY <1>2, <2>2, ThreadKeeps, OwnByThread
  <2>3. QED BY <2>1, <2>2
<1>3. CASE UNCHANGED vars
  BY <1>3
  DEF Own, OwnSocket, Owns, Starting, Running, IsSocket, vars, descriptors, serving, history
<1>4. QED BY <1>1, <1>2, <1>3 DEF Next

(* A server that has not closed its number accepts on a listening socket of *)
(* its own unless another server closed it, and none closes another's       *)
(* before one closes its number again (CServerSocket.cpp, Socket.cpp).      *)
THEOREM SetupAcceptsOnItsOwn == Spec => []AcceptsOnItsOwn
<1>1. Init => Own
  BY DEF Init, Own, OwnSocket, IsSocket, Starting, Running
<1>2. Own => AcceptsOnItsOwn
  BY DEF Own, OwnSocket, Owns, AcceptsOnItsOwn
<1>3. QED BY <1>1, <1>2, OwnStep, PointwiseInvariant, PTL DEF Spec
===============================================================================
