-------------------------- MODULE SecureSocketsProofs --------------------------
(***************************************************************************)
(* Proofs about SecureSockets for any number of sockets, threads, hosts    *)
(* and copies of sockets.                                                  *)
(*                                                                         *)
(* What the pointers ctx and ssl of a socket stand for follows from where  *)
(* its life is, and so does whether freeing them is sound (KeysFit).  A    *)
(* step of one socket reaches the others through the static hostent, and   *)
(* then overtakes those that are about to use it (Talks), and through the  *)
(* descriptor and the counter they may share: the counter is the number of *)
(* sockets that share it, unless it lost an update (Held).                 *)
(***************************************************************************)
EXTENDS SecureSockets, FiniteSetTheorems, TLAPS

Handshaking == {"configure", "accept", "resolve", "connect", "shake"}

(* ctx and ssl are what they should be at each place. *)
KeysFit(s) ==
  /\ pc[s] \in {"unborn", "context", "copy"} => ctx[s] = "unset" /\ ssl[s] = "unset"
  /\ pc[s] \in Handshaking => ctx[s] = "live" /\ ssl[s] = "unset"
  /\ pc[s] = "ready" =>
       \/ kind[s] = "copy" /\ ctx[s] = "unset" /\ ssl[s] = "unset"
       \/ kind[s] = "bare" /\ ssl[s] = "unset"
       \/ kind[s] \notin {"copy", "bare"} /\ ctx[s] = "live" /\ ssl[s] = "live"
       \/ ctx[s] = "freed" /\ ssl[s] = "freed" /\ "closed" \in past[s]
  /\ pc[s] = "release" => ctx[s] # "live" /\ ssl[s] # "live"
  /\ pc[s] = "gone" /\ alive =>
       ssl[s] # "live" /\ (ctx[s] = "live" => kind[s] = "server" /\ ssl[s] = "unset")

(* The kind of a socket, and what has happened to it. *)
KindFits(s) ==
  /\ pc[s] = "accept" => kind[s] = "server"
  /\ pc[s] \in {"resolve", "connect"} => kind[s] = "client"
  /\ pc[s] = "shake" => kind[s] \in {"client", "existing"}
  /\ pc[s] \notin {"ready", "release", "gone"} => past[s] = {} /\ s \notin misuse
  /\ pc[s] \notin {"copy", "ready", "release", "gone"} => kind[s] # "copy"
  /\ pc[s] = "copy" => kind[s] = "copy"
  /\ pc[s] = "ready" /\ kind[s] \notin {"copy", "bare"} => "ready" \in past[s]
  /\ kind[s] # "copy" => handle[s] = s
  /\ s \in misuse => \/ "closed" \in past[s]
                     \/ kind[s] \in {"client", "existing"} /\ "ready" \notin past[s]
                     \/ kind[s] \in {"bare", "copy"}

(* A client finds its own host, unless it is overtaken. *)
Talks(s) ==
  kind[s] = "client" =>
    /\ pc[s] = "connect" => hostent = m_ServerName[s] \/ s \in overtaken
    /\ pc[s] = "shake" => peer[s] = m_ServerName[s] \/ s \in overtaken
    /\ pc[s] = "ready" => peer[s] = m_ServerName[s] \/ s \in overtaken \ verify

Life(s) == KeysFit(s) /\ KindFits(s) /\ Talks(s)

(* A counter that lost no update counts those who share it. *)
Counted(h) ==
  h \notin lost =>
    /\ refCounter[h] = Cardinality(Users(h))
    /\ h \in fd <=> Users(h) # {}

(* Only sockets that are complete are shared. *)
Shared(s) ==
  /\ handle[s] # s => pc[handle[s]] \in {"ready", "release", "gone"}
  /\ pc[s] = "copy" => handle[s] # s /\ (handle[s] \notin lost => loaded[s] > 0)

Held == alive => \A s \in Sockets : Counted(s) /\ Shared(s)

SecureInv == TypeOK /\ (\A s \in Sockets : Life(s)) /\ Held

-------------------------------------------------------------------------------
(* What a step of socket s leaves alone in the others. *)
Apart(s) ==
  /\ alive
  /\ overtaken \subseteq overtaken'
  /\ \A r \in Sockets \ {s} :
       /\ pc'[r] = pc[r] /\ kind'[r] = kind[r] /\ handle'[r] = handle[r]
       /\ peer'[r] = peer[r] /\ m_ServerName'[r] = m_ServerName[r]
       /\ ctx'[r] = ctx[r] /\ ssl'[r] = ssl[r] /\ past'[r] = past[r]
       /\ (r \in misuse' <=> r \in misuse) /\ (r \in verify' <=> r \in verify)
       /\ pc[r] = "connect" => hostent' = hostent \/ r \in overtaken'

LEMMA OthersLive ==
  ASSUME NEW s \in Sockets, SecureInv, Apart(s), Life(s)'
  PROVE  \A r \in Sockets : Life(r)'
<1> SUFFICES ASSUME NEW r \in Sockets, r # s PROVE Life(r)'
  OBVIOUS
<1>1. Life(r) BY DEF SecureInv
<1>2. alive /\ r \in Sockets \ {s} BY DEF Apart
<1>3. KeysFit(r)' BY <1>1, <1>2 DEF Life, KeysFit, Apart
<1>4. KindFits(r)' BY <1>1, <1>2 DEF Life, KindFits, Apart
<1>5. Talks(r)' BY <1>1, <1>2 DEF Life, Talks, Apart
<1>6. QED BY <1>3, <1>4, <1>5 DEF Life
-------------------------------------------------------------------------------
(* Types: those of the pointers and of who misused them, and the others. *)

PointersOK ==
  /\ ctx \in [Sockets -> Pointers] /\ ssl \in [Sockets -> Pointers]
  /\ misuse \subseteq Sockets /\ twice \subseteq misuse /\ alive \in BOOLEAN
  /\ \A s \in Sockets : ssl[s] = "live" => ctx[s] = "live"

Kinds == {"server", "bare", "client", "existing", "copy"}

ObjectOK ==
  /\ pc \in [Sockets -> Places]
  /\ kind \in [Sockets -> Kinds]
  /\ m_ServerName \in [Sockets -> Hosts \cup {Nowhere}]
  /\ peer \in [Sockets -> Hosts \cup {Nowhere}]
  /\ verify \subseteq Sockets
  /\ handle \in [Sockets -> Sockets]
  /\ hostent \in Hosts \cup {Nowhere}
  /\ overtaken \subseteq Sockets
  /\ past \in [Sockets -> SUBSET {"ready", "closed"}]

CountingOK ==
  /\ fd \subseteq Sockets /\ lost \subseteq Sockets
  /\ refCounter \in [Sockets -> Int] /\ loaded \in [Sockets -> Int]

LEMMA TypeParts == TypeOK <=> PointersOK /\ ObjectOK /\ CountingOK
  BY DEF TypeOK, PointersOK, ObjectOK, CountingOK, Kinds

Step(s) ==
  \/ Construct(s)
  \/ create_context(s) \/ create_context_throws(s)
  \/ Server(s) \/ Client(s)
  \/ ReceiveEnd(s) \/ Close(s) \/ Destruct(s) \/ Release(s)
  \/ Copied(s) \/ \E o \in Sockets : Copy(s, o)

(* What is given to OpenSSL is recorded, and the process may end. *)
LEMMA HandIs ==
  ASSUME PointersOK, NEW s \in Sockets, NEW sound \in BOOLEAN, NEW freed \in BOOLEAN,
         freed => ~sound, Hand(s, sound, freed)
  PROVE  /\ misuse' \subseteq Sockets /\ twice' \subseteq misuse' /\ alive' \in BOOLEAN
         /\ \A r \in Sockets \ {s} : r \in misuse' <=> r \in misuse
         /\ sound => misuse' = misuse /\ alive' = alive
  BY DEF PointersOK, Hand

(* handle_error() leaves no pointer of its socket alive, nor touches others. *)
LEMMA HandleErrorIs ==
  ASSUME PointersOK, NEW s \in Sockets, handle_error(s)
  PROVE  /\ PointersOK'
         /\ ctx'[s] = Freed(ctx[s]) /\ ssl'[s] = Freed(ssl[s])
         /\ \A r \in Sockets \ {s} : /\ ctx'[r] = ctx[r] /\ ssl'[r] = ssl[r]
                                     /\ r \in misuse' <=> r \in misuse
         /\ ssl[s] = "live" => misuse' = misuse /\ alive' = alive
<1>1. PICK sound \in BOOLEAN, freed \in BOOLEAN :
        /\ sound <=> ssl[s] = "live" /\ ctx[s] = "live"
        /\ freed <=> ssl[s] = "freed" \/ ctx[s] = "freed"
        /\ Hand(s, sound, freed)
  <2>1. Hand(s, ssl[s] = "live" /\ ctx[s] = "live", ssl[s] = "freed" \/ ctx[s] = "freed")
    BY DEF handle_error
  <2>2. QED BY <2>1
<1>2. /\ ctx \in [Sockets -> Pointers] /\ ssl \in [Sockets -> Pointers]
      /\ ctx' = [ctx EXCEPT ![s] = Freed(ctx[s])] /\ ssl' = [ssl EXCEPT ![s] = Freed(ssl[s])]
  BY DEF PointersOK, handle_error
<1>3. /\ Freed(ctx[s]) \in Pointers \ {"live"} /\ Freed(ssl[s]) \in Pointers \ {"live"}
  BY <1>2 DEF Freed, Pointers
<1>4. /\ ctx' \in [Sockets -> Pointers] /\ ssl' \in [Sockets -> Pointers]
      /\ ctx'[s] = Freed(ctx[s]) /\ ssl'[s] = Freed(ssl[s])
      /\ \A r \in Sockets \ {s} : ctx'[r] = ctx[r] /\ ssl'[r] = ssl[r]
  BY <1>2, <1>3
<1>5. \A r \in Sockets : ssl'[r] = "live" => ctx'[r] = "live"
  BY <1>3, <1>4 DEF PointersOK
<1>6. ssl[s] = "live" => ctx[s] = "live" BY DEF PointersOK
<1>7. /\ misuse' \subseteq Sockets /\ twice' \subseteq misuse' /\ alive' \in BOOLEAN
      /\ \A r \in Sockets \ {s} : r \in misuse' <=> r \in misuse
      /\ sound => misuse' = misuse /\ alive' = alive
  <2>1. freed => ~sound BY <1>1
  <2>2. QED BY <1>1, <2>1, HandIs
<1>8. PointersOK' BY <1>4, <1>5, <1>7 DEF PointersOK
<1>9. QED BY <1>1, <1>4, <1>6, <1>7, <1>8

LEMMA PointerTypes ==
  ASSUME PointersOK, NEW s \in Sockets, KeysFit(s), Step(s)
  PROVE  PointersOK'
<1>1. CASE UNCHANGED <<ctx, ssl>> /\ misuse' \subseteq Sockets /\ twice' \subseteq misuse'
           /\ alive' \in BOOLEAN
  BY <1>1 DEF PointersOK
<1>2. CASE \/ Construct(s) \/ create_context_throws(s) \/ configure_server_context(s)
           \/ configure_server_context_throws(s) \/ configure_server_context_exits(s)
           \/ configure_client_context(s) \/ InitOther(s) \/ Resolve(s) \/ NoHostPointer(s)
           \/ TcpConnect(s) \/ Copied(s) \/ Release(s) \/ \E o \in Sockets : Copy(s, o)
  <2>1. UNCHANGED <<ctx, ssl, misuse, twice>> /\ (alive' = alive \/ alive' \in BOOLEAN)
    BY <1>2
    DEF Construct, create_context_throws, configure_server_context,
        configure_server_context_throws, configure_server_context_exits,
        configure_client_context, InitOther, Resolve, NoHostPointer, TcpConnect, Copied,
        Release, Copy, keys
  <2>2. QED BY <1>1, <2>1 DEF PointersOK
<1>3. CASE ReceiveEnd(s)
  <2>1. UNCHANGED <<ctx, ssl>> BY <1>3 DEF ReceiveEnd
  <2>2. PICK sound \in BOOLEAN, freed \in BOOLEAN :
          (freed => ~sound) /\ Hand(s, sound, freed)
    <3>1. Hand(s, ssl[s] = "live", ssl[s] = "freed") BY <1>3 DEF ReceiveEnd
    <3>2. QED BY <3>1
  <2>3. QED BY <1>1, <2>1, <2>2, HandIs
<1>4. CASE create_context(s)
  <2>1. ctx' = [ctx EXCEPT ![s] = "live"] /\ UNCHANGED <<ssl, misuse, twice, alive>>
    BY <1>4 DEF create_context
  <2>2. QED BY <2>1 DEF PointersOK, Pointers
<1>5. CASE SSLAccept(s) \/ SSLConnect(s)
  <2>1. /\ ssl' = [ssl EXCEPT ![s] = "live"] /\ UNCHANGED <<ctx, misuse, twice, alive>>
        /\ pc[s] \in Handshaking
    BY <1>5 DEF SSLAccept, SSLConnect, Move, Handshaking
  <2>2. ctx[s] = "live" BY <2>1 DEF KeysFit
  <2>3. QED BY <2>1, <2>2 DEF PointersOK, Pointers
<1>6. CASE SSLAcceptThrows(s) \/ SSLConnectThrows(s)
  <2>1. ssl' = [ssl EXCEPT ![s] = "freed"] /\ ctx' = [ctx EXCEPT ![s] = "freed"]
    BY <1>6 DEF SSLAcceptThrows, SSLConnectThrows
  <2>2. misuse' \subseteq Sockets /\ twice' \subseteq misuse' /\ alive' \in BOOLEAN
    <3>1. CASE SSLAcceptThrows(s) BY <3>1 DEF SSLAcceptThrows, PointersOK
    <3>2. CASE SSLConnectThrows(s) BY <3>2, HandIs DEF SSLConnectThrows
    <3>3. QED BY <1>6, <3>1, <3>2
  <2>3. QED BY <2>1, <2>2 DEF PointersOK, Pointers
<1>7. CASE handle_error(s) BY <1>7, HandleErrorIs
<1>8. CASE \/ configure_client_context_throws(s) \/ ResolveThrows(s) \/ TcpConnectThrows(s)
           \/ Close(s) \/ Destruct(s)
  BY <1>7, <1>8
  DEF configure_client_context_throws, ResolveThrows, TcpConnectThrows, Close, Destruct
<1>9. QED BY <1>2, <1>3, <1>4, <1>5, <1>6, <1>8 DEF Step, Server, Client

LEMMA ObjectTypes ==
  ASSUME ObjectOK, NEW s \in Sockets, Step(s)
  PROVE  ObjectOK'
<1>1. ASSUME NEW to \in Places, pc' = [pc EXCEPT ![s] = to], UNCHANGED <<object, names>>,
             past' = past \/ \E event \in {"ready", "closed"} : Remember(s, event)
      PROVE  ObjectOK'
  <2>1. past' \in [Sockets -> SUBSET {"ready", "closed"}]
    BY <1>1 DEF Remember, ObjectOK
  <2>2. QED BY <1>1, <2>1 DEF ObjectOK, object, names
<1> USE DEF Move, Places
<1>2. CASE \/ create_context_throws(s) \/ configure_server_context_throws(s)
           \/ configure_client_context_throws(s) \/ SSLAcceptThrows(s) \/ ResolveThrows(s)
           \/ TcpConnectThrows(s) \/ SSLConnectThrows(s) \/ configure_server_context_exits(s)
           \/ NoHostPointer(s) \/ Release(s)
  <2>1. pc' = [pc EXCEPT ![s] = "gone"] /\ UNCHANGED <<object, names, past>>
    BY <1>2
    DEF create_context_throws, configure_server_context_throws,
        configure_client_context_throws, SSLAcceptThrows, ResolveThrows, TcpConnectThrows,
        SSLConnectThrows, configure_server_context_exits, NoHostPointer, Release, DestructSocket
  <2>2. QED BY <1>1, <2>1
<1>3. CASE \/ create_context(s) \/ configure_server_context(s) \/ InitOther(s) \/ ReceiveEnd(s)
           \/ Copied(s) \/ Destruct(s)
  <2>1. PICK to \in {"configure", "accept", "ready", "release"} : pc' = [pc EXCEPT ![s] = to]
    BY <1>3 DEF create_context, configure_server_context, InitOther, ReceiveEnd, Copied, Destruct
  <2>2. UNCHANGED <<object, names, past>>
    BY <1>3 DEF create_context, configure_server_context, InitOther, ReceiveEnd, Copied, Destruct
  <2>3. QED BY <1>1, <2>1, <2>2
<1>4. CASE SSLAccept(s) \/ SSLConnect(s) \/ Close(s)
  <2>1. pc' = [pc EXCEPT ![s] = "ready"] /\ UNCHANGED <<object, names>>
    BY <1>4 DEF SSLAccept, SSLConnect, Close
  <2>2. \E event \in {"ready", "closed"} : Remember(s, event)
    BY <1>4 DEF SSLAccept, SSLConnect, Close
  <2>3. QED BY <1>1, <2>1, <2>2
<1>5. CASE Construct(s) BY <1>5 DEF Construct, ObjectOK, Kinds, names
<1>6. CASE configure_client_context(s)
  <2>1. PICK to \in Places : pc' = [pc EXCEPT ![s] = to]
    BY <1>6 DEF configure_client_context
  <2>2. QED BY <1>6, <2>1 DEF configure_client_context, ObjectOK, names
<1>7. CASE Resolve(s) BY <1>7 DEF Resolve, ObjectOK, object, Waiting
<1>8. CASE TcpConnect(s)
  <2>1. PICK host \in Hosts \cup {Nowhere} : peer' = [peer EXCEPT ![s] = host]
    BY <1>8 DEF TcpConnect, ObjectOK
  <2>2. QED BY <1>8, <2>1 DEF TcpConnect, ObjectOK, names
<1>9. ASSUME NEW o \in Sockets, Copy(s, o) PROVE ObjectOK'
  BY <1>9 DEF Copy, ObjectOK, Kinds, names
<1>10. QED BY <1>2, <1>3, <1>4, <1>5, <1>6, <1>7, <1>8, <1>9 DEF Step, Server, Client

(* What the helpers of counting and closing do. *)
LEMMA LoadIs ==
  ASSUME CountingOK, NEW s \in Sockets, NEW h \in Sockets, Load(s, h)
  PROVE  /\ loaded' \in [Sockets -> Int]
         /\ refCounter[h] # 0 => loaded'[s] = refCounter[h]
         /\ \A r \in Sockets \ {s} : loaded'[r] = loaded[r]
<1>1. PICK n \in IF refCounter[h] = 0 THEN 0..Cardinality(Sockets) ELSE {refCounter[h]} :
        loaded' = [loaded EXCEPT ![s] = n]
  BY DEF Load
<1>2. n \in Int BY <1>1, SecureAssumption, FS_CardinalityType DEF CountingOK
<1>3. QED BY <1>1, <1>2 DEF CountingOK

LEMMA StoreIs ==
  ASSUME CountingOK, NEW h \in Sockets, NEW n \in Int, Store(h, n)
  PROVE  /\ refCounter' \in [Sockets -> Int]
         /\ refCounter[h] # 0 => refCounter'[h] = n
         /\ \A g \in Sockets \ {h} : refCounter'[g] = refCounter[g]
  BY DEF CountingOK, Store

LEMMA CloseIs ==
  ASSUME CountingOK, NEW h \in Sockets, NEW blamed \in SUBSET Sockets, CloseSocket(h, blamed)
  PROVE  /\ fd' \subseteq Sockets /\ lost' \subseteq Sockets
         /\ lost \cup blamed \subseteq lost'
         /\ h \in fd => h \notin fd'
         /\ \A g \in Sockets \ lost' : g # h => (g \in fd' <=> g \in fd)
         /\ h \in lost' => h \in lost \cup blamed
<1>1. PICK hit \in IF h \in fd THEN {{h}} ELSE {{}} \cup {{g} : g \in fd} :
        fd' = fd \ hit /\ lost' = lost \cup blamed \cup (hit \ {h})
  BY DEF CloseSocket
<1>2. hit \subseteq Sockets /\ (h \in fd => hit = {h}) BY <1>1 DEF CountingOK
<1>3. QED BY <1>1, <1>2 DEF CountingOK

LEMMA LostUpdateIs ==
  ASSUME ObjectOK, NEW s \in Sockets
  PROVE  /\ LostUpdate(s) \subseteq Sockets
         /\ handle[s] \in LostUpdate(s) <=> refCounter[handle[s]] # loaded[s]
         /\ \A h \in LostUpdate(s) : h = handle[s]
  BY DEF LostUpdate, ObjectOK

LEMMA ReleaseIs ==
  ASSUME CountingOK, ObjectOK, NEW s \in Sockets, Release(s)
  PROVE  /\ CountingOK'
         /\ loaded[s] = 1 => CloseSocket(handle[s], LostUpdate(s))
         /\ loaded[s] # 1 => fd' = fd /\ lost' = lost \cup LostUpdate(s)
         /\ lost \cup LostUpdate(s) \subseteq lost'
         /\ \A g \in Sockets \ {handle[s]} : refCounter'[g] = refCounter[g]
         /\ refCounter[handle[s]] # 0 => refCounter'[handle[s]] = loaded[s] - 1
<1>1. handle[s] \in Sockets /\ loaded[s] - 1 \in Int BY DEF CountingOK, ObjectOK
<1>2. /\ Store(handle[s], loaded[s] - 1) /\ loaded' = loaded
      /\ loaded[s] = 1 => CloseSocket(handle[s], LostUpdate(s))
      /\ loaded[s] # 1 => fd' = fd /\ lost' = lost \cup LostUpdate(s)
  BY DEF Release
<1>3. refCounter' \in [Sockets -> Int] BY <1>1, <1>2, StoreIs
<1>4. fd' \subseteq Sockets /\ lost' \subseteq Sockets /\ lost \cup LostUpdate(s) \subseteq lost'
  BY <1>1, <1>2, LostUpdateIs, CloseIs DEF CountingOK
<1>5. /\ \A g \in Sockets \ {handle[s]} : refCounter'[g] = refCounter[g]
      /\ refCounter[handle[s]] # 0 => refCounter'[handle[s]] = loaded[s] - 1
  BY <1>1, <1>2, StoreIs
<1>6. CountingOK' BY <1>2, <1>3, <1>4 DEF CountingOK
<1>7. QED BY <1>2, <1>4, <1>5, <1>6

LEMMA CountingTypes ==
  ASSUME CountingOK, ObjectOK, NEW s \in Sockets, Step(s)
  PROVE  CountingOK'
<1>1. CASE UNCHANGED counting BY <1>1 DEF counting, CountingOK
<1>2. CASE DestructSocket(s)
  <2>1. CloseSocket(s, {}) /\ refCounter' = [refCounter EXCEPT ![s] = 0] /\ loaded' = loaded
    BY <1>2 DEF DestructSocket
  <2>2. fd' \subseteq Sockets /\ lost' \subseteq Sockets BY <2>1, CloseIs
  <2>3. QED BY <2>1, <2>2 DEF CountingOK
<1>3. CASE \/ create_context_throws(s) \/ configure_server_context_throws(s)
           \/ configure_client_context_throws(s) \/ SSLAcceptThrows(s) \/ ResolveThrows(s)
           \/ TcpConnectThrows(s) \/ SSLConnectThrows(s)
  BY <1>2, <1>3
  DEF create_context_throws, configure_server_context_throws, configure_client_context_throws,
      SSLAcceptThrows, ResolveThrows, TcpConnectThrows, SSLConnectThrows
<1>4. CASE \/ create_context(s) \/ configure_server_context(s)
           \/ configure_server_context_exits(s) \/ configure_client_context(s) \/ InitOther(s)
           \/ SSLAccept(s) \/ Resolve(s) \/ NoHostPointer(s) \/ TcpConnect(s) \/ SSLConnect(s)
           \/ ReceiveEnd(s) \/ Close(s)
  BY <1>1, <1>4
  DEF create_context, configure_server_context, configure_server_context_exits,
      configure_client_context, InitOther, SSLAccept, Resolve, NoHostPointer, TcpConnect,
      SSLConnect, ReceiveEnd, Close
<1>5. CASE Construct(s)
  BY <1>5 DEF Construct, CountingOK
<1>6. ASSUME NEW h \in Sockets, Load(s, h), UNCHANGED <<fd, refCounter, lost>>
      PROVE  CountingOK'
  <2>1. loaded' \in [Sockets -> Int] BY <1>6, LoadIs
  <2>2. QED BY <1>6, <2>1 DEF CountingOK
<1>7. CASE Destruct(s)
  BY <1>6, <1>7 DEF Destruct, ObjectOK
<1>8. ASSUME NEW o \in Sockets, Copy(s, o) PROVE CountingOK'
  BY <1>6, <1>8 DEF Copy, ObjectOK
<1>9. CASE Copied(s)
  <2>1. handle[s] \in Sockets /\ loaded[s] + 1 \in Int BY DEF CountingOK, ObjectOK
  <2>2. refCounter' \in [Sockets -> Int] BY <1>9, <2>1, StoreIs DEF Copied
  <2>3. QED BY <1>9, <2>2, LostUpdateIs DEF Copied, CountingOK
<1>10. CASE Release(s) BY <1>10, ReleaseIs
<1>11. QED BY <1>3, <1>4, <1>5, <1>7, <1>8, <1>9, <1>10 DEF Step, Server, Client

LEMMA SecureTypes ==
  ASSUME SecureInv, NEW s \in Sockets, Step(s)
  PROVE  TypeOK'
<1>1. PointersOK /\ ObjectOK /\ CountingOK /\ KeysFit(s) BY TypeParts DEF SecureInv, Life
<1>2. PointersOK' BY <1>1, PointerTypes
<1>3. ObjectOK' BY <1>1, ObjectTypes
<1>4. CountingOK' BY <1>1, CountingTypes
<1>5. QED BY <1>2, <1>3, <1>4 DEF TypeOK, PointersOK, ObjectOK, CountingOK, Kinds
-------------------------------------------------------------------------------
(* The steps of a socket, up to its handshake. *)

LEMMA LifeConstruct ==
  ASSUME NEW s \in Sockets, SecureInv,
         Construct(s) \/ create_context(s) \/ create_context_throws(s)
  PROVE  Apart(s) /\ Life(s)'
<1> USE DEF SecureInv, TypeOK, Handshaking, Apart, Life, KeysFit, KindFits, Talks, Move,
            object, keys, names
<1>1. CASE Construct(s)
  <2> USE <1>1 DEF Construct
  <2>1. Apart(s) OBVIOUS
  <2>2. KeysFit(s)' OBVIOUS
  <2>3. KindFits(s)' OBVIOUS
  <2>4. Talks(s)' OBVIOUS
  <2>5. QED BY <2>1, <2>2, <2>3, <2>4
<1>2. CASE create_context(s) BY <1>2 DEF create_context
<1>3. CASE create_context_throws(s) BY <1>3 DEF create_context_throws, DestructSocket
<1>4. QED BY <1>1, <1>2, <1>3

LEMMA LifeServer ==
  ASSUME NEW s \in Sockets, SecureInv, Server(s)
  PROVE  Apart(s) /\ Life(s)'
<1> USE DEF SecureInv, TypeOK, Handshaking, Apart, Life, KeysFit, KindFits, Talks, Move,
            Remember, object, keys, names
<1>1. CASE configure_server_context(s) BY <1>1 DEF configure_server_context
<1>2. CASE configure_server_context_throws(s)
  BY <1>2 DEF configure_server_context_throws, DestructSocket
<1>3. CASE configure_server_context_exits(s) BY <1>3 DEF configure_server_context_exits
<1>4. CASE SSLAccept(s)
  <2> USE <1>4 DEF SSLAccept
  <2>1. Apart(s) OBVIOUS
  <2>2. KeysFit(s)' OBVIOUS
  <2>3. KindFits(s)' OBVIOUS
  <2>4. Talks(s)' OBVIOUS
  <2>5. QED BY <2>1, <2>2, <2>3, <2>4
<1>5. CASE SSLAcceptThrows(s)
  <2> USE <1>5 DEF SSLAcceptThrows, DestructSocket
  <2>1. Apart(s) OBVIOUS
  <2>2. KeysFit(s)' OBVIOUS
  <2>3. KindFits(s)' OBVIOUS
  <2>4. Talks(s)' OBVIOUS
  <2>5. QED BY <2>1, <2>2, <2>3, <2>4
<1>6. QED BY <1>1, <1>2, <1>3, <1>4, <1>5 DEF Server

(* A constructor that throws before there is an ssl has ctx freed. *)
LEMMA ClientGone ==
  ASSUME NEW s \in Sockets, SecureInv, alive, kind[s] \in {"client", "existing", "bare"},
         pc[s] \in {"configure", "resolve", "connect"},
         pc' = [pc EXCEPT ![s] = "gone"], handle_error(s), DestructSocket(s),
         UNCHANGED <<names, past>>
  PROVE  Apart(s) /\ Life(s)'
<1>1. /\ pc \in [Sockets -> Places] /\ PointersOK /\ KeysFit(s) /\ KindFits(s)
  BY TypeParts DEF SecureInv, Life, TypeOK
<1>2. pc'[s] = "gone" /\ \A r \in Sockets \ {s} : pc'[r] = pc[r] BY <1>1
<1>3. /\ ctx'[s] = Freed(ctx[s]) /\ ssl'[s] = Freed(ssl[s])
      /\ \A r \in Sockets \ {s} : /\ ctx'[r] = ctx[r] /\ ssl'[r] = ssl[r]
                                  /\ r \in misuse' <=> r \in misuse
  BY <1>1, HandleErrorIs
<1>4. UNCHANGED <<kind, m_ServerName, peer, verify, handle, hostent, overtaken, past>>
  BY DEF DestructSocket, object, names
<1>5. ctx[s] = "live" /\ ssl[s] = "unset" BY <1>1 DEF KeysFit, Handshaking
<1>6. ctx'[s] = "freed" /\ ssl'[s] = "unset" BY <1>3, <1>5 DEF Freed
<1>7. past[s] = {} /\ handle[s] = s BY <1>1 DEF KindFits
<1>8. Apart(s) BY <1>2, <1>3, <1>4 DEF Apart
<1>9. KeysFit(s)' BY <1>2, <1>6 DEF KeysFit, Handshaking
<1>10. KindFits(s)' BY <1>2, <1>4, <1>7 DEF KindFits
<1>11. Talks(s)' BY <1>2 DEF Talks
<1>12. QED BY <1>8, <1>9, <1>10, <1>11 DEF Life

LEMMA LifeClient ==
  ASSUME NEW s \in Sockets, SecureInv, Client(s)
  PROVE  Apart(s) /\ Life(s)'
<1>a. KindFits(s) BY DEF SecureInv, Life
<1>1. CASE \/ configure_client_context_throws(s) \/ ResolveThrows(s) \/ TcpConnectThrows(s)
  <2>1. /\ alive /\ pc[s] \in {"configure", "resolve", "connect"}
        /\ pc' = [pc EXCEPT ![s] = "gone"] /\ handle_error(s) /\ DestructSocket(s)
        /\ UNCHANGED <<names, past>>
    BY <1>1 DEF configure_client_context_throws, ResolveThrows, TcpConnectThrows, Move
  <2>2. kind[s] \in {"client", "existing", "bare"}
    BY <1>1, <1>a
    DEF configure_client_context_throws, ResolveThrows, TcpConnectThrows, Move, KindFits
  <2>3. QED BY <2>1, <2>2, ClientGone
<1> USE DEF SecureInv, TypeOK, Handshaking, Apart, Life, KeysFit, KindFits, Talks, Move,
            Remember, object, keys, names
<1>2. CASE configure_client_context(s)
  <2> USE <1>2 DEF configure_client_context
  <2>1. Apart(s) OBVIOUS
  <2>2. KeysFit(s)' OBVIOUS
  <2>3. KindFits(s)' OBVIOUS
  <2>4. Talks(s)' OBVIOUS
  <2>5. QED BY <2>1, <2>2, <2>3, <2>4
<1>3. CASE InitOther(s) BY <1>3 DEF InitOther
<1>4. CASE Resolve(s)
  <2> USE <1>4 DEF Resolve
  <2>1. Apart(s) BY DEF Waiting
  <2>2. KeysFit(s)' OBVIOUS
  <2>3. KindFits(s)' OBVIOUS
  <2>4. Talks(s)' OBVIOUS
  <2>5. QED BY <2>1, <2>2, <2>3, <2>4
<1>5. CASE NoHostPointer(s) BY <1>5 DEF NoHostPointer
<1>6. CASE TcpConnect(s)
  <2>1. PICK host : /\ s \notin overtaken => host = hostent
                    /\ peer' = [peer EXCEPT ![s] = host]
    BY <1>6 DEF TcpConnect
  <2> USE <1>6, <2>1 DEF TcpConnect
  <2>2. Apart(s) OBVIOUS
  <2>3. KeysFit(s)' OBVIOUS
  <2>4. KindFits(s)' OBVIOUS
  <2>5. Talks(s)' OBVIOUS
  <2>6. QED BY <2>2, <2>3, <2>4, <2>5
<1>7. CASE SSLConnect(s)
  <2> USE <1>7 DEF SSLConnect
  <2>1. Apart(s) OBVIOUS
  <2>2. KeysFit(s)' OBVIOUS
  <2>3. KindFits(s)' OBVIOUS
  <2>4. Talks(s)' OBVIOUS
  <2>5. QED BY <2>1, <2>2, <2>3, <2>4
<1>8. CASE SSLConnectThrows(s)
  <2> USE <1>8 DEF SSLConnectThrows, Hand, DestructSocket
  <2>1. Apart(s) OBVIOUS
  <2>2. KeysFit(s)' OBVIOUS
  <2>3. KindFits(s)' OBVIOUS
  <2>4. Talks(s)' OBVIOUS
  <2>5. QED BY <2>1, <2>2, <2>3, <2>4
<1>9. QED BY <1>1, <1>2, <1>3, <1>4, <1>5, <1>6, <1>7, <1>8 DEF Client

(* Its use and its end. *)

LEMMA LifeFreed ==
  ASSUME NEW s \in Sockets, SecureInv, Close(s) \/ Destruct(s)
  PROVE  Apart(s) /\ Life(s)'
<1>1. /\ pc \in [Sockets -> Places] /\ past \in [Sockets -> SUBSET {"ready", "closed"}]
      /\ PointersOK /\ KeysFit(s) /\ KindFits(s) /\ Talks(s)
  BY TypeParts DEF SecureInv, Life, TypeOK
<1>2. /\ alive /\ pc[s] = "ready" /\ handle_error(s)
      /\ UNCHANGED <<kind, m_ServerName, peer, verify, handle, hostent, overtaken>>
  BY DEF Close, Destruct, Move, object, names
<1>3. /\ ctx'[s] = Freed(ctx[s]) /\ ssl'[s] = Freed(ssl[s])
      /\ \A r \in Sockets \ {s} : /\ ctx'[r] = ctx[r] /\ ssl'[r] = ssl[r]
                                  /\ r \in misuse' <=> r \in misuse
      /\ ssl[s] = "live" => misuse' = misuse /\ alive' = alive
  BY <1>1, <1>2, HandleErrorIs
<1>4. \/ kind[s] = "copy" /\ ctx[s] = "unset" /\ ssl[s] = "unset"
      \/ kind[s] = "bare" /\ ssl[s] = "unset"
      \/ kind[s] \notin {"copy", "bare"} /\ ctx[s] = "live" /\ ssl[s] = "live"
      \/ ctx[s] = "freed" /\ ssl[s] = "freed" /\ "closed" \in past[s]
  BY <1>1, <1>2 DEF KeysFit
<1>5. \/ kind[s] = "copy" /\ ctx'[s] = "unset" /\ ssl'[s] = "unset"
      \/ kind[s] = "bare" /\ ctx'[s] # "live" /\ ssl'[s] = "unset"
      \/ ctx'[s] = "freed" /\ ssl'[s] = "freed"
  BY <1>3, <1>4 DEF Freed
<1>6. s \in misuse' => s \in misuse \/ kind[s] \in {"bare", "copy"} \/ "closed" \in past[s]
  BY <1>3, <1>4
<1>7. CASE Close(s)
  <2>1. /\ pc'[s] = "ready" /\ past'[s] = past[s] \cup {"closed"}
        /\ \A r \in Sockets \ {s} : pc'[r] = pc[r] /\ past'[r] = past[r]
    BY <1>1, <1>7 DEF Close, Move, Remember
  <2>2. Apart(s) BY <1>2, <1>3, <2>1 DEF Apart
  <2>3. KeysFit(s)' BY <1>2, <1>5, <2>1 DEF KeysFit, Handshaking
  <2>4. KindFits(s)' BY <1>1, <1>2, <2>1 DEF KindFits
  <2>5. Talks(s)' BY <1>1, <1>2, <2>1 DEF Talks
  <2>6. QED BY <2>2, <2>3, <2>4, <2>5 DEF Life
<1>8. CASE Destruct(s)
  <2>1. /\ pc'[s] = "release" /\ past' = past
        /\ \A r \in Sockets \ {s} : pc'[r] = pc[r]
    BY <1>1, <1>8 DEF Destruct, Move
  <2>2. Apart(s) BY <1>2, <1>3, <2>1 DEF Apart
  <2>3. KeysFit(s)' BY <1>5, <2>1 DEF KeysFit, Handshaking
  <2>4. KindFits(s)' BY <1>1, <1>2, <1>6, <2>1 DEF KindFits
  <2>5. Talks(s)' BY <2>1 DEF Talks
  <2>6. QED BY <2>2, <2>3, <2>4, <2>5 DEF Life
<1>9. QED BY <1>7, <1>8

LEMMA LifeUse ==
  ASSUME NEW s \in Sockets, SecureInv,
         \/ ReceiveEnd(s) \/ Copied(s) \/ Release(s)
         \/ \E o \in Sockets : Copy(s, o)
  PROVE  Apart(s) /\ Life(s)'
<1>1. /\ pc \in [Sockets -> Places] /\ handle \in [Sockets -> Sockets]
      /\ kind \in [Sockets -> Kinds] /\ past \in [Sockets -> SUBSET {"ready", "closed"}]
      /\ PointersOK /\ KeysFit(s) /\ KindFits(s) /\ Talks(s)
  BY TypeParts DEF SecureInv, Life, TypeOK, Kinds
<1>2. CASE ReceiveEnd(s)
  <2>1. /\ alive /\ pc[s] = "ready" /\ pc'[s] = "ready"
        /\ UNCHANGED <<kind, m_ServerName, peer, verify, handle, hostent, overtaken, ctx, ssl,
                       past>>
        /\ \A r \in Sockets \ {s} : pc'[r] = pc[r]
    BY <1>1, <1>2 DEF ReceiveEnd, Move, object, names
  <2>2. PICK sound \in BOOLEAN, freed \in BOOLEAN :
          /\ sound <=> ssl[s] = "live"
          /\ freed <=> ssl[s] = "freed"
          /\ Hand(s, sound, freed)
    <3>1. Hand(s, ssl[s] = "live", ssl[s] = "freed") BY <1>2 DEF ReceiveEnd
    <3>2. QED BY <3>1
  <2>3. /\ \A r \in Sockets \ {s} : r \in misuse' <=> r \in misuse
        /\ ssl[s] = "live" => misuse' = misuse
    <3>1. freed => ~sound BY <2>2
    <3>2. QED BY <1>1, <2>2, <3>1, HandIs
  <2>4. Apart(s) BY <2>1, <2>3 DEF Apart
  <2>5. KeysFit(s)' BY <1>1, <2>1 DEF KeysFit, Handshaking
  <2>6. s \in misuse' =>
          s \in misuse \/ kind[s] \in {"bare", "copy"} \/ "closed" \in past[s]
    BY <1>1, <2>1, <2>3 DEF KeysFit
  <2>7. KindFits(s)' BY <1>1, <2>1, <2>6 DEF KindFits
  <2>8. Talks(s)' BY <1>1, <2>1 DEF Talks
  <2>9. QED BY <2>4, <2>5, <2>7, <2>8 DEF Life
<1>3. CASE Copied(s)
  <2>1. /\ alive /\ pc[s] = "copy" /\ pc'[s] = "ready"
        /\ UNCHANGED <<kind, m_ServerName, peer, verify, handle, hostent, overtaken, ctx, ssl,
                       misuse, alive, past>>
        /\ \A r \in Sockets \ {s} : pc'[r] = pc[r]
    BY <1>1, <1>3 DEF Copied, Move, object, names, keys
  <2>2. kind[s] = "copy" /\ ctx[s] = "unset" /\ ssl[s] = "unset"
    BY <1>1, <2>1 DEF KindFits, KeysFit
  <2>3. Apart(s) BY <2>1 DEF Apart
  <2>4. KeysFit(s)' BY <2>1, <2>2 DEF KeysFit, Handshaking
  <2>5. KindFits(s)' BY <1>1, <2>1, <2>2 DEF KindFits
  <2>6. Talks(s)' BY <2>1, <2>2 DEF Talks
  <2>7. QED BY <2>3, <2>4, <2>5, <2>6 DEF Life
<1>4. CASE Release(s)
  <2>1. /\ alive /\ pc[s] = "release" /\ pc'[s] = "gone"
        /\ UNCHANGED <<kind, m_ServerName, peer, verify, handle, hostent, overtaken, ctx, ssl,
                       misuse, past>>
        /\ \A r \in Sockets \ {s} : pc'[r] = pc[r]
    BY <1>1, <1>4 DEF Release, Move, object, names
  <2>2. ctx[s] # "live" /\ ssl[s] # "live" BY <1>1, <2>1 DEF KeysFit
  <2>3. Apart(s) BY <2>1 DEF Apart
  <2>4. KeysFit(s)' BY <2>1, <2>2 DEF KeysFit, Handshaking
  <2>5. KindFits(s)' BY <1>1, <2>1 DEF KindFits
  <2>6. Talks(s)' BY <2>1 DEF Talks
  <2>7. QED BY <2>3, <2>4, <2>5, <2>6 DEF Life
<1>5. ASSUME NEW o \in Sockets, Copy(s, o) PROVE Apart(s) /\ Life(s)'
  <2>1. /\ alive /\ pc[s] = "unborn" /\ pc'[s] = "copy" /\ kind'[s] = "copy"
        /\ UNCHANGED <<m_ServerName, peer, verify, hostent, overtaken, ctx, ssl, misuse, past>>
        /\ \A r \in Sockets \ {s} : /\ pc'[r] = pc[r] /\ kind'[r] = kind[r]
                                    /\ handle'[r] = handle[r]
    BY <1>1, <1>5 DEF Copy, Move, names, keys
  <2>2. Apart(s) BY <2>1 DEF Apart
  <2>3. KeysFit(s)' BY <1>1, <2>1 DEF KeysFit, Handshaking
  <2>4. KindFits(s)' BY <1>1, <2>1 DEF KindFits
  <2>5. Talks(s)' BY <2>1 DEF Talks
  <2>6. QED BY <2>2, <2>3, <2>4, <2>5 DEF Life
<1>6. QED BY <1>2, <1>3, <1>4, <1>5

-------------------------------------------------------------------------------
(* The descriptors and their counters. *)

InUse == {"context", "configure", "accept", "resolve", "connect", "shake", "ready", "release"}

LEMMA UsersFinite ==
  \A h \in Sockets : IsFiniteSet(Users(h)) /\ Cardinality(Users(h)) \in Nat
<1>1. \A h \in Sockets : Users(h) \subseteq Sockets BY DEF Users
<1>2. \A h \in Sockets : IsFiniteSet(Users(h)) BY <1>1, SecureAssumption, FS_Subset
<1>3. QED BY <1>2, FS_CardinalityType

(* A step within the life of a socket. *)
LEMMA HeldMove ==
  ASSUME SecureInv, NEW s \in Sockets, alive, pc[s] \in InUse,
         NEW to \in InUse, pc' = [pc EXCEPT ![s] = to],
         pc[s] \in {"ready", "release"} => to \in {"ready", "release"},
         \A r \in Sockets \ {s} : loaded'[r] = loaded[r],
         UNCHANGED <<handle, fd, refCounter, lost>>
  PROVE  Held'
<1>1. pc \in [Sockets -> Places] /\ handle \in [Sockets -> Sockets]
  BY DEF SecureInv, TypeOK
<1>2. pc'[s] = to /\ \A r \in Sockets \ {s} : pc'[r] = pc[r] BY <1>1
<1>3. ASSUME NEW r \in Sockets PROVE Counted(r)' /\ Shared(r)'
  <2>1. Counted(r) /\ Shared(r) BY DEF SecureInv, Held
  <2>2. Users(r)' = Users(r) BY <1>2 DEF Users, InUse
  <2>3. Counted(r)' BY <2>1, <2>2 DEF Counted
  <2>4. Shared(r)' BY <1>1, <1>2, <2>1 DEF Shared, InUse
  <2>5. QED BY <2>3, <2>4
<1>4. QED BY <1>3 DEF Held

(* The first user of a descriptor: no copy of s is left from elsewhere. *)
LEMMA HeldConstruct ==
  ASSUME SecureInv, NEW s \in Sockets, Construct(s)
  PROVE  Held'
<1>1. /\ pc \in [Sockets -> Places] /\ handle \in [Sockets -> Sockets]
      /\ refCounter \in [Sockets -> Int]
  BY DEF SecureInv, TypeOK
<1>2. /\ pc[s] = "unborn" /\ alive /\ pc' = [pc EXCEPT ![s] = "context"]
      /\ fd' = fd \cup {s} /\ refCounter' = [refCounter EXCEPT ![s] = 1]
      /\ handle' = handle /\ loaded' = loaded /\ lost' = lost
  BY DEF Construct, Move
<1>3. pc'[s] = "context" /\ \A r \in Sockets \ {s} : pc'[r] = pc[r] BY <1>1, <1>2
<1>4. handle[s] = s /\ \A r \in Sockets \ {s} : handle[r] # s
  BY <1>2 DEF SecureInv, Life, KindFits, Held, Shared
<1>5. ASSUME NEW r \in Sockets PROVE Counted(r)' /\ Shared(r)'
  <2>1. Counted(r) /\ Shared(r) BY <1>2 DEF SecureInv, Held
  <2>2. CASE r = s
    <3>1. Users(r)' = {s} BY <1>2, <1>3, <1>4, <2>2 DEF Users
    <3>2. Cardinality(Users(r)') = 1 BY <3>1, FS_Singleton
    <3>3. refCounter'[r] = 1 BY <1>1, <1>2, <2>2
    <3>4. Counted(r)' BY <1>2, <2>2, <3>1, <3>2, <3>3 DEF Counted
    <3>5. QED BY <1>2, <1>3, <1>4, <2>2, <3>4 DEF Shared
  <2>3. CASE r # s
    <3>1. Users(r)' = Users(r) BY <1>2, <1>3, <1>4, <2>3 DEF Users
    <3>2. refCounter'[r] = refCounter[r] /\ (r \in fd' <=> r \in fd) BY <1>1, <1>2, <2>3
    <3>3. Counted(r)' BY <1>2, <2>1, <3>1, <3>2 DEF Counted
    <3>4. QED BY <1>1, <1>2, <1>3, <1>4, <2>1, <2>3, <3>3 DEF Shared
  <2>4. QED BY <2>2, <2>3
<1>6. QED BY <1>5 DEF Held

(* A constructor that throws had its descriptor for itself. *)
LEMMA HeldGone ==
  ASSUME SecureInv, NEW s \in Sockets, alive, pc[s] \in InUse \ {"ready", "release"},
         pc' = [pc EXCEPT ![s] = "gone"], DestructSocket(s)
  PROVE  Held'
<1>1. /\ pc \in [Sockets -> Places] /\ handle \in [Sockets -> Sockets]
      /\ refCounter \in [Sockets -> Int] /\ CountingOK
  BY TypeParts DEF SecureInv, TypeOK
<1>2. /\ CloseSocket(s, {}) /\ refCounter' = [refCounter EXCEPT ![s] = 0]
      /\ handle' = handle /\ loaded' = loaded
  BY DEF DestructSocket, object
<1>3. pc'[s] = "gone" /\ \A r \in Sockets \ {s} : pc'[r] = pc[r] BY <1>1
<1>4. handle[s] = s /\ \A r \in Sockets \ {s} : handle[r] # s
  BY DEF SecureInv, Life, KindFits, Held, Shared, InUse
<1>5. /\ lost \subseteq lost' /\ (s \in fd => s \notin fd')
      /\ \A g \in Sockets \ lost' : g # s => (g \in fd' <=> g \in fd)
      /\ s \in lost' => s \in lost
  BY <1>1, <1>2, CloseIs
<1>6. ASSUME NEW r \in Sockets PROVE Counted(r)' /\ Shared(r)'
  <2>1. Counted(r) /\ Shared(r) BY DEF SecureInv, Held
  <2>2. CASE r = s
    <3>1. Users(r)' = {} /\ s \in Users(r) BY <1>2, <1>3, <1>4, <2>2 DEF Users, InUse
    <3>2. Cardinality(Users(r)') = 0 BY <3>1, FS_EmptySet
    <3>3. refCounter'[r] = 0 BY <1>1, <1>2, <2>2
    <3>4. r \notin lost => r \in fd BY <2>1, <3>1 DEF Counted
    <3>5. r \notin lost' => r \notin fd' BY <1>5, <2>2, <3>4
    <3>6. Counted(r)' BY <3>1, <3>2, <3>3, <3>5 DEF Counted
    <3>7. QED BY <1>2, <1>3, <1>4, <2>2, <3>6 DEF Shared
  <2>3. CASE r # s
    <3>1. Users(r)' = Users(r) BY <1>2, <1>3, <1>4, <2>3 DEF Users
    <3>2. refCounter'[r] = refCounter[r] BY <1>1, <1>2, <2>3
    <3>3. Counted(r)' BY <1>5, <2>1, <2>3, <3>1, <3>2 DEF Counted
    <3>4. QED BY <1>1, <1>2, <1>3, <1>4, <1>5, <2>1, <2>3, <3>3 DEF Shared
  <2>4. QED BY <2>2, <2>3
<1>7. QED BY <1>6 DEF Held

(* What a copy reads counts the original: there is one more to count. *)
LEMMA HeldCopy ==
  ASSUME SecureInv, NEW s \in Sockets, NEW o \in Sockets, Copy(s, o)
  PROVE  Held'
<1>1. /\ pc \in [Sockets -> Places] /\ handle \in [Sockets -> Sockets] /\ CountingOK
  BY TypeParts DEF SecureInv, TypeOK
<1>2. /\ pc[s] = "unborn" /\ pc[o] = "ready" /\ alive /\ pc' = [pc EXCEPT ![s] = "copy"]
      /\ handle' = [handle EXCEPT ![s] = handle[o]] /\ Load(s, handle[o])
      /\ UNCHANGED <<fd, refCounter, lost>>
  BY DEF Copy, Move
<1>3. /\ pc'[s] = "copy" /\ handle'[s] = handle[o]
      /\ \A r \in Sockets \ {s} : pc'[r] = pc[r] /\ handle'[r] = handle[r]
  BY <1>1, <1>2
<1>4. handle[o] # s /\ pc[handle[o]] \in {"ready", "release", "gone"}
  BY <1>1, <1>2 DEF SecureInv, Held, Shared
<1>5. /\ refCounter[handle[o]] # 0 => loaded'[s] = refCounter[handle[o]]
      /\ \A r \in Sockets \ {s} : loaded'[r] = loaded[r]
  BY <1>1, <1>2, LoadIs
<1>6. handle[o] \notin lost => loaded'[s] > 0
  <2>1. handle[o] \notin lost => refCounter[handle[o]] = Cardinality(Users(handle[o]))
    <3>1. Counted(handle[o]) BY <1>1, <1>2 DEF SecureInv, Held
    <3>2. QED BY <3>1 DEF Counted
  <2>2. o \in Users(handle[o]) BY <1>2 DEF Users
  <2>3. Cardinality(Users(handle[o])) # 0 BY <1>1, <2>2, UsersFinite, FS_EmptySet
  <2>4. QED BY <1>1, <1>5, <2>1, <2>3, UsersFinite
<1>7. ASSUME NEW r \in Sockets PROVE Counted(r)' /\ Shared(r)'
  <2>1. Counted(r) /\ Shared(r) BY <1>2 DEF SecureInv, Held
  <2>2. Users(r)' = Users(r) BY <1>2, <1>3 DEF Users
  <2>3. Counted(r)' BY <1>2, <2>1, <2>2 DEF Counted
  <2>4. CASE r = s
    <3>1. pc'[handle[o]] \in {"ready", "release", "gone"} /\ lost' = lost
      BY <1>1, <1>2, <1>3, <1>4
    <3>2. Shared(s)' BY <1>3, <1>4, <1>6, <3>1 DEF Shared
    <3>3. QED BY <2>3, <2>4, <3>2
  <2>5. CASE r # s
    <3>1. pc'[r] = pc[r] /\ handle'[r] = handle[r] /\ loaded'[r] = loaded[r] /\ lost' = lost
      BY <1>2, <1>3, <1>5, <2>5
    <3>2. handle[r] # r => handle[r] # s BY <1>2, <2>1 DEF Shared
    <3>3. handle[r] # r => pc'[handle[r]] = pc[handle[r]] BY <1>1, <1>3, <3>2
    <3>4. QED BY <2>1, <2>3, <3>1, <3>3 DEF Shared
  <2>6. QED BY <2>3, <2>4, <2>5
<1>8. QED BY <1>7 DEF Held

(* A copy counts itself, unless the counter has changed meanwhile. *)
LEMMA HeldCopied ==
  ASSUME SecureInv, NEW s \in Sockets, Copied(s)
  PROVE  Held'
<1>1. /\ pc \in [Sockets -> Places] /\ handle \in [Sockets -> Sockets]
      /\ CountingOK /\ ObjectOK
  BY TypeParts DEF SecureInv, TypeOK
<1> DEFINE h == handle[s]
<1>2. /\ pc[s] = "copy" /\ alive /\ pc' = [pc EXCEPT ![s] = "ready"]
      /\ Store(h, loaded[s] + 1) /\ lost' = lost \cup LostUpdate(s)
      /\ UNCHANGED <<handle, fd, loaded>>
  BY DEF Copied, Move, object
<1>3. pc'[s] = "ready" /\ \A r \in Sockets \ {s} : pc'[r] = pc[r] BY <1>1, <1>2
<1>4. /\ h \in Sockets /\ h # s /\ pc[h] \in {"ready", "release", "gone"}
      /\ h \notin lost => loaded[s] > 0
  BY <1>1, <1>2 DEF SecureInv, Held, Shared
<1>5. /\ refCounter[h] # 0 => refCounter'[h] = loaded[s] + 1
      /\ \A g \in Sockets \ {h} : refCounter'[g] = refCounter[g]
  BY <1>1, <1>2, <1>4, StoreIs DEF CountingOK
<1>6. h \notin lost' => refCounter[h] = loaded[s] /\ h \notin lost
  BY <1>1, <1>2, LostUpdateIs
<1>7. ASSUME NEW r \in Sockets PROVE Counted(r)' /\ Shared(r)'
  <2>1. Counted(r) /\ Shared(r) BY <1>2 DEF SecureInv, Held
  <2>2. CASE r = h
    <3>1. Users(r)' = Users(r) \cup {s} /\ s \notin Users(r)
      BY <1>2, <1>3, <2>2 DEF Users
    <3>2. Cardinality(Users(r)') = Cardinality(Users(r)) + 1
      BY <3>1, UsersFinite, FS_AddElement
    <3>3. ASSUME h \notin lost'
          PROVE  refCounter'[h] = Cardinality(Users(r)') /\ h \in fd'
      <4>1. refCounter[h] = loaded[s] /\ h \notin lost /\ loaded[s] > 0 BY <1>4, <1>6, <3>3
      <4>2. refCounter[h] = Cardinality(Users(r)) /\ (Users(r) # {} => h \in fd)
        <5>1. r \notin lost BY <2>2, <4>1
        <5>2. refCounter[r] = Cardinality(Users(r)) /\ (Users(r) # {} => r \in fd)
          BY <2>1, <5>1 DEF Counted
        <5>3. QED BY <2>2, <5>2
      <4>3. loaded[s] \in Int BY <1>1 DEF CountingOK
      <4>4. refCounter'[h] = loaded[s] + 1 BY <1>5, <4>1, <4>3
      <4>5. Users(r) # {} BY <4>1, <4>2, <4>3, FS_EmptySet
      <4>6. QED BY <1>2, <3>2, <4>1, <4>2, <4>4, <4>5
    <3>4. Counted(r)' BY <2>2, <3>1, <3>3 DEF Counted
    <3>5. QED BY <1>2, <1>3, <1>4, <2>1, <2>2, <3>4 DEF Shared
  <2>3. CASE r # h
    <3>1. Users(r)' = Users(r) BY <1>2, <1>3, <2>3 DEF Users
    <3>2. lost \subseteq lost' /\ refCounter'[r] = refCounter[r] BY <1>2, <1>5, <2>3
    <3>3. Counted(r)' BY <1>2, <2>1, <3>1, <3>2 DEF Counted
    <3>4. QED BY <1>1, <1>2, <1>3, <1>4, <2>1, <3>2, <3>3 DEF Shared
  <2>4. QED BY <2>2, <2>3
<1>8. QED BY <1>7 DEF Held

(* ~Socket takes one from the counter, and the last closes. *)
LEMMA HeldRelease ==
  ASSUME SecureInv, NEW s \in Sockets, Release(s)
  PROVE  Held'
<1>1. /\ pc \in [Sockets -> Places] /\ handle \in [Sockets -> Sockets]
      /\ CountingOK /\ ObjectOK
  BY TypeParts DEF SecureInv, TypeOK
<1> DEFINE h == handle[s]
<1>2. /\ pc[s] = "release" /\ alive /\ pc' = [pc EXCEPT ![s] = "gone"]
      /\ UNCHANGED <<handle, loaded>>
  BY DEF Release, Move, object
<1>3. pc'[s] = "gone" /\ \A r \in Sockets \ {s} : pc'[r] = pc[r] BY <1>1, <1>2
<1>4. h \in Sockets /\ loaded[s] \in Int BY <1>1 DEF CountingOK
<1>5. /\ loaded[s] = 1 => CloseSocket(h, LostUpdate(s))
      /\ loaded[s] # 1 => fd' = fd /\ lost' = lost \cup LostUpdate(s)
      /\ lost \cup LostUpdate(s) \subseteq lost'
      /\ \A g \in Sockets \ {h} : refCounter'[g] = refCounter[g]
      /\ refCounter[h] # 0 => refCounter'[h] = loaded[s] - 1
  BY <1>1, ReleaseIs
<1>6. h \notin lost' => refCounter[h] = loaded[s] /\ h \notin lost
  BY <1>1, <1>5, LostUpdateIs
<1>7. /\ \A g \in Sockets \ lost' : g # h => (g \in fd' <=> g \in fd)
      /\ loaded[s] = 1 /\ h \in fd => h \notin fd'
  <2>1. LostUpdate(s) \in SUBSET Sockets BY <1>1, LostUpdateIs
  <2>2. QED BY <1>1, <1>4, <1>5, <2>1, CloseIs
<1>8. ASSUME NEW r \in Sockets PROVE Counted(r)' /\ Shared(r)'
  <2>1. Counted(r) /\ Shared(r) BY <1>2 DEF SecureInv, Held
  <2>2. Shared(r)' BY <1>1, <1>2, <1>3, <1>5, <2>1 DEF Shared
  <2>3. CASE r = h
    <3>1. Users(r)' = Users(r) \ {s} /\ s \in Users(r)
      BY <1>2, <1>3, <2>3 DEF Users
    <3>2. Cardinality(Users(r)') = Cardinality(Users(r)) - 1
      BY <3>1, UsersFinite, FS_RemoveElement
    <3>3. ASSUME h \notin lost'
          PROVE  refCounter'[h] = Cardinality(Users(r)') /\ (h \in fd' <=> Users(r)' # {})
      <4>1. refCounter[h] = loaded[s] /\ h \notin lost BY <1>6, <3>3
      <4>2. refCounter[h] = Cardinality(Users(r)) /\ h \in fd
        BY <2>1, <2>3, <3>1, <4>1 DEF Counted
      <4>3. loaded[s] # 0 BY <3>1, <4>1, <4>2, UsersFinite, FS_EmptySet
      <4>4. refCounter'[h] = Cardinality(Users(r)') BY <1>5, <3>2, <4>1, <4>2, <4>3
      <4>5. Users(r)' = {} <=> loaded[s] = 1
        <5>1. IsFiniteSet(Users(r)') BY <3>1, UsersFinite, FS_Subset
        <5>2. Users(r)' = {} <=> Cardinality(Users(r)') = 0 BY <5>1, FS_EmptySet
        <5>3. QED BY <1>4, <3>2, <4>1, <4>2, <5>2, UsersFinite
      <4>6. QED BY <1>5, <1>7, <4>2, <4>4, <4>5
    <3>4. Counted(r)' BY <2>3, <3>3 DEF Counted
    <3>5. QED BY <2>2, <3>4
  <2>4. CASE r # h
    <3>1. Users(r)' = Users(r) BY <1>2, <1>3, <2>4 DEF Users
    <3>2. Counted(r)' BY <1>5, <1>7, <2>1, <2>4, <3>1 DEF Counted
    <3>3. QED BY <2>2, <3>2
  <2>5. QED BY <2>3, <2>4
<1>9. QED BY <1>8 DEF Held

LEMMA HeldStep ==
  ASSUME SecureInv, NEW s \in Sockets, Step(s)
  PROVE  Held'
<1> USE DEF Move
<1>1. CASE \/ create_context(s) \/ configure_server_context(s) \/ SSLAccept(s)
           \/ configure_client_context(s) \/ InitOther(s) \/ Resolve(s) \/ TcpConnect(s)
           \/ SSLConnect(s) \/ ReceiveEnd(s) \/ Close(s) \/ Destruct(s)
  <2>1. PICK to \in InUse : /\ pc' = [pc EXCEPT ![s] = to]
                            /\ pc[s] \in {"ready", "release"} => to \in {"ready", "release"}
    BY <1>1
    DEF create_context, configure_server_context, SSLAccept, configure_client_context,
        InitOther, Resolve, TcpConnect, SSLConnect, ReceiveEnd, Close, Destruct, InUse
  <2>2. pc[s] \in InUse /\ alive
    BY <1>1
    DEF create_context, configure_server_context, SSLAccept, configure_client_context,
        InitOther, Resolve, TcpConnect, SSLConnect, ReceiveEnd, Close, Destruct, InUse
  <2>3. UNCHANGED <<handle, fd, refCounter, lost>> /\ (loaded' = loaded \/ Load(s, handle[s]))
    BY <1>1
    DEF create_context, configure_server_context, SSLAccept, configure_client_context,
        InitOther, Resolve, TcpConnect, SSLConnect, ReceiveEnd, Close, Destruct, object,
        counting
  <2>4. \A r \in Sockets \ {s} : loaded'[r] = loaded[r]
    BY <2>3, TypeParts, LoadIs DEF SecureInv, ObjectOK
  <2>5. QED BY <2>1, <2>2, <2>3, <2>4, HeldMove
<1>2. CASE \/ create_context_throws(s) \/ configure_server_context_throws(s)
           \/ SSLAcceptThrows(s) \/ configure_client_context_throws(s) \/ ResolveThrows(s)
           \/ TcpConnectThrows(s) \/ SSLConnectThrows(s)
  <2>1. /\ pc[s] \in InUse \ {"ready", "release"} /\ alive
        /\ pc' = [pc EXCEPT ![s] = "gone"] /\ DestructSocket(s)
    BY <1>2
    DEF create_context_throws, configure_server_context_throws, SSLAcceptThrows,
        configure_client_context_throws, ResolveThrows, TcpConnectThrows, SSLConnectThrows,
        InUse
  <2>2. QED BY <2>1, HeldGone
<1>3. CASE configure_server_context_exits(s) \/ NoHostPointer(s)
  BY <1>3 DEF configure_server_context_exits, NoHostPointer, Held
<1>4. QED
  BY <1>1, <1>2, <1>3, HeldConstruct, HeldCopy, HeldCopied, HeldRelease
  DEF Step, Server, Client

-------------------------------------------------------------------------------
LEMMA SecureInit == Init => SecureInv
<1> SUFFICES ASSUME Init PROVE SecureInv
  OBVIOUS
<1>1. TypeOK BY SecureAssumption DEF Init, TypeOK, Places, Pointers
<1>2. \A s \in Sockets : Life(s) BY DEF Init, Life, KeysFit, KindFits, Talks, Handshaking
<1>3. \A h \in Sockets : Users(h) = {} BY DEF Init, Users
<1>4. \A h \in Sockets : Counted(h) /\ Shared(h)
  BY <1>3, FS_EmptySet DEF Init, Counted, Shared
<1>5. QED BY <1>1, <1>2, <1>4 DEF SecureInv, Held

LEMMA SecureStep == SecureInv /\ [Next]_vars => SecureInv'
<1> SUFFICES ASSUME SecureInv, [Next]_vars PROVE SecureInv'
  OBVIOUS
<1>1. CASE UNCHANGED vars
  <2> USE <1>1 DEF vars, object, counting, keys, names
  <2>1. TypeOK' BY DEF SecureInv, TypeOK
  <2>2. \A s \in Sockets : Life(s)' BY DEF SecureInv, Life, KeysFit, KindFits, Talks
  <2>3. ASSUME NEW s \in Sockets, alive PROVE Counted(s)' /\ Shared(s)'
    <3>1. Counted(s) /\ Shared(s) BY <2>3 DEF SecureInv, Held
    <3>2. Users(s)' = Users(s) BY DEF Users
    <3>3. QED BY <3>1, <3>2 DEF Counted, Shared
  <2>4. QED BY <2>1, <2>2, <2>3 DEF SecureInv, Held
<1>2. ASSUME NEW s \in Sockets, Step(s) PROVE SecureInv'
  <2>1. TypeOK' BY <1>2, SecureTypes
  <2>2. Apart(s) /\ Life(s)'
    BY <1>2, LifeConstruct, LifeServer, LifeClient, LifeFreed, LifeUse DEF Step
  <2>3. Held' BY <1>2, HeldStep
  <2>4. QED BY <2>1, <2>2, <2>3, OthersLive DEF SecureInv
<1>3. (\E s \in Sockets : Step(s)) \/ UNCHANGED vars BY DEF Next, Step
<1>4. QED BY <1>1, <1>2, <1>3

LEMMA SecureInvariant == Spec => []SecureInv
  BY SecureInit, SecureStep, PTL DEF Spec

(* The variables of the TLS sockets have their types, and an ssl that lives *)
(* has its ctx.                                                             *)
THEOREM SecureTypeOK == Spec => []TypeOK
<1>1. SecureInv => TypeOK BY DEF SecureInv
<1>2. QED BY <1>1, SecureInvariant, PTL

(* As long as no update of its counter is lost, a descriptor is closed by   *)
(* the last of the sockets that share it, and not before (the copy          *)
(* constructor and ~Socket).                                                *)
THEOREM SecureDescriptorHeld == Spec => []DescriptorHeld
<1>1. SecureInv => DescriptorHeld
  <2> SUFFICES ASSUME SecureInv, alive, NEW h \in Sockets \ lost PROVE h \in fd <=> Users(h) # {}
    BY DEF DescriptorHeld
  <2>1. Counted(h) BY DEF SecureInv, Held
  <2>2. QED BY <2>1 DEF Counted
<1>2. QED BY <1>1, SecureInvariant, PTL

(* handle_error() and Close() free ctx and ssl once, but for the kinds of   *)
(* sockets that OtherwiseFreedOnce names.                                   *)
THEOREM SecureFreedOnce == Spec => []OtherwiseFreedOnce
<1>1. SecureInv => OtherwiseFreedOnce
  BY DEF SecureInv, TypeOK, Life, KeysFit, KindFits, OtherwiseFreedOnce
<1>2. QED BY <1>1, SecureInvariant, PTL

(* A client that is connected to another server than its own was overtaken  *)
(* by another client's Resolve between its own and its connect(), and does  *)
(* not verify certificates.                                                 *)
THEOREM SecureTalksToItsServer == Spec => []TalksToItsServer
<1>1. SecureInv => TalksToItsServer
  BY DEF SecureInv, TypeOK, Life, Talks, TalksToItsServer
<1>2. QED BY <1>1, SecureInvariant, PTL
===============================================================================
