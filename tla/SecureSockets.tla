---------------------------- MODULE SecureSockets ----------------------------
(***************************************************************************)
(* The life of a TLS socket: SSLSocket (socket/SSLSocket.cpp) for          *)
(* connections that were accepted, and CClientSSLSocket                    *)
(* (socket/CClientSSLSocket.cpp) for connections to a server.              *)
(*                                                                         *)
(* An SSLSocket owns three things: the descriptor, which ~Socket closes,   *)
(* and OpenSSL's ctx and ssl, which handle_error() and Close() free and    *)
(* whose pointers nobody resets.  A constructor that throws runs the       *)
(* destructors of what is complete by then: of Socket alone while          *)
(* SSLSocket::Init is under way, of SSLSocket too in the body of           *)
(* CClientSSLSocket's constructor.                                         *)
(*                                                                         *)
(* Every socket, and every copy of one, is made and used by a thread of    *)
(* its own.  They share the one hostent of gethostbyname() and             *)
(* gethostbyaddr(), and a socket and its copies share refCounter_, a plain *)
(* int: to change it is to load it and to store it, with whatever other    *)
(* threads do in between.                                                  *)
(***************************************************************************)
EXTENDS Integers, FiniteSets

CONSTANTS
  Sockets,     \* SSLSocket objects, each with one life
  Hosts,       \* the servers there are
  Nowhere      \* no server

ASSUME SecureAssumption == Nowhere \notin Hosts /\ IsFiniteSet(Sockets)

VARIABLES
  pc,          \* pc[s]: where the life of s is
  kind,        \* kind[s]: "server" (SSLSocket), "bare" (SSLSocket with another
               \* method), "client" (CClientSSLSocket), "existing" (the same, of
               \* a connection there is), "copy"
  m_ServerName,\* m_ServerName[s]: the host a client is to talk to
  peer,        \* peer[s]: the host its descriptor is connected to
  verify,      \* the sockets whose ctx has SSL_VERIFY_PEER
  handle,      \* handle[s]: the socket that opened the descriptor s uses
  fd,          \* the sockets whose own descriptor is open
  refCounter,  \* refCounter[h]: the counter of the descriptor h opened, 0 when
               \* it is not allocated
  loaded,      \* loaded[s]: what s read of its counter and has yet to change
  lost,        \* history: sockets whose counter lost an update, or whose
               \* descriptor was closed because another's had
  ctx, ssl,    \* "unset", "live" or "freed": what the pointers stand for
  hostent,     \* the host that the static hostent describes
  overtaken,   \* history: clients that found their host, and lost it to another
               \* client's before they connected
  past,        \* history: past[s] has "ready", "closed"
  misuse,      \* history: the sockets that gave OpenSSL a dead or wild pointer,
  twice,       \* and those that gave it one it had freed
  alive        \* the process runs

object == <<kind, m_ServerName, peer, verify, handle>>
counting == <<fd, refCounter, loaded, lost>>
keys == <<ctx, ssl, misuse, twice, alive>>
names == <<hostent, overtaken>>
vars == <<pc, object, counting, keys, names, past>>

Pointers == {"unset", "live", "freed"}

Places == {"unborn", "copy", "context", "configure", "accept", "resolve", "connect", "shake",
           "ready", "release", "gone"}

Init ==
  /\ pc = [s \in Sockets |-> "unborn"]
  /\ kind = [s \in Sockets |-> "server"]
  /\ m_ServerName = [s \in Sockets |-> Nowhere]
  /\ peer = [s \in Sockets |-> Nowhere]
  /\ verify = {}
  /\ handle = [s \in Sockets |-> s]
  /\ fd = {}
  /\ refCounter = [s \in Sockets |-> 0]
  /\ loaded = [s \in Sockets |-> 0]
  /\ lost = {}
  /\ ctx = [s \in Sockets |-> "unset"]
  /\ ssl = [s \in Sockets |-> "unset"]
  /\ hostent = Nowhere
  /\ overtaken = {}
  /\ past = [s \in Sockets |-> {}]
  /\ misuse = {} /\ twice = {}
  /\ alive = TRUE

-------------------------------------------------------------------------------
Move(s, from, to) ==
  /\ alive
  /\ pc[s] = from
  /\ pc' = [pc EXCEPT ![s] = to]

Remember(s, event) == past' = [past EXCEPT ![s] = @ \cup {event}]

Freed(pointer) == IF pointer = "live" THEN "freed" ELSE pointer

(* OpenSSL is given the pointers of s.  On a pointer that was never set or  *)
(* that was freed, anything may happen: here, the process goes on or ends.  *)
Hand(s, sound, freed) ==
  /\ misuse' = IF sound THEN misuse ELSE misuse \cup {s}
  /\ twice' = IF freed THEN twice \cup {s} ELSE twice
  /\ alive' \in IF sound THEN {alive} ELSE BOOLEAN

(* The context is freed and the ssl made from it is forgotten. *)
handle_error_KeepsSsl(s) ==
  /\ Hand(s, ctx[s] = "live", ctx[s] = "freed")
  /\ ctx' = [ctx EXCEPT ![s] = Freed(@)]
  /\ UNCHANGED ssl

(* SSL_free(ssl) and SSL_CTX_free(ctx): handle_error(), and the end of      *)
(* Close().  The pointers keep their values.                                *)
handle_error(s) ==
  /\ Hand(s, ssl[s] = "live" /\ ctx[s] = "live", ssl[s] = "freed" \/ ctx[s] = "freed")
  /\ ctx' = [ctx EXCEPT ![s] = Freed(@)]
  /\ ssl' = [ssl EXCEPT ![s] = Freed(@)]

(* Socket::Close of the number that h opened.  When it has been closed      *)
(* before, the number may stand for another socket's descriptor by now.     *)
CloseSocket(h, blamed) ==
  \E hit \in IF h \in fd THEN {{h}} ELSE {{}} \cup {{g} : g \in fd} :
    /\ fd' = fd \ hit
    /\ lost' = lost \cup blamed \cup (hit \ {h})

(* What is left of a deleted counter can be anything. *)
Load(s, h) ==
  \E n \in IF refCounter[h] = 0 THEN 0..Cardinality(Sockets) ELSE {refCounter[h]} :
    loaded' = [loaded EXCEPT ![s] = n]

Store(h, n) == refCounter' = [refCounter EXCEPT ![h] = IF @ = 0 THEN 0 ELSE n]

(* Storing loses an update when the counter is not what s found there. *)
LostUpdate(s) == IF refCounter[handle[s]] # loaded[s] THEN {handle[s]} ELSE {}

(* ~Socket when a constructor throws: nobody shares the counter yet. *)
DestructSocket(s) ==
  /\ CloseSocket(s, {})
  /\ refCounter' = [refCounter EXCEPT ![s] = 0]
  /\ UNCHANGED <<object, loaded>>

-------------------------------------------------------------------------------
(* SSLSocket: the constructor and Init. *)

(* The descriptor is an accepted or existing connection, or a client's own, *)
(* which is not connected yet.                                              *)
Construct(s) ==
  /\ Move(s, "unborn", "context")
  /\ fd' = fd \cup {s}
  /\ refCounter' = [refCounter EXCEPT ![s] = 1]
  /\ \/ UNCHANGED <<kind, m_ServerName, peer>>
     \/ /\ kind' = [kind EXCEPT ![s] = "bare"]
        /\ UNCHANGED <<m_ServerName, peer>>
     \/ \E name \in Hosts :
          /\ kind' = [kind EXCEPT ![s] = "client"]
          /\ m_ServerName' = [m_ServerName EXCEPT ![s] = name]
          /\ UNCHANGED peer
     \/ \E name, existing \in Hosts :
          /\ kind' = [kind EXCEPT ![s] = "existing"]
          /\ m_ServerName' = [m_ServerName EXCEPT ![s] = name]
          /\ peer' = [peer EXCEPT ![s] = existing]
  /\ UNCHANGED <<verify, handle, loaded, lost, keys, names, past>>

create_context(s) ==
  /\ Move(s, "context", "configure")
  /\ ctx' = [ctx EXCEPT ![s] = "live"]
  /\ UNCHANGED <<object, counting, ssl, misuse, twice, alive, names, past>>

create_context_throws(s) ==
  /\ Move(s, "context", "gone")
  /\ DestructSocket(s)
  /\ UNCHANGED <<keys, names, past>>

configure_server_context(s) ==
  /\ kind[s] = "server"
  /\ Move(s, "configure", "accept")
  /\ UNCHANGED <<object, counting, keys, names, past>>

(* SSL_CERT_FILE_PATH or SSL_KEY_FILE_PATH is missing.  Nobody frees ctx. *)
configure_server_context_throws(s) ==
  /\ kind[s] = "server"
  /\ Move(s, "configure", "gone")
  /\ DestructSocket(s)
  /\ UNCHANGED <<keys, names, past>>

(* The certificate or the key cannot be used: exit(). *)
configure_server_context_exits(s) ==
  /\ kind[s] = "server"
  /\ Move(s, "configure", "gone")
  /\ alive' = FALSE
  /\ UNCHANGED <<object, counting, ctx, ssl, misuse, twice, names, past>>

(* SSL_VERIFY_CERT decides whether certificates are verified.  An SSLSocket *)
(* made with the client's method is complete then, without an ssl;          *)
configure_client_context(s) ==
  /\ kind[s] \in {"client", "existing", "bare"}
  /\ Move(s, "configure", CASE kind[s] = "client" -> "resolve"
                            [] kind[s] = "existing" -> "shake"
                            [] kind[s] = "bare" -> "ready")
  /\ verify' \in {verify, verify \cup {s}}
  /\ UNCHANGED <<kind, m_ServerName, peer, handle, counting, keys, names, past>>

(* one made with a method of neither side is not even configured. *)
InitOther(s) ==
  /\ kind[s] = "bare"
  /\ Move(s, "configure", "ready")
  /\ UNCHANGED <<object, counting, keys, names, past>>

(* No trusted certificates, or no TLS 1.2: handle_error() frees an ssl that *)
(* was not set yet.                                                         *)
configure_client_context_throws(s) ==
  /\ kind[s] \in {"client", "existing", "bare"}
  /\ Move(s, "configure", "gone")
  /\ handle_error(s)
  /\ DestructSocket(s)
  /\ UNCHANGED <<names, past>>

(* SSL_new and SSL_accept. *)
SSLAccept(s) ==
  /\ Move(s, "accept", "ready")
  /\ ssl' = [ssl EXCEPT ![s] = "live"]
  /\ Remember(s, "ready")
  /\ UNCHANGED <<object, counting, ctx, misuse, twice, alive, names>>

(* The exception leaves ctx and ssl to a destructor that does not run. *)
SSLAcceptThrows_Forgets(s) ==
  /\ Move(s, "accept", "gone")
  /\ ssl' = [ssl EXCEPT ![s] = "live"]
  /\ DestructSocket(s)
  /\ UNCHANGED <<ctx, misuse, twice, alive, names, past>>

(* handle_error() frees both; ~SSLSocket does not run. *)
SSLAcceptThrows(s) ==
  /\ Move(s, "accept", "gone")
  /\ ssl' = [ssl EXCEPT ![s] = "freed"]
  /\ ctx' = [ctx EXCEPT ![s] = "freed"]
  /\ DestructSocket(s)
  /\ UNCHANGED <<misuse, twice, alive, names, past>>

-------------------------------------------------------------------------------
(* CClientSSLSocket: TcpConnect and SSLConnect, from the constructor's body. *)

Waiting == {t \in Sockets : pc[t] = "connect"}

(* A failure of gethostbyname() is logged, and what was found last is used. *)
Resolve_Unchecked(s) ==
  /\ Move(s, "resolve", "connect")
  /\ hostent' \in {m_ServerName[s], hostent} \ {Nowhere}
  /\ overtaken' = overtaken \cup Waiting
  /\ UNCHANGED <<object, counting, keys, past>>

(* gethostbyname() or gethostbyaddr() fills the static hostent, whoever was *)
(* about to read it.                                                        *)
Resolve(s) ==
  /\ Move(s, "resolve", "connect")
  /\ hostent' = m_ServerName[s]
  /\ overtaken' = overtaken \cup Waiting
  /\ UNCHANGED <<object, counting, keys, past>>

(* The name is not known: ~SSLSocket and ~Socket run, and the first closes  *)
(* an ssl that was not set yet.                                             *)
ResolveThrows(s) ==
  /\ Move(s, "resolve", "gone")
  /\ handle_error(s)
  /\ DestructSocket(s)
  /\ UNCHANGED <<names, past>>

(* gethostbyaddr() knows no name for an address, and TcpConnect uses the    *)
(* null pointer it returned.                                                *)
NoHostPointer(s) ==
  /\ Move(s, "resolve", "gone")
  /\ alive' = FALSE
  /\ UNCHANGED <<object, counting, ctx, ssl, misuse, twice, names, past>>

(* The address is taken from the static hostent as it is by now: half of it *)
(* may be another's, if another thread has been filling it.                 *)
TcpConnect(s) ==
  /\ Move(s, "connect", "shake")
  /\ \E host \in IF s \in overtaken THEN Hosts ELSE {hostent} :
       peer' = [peer EXCEPT ![s] = host]
  /\ UNCHANGED <<kind, m_ServerName, verify, handle, counting, keys, names, past>>

TcpConnectThrows(s) ==
  /\ Move(s, "connect", "gone")
  /\ handle_error(s)
  /\ DestructSocket(s)
  /\ UNCHANGED <<names, past>>

(* SSL_set1_host is left out: any valid certificate will do. *)
SSLConnect_AnyName(s) ==
  /\ Move(s, "shake", "ready")
  /\ ssl' = [ssl EXCEPT ![s] = "live"]
  /\ Remember(s, "ready")
  /\ UNCHANGED <<object, counting, ctx, misuse, twice, alive, names>>

(* SSL_new, SSL_set1_host and SSL_connect.  A server has a certificate for  *)
(* its own name only.                                                       *)
SSLConnect(s) ==
  /\ Move(s, "shake", "ready")
  /\ s \in verify => peer[s] = m_ServerName[s]
  /\ ssl' = [ssl EXCEPT ![s] = "live"]
  /\ Remember(s, "ready")
  /\ UNCHANGED <<object, counting, ctx, misuse, twice, alive, names>>

(* handle_error() frees ssl and ctx, and ~SSLSocket frees them again. *)
SSLConnectThrows(s) ==
  /\ Move(s, "shake", "gone")
  /\ ssl' = [ssl EXCEPT ![s] = "freed"]
  /\ ctx' = [ctx EXCEPT ![s] = "freed"]
  /\ Hand(s, FALSE, TRUE)
  /\ DestructSocket(s)
  /\ UNCHANGED <<names, past>>

-------------------------------------------------------------------------------
(* Use and end. *)

(* The end of the stream takes the branch of SSL_ERROR_ZERO_RETURN, which   *)
(* closes.                                                                  *)
ReceiveEnd_Closes(s) ==
  /\ Move(s, "ready", "ready")
  /\ handle_error(s)
  /\ UNCHANGED <<object, counting, names, past>>

(* ReceiveBytes at the end of the stream: SSL_read returns 0, which is not  *)
(* taken for an error, and the socket is left as it is.                     *)
ReceiveEnd(s) ==
  /\ Move(s, "ready", "ready")
  /\ Hand(s, ssl[s] = "live", ssl[s] = "freed")
  /\ UNCHANGED <<object, counting, ctx, ssl, names, past>>

(* The owner calls Close().  The descriptor stays open. *)
Close(s) ==
  /\ Move(s, "ready", "ready")
  /\ Remember(s, "closed")
  /\ handle_error(s)
  /\ UNCHANGED <<object, counting, names>>

(* SSLSocket(const SSLSocket &): the copy shares the descriptor; its ctx    *)
(* and ssl are not set.                                                     *)
Copy(s, o) ==
  /\ pc[o] = "ready"
  /\ Move(s, "unborn", "copy")
  /\ kind' = [kind EXCEPT ![s] = "copy"]
  /\ handle' = [handle EXCEPT ![s] = handle[o]]
  /\ Load(s, handle[o])
  /\ UNCHANGED <<m_ServerName, peer, verify, fd, refCounter, lost, keys, names, past>>

(* The counter is stored, one higher. *)
Copied(s) ==
  /\ Move(s, "copy", "ready")
  /\ Store(handle[s], loaded[s] + 1)
  /\ lost' = lost \cup LostUpdate(s)
  /\ UNCHANGED <<object, fd, loaded, keys, names, past>>

(* ~SSLSocket, which calls Close(); ~Socket reads the counter, *)
Destruct(s) ==
  /\ Move(s, "ready", "release")
  /\ handle_error(s)
  /\ Load(s, handle[s])
  /\ UNCHANGED <<object, fd, refCounter, lost, names, past>>

(* A copy's destructor closes the descriptor of the original. *)
Release_Uncounted(s) ==
  /\ Move(s, "release", "gone")
  /\ Store(handle[s], loaded[s] - 1)
  /\ fd' = fd \ {handle[s]}
  /\ lost' = lost \cup LostUpdate(s)
  /\ UNCHANGED <<object, loaded, keys, names, past>>

(* and stores it, one lower.  The last to count closes (Close() is          *)
(* Socket::Close() by then) and deletes it.  Deleting it twice may end the  *)
(* process.                                                                 *)
Release(s) ==
  /\ Move(s, "release", "gone")
  /\ Store(handle[s], loaded[s] - 1)
  /\ alive' \in IF loaded[s] = 1 /\ refCounter[handle[s]] = 0 THEN BOOLEAN ELSE {alive}
  /\ IF loaded[s] = 1 THEN CloseSocket(handle[s], LostUpdate(s))
     ELSE fd' = fd /\ lost' = lost \cup LostUpdate(s)
  /\ UNCHANGED <<object, loaded, ctx, ssl, misuse, twice, names, past>>

-------------------------------------------------------------------------------
Server(s) ==
  \/ configure_server_context(s) \/ configure_server_context_throws(s)
  \/ configure_server_context_exits(s)
  \/ SSLAccept(s) \/ SSLAcceptThrows(s)

Client(s) ==
  \/ configure_client_context(s) \/ configure_client_context_throws(s) \/ InitOther(s)
  \/ Resolve(s) \/ ResolveThrows(s) \/ NoHostPointer(s)
  \/ TcpConnect(s) \/ TcpConnectThrows(s)
  \/ SSLConnect(s) \/ SSLConnectThrows(s)

Next ==
  \E s \in Sockets :
    \/ Construct(s)
    \/ create_context(s) \/ create_context_throws(s)
    \/ Server(s) \/ Client(s)
    \/ ReceiveEnd(s) \/ Close(s) \/ Destruct(s) \/ Release(s)
    \/ Copied(s) \/ \E o \in Sockets : Copy(s, o)

Spec == Init /\ [][Next]_vars

-------------------------------------------------------------------------------
(* Properties. *)

(* Types, and: an ssl that lives has the ctx it was made from. *)
TypeOK ==
  /\ pc \in [Sockets -> Places]
  /\ kind \in [Sockets -> {"server", "bare", "client", "existing", "copy"}]
  /\ m_ServerName \in [Sockets -> Hosts \cup {Nowhere}]
  /\ peer \in [Sockets -> Hosts \cup {Nowhere}]
  /\ verify \subseteq Sockets
  /\ handle \in [Sockets -> Sockets]
  /\ fd \subseteq Sockets
  /\ refCounter \in [Sockets -> Int] /\ loaded \in [Sockets -> Int]
  /\ lost \subseteq Sockets
  /\ ctx \in [Sockets -> Pointers]
  /\ ssl \in [Sockets -> Pointers]
  /\ hostent \in Hosts \cup {Nowhere}
  /\ overtaken \subseteq Sockets
  /\ past \in [Sockets -> SUBSET {"ready", "closed"}]
  /\ misuse \subseteq Sockets /\ twice \subseteq misuse
  /\ alive \in BOOLEAN
  /\ \A s \in Sockets : ssl[s] = "live" => ctx[s] = "live"

(* The sockets that share the descriptor of h: constructed, or copied, and  *)
(* not destructed.                                                          *)
Users(h) == {s \in Sockets : pc[s] \notin {"unborn", "copy", "gone"} /\ handle[s] = h}

(* A descriptor is open for as long as one of the sockets that share it is  *)
(* in use, and no longer: whatever constructors ran into, and whichever of  *)
(* a socket and its copies is destructed last.  refCounter_ promises that   *)
(* unless a copy and a destructor, or two of them, change it at once and    *)
(* one's update is lost: then the descriptor is closed under its users, or  *)
(* never, or again, when the number may be another's.                       *)
DescriptorHeld ==
  alive => \A h \in Sockets \ lost : h \in fd <=> Users(h) # {}

(* ctx and ssl are freed, and once.  Twice, or unset, only by four kinds    *)
(* of sockets: clients whose constructor threw, sockets that have no ssl    *)
(* since they were made with another method, copies, and sockets whose      *)
(* owner called Close().  Never, only the ctx of a server socket that found *)
(* no certificate configured.  An SSLSocket that is merely used and         *)
(* destructed, also after the end of its stream, or whose handshake failed, *)
(* frees both once.                                                         *)
OtherwiseFreedOnce ==
  /\ \A s \in misuse :
       \/ "closed" \in past[s]
       \/ kind[s] \in {"client", "existing"} /\ "ready" \notin past[s]
       \/ kind[s] \in {"bare", "copy"}
  /\ \A s \in Sockets : alive /\ pc[s] = "gone" =>
       /\ ssl[s] # "live"
       /\ ctx[s] = "live" => kind[s] = "server" /\ ssl[s] = "unset"

(* A client that has connected talks to the server it was made for.  It may *)
(* be another server's address that it connected to only when another       *)
(* client's Resolve came between its own Resolve and its connect(), and     *)
(* only when certificates are not verified can that go unnoticed.           *)
TalksToItsServer ==
  \A s \in Sockets : kind[s] = "client" /\ pc[s] = "ready" =>
    peer[s] = m_ServerName[s] \/ s \in overtaken \ verify

(* "Free the resources we allocated" (SSLSocket.cpp): and only once. *)
FreedOnce == twice = {}
===============================================================================
