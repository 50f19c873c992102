--------------------------- MODULE TcpConnections ---------------------------
(***************************************************************************)
(* TcpConnection (connection_pool/TcpConnection.h), the implementation of  *)
(* cpool::Connection, and the CClientSocket it owns: who owns which        *)
(* descriptor of the process while connections are made, made again and    *)
(* given up.                                                               *)
(*                                                                         *)
(* A Socket knows its descriptor as a number, s_.  The kernel gives a      *)
(* number away again as soon as it is closed, so what a number stands for  *)
(* may change between two system calls; a system call is a step here.  A   *)
(* connection is used by one thread at a time, and different connections   *)
(* by different threads, whose steps interleave without restriction.       *)
(*                                                                         *)
(* disconnect() closes one number three times, so that its later closes    *)
(* may reach a file that somebody opened in between; the history robbed    *)
(* and stale says who lost a file in this way, or through somebody who     *)
(* did.                                                                    *)
(***************************************************************************)
EXTENDS Integers

CONSTANTS
  Connections,   \* the TcpConnection objects of the process
  MaxFd,         \* the highest descriptor the process may open
  Other,         \* the rest of the process, which opens files of its own
  None           \* no open file

ASSUME TcpAssumption ==
  /\ MaxFd \in Nat
  /\ Other \notin Connections
  /\ None \notin Connections \cup {Other}

Fds == 0..MaxFd

INVALID_SOCKET == -1

VARIABLES
  table,      \* table[f]: who opened the file that f now stands for, or None
  others,     \* the descriptors the rest of the process holds
  stale,      \* numbers it takes for its own though a repeated close took them
  robbed,     \* connections whose file a repeated close took
  s_,         \* s_[c]: the descriptor as the socket of c knows it
  pc,         \* pc[c]: what comes next for c
  connected   \* connected[c]

vars == <<table, others, stale, robbed, s_, pc, connected>>

(* "unborn": not constructed.  "new", "link", "unwind": in the constructor. *)
(* "idle": no call is under way, client_socket is set.  "close", "reopen",  *)
(* "relink": in connect().  "close1", "close2", "close3": in disconnect().  *)
(* "gone": client_socket is null.                                           *)
Places == {"unborn", "new", "link", "unwind", "idle", "close", "reopen", "relink",
           "close1", "close2", "close3", "gone"}

Goto(c, place) == pc' = [pc EXCEPT ![c] = place]

Init ==
  /\ table = [f \in Fds |-> None]
  /\ others = {}
  /\ stale = {}
  /\ robbed = {}
  /\ s_ = [c \in Connections |-> INVALID_SOCKET]
  /\ pc = [c \in Connections |-> "unborn"]
  /\ connected = [c \in Connections |-> FALSE]

-------------------------------------------------------------------------------
(* The kernel: open takes the lowest free number, close frees a number      *)
(* whoever opened it, and fails with no effect on one that is not open.     *)

Free(f) == table[f] = None /\ \A g \in 0..(f - 1) : table[g] # None

CloseSocket(f) == table' = IF f \in Fds THEN [table EXCEPT ![f] = None] ELSE table

(* A close of f by somebody to whom f does not belong any more.             *)
Robs(f) ==
  /\ robbed' = robbed \cup ({table[g] : g \in Fds \cap {f}} \cap Connections)
  /\ others' = others \ {f}
  /\ stale' = (stale \ {f}) \cup (others \cap {f})

OtherOpens(f) ==
  /\ Free(f)
  /\ table' = [table EXCEPT ![f] = Other]
  /\ others' = others \cup {f}
  /\ UNCHANGED <<stale, robbed, s_, pc, connected>>

OtherCloses(f) ==
  /\ f \in others
  /\ CloseSocket(f)
  /\ others' = others \ {f}
  /\ UNCHANGED <<stale, robbed, s_, pc, connected>>

(* The rest of the process closes a number it was robbed of. *)
OtherClosesStale(f) ==
  /\ f \in stale
  /\ CloseSocket(f)
  /\ Robs(f)
  /\ UNCHANGED <<s_, pc, connected>>

-------------------------------------------------------------------------------
(* Calls. *)

(* new TcpConnection, which makes a new CClientSocket. *)
Construct(c) ==
  /\ pc[c] = "unborn"
  /\ Goto(c, "new")
  /\ UNCHANGED <<table, others, stale, robbed, s_, connected>>

(* connect(), which is client_socket->Reconnect(). *)
CallConnect(c) ==
  /\ pc[c] = "idle"
  /\ Goto(c, "close")
  /\ UNCHANGED <<table, others, stale, robbed, s_, connected>>

(* disconnect(), also from the destructor, with client_socket set. *)
CallDisconnect(c) ==
  /\ pc[c] = "idle"
  /\ Goto(c, "close1")
  /\ UNCHANGED <<table, others, stale, robbed, s_, connected>>

-------------------------------------------------------------------------------
(* Steps of a call. *)

(* Socket::Close() and close(): what the number stands for is closed.  The  *)
(* repeated closes of disconnect() may rob somebody of a file, and so may   *)
(* one who was robbed.                                                      *)
Close(c) ==
  /\ CloseSocket(s_[c])
  /\ IF pc[c] \in {"close2", "close3"} \/ c \in robbed
     THEN Robs(s_[c])
     ELSE UNCHANGED <<robbed, others, stale>>

(* Reconnect makes the new socket and forgets the old one. *)
CloseOld_Forgets(c) ==
  /\ pc[c] = "close"
  /\ Goto(c, "reopen")
  /\ UNCHANGED <<table, others, stale, robbed, s_, connected>>

(* Reconnect closes the socket it has.  s_ keeps the number. *)
CloseOld(c) ==
  /\ pc[c] = "close"
  /\ Close(c)
  /\ Goto(c, "reopen")
  /\ UNCHANGED <<s_, connected>>

(* CreateSocket, in the constructor of Socket or in Reconnect. *)
CreateSocket(c) ==
  /\ \/ pc[c] = "new" /\ Goto(c, "link")
     \/ pc[c] = "reopen" /\ Goto(c, "relink")
  /\ \E f \in Fds :
       /\ Free(f)
       /\ table' = [table EXCEPT ![f] = c]
       /\ s_' = [s_ EXCEPT ![c] = f]
  /\ robbed' = robbed \ {c}
  /\ UNCHANGED <<others, stale, connected>>

(* The number of the closed socket stays in s_ when no other can be made. *)
CreateSocketThrows_KeepsNumber(c) ==
  /\ \/ pc[c] = "new" /\ Goto(c, "unborn")
     \/ pc[c] = "reopen" /\ Goto(c, "idle")
  /\ UNCHANGED <<table, others, stale, robbed, s_, connected>>

(* CreateSocket throws: a constructor that throws leaves no object, a       *)
(* Reconnect leaves s_ = -1.                                                *)
CreateSocketThrows(c) ==
  /\ \/ pc[c] = "new" /\ Goto(c, "unborn")
     \/ pc[c] = "reopen" /\ Goto(c, "idle")
  /\ s_' = [s_ EXCEPT ![c] = INVALID_SOCKET]
  /\ UNCHANGED <<table, others, stale, robbed, connected>>

(* Connect succeeds.  The constructor of TcpConnection does not set         *)
(* connected, connect() does.                                               *)
Connect(c) ==
  /\ pc[c] \in {"link", "relink"}
  /\ Goto(c, "idle")
  /\ connected' = [connected EXCEPT ![c] = @ \/ pc[c] = "relink"]
  /\ UNCHANGED <<table, others, stale, robbed, s_>>

(* Connect throws: the constructor unwinds, a Reconnect leaves the socket   *)
(* open and connected as it was.                                            *)
ConnectThrows(c) ==
  /\ \/ pc[c] = "link" /\ Goto(c, "unwind")
     \/ pc[c] = "relink" /\ Goto(c, "idle")
  /\ UNCHANGED <<table, others, stale, robbed, s_, connected>>

(* ~Socket of the CClientSocket whose constructor threw. *)
Unwind(c) ==
  /\ pc[c] = "unwind"
  /\ Close(c)
  /\ s_' = [s_ EXCEPT ![c] = INVALID_SOCKET]
  /\ Goto(c, "unborn")
  /\ UNCHANGED connected

(* disconnect() does not reset connected. *)
Disconnect_StaysConnected(c) ==
  /\ Close(c)
  /\ UNCHANGED connected
  /\ \/ pc[c] = "close1" /\ Goto(c, "close2") /\ UNCHANGED s_
     \/ pc[c] = "close2" /\ Goto(c, "close3") /\ UNCHANGED s_
     \/ pc[c] = "close3" /\ Goto(c, "gone") /\ s_' = [s_ EXCEPT ![c] = INVALID_SOCKET]

(* disconnect() closes, then ~CClientSocket, then ~Socket: three closes of  *)
(* one number.                                                              *)
Disconnect(c) ==
  /\ Close(c)
  /\ \/ pc[c] = "close1" /\ Goto(c, "close2") /\ UNCHANGED <<s_, connected>>
     \/ pc[c] = "close2" /\ Goto(c, "close3") /\ UNCHANGED <<s_, connected>>
     \/ /\ pc[c] = "close3"
        /\ Goto(c, "gone")
        /\ s_' = [s_ EXCEPT ![c] = INVALID_SOCKET]
        /\ connected' = [connected EXCEPT ![c] = FALSE]

-------------------------------------------------------------------------------
Step(c) ==
  \/ CloseOld(c)
  \/ CreateSocket(c) \/ CreateSocketThrows(c)
  \/ Connect(c) \/ ConnectThrows(c)
  \/ Unwind(c)
  \/ Disconnect(c)

Next ==
  \/ \E c \in Connections :
       Construct(c) \/ CallConnect(c) \/ CallDisconnect(c) \/ Step(c)
  \/ \E f \in Fds : OtherOpens(f) \/ OtherCloses(f) \/ OtherClosesStale(f)

Spec == Init /\ [][Next]_vars

-------------------------------------------------------------------------------
(* Properties. *)

(* Types, and: heart_beat() never reports a connection that has no socket   *)
(* (it may report one whose last connect() threw).                          *)
TypeOK ==
  /\ table \in [Fds -> Connections \cup {Other, None}]
  /\ others \subseteq Fds
  /\ stale \subseteq Fds
  /\ robbed \subseteq Connections
  /\ s_ \in [Connections -> Fds \cup {INVALID_SOCKET}]
  /\ pc \in [Connections -> Places]
  /\ connected \in [Connections -> BOOLEAN]
  /\ \A c \in Connections :
       connected[c] => pc[c] \notin {"unborn", "new", "link", "unwind", "gone"}

(* Where a connection relies on its descriptor. *)
Uses(c) == pc[c] \in {"link", "unwind", "idle", "close", "relink", "close1"}

(* While a connection relies on s_, that number stands for the file it      *)
(* opened, and so it is with the descriptors of the rest of the process,    *)
(* in every interleaving of Reconnect, the constructors that fail, and      *)
(* disconnect(): the second and third close of a disconnect(), and the      *)
(* closes of those who lost a file to them, are the only ones that reach    *)
(* somebody else's file.                                                    *)
DescriptorsKept ==
  /\ \A c \in Connections \ robbed :
       Uses(c) /\ s_[c] # INVALID_SOCKET => table[s_[c]] = c
  /\ \A f \in others : table[f] = Other

(* No descriptor is leaked: what a connection opened is the one it knows,   *)
(* also after a Connect that threw in Reconnect or in the constructor, and  *)
(* disconnect() leaves none.                                                *)
NoneLeaked ==
  \A f \in Fds, c \in Connections : table[f] = c => s_[c] = f /\ Uses(c)
===============================================================================
