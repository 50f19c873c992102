------------------------------ MODULE ProxyRelay ------------------------------
(***************************************************************************)
(* One session of CProxySocket: the loop of ThreadHandler                  *)
(* (interface/CProxySocket.cpp), run by one worker thread, over the        *)
(* client's socket and the target's, with SocketSelect and                 *)
(* Socket::ReceiveBytes and SendBytes.  LibuvProxySocket::ThreadHandler is *)
(* the same loop.  Sockets are connected when the loop starts.             *)
(*                                                                         *)
(* The peers run at their own pace between any two steps of the worker: in *)
(* particular between select() and recv(), and between two recv() calls.   *)
(*                                                                         *)
(* Data are units, numbered in the order their peer writes them; a unit is *)
(* the bytes one recv() could take at the least.  Handlers are external:   *)
(* a unit stands also for what a handler makes of it, and a handler that   *)
(* throws is an outcome of its call.                                       *)
(***************************************************************************)
EXTENDS Naturals, Sequences

CONSTANTS
  MaxSent,        \* bound: how many units a peer writes
  ReadBuffer,     \* how many units one recv() takes at most (READ_BUFFER)
  Window,         \* how many unread units a peer's socket buffer holds
  HandlerThrows,  \* on which data the handlers may throw: "data", "empty"
  SelectErrors    \* whether select() may fail (EINTR)

ASSUME RelayAssumption ==
  /\ MaxSent \in Nat
  /\ ReadBuffer \in Nat \ {0}
  /\ Window \in Nat \ {0}
  /\ HandlerThrows \subseteq {"data", "empty"}
  /\ SelectErrors \in BOOLEAN

Sides == {"client", "target"}

Other(s) == IF s = "client" THEN "target" ELSE "client"

VARIABLES
  (* the network and the peers *)
  sent,     \* sent[s]: how many units peer s has written
  wire,     \* wire[s]: those the worker has not received yet
  fin,      \* the peers that have shut down their writing half
  gone,     \* those that have closed their socket altogether
  got,      \* got[s]: the units delivered to peer s's socket
  unread,   \* unread[s]: how many of them peer s has still to read
  (* the worker *)
  pc,       \* "select", "check", "more", "handle", "send", "over"
  side,     \* the socket this half of the turn is about
  ready,    \* fds_ of this turn's SocketSelect
  still,    \* still_connected
  bytes     \* bytes, and then what is left to send of response

peers == <<sent, wire, fin, gone, got, unread>>
worker == <<pc, side, ready, still, bytes>>
vars == <<peers, worker>>

Init ==
  /\ sent = [s \in Sides |-> 0]
  /\ wire = [s \in Sides |-> <<>>]
  /\ fin = {}
  /\ gone = {}
  /\ got = [s \in Sides |-> <<>>]
  /\ unread = [s \in Sides |-> 0]
  /\ pc = "select"
  /\ side = "client"
  /\ ready = {}
  /\ still = TRUE
  /\ bytes = <<>>

-------------------------------------------------------------------------------
(* The peers. *)

PeerWrites(s) ==
  /\ s \notin fin
  /\ sent[s] < MaxSent
  /\ sent' = [sent EXCEPT ![s] = @ + 1]
  /\ wire' = [wire EXCEPT ![s] = Append(@, sent[s] + 1)]
  /\ UNCHANGED <<fin, gone, got, unread, worker>>

PeerReads(s) ==
  /\ s \notin gone
  /\ unread[s] > 0
  /\ unread' = [unread EXCEPT ![s] = @ - 1]
  /\ UNCHANGED <<sent, wire, fin, gone, got, worker>>

PeerShuts(s) ==
  /\ s \notin fin
  /\ fin' = fin \cup {s}
  /\ UNCHANGED <<sent, wire, gone, got, unread, worker>>

PeerCloses(s) ==
  /\ s \notin gone
  /\ fin' = fin \cup {s}
  /\ gone' = gone \cup {s}
  /\ UNCHANGED <<sent, wire, got, unread, worker>>

-------------------------------------------------------------------------------
(* A turn of the loop: select, the client's half, the target's half. *)

(* Data or end of file can be received without waiting. *)
Readable(s) == wire[s] # <<>> \/ s \in fin

BeginTurn ==
  /\ pc = "select"
  /\ still' = TRUE
  /\ side' = "client"
  /\ pc' = "check"
  /\ UNCHANGED <<peers, bytes>>

(* Sockets found readable in an earlier turn are still in the set. *)
Select_Accumulates ==
  /\ BeginTurn
  /\ ready' = ready \cup {s \in Sides : Readable(s)}

(* Only the client's socket is put in the set. *)
Select_ClientOnly ==
  /\ BeginTurn
  /\ ready' = {s \in {"client"} : Readable(s)}

(* select() leaves in fds_ the sockets that are readable when it returns,   *)
(* within a microsecond and possibly none.                                  *)
Select ==
  /\ BeginTurn
  /\ ready' = {s \in Sides : Readable(s)}

(* The constructor catches the exception it throws when select() fails, and *)
(* leaves fds_ as it was set up: both sockets look readable.                *)
SelectFails ==
  /\ SelectErrors
  /\ BeginTurn
  /\ ready' = Sides

(* The turn ends although data received in it are still at hand. *)
Proceed_KeepsBytes(connected) ==
  /\ bytes' = bytes
  /\ still' = connected
  /\ UNCHANGED ready
  /\ \/ side = "client" /\ side' = "target" /\ pc' = "check"
     \/ /\ side = "target" /\ UNCHANGED side
        /\ pc' = IF connected THEN "select" ELSE "over"

(* After the client's half comes the target's, then the loop's condition. *)
Proceed(connected) ==
  /\ bytes' = <<>>
  /\ still' = connected
  /\ UNCHANGED ready
  /\ \/ side = "client" /\ side' = "target" /\ pc' = "check"
     \/ /\ side = "target" /\ UNCHANGED side
        /\ pc' = IF connected THEN "select" ELSE "over"

(* Readable() is false of this socket. *)
SkipSide ==
  /\ pc = "check"
  /\ side \notin ready
  /\ Proceed(still)
  /\ UNCHANGED peers

(* What is received last is put in front. *)
Take_Prepends(n) ==
  /\ bytes' = SubSeq(wire[side], 1, n) \o bytes
  /\ wire' = [wire EXCEPT ![side] = SubSeq(@, n + 1, Len(@))]

(* The first n units of the wire, in the order they were written. *)
Take(n) ==
  /\ bytes' = bytes \o SubSeq(wire[side], 1, n)
  /\ wire' = [wire EXCEPT ![side] = SubSeq(@, n + 1, Len(@))]

(* ReceiveBytes: a recv() that returns data.  IsSerialDataAvailable() makes *)
(* the loop go on for as long as there are more.                            *)
ReceiveData ==
  /\ \/ pc = "check" /\ side \in ready
     \/ pc = "more"
  /\ wire[side] # <<>>
  /\ Take(IF Len(wire[side]) < ReadBuffer THEN Len(wire[side]) ELSE ReadBuffer)
  /\ pc' = "more"
  /\ UNCHANGED <<sent, fin, gone, got, unread, side, ready, still>>

(* ReceiveBytes: no more data are available. *)
ReceiveEnds ==
  /\ pc = "more"
  /\ wire[side] = <<>>
  /\ pc' = "handle"
  /\ UNCHANGED <<peers, side, ready, still, bytes>>

(* ReceiveBytes: the first recv() returns 0 at the end of the stream, or -1 *)
(* when the receive timeout of one second has passed.  The caller sees the  *)
(* same empty string.                                                       *)
ReceiveNothing ==
  /\ pc = "check"
  /\ side \in ready
  /\ wire[side] = <<>>
  /\ pc' = "handle"
  /\ UNCHANGED <<peers, side, ready, still, bytes>>

(* HandleUpstreamData or HandleDownStreamData throws: what was received is  *)
(* not sent, and an empty string does not end the session.                  *)
HandlerFails ==
  /\ pc = "handle"
  /\ (IF bytes = <<>> THEN "empty" ELSE "data") \in HandlerThrows
  /\ Proceed(still)
  /\ UNCHANGED peers

(* An empty string does not end the session. *)
HandleEmpty_StaysConnected ==
  /\ pc = "handle"
  /\ bytes = <<>>
  /\ Proceed(still)
  /\ UNCHANGED peers

(* The handler answers nothing to the empty string. *)
HandleEmpty ==
  /\ pc = "handle"
  /\ bytes = <<>>
  /\ Proceed(FALSE)
  /\ UNCHANGED peers

HandleData ==
  /\ pc = "handle"
  /\ bytes # <<>>
  /\ pc' = "send"
  /\ UNCHANGED <<peers, side, ready, still, bytes>>

(* A send() that takes only what there is room for. *)
SendUnit_Truncates ==
  LET to == Other(side) IN
  /\ pc = "send"
  /\ bytes # <<>>
  /\ to \notin gone
  /\ unread[to] < Window
  /\ got' = [got EXCEPT ![to] = Append(@, Head(bytes))]
  /\ unread' = [unread EXCEPT ![to] = @ + 1]
  /\ bytes' = <<>>
  /\ UNCHANGED <<sent, wire, fin, gone, pc, side, ready, still>>

(* send() blocks until the peer's socket buffer has room for all of it. *)
SendUnit ==
  LET to == Other(side) IN
  /\ pc = "send"
  /\ bytes # <<>>
  /\ to \notin gone
  /\ unread[to] < Window
  /\ got' = [got EXCEPT ![to] = Append(@, Head(bytes))]
  /\ unread' = [unread EXCEPT ![to] = @ + 1]
  /\ bytes' = Tail(bytes)
  /\ UNCHANGED <<sent, wire, fin, gone, pc, side, ready, still>>

SendEnds ==
  /\ pc = "send"
  /\ bytes = <<>>
  /\ Proceed(still)
  /\ UNCHANGED peers

(* SendBytes does not look at what send() returns: nobody gets the rest. *)
SendLost ==
  /\ pc = "send"
  /\ bytes # <<>>
  /\ Other(side) \in gone
  /\ Proceed(still)
  /\ UNCHANGED peers

-------------------------------------------------------------------------------
WorkerStep ==
  \/ Select \/ SelectFails \/ SkipSide
  \/ ReceiveData \/ ReceiveEnds \/ ReceiveNothing
  \/ HandlerFails \/ HandleEmpty \/ HandleData
  \/ SendUnit \/ SendEnds \/ SendLost

Next ==
  \/ WorkerStep
  \/ \E s \in Sides : PeerWrites(s) \/ PeerReads(s) \/ PeerShuts(s) \/ PeerCloses(s)

Spec == Init /\ [][Next]_vars

(* The worker's thread is run, and a peer that is there reads what it got;  *)
(* a peer that never reads blocks the worker in send() for ever.            *)
Fairness ==
  /\ WF_vars(WorkerStep)
  /\ \A s \in Sides : WF_vars(PeerReads(s))

FairSpec == Spec /\ Fairness
-------------------------------------------------------------------------------
(* Properties. *)

TypeOK ==
  /\ sent \in [Sides -> 0..MaxSent]
  /\ wire \in [Sides -> Seq(1..MaxSent)]
  /\ fin \subseteq Sides
  /\ gone \subseteq fin
  /\ got \in [Sides -> Seq(1..MaxSent)]
  /\ unread \in [Sides -> 0..Window]
  /\ pc \in {"select", "check", "more", "handle", "send", "over"}
  /\ side \in Sides
  /\ ready \subseteq Sides
  /\ still \in BOOLEAN
  /\ bytes \in Seq(1..MaxSent)
  /\ pc \in {"select", "check", "over"} => bytes = <<>>

(* Whatever the handlers and the peers do, a peer never gets a unit twice   *)
(* nor out of order: what is lost with a handler that throws, or with a     *)
(* peer that is gone, is not sent later (ReceiveBytes, SendBytes).          *)
InOrder ==
  \A s \in Sides : \A i, j \in 1..Len(got[s]) : i < j => got[s][i] < got[s][j]

(* recv() never makes the worker wait: what select() saw of a socket is     *)
(* still true when its half of the turn comes, after the other half's       *)
(* receives, handler and send.                                              *)
NeverWaitsInReceive ==
  pc = "check" /\ side \in ready => Readable(side)

(* Once a peer has shut down or closed, the session ends, unless a handler  *)
(* throws on the empty string.                                              *)
SessionEnds == fin # {} ~> pc = "over"

(* A unit that was written reaches the other peer, or the session ends, or  *)
(* that peer goes away: neither direction starves the other.                *)
Relayed ==
  \A s \in Sides, n \in 1..MaxSent :
    sent[s] >= n ~> \/ Len(got[Other(s)]) >= n
                    \/ pc = "over"
                    \/ Other(s) \in gone

(* The session is a pair of lossless, ordered streams with one end. *)
Stream == INSTANCE RelayStreams WITH
  Streams <- Sides,
  written <- sent,
  passed <- [s \in Sides |-> got[Other(s)]],
  finished <- fin,
  cut <- {s \in Sides : Other(s) \in gone},
  over <- (pc = "over")

StreamSpec == Stream!Spec
===============================================================================
