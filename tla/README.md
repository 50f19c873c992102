# A verification development for asabru-engine

asabru-engine is the socket engine of the ChistaDATA database proxy: a server
that accepts database clients, connects each to a target and relays bytes
through user-supplied handlers, and the parts around it (a connection pool, TLS
sockets, a libuv variant, a decoder for the ClickHouse protocol). These TLA+
modules model it from its source under `src/`, TLC checks them on small
instances, and TLAPS proves the theorems listed below for every value of the
constants. Paths below are relative to the repository's `src/` directory unless
they start with `tests/` or `include/`.

## 1. Inventory

| Part | Code | State | Operations |
|---|---|---|---|
| Connection pool | `connection_pool/pool.cpp`, `include/connection-pool/` | idle map, busy map, one mutex; in the callers' hands, proxies that point to a connection | `get_connection`, `release_connection`, `heart_beat`, moves and destruction of proxies |
| TCP connection | `connection_pool/TcpConnection.h`, `socket/CClientSocket.cpp` | a socket object with a descriptor number, `connected` | construct, `connect` (Reconnect), `disconnect`, destruct, `heart_beat` |
| Socket | `socket/Socket.cpp`, `SocketSelect.cpp` | descriptor number, reference count | receive bytes, a line or an exact length; send; close |
| Server | `socket/CServerSocket.cpp` | listening socket, listener thread, tasks on the process's thread pool | `Open`, `Accept`, `ListenThreadProc`, `ClientThreadProc` |
| Relay | `interface/CProxySocket.cpp`, `LibuvProxySocket.cpp` | two sockets, `still_connected`, the bytes in hand | `ThreadHandler` |
| Configuration | `interface/CProxySocket.h`, `CApiGatewaySocket.*`, `CProtocolSocket.h` | handler, pipeline routine, services, load balancer | `SetHandler`, `SetPipeline`, `SetConfigValues`, `Start` |
| Protocol server | `interface/CProtocolSocket.cpp` | one socket, a buffer | request loop |
| TLS sockets | `socket/SSLSocket.cpp`, `CClientSSLSocket.cpp` | `ctx`, `ssl`, descriptor | construct and handshake, receive, send, `Close`, destruct |
| libuv server | `libuv-socket/LibuvServerSocket.cpp` | event loop, client and target handles | `Open`, loop thread, `on_new_connection` |
| ClickHouse codec | `decoder/ClickHouse_Wire.cpp` | a buffer and an index | read and write numbers and strings, hello packets |
| HTTP handler | `protocol-handlers/` | none | a fixed answer |

How they interact. The owner of a `CProxySocket` sets its handler and calls
`Start`, which binds, listens and creates the listener thread. The listener
blocks in `accept`, wraps each connection in a `Socket` and a heap-allocated
`CLIENT_DATA`, and pushes a task on `ThreadPoolSingleton::pool` (in
asabru-commons). A worker of that pool runs `ClientThreadProc`, which calls the
routine of the server: `ThreadHandler` connects to a target and relays until a
peer closes. Listener and workers share the queue, the server object and the
descriptors of the process. The connection pool is used by any thread; it calls
`connect` and `heart_beat` of `Connection` objects while it holds its mutex.

What is hard. Proxies of the pool are moved and destroyed by threads that do
not hold the mutex, and a proxy that was given up still knows its connection.
The relay acts on what `select` saw some system calls ago. A session is one
thread for two directions and has one end for both. A descriptor number is
meaningful only until it is closed, and is closed by more than one owner. The
counter that copies of a socket share is a plain `int`. No session closes its
sockets. Exceptions thrown half-way through an operation are
caught at various levels, or not at all.

What makes each part correct:

- Pool: the maps partition the connections; no two callers hold one connection;
  what a caller holds is busy, and what is busy somebody holds; loops of the
  pool do not touch what a caller uses; a caller is told that there is no
  connection only if no idle one is up; the mutex comes back and calls return.
- Relay: nothing is duplicated or reordered; with well-behaved handlers nothing
  is lost; the worker never blocks on a socket that has nothing to say; a
  session ends if, and only if, a peer closes; neither direction starves.
- Server: each connection gets exactly one session, in order, and is served in
  the end; descriptors are spent on clients and their targets and nothing else.
- TCP connection: `s_` stands for the socket's own file, and no file is lost.
- Codec: what is written is read back, and fields stay aligned.
- TLS: `ctx` and `ssl` are released once, and not used afterwards; a descriptor
  is open for as long as a socket or a copy uses it; a client talks to the server
  it was made for.
- Reads: a line is never more than a line; an exact length fills the buffer, and
  no failed read makes it write past the end; nothing stays where `select` cannot
  see it; calls return, but for `RecvBlocking` on a socket all of whose reads fail.
- libuv: as the server, with a single thread.
- Configuration: sessions run with what was configured before `Start`, and a
  server that accepts clients does so on its own listening socket.

## 2. Modules

```
LeasePool        <--refines--  ConnectionPool   <-- MCConnectionPool, ConnectionPoolProofs
RelayStreams     <--refines--  ProxyRelay       <-- ProxyRelayProofs
                               ServerDispatch   <-- MCServerDispatch, ServerDispatchProofs
                               ServerSetup      <-- MCServerSetup, ServerSetupProofs
                               TcpConnections   <-- TcpConnectionsProofs
                               SecureSockets    <-- MCSecureSockets, SecureSocketsProofs
                               SocketReads      <-- SocketReadsProofs
                               WireCodec        <-- MCWireCodec, WireCodecProofs
```

The modules meet at these places: a server that `ServerSetup` has brought to
accept clients is the one whose listener `ServerDispatch` runs; the stage
`"relay"` there is a session of `ProxyRelay`; the connections the pool hands out
are `TcpConnections`, whose `connect()` results are `ConnectResults`.

### ConnectionPool and LeasePool

`idle`, `busy` are the keys of the two maps, `mtx` is the owner of
`m_connections_mtx`, `proxy[p]` is the `m_connection` of the `ConnectionProxy`
at place `p` (`m_pool` and `m_connection` are null together in every constructor
and move, so one value does for both). A call is three kinds of steps: the call,
taking the mutex (`Lock`), and its body. The bodies of `get_connection` and
`heart_beat` are loops over the idle map that call out (`connect()`,
`heart_beat()`), so that one iteration is one step (`CheckHealthy`,
`CheckConnected`, `SkipRefused`, `BeatOne`) and other threads run in between.
What `check_connect` has accepted is `chosen`, and is handed out in a step of
its own (`HandOut`): a link may drop after the check (`LinkDrops`). The body of
`release_connection` is `MakeIdle`, used by `Release` (the public function,
which leaves its argument's pointers alone) and by `Destroy` (the destructor).
Moves take no lock and happen at any time.

What callers may do is `Habits`, a constant: `"explicit_release"` lets them call
`release_connection(std::move(p))`, as `tests/test_basic.h` does, and
`"overwrite"` lets them assign to a proxy that holds a connection. Which
implementation of `Connection` is in use is `ReportsHealth` (`TestConnection`
answers truthfully, `TcpConnection::is_healthy` is always false) and
`ConnectResults`: a `connect()` returns true or false or throws, and
`check_connect` takes one that throws for success. Callers do not race on one
proxy object, which C++ forbids. `valid`, `size` and their like lock and change
nothing; a release of a null proxy returns at once: neither is an action.

`LeasePool` is the promise to a caller: free connections, and leases that are
taken, handed on and returned. `LeaseSpec` is the refinement with `free <- idle`
and the leases the proxies that were not given up.

### ProxyRelay and RelayStreams

One session from the moment both sockets are connected. Peers (external) write,
read, shut down and close between any two steps of the worker. A turn is
`Select`, then for the client's socket and then the target's: `SkipSide`, or
`ReceiveData`* `ReceiveEnds` / `ReceiveNothing` (`Socket::ReceiveBytes` with its
`recv`/`FIONREAD` loop), the handler (`HandleData`, `HandleEmpty`,
`HandlerFails`), and the blocking send unit by unit (`SendUnit`, `SendEnds`,
`SendLost`). `still` is `still_connected`; the end of the target's half is the
test at the bottom of the loop (`Proceed`). `recv` and the `FIONREAD` that
follows are two steps; the worker touches nothing else in between. Data are
units numbered by their writer; a handler maps a unit to a unit, returns nothing
for the empty string, and may throw on what `HandlerThrows` lists. The loop of
`LibuvProxySocket` is the same text.

`RelayStreams` is a pair of lossless ordered streams with one end: units are
passed on in order, and the session ends only after a peer that finished has had
everything it wrote passed on (or its reader is gone). It promises nothing about
the other stream at that moment, and neither does the code: a client that shuts
down its writing half does not get the rest of the answer.

### ServerDispatch

The listener (`CallAccept`, `Accept`, `AcceptThrows`, `PushTask`), the queue of
the thread pool, and the workers up to a connected pair of sockets
(`StartSession`, `NoHandler`, `OpenTarget`, `ConnectTarget`, and the two ways to
throw); the relay itself is a stage that lasts as long as the peers want. With
`kind = "protocol"` the server is a `CProtocolSocket`: no target is connected
and the session is its request loop (`EnterRequests`, `RequestsEnd`). `open` is
the set of descriptors sessions hold, `FdLimit` the process's limit; `accept()`
reserves a descriptor before it waits. `accept()`, `socket()` and `connect()`
may fail at any time, not only for want of a descriptor; what `Accept` throws
nobody catches, so it ends the process (`AcceptThrows`). `SetHandler` is called
at any time, as `m_handler` is a plain pointer read at the start of a session.
The queue is FIFO and a worker runs one task at a time: that is the part of
asabru-commons the module assumes.

### ServerSetup

How servers come to accept clients, and what their sessions then see. A server
has a `kind`: `CProxySocket`, `CApiGatewaySocket`, `CProtocolSocket` or
`LibuvProxySocket`. `phase[s]` is where its owner is: the constructor of the
base class, the constructor of the derived one (which opens a second socket and
forgets the first), the setters, and the steps of `Start` (load balancer with
its services, bind, listen, the copy of the routine and the listening thread),
each with its failure (of `pthread_create`, too, which nobody looks at).
`table`, `bound` and `listening` are the descriptors of the process, given out
lowest first; `s_[s]` is the number as the server knows it, which a failed
`Start` and the destructor close and keep. Owners may start a `CServerSocket`
that runs, or destruct it; `misused` says of which servers that was done,
`closes[s]` how often `s` closed its number, and `robbed` which servers lost a
socket to another's close. `accept()` may fail at any time, which ends the
process, and the kernel closes its descriptors. Setters are called before,
between and after, while `listener[s]` and `session[s]` of the same server run:
a session copies the routine, then reads the load balancer, then its services.
For libuv the loop's thread binds and listens after `Start` returned, runs the
session inside its callback, and uses a `client_socket` nobody has set, so that
the session or the process ends. Configuration is never locked in the code; what
keeps it consistent is the order of the steps of `Start`, and that is what
`RoutineOfStart` and `BalancerReady` check. A server has one session at a time
here, since sessions of one server share nothing else that is set, and one
listening thread: if a second `Start` succeeds, either of the two threads is
followed. A libuv server is not started again while its thread runs.

### SecureSockets

The life of an `SSLSocket` with the server's method (`kind` `"server"`) or
another (`"bare"`, whose `ssl` is never set), of a `CClientSSLSocket` that
connects (`"client"`) or is given a connection (`"existing"`), and of copies.
`ctx[s]` and `ssl[s]` say what the pointers stand for (`"unset"`, `"live"`,
`"freed"`), and `misuse` collects the sockets that gave OpenSSL a pointer that
was not live, `twice` those that gave it a freed one; after that the process may
go on or end. A constructor that throws runs the destructors of the parts that
are complete: `Socket` alone while `SSLSocket::Init` runs, `SSLSocket` too in
the body of `CClientSSLSocket`'s constructor. Copies share the descriptor
(`handle`) and leave the two pointers unset. `refCounter_`, a plain `int`, is
loaded and stored in two steps, by `Copy` and `Copied` and by `Destruct` and
`Release`, and `lost` has the sockets whose counter was changed in between by
somebody else, or whose descriptor was closed in consequence; a counter that was
deleted reads as anything. `hostent` is the static structure of
`gethostbyname()` and `gethostbyaddr()`, shared by all threads: a client whose
host another's `Resolve` replaced before it connected is `overtaken`, and may
connect to any host, for the structure may be half of each. The handshake of a
socket that verifies compares certificate and name, and servers have
certificates for their own names: that is the part of OpenSSL the module
assumes.

### SocketReads

`Socket::ReceiveLine`, `RecvBlocking` and `Receive`, and `ReceiveLine`,
`RecvBlocking` and `ReceiveBytes` of `SSLSocket`. Bytes are numbered in the
order the peer writes them. `wire` is what has arrived: one stream for a plain
socket, records for TLS, of which `SSL_read` takes a whole one and keeps the
rest in `pending`. Every read may time out or be interrupted (at most
`MaxFailures` times), and at any moment an error may come that stays (`Breaks`:
a descriptor that is no connection, an SSL object in its error state), after
which every read fails, whether the peer has closed or not. A failed read of
`RecvBlocking` is a number of `Word` values, so that the `-1` the code adds and
subtracts as a `size_t` wraps as it does there, and `at` and `buffer` say which
byte of the caller's buffer is written. Failures are counted up to
`MaxFailures`; past that `RecvBlocking` goes round where it is.

### TcpConnections

The descriptor table of the process (`table[f]` is who opened what `f` now
stands for), the sockets' numbers `s_`, and `pc[c]`: where the thread that uses
connection `c` is. One system call is one step. The kernel gives out the lowest
free number, and `close` closes whatever a number stands for. `disconnect()` is
three closes, for `Close`, `~CClientSocket` and `~Socket` each make one, and no
lock is held: other threads, and the rest of the process, open and close files
between them. `robbed` has the connections that lost their file to a second or
third close, or to somebody who had lost his, and `stale` the numbers that the
rest of the process lost in this way and still takes for its own. Callers do not
call `connect()` after `disconnect()`: the code would use a null pointer.

### WireCodec

Encoder and decoders of the ClickHouse packets, byte by byte, because the
property is about the conversion: `VarintBytes` is `WriteVarint64`,
`ReadVarint64` and `ReadString` are the reads with `m_index` and the result they
return. Their loops are functions of the number of rounds: what is left of a
number after `i` bytes, what `i` bytes add up to, and `Weight[i]`, the `1 << 7 * i`
of the shift. `Layout` has the fields each decoder reads and whether it looks at the
result (`Checked`) or not (`Read`); `ReadField` is one read, after which the
decoder goes on, refuses the packet or accepts it. `DecidePacketType` and
`DecodeQueryPacket` return 0, which is false, whatever they read. `Hello` has the
fields of `EncodeHelloPacket`, strings by their lengths; `ClientPackets` are
packets a client sends. A packet and a decoder meet if the packet starts with
the fields the decoder expects (`Starts`): that is an assumption about what is
sent, for the decoders check nothing of the kind.

## 3. Runs

| Run | Question | Instance |
|---|---|---|
| `pool_leases` | With callers that only move and destroy proxies, are leases exclusive and lossless, whatever `connect()` does? | 2 connections, 2 threads, 3 proxies, connections that are never healthy and connect, refuse or throw |
| `pool_calls` | With callers that also release explicitly, is no connection lost, has a busy one a holder, is none missed that is up, and do calls return? | the same with healthy connections that connect, refuse or throw, and whose links drop; fair threads |
| `pool_stale_release` | violated: "busy connections should be busy for a reason", the heart beat's half | explicit release |
| `relay_faults` | With handlers that throw on data, failing `select` and peers that close: order, no duplicates, and does the session end? | `Relay_faults.cfg` |
| `relay_streams` | Does the session implement `RelayStreams`, end only on a close, never wait in `recv`, and serve both directions? | 2 units each way, buffers of one unit |
| `dispatch_serves` | For a proxy and for a protocol server: is each connection conveyed to one session, in order, and served in the end while the process lives, and what are descriptors spent on? | 4 clients, 2 workers, 6 descriptors; `accept`, `socket` and `connect` fail at any time |
| `server_setup` | Do sessions see the routine and the balancer of their `Start`, and do servers accept on their own sockets, whatever fails and whatever owners do meanwhile? | 2 servers of three kinds, 4 descriptors, 2 setter calls, 2 starts each |
| `tcp_descriptors` | Do descriptor numbers keep their meaning, who can lose one, and is none leaked? | 2 connections and the rest of the process, 3 descriptors, every interleaving |
| `secure_life` | Is what OpenSSL gave freed once but for the four cases named, is nothing left behind, is the descriptor there as long as it is used and its counter lost no update, and how can a client end at the wrong server? | 3 sockets of five kinds, 2 hosts |
| `secure_double_free` | violated: "Free the resources we allocated" | 2 sockets, 2 hosts |
| `socket_reads` | Lines, exact lengths, the ends of the buffer, hidden bytes; do calls return? | 5 bytes, 2 of them line ends, records of up to 3, 2 failures or an error that stays, plain and TLS |
| `wire_packets` | Is what is written read back, field by field, and which packets do decoders accept? | all packets of up to 3 fields, the hello packet and three client packets, every decoder they suit |

Why these bounds are enough. The pool's faults need two connections (one to be
confused with another), two threads (one inside while the other moves) and a
third proxy (a source, a target and a bystander); the mutex makes a third thread
a second waiter only, and the theorems cover any number. The relay needs two
units per direction for order, a buffer smaller than what was sent for the inner
receive loop and for a send that blocks, and both peers. Dispatch needs more
clients than workers so that tasks wait, and a limit below the eight descriptors
four sessions want, so that `accept` and `socket` also fail for want of one; six
is also the least with which two sessions can relay while a third client waits
and a fourth comes. Server set-up needs two servers, so that a number one has
given up is given to the other, a second `Start` and two setter calls, so that a
change falls on either side of each step of a `Start`, or a second `Start` into
running sessions; a server opens two descriptors, so four are what two servers
want. Gateways are left out of this run, since they start as protocol servers do
and the theorems include them. TLS sockets need a socket, its copy and a
stranger whose `Resolve` interferes, with a host each for two clients; a socket
and two copies are enough for a destructor and a copy, or two destructors, to
change one counter at once. Reads need a line end next to another, a record
larger than `ReadBuffer` (2), a `RecvBlocking` shorter and longer than a record,
and two failures in one call; `Word` is 8, more than any length, as 2^64 is. TCP
connections need two connections and a descriptor fewer than everybody wants.
The codec runs with real bytes and groups of seven bits; numbers have 26 bits in
at most four bytes instead of 64 in ten, so that the last group is partial as it
is in the code, and they are taken at both ends of each length.

Symmetry is used in `server_setup`, for servers and services, and in
`secure_life`, for sockets and hosts; both check invariants only. Deadlock is
not checked in the relay, dispatch, set-up, TLS and codec runs, where sessions,
clients, processes, sockets and packets come to an end; in the pool, in
`tcp_descriptors` and in `socket_reads` it is.

Fairness. A runnable thread is run: weak fairness of the steps of each pool
caller (not of the decision to make a call), of the worker, of the listener.
`connect()` and `heart_beat()` return. Nothing is assumed about the order in
which the mutex admits waiters, which is why `CallsReturn` excepts a mutex that
is taken again and again. An `accept()` for which there is no descriptor fails;
its other failures may happen or not. Peers read what they get (`PeerReads`):
one that never reads does block its session in `send`, and `Relayed` would not
hold. `FiniteSessionsSpec` adds that peers end their sessions some day, relays
and request loops alike; without it as many sessions as there are workers keep
everybody else waiting. `SessionEnds` is checked with handlers that throw on
data but not on the empty string: a handler that does keeps the loop spinning on
a closed socket. `CallsReturn` of `SocketReads` needs only that the caller's
thread is run. It promises that a call returns once the peer has closed or every
read fails, with the exception of `RecvBlocking` in the latter case, and says
nothing of a peer that stays connected and silent: `recv` then times out, and
the loop of `RecvBlocking` starts over.

## 4. What the violations show

- A proxy passed to `release_connection` keeps its pointers. When it is
  destroyed later, as in `tests/test_basic.h`, it releases a connection that
  another caller may have got in between (`pool_stale_release`).
- When the handshake of a client fails, `handle_error()` frees `ssl` and `ctx`, and
  the destructor of `SSLSocket`, which runs because that part is complete, frees
  both again. The run gets there with a client that is given a connection:
  `Construct`, `create_context`, `configure_client_context`, `SSLConnectThrows`
  (`secure_double_free`). `OtherwiseFreedOnce` in `secure_life` has the other cases,
  and says that they are all: a client whose constructor threw earlier frees an
  `ssl` that was never set, and so do a copy and a socket made with another method
  than the server's; and a socket its owner closed is closed again by its
  destructor.

What the modules show besides, and no run is spent on:

- Assigning to a proxy that holds a connection loses that connection: with
  `"overwrite"` among the `Habits`, `BusyForAReason` fails.
- `check_connect` takes a `connect()` that throws for success, and the only way
  `TcpConnection::connect()` fails is to throw; a link may also drop between check
  and hand-out. What `get_connection` hands out need not be connected, and no
  property says so. `NoneMissed` is what it does promise: it answers that there is
  none only if no idle connection is up.
- A failed `select` is swallowed by the constructor that throws it; both sockets
  are read, the receive times out, and the session of two connected peers ends:
  with a `select` that may fail, `StreamSpec` fails.
- Sessions never close their sockets. `DescriptorsAccounted` says what descriptors
  are spent on; when they are used up `accept` fails, and its exception ends the
  listener and the process. So does the exception for any other error of
  `accept`, with descriptors to spare: nobody catches it.
- The second and third close of a `disconnect()` reach a descriptor that somebody
  opened in between. `DescriptorsKept` says that these, and the closes of those who
  lost a file in this way, are the only ones that take a file from its user.
- A server whose `Start` could not bind has closed its socket and keeps the
  number; starting it again, or destructing it, closes whatever has that number
  by then. A server started again while it runs closes its own live socket (its
  second `bind` fails), and one destructed while it runs does too. `AcceptsOnItsOwn`
  says that a server accepts on its own socket unless one of these happened, and
  that servers rob each other only by a second close of one number.
- Two threads that change `refCounter_` at once lose an update: the descriptor is
  then closed while it is in use, or never, or twice. `DescriptorHeld` is about the
  descriptors whose counter lost none.
- A client's `Resolve` that comes between another's `Resolve` and `connect()` sends
  the other to the wrong host; a client that does not verify certificates does not
  notice. `TalksToItsServer` says that it happens in no other way.
- `RecvBlocking` takes -1 for a huge number of bytes, so that it never returns when
  all its reads fail, also after the peer has closed: without its exception
  `CallsReturn` fails.
- A gateway's `Start` makes no load balancer, and its `ThreadHandler` would use
  one; `BalancerReady` is about the kinds that make one.
- The codec cannot read a number that ends its buffer (`LastNumber` in
  `ReadBack`), and refuses a packet that is its type alone, as a ping.

## 5. Proofs

`ConnectionPoolProofs`, from `PoolAssumption` (the special values are distinct
from the members of the sets):

- `PoolTypeOK`, `PoolConserved`: from `PoolInv`. `Conserved` alone is not
  inductive: `HandOut` moves a connection that the loop has yet to visit, so
  the invariant says that what is left to visit is idle, that the thread in a
  loop holds the mutex, and that a call's argument is the proxy it was called
  with.
- `PoolExclusive`, `PoolLeaseIsValid`, `PoolLoopsSpareLeased`, for callers with
  no explicit release: from `LeaseInv`, which is `PoolInv` with exclusiveness
  and validity together: a destructor keeps the other leases valid only because
  none of them is for its connection, and a new lease is exclusive only because
  the others' connections are busy and the new one is idle.
- `PoolBusyForAReason`, for callers that do not overwrite.
- `PoolNoneMissed`, an action property, whatever `connect()` does and whichever
  links drop: from `ScanInv`, which says that no idle connection the loop has done
  with is up. That needs the mutex, for a connection that became idle behind the
  loop's back might be.
- `PoolImplementsLeases`: for callers with neither habit, `Spec => LeaseSpec`.
  Each step of the pool maps to `Acquire`, `Pass`, `Return` or a stutter.

`TcpConnectionsProofs`, from `TcpAssumption`:

- `TcpTypeOK`, `TcpNoneLeaked`, whoever runs when: inductive together.
- `TcpDescriptorsKept`, whoever runs when: from `Kept`, which is `Known` (the two
  before) and the property together. A connection that nobody robbed closes its own
  file, so `CloseKeeps` has to look only at those that are past their first
  close or were robbed, and what they hit is recorded.

`ProxyRelayProofs`, from `RelayAssumption`, for any number of units and any
sizes of the buffers:

- `RelayTypeOK`, and `RelayInOrder`, whatever fails: from `OrderInv`. `InOrder`
  speaks of what a peer got and not of where the next unit comes from, so the
  invariant numbers all units (`Numbered`): on the wire are those written last,
  in the worker's hand those just before them, and what was passed on or dropped
  is older than both (`PassedBefore`).
- `RelayNeverWaits`, if `select` does not fail (`SelectErrors = FALSE`): from
  `Selected`, which says of the sides of the current turn that are still to be
  read what `NeverWaitsInReceive` says of the one being read. A peer can only
  add to what is readable, and the worker takes nothing from a side before that
  side's half of the turn.
- `RelayImplementsStreams`, if moreover no handler throws on data:
  `Spec => StreamSpec`. `StreamInv` adds to the above that nothing is dropped
  unless its receiver is gone (`Exact`) and that an empty string is received at
  the end of a stream only (`AtEnd`); without the first a send is no `Pass` of
  the abstract specification, without the second a session could end on its own.

`ServerDispatchProofs`, from `DispatchAssumption`, for any clients, workers and
descriptors:

- `DispatchTypeOK` and `DispatchConveyed`: `Conveyed` is inductive given
  `TypeOK`; each step of the listener and the pool moves one of the three cuts
  between the four parts of the clients in their order of arrival.
- `DispatchOneWorkerEach`: from `Sessions`, with `Turns`, which reads off
  `Conveyed` that a session has started exactly for the first `Len(started)`
  clients. A task taken from the queue is therefore for a client that nobody
  serves.
- `DispatchDescriptorsAccounted`: from `Descriptors`, inductive given `Placed`
  (types, `Conveyed` and `Turns`): the clients with an open descriptor are the first
  `Accepted` ones, and each step of the listener and the queue moves one client
  between the parts that `Accepted` sums up.

`ServerSetupProofs`, from `SetupAssumption`, for any servers of any kinds:

- `SetupTypeOK`, `SetupRoutineOfStart`, `SetupBalancerReady`: from
  `PointwiseInv`, which speaks of each server by itself: how far its owner and
  its thread can be at the same time (`Order`), and that what a thread and a
  session found is what the last `Start` copied (`AsStarted`), unless it was
  started again or destructed while its thread ran. A step of one server changes no other
  (`Apart`); the end of the process is the one step that touches them all.
- `SetupAcceptsOnItsOwn`: from `Own`: the number of a server that has not closed it
  stands for its own socket, from its creation to its end, unless another server
  closed it, and somebody must have closed his number twice before that happens.
  Descriptors are shared, so that here each step must be shown to spare the other
  servers' numbers, or to rob them; a server that closes for the first time closes
  its own.

`SecureSocketsProofs`, from `SecureAssumption`, for any sockets and hosts:

- `SecureTypeOK`, `SecureFreedOnce`, `SecureTalksToItsServer`,
  `SecureDescriptorHeld`: from `SecureInv`, whose types are shown in three parts
  (`PointersOK`, `ObjectOK`, `CountingOK`). `Life` speaks of each socket by itself:
  what `ctx` and `ssl` stand for follows from where it is in its life (`KeysFit`),
  whence the four kinds of sockets that free what they should not are the only ones
  (`KindFits`); and a client's host is its own unless it was overtaken (`Talks`),
  which other sockets' steps can only make it. `Held` speaks of the counter: one
  that lost no update is the number of sockets that share it (`Counted`), so that
  the one who finds 1 there is the last. Between the load and the store of such a
  counter nobody else's store can fall, for that is a lost update. The set of
  sockets is assumed to be finite, as what a counter counts.

`SocketReadsProofs`, from `ReadsAssumption`, for any stream, records, buffers and
width of a `size_t`:

- `ReadsTypeOK`, `ReadsAtMostOneLine`, `ReadsBlockFilled`, `ReadsEndKept`,
  `ReadsNothingHidden`: from `ReadsInv`. Records leave the wire as a whole, so
  the invariant has to place their ends in the stream (`Boundaries`), and says
  that a byte that is read has been written (`Arrived`). For a line, no line end
  was passed (`LineBegun`). For an exact length, a failed read moves the position
  back by one, before the start of the buffer even, where a `size_t` wraps:
  `ToGo` says that the end of the buffer is still `remaining` bytes away, modulo
  `Word`, and `InPlace` what is in it if no read failed. The proof needs that a
  length and the failures that are counted stay below `Word`, 2^64 in the code.
  `ReadsTypeOK` says nothing of where in the buffer bytes are stored: after a
  failed read that can be below its start.

`WireCodecProofs`, from `WireAssumption`, for any radix, width of numbers, and
packets of any length, the real 128, 2^64 and 10 among them:

- `WireAligned`, `WireReadBack`, `WireAcceptsWhatGoesOn`: from `CodecInv`, which
  says that the decoder's buffer begins with the bytes of all fields written and
  `index` is where those of the fields read end (`Encoded`), and that a decoder
  which goes on has refused nothing so far (`GoesOn`).
- Below it is the round trip of one field (`FieldReadBack`), and below that the
  one of a number (`NumberRead`): what its first bytes add up to, plus what is
  left at the weight of the next byte, is the number (`SumTo`), and it takes as
  many bytes as have the continuation bit and one more (`SizeIs`), at most
  `MaxVarintBytes` because of `Limit <= Weight[MaxVarintBytes]`.
- Loops and packets need induction. The library's theorem for it takes an
  operator and is out of the provers' reach, so `Induction` takes the set of
  numbers of which something holds, and is shown by the least number that is not
  in it; there is one (`LeastExists`) because finite sets are well-founded under
  inclusion, which the library states without an operator. `Recursion` derives
  from it that a function given by a first value and a step exists.

The assumptions on the constants are those the modules name; no theorem adds one
but the hypotheses mentioned above, which name the behaviours (`Habits`,
`HandlerThrows`, `SelectErrors`) under which the code keeps the property. What
happens without them is in section 4. The steps are kept small, so that each is
found well within the provers' default time limit.

Model-checked only: the liveness properties (`CallsReturn`, `SessionEnds`,
`Relayed`, `EveryClientServed`), because fairness is out of the prover's reach.

## 6. Plan

1. *Done:* the pool with its abstract specification and proofs; the relay with
   its abstract specification; dispatch; TCP connections with proofs; the codec.
2. *Done:* `ServerSetup` with the configuration calls, custom pipelines and the
   libuv server; `CProtocolSocket` in `ServerDispatch`; `SecureSockets`;
   `SocketReads`; the decoders.
3. *Done:* theorems of the relay with its refinement, of dispatch, of set-up, of
   TLS sockets, of reads and of the codec: every safety property that a passing
   run checks.
4. Composition, if it pays: the pool over `TcpConnections`, whose interface is
   today the set `ConnectResults`.

## 7. Not modelled

- asabru-commons (load balancer, thread pool, protocol helpers): not in this
  repository. Which target a session gets does not matter to what is checked.
- The Windows variants of the code.
- Memory: the `SocketSelect` objects a relay never deletes, the buffers.
- Signals: a `send` to a reset connection may raise SIGPIPE; whether it is
  ignored is decided by the program that uses the library.
- A handler that answers something to the empty string: handlers are the
  library's users'.
- Destroying the pool while proxies live: what keeps it alive is the user's.
- The libuv handles of `ClientTargetPair` and what the loop does with them:
  pipelines outside this repository own them.
- The non-blocking listener: no class makes one.
- `SSL_write`, whose result nobody looks at; `Socket::Peek` and `operator=`,
  which nobody uses.
- Packets cut short and buffers too small for what is written: the codec would
  leave the buffer, and what lies there is not its business.
- Host names in `CClientSocket`: `TcpConnections` assumes addresses in numbers,
  for which `Resolve` makes a `hostent` of its own. (For names, `Connect` frees
  the static `hostent` of `gethostbyname`.)
- The HTTP handler, a constant answer, and the tests, whose assertions are the
  source of `Conserved`.
