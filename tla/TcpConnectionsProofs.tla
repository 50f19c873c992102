------------------------- MODULE TcpConnectionsProofs -------------------------
(* Theorems about TcpConnections, for any number of connections and          *)
(* descriptors.                                                              *)
EXTENDS TcpConnections, TLAPS

(* -1 is no descriptor. *)
LEMMA InvalidIsNone == INVALID_SOCKET \notin Fds
  BY TcpAssumption DEF INVALID_SOCKET, Fds

(* What is true of the descriptors whoever runs when: inductive as it is. *)
Known == TypeOK /\ NoneLeaked

LEMMA KnownInit == Init => Known
  BY TcpAssumption DEF Init, Known, TypeOK, NoneLeaked, Places

LEMMA KnownStep == Known /\ [Next]_vars => Known'
<1> SUFFICES ASSUME Known, [Next]_vars PROVE Known'
  OBVIOUS
<1> USE TcpAssumption, InvalidIsNone
    DEF Known, TypeOK, NoneLeaked, Places, Uses, Goto, Close, CloseSocket, Robs
<1>1. ASSUME NEW c \in Connections,
             Construct(c) \/ CallConnect(c) \/ CallDisconnect(c)
      PROVE  Known'
  BY <1>1 DEF Construct, CallConnect, CallDisconnect
<1>2. ASSUME NEW c \in Connections, CloseOld(c) PROVE Known'
  BY <1>2 DEF CloseOld
<1>3. ASSUME NEW c \in Connections, CreateSocket(c) PROVE Known'
  BY <1>3 DEF CreateSocket
<1>4. ASSUME NEW c \in Connections, CreateSocketThrows(c) PROVE Known'
  BY <1>4 DEF CreateSocketThrows
<1>5. ASSUME NEW c \in Connections, Connect(c) PROVE Known'
  <2>1. connected' \in [Connections -> BOOLEAN]
    BY <1>5 DEF Connect
  <2>2. \A d \in Connections : connected'[d] => connected[d] \/ d = c
    BY <1>5 DEF Connect
  <2>3. QED BY <1>5, <2>1, <2>2 DEF Connect
<1>6. ASSUME NEW c \in Connections, ConnectThrows(c) \/ Unwind(c) PROVE Known'
  BY <1>6 DEF ConnectThrows, Unwind
<1>7. ASSUME NEW c \in Connections, Disconnect(c) PROVE Known'
  <2>1. CASE pc[c] = "close1" \/ pc[c] = "close2"
    BY <1>7, <2>1 DEF Disconnect
  <2>2. CASE pc[c] = "close3"
    <3>1. connected' = [connected EXCEPT ![c] = FALSE]
      BY <1>7, <2>2 DEF Disconnect
    <3>2. /\ connected' \in [Connections -> BOOLEAN]
          /\ \A d \in Connections : connected'[d] => connected[d] /\ d # c
      BY <3>1
    <3>3. /\ pc' = [pc EXCEPT ![c] = "gone"]
          /\ s_' = [s_ EXCEPT ![c] = INVALID_SOCKET]
          /\ Close(c)
      BY <1>7, <2>2 DEF Disconnect
    <3>4. \A f \in Fds : table[f] # c
      BY <2>2
    <3>5. TypeOK'
      BY <3>2, <3>3
    <3>6. NoneLeaked'
      BY <3>3, <3>4
    <3>7. QED BY <3>5, <3>6
  <2>3. QED BY <1>7, <2>1, <2>2 DEF Disconnect
<1>8. ASSUME NEW f \in Fds, OtherOpens(f) \/ OtherCloses(f) \/ OtherClosesStale(f)
      PROVE  Known'
  BY <1>8 DEF OtherOpens, OtherCloses, OtherClosesStale
<1>9. CASE UNCHANGED vars
  BY <1>9 DEF vars
<1>10. QED
  BY <1>1, <1>2, <1>3, <1>4, <1>5, <1>6, <1>7, <1>8, <1>9 DEF Next, Step

LEMMA KnownInvariant == Spec => []Known
<1>1. QED BY KnownInit, KnownStep, PTL DEF Spec

(* The state is well typed, and heart_beat() never reports a connection that *)
(* has no socket.                                                            *)
THEOREM TcpTypeOK == Spec => []TypeOK
<1>1. Known => TypeOK BY DEF Known
<1>2. QED BY <1>1, KnownInvariant, PTL

(* Neither Reconnect nor disconnect() nor a constructor that throws leaves a *)
(* descriptor open that its connection does not know, also when other        *)
(* threads run in between.                                                   *)
THEOREM TcpNoneLeaked == Spec => []NoneLeaked
<1>1. Known => NoneLeaked BY DEF Known
<1>2. QED BY <1>1, KnownInvariant, PTL

-------------------------------------------------------------------------------
(* Whose file a number stands for.  A connection that nobody robbed closes   *)
(* its own file; a close that reaches somebody else's comes from one that    *)
(* Robs, and its victim is recorded as such.                                 *)
Kept == Known /\ DescriptorsKept

(* The close of a number: those who keep their file are not its victims.     *)
LEMMA CloseKeeps ==
  ASSUME Kept, NEW c \in Connections, Close(c),
         pc[c] \in {"close2", "close3"} \/ Uses(c),
         NEW d \in Connections, d # c, d \notin robbed', Uses(d),
         s_[d] # INVALID_SOCKET
  PROVE  table'[s_[d]] = d
<1> USE TcpAssumption, InvalidIsNone DEF Kept, Known, TypeOK, DescriptorsKept
<1>1. d \notin robbed /\ table[s_[d]] = d /\ s_[d] \in Fds
  BY DEF Close, Robs
<1>2. s_[c] # s_[d]
  <2> SUFFICES ASSUME s_[c] = s_[d] PROVE FALSE
    OBVIOUS
  <2>1. CASE pc[c] \in {"close2", "close3"} \/ c \in robbed
    BY <1>1, <2>1 DEF Close, Robs
  <2>2. CASE Uses(c) /\ c \notin robbed
    BY <1>1, <2>2
  <2>3. QED BY <2>1, <2>2
<1>3. QED BY <1>1, <1>2 DEF Close, CloseSocket

LEMMA CloseKeepsOthers ==
  ASSUME Kept, NEW c \in Connections, Close(c),
         pc[c] \in {"close2", "close3"} \/ Uses(c)
  PROVE  \A f \in others' : table'[f] = Other
BY TcpAssumption, InvalidIsNone
DEF Kept, Known, TypeOK, DescriptorsKept, Close, CloseSocket, Robs

LEMMA KeptStep == Kept /\ [Next]_vars => Kept'
<1> SUFFICES ASSUME Kept, [Next]_vars PROVE DescriptorsKept'
  BY KnownStep DEF Kept
<1>0. TypeOK'
  BY KnownStep DEF Kept, Known
<1>a. ASSUME NEW c \in Connections, Close(c), pc[c] \in {"close2", "close3"} \/ Uses(c),
             \A d \in Connections \ {c} : pc'[d] = pc[d] /\ s_'[d] = s_[d],
             ~Uses(c)' \/ s_'[c] = INVALID_SOCKET
      PROVE  DescriptorsKept'
  <2>1. ASSUME NEW d \in Connections \ robbed', Uses(d)', s_'[d] # INVALID_SOCKET
        PROVE  table'[s_'[d]] = d
    <3>1. d # c /\ Uses(d) /\ s_'[d] = s_[d]
      BY <1>a, <2>1 DEF Uses
    <3>2. QED BY <1>a, <2>1, <3>1, CloseKeeps
  <2>2. QED BY <1>a, <2>1, CloseKeepsOthers DEF DescriptorsKept
<1> USE TcpAssumption, InvalidIsNone
    DEF Kept, Known, TypeOK, Places, Uses, Goto
<1>1. ASSUME NEW c \in Connections,
             Construct(c) \/ CallConnect(c) \/ CallDisconnect(c)
      PROVE  DescriptorsKept'
  BY <1>1 DEF Construct, CallConnect, CallDisconnect, DescriptorsKept
<1>2. ASSUME NEW c \in Connections, CloseOld(c) \/ Unwind(c) PROVE DescriptorsKept'
  BY <1>2, <1>a DEF CloseOld, Unwind
<1>3. ASSUME NEW c \in Connections, CreateSocket(c) PROVE DescriptorsKept'
  BY <1>3 DEF CreateSocket, Free, DescriptorsKept
<1>4. ASSUME NEW c \in Connections, CreateSocketThrows(c) PROVE DescriptorsKept'
  BY <1>4 DEF CreateSocketThrows, DescriptorsKept
<1>5. ASSUME NEW c \in Connections, Connect(c) \/ ConnectThrows(c) PROVE DescriptorsKept'
  BY <1>5 DEF Connect, ConnectThrows, DescriptorsKept
<1>6. ASSUME NEW c \in Connections, Disconnect(c) PROVE DescriptorsKept'
  <2>1. Close(c) /\ (pc[c] \in {"close2", "close3"} \/ Uses(c))
    BY <1>6 DEF Disconnect
  <2>2. /\ \A d \in Connections \ {c} : pc'[d] = pc[d] /\ s_'[d] = s_[d]
        /\ pc'[c] \in {"close2", "close3", "gone"}
    BY <1>6 DEF Disconnect
  <2>3. ~Uses(c)'
    BY <2>2
  <2>4. QED BY <1>a, <2>1, <2>2, <2>3
<1>7. ASSUME NEW f \in Fds, OtherOpens(f) \/ OtherCloses(f) PROVE DescriptorsKept'
  BY <1>7 DEF OtherOpens, OtherCloses, Free, CloseSocket, DescriptorsKept
<1>8. ASSUME NEW f \in Fds, OtherClosesStale(f) PROVE DescriptorsKept'
  BY <1>8 DEF OtherClosesStale, CloseSocket, Robs, DescriptorsKept
<1>9. CASE UNCHANGED vars
  BY <1>9 DEF vars, DescriptorsKept
<1>10. QED
  BY <1>1, <1>2, <1>3, <1>4, <1>5, <1>6, <1>7, <1>8, <1>9 DEF Next, Step

(* In every interleaving, a number that a connection or the rest of the      *)
(* process relies on stands for its own file, unless the second or third     *)
(* close of a disconnect() took it, or the close of somebody who had lost    *)
(* one in this way.                                                          *)
THEOREM TcpDescriptorsKept == Spec => []DescriptorsKept
<1>1. Init => Kept
  BY KnownInit, TcpAssumption DEF Init, Kept, DescriptorsKept, Uses
<1>2. Kept => DescriptorsKept
  BY DEF Kept
<1>3. QED BY <1>1, <1>2, KeptStep, PTL DEF Spec
===============================================================================
