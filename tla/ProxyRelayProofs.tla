--------------------------- MODULE ProxyRelayProofs ---------------------------
(***************************************************************************)
(* Proofs about ProxyRelay for any number of units, any buffer sizes and,  *)
(* unless a theorem says otherwise, handlers and select() calls that fail. *)
(*                                                                         *)
(* A peer's units are in three places: on the wire, in the worker's hand   *)
(* and at the other peer.  What is on the wire are the units written last, *)
(* and what is in hand are those just before them (Numbered), so that what *)
(* was passed on can only be older.  With handlers that do not throw,      *)
(* nothing is dropped on the way (Exact), and an empty string is received  *)
(* at the end of a stream only (AtEnd).                                    *)
(***************************************************************************)
EXTENDS ProxyRelay, Integers, SequenceTheorems, TLAPS

LEMMA OtherSide ==
  \A s \in Sides : Other(s) \in Sides /\ Other(s) # s /\ Other(Other(s)) = s
  BY DEF Sides, Other

(* What recv() takes from the wire: the first units, and at least one. *)
LEMMA TakeProperties ==
  ASSUME NEW S, NEW w \in Seq(S), w # <<>>, NEW b \in Seq(S), NEW n \in 1..Len(w)
  PROVE  /\ b \o SubSeq(w, 1, n) \in Seq(S)
         /\ Len(b \o SubSeq(w, 1, n)) = Len(b) + n
         /\ \A i \in 1..Len(b) : (b \o SubSeq(w, 1, n))[i] = b[i]
         /\ \A i \in (Len(b) + 1)..(Len(b) + n) : (b \o SubSeq(w, 1, n))[i] = w[i - Len(b)]
         /\ SubSeq(w, n + 1, Len(w)) \in Seq(S)
         /\ Len(SubSeq(w, n + 1, Len(w))) = Len(w) - n
         /\ \A i \in 1..(Len(w) - n) : SubSeq(w, n + 1, Len(w))[i] = w[n + i]
<1> DEFINE t == SubSeq(w, 1, n)
           r == SubSeq(w, n + 1, Len(w))
<1>0. Len(w) \in Nat /\ \A i \in 1..Len(w) : w[i] \in S
  BY LenProperties, ElementOfSeq
<1>1. t \in Seq(S) /\ Len(t) = n /\ \A i \in 1..n : t[i] = w[i]
  <2>1. \A i \in 1..n : w[i] \in S BY <1>0
  <2>2. QED BY <1>0, <2>1, SubSeqProperties
<1>2. r \in Seq(S) /\ Len(r) = Len(w) - n /\ \A i \in 1..(Len(w) - n) : r[i] = w[n + i]
  <2>1. \A i \in (n + 1)..Len(w) : w[i] \in S BY <1>0
  <2>2. QED BY <1>0, <2>1, SubSeqProperties
<1>3. /\ b \o t \in Seq(S)
      /\ Len(b \o t) = Len(b) + n
      /\ \A i \in 1..(Len(b) + n) : (b \o t)[i] = IF i <= Len(b) THEN b[i] ELSE t[i - Len(b)]
  BY <1>1, ConcatProperties
<1>4. Len(b) \in Nat BY LenProperties
<1> HIDE DEF t, r
<1>5. \A i \in 1..Len(b) : (b \o t)[i] = b[i]
  BY <1>0, <1>3, <1>4
<1>6. \A i \in (Len(b) + 1)..(Len(b) + n) : (b \o t)[i] = w[i - Len(b)]
  BY <1>0, <1>1, <1>3, <1>4
<1>7. QED BY <1>2, <1>3, <1>5, <1>6 DEF t, r
-------------------------------------------------------------------------------
(* Type correctness. *)

LEMMA RelayTypeInit == Init => TypeOK
  BY RelayAssumption DEF Init, TypeOK, Sides

(* What a peer writes are the units up to MaxSent. *)
LEMMA UnitWritten ==
  ASSUME TypeOK, NEW s \in Sides, PeerWrites(s)
  PROVE  /\ wire[s] \in Seq(1..MaxSent) /\ sent[s] \in Nat
         /\ sent[s] + 1 \in 1..MaxSent /\ sent[s] + 1 \in 0..MaxSent
         /\ Append(wire[s], sent[s] + 1) \in Seq(1..MaxSent)
<1>1. wire[s] \in Seq(1..MaxSent) /\ sent[s] \in 0..MaxSent BY DEF TypeOK
<1>2. sent[s] < MaxSent BY DEF PeerWrites
<1>3. sent[s] \in Nat /\ sent[s] + 1 \in 1..MaxSent /\ sent[s] + 1 \in 0..MaxSent
  BY <1>1, <1>2, RelayAssumption
<1>4. QED BY <1>1, <1>3, AppendProperties

LEMMA RelayTypeStep == TypeOK /\ [Next]_vars => TypeOK'
<1> SUFFICES ASSUME TypeOK, [Next]_vars PROVE TypeOK'
  OBVIOUS
<1> USE RelayAssumption DEF TypeOK
<1>1. ASSUME NEW s \in Sides, PeerWrites(s) PROVE TypeOK'
  <2>1. sent[s] + 1 \in 0..MaxSent BY <1>1, UnitWritten
  <2>2. Append(wire[s], sent[s] + 1) \in Seq(1..MaxSent) BY <1>1, UnitWritten
  <2>3. wire' = [wire EXCEPT ![s] = Append(wire[s], sent[s] + 1)] BY <1>1 DEF PeerWrites
  <2>4. wire' \in [Sides -> Seq(1..MaxSent)] BY <2>2, <2>3
  <2>5. sent' \in [Sides -> 0..MaxSent] BY <1>1, <2>1 DEF PeerWrites
  <2>6. QED BY <1>1, <2>4, <2>5 DEF PeerWrites, worker
<1>2. ASSUME NEW s \in Sides, PeerReads(s) \/ PeerShuts(s) \/ PeerCloses(s) PROVE TypeOK'
  <2>1. CASE PeerReads(s)
    <3>1. unread[s] \in 0..Window /\ unread[s] > 0 BY <2>1 DEF PeerReads
    <3>2. unread[s] - 1 \in 0..Window
      <4>1. PICK u \in 0..Window : u = unread[s] /\ u > 0 BY <3>1
      <4> HIDE DEF TypeOK
      <4>2. u - 1 \in 0..Window BY <4>1
      <4>3. QED BY <4>1, <4>2
    <3>3. unread' \in [Sides -> 0..Window] BY <2>1, <3>2 DEF PeerReads
    <3>4. QED BY <2>1, <3>3 DEF PeerReads, worker
  <2>2. CASE PeerShuts(s) BY <2>2 DEF PeerShuts, worker
  <2>3. CASE PeerCloses(s) BY <2>3 DEF PeerCloses, worker
  <2>4. QED BY <1>2, <2>1, <2>2, <2>3
<1>3. ASSUME Select \/ SelectFails PROVE TypeOK'
  BY <1>3 DEF Select, SelectFails, BeginTurn, peers, Sides
<1>4. ASSUME NEW connected \in BOOLEAN, Proceed(connected), UNCHANGED peers PROVE TypeOK'
  BY <1>4 DEF Proceed, peers, Sides
<1>5. ASSUME ReceiveData PROVE TypeOK'
  <2> DEFINE n == IF Len(wire[side]) < ReadBuffer THEN Len(wire[side]) ELSE ReadBuffer
  <2>1. wire[side] \in Seq(1..MaxSent) /\ wire[side] # <<>>
    BY <1>5 DEF ReceiveData
  <2>2. n \in 1..Len(wire[side])
    BY <2>1, EmptySeq
  <2>3. bytes' \in Seq(1..MaxSent) /\ wire' \in [Sides -> Seq(1..MaxSent)]
    BY <1>5, <2>1, <2>2, TakeProperties DEF ReceiveData, Take
  <2>4. QED BY <1>5, <2>3 DEF ReceiveData
<1>6. ASSUME ReceiveEnds \/ ReceiveNothing \/ HandleData PROVE TypeOK'
  BY <1>6 DEF ReceiveEnds, ReceiveNothing, HandleData, peers
<1>7. ASSUME SendUnit PROVE TypeOK'
  <2> DEFINE to == Other(side)
  <2>1. to \in Sides BY OtherSide
  <2>2. Head(bytes) \in 1..MaxSent /\ Tail(bytes) \in Seq(1..MaxSent)
    BY <1>7, HeadTailProperties DEF SendUnit
  <2>3. got' = [got EXCEPT ![to] = Append(@, Head(bytes))] /\ bytes' = Tail(bytes)
    BY <1>7 DEF SendUnit
  <2>4. got' \in [Sides -> Seq(1..MaxSent)]
    BY <2>1, <2>2, <2>3, AppendProperties
  <2>5. unread' \in [Sides -> 0..Window]
    <3>1. unread[to] \in 0..Window /\ unread[to] < Window
      <4>1. unread[to] < Window BY <1>7, Zenon DEF SendUnit
      <4>2. unread \in [Sides -> 0..Window] OBVIOUS
      <4> HIDE DEF TypeOK, to
      <4>3. QED BY <2>1, <4>1, <4>2
    <3>2. unread[to] + 1 \in 0..Window
      <4>1. PICK u \in 0..Window : u = unread[to] /\ u < Window BY <3>1
      <4> HIDE DEF TypeOK, to
      <4>2. u + 1 \in 0..Window BY <4>1
      <4>3. QED BY <4>1, <4>2
    <3>3. unread' = [unread EXCEPT ![to] = unread[to] + 1] BY <1>7 DEF SendUnit
    <3>4. QED BY <2>1, <3>2, <3>3
  <2>6. QED BY <1>7, <2>2, <2>3, <2>4, <2>5 DEF SendUnit
<1>8. CASE UNCHANGED vars
  BY <1>8 DEF vars, peers, worker
<1>9. QED
  BY <1>1, <1>2, <1>3, <1>4, <1>5, <1>6, <1>7, <1>8
  DEF Next, WorkerStep, SkipSide, HandlerFails, HandleEmpty, SendEnds, SendLost

(* The variables of a session have their types; the worker has units in hand *)
(* only between a receive and the end of that half of the turn.              *)
THEOREM RelayTypeOK == Spec => []TypeOK
<1>1. QED BY RelayTypeInit, RelayTypeStep, PTL DEF Spec

-------------------------------------------------------------------------------
(* Order, whatever handlers, select() and peers do. *)

(* How many units of peer s the worker has in hand. *)
InHand(s) == IF s = side THEN Len(bytes) ELSE 0

(* How many of its units the worker has passed on or dropped. *)
Done(s) == sent[s] - Len(wire[s]) - InHand(s)

Numbered ==
  /\ \A s \in Sides : Done(s) >= 0
  /\ \A s \in Sides : \A i \in 1..Len(wire[s]) : wire[s][i] = Done(s) + InHand(s) + i
  /\ \A i \in 1..Len(bytes) : bytes[i] = Done(side) + i

PassedBefore ==
  \A s \in Sides : \A i \in 1..Len(got[Other(s)]) : got[Other(s)][i] <= Done(s)

OrderInv == TypeOK /\ Numbered /\ PassedBefore /\ InOrder

LEMMA OrderInit == Init => OrderInv
<1> SUFFICES ASSUME Init PROVE OrderInv
  OBVIOUS
<1>1. TypeOK BY RelayTypeInit
<1>2. Len(<<>>) = 0 BY EmptySeq
<1>3. \A s \in Sides : got[s] = <<>> /\ wire[s] = <<>> /\ sent[s] = 0 /\ InHand(s) = 0
  BY <1>2 DEF Init, InHand
<1>4. QED
  BY <1>1, <1>2, <1>3, OtherSide
  DEF OrderInv, Numbered, PassedBefore, InOrder, Done, Init

(* The counts of a state are integers. *)
LEMMA Counts ==
  TypeOK => /\ Len(bytes) \in Nat
            /\ \A s \in Sides :
                 /\ sent[s] \in Nat
                 /\ Len(wire[s]) \in Nat
                 /\ Len(got[s]) \in Nat
                 /\ InHand(s) \in Nat
                 /\ Done(s) \in Int
                 /\ \A i \in 1..Len(got[s]) : got[s][i] \in Nat
<1> SUFFICES ASSUME TypeOK, NEW s \in Sides
             PROVE  /\ Len(bytes) \in Nat
                    /\ sent[s] \in Nat
                    /\ Len(wire[s]) \in Nat
                    /\ Len(got[s]) \in Nat
                    /\ InHand(s) \in Nat
                    /\ Done(s) \in Int
                    /\ \A i \in 1..Len(got[s]) : got[s][i] \in Nat
  BY DEF Sides
<1>1. bytes \in Seq(1..MaxSent) /\ wire[s] \in Seq(1..MaxSent) /\ got[s] \in Seq(1..MaxSent)
  BY DEF TypeOK
<1>2. Len(bytes) \in Nat /\ Len(wire[s]) \in Nat /\ Len(got[s]) \in Nat
  BY <1>1, LenProperties
<1>3. sent[s] \in Nat BY RelayAssumption DEF TypeOK
<1>4. InHand(s) \in Nat BY <1>2 DEF InHand
<1>5. \A i \in 1..Len(got[s]) : got[s][i] \in 1..MaxSent BY <1>1, ElementOfSeq
<1>6. QED BY <1>2, <1>3, <1>4, <1>5, RelayAssumption DEF Done

(* A half of a turn ends: what is in hand is passed on already, or dropped. *)
LEMMA HalfEnds ==
  ASSUME OrderInv, TypeOK', UNCHANGED peers, bytes' = <<>>
  PROVE  OrderInv'
<1>1. Len(bytes') = 0 BY EmptySeq
<1>2. \A s \in Sides : InHand(s)' = 0 BY <1>1 DEF InHand
<1>3. \A s \in Sides : Done(s)' = Done(s) + InHand(s) /\ Done(s)' = sent[s] - Len(wire[s])
  BY <1>2, Counts DEF Done, OrderInv, peers
<1>4. Numbered'
  BY <1>1, <1>2, <1>3, Counts DEF OrderInv, Numbered, peers
<1>5. PassedBefore'
  BY <1>3, Counts, OtherSide DEF OrderInv, PassedBefore, peers
<1>6. InOrder' BY DEF OrderInv, InOrder, peers
<1>7. QED BY <1>4, <1>5, <1>6 DEF OrderInv

(* A sequence that ascends up to d does so with d + 1 put at its end. *)
LEMMA Ascends ==
  ASSUME NEW g, NEW h, NEW l \in Nat, NEW d \in Int,
         \A i \in 1..l : g[i] \in Nat /\ g[i] <= d /\ h[i] = g[i],
         \A i, j \in 1..l : i < j => g[i] < g[j],
         h[l + 1] = d + 1
  PROVE  /\ \A i \in 1..(l + 1) : h[i] <= d + 1
         /\ \A i, j \in 1..(l + 1) : i < j => h[i] < h[j]
<1>1. \A i \in 1..(l + 1) : i \in 1..l \/ i = l + 1 OBVIOUS
<1>2. \A i \in 1..(l + 1) : h[i] <= d + 1 BY <1>1
<1>3. ASSUME NEW i \in 1..(l + 1), NEW j \in 1..(l + 1), i < j
      PROVE  h[i] < h[j]
  <2>1. i \in 1..l BY <1>3
  <2>2. h[i] = g[i] /\ g[i] \in Nat /\ g[i] <= d BY <2>1
  <2>3. CASE j \in 1..l
    <3>1. h[j] = g[j] BY <2>3
    <3>2. g[i] < g[j] BY <1>3, <2>1, <2>3
    <3>3. QED BY <2>2, <3>1, <3>2
  <2>4. CASE j = l + 1 BY <2>2, <2>4
  <2>5. QED BY <1>1, <2>3, <2>4
<1>4. QED BY <1>2, <1>3

LEMMA OrderSend ==
  ASSUME OrderInv, TypeOK', SendUnit
  PROVE  /\ OrderInv'
         /\ \A s \in Sides : Done(s)' = IF s = side THEN Done(s) + 1 ELSE Done(s)
         /\ Head(bytes) = Done(side) + 1
<1>a. PICK a \in Sides : a = side
  BY DEF OrderInv, TypeOK
<1>b. PICK b \in Sides : b = Other(side)
  BY <1>a, OtherSide
<1>0. TypeOK /\ a # b /\ Other(a) = b /\ Other(b) = a /\ \A s \in Sides : s = a \/ s = b
  BY <1>a, <1>b, OtherSide DEF OrderInv, Sides
<1>1. /\ bytes \in Seq(1..MaxSent) /\ bytes # <<>>
      /\ bytes' = Tail(bytes)
      /\ got' = [got EXCEPT ![b] = Append(@, Head(bytes))]
      /\ UNCHANGED <<sent, wire, side>>
  BY <1>a, <1>b DEF OrderInv, TypeOK, SendUnit
<1>2. /\ Len(bytes) \in Nat \ {0} /\ Len(bytes') = Len(bytes) - 1
      /\ \A i \in 1..Len(bytes') : bytes'[i] = bytes[i + 1]
      /\ Head(bytes) = bytes[1]
  BY <1>1, EmptySeq, HeadTailProperties
<1>3. /\ Done(a)' = Done(a) + 1 /\ InHand(a)' = InHand(a) - 1
      /\ Done(b)' = Done(b) /\ InHand(b)' = InHand(b)
  BY <1>0, <1>1, <1>2, <1>a, Counts DEF Done, InHand
<1>4. Head(bytes) = Done(a) + 1
  BY <1>2, <1>a DEF OrderInv, Numbered
<1>5. /\ got'[a] = got[a]
      /\ Len(got'[b]) = Len(got[b]) + 1
      /\ \A i \in 1..Len(got[b]) : got'[b][i] = got[b][i]
      /\ got'[b][Len(got[b]) + 1] = Done(a) + 1
  <2>1. got[b] \in Seq(1..MaxSent) /\ got'[b] = Append(got[b], Head(bytes)) /\ got'[a] = got[a]
    BY <1>0, <1>1 DEF TypeOK
  <2>2. Head(bytes) \in 1..MaxSent BY <1>1, HeadTailProperties
  <2>3. QED BY <2>1, <2>2, <1>4, AppendProperties
<1>6. /\ Done(a) \in Int /\ Done(b) \in Int /\ InHand(a) \in Nat /\ InHand(b) \in Nat
      /\ Len(got[a]) \in Nat /\ Len(got[b]) \in Nat
      /\ \A i \in 1..Len(got[b]) : got[b][i] \in Nat
      /\ \A i \in 1..Len(got[a]) : got[a][i] \in Nat
  BY <1>0, Counts
<1>d. /\ \A i \in 1..Len(got'[b]) : got'[b][i] <= Done(a) + 1
      /\ \A i, j \in 1..Len(got'[b]) : i < j => got'[b][i] < got'[b][j]
  <2>1. PICK g, h : g = got[b] /\ h = got'[b] OBVIOUS
  <2>2. PICK l \in Nat, d \in Int : l = Len(got[b]) /\ d = Done(a) BY <1>6
  <2>3. \A i \in 1..Len(got[b]) : got[b][i] <= Done(a)
    BY <1>0 DEF OrderInv, PassedBefore
  <2>4. \A i, j \in 1..Len(got[b]) : i < j => got[b][i] < got[b][j]
    BY <1>0 DEF OrderInv, InOrder
  <2>5. \A i \in 1..l : g[i] \in Nat /\ g[i] <= d /\ h[i] = g[i]
    BY <1>5, <1>6, <2>1, <2>2, <2>3, Zenon
  <2>6. \A i, j \in 1..l : i < j => g[i] < g[j] BY <2>1, <2>2, <2>4, Zenon
  <2>7. h[l + 1] = d + 1 /\ Len(h) = l + 1 BY <1>5, <2>1, <2>2, Zenon
  <2>8. /\ \A i \in 1..(l + 1) : h[i] <= d + 1
        /\ \A i, j \in 1..(l + 1) : i < j => h[i] < h[j]
    BY <2>5, <2>6, <2>7, Ascends
  <2>9. QED BY <2>1, <2>2, <2>7, <2>8, Zenon
<1>7. Numbered'
  <2>1. \A s \in Sides : Done(s)' >= 0 /\ Done(s)' + InHand(s)' = Done(s) + InHand(s)
    <3>1. Done(a) >= 0 /\ Done(b) >= 0 /\ InHand(b) \in Nat
      BY <1>0, Counts DEF OrderInv, Numbered
    <3>2. /\ Done(a)' >= 0 /\ Done(a)' + InHand(a)' = Done(a) + InHand(a)
          /\ Done(b)' >= 0 /\ Done(b)' + InHand(b)' = Done(b) + InHand(b)
      BY <1>3, <1>6, <3>1
    <3>3. QED BY <1>0, <3>2, Zenon
  <2>2. \A s \in Sides : \A i \in 1..Len(wire'[s]) : wire'[s][i] = Done(s)' + InHand(s)' + i
    BY <1>1, <2>1 DEF OrderInv, Numbered
  <2>3. \A i \in 1..Len(bytes) : bytes[i] = Done(a) + i
    BY <1>a DEF OrderInv, Numbered
  <2>4. \A i \in 1..Len(bytes') : bytes'[i] = Done(a)' + i
    <3> SUFFICES ASSUME NEW i \in 1..Len(bytes') PROVE bytes'[i] = Done(a)' + i
      OBVIOUS
    <3>1. i \in Nat /\ i + 1 \in 1..Len(bytes) BY <1>2
    <3>2. bytes'[i] = bytes[i + 1] BY <1>2
    <3>3. bytes[i + 1] = Done(a) + (i + 1) BY <2>3, <3>1
    <3>4. Done(a) + (i + 1) = (Done(a) + 1) + i BY <1>6, <3>1
    <3>5. QED BY <1>3, <3>2, <3>3, <3>4, Zenon
  <2>5. a = side' BY <1>1, <1>a
  <2>6. QED BY <2>1, <2>2, <2>4, <2>5 DEF Numbered
<1>8. PassedBefore'
  <2>1. /\ \A i \in 1..Len(got[b]) : got[b][i] <= Done(a)
        /\ \A i \in 1..Len(got[a]) : got[a][i] <= Done(b)
    BY <1>0 DEF OrderInv, PassedBefore
  <2>2. \A i \in 1..Len(got'[b]) : got'[b][i] <= Done(a)'
    BY <1>3, <1>d, Zenon
  <2>3. \A i \in 1..Len(got'[a]) : got'[a][i] <= Done(b)'
    BY <2>1, <1>3, <1>5, <1>6
  <2>4. QED BY <1>0, <2>2, <2>3 DEF PassedBefore
<1>9. InOrder'
  <2>1. \A i, j \in 1..Len(got'[b]) : i < j => got'[b][i] < got'[b][j]
    BY <1>d
  <2>2. \A i, j \in 1..Len(got'[a]) : i < j => got'[a][i] < got'[a][j]
    BY <1>0, <1>5 DEF OrderInv, InOrder
  <2>3. QED BY <1>0, <2>1, <2>2 DEF InOrder
<1>10. \A s \in Sides : Done(s)' = IF s = side THEN Done(s) + 1 ELSE Done(s)
  BY <1>0, <1>3, <1>a
<1>11. QED BY <1>4, <1>7, <1>8, <1>9, <1>10, <1>a DEF OrderInv

(* What the worker receives is what was written next. *)
LEMMA OrderReceive ==
  ASSUME OrderInv, TypeOK', ReceiveData
  PROVE  OrderInv' /\ \A s \in Sides : Done(s)' = Done(s)
<1> DEFINE all == Len(wire[side])
           n == IF all < ReadBuffer THEN all ELSE ReadBuffer
<1>a. PICK a \in Sides : a = side
  BY DEF OrderInv, TypeOK
<1>1. /\ TypeOK
      /\ wire[a] \in Seq(1..MaxSent) /\ wire[a] # <<>> /\ bytes \in Seq(1..MaxSent)
      /\ UNCHANGED <<sent, got, side>>
      /\ bytes' = bytes \o SubSeq(wire[a], 1, n)
      /\ wire' = [wire EXCEPT ![a] = SubSeq(@, n + 1, Len(@))]
  BY <1>a DEF OrderInv, TypeOK, ReceiveData, Take
<1>2. n \in 1..Len(wire[a])
  BY <1>1, <1>a, EmptySeq, RelayAssumption
<1> HIDE DEF n
<1>3. /\ Len(bytes') = Len(bytes) + n
      /\ \A i \in 1..Len(bytes) : bytes'[i] = bytes[i]
      /\ \A i \in (Len(bytes) + 1)..(Len(bytes) + n) : bytes'[i] = wire[a][i - Len(bytes)]
      /\ Len(wire'[a]) = Len(wire[a]) - n
      /\ \A i \in 1..(Len(wire[a]) - n) : wire'[a][i] = wire[a][n + i]
      /\ \A s \in Sides : s # a => wire'[s] = wire[s]
  <2>1. /\ wire'[a] = SubSeq(wire[a], n + 1, Len(wire[a]))
        /\ \A s \in Sides : s # a => wire'[s] = wire[s]
    BY <1>1 DEF TypeOK
  <2>2. QED BY <2>1, <1>1, <1>2, TakeProperties
<1>4. Len(bytes) \in Nat /\ Len(wire[a]) \in Nat /\ n \in Nat
  BY <1>1, <1>2, Counts
<1>5. /\ InHand(a) = Len(bytes) /\ InHand(a)' = Len(bytes) + n
      /\ \A s \in Sides : s # a => InHand(s) = 0 /\ InHand(s)' = 0
  BY <1>1, <1>3, <1>a DEF InHand
<1>6. \A s \in Sides : Done(s)' = Done(s)
  <2> SUFFICES ASSUME NEW s \in Sides PROVE Done(s)' = Done(s)
    OBVIOUS
  <2>0. sent[s] \in Nat /\ sent' = sent BY <1>1, Counts
  <2>1. CASE s = a
    <3>1. /\ Done(a) = sent[a] - Len(wire[a]) - Len(bytes)
          /\ Done(a)' = sent'[a] - (Len(wire[a]) - n) - (Len(bytes) + n)
      BY <1>3, <1>5 DEF Done
    <3>2. QED BY <2>0, <2>1, <3>1, <1>4
  <2>2. CASE s # a BY <2>0, <2>2, <1>3, <1>5 DEF Done
  <2>3. QED BY <2>1, <2>2
<1>7. Done(a) \in Int /\ \A s \in Sides : Done(s) >= 0
  BY <1>1, Counts DEF OrderInv, Numbered
<1>8. /\ \A i \in 1..Len(wire[a]) : wire[a][i] = Done(a) + Len(bytes) + i
      /\ \A i \in 1..Len(bytes) : bytes[i] = Done(a) + i
  BY <1>5, <1>a DEF OrderInv, Numbered
<1>9. Numbered'
  <2>1. \A i \in 1..Len(wire'[a]) : wire'[a][i] = Done(a) + InHand(a)' + i
    <3> SUFFICES ASSUME NEW i \in 1..(Len(wire[a]) - n)
                 PROVE  wire'[a][i] = Done(a) + (Len(bytes) + n) + i
      BY <1>3, <1>5
    <3>1. n + i \in 1..Len(wire[a]) BY <1>2, <1>4
    <3>2. wire'[a][i] = Done(a) + Len(bytes) + (n + i) BY <3>1, <1>3, <1>8
    <3>3. QED BY <3>2, <1>4, <1>7
  <2>2. \A s \in Sides : \A i \in 1..Len(wire'[s]) : wire'[s][i] = Done(s)' + InHand(s)' + i
    <3> SUFFICES ASSUME NEW s \in Sides, NEW i \in 1..Len(wire'[s])
                 PROVE  wire'[s][i] = Done(s) + InHand(s)' + i
      BY <1>6
    <3>1. CASE s = a BY <3>1, <2>1
    <3>2. CASE s # a
      <4>1. wire'[s] = wire[s] /\ InHand(s)' = InHand(s) BY <3>2, <1>3, <1>5
      <4>2. QED BY <4>1 DEF OrderInv, Numbered
    <3>3. QED BY <3>1, <3>2
  <2>3. \A i \in 1..Len(bytes') : bytes'[i] = Done(a) + i
    <3> SUFFICES ASSUME NEW i \in 1..(Len(bytes) + n) PROVE bytes'[i] = Done(a) + i
      BY <1>3
    <3>1. CASE i \in 1..Len(bytes) BY <3>1, <1>3, <1>8
    <3>2. CASE i \in (Len(bytes) + 1)..(Len(bytes) + n)
      <4>1. i - Len(bytes) \in 1..Len(wire[a]) BY <3>2, <1>2, <1>4
      <4>2. QED BY <3>2, <4>1, <1>3, <1>4, <1>7, <1>8
    <3>3. QED BY <3>1, <3>2, <1>4
  <2>4. a = side' BY <1>1, <1>a
  <2>5. QED BY <2>2, <2>3, <2>4, <1>6, <1>7 DEF Numbered
<1>10. PassedBefore' /\ InOrder'
  BY <1>1, <1>6 DEF OrderInv, PassedBefore, InOrder
<1>11. QED BY <1>6, <1>9, <1>10 DEF OrderInv

(* A peer writes. *)
LEMMA OrderWrite ==
  ASSUME NEW s \in Sides, OrderInv, TypeOK', PeerWrites(s)
  PROVE  OrderInv' /\ \A r \in Sides : Done(r)' = Done(r)
<1>1. /\ TypeOK /\ wire[s] \in Seq(1..MaxSent) /\ sent[s] \in Nat
      /\ sent[s] + 1 \in 1..MaxSent
      /\ wire' = [wire EXCEPT ![s] = Append(@, sent[s] + 1)]
      /\ sent' = [sent EXCEPT ![s] = @ + 1]
      /\ UNCHANGED <<got, side, bytes>>
  <2>1. TypeOK BY DEF OrderInv
  <2>2. QED BY <2>1, UnitWritten DEF PeerWrites, worker
<1>2. /\ sent'[s] = sent[s] + 1
      /\ Len(wire'[s]) = Len(wire[s]) + 1
      /\ \A i \in 1..Len(wire[s]) : wire'[s][i] = wire[s][i]
      /\ wire'[s][Len(wire[s]) + 1] = sent[s] + 1
      /\ \A r \in Sides : r # s => wire'[r] = wire[r] /\ sent'[r] = sent[r]
  <2>1. /\ wire'[s] = Append(wire[s], sent[s] + 1) /\ sent'[s] = sent[s] + 1
        /\ \A r \in Sides : r # s => wire'[r] = wire[r] /\ sent'[r] = sent[r]
    BY <1>1 DEF TypeOK
  <2>2. PICK w \in Seq(1..MaxSent), e \in 1..MaxSent : w = wire[s] /\ e = sent[s] + 1
    BY <1>1
  <2>3. /\ Len(Append(w, e)) = Len(w) + 1 /\ Append(w, e)[Len(w) + 1] = e
        /\ \A i \in 1..Len(w) : Append(w, e)[i] = w[i]
    BY AppendProperties
  <2>4. QED BY <2>1, <2>2, <2>3, Zenon
<1>3. \A r \in Sides : InHand(r)' = InHand(r)
  BY <1>1 DEF InHand
<1>4. \A r \in Sides : Done(r)' = Done(r)
  <2> SUFFICES ASSUME NEW r \in Sides PROVE Done(r)' = Done(r)
    OBVIOUS
  <2>1. CASE r # s BY <1>2, <1>3, <2>1 DEF Done
  <2>2. CASE r = s
    <3>1. PICK n \in Nat, l \in Nat, h \in Nat : n = sent[s] /\ l = Len(wire[s]) /\ h = InHand(s)
      BY <1>1, Counts
    <3>2. Done(s) = n - l - h BY <3>1 DEF Done
    <3>3. sent'[s] = n + 1 /\ Len(wire'[s]) = l + 1 /\ InHand(s)' = h
      BY <1>2, <1>3, <3>1, Zenon
    <3>4. Done(s)' = (n + 1) - (l + 1) - h BY <3>3, Zenon DEF Done
    <3>5. (n + 1) - (l + 1) - h = n - l - h OBVIOUS
    <3>6. QED BY <2>2, <3>2, <3>4, <3>5, Zenon
  <2>3. QED BY <2>1, <2>2
<1>5. \A r \in Sides : Done(r) \in Int /\ Done(r) >= 0 /\ InHand(r) \in Nat /\ Len(wire[r]) \in Nat
  BY <1>1, Counts DEF OrderInv, Numbered
<1>6. Numbered'
  <2>1. \A r \in Sides : \A i \in 1..Len(wire'[r]) : wire'[r][i] = Done(r) + InHand(r) + i
    <3> SUFFICES ASSUME NEW r \in Sides, NEW i \in 1..Len(wire'[r])
                 PROVE  wire'[r][i] = Done(r) + InHand(r) + i
      OBVIOUS
    <3>1. CASE r # s BY <3>1, <1>2 DEF OrderInv, Numbered
    <3>2. CASE r = s /\ i \in 1..Len(wire[s]) BY <3>2, <1>2 DEF OrderInv, Numbered
    <3>3. CASE r = s /\ i = Len(wire[s]) + 1
      <4>1. sent[s] = Done(s) + InHand(s) + Len(wire[s])
        BY <1>1, <1>5 DEF Done
      <4>2. QED BY <3>3, <4>1, <1>2, <1>5
    <3>4. QED BY <3>1, <3>2, <3>3, <1>2, <1>5
  <2>2. \A i \in 1..Len(bytes') : bytes'[i] = Done(side) + i
    BY <1>1 DEF OrderInv, Numbered
  <2>3. side' = side /\ side \in Sides BY <1>1 DEF TypeOK
  <2>4. QED BY <2>1, <2>2, <2>3, <1>3, <1>4, <1>5 DEF Numbered
<1>7. PassedBefore' /\ InOrder'
  BY <1>1, <1>4 DEF OrderInv, PassedBefore, InOrder
<1>8. QED BY <1>4, <1>6, <1>7 DEF OrderInv


LEMMA OrderStep == OrderInv /\ [Next]_vars => OrderInv'
<1> SUFFICES ASSUME OrderInv, [Next]_vars, TypeOK' PROVE OrderInv'
  BY RelayTypeStep DEF OrderInv
<1>1. CASE \E s \in Sides : PeerWrites(s)
  BY <1>1, OrderWrite
<1>2. CASE ReceiveData
  BY <1>2, OrderReceive
<1>3. CASE SendUnit
  BY <1>3, OrderSend
<1>4. CASE \E connected \in BOOLEAN : Proceed(connected) /\ UNCHANGED peers
  <2>1. bytes' = <<>> BY <1>4 DEF Proceed
  <2>2. UNCHANGED peers BY <1>4
  <2>3. QED BY <2>1, <2>2, HalfEnds
<1>5. CASE Select \/ SelectFails
  <2>1. bytes' = <<>> /\ UNCHANGED peers
    BY <1>5 DEF Select, SelectFails, BeginTurn, OrderInv, TypeOK
  <2>2. QED BY <2>1, HalfEnds
<1>6. CASE UNCHANGED <<sent, wire, got, side, bytes>>
  BY <1>6 DEF OrderInv, Numbered, PassedBefore, InOrder, Done, InHand
<1>7. QED
  <2>1. CASE \E s \in Sides : PeerReads(s) \/ PeerShuts(s) \/ PeerCloses(s)
    BY <2>1, <1>6 DEF PeerReads, PeerShuts, PeerCloses, worker
  <2>2. CASE ReceiveEnds \/ ReceiveNothing \/ HandleData \/ UNCHANGED vars
    BY <2>2, <1>6 DEF ReceiveEnds, ReceiveNothing, HandleData, vars, peers, worker
  <2>3. CASE SkipSide \/ HandlerFails \/ HandleEmpty \/ SendEnds \/ SendLost
    BY <2>3, <1>4 DEF SkipSide, HandlerFails, HandleEmpty, SendEnds, SendLost, OrderInv, TypeOK
  <2>4. QED BY <1>1, <1>2, <1>3, <1>5, <2>1, <2>2, <2>3 DEF Next, WorkerStep

(* No unit is delivered twice or out of order, whichever handlers throw,    *)
(* select() calls fail and peers go away (ReceiveBytes, SendBytes).         *)
THEOREM RelayInOrder == Spec => []InOrder
<1>1. OrderInv => InOrder BY DEF OrderInv
<1>2. QED BY <1>1, OrderInit, OrderStep, PTL DEF Spec

-------------------------------------------------------------------------------
(* recv() and what select() saw, if select() does not fail. *)

(* The sockets whose half of the turn is still to come. *)
ToCome ==
  CASE pc = "check" -> IF side = "client" THEN Sides ELSE {"target"}
    [] pc \in {"more", "handle", "send"} -> IF side = "client" THEN {"target"} ELSE {}
    [] OTHER -> {}

Selected == \A s \in ready \cap ToCome : Readable(s)

LEMMA SelectedStep ==
  ASSUME SelectErrors = FALSE
  PROVE  TypeOK /\ Selected /\ [Next]_vars => Selected'
<1> SUFFICES ASSUME TypeOK, Selected, [Next]_vars,
                    NEW s \in Sides, s \in ready', s \in ToCome'
             PROVE  Readable(s)'
  BY DEF Selected, ToCome, Sides
<1> USE DEF Sides
<1>1. CASE Select
  BY <1>1 DEF Select, BeginTurn, Readable, peers
<1>2. CASE ready' = ready /\ wire' = wire /\ fin \subseteq fin' /\ ToCome' \subseteq ToCome
  BY <1>2 DEF Selected, Readable
<1>3. CASE ReceiveData
  <2>1. ready' = ready /\ fin' = fin /\ side' = side /\ pc' = "more" /\ pc \in {"check", "more"}
    BY <1>3 DEF ReceiveData
  <2>2. s = "target" /\ side = "client" /\ s \in ToCome
    BY <2>1 DEF ToCome, TypeOK
  <2>3. wire'[s] = wire[s]
    BY <2>2, <1>3 DEF ReceiveData, Take, TypeOK
  <2>4. QED BY <2>1, <2>2, <2>3 DEF Selected, Readable
<1>4. ASSUME pc \in {"check", "handle", "send"}, NEW c \in BOOLEAN, Proceed(c), UNCHANGED peers
      PROVE  Readable(s)'
  <2>1. ToCome' \subseteq ToCome BY <1>4 DEF Proceed, ToCome
  <2>2. QED BY <2>1, <1>2, <1>4 DEF Proceed, peers
<1>5. CASE \E r \in Sides : PeerWrites(r)
  <2>1. PICK r \in Sides : PeerWrites(r) BY <1>5
  <2>2. /\ ready' = ready /\ fin' = fin /\ ToCome' = ToCome
        /\ wire' = [wire EXCEPT ![r] = Append(@, sent[r] + 1)]
    BY <2>1 DEF PeerWrites, worker, ToCome
  <2>3. wire[r] \in Seq(1..MaxSent) /\ sent[r] + 1 \in 1..MaxSent
    BY <2>1, UnitWritten
  <2>4. wire'[r] # <<>>
    <3>1. wire'[r] = Append(wire[r], sent[r] + 1) BY <2>2 DEF TypeOK
    <3>2. QED BY <3>1, <2>3, AppendProperties
  <2>5. wire'[s] = wire[s] \/ wire'[s] # <<>>
    <3>1. CASE r = s BY <2>4, <3>1
    <3>2. CASE r # s BY <2>2, <3>2 DEF TypeOK
    <3>3. QED BY <3>1, <3>2
  <2>6. QED BY <2>2, <2>5 DEF Selected, Readable
<1>6. CASE SendUnit
  BY <1>6, <1>2 DEF SendUnit, ToCome
<1>7. CASE ReceiveEnds \/ ReceiveNothing \/ HandleData \/ UNCHANGED vars
  BY <1>7, <1>2 DEF ReceiveEnds, ReceiveNothing, HandleData, vars, peers, worker, ToCome
<1>8. CASE \E r \in Sides : PeerReads(r) \/ PeerShuts(r) \/ PeerCloses(r)
  BY <1>8, <1>2 DEF PeerReads, PeerShuts, PeerCloses, worker, ToCome
<1>9. CASE SkipSide \/ HandlerFails \/ HandleEmpty \/ SendEnds \/ SendLost
  BY <1>9, <1>4 DEF SkipSide, HandlerFails, HandleEmpty, SendEnds, SendLost, TypeOK
<1>10. QED
  BY <1>1, <1>3, <1>5, <1>6, <1>7, <1>8, <1>9 DEF Next, WorkerStep, SelectFails

(* The worker never waits in recv() for a socket that select() found        *)
(* readable, however long the first half of the turn took (SocketSelect,    *)
(* ReceiveBytes).                                                           *)
THEOREM RelayNeverWaits ==
  ASSUME SelectErrors = FALSE
  PROVE  Spec => []NeverWaitsInReceive
<1>1. Init => Selected
  BY DEF Init, Selected
<1>2. TypeOK /\ Selected => NeverWaitsInReceive
  BY DEF TypeOK, Selected, ToCome, NeverWaitsInReceive, Sides
<1>3. QED BY <1>1, <1>2, RelayTypeOK, SelectedStep, PTL DEF Spec

-------------------------------------------------------------------------------
(* Nothing is lost by handlers that do not throw on data, and the session   *)
(* ends at the end of a stream, if select() works.                          *)

(* What a peer that is there was sent is all the worker has done. *)
Exact ==
  \A s \in Sides :
    /\ \A i \in 1..Len(got[Other(s)]) : got[Other(s)][i] = i
    /\ Other(s) \notin gone => Len(got[Other(s)]) = Done(s)

Ended(s) == s \in fin /\ wire[s] = <<>>

AtEnd ==
  /\ pc = "more" => bytes # <<>>
  /\ pc = "handle" /\ bytes = <<>> => Ended(side)
  /\ ~still => side = "target"
  /\ ~still /\ pc # "over" => Ended("client")
  /\ pc = "over" => \E s \in Sides : Ended(s)

LEMMA ExactStep ==
  ASSUME "data" \notin HandlerThrows, OrderInv, OrderInv', Exact, [Next]_vars
  PROVE  Exact'
<1> USE DEF Exact
<1>0. TypeOK BY DEF OrderInv
<1>1. ASSUME \A s \in Sides : got'[s] = got[s] /\ (s \in gone => s \in gone'),
             \A s \in Sides : Done(s)' = Done(s) \/ Other(s) \in gone
      PROVE  Exact'
  BY <1>1, OtherSide
<1>2. ASSUME NEW s \in Sides, PeerWrites(s) PROVE Exact'
  <2>1. \A r \in Sides : Done(r)' = Done(r) BY <1>2, OrderWrite DEF OrderInv
  <2>2. QED BY <2>1, <1>1, <1>2 DEF PeerWrites
<1>3. CASE ReceiveData
  <2>1. \A r \in Sides : Done(r)' = Done(r) BY <1>3, OrderReceive DEF OrderInv
  <2>2. QED BY <2>1, <1>1, <1>3 DEF ReceiveData
<1>4. CASE UNCHANGED <<sent, wire, got, side, bytes>> /\ gone \subseteq gone'
  <2>1. \A r \in Sides : Done(r)' = Done(r) BY <1>4 DEF Done, InHand
  <2>2. QED BY <2>1, <1>1, <1>4
<1>5. CASE UNCHANGED peers /\ bytes' = <<>> /\ (bytes = <<>> \/ Other(side) \in gone)
  <2>1. \A r \in Sides : InHand(r) = 0 \/ Other(r) \in gone
    BY <1>5, EmptySeq DEF InHand
  <2>2. \A r \in Sides : InHand(r)' = 0
    BY <1>5, EmptySeq DEF InHand
  <2>3. \A r \in Sides : Done(r)' = Done(r) \/ Other(r) \in gone
    BY <2>1, <2>2, <1>5 DEF Done, peers
  <2>4. QED BY <2>3, <1>1, <1>5 DEF peers
<1>6. CASE SendUnit
  <2>a. PICK a \in Sides : a = side BY <1>0 DEF TypeOK
  <2>b. PICK b \in Sides : b = Other(side) BY <2>a, OtherSide
  <2>0. a # b /\ Other(a) = b /\ Other(b) = a /\ \A s \in Sides : s = a \/ s = b
    BY <2>a, <2>b, OtherSide DEF Sides
  <2>1. /\ b \notin gone /\ gone' = gone
        /\ got' = [got EXCEPT ![b] = Append(@, Head(bytes))]
        /\ bytes # <<>> /\ bytes \in Seq(1..MaxSent) /\ got[b] \in Seq(1..MaxSent)
    BY <1>6, <1>0, <2>a, <2>b DEF SendUnit, TypeOK
  <2>2. Done(a)' = Done(a) + 1 /\ Done(b)' = Done(b) /\ Head(bytes) = Done(a) + 1
    BY <1>6, <2>0, <2>a, OrderSend DEF OrderInv
  <2>3. Len(got[b]) = Done(a) /\ Len(got[b]) \in Nat
    BY <1>0, <2>0, <2>1, Counts
  <2>4. /\ got'[a] = got[a]
        /\ Len(got'[b]) = Len(got[b]) + 1
        /\ \A i \in 1..Len(got[b]) : got'[b][i] = got[b][i]
        /\ got'[b][Len(got[b]) + 1] = Len(got[b]) + 1
    <3>1. got'[a] = got[a] /\ got'[b] = Append(got[b], Head(bytes)) /\ Head(bytes) \in 1..MaxSent
      BY <1>0, <2>0, <2>1, HeadTailProperties DEF TypeOK
    <3>2. QED BY <3>1, <2>1, <2>2, <2>3, AppendProperties
  <2>5. \A i \in 1..Len(got'[b]) : got'[b][i] = i
    <3> SUFFICES ASSUME NEW i \in 1..(Len(got[b]) + 1) PROVE got'[b][i] = i
      BY <2>4
    <3>1. CASE i \in 1..Len(got[b]) BY <3>1, <2>0, <2>4
    <3>2. CASE i = Len(got[b]) + 1 BY <3>2, <2>4
    <3>3. QED BY <3>1, <3>2, <2>3
  <2>6. Len(got'[b]) = Done(a)' /\ (a \notin gone' => Len(got'[a]) = Done(b)')
    BY <2>0, <2>1, <2>2, <2>3, <2>4
  <2>7. \A i \in 1..Len(got'[a]) : got'[a][i] = i
    BY <2>0, <2>4
  <2>8. QED BY <2>0, <2>5, <2>6, <2>7
<1>7. QED
  <2>1. CASE \E s \in Sides : PeerReads(s) \/ PeerShuts(s) \/ PeerCloses(s)
    BY <2>1, <1>4 DEF PeerReads, PeerShuts, PeerCloses, worker
  <2>2. CASE ReceiveEnds \/ ReceiveNothing \/ HandleData \/ UNCHANGED vars
    BY <2>2, <1>4 DEF ReceiveEnds, ReceiveNothing, HandleData, vars, peers, worker
  <2>3. CASE SkipSide \/ HandlerFails \/ HandleEmpty \/ SendEnds \/ SendLost
    BY <2>3, <1>0, <1>5
    DEF SkipSide, HandlerFails, HandleEmpty, SendEnds, SendLost, Proceed, TypeOK
  <2>4. CASE Select \/ SelectFails
    BY <2>4, <1>0, <1>5 DEF Select, SelectFails, BeginTurn, TypeOK
  <2>5. QED BY <1>2, <1>3, <1>6, <2>1, <2>2, <2>3, <2>4 DEF Next, WorkerStep

LEMMA AtEndStep ==
  TypeOK /\ TypeOK' /\ Selected /\ AtEnd /\ [Next]_vars => AtEnd'
<1> SUFFICES ASSUME TypeOK, TypeOK', Selected, AtEnd, [Next]_vars PROVE AtEnd'
  OBVIOUS
<1> USE DEF AtEnd, Sides
<1>1. ASSUME NEW s \in Sides, PeerWrites(s) PROVE AtEnd'
  <2>1. \A r \in Sides : Ended(r) => Ended(r)'
    <3> SUFFICES ASSUME NEW r \in Sides, Ended(r) PROVE Ended(r)'
      OBVIOUS
    <3>1. r # s BY <1>1 DEF PeerWrites, Ended
    <3>2. wire'[r] = wire[r] BY <1>1, <3>1 DEF PeerWrites, TypeOK
    <3>3. QED BY <1>1, <3>2 DEF PeerWrites, Ended
  <2>2. QED BY <2>1, <1>1 DEF PeerWrites, worker, TypeOK
<1>2. CASE \E s \in Sides : PeerReads(s) \/ PeerShuts(s) \/ PeerCloses(s)
  <2>1. fin \subseteq fin' /\ UNCHANGED <<wire, worker>>
    BY <1>2 DEF PeerReads, PeerShuts, PeerCloses
  <2>2. QED BY <2>1 DEF worker, Ended
<1>3. CASE Select \/ SelectFails
  BY <1>3 DEF Select, SelectFails, BeginTurn
<1>4. CASE ReceiveData
  <2> DEFINE n == IF Len(wire[side]) < ReadBuffer THEN Len(wire[side]) ELSE ReadBuffer
  <2>1. wire[side] \in Seq(1..MaxSent) /\ wire[side] # <<>> /\ bytes \in Seq(1..MaxSent)
    BY <1>4 DEF ReceiveData, TypeOK
  <2>2. n \in 1..Len(wire[side]) BY <2>1, EmptySeq, RelayAssumption
  <2>3. bytes' = bytes \o SubSeq(wire[side], 1, n) /\ pc' = "more" /\ still' = still /\ side' = side
    BY <1>4 DEF ReceiveData, Take
  <2>4. Len(bytes') = Len(bytes) + n /\ Len(bytes) \in Nat
    BY <2>1, <2>2, <2>3, TakeProperties, LenProperties
  <2>5. bytes' # <<>>
    BY <2>2, <2>4, EmptySeq
  <2>6. Ended("client") /\ side = "target" => Ended("client")'
    BY <1>4 DEF ReceiveData, Take, Ended, TypeOK
  <2>7. pc # "over" BY <1>4 DEF ReceiveData
  <2>8. QED BY <2>3, <2>5, <2>6, <2>7
<1>5. CASE ReceiveNothing
  <2>1. Readable(side) BY <1>5 DEF ReceiveNothing, Selected, ToCome, TypeOK
  <2>2. QED BY <2>1, <1>5 DEF ReceiveNothing, Readable, Ended, peers
<1>6. CASE ReceiveEnds \/ HandleData \/ SendUnit \/ UNCHANGED vars
  BY <1>6 DEF ReceiveEnds, HandleData, SendUnit, vars, peers, worker, Ended
<1>7. CASE HandleEmpty
  BY <1>7 DEF HandleEmpty, Proceed, peers, Ended, TypeOK
<1>8. CASE SkipSide \/ HandlerFails \/ SendEnds \/ SendLost
  <2>1. Proceed(still) /\ UNCHANGED peers /\ pc # "over" /\ (~still => side = "target")
    BY <1>8 DEF SkipSide, HandlerFails, SendEnds, SendLost
  <2>2. QED BY <2>1 DEF Proceed, peers, Ended, TypeOK
<1>9. QED BY <1>1, <1>2, <1>3, <1>4, <1>5, <1>6, <1>7, <1>8 DEF Next, WorkerStep

StreamInv == OrderInv /\ Selected /\ Exact /\ AtEnd

LEMMA StreamInvariant ==
  ASSUME "data" \notin HandlerThrows, SelectErrors = FALSE
  PROVE  Spec => []StreamInv
<1>1. Init => StreamInv
  <2> SUFFICES ASSUME Init PROVE StreamInv
    OBVIOUS
  <2>1. OrderInv BY OrderInit
  <2>2. Selected BY DEF Init, Selected
  <2>3. \A s \in Sides : Done(s) = 0
    BY EmptySeq DEF Init, Done, InHand
  <2>4. Exact BY <2>3, EmptySeq, OtherSide DEF Init, Exact
  <2>5. AtEnd BY DEF Init, AtEnd
  <2>6. QED BY <2>1, <2>2, <2>4, <2>5 DEF StreamInv
<1>2. StreamInv /\ [Next]_vars => StreamInv'
  <2> SUFFICES ASSUME StreamInv, [Next]_vars PROVE StreamInv'
    OBVIOUS
  <2>1. OrderInv' BY OrderStep DEF StreamInv
  <2>2. Selected' BY SelectedStep DEF StreamInv, OrderInv
  <2>3. Exact' BY <2>1, ExactStep DEF StreamInv
  <2>4. AtEnd' BY <2>1, AtEndStep DEF StreamInv, OrderInv
  <2>5. QED BY <2>1, <2>2, <2>3, <2>4 DEF StreamInv
<1>3. QED BY <1>1, <1>2, PTL DEF Spec

-------------------------------------------------------------------------------
(* Every step of such a session is a step of the streams, or none. *)

LEMMA StreamsRefined ==
  StreamInv /\ StreamInv' /\ [Next]_vars => [Stream!Next]_(Stream!streamVars)
<1> SUFFICES ASSUME StreamInv, StreamInv', [Next]_vars
             PROVE  Stream!Next \/ UNCHANGED Stream!streamVars
  OBVIOUS
<1> DEFINE passed == [s \in Sides |-> got[Other(s)]]
           cut == {s \in Sides : Other(s) \in gone}
<1>0. TypeOK /\ TypeOK' /\ AtEnd' /\ (pc = "over" => pc' = "over")
  BY DEF StreamInv, OrderInv, Next, WorkerStep, vars, peers, worker, PeerWrites, PeerReads,
     PeerShuts, PeerCloses, Select, SelectFails, BeginTurn, SkipSide, ReceiveData, ReceiveEnds,
     ReceiveNothing, HandlerFails, HandleEmpty, HandleData, SendUnit, SendEnds, SendLost
<1>1. CASE UNCHANGED <<sent, got, fin, gone>> /\ (pc' = "over" <=> pc = "over")
  BY <1>1 DEF Stream!streamVars
<1>2. ASSUME NEW s \in Sides, PeerWrites(s) PROVE Stream!Next
  <2>1. Stream!Write(s) BY <1>2 DEF PeerWrites, worker, Stream!Write
  <2>2. QED BY <2>1 DEF Stream!Next
<1>3. ASSUME NEW s \in Sides, PeerShuts(s) PROVE Stream!Next
  <2>1. Stream!Finish(s) BY <1>3 DEF PeerShuts, worker, Stream!Finish
  <2>2. QED BY <2>1 DEF Stream!Next
<1>4. ASSUME NEW s \in Sides, PeerCloses(s) PROVE Stream!Next
  <2>1. PICK r \in Sides : r = Other(s) BY OtherSide
  <2>2. cut' = cut \cup {r} /\ s # r
    BY <1>4, <2>1, OtherSide DEF PeerCloses, Sides
  <2>3. Stream!Leave(s, r) BY <1>4, <2>2 DEF PeerCloses, worker, Stream!Leave
  <2>4. QED BY <2>3 DEF Stream!Next
<1>5. CASE SendUnit
  <2>a. PICK a \in Sides : a = side BY <1>0 DEF TypeOK
  <2>b. PICK b \in Sides : b = Other(side) BY <2>a, OtherSide
  <2>0. a # b /\ Other(a) = b /\ Other(b) = a /\ \A s \in Sides : s = a \/ s = b
    BY <2>a, <2>b, OtherSide DEF Sides
  <2>1. /\ b \notin gone /\ pc = "send"
        /\ got' = [got EXCEPT ![b] = Append(@, Head(bytes))]
        /\ bytes # <<>> /\ UNCHANGED <<sent, fin, gone, pc>>
    BY <1>5, <2>b DEF SendUnit
  <2>2. Done(a)' = Done(a) + 1 /\ Head(bytes) = Done(a) + 1
    BY <1>5, <1>0, <2>0, <2>a, OrderSend DEF StreamInv
  <2>3. Len(got[b]) = Done(a)
    BY <2>0, <2>1 DEF StreamInv, Exact
  <2>4. passed' = [passed EXCEPT ![a] = Append(@, Len(passed[a]) + 1)]
    <3>1. passed[a] = got[b] /\ passed[b] = got[a] /\ passed'[a] = got'[b] /\ passed'[b] = got'[a]
      BY <2>0
    <3>2. got'[a] = got[a] /\ got'[b] = Append(got[b], Len(got[b]) + 1)
      BY <1>0, <2>0, <2>1, <2>2, <2>3 DEF TypeOK
    <3>3. DOMAIN passed = Sides /\ DOMAIN passed' = Sides
      OBVIOUS
    <3> HIDE DEF passed
    <3>4. \A s \in Sides : passed'[s] = IF s = a THEN Append(passed[a], Len(passed[a]) + 1) ELSE passed[s]
      BY <3>1, <3>2, <2>0
    <3>5. passed' = [s \in Sides |-> passed'[s]] /\ passed = [s \in Sides |-> passed[s]]
      BY <3>3 DEF passed
    <3>6. QED BY <3>4, <3>5
  <2>5. Len(passed[a]) + 1 <= sent[a]
    <3>1. Len(bytes) \in Nat \ {0} /\ InHand(a) = Len(bytes)
      BY <1>0, <2>1, <2>a, EmptySeq DEF TypeOK, InHand
    <3>2. Done(a) + 1 <= sent[a] BY <3>1, <1>0, Counts DEF Done
    <3>3. QED BY <3>2, <2>0, <2>3
  <2>6. a \notin cut BY <2>0, <2>1
  <2>7. Stream!Pass(a) BY <2>1, <2>4, <2>5, <2>6 DEF Stream!Pass
  <2>8. QED BY <2>7 DEF Stream!Next
<1>6. CASE UNCHANGED peers /\ pc # "over" /\ pc' = "over"
  <2>1. PICK s \in Sides : s \in fin /\ wire[s] = <<>>
    BY <1>0, <1>6 DEF AtEnd, Ended, peers
  <2>2. InHand(s)' = 0
    BY <1>0, <1>6, EmptySeq DEF InHand, TypeOK
  <2>3. Done(s)' = sent[s]
    BY <1>0, <1>6, <2>1, <2>2, EmptySeq, Counts DEF Done, peers
  <2>4. Other(s) \notin gone => Len(got[Other(s)]) = sent[s]
    BY <1>6, <2>3 DEF StreamInv, Exact, peers
  <2>5. s \in fin /\ (Len(passed[s]) = sent[s] \/ s \in cut)
    BY <2>1, <2>4
  <2>6. Stream!End BY <1>6, <2>5 DEF Stream!End, peers
  <2>7. QED BY <2>6 DEF Stream!Next
<1>7. QED
  <2>1. CASE UNCHANGED peers BY <2>1, <1>0, <1>1, <1>6 DEF peers
  <2>2. CASE ReceiveData BY <2>2, <1>1 DEF ReceiveData
  <2>3. CASE \E s \in Sides : PeerReads(s) BY <2>3, <1>1 DEF PeerReads, worker
  <2>4. QED
    BY <1>2, <1>3, <1>4, <1>5, <2>1, <2>2, <2>3
    DEF Next, WorkerStep, Select, SelectFails, BeginTurn, SkipSide, ReceiveEnds,
        ReceiveNothing, HandlerFails, HandleEmpty, HandleData, SendEnds, SendLost, vars

(* The session implements a pair of lossless, ordered streams with one end  *)
(* (RelayStreams): a unit is passed on when send() takes it, and the        *)
(* session ends when the loop of ThreadHandler does.                        *)
THEOREM RelayImplementsStreams ==
  ASSUME "data" \notin HandlerThrows, SelectErrors = FALSE
  PROVE  Spec => StreamSpec
<1>1. Init => Stream!Init
  BY OtherSide DEF Init, Stream!Init
<1>2. Spec => []StreamInv
  BY StreamInvariant
<1>3. QED BY <1>1, <1>2, StreamsRefined, PTL DEF Spec, StreamSpec, Stream!Spec
===============================================================================
