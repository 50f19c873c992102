--------------------------- MODULE SocketReadsProofs ---------------------------
(***************************************************************************)
(* Proofs about SocketReads for any stream, any line ends and records, any *)
(* width of a size_t and any lengths that are asked for.                   *)
(*                                                                         *)
(* A byte that is read has been written and is read once, although records *)
(* are taken from the stream as a whole (Arrived).  From this follows what *)
(* each call has received so far: no line end but the last byte            *)
(* (LineBegun); for RecvBlocking, how far it is from the end of its buffer *)
(* (ToGo), whatever failed, and what is in the buffer if nothing did       *)
(* (InPlace).                                                              *)
(***************************************************************************)
EXTENDS SocketReads, SequenceTheorems, TLAPS

(* ends[i] is how many bytes the peer had written when it had written all   *)
(* before the i-th record on the wire.                                      *)
Boundaries(ends) ==
  /\ ends[1] = taken + pending /\ ends[Len(wire) + 1] = written
  /\ \A i \in 1..Len(wire) : wire[i] \in 1..MaxRecord /\ ends[i + 1] = ends[i] + wire[i]
  /\ \A i, j \in 1..(Len(wire) + 1) : i <= j => ends[i] <= ends[j]

(* What has arrived is what was written and not yet taken. *)
Arrived ==
  IF secure
  THEN \E ends \in [1..(Len(wire) + 1) -> 0..MaxBytes] : Boundaries(ends)
  ELSE written = taken + (IF wire = <<>> THEN 0 ELSE wire[1])

(* ReceiveLine has not passed a line end. *)
LineBegun == call = "line" => \A i \in (from + 1)..taken : i \notin Newlines

(* RecvBlocking is remaining bytes before the end of the buffer, or, having *)
(* been moved to before its start, would be but for the wrap of a size_t.   *)
ToGo ==
  call = "block" =>
    /\ length \in Lengths
    /\ remaining \in 1..(length + failures)
    /\ at + remaining \in {length, length + Word}

(* If no read failed, what RecvBlocking has received is in its place. *)
InPlace ==
  call = "block" /\ ~faulted =>
    /\ at = taken - from /\ at + remaining = length
    /\ \A o \in 0..(at - 1) : buffer[o] = from + 1 + o

ReadsInv ==
  /\ TypeOK /\ Arrived
  /\ LineBegun /\ ToGo /\ InPlace
  /\ AtMostOneLine /\ BlockFilled /\ NothingHidden

-------------------------------------------------------------------------------
(* Arithmetic of a size_t. *)

LEMMA ModIn == ASSUME NEW w \in Nat \ {0}, NEW a \in Nat PROVE a % w \in 0..(w - 1)
  BY SMT

LEMMA ModLess == ASSUME NEW w \in Nat \ {0}, NEW a \in 0..(w - 1) PROVE a % w = a
  BY SMT

LEMMA ModOnce == ASSUME NEW w \in Nat \ {0}, NEW a \in w..(2 * w - 1) PROVE a % w = a - w
  BY SMT

(* A sum that wraps at most once. *)
LEMMA ModTwice ==
  ASSUME NEW w \in Nat \ {0}, NEW a \in 0..(2 * w - 1)
  PROVE  a % w = IF a < w THEN a ELSE a - w
<1>1. CASE a < w
  <2>1. a \in 0..(w - 1) BY <1>1
  <2>2. a % w = a BY <2>1, ModLess
  <2>3. QED BY <1>1, <2>2
<1>2. CASE a >= w
  <2>1. a \in w..(2 * w - 1) BY <1>2
  <2>2. a % w = a - w BY <2>1, ModOnce
  <2>3. QED BY <1>2, <2>2
<1>3. QED BY <1>1, <1>2

LEMMA MinusIs ==
  ASSUME NEW a \in 0..(Word - 1), NEW b \in 0..(Word - 1)
  PROVE  Minus(a, b) = IF b <= a THEN a - b ELSE a + Word - b
<1>1. Word \in Nat \ {0} BY ReadsAssumption
<1>2. a + Word - b \in 0..(2 * Word - 1) BY <1>1
<1>3. \A sum \in 0..(2 * Word - 1) : sum % Word = IF sum < Word THEN sum ELSE sum - Word
  BY <1>1, ModTwice
<1>4. PICK sum \in 0..(2 * Word - 1) : sum = a + Word - b BY <1>2
<1>5. Minus(a, b) = IF sum < Word THEN sum ELSE sum - Word BY <1>3, <1>4 DEF Minus
<1>6. QED BY <1>1, <1>4, <1>5

-------------------------------------------------------------------------------
(* Reads. *)

LEMMA FirstOf ==
  ASSUME NEW S, NEW seq \in Seq(S), seq # <<>>
  PROVE  /\ Head(seq) = seq[1] /\ Head(seq) \in S
         /\ Len(seq) \in Nat /\ 1 \in 1..Len(seq)
         /\ Tail(seq) \in Seq(S) /\ Len(Tail(seq)) = Len(seq) - 1
         /\ \A i \in 1..Len(Tail(seq)) : Tail(seq)[i] = seq[i + 1]
<1>1. Len(seq) \in Nat \ {0} BY EmptySeq
<1>2. Head(seq) = seq[1] BY <1>1
<1>3. QED BY <1>1, <1>2, HeadTailProperties

LEMMA Singleton ==
  ASSUME NEW S, NEW e \in S
  PROVE  <<e>>[1] = e /\ <<e>> # <<>> /\ <<e>> \in Seq(S) /\ Len(<<e>>) = 1
  OBVIOUS

(* The stream is counted in natural numbers. *)
LEMMA StreamNats ==
  ASSUME TypeOK
  PROVE  /\ written \in Nat /\ taken \in Nat /\ pending \in Nat /\ MaxBytes \in Nat
         /\ taken <= written /\ written <= MaxBytes /\ pending <= MaxRecord
  BY ReadsAssumption DEF TypeOK

(* No read returns more than the peer has written. *)
LEMMA AvailableIs ==
  ASSUME TypeOK, Arrived
  PROVE  /\ Available \in Nat /\ taken + Available <= written
         /\ secure => Available <= MaxRecord
<1>1. wire # <<>> => /\ Head(wire) = wire[1] /\ Head(wire) \in 1..MaxBytes
                     /\ Len(wire) \in Nat /\ 1 \in 1..Len(wire)
  BY FirstOf DEF TypeOK
<1>2. CASE ~secure
  <2>1. pending = 0 BY <1>2 DEF TypeOK
  <2>2. CASE wire = <<>>
    <3>1. Available = 0 BY <2>1, <2>2 DEF Available
    <3>2. QED BY <1>2, <3>1, StreamNats
  <2>3. CASE wire # <<>>
    <3>1. Available = wire[1] /\ wire[1] \in 1..MaxBytes BY <1>1, <2>1, <2>3 DEF Available
    <3>2. written = taken + wire[1] BY <1>2, <2>3 DEF Arrived
    <3>3. QED BY <1>2, <3>1, <3>2, StreamNats
  <2>4. QED BY <2>2, <2>3
<1>3. CASE secure
  <2>1. PICK ends \in [1..(Len(wire) + 1) -> 0..MaxBytes] : Boundaries(ends)
    BY <1>3 DEF Arrived
  <2>2. Len(wire) \in Nat BY DEF TypeOK
  <2>3. taken + pending <= written
    <3>1. 1 \in 1..(Len(wire) + 1) /\ Len(wire) + 1 \in 1..(Len(wire) + 1) BY <2>2
    <3>2. ends[1] <= ends[Len(wire) + 1] BY <2>1, <2>2, <3>1 DEF Boundaries
    <3>3. QED BY <2>1, <3>2 DEF Boundaries
  <2>4. ASSUME pending = 0, wire # <<>>
        PROVE  taken + Head(wire) <= written /\ Head(wire) <= MaxRecord
    <3>1. 2 \in 1..(Len(wire) + 1) /\ Len(wire) + 1 \in 1..(Len(wire) + 1)
      BY <1>1, <2>2, <2>4
    <3>2. ends[2] <= ends[Len(wire) + 1] BY <1>1, <2>1, <2>4, <3>1 DEF Boundaries
    <3>3. wire[1] \in 1..MaxRecord /\ ends[1 + 1] = ends[1] + wire[1]
      BY <1>1, <2>1, <2>4 DEF Boundaries
    <3>4. ends[1] = taken /\ ends[Len(wire) + 1] = written
      BY <2>1, <2>4, StreamNats DEF Boundaries
    <3>5. taken + wire[1] <= written BY <3>2, <3>3, <3>4
    <3>6. QED BY <1>1, <2>4, <3>3, <3>5, ReadsAssumption
  <2>5. CASE pending > 0
    <3>1. Available = pending BY <2>5 DEF Available
    <3>2. QED BY <2>3, <3>1, StreamNats
  <2>6. CASE pending = 0 /\ wire = <<>>
    <3>1. Available = 0 BY <2>6 DEF Available
    <3>2. QED BY <3>1, StreamNats, ReadsAssumption
  <2>7. CASE pending = 0 /\ wire # <<>>
    <3>1. Available = Head(wire) BY <2>7 DEF Available
    <3>2. QED BY <1>1, <2>4, <2>7, <3>1
  <2>8. QED BY <2>5, <2>6, <2>7, StreamNats
<1>4. QED BY <1>2, <1>3

LEMMA AtMostIs ==
  ASSUME TypeOK, Arrived, NEW n \in Nat
  PROVE  AtMost(n) \in Nat /\ AtMost(n) <= n /\ AtMost(n) <= Available
  BY AvailableIs DEF AtMost

(* A read takes what it returns off the stream, and nothing else. *)
LEMMA TakeKeeps ==
  ASSUME TypeOK, Arrived, NEW n \in Nat, Take(n)
  PROVE  /\ n > 0 /\ taken' = taken + n /\ taken' \in 0..written
         /\ UNCHANGED <<secure, written, fin, broken>>
         /\ pending' \in 0..MaxRecord
         /\ wire' \in Seq(1..MaxBytes)
         /\ ~secure => pending' = 0 /\ Len(wire') <= 1
         /\ Arrived'
<1>1. /\ n > 0 /\ n <= Available /\ taken' = taken + n /\ taken' \in 0..written
      /\ UNCHANGED <<secure, written, fin, broken>>
  <2>1. n \in 1..Available /\ taken' = taken + n /\ UNCHANGED <<secure, written, fin, broken>>
    BY DEF Take
  <2>2. n > 0 /\ n <= Available BY <2>1, AvailableIs
  <2>3. taken + n \in 0..written BY <2>2, AvailableIs, StreamNats
  <2>4. QED BY <2>1, <2>2, <2>3
<1>2. wire # <<>> => /\ Head(wire) = wire[1] /\ Head(wire) \in 1..MaxBytes
                     /\ Len(wire) \in Nat /\ 1 \in 1..Len(wire)
                     /\ Tail(wire) \in Seq(1..MaxBytes) /\ Len(Tail(wire)) = Len(wire) - 1
                     /\ \A i \in 1..Len(Tail(wire)) : Tail(wire)[i] = wire[i + 1]
  BY FirstOf DEF TypeOK
<1>3. Available - n \in Nat
  BY <1>1, AvailableIs
<1>4. CASE ~secure
  <2>1. wire # <<>> /\ Available = wire[1] /\ written = taken + wire[1]
    BY <1>1, <1>2, <1>4 DEF TypeOK, Available, Arrived
  <2>2. pending' = 0 /\ wire' = IF Available - n = 0 THEN <<>> ELSE <<Available - n>>
    BY <1>4 DEF Take
  <2>3. Available - n \in 0..MaxBytes
    BY <1>1, <1>2, <1>3, <2>1, ReadsAssumption
  <2>4. CASE Available - n = 0
    <3>1. wire' = <<>> BY <2>2, <2>4
    <3>2. wire' \in Seq(1..MaxBytes) /\ Len(wire') = 0 BY <3>1
    <3>3. Arrived'
      <4>1. wire[1] \in 1..MaxBytes BY <1>2, <2>1
      <4>0. n = wire[1] BY <2>1, <2>4, <4>1
      <4>2. written' = taken' BY <1>1, <2>1, <4>0
      <4>3. taken' \in Nat BY <1>1, <4>1, ReadsAssumption DEF TypeOK
      <4>4. QED BY <1>1, <1>4, <3>1, <4>2, <4>3 DEF Arrived
    <3>4. QED BY <1>1, <1>4, <2>2, <3>2, <3>3, ReadsAssumption
  <2>5. CASE Available - n # 0
    <3>1. wire' = <<Available - n>> BY <2>2, <2>5
    <3>2. wire' \in Seq(1..MaxBytes) /\ Len(wire') = 1 /\ wire' # <<>> /\ wire'[1] = Available - n
      BY <2>3, <2>5, <3>1, ReadsAssumption
    <3>3. written' = taken' + wire'[1]
      <4>1. wire[1] \in Nat BY <1>2, <2>1, StreamNats
      <4>2. written = (taken + n) + (wire[1] - n) BY <2>1, <4>1, StreamNats
      <4>3. QED BY <1>1, <2>1, <3>2, <4>2, Zenon
    <3>5. Arrived' BY <1>1, <1>4, <3>2, <3>3, Zenon DEF Arrived
    <3>6. QED BY <1>1, <1>4, <2>2, <3>2, <3>5, ReadsAssumption
  <2>6. QED BY <2>4, <2>5
<1>5. CASE secure
  <2>1. PICK ends \in [1..(Len(wire) + 1) -> 0..MaxBytes] : Boundaries(ends)
    BY <1>5 DEF Arrived
  <2>2. pending' = Available - n /\ wire' = IF pending > 0 THEN wire ELSE Tail(wire)
    BY <1>5 DEF Take
  <2>3. pending' \in 0..MaxRecord
    BY <1>1, <1>3, <1>5, <2>2, AvailableIs, ReadsAssumption
  <2>4. CASE pending > 0
    <3>1. Available = pending /\ wire' = wire BY <2>2, <2>4 DEF Available
    <3>2. Boundaries(ends)'
      BY <1>1, <2>1, <2>2, <3>1 DEF Boundaries, TypeOK
    <3>3. Arrived' BY <1>1, <1>5, <2>1, <3>1, <3>2 DEF Arrived
    <3>4. QED BY <1>1, <1>5, <2>3, <3>1, <3>3 DEF TypeOK
  <2>5. CASE pending = 0
    <3>1. wire # <<>> /\ Available = wire[1] /\ wire' = Tail(wire)
      BY <1>1, <1>2, <2>2, <2>5 DEF Available
    <3>2. Len(wire) \in Nat /\ Len(wire) >= 1 /\ Len(wire') = Len(wire) - 1
      BY <1>2, <3>1
    <3>3. PICK rest \in [1..(Len(wire') + 1) -> 0..MaxBytes] :
                 \A i \in 1..Len(wire) : rest[i] = ends[i + 1]
      <4>1. [i \in 1..Len(wire) |-> ends[i + 1]] \in [1..(Len(wire') + 1) -> 0..MaxBytes]
        BY <3>2
      <4>2. QED BY <4>1
    <3>4. rest[1] = taken' + pending'
      <4>1. ends[1 + 1] = ends[1] + wire[1] BY <1>2, <2>1, <3>1 DEF Boundaries
      <4>2. rest[1] = ends[1 + 1] BY <3>2, <3>3
      <4>3. ends[1] = taken + pending BY <2>1 DEF Boundaries
      <4>4. wire[1] \in Nat BY <1>2, <3>1, StreamNats
      <4>5. (taken + 0) + wire[1] = (taken + n) + (wire[1] - n) BY <4>4, StreamNats
      <4>6. rest[1] = (taken + 0) + wire[1] BY <2>5, <4>1, <4>2, <4>3, Zenon
      <4>7. QED BY <1>1, <2>2, <3>1, <4>5, <4>6, Zenon
    <3>5. rest[Len(wire') + 1] = written'
      BY <1>1, <2>1, <3>2, <3>3 DEF Boundaries
    <3>6. \A i \in 1..Len(wire') : wire'[i] \in 1..MaxRecord /\ rest[i + 1] = rest[i] + wire'[i]
      <4> SUFFICES ASSUME NEW i \in 1..Len(wire')
                   PROVE  wire'[i] \in 1..MaxRecord /\ rest[i + 1] = rest[i] + wire'[i]
        OBVIOUS
      <4>1. i + 1 \in 1..Len(wire) /\ i \in 1..Len(wire) BY <3>2
      <4>2. wire'[i] = wire[i + 1] BY <1>2, <3>1
      <4>3. wire[i + 1] \in 1..MaxRecord /\ ends[(i + 1) + 1] = ends[i + 1] + wire[i + 1]
        BY <2>1, <4>1 DEF Boundaries
      <4>4. QED BY <3>2, <3>3, <4>1, <4>2, <4>3
    <3>7. \A i, j \in 1..(Len(wire') + 1) : i <= j => rest[i] <= rest[j]
      <4> SUFFICES ASSUME NEW i \in 1..(Len(wire') + 1), NEW j \in 1..(Len(wire') + 1), i <= j
                   PROVE  rest[i] <= rest[j]
        OBVIOUS
      <4>1. i \in 1..Len(wire) /\ j \in 1..Len(wire) BY <3>2
      <4>2. i + 1 \in 1..(Len(wire) + 1) /\ j + 1 \in 1..(Len(wire) + 1) /\ i + 1 <= j + 1
        BY <3>2, <4>1
      <4>3. ends[i + 1] <= ends[j + 1] BY <2>1, <4>2 DEF Boundaries
      <4>4. QED BY <3>3, <4>1, <4>3
    <3>8. Boundaries(rest)' BY <3>4, <3>5, <3>6, <3>7 DEF Boundaries
    <3>9. Arrived' BY <1>1, <1>5, <3>3, <3>8 DEF Arrived
    <3>10. QED BY <1>1, <1>2, <1>5, <2>3, <3>1, <3>9
  <2>6. QED BY <2>4, <2>5 DEF TypeOK
<1>6. QED BY <1>4, <1>5

(* What the peer and failed reads leave alone. *)
LEMMA ArrivedKept ==
  ASSUME Arrived, UNCHANGED <<secure, written, wire, pending, taken>>
  PROVE  Arrived'
  BY DEF Arrived, Boundaries

-------------------------------------------------------------------------------
(* The peer. *)

LEMMA PeerWritesKeeps ==
  ASSUME ReadsInv, NEW n \in 1..MaxRecord, PeerWrites(n)
  PROVE  TypeOK' /\ Arrived'
<1>1. /\ n \in 1..MaxBytes /\ written' = written + n /\ written' \in 0..MaxBytes
      /\ wire' = IF secure \/ wire = <<>> THEN Append(wire, n) ELSE <<wire[1] + n>>
      /\ UNCHANGED <<secure, fin, broken, pending, taken>>
  BY ReadsAssumption DEF ReadsInv, TypeOK, PeerWrites, received
<1>2. /\ wire \in Seq(1..MaxBytes) /\ Len(wire) \in Nat
      /\ Append(wire, n) \in Seq(1..MaxBytes) /\ Len(Append(wire, n)) = Len(wire) + 1
      /\ Append(wire, n)[Len(wire) + 1] = n
      /\ \A i \in 1..Len(wire) : Append(wire, n)[i] = wire[i]
  BY <1>1 DEF ReadsInv, TypeOK
<1>3. wire' \in Seq(1..MaxBytes) /\ (~secure => Len(wire') <= 1) /\ Arrived'
  <2>1. CASE secure
    <3>1. PICK ends \in [1..(Len(wire) + 1) -> 0..MaxBytes] : Boundaries(ends)
      BY <2>1 DEF ReadsInv, Arrived
    <3>2. wire' = Append(wire, n) /\ Len(wire') = Len(wire) + 1 BY <1>1, <1>2, <2>1
    <3>3. PICK more \in [1..(Len(wire') + 1) -> 0..MaxBytes] :
                 more = [i \in 1..(Len(wire') + 1) |-> IF i <= Len(wire) + 1 THEN ends[i] ELSE written']
      <4>1. [i \in 1..(Len(wire') + 1) |-> IF i <= Len(wire) + 1 THEN ends[i] ELSE written']
              \in [1..(Len(wire') + 1) -> 0..MaxBytes]
        BY <1>1, <1>2, <3>2
      <4>2. QED BY <4>1
    <3>4. \A i \in 1..(Len(wire) + 1) : more[i] = ends[i]
      BY <1>2, <3>2, <3>3
    <3>5. more[Len(wire') + 1] = written' /\ ends[Len(wire) + 1] = written
      BY <1>2, <3>1, <3>2, <3>3 DEF Boundaries
    <3>6. more[1] = taken' + pending'
      BY <1>1, <1>2, <3>1, <3>4 DEF Boundaries
    <3>7. \A i \in 1..Len(wire') : wire'[i] \in 1..MaxRecord /\ more[i + 1] = more[i] + wire'[i]
      <4> SUFFICES ASSUME NEW i \in 1..Len(wire')
                   PROVE  wire'[i] \in 1..MaxRecord /\ more[i + 1] = more[i] + wire'[i]
        OBVIOUS
      <4>1. CASE i \in 1..Len(wire)
        <5>1. wire'[i] = wire[i] BY <1>2, <3>2, <4>1
        <5>2. i + 1 \in 1..(Len(wire) + 1) /\ i \in 1..(Len(wire) + 1) BY <1>2, <4>1
        <5>3. more[i + 1] = ends[i + 1] /\ more[i] = ends[i] BY <3>4, <5>2
        <5>4. wire[i] \in 1..MaxRecord /\ ends[i + 1] = ends[i] + wire[i]
          BY <3>1, <4>1 DEF Boundaries
        <5>5. QED BY <5>1, <5>3, <5>4
      <4>2. CASE i = Len(wire) + 1
        <5>1. wire'[i] = n BY <1>2, <3>2, <4>2
        <5>2. more[i] = written BY <1>2, <3>4, <3>5, <4>2
        <5>3. more[i + 1] = written' BY <3>2, <3>5, <4>2
        <5>4. QED BY <1>1, <5>1, <5>2, <5>3
      <4>3. QED BY <1>2, <3>2, <4>1, <4>2
    <3>8. \A i, j \in 1..(Len(wire') + 1) : i <= j => more[i] <= more[j]
      <4> SUFFICES ASSUME NEW i \in 1..(Len(wire') + 1), NEW j \in 1..(Len(wire') + 1), i <= j
                   PROVE  more[i] <= more[j]
        OBVIOUS
      <4>1. CASE j \in 1..(Len(wire) + 1)
        <5>1. i \in 1..(Len(wire) + 1) BY <1>2, <4>1
        <5>2. ends[i] <= ends[j] BY <3>1, <4>1, <5>1 DEF Boundaries
        <5>3. QED BY <3>4, <4>1, <5>1, <5>2
      <4>2. CASE j = Len(wire') + 1 /\ i \in 1..(Len(wire) + 1)
        <5>1. Len(wire) + 1 \in 1..(Len(wire) + 1) /\ i <= Len(wire) + 1 BY <1>2, <4>2
        <5>2. ends[i] <= ends[Len(wire) + 1] BY <3>1, <4>2, <5>1 DEF Boundaries
        <5>3. more[i] <= written BY <3>4, <3>5, <4>2, <5>2
        <5>4. more[i] \in 0..MaxBytes BY <3>3
        <5>5. QED BY <1>1, <3>5, <4>2, <5>3, <5>4, ReadsAssumption DEF ReadsInv, TypeOK
      <4>3. CASE i = j BY <3>3, <4>3, ReadsAssumption
      <4>4. QED BY <1>2, <3>2, <4>1, <4>2, <4>3
    <3>9. Boundaries(more)' BY <3>5, <3>6, <3>7, <3>8 DEF Boundaries
    <3>10. QED BY <1>1, <1>2, <2>1, <3>2, <3>9 DEF Arrived
  <2>2. CASE ~secure /\ wire = <<>>
    <3>1. wire' = <<n>> BY <1>1, <2>2
    <3>2. written = taken BY <2>2, ReadsAssumption DEF ReadsInv, Arrived, TypeOK
    <3>3. wire'[1] = n /\ wire' # <<>> /\ wire' \in Seq(1..MaxBytes) /\ Len(wire') = 1
      BY <1>1, <3>1, Singleton
    <3>4. QED BY <1>1, <2>2, <3>2, <3>3 DEF Arrived
  <2>3. CASE ~secure /\ wire # <<>>
    <3>1. wire' = <<wire[1] + n>> BY <1>1, <2>3
    <3>2. wire[1] \in 1..MaxBytes /\ written = taken + wire[1]
      <4>1. wire[1] \in 1..MaxBytes BY <2>3, FirstOf DEF ReadsInv, TypeOK
      <4>2. written = taken + wire[1] BY <2>3 DEF ReadsInv, Arrived
      <4>3. QED BY <4>1, <4>2
    <3>3. PICK w \in Nat, t \in Nat : w = wire[1] /\ t = taken /\ w >= 1
      <4>1. wire[1] \in Nat /\ wire[1] >= 1 BY <3>2, ReadsAssumption
      <4>2. taken \in Nat BY ReadsAssumption DEF ReadsInv, TypeOK
      <4>3. QED BY <4>1, <4>2
    <3>4. written = t + w BY <3>2, <3>3, Zenon
    <3>5. w + n \in 1..MaxBytes /\ t + (w + n) = (t + w) + n
      <4>1. (t + w) + n <= MaxBytes BY <1>1, <3>4
      <4>2. n \in Nat /\ n >= 1 BY ReadsAssumption
      <4>3. QED BY <3>3, <4>1, <4>2, ReadsAssumption
    <3>6. wire' = <<w + n>> BY <3>1, <3>3, Zenon
    <3>7. wire'[1] = w + n /\ wire' # <<>> /\ wire' \in Seq(1..MaxBytes) /\ Len(wire') = 1
      BY <3>5, <3>6, Singleton
    <3>8. written' = taken' + wire'[1]
      <4>1. written' = (t + w) + n BY <1>1, <3>4, Zenon
      <4>2. taken' = t BY <1>1, <3>3
      <4>3. QED BY <3>5, <3>7, <4>1, <4>2, Zenon
    <3>9. QED BY <1>1, <2>3, <3>7, <3>8 DEF Arrived
  <2>4. QED BY <2>1, <2>2, <2>3
<1>4. TypeOK'
  <2>1. UNCHANGED <<secure, fin, broken, pending, taken, failures, call, from, faulted,
                    length, remaining, at, buffer>>
    BY DEF PeerWrites, received, block
  <2>2. TypeOK BY DEF ReadsInv
  <2>3. taken \in 0..written' BY <1>1, <2>2, StreamNats
  <2>4. QED BY <1>1, <1>3, <2>1, <2>2, <2>3 DEF TypeOK
<1>5. QED BY <1>3, <1>4

(* Calls know nothing of what the peer writes. *)
LEMMA PeerKeeps ==
  ASSUME ReadsInv, TypeOK', Arrived', fin => fin',
         UNCHANGED <<secure, received, call, from, faulted, block, result>>
  PROVE  ReadsInv'
<1> USE DEF ReadsInv, received, block
<1>1. LineBegun' /\ ToGo' /\ InPlace'
  BY DEF LineBegun, ToGo, InPlace
<1>2. AtMostOneLine' BY DEF AtMostOneLine, Reported
<1>3. BlockFilled' /\ NothingHidden' BY DEF BlockFilled, NothingHidden
<1>4. QED BY <1>1, <1>2, <1>3

-------------------------------------------------------------------------------
(* Calls begin, and bytes are received. *)

LEMMA CallKeeps ==
  ASSUME ReadsInv, NEW kind \in {"line", "block", "bytes"}, Call(kind),
         \/ kind # "block" /\ UNCHANGED block
         \/ /\ kind = "block" /\ \E l \in Lengths : length' = l /\ remaining' = l
            /\ at' = 0 /\ buffer' = Empty
  PROVE  ReadsInv'
<1>1. /\ call = "none" /\ call' = kind /\ from' = taken /\ ~faulted'
      /\ UNCHANGED <<secure, written, wire, fin, broken, pending, taken, failures, result>>
      /\ faulted' \in BOOLEAN
  BY DEF Call, stream, received
<1>2. Empty \in [0..(Word - 1) -> 0..MaxBytes] /\ 0 \in 0..(Word - 1)
  BY ReadsAssumption DEF Empty
<1>3. /\ length' \in 0..(Word - 1) /\ remaining' \in 0..(Word - 1) /\ at' \in 0..(Word - 1)
      /\ buffer' \in [0..(Word - 1) -> 0..MaxBytes]
  <2>1. CASE UNCHANGED block BY <2>1 DEF ReadsInv, TypeOK, block
  <2>2. ASSUME NEW l \in Lengths, length' = l, remaining' = l, at' = 0, buffer' = Empty
        PROVE  /\ length' \in 0..(Word - 1) /\ remaining' \in 0..(Word - 1) /\ at' \in 0..(Word - 1)
               /\ buffer' \in [0..(Word - 1) -> 0..MaxBytes]
    <3>1. l \in 1..(Word - 1) BY ReadsAssumption
    <3>2. QED BY <1>2, <2>2, <3>1
  <2>3. QED BY <2>1, <2>2
<1>4. TypeOK' BY <1>1, <1>3 DEF ReadsInv, TypeOK
<1>5. Arrived' BY <1>1, ArrivedKept DEF ReadsInv
<1>6. LineBegun' BY <1>1 DEF LineBegun, ReadsInv, TypeOK
<1>7. ToGo'
  <2> SUFFICES ASSUME kind = "block" PROVE ToGo'
    BY <1>1 DEF ToGo
  <2>1. length' \in Lengths /\ remaining' = length' /\ at' = 0 /\ length' \in 1..(Word - 1)
    BY ReadsAssumption
  <2>2. failures' \in Nat BY <1>4, ReadsAssumption DEF TypeOK
  <2>3. length' \in Nat /\ remaining' \in 1..(length' + failures') /\ at' + remaining' = length'
    <3>1. Word \in Nat BY ReadsAssumption
    <3>2. PICK l \in 1..(Word - 1) : l = length' BY <2>1
    <3>3. l \in Nat /\ l >= 1 /\ 0 + l = l BY <3>1
    <3>4. l \in 1..(l + failures')
      <4>1. \A a, b \in Nat : a >= 1 => a \in 1..(a + b) OBVIOUS
      <4>2. QED BY <2>2, <3>3, <4>1
    <3>5. QED BY <2>1, <3>2, <3>3, <3>4
  <2>4. QED BY <2>1, <2>3 DEF ToGo
<1>8. InPlace'
  <2> SUFFICES ASSUME kind = "block" PROVE InPlace'
    BY <1>1 DEF InPlace
  <2>1. remaining' = length' /\ at' = 0 /\ length' \in 0..(Word - 1)
    BY <1>3
  <2>2. taken' - from' = 0 /\ at' + remaining' = length'
    <3>1. Word \in Nat /\ taken \in Nat BY ReadsAssumption DEF ReadsInv, TypeOK
    <3>2. PICK l \in 0..(Word - 1) : l = length' BY <2>1
    <3>3. 0 + l = l /\ taken - taken = 0 BY <3>1
    <3>4. QED BY <1>1, <2>1, <3>2, <3>3
  <2>3. \A o \in 0..(at' - 1) : FALSE BY <2>1
  <2>4. QED BY <2>1, <2>2, <2>3 DEF InPlace
<1>9. AtMostOneLine' BY <1>1 DEF ReadsInv, AtMostOneLine, Reported
<1>10. BlockFilled' /\ NothingHidden' BY <1>1 DEF BlockFilled, NothingHidden
<1>11. QED BY <1>4, <1>5, <1>6, <1>7, <1>8, <1>9, <1>10 DEF ReadsInv

LEMMA LineKeeps ==
  ASSUME ReadsInv, LineByte \/ LineEnds \/ LineFails
  PROVE  ReadsInv'
<1> USE DEF ReadsInv
<1>1. CASE LineByte
  <2>1. /\ call = "line" /\ Take(1) /\ UNCHANGED <<failures, length, remaining, at, buffer>>
        /\ from' = from
        /\ IF taken' \in Newlines
           THEN /\ call' = "none" /\ faulted' = faulted
                /\ result' = [call |-> "line", first |-> from, last |-> taken', value |-> 0,
                              faulted |-> FALSE]
           ELSE UNCHANGED <<call, result, faulted>>
    BY <1>1 DEF LineByte, Return, Continue, block
  <2>2. /\ taken' = taken + 1 /\ taken' \in 0..written /\ UNCHANGED <<secure, written, fin, broken>>
        /\ pending' \in 0..MaxRecord /\ wire' \in Seq(1..MaxBytes)
        /\ ~secure => pending' = 0 /\ Len(wire') <= 1
        /\ Arrived'
    BY <2>1, TakeKeeps
  <2>3. taken \in Nat /\ from \in 0..taken BY ReadsAssumption DEF TypeOK
  <2>4. from' \in 0..taken' BY <2>1, <2>2, <2>3
  <2>5. TypeOK' BY <2>1, <2>2, <2>4 DEF TypeOK
  <2>6. LineBegun'
    BY <2>1, <2>2, <2>3 DEF LineBegun
  <2>7. ToGo' /\ InPlace' BY <2>1 DEF ToGo, InPlace
  <2>8. AtMostOneLine'
    <3>1. CASE taken' \in Newlines
      BY <2>1, <2>2, <2>3, <3>1 DEF AtMostOneLine, Reported, LineBegun
    <3>2. CASE taken' \notin Newlines
      BY <2>1, <2>2, <3>2 DEF AtMostOneLine, Reported
    <3>3. QED BY <3>1, <3>2
  <2>9. BlockFilled' /\ NothingHidden' BY <2>1 DEF BlockFilled, NothingHidden
  <2>10. QED BY <2>2, <2>5, <2>6, <2>7, <2>8, <2>9
<1>2. CASE LineEnds \/ LineFails
  <2>1. /\ call = "line" /\ call' = "none" /\ UNCHANGED <<length, remaining, at, buffer>>
        /\ UNCHANGED <<secure, written, wire, fin, broken, pending, taken, from, faulted>>
        /\ failures' \in 0..MaxFailures
        /\ \/ /\ result' = [call |-> "line", first |-> from, last |-> taken, value |-> 0,
                            faulted |-> FALSE]
              /\ fin
           \/ result' = [call |-> "line", first |-> from, last |-> from, value |-> 0,
                         faulted |-> TRUE]
    <3>1. CASE LineEnds
      <4>1. failures' \in 0..MaxFailures BY <3>1 DEF LineEnds, received, TypeOK
      <4>2. QED BY <3>1, <4>1 DEF LineEnds, Ends, Return, stream, received, block
    <3>2. CASE LineFails
      <4>1. failures' \in 0..MaxFailures
        BY <3>2, ReadsAssumption DEF LineFails, Fails, TypeOK
      <4>2. QED BY <3>2, <4>1 DEF LineFails, Fails, Return, stream, block
    <3>3. QED BY <1>2, <3>1, <3>2
  <2>2. TypeOK' BY <2>1 DEF TypeOK
  <2>3. Arrived' BY <2>1, ArrivedKept
  <2>4. LineBegun' /\ ToGo' /\ InPlace' BY <2>1 DEF LineBegun, ToGo, InPlace
  <2>5. AtMostOneLine'
    <3>1. from \in Nat /\ taken \in Nat BY ReadsAssumption DEF TypeOK
    <3>2. QED BY <2>1, <3>1 DEF AtMostOneLine, Reported, LineBegun
  <2>6. BlockFilled' /\ NothingHidden' BY <2>1 DEF BlockFilled, NothingHidden
  <2>7. QED BY <2>2, <2>3, <2>4, <2>5, <2>6
<1>3. QED BY <1>1, <1>2

LEMMA BytesKeeps ==
  ASSUME ReadsInv, BytesData \/ BytesEnds \/ BytesFails
  PROVE  ReadsInv'
<1> USE DEF ReadsInv
<1>1. CASE BytesData
  <2>1. /\ call = "bytes" /\ Take(AtMost(ReadBuffer))
        /\ UNCHANGED <<failures, length, remaining, at, buffer, from, faulted>>
        /\ IF pending' = 0
           THEN /\ call' = "none"
                /\ result' = [call |-> "bytes", first |-> from, last |-> taken', value |-> 0,
                              faulted |-> FALSE]
           ELSE UNCHANGED <<call, result>>
    BY <1>1 DEF BytesData, Return, Continue, block
  <2>2. AtMost(ReadBuffer) \in Nat BY AtMostIs, ReadsAssumption
  <2>3. /\ taken' = taken + AtMost(ReadBuffer) /\ taken' \in 0..written
        /\ UNCHANGED <<secure, written, fin, broken>>
        /\ pending' \in 0..MaxRecord /\ wire' \in Seq(1..MaxBytes)
        /\ ~secure => pending' = 0 /\ Len(wire') <= 1
        /\ Arrived'
    BY <2>1, <2>2, TakeKeeps
  <2>4. from' \in 0..taken'
    <3>1. taken \in Nat /\ from \in 0..taken BY ReadsAssumption DEF TypeOK
    <3>2. QED BY <2>1, <2>2, <2>3, <3>1
  <2>5. TypeOK' BY <2>1, <2>3, <2>4 DEF TypeOK
  <2>6. LineBegun' /\ ToGo' /\ InPlace' BY <2>1 DEF LineBegun, ToGo, InPlace
  <2>7. AtMostOneLine' BY <2>1, <2>3 DEF AtMostOneLine, Reported
  <2>8. BlockFilled' /\ NothingHidden' BY <2>1 DEF BlockFilled, NothingHidden
  <2>9. QED BY <2>3, <2>5, <2>6, <2>7, <2>8
<1>2. CASE BytesEnds \/ BytesFails
  <2>1. /\ call = "bytes" /\ call' = "none" /\ UNCHANGED <<length, remaining, at, buffer>>
        /\ UNCHANGED <<secure, written, wire, fin, broken, pending, taken, from, faulted>>
        /\ failures' \in 0..MaxFailures /\ result'.call = "bytes"
        /\ result'.faulted \/ Available = 0
    <3>1. CASE BytesEnds
      <4>1. failures' \in 0..MaxFailures BY <3>1 DEF BytesEnds, received, TypeOK
      <4>2. QED BY <3>1, <4>1 DEF BytesEnds, Ends, Return, stream, received, block
    <3>2. CASE BytesFails
      <4>1. failures' \in 0..MaxFailures
        BY <3>2, ReadsAssumption DEF BytesFails, Fails, TypeOK
      <4>2. QED BY <3>2, <4>1 DEF BytesFails, Fails, Return, stream, block
    <3>3. QED BY <1>2, <3>1, <3>2
  <2>2. TypeOK' BY <2>1 DEF TypeOK
  <2>3. Arrived' BY <2>1, ArrivedKept
  <2>4. LineBegun' /\ ToGo' /\ InPlace' BY <2>1 DEF LineBegun, ToGo, InPlace
  <2>5. AtMostOneLine' /\ BlockFilled' BY <2>1 DEF AtMostOneLine, BlockFilled
  <2>6. NothingHidden'
    <3>1. pending \in Nat BY ReadsAssumption DEF TypeOK
    <3>2. Available = 0 => pending = 0 BY <3>1 DEF Available
    <3>3. QED BY <2>1, <3>2 DEF NothingHidden
  <2>7. QED BY <2>2, <2>3, <2>4, <2>5, <2>6
<1>3. QED BY <1>1, <1>2

LEMMA ReceiveKeeps ==
  ASSUME ReadsInv, NEW l \in Lengths, Receive(l)
  PROVE  ReadsInv'
<1> USE DEF ReadsInv
<1>1. /\ call = "none" /\ Take(AtMost(l)) /\ result'.call = "receive"
      /\ UNCHANGED <<failures, length, remaining, at, buffer, call, from, faulted>>
  BY DEF Receive, block
<1>2. AtMost(l) \in Nat BY AtMostIs, ReadsAssumption
<1>3. /\ taken' = taken + AtMost(l) /\ taken' \in 0..written
      /\ UNCHANGED <<secure, written, fin, broken>>
      /\ pending' \in 0..MaxRecord /\ wire' \in Seq(1..MaxBytes)
      /\ ~secure => pending' = 0 /\ Len(wire') <= 1
      /\ Arrived'
  BY <1>1, <1>2, TakeKeeps
<1>4. from' \in 0..taken'
  <2>1. taken \in Nat /\ from \in 0..taken BY ReadsAssumption DEF TypeOK
  <2>2. QED BY <1>1, <1>2, <1>3, <2>1
<1>5. TypeOK' BY <1>1, <1>3, <1>4 DEF TypeOK
<1>6. LineBegun' /\ ToGo' /\ InPlace' BY <1>1 DEF LineBegun, ToGo, InPlace
<1>7. AtMostOneLine' /\ BlockFilled' /\ NothingHidden'
  BY <1>1 DEF AtMostOneLine, BlockFilled, NothingHidden
<1>8. QED BY <1>3, <1>5, <1>6, <1>7

-------------------------------------------------------------------------------
(* RecvBlocking. *)

(* Where RecvBlocking is when it has received n bytes more. *)
LEMMA AdvanceIs ==
  ASSUME TypeOK, ToGo, call = "block", NEW n \in 1..(Word - 1), n <= remaining, Advance(n)
  PROVE  /\ remaining' = remaining - n /\ at' \in 0..(Word - 1)
         /\ at' + remaining' \in {length, length + Word}
         /\ at + n < Word => at' = at + n
<1>1. /\ Word \in Nat \ {0} /\ remaining \in 0..(Word - 1) /\ at \in 0..(Word - 1)
      /\ length \in 1..(Word - 1) /\ at + remaining \in {length, length + Word}
  BY ReadsAssumption DEF TypeOK, ToGo
<1>2. remaining' = remaining - n
  BY <1>1, MinusIs DEF Advance
<1>3. at' = IF at + n < Word THEN at + n ELSE at + n - Word
  <2>1. at + n \in 0..(2 * Word - 1) BY <1>1
  <2>2. \A sum \in 0..(2 * Word - 1) : sum % Word = IF sum < Word THEN sum ELSE sum - Word
    BY <1>1, ModTwice
  <2>3. at' = (at + n) % Word BY DEF Advance
  <2>4. QED BY <1>1, <2>1, <2>2, <2>3
<1>4. at' \in 0..(Word - 1) BY <1>1, <1>3
<1>5. at' + remaining' \in {length, length + Word}
  <2>1. CASE at + n < Word BY <1>1, <1>2, <1>3, <2>1
  <2>2. CASE at + n >= Word BY <1>1, <1>2, <1>3, <2>2
  <2>3. QED BY <1>1, <2>1, <2>2
<1>6. QED BY <1>2, <1>3, <1>4, <1>5

(* What is put in the buffer are bytes that the peer has written. *)
LEMMA StoreIs ==
  ASSUME TypeOK, Arrived, NEW n \in Nat, n <= Available, Store(n)
  PROVE  /\ buffer' \in [0..(Word - 1) -> 0..MaxBytes]
         /\ at + n < Word =>
              \A o \in 0..(Word - 1) :
                buffer'[o] = IF at <= o /\ o < at + n THEN taken + 1 + (o - at)
                             ELSE buffer[o]
<1>1. /\ Word \in Nat \ {0} /\ at \in 0..(Word - 1) /\ taken \in Nat /\ MaxBytes \in Nat
      /\ DOMAIN buffer = 0..(Word - 1) /\ buffer \in [0..(Word - 1) -> 0..MaxBytes]
  BY ReadsAssumption DEF TypeOK
<1>2. taken + n <= MaxBytes
  BY AvailableIs, ReadsAssumption DEF TypeOK
<1>3. \A o \in 0..(Word - 1) : Minus(o, at) = IF at <= o THEN o - at ELSE o + Word - at
  BY <1>1, MinusIs
<1>4. \A o \in 0..(Word - 1) :
        buffer'[o] = IF Minus(o, at) < n THEN taken + 1 + Minus(o, at) ELSE buffer[o]
  BY <1>1 DEF Store
<1>5. ASSUME NEW o \in 0..(Word - 1)
      PROVE  /\ (IF Minus(o, at) < n THEN taken + 1 + Minus(o, at) ELSE buffer[o]) \in 0..MaxBytes
             /\ at + n < Word => buffer'[o] = IF at <= o /\ o < at + n THEN taken + 1 + (o - at)
                                              ELSE buffer[o]
  <2>1. buffer[o] \in 0..MaxBytes /\ Minus(o, at) \in Nat BY <1>1, <1>3
  <2>2. CASE Minus(o, at) < n
    <3>1. taken + 1 + Minus(o, at) \in 0..MaxBytes BY <1>1, <1>2, <2>1, <2>2
    <3>2. buffer'[o] = taken + 1 + Minus(o, at) BY <1>4, <2>2
    <3>3. at + n < Word => at <= o /\ o < at + n /\ Minus(o, at) = o - at
      BY <1>1, <1>3, <2>2
    <3>4. QED BY <2>2, <3>1, <3>2, <3>3
  <2>3. CASE ~(Minus(o, at) < n)
    <3>1. buffer'[o] = buffer[o] BY <1>4, <2>3
    <3>2. ~(at <= o /\ o < at + n) BY <1>1, <1>3, <2>3
    <3>3. QED BY <2>1, <2>3, <3>1, <3>2
  <2>4. QED BY <2>2, <2>3
<1>6. buffer' \in [0..(Word - 1) -> 0..MaxBytes]
  <2>1. buffer' = [o \in 0..(Word - 1) |->
                     IF Minus(o, at) < n THEN taken + 1 + Minus(o, at) ELSE buffer[o]]
    BY <1>1 DEF Store
  <2>2. QED BY <1>5, <2>1
<1>7. QED BY <1>5, <1>6

LEMMA BlockDataKeeps ==
  ASSUME ReadsInv, BlockData
  PROVE  ReadsInv'
<1> USE DEF ReadsInv
<1>0. PICK n : n = AtMost(remaining) OBVIOUS
<1>1. /\ call = "block" /\ Take(n) /\ Store(n) /\ Advance(n)
      /\ UNCHANGED <<length, from, faulted>> /\ failures' \in failures..MaxFailures
      /\ IF remaining = n
         THEN /\ call' = "none"
              /\ result' = [call |-> "block", first |-> from, last |-> taken', value |-> length,
                            faulted |-> faulted]
         ELSE UNCHANGED <<call, result>>
  <2>1. failures' \in failures..MaxFailures BY ReadsAssumption DEF BlockData, TypeOK
  <2>2. QED BY <1>0, <2>1 DEF BlockData, Advance, Return, Continue
<1>2. /\ Word \in Nat \ {0} /\ remaining \in 0..(Word - 1) /\ at \in 0..(Word - 1)
      /\ length \in 1..(Word - 1) /\ taken \in Nat /\ from \in 0..taken
      /\ failures \in 0..MaxFailures /\ MaxFailures \in Nat
  BY <1>1, ReadsAssumption DEF TypeOK, ToGo
<1>3. n \in Nat /\ n <= remaining /\ n <= Available
  BY <1>0, <1>2, AtMostIs
<1>4. /\ n > 0 /\ taken' = taken + n /\ taken' \in 0..written
      /\ UNCHANGED <<secure, written, fin, broken>>
      /\ pending' \in 0..MaxRecord /\ wire' \in Seq(1..MaxBytes)
      /\ ~secure => pending' = 0 /\ Len(wire') <= 1
      /\ Arrived'
  BY <1>1, <1>3, TakeKeeps
<1>5. /\ remaining' = remaining - n /\ at' \in 0..(Word - 1)
      /\ at' + remaining' \in {length, length + Word}
      /\ at + n < Word => at' = at + n
  <2>1. n \in 1..(Word - 1) BY <1>2, <1>3, <1>4
  <2>2. QED BY <1>1, <1>3, <2>1, AdvanceIs
<1>6. /\ buffer' \in [0..(Word - 1) -> 0..MaxBytes]
      /\ at + n < Word =>
           \A o \in 0..(Word - 1) :
             buffer'[o] = IF at <= o /\ o < at + n THEN taken + 1 + (o - at) ELSE buffer[o]
  BY <1>1, <1>3, StoreIs
<1>7. TypeOK'
  <2>1. from' \in 0..taken' BY <1>1, <1>2, <1>3, <1>4
  <2>2. remaining' \in 0..(Word - 1) BY <1>2, <1>3, <1>5
  <2>3. failures' \in 0..MaxFailures BY <1>1, <1>2
  <2>4. QED BY <1>1, <1>4, <1>5, <1>6, <2>1, <2>2, <2>3 DEF TypeOK
<1>8. LineBegun' BY <1>1 DEF LineBegun
<1>9. ToGo'
  <2> SUFFICES ASSUME remaining # n PROVE ToGo'
    BY <1>1 DEF ToGo
  <2>1. remaining \in 1..(length + failures) /\ length \in Lengths BY <1>1 DEF ToGo
  <2>2. remaining - n \in 1..(length + failures')
    <3>1. failures' \in Nat /\ failures <= failures' BY <1>1, <1>2
    <3>2. \A l, f, g, r, k \in Nat :
            f <= g /\ r \in 1..(l + f) /\ k <= r /\ r # k => r - k \in 1..(l + g)
      OBVIOUS
    <3>3. length \in Nat /\ failures \in Nat /\ remaining \in Nat BY <1>2
    <3>4. QED BY <1>3, <2>1, <3>1, <3>2, <3>3
  <2>3. QED BY <1>1, <1>5, <2>1, <2>2 DEF ToGo
(* What has been received is in its place, the new bytes after the others. *)
<1>10. ASSUME ~faulted
       PROVE  /\ at' = taken' - from /\ at' + remaining' = length
              /\ \A o \in 0..(at' - 1) : buffer'[o] = from + 1 + o
  <2>1. /\ at = taken - from /\ at + remaining = length
        /\ \A o \in 0..(at - 1) : buffer[o] = from + 1 + o
    BY <1>1, <1>10 DEF InPlace
  <2>2. at + n < Word BY <1>2, <1>3, <2>1
  <2>3. at' = at + n BY <1>5, <2>2
  <2>4. at' = taken' - from /\ at' + remaining' = length
    BY <1>2, <1>3, <1>4, <1>5, <2>1, <2>3
  <2>5. ASSUME NEW o \in 0..(at' - 1) PROVE buffer'[o] = from + 1 + o
    <3>1. o \in 0..(Word - 1) /\ o < at + n BY <1>2, <1>3, <2>2, <2>3
    <3>2. buffer'[o] = IF at <= o /\ o < at + n THEN taken + 1 + (o - at) ELSE buffer[o]
      BY <1>6, <2>2, <3>1
    <3>3. CASE at <= o BY <1>2, <2>1, <3>1, <3>2, <3>3
    <3>4. CASE o < at
      <4>1. o \in 0..(at - 1) BY <1>2, <3>1, <3>4
      <4>2. QED BY <1>2, <2>1, <3>1, <3>2, <3>4, <4>1
    <3>5. QED BY <1>2, <3>1, <3>3, <3>4
  <2>6. QED BY <2>4, <2>5
<1>11. InPlace' BY <1>1, <1>10 DEF InPlace
<1>12. AtMostOneLine' BY <1>1, <1>4 DEF AtMostOneLine, Reported
<1>13. BlockFilled'
  <2>1. CASE remaining = n
    <3> SUFFICES ASSUME ~faulted, NEW i \in 0..(length - 1) PROVE buffer'[i] = from + 1 + i
      BY <1>1, <2>1 DEF BlockFilled
    <3>1. at' = length BY <1>2, <1>3, <1>5, <1>10, <2>1
    <3>2. QED BY <1>10, <3>1
  <2>2. CASE remaining # n BY <1>1, <2>2 DEF BlockFilled
  <2>3. QED BY <2>1, <2>2
<1>14. NothingHidden' BY <1>1 DEF NothingHidden
<1>15. QED BY <1>4, <1>7, <1>8, <1>9, <1>11, <1>12, <1>13, <1>14

(* A failed read takes one byte back, for as long as it is counted. *)
LEMMA BlockFailsKeeps ==
  ASSUME ReadsInv, BlockFails
  PROVE  ReadsInv'
<1> USE DEF ReadsInv
<1>0. /\ call = "block" /\ faulted' = TRUE
      /\ UNCHANGED <<secure, written, wire, fin, broken, pending, taken, call, from, result,
                     length, buffer>>
      /\ IF failures < MaxFailures
         THEN Advance(Word - 1) /\ failures' = failures + 1
         ELSE UNCHANGED <<remaining, at, failures>>
  BY DEF BlockFails, Fails, Continue, Advance, stream
<1>a. CASE ~(failures < MaxFailures)
  <2>1. TypeOK' BY <1>0, <1>a DEF TypeOK
  <2>2. Arrived' BY <1>0, ArrivedKept
  <2>3. LineBegun' /\ ToGo' /\ InPlace' BY <1>0, <1>a DEF LineBegun, ToGo, InPlace
  <2>4. AtMostOneLine' BY <1>0 DEF AtMostOneLine, Reported
  <2>5. BlockFilled' /\ NothingHidden' BY <1>0 DEF BlockFilled, NothingHidden
  <2>6. QED BY <2>1, <2>2, <2>3, <2>4, <2>5
<1> SUFFICES ASSUME failures < MaxFailures PROVE ReadsInv'
  BY <1>a
<1>1. /\ call = "block" /\ Advance(Word - 1) /\ faulted' = TRUE
      /\ failures < MaxFailures /\ failures' = failures + 1
      /\ UNCHANGED <<secure, written, wire, fin, broken, pending, taken, call, from, result,
                     length, buffer>>
  BY <1>0
<1>2. /\ Word \in Nat \ {0} /\ remaining \in 0..(Word - 1) /\ at \in 0..(Word - 1)
      /\ length \in 1..(Word - 1) /\ length + MaxFailures < Word /\ MaxFailures \in Nat
      /\ remaining \in 1..(length + failures) /\ failures \in 0..MaxFailures
      /\ at + remaining \in {length, length + Word} /\ length \in Lengths
  BY <1>1, ReadsAssumption DEF TypeOK, ToGo
<1>3. remaining + 1 < Word /\ remaining + 1 \in 1..(length + (failures + 1))
  BY <1>1, <1>2
<1>4. remaining' = remaining + 1
  <2>1. Word - 1 \in 0..(Word - 1) /\ ~(Word - 1 <= remaining) BY <1>2, <1>3
  <2>2. remaining' = remaining + Word - (Word - 1)
    BY <1>1, <1>2, <2>1, MinusIs DEF Advance
  <2>3. QED BY <1>2, <2>2
<1>5. at' = IF at = 0 THEN Word - 1 ELSE at - 1
  <2>1. at + (Word - 1) \in 0..(2 * Word - 1) BY <1>2
  <2>2. \A sum \in 0..(2 * Word - 1) : sum % Word = IF sum < Word THEN sum ELSE sum - Word
    BY <1>2, ModTwice
  <2>3. at' = (at + (Word - 1)) % Word BY <1>1 DEF Advance
  <2>4. QED BY <1>2, <2>1, <2>2, <2>3
<1>6. at' \in 0..(Word - 1) /\ at' + remaining' \in {length, length + Word}
  <2>1. CASE at = 0 BY <1>2, <1>3, <1>4, <1>5, <2>1
  <2>2. CASE at # 0 BY <1>2, <1>3, <1>4, <1>5, <2>2
  <2>3. QED BY <2>1, <2>2
<1>7. TypeOK'
  <2>1. remaining' \in 0..(Word - 1) /\ failures' \in 0..MaxFailures BY <1>1, <1>2, <1>3, <1>4
  <2>2. QED BY <1>1, <1>6, <2>1 DEF TypeOK
<1>8. Arrived' BY <1>1, ArrivedKept
<1>9. ToGo' BY <1>1, <1>2, <1>3, <1>4, <1>6 DEF ToGo
<1>10. LineBegun' /\ InPlace' BY <1>1 DEF LineBegun, InPlace
<1>11. AtMostOneLine' BY <1>1 DEF AtMostOneLine, Reported
<1>12. BlockFilled' /\ NothingHidden' BY <1>1 DEF BlockFilled, NothingHidden
<1>13. QED BY <1>7, <1>8, <1>9, <1>10, <1>11, <1>12

LEMMA BlockEndsKeeps ==
  ASSUME ReadsInv, BlockEnds
  PROVE  ReadsInv'
<1> USE DEF ReadsInv
<1>1. /\ call = "block" /\ call' = "none" /\ UNCHANGED <<length, remaining, at, buffer>>
      /\ UNCHANGED <<secure, written, wire, fin, broken, pending, taken, failures, from,
                     faulted>>
      /\ result' = [call |-> "block", first |-> from, last |-> from, value |-> 0,
                    faulted |-> faulted]
  BY DEF BlockEnds, Return, stream, received, block
<1>2. TypeOK' BY <1>1 DEF TypeOK
<1>3. Arrived' BY <1>1, ArrivedKept
<1>4. LineBegun' /\ ToGo' /\ InPlace' BY <1>1 DEF LineBegun, ToGo, InPlace
<1>5. AtMostOneLine' /\ BlockFilled' /\ NothingHidden'
  BY <1>1 DEF AtMostOneLine, BlockFilled, NothingHidden
<1>6. QED BY <1>2, <1>3, <1>4, <1>5

-------------------------------------------------------------------------------
LEMMA ReadsInit == Init => ReadsInv
<1> SUFFICES ASSUME Init PROVE ReadsInv
  OBVIOUS
<1>1. /\ 0 \in 0..(Word - 1) /\ 0 \in 0..MaxBytes /\ 0 \in 0..MaxRecord /\ 0 \in 0..MaxFailures
      /\ Empty \in [0..(Word - 1) -> 0..MaxBytes]
  BY ReadsAssumption DEF Empty
<1>2. wire = <<>> /\ wire \in Seq(1..MaxBytes) /\ Len(wire) = 0
  BY DEF Init
<1>3. TypeOK
  <2>1. taken \in 0..written /\ from \in 0..taken BY DEF Init
  <2>2. /\ secure \in BOOLEAN /\ fin \in BOOLEAN /\ faulted \in BOOLEAN
        /\ call \in {"none", "line", "block", "bytes"} /\ broken \in BOOLEAN
        /\ pending = 0
    BY DEF Init
  <2>3. /\ written \in 0..MaxBytes /\ pending \in 0..MaxRecord /\ failures \in 0..MaxFailures
        /\ length \in 0..(Word - 1) /\ remaining \in 0..(Word - 1) /\ at \in 0..(Word - 1)
        /\ buffer \in [0..(Word - 1) -> 0..MaxBytes]
    BY <1>1 DEF Init
  <2>4. Len(wire) <= 1 BY <1>2
  <2>5. QED BY <1>2, <2>1, <2>2, <2>3, <2>4 DEF TypeOK
<1>4. Arrived
  <2>1. CASE ~secure BY <1>2, <2>1 DEF Init, Arrived
  <2>2. CASE secure
    <3>1. PICK ends \in [1..(Len(wire) + 1) -> 0..MaxBytes] : \A i \in 1..1 : ends[i] = 0
      <4>1. [i \in 1..(Len(wire) + 1) |-> 0] \in [1..(Len(wire) + 1) -> 0..MaxBytes]
        BY <1>1
      <4>2. \A i \in 1..1 : i \in 1..(Len(wire) + 1) BY <1>2
      <4>3. \A i \in 1..1 : [k \in 1..(Len(wire) + 1) |-> 0][i] = 0 BY <4>2
      <4>4. QED BY <4>1, <4>3
    <3>2. Boundaries(ends) BY <1>2, <3>1 DEF Init, Boundaries
    <3>3. QED BY <2>2, <3>2 DEF Arrived
  <2>3. QED BY <2>1, <2>2
<1>5. LineBegun /\ ToGo /\ InPlace
  BY DEF Init, LineBegun, ToGo, InPlace
<1>6. AtMostOneLine /\ BlockFilled /\ NothingHidden
  BY DEF Init, AtMostOneLine, BlockFilled, NothingHidden
<1>7. QED BY <1>3, <1>4, <1>5, <1>6 DEF ReadsInv

LEMMA ReadsStep == ReadsInv /\ [Next]_vars => ReadsInv'
<1> SUFFICES ASSUME ReadsInv, [Next]_vars PROVE ReadsInv'
  OBVIOUS
<1>1. ASSUME NEW n \in 1..MaxRecord, PeerWrites(n) PROVE ReadsInv'
  <2>1. TypeOK' /\ Arrived' BY <1>1, PeerWritesKeeps
  <2>2. UNCHANGED <<secure, fin, broken, received, call, from, faulted, block, result>>
    BY <1>1 DEF PeerWrites
  <2>3. QED BY <2>1, <2>2, PeerKeeps
<1>2. ASSUME fin' \in BOOLEAN, fin => fin', broken' \in BOOLEAN,
             UNCHANGED <<secure, written, wire, received, call, from, faulted, block, result>>
      PROVE  ReadsInv'
  <2>1. TypeOK' BY <1>2 DEF ReadsInv, TypeOK, received, block
  <2>2. Arrived' BY <1>2, ArrivedKept DEF ReadsInv, received
  <2>3. QED BY <1>2, <2>1, <2>2, PeerKeeps
<1>3. CASE PeerCloses \/ Breaks
  BY <1>2, <1>3 DEF PeerCloses, Breaks, ReadsInv, TypeOK
<1>4. CASE CallReceiveLine
  BY <1>4, CallKeeps DEF CallReceiveLine
<1>5. CASE CallReceiveBytes
  BY <1>5, CallKeeps DEF CallReceiveBytes
<1>6. ASSUME NEW l \in Lengths, CallRecvBlocking(l) PROVE ReadsInv'
  BY <1>6, CallKeeps DEF CallRecvBlocking
<1>7. ASSUME NEW l \in Lengths, Receive(l) PROVE ReadsInv'
  BY <1>7, ReceiveKeeps
<1>8. CASE Reading
  BY <1>8, LineKeeps, BlockDataKeeps, BlockFailsKeeps, BlockEndsKeeps, BytesKeeps DEF Reading
<1>9. CASE UNCHANGED vars
  BY <1>2, <1>9 DEF vars, stream, ReadsInv, TypeOK
<1>10. QED BY <1>1, <1>3, <1>4, <1>5, <1>6, <1>7, <1>8, <1>9 DEF Next

LEMMA ReadsInvariant == Spec => []ReadsInv
  BY ReadsInit, ReadsStep, PTL DEF Spec

(* The variables of the reads have their types: no byte is received that    *)
(* was not written, and a size_t keeps to its width (RecvBlocking).  That   *)
(* nothing is stored before the buffer is not said, nor true: see EndKept.  *)
THEOREM ReadsTypeOK == Spec => []TypeOK
<1>1. ReadsInv => TypeOK BY DEF ReadsInv
<1>2. QED BY <1>1, ReadsInvariant, PTL

(* ReceiveLine returns no more than one line (Socket.cpp, SSLSocket.cpp).   *)
THEOREM ReadsAtMostOneLine == Spec => []AtMostOneLine
<1>1. ReadsInv => AtMostOneLine BY DEF ReadsInv
<1>2. QED BY <1>1, ReadsInvariant, PTL

(* RecvBlocking that returns its length, with no failed read, has filled    *)
(* the buffer with the next bytes of the stream.                            *)
THEOREM ReadsBlockFilled == Spec => []BlockFilled
<1>1. ReadsInv => BlockFilled BY DEF ReadsInv
<1>2. QED BY <1>1, ReadsInvariant, PTL

(* RecvBlocking never writes past the end of the buffer: what is to be      *)
(* received ends where the buffer does, after any failed reads.             *)
THEOREM ReadsEndKept == Spec => []EndKept
<1>1. ReadsInv => EndKept
  <2> SUFFICES ASSUME ReadsInv, call = "block" PROVE (at + remaining) % Word = length
    BY DEF EndKept
  <2>1. /\ Word \in Nat \ {0} /\ length \in 1..(Word - 1)
        /\ at + remaining \in {length, length + Word}
    BY ReadsAssumption DEF ReadsInv, ToGo
  <2>2. \A sum \in 0..(2 * Word - 1) : sum % Word = IF sum < Word THEN sum ELSE sum - Word
    BY <2>1, ModTwice
  <2>3. CASE at + remaining = length BY <2>1, <2>2, <2>3
  <2>4. CASE at + remaining = length + Word BY <2>1, <2>2, <2>4
  <2>5. QED BY <2>1, <2>3, <2>4
<1>2. QED BY <1>1, ReadsInvariant, PTL

(* ReceiveBytes that returns leaves nothing in the SSL object (SSL_pending  *)
(* in SSLSocket.cpp).                                                       *)
THEOREM ReadsNothingHidden == Spec => []NothingHidden
<1>1. ReadsInv => NothingHidden BY DEF ReadsInv
<1>2. QED BY <1>1, ReadsInvariant, PTL
===============================================================================
