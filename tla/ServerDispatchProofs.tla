-------------------------- MODULE ServerDispatchProofs --------------------------
(***************************************************************************)
(* Proofs about ServerDispatch for any clients, workers and descriptors.   *)
(*                                                                         *)
(* The clients, in the order they arrived, are cut in four by how far the  *)
(* listener and the pool have brought them (Conveyed).  Where a client is  *)
(* in that order therefore says whether its session has started (Turns)    *)
(* and, with the stage of its session, which of its descriptors are open   *)
(* (DescriptorsAccounted).                                                 *)
(***************************************************************************)
EXTENDS ServerDispatch, Integers, SequenceTheorems, FiniteSetTheorems, TLAPS

(* A sequence is its head and its tail. *)
LEMMA HeadAndTail ==
  ASSUME NEW S, NEW s \in Seq(S), s # <<>>
  PROVE  s = <<Head(s)>> \o Tail(s) /\ Head(s) \in S /\ Tail(s) \in Seq(S)
<1>1. Len(s) \in Nat \ {0} BY EmptySeq
<1>2. s = SubSeq(s, 1, Len(s)) BY SubSeqFull
<1>3. SubSeq(s, 1, Len(s)) = <<s[1]>> \o SubSeq(s, 2, Len(s))
  <2>1. 1 \in 1..Len(s) /\ Len(s) \in 1..Len(s) BY <1>1
  <2>2. SubSeq(s, 1, Len(s)) = <<s[1]>> \o SubSeq(s, 1 + 1, Len(s))
    BY <2>1, SubSeqRecursiveFirst
  <2>3. QED BY <2>2
<1>4. Head(s) = s[1] /\ Tail(s) = SubSeq(s, 2, Len(s))
  BY TailIsSubSeq
<1>5. QED BY <1>2, <1>3, <1>4, HeadTailProperties

LEMMA Singleton ==
  ASSUME NEW S, NEW e \in S
  PROVE  <<e>> \in Seq(S) /\ Len(<<e>>) = 1
  OBVIOUS

(* The worker's session, which is not over. *)
LEMMA SessionOf ==
  ASSUME TypeOK, NEW w \in Workers, serving[w] # None
  PROVE  serving[w] \in Clients
  BY DEF TypeOK
-------------------------------------------------------------------------------
(* Type correctness, and the descriptors that are counted. *)

DescriptorsOK == TypeOK /\ IsFiniteSet(open)

LEMMA DispatchTypeInit == Init => DescriptorsOK
<1>1. IsFiniteSet({}) /\ Cardinality({}) = 0 BY FS_EmptySet
<1> SUFFICES ASSUME Init PROVE DescriptorsOK
  OBVIOUS
<1>2. /\ backlog = <<>> /\ tasks = <<>> /\ arrived = <<>> /\ started = <<>>
      /\ <<>> \in Seq(Clients)
  BY EmptySeq DEF Init
<1>3. InUse <= FdLimit /\ IsFiniteSet(open)
  BY <1>1, DispatchAssumption DEF Init, InUse
<1>4. QED BY <1>2, <1>3 DEF Init, DescriptorsOK, TypeOK, Stages

LEMMA DispatchTypeStep == DescriptorsOK /\ [Next]_vars => DescriptorsOK'
<1> SUFFICES ASSUME DescriptorsOK, [Next]_vars PROVE DescriptorsOK'
  OBVIOUS
<1> USE DispatchAssumption DEF DescriptorsOK, TypeOK, InUse, Stages
<1>0. Cardinality(open) \in Nat
  BY FS_CardinalityType
<1>1. CASE SetHandler BY <1>1 DEF SetHandler
<1>2. ASSUME NEW c \in Clients, ClientConnects(c) PROVE DescriptorsOK'
  <2>1. backlog' \in Seq(Clients) /\ arrived' \in Seq(Clients)
    BY <1>2, AppendProperties DEF ClientConnects
  <2>2. QED BY <1>2, <2>1 DEF ClientConnects
<1>3. CASE CallAccept BY <1>0, <1>3 DEF CallAccept
<1>4. CASE AcceptThrows BY <1>0, <1>4 DEF AcceptThrows
<1>5. CASE Accept
  <2>1. Head(backlog) \in Clients /\ Tail(backlog) \in Seq(Clients)
    BY <1>5, HeadAndTail DEF Accept
  <2>2. IsFiniteSet(open') /\ Cardinality(open') <= Cardinality(open) + 1 /\ Cardinality(open') \in Nat
    <3>1. open' = open \cup {<<"client", Head(backlog)>>} BY <1>5 DEF Accept
    <3>2. IsFiniteSet(open') BY <3>1, FS_AddElement
    <3>3. Cardinality(open') = Cardinality(open) \/ Cardinality(open') = Cardinality(open) + 1
      BY <3>1, FS_AddElement
    <3>4. QED BY <1>0, <3>2, <3>3
  <2>3. QED BY <1>0, <1>5, <2>1, <2>2 DEF Accept
<1>6. CASE PushTask
  <2>1. new_sock \in Clients BY <1>6 DEF PushTask
  <2>2. tasks' \in Seq(Clients) BY <1>6, <2>1, AppendProperties DEF PushTask
  <2>3. QED BY <1>0, <1>6, <2>2 DEF PushTask
<1>7. ASSUME NEW w \in Workers, StartSession(w) PROVE DescriptorsOK'
  <2>1. Head(tasks) \in Clients /\ Tail(tasks) \in Seq(Clients)
    BY <1>7, HeadAndTail DEF StartSession
  <2>2. started' \in Seq(Clients)
    BY <1>7, <2>1, AppendProperties DEF StartSession
  <2>3. QED BY <1>7, <2>1, <2>2 DEF StartSession
<1>8. ASSUME NEW w \in Workers, At(w, "entered") \/ At(w, "relay") \/ At(w, "requests"),
             NEW outcome \in {"failed", "relayed", "answered"}, EndSession(w, outcome),
             UNCHANGED <<kind, handler, backlog, listener, new_sock, tasks, open, arrived, started>>
      PROVE DescriptorsOK'
  BY <1>8 DEF EndSession
<1>9. ASSUME NEW w \in Workers, OpenTarget(w) PROVE DescriptorsOK'
  <2>1. serving[w] \in Clients BY <1>9 DEF OpenTarget, At
  <2>2. IsFiniteSet(open') /\ Cardinality(open') <= Cardinality(open) + 1 /\ Cardinality(open') \in Nat
    <3>1. open' = open \cup {<<"target", serving[w]>>} BY <1>9 DEF OpenTarget
    <3>2. IsFiniteSet(open') BY <3>1, FS_AddElement
    <3>3. Cardinality(open') = Cardinality(open) \/ Cardinality(open') = Cardinality(open) + 1
      BY <3>1, FS_AddElement
    <3>4. QED BY <1>0, <3>2, <3>3
  <2>3. QED BY <1>0, <1>9, <2>1, <2>2 DEF OpenTarget
<1>10. ASSUME NEW w \in Workers, ConnectTarget(w) \/ EnterRequests(w) PROVE DescriptorsOK'
  BY <1>10 DEF ConnectTarget, EnterRequests, At
<1>11. ASSUME NEW w \in Workers, ConnectTargetThrows(w) PROVE DescriptorsOK'
  <2>1. IsFiniteSet(open') /\ Cardinality(open') <= Cardinality(open) /\ Cardinality(open') \in Nat
    <3>1. open' = open \ {<<"target", serving[w]>>} BY <1>11 DEF ConnectTargetThrows
    <3>2. IsFiniteSet(open') /\ Cardinality(open') <= Cardinality(open)
      BY <3>1, FS_Subset
    <3>3. QED BY <3>2, FS_CardinalityType
  <2>2. serving[w] \in Clients
    BY <1>11 DEF ConnectTargetThrows, At
  <2>3. QED BY <1>0, <1>11, <2>1, <2>2 DEF ConnectTargetThrows, EndSession
<1>12. CASE UNCHANGED vars BY <1>12 DEF vars
<1>13. QED
  BY <1>1, <1>2, <1>3, <1>4, <1>5, <1>6, <1>7, <1>8, <1>9, <1>10, <1>11, <1>12
  DEF Next, Listener, Worker, NoHandler, OpenTargetThrows, RelayEnds, RequestsEnd

(* The variables of the dispatch have their types, and the process never    *)
(* has more descriptors than its limit (Accept, CreateSocket).              *)
THEOREM DispatchTypeOK == Spec => []TypeOK
<1>1. DescriptorsOK => TypeOK BY DEF DescriptorsOK
<1>2. QED BY <1>1, DispatchTypeInit, DispatchTypeStep, PTL DEF Spec

-------------------------------------------------------------------------------
(* The way of a client from the kernel to a worker. *)

Pushed == IF new_sock = None THEN <<>> ELSE <<new_sock>>

(* One line of clients behind another, named so that the order of two joins *)
(* can be changed without the provers' theory of sequences.                 *)
Joined(a, b) == a \o b

LEMMA Reassociated ==
  ASSUME NEW a \in Seq(Clients), NEW b \in Seq(Clients), NEW c \in Seq(Clients)
  PROVE  Joined(Joined(a, b), c) = Joined(a, Joined(b, c))
  BY ConcatAssociative DEF Joined

LEMMA ConveyedStep == TypeOK /\ Conveyed /\ [Next]_vars => Conveyed'
<1> SUFFICES ASSUME TypeOK, Conveyed, [Next]_vars PROVE Conveyed'
  OBVIOUS
<1>0. /\ arrived \in Seq(Clients) /\ started \in Seq(Clients) /\ tasks \in Seq(Clients)
      /\ backlog \in Seq(Clients) /\ Pushed \in Seq(Clients)
      /\ <<>> \in Seq(Clients)
  BY Singleton DEF TypeOK, Pushed
<1>c. started \o tasks \in Seq(Clients) /\ started \o tasks \o Pushed \in Seq(Clients)
  BY <1>0, ConcatProperties
<1>a. arrived = started \o tasks \o Pushed \o backlog
  BY DEF Conveyed, Pushed
<1>b. SUFFICES arrived' = started' \o tasks' \o Pushed' \o backlog'
  BY DEF Conveyed, Pushed
<1>1. ASSUME NEW c \in Clients, ClientConnects(c)
      PROVE  arrived' = started' \o tasks' \o Pushed' \o backlog'
  <2>1. arrived' = arrived \o <<c>> /\ backlog' = backlog \o <<c>> /\ <<c>> \in Seq(Clients)
    BY <1>0, <1>1, AppendIsConcat, Singleton DEF ClientConnects
  <2>2. (started \o tasks \o Pushed \o backlog) \o <<c>> = (started \o tasks \o Pushed) \o (backlog \o <<c>>)
    <3>1. PICK one \in Seq(Clients) : one = <<c>> BY <2>1
    <3>2. PICK front \in Seq(Clients) : front = started \o tasks \o Pushed BY <1>c
    <3>3. Joined(Joined(front, backlog), one) = Joined(front, Joined(backlog, one))
      BY <1>0, Reassociated
    <3>4. (front \o backlog) \o one = front \o (backlog \o one) BY <3>3, Zenon DEF Joined
    <3>5. QED BY <3>1, <3>2, <3>4, Zenon
  <2>3. UNCHANGED <<started, tasks, new_sock>> BY <1>1 DEF ClientConnects
  <2>4. Pushed' = Pushed BY <2>3 DEF Pushed
  <2>5. arrived' = (started \o tasks \o Pushed) \o backlog' BY <1>a, <2>1, <2>2, Zenon
  <2>6. QED BY <2>3, <2>4, <2>5, Zenon
<1>2. CASE Accept
  <2>1. /\ new_sock = None /\ new_sock' = Head(backlog) /\ Head(backlog) \in Clients
        /\ backlog' = Tail(backlog) /\ backlog = <<Head(backlog)>> \o backlog'
        /\ backlog' \in Seq(Clients)
        /\ UNCHANGED <<arrived, started, tasks>>
    BY <1>0, <1>2, HeadAndTail DEF Accept, TypeOK
  <2>2. Pushed = <<>> /\ Pushed' = <<Head(backlog)>> /\ Pushed' \in Seq(Clients)
    BY <2>1, DispatchAssumption, Singleton DEF Pushed
  <2>3. (started \o tasks) \o Pushed = started \o tasks
    BY <1>c, <2>2, ConcatEmptySeq
  <2>4. (started \o tasks) \o (Pushed' \o backlog') = ((started \o tasks) \o Pushed') \o backlog'
    <3>1. PICK front \in Seq(Clients) : front = started \o tasks BY <1>c
    <3>2. PICK one \in Seq(Clients) : one = Pushed' BY <2>2
    <3>3. PICK back \in Seq(Clients) : back = backlog' BY <2>1
    <3>4. Joined(Joined(front, one), back) = Joined(front, Joined(one, back))
      BY Reassociated
    <3>5. (front \o one) \o back = front \o (one \o back) BY <3>4, Zenon DEF Joined
    <3>6. QED BY <3>1, <3>2, <3>3, <3>5, Zenon
  <2>5. arrived = (started \o tasks) \o backlog BY <1>a, <2>3, Zenon
  <2>6. arrived = (started \o tasks) \o (Pushed' \o backlog') BY <2>1, <2>2, <2>5, Zenon
  <2>7. arrived = ((started \o tasks) \o Pushed') \o backlog' BY <2>4, <2>6, Zenon
  <2>8. QED BY <2>1, <2>7, Zenon
<1>3. CASE PushTask
  <2>1. /\ new_sock \in Clients /\ new_sock' = None
        /\ tasks' = Append(tasks, new_sock)
        /\ UNCHANGED <<arrived, started, backlog>>
    BY <1>3 DEF PushTask, TypeOK
  <2>2. Pushed = <<new_sock>> /\ Pushed' = <<>> /\ tasks' = tasks \o Pushed
    BY <1>0, <2>1, DispatchAssumption, AppendIsConcat DEF Pushed
  <2>3. (started \o tasks) \o Pushed = started \o tasks' /\ started \o tasks' \in Seq(Clients)
    <3>1. Joined(Joined(started, tasks), Pushed) = Joined(started, Joined(tasks, Pushed))
      BY <1>0, Reassociated
    <3>2. (started \o tasks) \o Pushed = started \o tasks' BY <2>2, <3>1, Zenon DEF Joined
    <3>3. QED BY <1>c, <3>2, Zenon
  <2>4. (started \o tasks') \o Pushed' = started \o tasks'
    BY <2>2, <2>3, ConcatEmptySeq
  <2>5. QED BY <1>a, <2>1, <2>3, <2>4
<1>4. ASSUME NEW w \in Workers, StartSession(w)
      PROVE  arrived' = started' \o tasks' \o Pushed' \o backlog'
  <2>1. /\ Head(tasks) \in Clients /\ tasks = <<Head(tasks)>> \o tasks' /\ tasks' \in Seq(Clients)
        /\ <<Head(tasks)>> \in Seq(Clients)
        /\ started' = Append(started, Head(tasks))
        /\ UNCHANGED <<arrived, new_sock, backlog>>
    BY <1>0, <1>4, HeadAndTail, Singleton DEF StartSession
  <2>2. started' = started \o <<Head(tasks)>>
    BY <1>0, <2>1, AppendIsConcat
  <2>3. (started \o <<Head(tasks)>>) \o tasks' = started \o (<<Head(tasks)>> \o tasks')
    <3>1. PICK one \in Seq(Clients) : one = <<Head(tasks)>> BY <2>1
    <3>2. started \in Seq(Clients) /\ tasks' \in Seq(Clients) BY <1>0, <2>1
    <3>3. PICK rest \in Seq(Clients) : rest = tasks' BY <3>2
    <3>4. Joined(Joined(started, one), rest) = Joined(started, Joined(one, rest))
      BY <3>2, Reassociated
    <3>5. (started \o one) \o rest = started \o (one \o rest) BY <3>4, Zenon DEF Joined
    <3>6. QED BY <3>1, <3>3, <3>5, Zenon
  <2>4. Pushed' = Pushed BY <2>1 DEF Pushed
  <2>5. QED BY <1>a, <2>1, <2>2, <2>3, <2>4
<1>5. CASE UNCHANGED <<arrived, started, tasks, new_sock, backlog>>
  BY <1>5, <1>a DEF Pushed
<1>6. QED
  BY <1>1, <1>2, <1>3, <1>4, <1>5
  DEF Next, Listener, Worker, SetHandler, CallAccept, AcceptThrows, NoHandler, OpenTarget,
      OpenTargetThrows, ConnectTarget, ConnectTargetThrows, EnterRequests, RelayEnds,
      RequestsEnd, vars

(* No connection is lost, doubled or overtaken between the kernel and the   *)
(* workers (ListenThreadProc, the thread pool).                             *)
THEOREM DispatchConveyed == Spec => []Conveyed
<1>1. Init => Conveyed
  BY EmptySeq, ConcatEmptySeq DEF Init, Conveyed
<1>2. QED BY <1>1, DispatchTypeOK, ConveyedStep, PTL DEF Spec

-------------------------------------------------------------------------------
(* Sessions and descriptors by the clients' places in the order. *)

(* Client c is one of the first n that arrived. *)
Among(c, n) == \E i \in 1..n : arrived[i] = c

Active == {"entered", "connecting", "relay", "requests"}

WithTarget == {c \in Clients : stage[c] \in {"connecting", "relay", "relayed"}}

(* A client arrives once, and its session starts in its turn. *)
Turns ==
  /\ \A i, j \in 1..Len(arrived) : arrived[i] = arrived[j] => i = j
  /\ \A c \in Clients : stage[c] # "none" <=> Among(c, Len(started))

(* A session that goes on has its worker, and a worker one session. *)
Sessions ==
  /\ \A w \in Workers : serving[w] # None => stage[serving[w]] \in Active
  /\ \A v, w \in Workers : serving[v] = serving[w] /\ serving[w] # None => v = w
  /\ \A c \in Clients : stage[c] \in Active => \E w \in Workers : serving[w] = c

(* Every client accepted has its descriptor, and every target in use. *)
Descriptors ==
  /\ \A c \in Clients : <<"client", c>> \in open <=> Among(c, Accepted)
  /\ \A c \in Clients : <<"target", c>> \in open <=> c \in WithTarget

Placed == DescriptorsOK /\ Conveyed /\ Turns

(* What Conveyed says of who is next. *)
LEMMA Positions ==
  ASSUME TypeOK, Conveyed
  PROVE  /\ Len(arrived) \in Nat /\ Len(started) \in Nat /\ Accepted \in Nat
         /\ Len(started) <= Accepted /\ Accepted <= Len(arrived)
         /\ tasks # <<>> => /\ Len(started) + 1 <= Accepted
                            /\ arrived[Len(started) + 1] = Head(tasks)
         /\ backlog # <<>> => /\ Accepted + 1 <= Len(arrived)
                              /\ arrived[Accepted + 1] = Head(backlog)
<1>0. /\ arrived \in Seq(Clients) /\ started \in Seq(Clients) /\ tasks \in Seq(Clients)
      /\ backlog \in Seq(Clients) /\ Pushed \in Seq(Clients)
      /\ Len(Pushed) = IF new_sock = None THEN 0 ELSE 1
  BY Singleton, EmptySeq DEF TypeOK, Pushed
<1> DEFINE a == started \o tasks
           b == a \o Pushed
<1>1. /\ a \in Seq(Clients) /\ Len(a) = Len(started) + Len(tasks)
      /\ \A i \in 1..(Len(started) + Len(tasks)) :
           a[i] = IF i <= Len(started) THEN started[i] ELSE tasks[i - Len(started)]
  BY <1>0, ConcatProperties
<1> HIDE DEF a
<1>2. /\ b \in Seq(Clients) /\ Len(b) = Len(a) + Len(Pushed)
      /\ \A i \in 1..(Len(a) + Len(Pushed)) : b[i] = IF i <= Len(a) THEN a[i] ELSE Pushed[i - Len(a)]
  <2>1. a \in Seq(Clients) /\ Pushed \in Seq(Clients) BY <1>0, <1>1
  <2>2. QED BY <2>1, ConcatProperties
<1> HIDE DEF b
<1>3. arrived = b \o backlog
  BY DEF Conveyed, Pushed, a, b
<1>4. /\ Len(arrived) = Len(b) + Len(backlog)
      /\ \A i \in 1..(Len(b) + Len(backlog)) :
           arrived[i] = IF i <= Len(b) THEN b[i] ELSE backlog[i - Len(b)]
  <2>1. b \in Seq(Clients) /\ backlog \in Seq(Clients) BY <1>0, <1>2
  <2>2. QED BY <2>1, <1>3, ConcatProperties
<1>5. /\ Len(arrived) \in Nat /\ Len(started) \in Nat /\ Len(tasks) \in Nat
      /\ Len(backlog) \in Nat /\ Len(Pushed) \in Nat
  BY <1>0, LenProperties
<1>6. Accepted = Len(b) /\ Accepted \in Nat
  BY <1>0, <1>1, <1>2, <1>5 DEF Accepted
<1>7. tasks # <<>> => Len(started) + 1 <= Accepted /\ arrived[Len(started) + 1] = Head(tasks)
  <2> SUFFICES ASSUME tasks # <<>>
               PROVE  Len(started) + 1 <= Accepted /\ arrived[Len(started) + 1] = Head(tasks)
    OBVIOUS
  <2>1. Len(tasks) \in Nat \ {0} /\ Head(tasks) = tasks[1] BY <1>0, EmptySeq
  <2>2. a[Len(started) + 1] = tasks[1] BY <2>1, <1>1, <1>5
  <2>3. b[Len(started) + 1] = tasks[1] BY <2>1, <2>2, <1>1, <1>2, <1>5
  <2>4. QED BY <2>1, <2>3, <1>1, <1>2, <1>4, <1>5, <1>6
<1>8. backlog # <<>> => Accepted + 1 <= Len(arrived) /\ arrived[Accepted + 1] = Head(backlog)
  <2> SUFFICES ASSUME backlog # <<>>
               PROVE  Accepted + 1 <= Len(arrived) /\ arrived[Accepted + 1] = Head(backlog)
    OBVIOUS
  <2>1. Len(backlog) \in Nat \ {0} /\ Head(backlog) = backlog[1] BY <1>0, EmptySeq
  <2>2. QED BY <2>1, <1>4, <1>6
<1>9. QED BY <1>1, <1>2, <1>4, <1>5, <1>6, <1>7, <1>8

(* The steps of a worker inside a session. *)
Moves == {<<"entered", "failed">>, <<"entered", "connecting">>, <<"entered", "requests">>,
          <<"connecting", "relay">>, <<"connecting", "failed">>, <<"relay", "relayed">>,
          <<"requests", "answered">>, <<"requests", "failed">>}

Moved(w, c, from, to) ==
  /\ Alive
  /\ serving[w] = c
  /\ stage[c] = from
  /\ stage' = [stage EXCEPT ![c] = to]
  /\ serving' = IF to \in Active THEN serving ELSE [serving EXCEPT ![w] = None]
  /\ open' = IF to = "connecting" THEN open \cup {<<"target", c>>}
             ELSE IF from = "connecting" /\ to = "failed" THEN open \ {<<"target", c>>}
             ELSE open
  /\ UNCHANGED <<backlog, listener, new_sock, tasks, arrived, started>>

LEMMA SessionMoves ==
  ASSUME TypeOK, NEW w \in Workers,
         \/ NoHandler(w) \/ OpenTarget(w) \/ OpenTargetThrows(w) \/ ConnectTarget(w)
         \/ ConnectTargetThrows(w) \/ EnterRequests(w) \/ RelayEnds(w) \/ RequestsEnd(w)
  PROVE  \E c \in Clients, m \in Moves : Moved(w, c, m[1], m[2])
<1> USE DEF At, EndSession
<1>1. PICK c \in Clients : c = serving[w]
  BY SessionOf
  DEF NoHandler, OpenTarget, OpenTargetThrows, ConnectTarget, ConnectTargetThrows,
      EnterRequests, RelayEnds, RequestsEnd
<1>2. SUFFICES \E m \in Moves : Moved(w, c, m[1], m[2])
  OBVIOUS
<1> USE <1>1 DEF Active, Moved
<1>3. CASE NoHandler(w) \/ OpenTargetThrows(w)
  <2>1. Moved(w, c, "entered", "failed") BY <1>3 DEF NoHandler, OpenTargetThrows
  <2>2. QED BY <2>1 DEF Moves
<1>4. CASE OpenTarget(w)
  <2>1. Moved(w, c, "entered", "connecting") BY <1>4 DEF OpenTarget
  <2>2. QED BY <2>1 DEF Moves
<1>5. CASE ConnectTarget(w)
  <2>1. Moved(w, c, "connecting", "relay") BY <1>5 DEF ConnectTarget
  <2>2. QED BY <2>1 DEF Moves
<1>6. CASE ConnectTargetThrows(w)
  <2>1. Moved(w, c, "connecting", "failed") BY <1>6 DEF ConnectTargetThrows
  <2>2. QED BY <2>1 DEF Moves
<1>7. CASE EnterRequests(w)
  <2>1. Moved(w, c, "entered", "requests") BY <1>7 DEF EnterRequests
  <2>2. QED BY <2>1 DEF Moves
<1>8. CASE RelayEnds(w)
  <2>1. Moved(w, c, "relay", "relayed") BY <1>8 DEF RelayEnds
  <2>2. QED BY <2>1 DEF Moves
<1>9. CASE RequestsEnd(w)
  <2>1. Moved(w, c, "requests", "answered") \/ Moved(w, c, "requests", "failed")
    BY <1>9 DEF RequestsEnd
  <2>2. QED BY <2>1 DEF Moves
<1>10. QED BY <1>3, <1>4, <1>5, <1>6, <1>7, <1>8, <1>9

LEMMA StepCases ==
  ASSUME TypeOK, [Next]_vars
  PROVE  \/ UNCHANGED <<new_sock, tasks, serving, stage, open, arrived, started>>
         \/ \E c \in Clients : ClientConnects(c)
         \/ Accept
         \/ PushTask
         \/ \E w \in Workers : StartSession(w)
         \/ \E w \in Workers, c \in Clients, m \in Moves : Moved(w, c, m[1], m[2])
<1>1. CASE \E w \in Workers : \/ NoHandler(w) \/ OpenTarget(w) \/ OpenTargetThrows(w)
                              \/ ConnectTarget(w) \/ ConnectTargetThrows(w)
                              \/ EnterRequests(w) \/ RelayEnds(w) \/ RequestsEnd(w)
  BY <1>1, SessionMoves
<1>2. CASE SetHandler \/ CallAccept \/ AcceptThrows \/ UNCHANGED vars
  BY <1>2 DEF SetHandler, CallAccept, AcceptThrows, vars
<1>3. QED BY <1>1, <1>2 DEF Next, Listener, Worker

(* A session that has not started is at no stage, and nobody serves it. *)
LEMMA NextInTurn ==
  ASSUME Placed, NEW w \in Workers, StartSession(w)
  PROVE  /\ Head(tasks) \in Clients
         /\ stage[Head(tasks)] = "none"
         /\ \A c \in Clients : Among(c, Len(started) + 1) <=> Among(c, Len(started)) \/ c = Head(tasks)
<1> DEFINE n == Len(started)
<1>1. TypeOK /\ tasks # <<>> BY DEF Placed, DescriptorsOK, StartSession
<1>2. n \in Nat /\ Len(arrived) \in Nat /\ n + 1 <= Len(arrived) /\ arrived[n + 1] = Head(tasks)
  BY <1>1, Positions DEF Placed
<1> HIDE DEF n
<1>3. Head(tasks) \in Clients BY <1>1, HeadAndTail DEF TypeOK
<1>4. ~Among(Head(tasks), n)
  BY <1>2 DEF Among, Placed, Turns
<1>5. \A c \in Clients : Among(c, n + 1) <=> Among(c, n) \/ c = Head(tasks)
  <2>1. 1..(n + 1) = 1..n \cup {n + 1} BY <1>2
  <2>2. QED BY <1>2, <2>1 DEF Among
<1>6. QED BY <1>3, <1>4, <1>5 DEF Placed, Turns, n

(* A client that connects arrives after all the others. *)
LEMMA LastToArrive ==
  ASSUME Placed, NEW c \in Clients, ClientConnects(c)
  PROVE  /\ Len(arrived') = Len(arrived) + 1
         /\ arrived'[Len(arrived) + 1] = c
         /\ \A i \in 1..Len(arrived) : arrived'[i] = arrived[i] /\ arrived[i] # c
         /\ \A k \in Clients, n \in Nat : n <= Len(arrived) => (Among(k, n)' <=> Among(k, n))
<1>1. arrived \in Seq(Clients) BY DEF Placed, DescriptorsOK, TypeOK
<1>2. DOMAIN arrived = 1..Len(arrived) /\ Len(arrived) \in Nat BY <1>1, LenProperties
<1>3. \A i \in 1..Len(arrived) : arrived[i] # c
  BY <1>2 DEF ClientConnects, Range
<1>4. /\ Len(arrived') = Len(arrived) + 1
      /\ arrived'[Len(arrived) + 1] = c
      /\ \A i \in 1..Len(arrived) : arrived'[i] = arrived[i]
  BY <1>1, AppendProperties DEF ClientConnects
<1>5. \A k \in Clients, n \in Nat : n <= Len(arrived) => (Among(k, n)' <=> Among(k, n))
  BY <1>2, <1>4 DEF Among
<1>6. QED BY <1>3, <1>4, <1>5

LEMMA TurnsStep == Placed /\ [Next]_vars => Turns'
<1> SUFFICES ASSUME Placed, [Next]_vars PROVE Turns'
  OBVIOUS
<1>0. TypeOK /\ Len(started) \in Nat /\ Len(started) <= Len(arrived) /\ Len(arrived) \in Nat
  BY Positions DEF Placed, DescriptorsOK
<1>1. CASE UNCHANGED <<stage, arrived, started>>
  BY <1>1 DEF Placed, Turns, Among
<1>2. ASSUME NEW c \in Clients, ClientConnects(c) PROVE Turns'
  <2>1. UNCHANGED <<stage, started>> BY <1>2 DEF ClientConnects
  <2>2. \A k \in Clients : stage'[k] # "none" <=> Among(k, Len(started))'
    BY <1>0, <1>2, <2>1, LastToArrive DEF Placed, Turns, Among
  <2>3. \A i, j \in 1..Len(arrived') : arrived'[i] = arrived'[j] => i = j
    <3> SUFFICES ASSUME NEW i \in 1..Len(arrived'), NEW j \in 1..Len(arrived'),
                        arrived'[i] = arrived'[j]
                 PROVE  i = j
      OBVIOUS
    <3>1. /\ i \in 1..Len(arrived) \/ i = Len(arrived) + 1
          /\ j \in 1..Len(arrived) \/ j = Len(arrived) + 1
      BY <1>0, <1>2, LastToArrive
    <3>2. QED BY <3>1, <1>2, LastToArrive DEF Placed, Turns
  <2>4. QED BY <2>2, <2>3, <2>1 DEF Turns
<1>3. ASSUME NEW w \in Workers, StartSession(w) PROVE Turns'
  <2>1. /\ Head(tasks) \in Clients
        /\ stage' = [stage EXCEPT ![Head(tasks)] = "entered"]
        /\ arrived' = arrived /\ Len(started') = Len(started) + 1
    BY <1>0, <1>3, NextInTurn, AppendProperties DEF StartSession, TypeOK
  <2>2. \A c \in Clients : Among(c, Len(started))' <=> Among(c, Len(started)) \/ c = Head(tasks)
    BY <1>3, <2>1, NextInTurn DEF Among
  <2>3. \A c \in Clients : stage'[c] # "none" <=> stage[c] # "none" \/ c = Head(tasks)
    BY <1>0, <2>1 DEF TypeOK
  <2>4. QED BY <2>1, <2>2, <2>3 DEF Placed, Turns
<1>4. ASSUME NEW w \in Workers, NEW c \in Clients, NEW m \in Moves, Moved(w, c, m[1], m[2])
      PROVE  Turns'
  <2>1. stage[c] # "none" /\ \A k \in Clients : stage'[k] = IF k = c THEN m[2] ELSE stage[k]
    BY <1>0, <1>4 DEF Moved, Moves, TypeOK
  <2>2. m[2] # "none" /\ UNCHANGED <<arrived, started>>
    BY <1>4 DEF Moved, Moves
  <2>3. QED BY <2>1, <2>2 DEF Placed, Turns, Among
<1>5. QED
  BY <1>0, <1>1, <1>2, <1>3, <1>4, StepCases DEF Accept, PushTask

LEMMA PlacedInit == Init => Placed
<1> SUFFICES ASSUME Init PROVE Placed
  OBVIOUS
<1>1. arrived = <<>> /\ started = <<>> /\ Len(<<>>) = 0 BY EmptySeq DEF Init
<1>2. Turns BY <1>1 DEF Init, Turns, Among
<1>3. Conveyed BY EmptySeq, ConcatEmptySeq DEF Init, Conveyed
<1>4. QED BY <1>2, <1>3, DispatchTypeInit DEF Placed

LEMMA PlacedStep == Placed /\ [Next]_vars => Placed'
  BY DispatchTypeStep, ConveyedStep, TurnsStep DEF Placed, DescriptorsOK

LEMMA SessionsStep == Placed /\ Sessions /\ [Next]_vars => Sessions'
<1> SUFFICES ASSUME Placed, Sessions, [Next]_vars PROVE Sessions'
  OBVIOUS
<1>0. TypeOK BY DEF Placed, DescriptorsOK
<1>1. CASE UNCHANGED <<stage, serving>>
  BY <1>1 DEF Sessions
<1>2. ASSUME NEW w \in Workers, StartSession(w) PROVE Sessions'
  <2>1. /\ Head(tasks) \in Clients /\ stage[Head(tasks)] = "none"
        /\ serving[w] = None /\ Head(tasks) # None
        /\ stage' = [stage EXCEPT ![Head(tasks)] = "entered"]
        /\ serving' = [serving EXCEPT ![w] = Head(tasks)]
    BY <1>2, NextInTurn, DispatchAssumption DEF StartSession
  <2>2. \A v \in Workers : serving[v] # Head(tasks)
    BY <2>1 DEF Sessions, Active
  <2>3. /\ \A v \in Workers : serving'[v] = IF v = w THEN Head(tasks) ELSE serving[v]
        /\ \A c \in Clients : stage'[c] = IF c = Head(tasks) THEN "entered" ELSE stage[c]
    BY <1>0, <2>1 DEF TypeOK
  <2>4. \A v \in Workers : serving'[v] # None => stage'[serving'[v]] \in Active
    BY <1>0, <2>1, <2>2, <2>3 DEF Sessions, Active, TypeOK
  <2>5. \A u, v \in Workers : serving'[u] = serving'[v] /\ serving'[v] # None => u = v
    BY <2>1, <2>2, <2>3 DEF Sessions
  <2>6. \A c \in Clients : stage'[c] \in Active => \E v \in Workers : serving'[v] = c
    BY <2>1, <2>3, DispatchAssumption DEF Sessions
  <2>7. QED BY <2>4, <2>5, <2>6 DEF Sessions
<1>3. ASSUME NEW w \in Workers, NEW c \in Clients, NEW m \in Moves, Moved(w, c, m[1], m[2])
      PROVE  Sessions'
  <2>1. /\ serving[w] = c /\ c # None
        /\ stage' = [stage EXCEPT ![c] = m[2]]
        /\ serving' = IF m[2] \in Active THEN serving ELSE [serving EXCEPT ![w] = None]
    BY <1>3, DispatchAssumption DEF Moved
  <2>2. \A v \in Workers : v # w => serving[v] # c
    BY <2>1 DEF Sessions
  <2>3. CASE m[2] \in Active
    BY <1>0, <2>1, <2>2, <2>3 DEF Sessions, TypeOK
  <2>4. CASE m[2] \notin Active
    BY <1>0, <2>1, <2>2, <2>4 DEF Sessions, TypeOK
  <2>5. QED BY <2>3, <2>4
<1>4. QED
  BY <1>0, <1>1, <1>2, <1>3, StepCases DEF ClientConnects, Accept, PushTask

(* A session is run by one worker, from its start to its end                *)
(* (ClientThreadProc, the thread pool).                                     *)
THEOREM DispatchOneWorkerEach == Spec => []OneWorkerEach
<1>1. Init => Sessions
  BY DEF Init, Sessions, Active
<1>2. TypeOK /\ Sessions => OneWorkerEach
  BY DispatchAssumption DEF Sessions, OneWorkerEach, Active
<1>3. Spec => []TypeOK BY DispatchTypeOK
<1>4. QED BY <1>1, <1>2, <1>3, PlacedInit, PlacedStep, SessionsStep, PTL DEF Spec

LEMMA DescriptorsStep == Placed /\ Descriptors /\ [Next]_vars => Descriptors'
<1> SUFFICES ASSUME Placed, Descriptors, [Next]_vars PROVE Descriptors'
  OBVIOUS
<1>0. /\ TypeOK /\ Len(started) \in Nat /\ Len(tasks) \in Nat /\ Accepted \in Nat
  BY Positions, LenProperties DEF Placed, DescriptorsOK, TypeOK
<1>1. ASSUME Accepted' = Accepted, arrived' = arrived, open' = open, WithTarget' = WithTarget
      PROVE  Descriptors'
  BY <1>1 DEF Descriptors, Among
<1>2. CASE UNCHANGED <<new_sock, tasks, stage, open, arrived, started>>
  BY <1>1, <1>2 DEF Accepted, WithTarget
<1>3. ASSUME NEW c \in Clients, ClientConnects(c) PROVE Descriptors'
  <2>1. UNCHANGED <<new_sock, tasks, stage, open, started>> BY <1>3 DEF ClientConnects
  <2>2. Accepted' = Accepted /\ WithTarget' = WithTarget BY <2>1 DEF Accepted, WithTarget
  <2>3. \A k \in Clients : Among(k, Accepted)' <=> Among(k, Accepted)
    BY <1>0, <1>3, <2>2, LastToArrive, Positions DEF Placed, Among
  <2>4. QED BY <2>1, <2>2, <2>3 DEF Descriptors
<1>4. CASE Accept
  <2> DEFINE c == Head(backlog)
             n == Accepted
  <2>1. /\ backlog # <<>> /\ c \in Clients /\ new_sock = None /\ new_sock' = c
        /\ open' = open \cup {<<"client", c>>}
        /\ UNCHANGED <<tasks, stage, arrived, started>>
    BY <1>0, <1>4, HeadAndTail DEF Accept, TypeOK
  <2>2. Accepted' = n + 1 /\ WithTarget' = WithTarget
    BY <1>0, <2>1, DispatchAssumption DEF Accepted, WithTarget
  <2>3. n + 1 <= Len(arrived) /\ arrived[n + 1] = c /\ n \in Nat /\ Len(arrived) \in Nat
    BY <1>0, <2>1, Positions DEF Placed
  <2> HIDE DEF n, c
  <2>4. \A k \in Clients : Among(k, n + 1) <=> Among(k, n) \/ k = c
    <3>1. 1..(n + 1) = 1..n \cup {n + 1} BY <2>3
    <3>2. QED BY <2>3, <3>1 DEF Among
  <2>5. QED
    BY <2>1, <2>2, <2>4 DEF Descriptors, Among, n
<1>5. CASE PushTask
  <2>1. new_sock \in Clients /\ tasks \in Seq(Clients) /\ new_sock # None
    BY <1>0, <1>5, DispatchAssumption DEF PushTask, TypeOK
  <2>2. Len(tasks') = Len(tasks) + 1 /\ new_sock' = None /\ UNCHANGED <<stage, open, arrived, started>>
    BY <1>5, <2>1, AppendProperties DEF PushTask
  <2>3. Accepted' = Accepted
    BY <1>0, <2>1, <2>2 DEF Accepted
  <2>4. QED BY <1>1, <2>2, <2>3 DEF WithTarget
<1>6. ASSUME NEW w \in Workers, StartSession(w) PROVE Descriptors'
  <2>1. /\ Head(tasks) \in Clients /\ stage[Head(tasks)] = "none"
        /\ stage' = [stage EXCEPT ![Head(tasks)] = "entered"]
        /\ UNCHANGED <<new_sock, open, arrived>>
    BY <1>6, NextInTurn DEF StartSession
  <2>2. Len(tasks') = Len(tasks) - 1 /\ Len(started') = Len(started) + 1
    BY <1>0, <1>6, <2>1, HeadTailProperties, AppendProperties DEF StartSession, TypeOK
  <2>3. Accepted' = Accepted
    BY <1>0, <2>1, <2>2 DEF Accepted
  <2>4. WithTarget' = WithTarget
    BY <1>0, <2>1 DEF WithTarget, TypeOK
  <2>5. QED BY <1>1, <2>1, <2>3, <2>4
<1>7. ASSUME NEW w \in Workers, NEW c \in Clients, NEW m \in Moves, Moved(w, c, m[1], m[2])
      PROVE  Descriptors'
  <2>1. /\ stage[c] = m[1] /\ UNCHANGED <<new_sock, tasks, arrived, started>>
        /\ \A k \in Clients : stage'[k] = IF k = c THEN m[2] ELSE stage[k]
    BY <1>0, <1>7 DEF Moved, TypeOK
  <2>2. Accepted' = Accepted
    BY <2>1 DEF Accepted
  <2>3. CASE m[2] = "connecting"
    <3>1. open' = open \cup {<<"target", c>>} BY <1>7, <2>3 DEF Moved
    <3>2. WithTarget' = WithTarget \cup {c}
      BY <2>1, <2>3 DEF WithTarget
    <3>3. QED BY <2>1, <2>2, <3>1, <3>2 DEF Descriptors, Among
  <2>4. CASE m[1] = "connecting" /\ m[2] = "failed"
    <3>1. open' = open \ {<<"target", c>>} BY <1>7, <2>4 DEF Moved
    <3>2. WithTarget' = WithTarget \ {c}
      BY <2>1, <2>4 DEF WithTarget
    <3>3. QED BY <2>1, <2>2, <3>1, <3>2 DEF Descriptors, Among
  <2>5. CASE m[2] # "connecting" /\ ~(m[1] = "connecting" /\ m[2] = "failed")
    <3>1. open' = open BY <1>7, <2>5 DEF Moved
    <3>2. m[1] \in {"connecting", "relay", "relayed"} <=> m[2] \in {"connecting", "relay", "relayed"}
      BY <2>5 DEF Moves
    <3>3. WithTarget' = WithTarget BY <2>1, <3>2 DEF WithTarget
    <3>4. QED BY <1>1, <2>1, <2>2, <3>1, <3>3
  <2>6. QED BY <2>3, <2>4, <2>5
<1>8. QED BY <1>0, <1>2, <1>3, <1>4, <1>5, <1>6, <1>7, StepCases

(* The open descriptors are those of the clients accepted so far and of the *)
(* targets of sessions that did not fail, neither more nor less, whichever  *)
(* of its steps a session fails at (CreateSocket and Connect throw,         *)
(* ClientThreadProc catches).                                               *)
THEOREM DispatchDescriptorsAccounted == Spec => []DescriptorsAccounted
<1>1. Init => Descriptors
  <2> SUFFICES ASSUME Init PROVE Descriptors
    OBVIOUS
  <2>1. open = {} /\ WithTarget = {} /\ Accepted = 0
    BY EmptySeq DEF Init, WithTarget, Accepted
  <2>2. QED BY <2>1 DEF Descriptors, Among
<1>2. Descriptors => DescriptorsAccounted
  BY DEF Descriptors, DescriptorsAccounted, Among, WithTarget
<1>3. QED
  BY <1>1, <1>2, PlacedInit, PlacedStep, DescriptorsStep, PTL DEF Spec
===============================================================================
