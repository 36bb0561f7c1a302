-------------------------- MODULE TunnelServer_proofs --------------------------
(***************************************************************************)
(* Proofs about TunnelServer, for every number of control connections,     *)
(* pool connections and users and every capacity of the channels.          *)
(***************************************************************************)
EXTENDS TunnelServer, FiniteSetTheorems, SequenceTheorems, TLAPS

(* Lemmas about the pool queue as a sequence without repetitions.          *)

LEMMA AppendIn ==
  ASSUME NEW S, NEW q \in Seq(S), NEW e \in S
  PROVE  /\ \A x : IsIn(x, Append(q, e)) <=> IsIn(x, q) \/ x = e
         /\ Distinct(q) /\ ~IsIn(e, q) => Distinct(Append(q, e))
  <1>1. /\ Append(q, e) \in Seq(S)
        /\ Len(Append(q, e)) = Len(q) + 1
        /\ \A i \in 1..Len(q) : Append(q, e)[i] = q[i]
        /\ Append(q, e)[Len(q) + 1] = e
    OBVIOUS
  <1>2. Len(q) \in Nat
    OBVIOUS
  <1>3. ASSUME NEW x PROVE IsIn(x, Append(q, e)) <=> IsIn(x, q) \/ x = e
    <2>1. ASSUME NEW i \in 1..(Len(q) + 1), Append(q, e)[i] = x, x # e
          PROVE  IsIn(x, q)
      <3>1. i \in 1..Len(q)
        BY <1>1, <1>2, <2>1
      <3> QED BY <1>1, <2>1, <3>1 DEF IsIn
    <2>2. IsIn(x, q) => IsIn(x, Append(q, e))
      <3> SUFFICES ASSUME NEW i \in 1..Len(q), q[i] = x
                   PROVE  IsIn(x, Append(q, e))
        BY DEF IsIn
      <3> QED BY <1>1, <1>2 DEF IsIn
    <2>3. IsIn(e, Append(q, e))
      BY <1>1, <1>2 DEF IsIn
    <2> QED BY <1>1, <2>1, <2>2, <2>3 DEF IsIn
  <1>4. ASSUME Distinct(q), ~IsIn(e, q) PROVE Distinct(Append(q, e))
    BY <1>1, <1>2, <1>4 DEF Distinct, IsIn
  <1> QED BY <1>3, <1>4

LEMMA TailIn ==
  ASSUME NEW S, NEW q \in Seq(S), q # <<>>, Distinct(q)
  PROVE  /\ Head(q) \in S /\ IsIn(Head(q), q)
         /\ Tail(q) \in Seq(S) /\ Len(Tail(q)) = Len(q) - 1
         /\ \A x : IsIn(x, Tail(q)) <=> IsIn(x, q) /\ x # Head(q)
         /\ Distinct(Tail(q))
  <1>1. /\ Head(q) \in S /\ Head(q) = q[1]
        /\ Tail(q) \in Seq(S) /\ Len(Tail(q)) = Len(q) - 1
        /\ \A i \in 1..Len(Tail(q)) : Tail(q)[i] = q[i + 1]
        /\ Len(q) \in Nat \ {0}
    BY HeadTailProperties, EmptySeq
  <1>2. IsIn(Head(q), q)
    BY <1>1 DEF IsIn
  <1>3. ASSUME NEW x PROVE IsIn(x, Tail(q)) <=> IsIn(x, q) /\ x # Head(q)
    <2>1. ASSUME NEW i \in 1..Len(Tail(q)), Tail(q)[i] = x
          PROVE  IsIn(x, q) /\ x # Head(q)
      <3>1. i + 1 \in 1..Len(q) /\ q[i + 1] = x /\ i + 1 # 1
        BY <1>1, <2>1
      <3> QED BY <1>1, <3>1 DEF IsIn, Distinct
    <2>2. ASSUME NEW i \in 1..Len(q), q[i] = x, x # Head(q)
          PROVE  IsIn(x, Tail(q))
      <3>1. i # 1 /\ i - 1 \in 1..Len(Tail(q)) /\ Tail(q)[i - 1] = q[i]
        BY <1>1, <2>2
      <3> QED BY <2>2, <3>1 DEF IsIn
    <2> QED BY <2>1, <2>2 DEF IsIn
  <1>4. Distinct(Tail(q))
    <2> SUFFICES ASSUME NEW i \in 1..Len(Tail(q)), NEW j \in 1..Len(Tail(q)),
                        Tail(q)[i] = Tail(q)[j]
                 PROVE  i = j
      BY DEF Distinct
    <2>1. i + 1 \in 1..Len(q) /\ j + 1 \in 1..Len(q) /\ q[i + 1] = q[j + 1]
      BY <1>1
    <2> QED BY <1>1, <2>1 DEF Distinct
  <1> QED BY <1>1, <1>2, <1>3, <1>4

-------------------------------------------------------------------------------
(* Type correctness.                                                       *)

\* The types hold in every reachable state of the server.
THEOREM TypeCorrect == Spec => []TypeOK
  <1> USE DEF HandlerPC, PoolPC, UserPC, Signals, Links
  <1>1. Init => TypeOK
    BY DEF Init, TypeOK
  <1>2. TypeOK /\ [Next]_vars => TypeOK'
    <2> SUFFICES ASSUME TypeOK, [Next]_vars PROVE TypeOK'
      OBVIOUS
    <2> USE DEF TypeOK, server, ctrl, tcpPool, usr
    <2>1. ASSUME NEW c \in Controls,
                 ControlArrives(c) \/ LinkStalls(c) \/ LinkEnds(c) \/ ReadHeartbeat(c)
          PROVE  TypeOK'
      <3>1. CASE ControlArrives(c) BY <3>1 DEF ControlArrives
      <3>2. CASE LinkStalls(c) BY <3>2 DEF LinkStalls
      <3>3. CASE LinkEnds(c) BY <3>3 DEF LinkEnds
      <3>4. CASE ReadHeartbeat(c) BY <3>4 DEF ReadHeartbeat
      <3> QED BY <2>1, <3>1, <3>2, <3>3, <3>4
    <2>2. ASSUME NEW c \in Controls, Handler(c) PROVE TypeOK'
      <3>1. CASE CheckControl(c) BY <3>1 DEF CheckControl
      <3>2. CASE AckControl(c) BY <3>2 DEF AckControl
      <3>3. CASE Publish(c) BY <3>3 DEF Publish
      <3>4. CASE SendPong(c) BY <3>4 DEF SendPong
      <3>5. CASE ReadEnds(c) BY <3>5 DEF ReadEnds
      <3>6. CASE Unpublish(c) BY <3>6 DEF Unpublish
      <3>7. CASE DrainOne(c) BY <3>7 DEF DrainOne
      <3>8. CASE DrainDone(c) BY <3>8 DEF DrainDone
      <3> QED BY <2>2, <3>1, <3>2, <3>3, <3>4, <3>5, <3>6, <3>7, <3>8 DEF Handler
    <2>3. ASSUME NEW c \in Controls, Writer(c) PROVE TypeOK'
      <3>0. out[c] # <<>> => Tail(out[c]) \in Seq(Signals)
        OBVIOUS
      <3>1. CASE WriterSend(c) BY <3>0, <3>1 DEF WriterSend
      <3>2. CASE WriterFails(c) BY <3>0, <3>2 DEF WriterFails
      <3>3. CASE WriterSeesClose(c) BY <3>3 DEF WriterSeesClose
      <3> QED BY <2>3, <3>1, <3>2, <3>3 DEF Writer
    <2>4. ASSUME NEW c \in Controls, NEW p \in Pools, PoolDials(p, c) PROVE TypeOK'
      BY <2>4 DEF PoolDials
    <2>5. ASSUME NEW p \in Pools, PoolHandler(p) PROVE TypeOK'
      <3>1. CASE PoolHandshake(p) BY <3>1 DEF PoolHandshake
      <3>2. CASE PoolAck(p) BY <3>2 DEF PoolAck
      <3>3. CASE PoolAdmit(p)
        <4>1. Append(poolQueue, p) \in Seq(Pools)
          OBVIOUS
        <4> QED BY <3>3, <4>1 DEF PoolAdmit
      <3> QED BY <2>5, <3>1, <3>2, <3>3 DEF PoolHandler
    <2>6. ASSUME NEW u \in Users, UserArrives(u) PROVE TypeOK'
      BY <2>6 DEF UserArrives
    <2>7. ASSUME NEW u \in Users, Obtain(u) PROVE TypeOK'
      <3>1. CASE TakeConn(u)
        BY <3>1 DEF TakeConn
      <3>2. CASE TryFails(u) BY <3>2 DEF TryFails
      <3>4. CASE ReadCtrlOut(u) BY <3>4 DEF ReadCtrlOut
      <3>5. CASE SendPanics(u) BY <3>5 DEF SendPanics
      <3>6. CASE WaitWakes(u) BY <3>6 DEF WaitWakes
      <3>7. CASE WaitExpires(u) BY <3>7 DEF WaitExpires
      <3>3. CASE SendNeedConn(u)
        <4>1. userCh[u] \in Controls
              => Append(out[userCh[u]], "needConn") \in Seq(Signals)
          OBVIOUS
        <4>2. out' \in [Controls -> Seq(Signals)]
          BY <3>3, <4>1 DEF SendNeedConn
        <4> QED BY <3>3, <4>2 DEF SendNeedConn
      <3> QED BY <2>7, <3>1, <3>2, <3>3, <3>4, <3>5, <3>6, <3>7 DEF Obtain
    <2>8. ASSUME NEW u \in Users, RelayEnds(u) PROVE TypeOK'
      BY <2>8 DEF RelayEnds
    <2>9. CASE UNCHANGED vars
      BY <2>9 DEF vars
    <2> QED BY <2>1, <2>2, <2>3, <2>4, <2>5, <2>6, <2>7, <2>8, <2>9 DEF Next, Step
  <1> QED BY <1>1, <1>2, PTL DEF Spec

-------------------------------------------------------------------------------
(* The fields guarded by s.mu.                                             *)

\* No interleaving of control handlers, overlapping generations included,
\* leaves a published generation without a live handler and an open outCh.
THEOREM GenerationSafe == Spec => []PublishedOpen
  <1>1. Init => PublishedOpen
    BY DEF Init, PublishedOpen
  <1>2. TypeOK /\ PublishedOpen /\ [Next]_vars => PublishedOpen'
    <2> SUFFICES ASSUME TypeOK, PublishedOpen, [Next]_vars PROVE PublishedOpen'
      OBVIOUS
    <2> USE NoneAssumption DEF TypeOK, PublishedOpen, ConnClosed,
                               server, ctrl, tcpPool, usr
    <2>1. ASSUME NEW c \in Controls,
                 ControlArrives(c) \/ LinkStalls(c) \/ LinkEnds(c) \/ ReadHeartbeat(c)
          PROVE  PublishedOpen'
      <3>1. CASE ControlArrives(c) BY <3>1 DEF ControlArrives
      <3>2. CASE LinkStalls(c) BY <3>2 DEF LinkStalls
      <3>3. CASE LinkEnds(c) BY <3>3 DEF LinkEnds
      <3>4. CASE ReadHeartbeat(c) BY <3>4 DEF ReadHeartbeat
      <3> QED BY <2>1, <3>1, <3>2, <3>3, <3>4
    <2>2. ASSUME NEW c \in Controls, Handler(c) PROVE PublishedOpen'
      <3>1. CASE CheckControl(c) BY <3>1 DEF CheckControl
      <3>2. CASE AckControl(c) BY <3>2 DEF AckControl
      <3>3. CASE Publish(c) BY <3>3 DEF Publish
      <3>4. CASE SendPong(c) BY <3>4 DEF SendPong
      <3>5. CASE ReadEnds(c) BY <3>5 DEF ReadEnds
      <3>6. CASE Unpublish(c) BY <3>6 DEF Unpublish
      <3>7. CASE DrainOne(c) BY <3>7 DEF DrainOne
      <3>8. CASE DrainDone(c) BY <3>8 DEF DrainDone
      <3> QED BY <2>2, <3>1, <3>2, <3>3, <3>4, <3>5, <3>6, <3>7, <3>8 DEF Handler
    <2>3. ASSUME NEW c \in Controls, Writer(c) PROVE PublishedOpen'
      BY <2>3 DEF Writer, WriterSend, WriterFails, WriterSeesClose
    <2>4. ASSUME NEW c \in Controls, NEW p \in Pools, PoolDials(p, c)
          PROVE  PublishedOpen'
      BY <2>4 DEF PoolDials
    <2>5. ASSUME NEW p \in Pools, PoolHandler(p) PROVE PublishedOpen'
      BY <2>5 DEF PoolHandler, PoolHandshake, PoolAck, PoolAdmit
    <2>6. ASSUME NEW u \in Users, UserArrives(u) \/ RelayEnds(u)
          PROVE  PublishedOpen'
      BY <2>6 DEF UserArrives, RelayEnds
    <2>7. ASSUME NEW u \in Users, Obtain(u) PROVE PublishedOpen'
      BY <2>7 DEF Obtain, TakeConn, TryFails, ReadCtrlOut, SendNeedConn,
                  SendPanics, WaitWakes, WaitExpires
    <2>8. CASE UNCHANGED vars
      BY <2>8 DEF vars
    <2> QED BY <2>1, <2>2, <2>3, <2>4, <2>5, <2>6, <2>7, <2>8 DEF Next, Step
  <1> QED BY <1>1, <1>2, TypeCorrect, PTL DEF Spec

\* A generation is withdrawn by its own handler, or gives way to another.
THEOREM WithdrawnByOwner == Spec => OnlyOwnerWithdraws
  <1>1. TypeOK /\ PublishedOpen /\ [Next]_vars
        => [\A c \in Controls : controlConn = c /\ controlConn' # c
              => \/ handler[c] = "ended" /\ handler'[c] = "drain"
                 \/ controlConn' # None]_vars
    <2> SUFFICES ASSUME TypeOK, PublishedOpen, [Next]_vars, ~UNCHANGED controlConn,
                        controlConn' = None
                 PROVE  /\ handler[controlConn] = "ended"
                        /\ handler'[controlConn] = "drain"
      OBVIOUS
    <2> USE DEF server, ctrl, tcpPool, usr
    <2>1. PICK c \in Controls : Handler(c)
      BY DEF Next, Step, vars, ControlArrives, LinkStalls, LinkEnds, ReadHeartbeat,
             Writer, WriterSend, WriterFails, WriterSeesClose, PoolDials,
             PoolHandler, PoolHandshake, PoolAck, PoolAdmit, UserArrives,
             RelayEnds, Obtain, TakeConn, TryFails, ReadCtrlOut, SendNeedConn,
             SendPanics, WaitWakes, WaitExpires
    <2>2. Unpublish(c)
      BY <2>1, NoneAssumption
         DEF Handler, CheckControl, AckControl, Publish, SendPong, ReadEnds,
             DrainOne, DrainDone
    <2> QED BY <2>2 DEF Unpublish, TypeOK
  <1> QED BY <1>1, TypeCorrect, GenerationSafe, PTL DEF Spec, OnlyOwnerWithdraws

-------------------------------------------------------------------------------
(* The pool queue.                                                         *)

\* Every pool connection is in one place, whatever drains, users and
\* admissions do to poolQueue.
THEOREM PoolSafe == Spec => []PoolAccounted
  <1>1. Init => PoolAccounted
    BY NoneAssumption, CapAssumption DEF Init, PoolAccounted, IsIn, Distinct
  <1>2. TypeOK /\ PoolAccounted /\ [Next]_vars => PoolAccounted'
    <2> SUFFICES ASSUME TypeOK, PoolAccounted, [Next]_vars PROVE PoolAccounted'
      OBVIOUS
    <2> USE NoneAssumption DEF server, ctrl, tcpPool, usr
    <2>1. ASSUME UNCHANGED <<poolQueue, pool, user, carrier>> PROVE PoolAccounted'
      BY <2>1 DEF PoolAccounted, IsIn, Distinct
    \* A connection that is not idle moves to another place outside the queue.
    <2>2. ASSUME NEW p \in Pools, pool[p] \notin {"idle", "held"},
                 NEW place \in PoolPC \ {"idle", "held"},
                 pool' = [pool EXCEPT ![p] = place],
                 UNCHANGED <<poolQueue, user, carrier>>
          PROVE  PoolAccounted'
      <3>1. pool \in [Pools -> PoolPC] /\ carrier \in [Users -> Pools \cup {None}]
        BY DEF TypeOK
      <3>2. Distinct(poolQueue)' /\ \A x : IsIn(x, poolQueue)' <=> IsIn(x, poolQueue)
        BY <2>2 DEF PoolAccounted, IsIn, Distinct
      <3> QED BY <2>2, <3>1, <3>2 DEF PoolAccounted
    \* A user moves between states in which it holds nothing.
    <2>3. ASSUME NEW u \in Users, user[u] # "relay",
                 NEW st \in UserPC \ {"relay"},
                 user' = [user EXCEPT ![u] = st],
                 UNCHANGED <<poolQueue, pool, carrier>>
          PROVE  PoolAccounted'
      BY <2>3 DEF PoolAccounted, IsIn, Distinct, TypeOK
    \* The head of the queue is taken out.
    <2>4. ASSUME poolQueue # <<>>
          PROVE  /\ Head(poolQueue) \in Pools /\ pool[Head(poolQueue)] = "idle"
                 /\ Distinct(Tail(poolQueue)) /\ Len(Tail(poolQueue)) <= QueueCap
                 /\ \A x : IsIn(x, Tail(poolQueue))
                           <=> IsIn(x, poolQueue) /\ x # Head(poolQueue)
      <3>1. poolQueue \in Seq(Pools) /\ Distinct(poolQueue)
            /\ Len(poolQueue) <= QueueCap
        BY DEF TypeOK, PoolAccounted
      <3>2. /\ Head(poolQueue) \in Pools /\ IsIn(Head(poolQueue), poolQueue)
            /\ Distinct(Tail(poolQueue)) /\ Len(Tail(poolQueue)) = Len(poolQueue) - 1
            /\ \A x : IsIn(x, Tail(poolQueue))
                      <=> IsIn(x, poolQueue) /\ x # Head(poolQueue)
        BY <2>4, <3>1, TailIn
      <3> QED BY <3>1, <3>2, CapAssumption DEF PoolAccounted
    <2>5. ASSUME NEW c \in Controls, DrainOne(c) PROVE PoolAccounted'
      BY <2>4, <2>5 DEF DrainOne, PoolAccounted, TypeOK
    <2>6. ASSUME NEW u \in Users, TakeConn(u) PROVE PoolAccounted'
      <3>1. carrier[u] = None
        BY <2>6 DEF TakeConn, PoolAccounted
      <3> QED BY <2>4, <2>6, <3>1 DEF TakeConn, PoolAccounted, TypeOK
    <2>7. ASSUME NEW p \in Pools, PoolAdmit(p) PROVE PoolAccounted'
      <3>1. CASE Len(poolQueue) < QueueCap
        <4>1. poolQueue \in Seq(Pools) /\ ~IsIn(p, poolQueue) /\ Distinct(poolQueue)
          BY <2>7 DEF PoolAdmit, PoolAccounted, TypeOK
        <4>2. /\ \A x : IsIn(x, poolQueue') <=> IsIn(x, poolQueue) \/ x = p
              /\ Distinct(poolQueue')
          <5>1. /\ \A x : IsIn(x, Append(poolQueue, p)) <=> IsIn(x, poolQueue) \/ x = p
                /\ Distinct(Append(poolQueue, p))
            BY <4>1, AppendIn
          <5>2. poolQueue' = Append(poolQueue, p)
            BY <2>7, <3>1 DEF PoolAdmit
          <5> QED BY <5>1, <5>2 DEF IsIn, Distinct
        <4>3. Len(poolQueue') <= QueueCap
          BY <2>7, <3>1, <4>1, CapAssumption DEF PoolAdmit
        <4> QED BY <2>7, <3>1, <4>2, <4>3 DEF PoolAdmit, PoolAccounted, TypeOK
      <3>2. CASE ~(Len(poolQueue) < QueueCap)
        BY <2>2, <2>7, <3>2 DEF PoolAdmit, PoolPC
      <3> QED BY <3>1, <3>2
    <2>8. ASSUME NEW u \in Users, RelayEnds(u) PROVE PoolAccounted'
      BY <2>8 DEF RelayEnds, PoolAccounted, TypeOK
    <2>9. ASSUME NEW p \in Pools,
                 PoolHandshake(p) \/ PoolAck(p) \/ \E c \in Controls : PoolDials(p, c)
          PROVE  PoolAccounted'
      BY <2>2, <2>9 DEF PoolHandshake, PoolAck, PoolDials, PoolPC
    <2>10. ASSUME NEW u \in Users,
                  \/ UserArrives(u) \/ TryFails(u) \/ ReadCtrlOut(u) \/ SendPanics(u)
                  \/ SendNeedConn(u) \/ WaitWakes(u) \/ WaitExpires(u)
           PROVE  PoolAccounted'
      BY <2>3, <2>10 DEF UserArrives, TryFails, ReadCtrlOut, SendPanics,
                         SendNeedConn, WaitWakes, WaitExpires, UserPC
    <2>11. ASSUME NEW c \in Controls,
                  \/ ControlArrives(c) \/ LinkStalls(c) \/ LinkEnds(c)
                  \/ ReadHeartbeat(c) \/ Writer(c)
                  \/ Handler(c) /\ ~DrainOne(c)
           PROVE  PoolAccounted'
      BY <2>1, <2>11
         DEF ControlArrives, LinkStalls, LinkEnds, ReadHeartbeat, Writer,
             WriterSend, WriterFails, WriterSeesClose, Handler, CheckControl,
             AckControl, Publish, SendPong, ReadEnds, Unpublish, DrainDone
    <2>12. CASE UNCHANGED vars
      BY <2>1, <2>12 DEF vars
    <2> QED BY <2>5, <2>6, <2>7, <2>8, <2>9, <2>10, <2>11, <2>12
            DEF Next, Step, PoolHandler, Obtain
  <1> QED BY <1>1, <1>2, TypeCorrect, PTL DEF Spec

-------------------------------------------------------------------------------
(* TunnelServer implements ConnPool.                                       *)

\* No more connections are idle than the queue is long.
LEMMA IdleBound ==
  ASSUME TypeOK, PoolAccounted
  PROVE  /\ Cardinality(Used!Idle) \in Nat
         /\ Cardinality(Used!Idle) <= Len(poolQueue)
  <1>1. poolQueue \in [1..Len(poolQueue) -> Pools] /\ Len(poolQueue) \in Nat
    BY DEF TypeOK
  <1>2. \A p \in Used!Idle : \E i \in 1..Len(poolQueue) : poolQueue[i] = p
    BY DEF Used!Idle, PoolState, PoolAccounted, IsIn
  <1>3. \A i \in 1..Len(poolQueue) : poolQueue[i] \in Used!Idle
    BY <1>1 DEF Used!Idle, PoolState, PoolAccounted, IsIn
  <1>4. poolQueue \in [1..Len(poolQueue) -> Used!Idle]
    BY <1>1, <1>3
  <1>5. poolQueue \in Surjection(1..Len(poolQueue), Used!Idle)
    BY <1>2, <1>4 DEF Surjection
  <1> DEFINE n == Len(poolQueue)
  <1>6. IsFiniteSet(1..n) /\ Cardinality(1..n) = n
    <2> HIDE DEF n
    <2>1. n \in Nat
      BY <1>1 DEF n
    <2>2. IsFiniteSet(1..n) /\ Cardinality(1..n) = IF 1 > n THEN 0 ELSE n - 1 + 1
      BY <2>1, FS_Interval
    <2> QED BY <2>1, <2>2
  <1>7. /\ IsFiniteSet(Used!Idle)
        /\ Cardinality(Used!Idle) <= Cardinality(1..Len(poolQueue))
    BY <1>5, <1>6, FS_Surjection
  <1> QED BY <1>6, <1>7, FS_CardinalityType

\* Each tunnel connection is used once: the server's pool behaves as ConnPool.
THEOREM ImplementsConnPool == Spec => UsedOnce
  <1>1. Init => Used!Init
    BY DEF Init, Used!Init, PoolState
  <1>2. TypeOK /\ PoolAccounted /\ [Next]_vars => [Used!Next]_(Used!vars)
    <2> SUFFICES ASSUME TypeOK, PoolAccounted, [Next]_vars
                 PROVE  [Used!Next]_(Used!vars)
      OBVIOUS
    <2> USE DEF server, ctrl, tcpPool, usr
    <2> DEFINE Outside == {"none", "handshake", "ack", "admit"}
    <2>1. ASSUME UNCHANGED <<pool, carrier>> PROVE UNCHANGED Used!vars
      BY <2>1 DEF Used!vars, PoolState
    <2>2. ASSUME NEW p \in Pools, pool[p] \in Outside, UNCHANGED carrier,
                 NEW place \in Outside, pool' = [pool EXCEPT ![p] = place]
          PROVE  UNCHANGED Used!vars
      BY <2>2 DEF Used!vars, PoolState, TypeOK, PoolPC
    <2>3. ASSUME NEW p \in Pools, pool[p] \in Outside \cup {"idle"}, UNCHANGED carrier,
                 pool' = [pool EXCEPT ![p] = "closed"]
          PROVE  Used!Discard(p)
      BY <2>3 DEF Used!Discard, PoolState, TypeOK, PoolPC
    <2>4. poolQueue # <<>> => /\ Head(poolQueue) \in Pools
                             /\ pool[Head(poolQueue)] = "idle"
      BY TailIn DEF TypeOK, PoolAccounted
    <2>5. ASSUME NEW c \in Controls, DrainOne(c) PROVE Used!Next
      BY <2>3, <2>4, <2>5 DEF DrainOne, Used!Next
    <2>6. ASSUME NEW u \in Users, TakeConn(u) PROVE Used!Next
      <3>1. Used!Claim(u, Head(poolQueue))
        BY <2>4, <2>6 DEF TakeConn, Used!Claim, PoolState, TypeOK, PoolAccounted
      <3> QED BY <2>4, <2>6, <3>1 DEF Used!Next, TakeConn
    <2>7. ASSUME NEW p \in Pools, PoolAdmit(p) PROVE Used!Next
      <3>1. CASE Len(poolQueue) < QueueCap
        <4>1. Cardinality(Used!Idle) < QueueCap
          BY <3>1, IdleBound, CapAssumption DEF TypeOK
        <4>2. PoolState' = [PoolState EXCEPT ![p] = "idle"] /\ PoolState[p] = "outside"
          BY <2>7, <3>1 DEF PoolAdmit, PoolState, TypeOK
        <4>3. Used!Join(p)
          <5>1. UNCHANGED carrier
            BY <2>7 DEF PoolAdmit
          <5>2. Used!Cardinality(Used!Idle) = Cardinality(Used!Idle)
            BY DEF Used!Cardinality, Cardinality
          <5> QED BY <4>1, <4>2, <5>1, <5>2 DEF Used!Join
        <4> QED BY <4>3 DEF Used!Next
      <3>2. CASE ~(Len(poolQueue) < QueueCap)
        BY <2>3, <2>7, <3>2 DEF PoolAdmit, Used!Next
      <3> QED BY <3>1, <3>2
    <2>8. ASSUME NEW u \in Users, RelayEnds(u) PROVE Used!Next
      <3>1. Used!Finish(u)
        BY <2>8, NoneAssumption
           DEF RelayEnds, Used!Finish, PoolState, TypeOK, PoolAccounted
      <3> QED BY <3>1 DEF Used!Next
    <2>9. ASSUME NEW p \in Pools,
                 PoolHandshake(p) \/ PoolAck(p) \/ \E c \in Controls : PoolDials(p, c)
          PROVE  Used!Next \/ UNCHANGED Used!vars
      BY <2>2, <2>3, <2>9 DEF PoolHandshake, PoolAck, PoolDials, Used!Next
    <2>10. ASSUME NEW u \in Users,
                  \/ UserArrives(u) \/ TryFails(u) \/ ReadCtrlOut(u) \/ SendPanics(u)
                  \/ SendNeedConn(u) \/ WaitWakes(u) \/ WaitExpires(u)
           PROVE  UNCHANGED Used!vars
      BY <2>1, <2>10 DEF UserArrives, TryFails, ReadCtrlOut, SendPanics,
                         SendNeedConn, WaitWakes, WaitExpires
    <2>11. ASSUME NEW c \in Controls,
                  \/ ControlArrives(c) \/ LinkStalls(c) \/ LinkEnds(c)
                  \/ ReadHeartbeat(c) \/ Writer(c)
                  \/ Handler(c) /\ ~DrainOne(c)
           PROVE  UNCHANGED Used!vars
      BY <2>1, <2>11
         DEF ControlArrives, LinkStalls, LinkEnds, ReadHeartbeat, Writer,
             WriterSend, WriterFails, WriterSeesClose, Handler, CheckControl,
             AckControl, Publish, SendPong, ReadEnds, Unpublish, DrainDone
    <2>12. CASE UNCHANGED vars
      BY <2>1, <2>12 DEF vars
    <2> QED BY <2>5, <2>6, <2>7, <2>8, <2>9, <2>10, <2>11, <2>12
            DEF Next, Step, PoolHandler, Obtain
  <1> QED BY <1>1, <1>2, TypeCorrect, PoolSafe, PTL DEF Spec, UsedOnce, Used!Spec
===============================================================================
