-------------------------- MODULE DirectDial_proofs --------------------------
(***************************************************************************)
(* Proofs about DirectDial, for any number of connections and users, all   *)
(* limits, any number of faults, and whether or not the backoff is Prompt, *)
(* but for OneGeneration, which needs it to be.                            *)
(***************************************************************************)
EXTENDS DirectDial, FiniteSetTheorems, SequenceTheorems, TLAPS

\* A connection is idle exactly while it is queued, once, or in the list of
\* sessions; a mode has one of the two.
Queued ==
  /\ mode = "tcp" => sessions = {}
  /\ mode = "tcpmux" => poolQueue = <<>>
  /\ \A p \in sessions : pool[p] = "idle"
  /\ \A i \in 1..Len(poolQueue) : pool[poolQueue[i]] = "idle"
  /\ \A i, j \in 1..Len(poolQueue) : i # j => poolQueue[i] # poolQueue[j]
  /\ \A p \in Pools :
       pool[p] = "idle" => p \in sessions \/ \E i \in 1..Len(poolQueue) : poolQueue[i] = p

\* A relay has a carrier, in mode tcp one in use, to itself, and no connection is
\* in use without a relay.
Owned ==
  /\ \A u \in Users : user[u] = "relay" <=> carrier[u] # None
  /\ mode = "tcp" =>
       /\ \A u \in Users : user[u] = "relay" => pool[carrier[u]] = "used"
       /\ \A u, v \in Users : user[u] = "relay" /\ user[v] = "relay" /\ carrier[u] = carrier[v] => u = v
       /\ \A p \in Pools : pool[p] = "used" => \E u \in Users : carrier[u] = p

IInv == TypeOK /\ Queued /\ Owned

LEMMA HeadTail ==
  ASSUME NEW S, NEW s \in Seq(S), s # <<>>
  PROVE  /\ Len(s) \in Nat /\ Len(s) >= 1 /\ 1 \in 1..Len(s) /\ Head(s) = s[1] /\ s[1] \in S
         /\ Tail(s) \in Seq(S) /\ Len(Tail(s)) = Len(s) - 1
         /\ \A i \in 1..Len(Tail(s)) : Tail(s)[i] = s[i + 1] /\ i + 1 \in 1..Len(s)
OBVIOUS

-------------------------------------------------------------------------------
(* The types.                                                              *)

LEMMA TypeInit == Init => TypeOK
BY NoneAssumption, FaultsAssumption DEF Init, TypeOK, PoolPC, HandlerPC

LEMMA TypeStep == TypeOK /\ [Next]_vars => TypeOK'
<1> SUFFICES ASSUME TypeOK, [Next]_vars PROVE TypeOK'
  OBVIOUS
<1> USE FaultsAssumption, NoneAssumption
    DEF TypeOK, PoolPC, HandlerPC, env, dialing, carriers, users, listener, Become, Move, Fault
<1>1. ASSUME NEW n, NEW c \in Conns \cup {None}, Spawn(n, c), UNCHANGED <<env, poolQueue, sessions, users, listener>>,
             conn' = conn, dialer' = dialer \/ (dialer = "handshake" /\ dialer' = "up")
      PROVE TypeOK'
  <2>1. PICK S \in SUBSET Free :
          /\ pool' = [p \in Pools |-> IF p \in S THEN "dial" ELSE pool[p]]
          /\ gen' = [p \in Pools |-> IF p \in S THEN c ELSE gen[p]]
          /\ dead' = dead \ S
    BY <1>1 DEF Spawn
  <2>2. pool' \in [Pools -> PoolPC] /\ gen' \in [Pools -> Conns \cup {None}] /\ dead' \subseteq Pools
    BY <2>1
  <2>3. QED
    BY <1>1, <2>2
<1>2. CASE Dial \/ DialFails \/ NotAcked \/ ControlEnds \/ DrainDone \/ Wait
  BY <1>2 DEF Dial, DialFails, NotAcked, ControlEnds, DrainDone, Wait, Standing
<1>3. CASE Acked
  BY <1>1, <1>3 DEF Acked
<1>4. CASE Tick
  BY <1>1, <1>4 DEF Tick
<1>5. CASE DrainOne
  <2>1. CASE poolQueue # <<>> /\ Drop({Head(poolQueue)}) /\ poolQueue' = Tail(poolQueue) /\ UNCHANGED sessions
    <3>1. Head(poolQueue) \in Pools /\ Tail(poolQueue) \in Seq(Pools)
      BY <2>1, HeadTail
    <3>2. QED
      BY <1>5, <2>1, <3>1 DEF DrainOne, Drop
  <2>2. CASE Drop(sessions) /\ sessions' = {} /\ UNCHANGED poolQueue
    BY <1>5, <2>2 DEF DrainOne, Drop
  <2>3. QED
    BY <1>5, <2>1, <2>2 DEF DrainOne
<1>6. ASSUME NEW p \in Pools, HandshakePool(p) \/ CancelPool(p) \/ CarrierDies(p) PROVE TypeOK'
  BY <1>6 DEF HandshakePool, CancelPool, CarrierDies
<1>7. ASSUME NEW p \in Pools, AdmitPool(p) PROVE TypeOK'
  BY <1>7 DEF AdmitPool
<1>8. ASSUME NEW u \in Users, UserArrives(u) \/ GiveUp(u) \/ RelayEnds(u) PROVE TypeOK'
  BY <1>8 DEF UserArrives, GiveUp, RelayEnds
<1>9. ASSUME NEW u \in Users, TakeConn(u) PROVE TypeOK'
  <2>1. Head(poolQueue) \in Pools /\ Tail(poolQueue) \in Seq(Pools)
    BY <1>9, HeadTail DEF TakeConn
  <2>2. QED
    BY <1>9, <2>1 DEF TakeConn
<1>10. ASSUME NEW u \in Users, PickSession(u) PROVE TypeOK'
  <2>1. sessions' \subseteq Pools /\ pool' \in [Pools -> PoolPC]
    BY <1>10 DEF PickSession
  <2>2. UNCHANGED users \/ \E p \in Pools : /\ user' = [user EXCEPT ![u] = "relay"]
                                            /\ carrier' = [carrier EXCEPT ![u] = p]
    BY <1>10 DEF PickSession, HasRoom
  <2>3. QED
    BY <1>10, <2>1, <2>2 DEF PickSession
<1>11. ASSUME NEW c \in Conns, Handler(c) PROVE TypeOK'
  BY <1>11 DEF Handler, Check, Ack, Publish, ReadEnds
<1>12. ASSUME NEW c \in Conns, LinkBreaks(c) PROVE TypeOK'
  BY <1>12 DEF LinkBreaks
<1>13. CASE ListenerCrashes \/ DialerCrashes
  <2>1. CASE ListenerCrashes
    BY <2>1 DEF ListenerCrashes
  <2>2. CASE DialerCrashes
    <3>1. poolQueue' = <<>> /\ <<>> \in Seq(Pools)
      BY <2>2 DEF DialerCrashes
    <3>2. broken' \subseteq Conns
      BY <2>2 DEF DialerCrashes
    <3>3. mode' = mode /\ faults' \in 0..MaxFaults
      BY <2>2 DEF DialerCrashes
    <3>4. QED
      BY <2>2, <3>1, <3>2, <3>3 DEF DialerCrashes
  <2>3. QED
    BY <1>13, <2>1, <2>2
<1>14. CASE UNCHANGED vars
  BY <1>14 DEF vars
<1>15. QED
  BY <1>2, <1>3, <1>4, <1>5, <1>6, <1>7, <1>8, <1>9, <1>10, <1>11, <1>12, <1>13, <1>14
     DEF Next, Dialer, PoolSpawn, Take

-------------------------------------------------------------------------------
(* How the pool and the users may change.                                  *)

\* The head leaves the queue, for a place that is not idle.
LEMMA QueueShrinks ==
  ASSUME TypeOK, Queued, mode' = mode, sessions' = sessions, poolQueue # <<>>,
         poolQueue' = Tail(poolQueue), pool'[Head(poolQueue)] # "idle",
         \A p \in Pools : p # Head(poolQueue) => pool'[p] = pool[p]
  PROVE  Queued'
<1> DEFINE n == Len(poolQueue)
           m == Len(Tail(poolQueue))
<1>1. /\ n \in Nat /\ m = n - 1 /\ 1 \in 1..n /\ Head(poolQueue) = poolQueue[1]
      /\ \A i \in 1..n : poolQueue[i] \in Pools
      /\ \A i \in 1..m : poolQueue'[i] = poolQueue[i + 1] /\ i + 1 \in 1..n
  BY HeadTail DEF TypeOK
<1>2. mode # "tcpmux"
  BY DEF Queued
<1>3. \A i \in 1..m : i + 1 # 1
  OBVIOUS
<1>4. \A i \in 1..m : pool'[poolQueue'[i]] = "idle"
  BY <1>1, <1>3 DEF Queued
<1>5. \A i, j \in 1..m : i # j => poolQueue'[i] # poolQueue'[j]
  <2>1. \A i, j \in 1..m : i # j => i + 1 # j + 1
    OBVIOUS
  <2>2. QED
    BY <1>1, <2>1 DEF Queued
<1>6. \A p \in sessions : pool'[p] = "idle"
  <2>1. \A p \in sessions : p # Head(poolQueue)
    <3>1. mode = "tcp"
      BY <1>2, ModesAssumption DEF TypeOK
    <3>2. QED
      BY <3>1 DEF Queued
  <2>2. QED
    BY <2>1 DEF Queued, TypeOK
<1>7. ASSUME NEW p \in Pools, pool'[p] = "idle"
      PROVE  p \in sessions' \/ \E i \in 1..m : poolQueue'[i] = p
  <2>1. p # Head(poolQueue) /\ pool[p] = "idle"
    BY <1>7
  <2>2. CASE \E i \in 1..n : poolQueue[i] = p
    <3>1. PICK i \in 1..n : poolQueue[i] = p
      BY <2>2
    <3>2. i - 1 \in 1..m /\ (i - 1) + 1 = i
      BY <1>1, <2>1, <3>1
    <3>3. QED
      BY <1>1, <3>1, <3>2
  <2>3. QED
    BY <2>1, <2>2 DEF Queued
<1>8. QED
  BY <1>2, <1>4, <1>5, <1>6, <1>7 DEF Queued

\* A connection joins the queue.
LEMMA QueueGrows ==
  ASSUME TypeOK, Queued, mode = "tcp", mode' = mode, sessions' = sessions,
         NEW p \in Pools, pool[p] # "idle", pool' = [pool EXCEPT ![p] = "idle"],
         poolQueue' = Append(poolQueue, p)
  PROVE  Queued'
<1> DEFINE n == Len(poolQueue)
<1>1. /\ n \in Nat /\ Len(poolQueue') = n + 1 /\ poolQueue'[n + 1] = p
      /\ \A i \in 1..n : poolQueue'[i] = poolQueue[i] /\ poolQueue[i] \in Pools
  BY DEF TypeOK
<1>2. \A i \in 1..n : pool[poolQueue[i]] = "idle" /\ poolQueue[i] # p
  BY DEF Queued
<1>3. pool'[p] = "idle" /\ \A q \in Pools : q # p => pool'[q] = pool[q]
  BY DEF TypeOK
<1>4. \A i \in 1..(n + 1) : i \in 1..n \/ i = n + 1
  BY <1>1
<1>5. \A i \in 1..(n + 1) : pool'[poolQueue'[i]] = "idle"
  BY <1>1, <1>2, <1>3, <1>4
<1>6. \A i, j \in 1..n : i # j => poolQueue[i] # poolQueue[j]
  BY DEF Queued
<1>7. \A i, j \in 1..(n + 1) : i # j => poolQueue'[i] # poolQueue'[j]
  BY <1>1, <1>2, <1>4, <1>6
<1>8. \A i \in 1..n : i \in 1..(n + 1)
  BY <1>1
<1>9. n + 1 \in 1..(n + 1)
  BY <1>1
<1>10. ASSUME NEW q \in Pools, pool'[q] = "idle"
       PROVE  \E i \in 1..(n + 1) : poolQueue'[i] = q
  <2>1. CASE q = p
    BY <1>1, <1>9, <2>1
  <2>2. CASE q # p
    <3>1. \E i \in 1..n : poolQueue[i] = q
      BY <1>3, <1>10, <2>2 DEF Queued
    <3>2. QED
      BY <1>1, <1>8, <3>1
  <2>3. QED
    BY <2>1, <2>2
<1>11. sessions' = {}
  BY DEF Queued
<1>12. QED
  BY <1>1, <1>5, <1>7, <1>10, <1>11 DEF Queued

\* What is idle stays so, and nothing joins it.
LEMMA QueueKept ==
  ASSUME TypeOK, Queued, mode' = mode, poolQueue' = poolQueue, sessions' = sessions,
         \A p \in Pools : pool'[p] = "idle" <=> pool[p] = "idle"
  PROVE  Queued'
<1>1. sessions \subseteq Pools /\ \A i \in 1..Len(poolQueue) : poolQueue[i] \in Pools
  BY DEF TypeOK
<1>2. QED
  BY <1>1 DEF Queued

\* In mode tcpmux the idle connections are the sessions.
LEMMA SessionsChange ==
  ASSUME TypeOK, Queued, mode = "tcpmux", mode' = mode, poolQueue' = poolQueue,
         sessions' \subseteq Pools, \A p \in Pools : pool'[p] = "idle" <=> p \in sessions'
  PROVE  Queued'
<1>1. poolQueue' = <<>> /\ Len(poolQueue') = 0
  BY DEF Queued
<1>2. QED
  BY <1>1 DEF Queued

\* No carrier comes into use or goes out of it.
LEMMA OwnedKept ==
  ASSUME TypeOK, Owned, mode' = mode, carrier' = carrier,
         \A u \in Users : user'[u] = "relay" <=> user[u] = "relay",
         \A p \in Pools : pool'[p] = "used" <=> pool[p] = "used"
  PROVE  Owned'
<1>1. \A u \in Users : user[u] = "relay" => carrier[u] \in Pools
  BY DEF Owned, TypeOK
<1>2. QED
  BY <1>1 DEF Owned

-------------------------------------------------------------------------------
(* The steps, one by one.                                                  *)

LEMMA DialerStep == IInv /\ (Dialer \/ DialFails \/ Tick) => (Queued /\ Owned)'
<1> SUFFICES ASSUME IInv, Dialer \/ DialFails \/ Tick PROVE (Queued /\ Owned)'
  OBVIOUS
<1>0. TypeOK /\ Queued /\ Owned
  BY DEF IInv
<1> USE DEF env, users, carriers, listener, dialing
<1>1. ASSUME UNCHANGED <<mode, pool, poolQueue, sessions, user, carrier>> PROVE (Queued /\ Owned)'
  BY <1>0, <1>1, QueueKept, OwnedKept
<1>2. ASSUME NEW n, NEW c, Spawn(n, c), UNCHANGED <<env, poolQueue, sessions, users>>
      PROVE (Queued /\ Owned)'
  <2>1. PICK S \in SUBSET Free : pool' = [p \in Pools |-> IF p \in S THEN "dial" ELSE pool[p]]
    BY <1>2 DEF Spawn
  <2>2. \A p \in S : pool[p] = "none"
    BY DEF Free
  <2>3. \A p \in Pools : pool'[p] = pool[p] \/ (pool[p] = "none" /\ pool'[p] = "dial")
    BY <2>1, <2>2
  <2>4. QED
    BY <1>0, <1>2, <2>3, QueueKept, OwnedKept
<1>3. CASE Acked
  <2>1. Spawn(MinIdle, conn) /\ UNCHANGED <<env, poolQueue, sessions, users>>
    BY <1>3 DEF Acked
  <2>2. QED
    BY <1>2, <2>1
<1>4. CASE Tick
  <2>1. Spawn(MinIdle - poolCount, conn) /\ UNCHANGED <<env, poolQueue, sessions, users>>
    BY <1>4 DEF Tick
  <2>2. QED
    BY <1>2, <2>1
<1>5. CASE Dial \/ NotAcked \/ ControlEnds \/ DrainDone \/ Wait \/ DialFails
  <2>1. UNCHANGED <<mode, pool, poolQueue, sessions, user, carrier>>
    BY <1>5 DEF Dial, NotAcked, ControlEnds, DrainDone, Wait, DialFails, Fault
  <2>2. QED
    BY <1>1, <2>1
<1>6. CASE DrainOne
  <2>1. mode' = mode /\ user' = user /\ carrier' = carrier
    BY <1>6 DEF DrainOne
  <2>2. CASE poolQueue # <<>> /\ Drop({Head(poolQueue)}) /\ poolQueue' = Tail(poolQueue) /\ UNCHANGED sessions
    <3>1. pool' = [p \in Pools |-> IF p = Head(poolQueue) THEN "none" ELSE pool[p]]
      BY <2>2 DEF Drop
    <3>2. Head(poolQueue) \in Pools /\ pool[Head(poolQueue)] = "idle"
      BY <1>0, <2>2, HeadTail DEF TypeOK, Queued
    <3>3. Queued'
      BY <1>0, <2>1, <2>2, <3>1, <3>2, QueueShrinks
    <3>4. \A p \in Pools : pool'[p] = "used" <=> pool[p] = "used"
      BY <3>1, <3>2
    <3>5. QED
      BY <1>0, <2>1, <3>3, <3>4, OwnedKept
  <2>3. CASE sessions # {} /\ Drop(sessions) /\ sessions' = {} /\ UNCHANGED poolQueue
    <3>1. \A p \in Pools : pool'[p] = IF p \in sessions THEN "none" ELSE pool[p]
      BY <2>3 DEF Drop
    <3>2. mode = "tcpmux" /\ poolQueue = <<>> /\ Len(poolQueue) = 0
      BY <1>0, <2>3, ModesAssumption DEF Queued, TypeOK
    <3>3. \A p \in Pools : pool'[p] = "idle" <=> p \in sessions'
      BY <1>0, <2>3, <3>1, <3>2 DEF Queued
    <3>4. Queued'
      BY <1>0, <2>1, <2>3, <3>2, <3>3, SessionsChange
    <3>5. \A p \in Pools : pool'[p] = "used" <=> pool[p] = "used"
      BY <1>0, <3>1 DEF Queued
    <3>6. QED
      BY <1>0, <2>1, <3>4, <3>5, OwnedKept
  <2>4. QED
    BY <1>6, <2>2, <2>3 DEF DrainOne
<1>7. QED
  BY <1>3, <1>4, <1>5, <1>6 DEF Dialer

LEMMA PoolStep ==
  ASSUME IInv, NEW p \in Pools, PoolSpawn(p) \/ CancelPool(p) \/ CarrierDies(p)
  PROVE  (Queued /\ Owned)'
<1>0. TypeOK /\ Queued /\ Owned
  BY DEF IInv
<1> USE DEF env, users, listener, dialing, Become
<1>1. ASSUME NEW pc \in {"none", "acked"}, pool[p] \notin {"idle", "used"}, Become(p, pc),
             UNCHANGED <<mode, poolQueue, sessions, users>>
      PROVE (Queued /\ Owned)'
  <2>1. \A q \in Pools : /\ pool'[q] = "idle" <=> pool[q] = "idle"
                         /\ pool'[q] = "used" <=> pool[q] = "used"
    BY <1>0, <1>1 DEF TypeOK
  <2>2. QED
    BY <1>0, <1>1, <2>1, QueueKept, OwnedKept
<1>2. CASE HandshakePool(p)
  BY <1>1, <1>2 DEF HandshakePool
<1>3. CASE CancelPool(p)
  BY <1>1, <1>3 DEF CancelPool
<1>4. CASE CarrierDies(p)
  <2>1. CASE pool[p] = "dial" /\ Become(p, "none")
    BY <1>1, <1>4, <2>1 DEF CarrierDies, Fault
  <2>2. CASE UNCHANGED pool
    BY <1>0, <1>4, <2>2, QueueKept, OwnedKept DEF CarrierDies, Fault
  <2>3. QED
    BY <1>4, <2>1, <2>2 DEF CarrierDies
<1>5. CASE AdmitPool(p)
  <2>0. pool[p] = "acked" /\ mode' = mode /\ user' = user /\ carrier' = carrier
    BY <1>5 DEF AdmitPool
  <2>1. CASE Become(p, "none") /\ UNCHANGED <<poolQueue, sessions>>
    BY <1>1, <2>0, <2>1
  <2>2. ASSUME Become(p, "idle") PROVE Owned'
    <3>1. \A q \in Pools : pool'[q] = "used" <=> pool[q] = "used"
      BY <1>0, <2>0, <2>2 DEF TypeOK
    <3>2. QED
      BY <1>0, <2>0, <3>1, OwnedKept
  <2>3. CASE /\ mode = "tcp" /\ Become(p, "idle")
             /\ poolQueue' = Append(poolQueue, p) /\ UNCHANGED sessions
    <3>1. Queued'
      BY <1>0, <2>0, <2>3, QueueGrows
    <3>2. QED
      BY <2>2, <2>3, <3>1
  <2>4. CASE /\ mode = "tcpmux" /\ Become(p, "idle")
             /\ sessions' = sessions \cup {p} /\ UNCHANGED poolQueue
    <3>1. poolQueue = <<>> /\ Len(poolQueue) = 0
      BY <1>0, <2>4 DEF Queued
    <3>2. \A q \in Pools : pool'[q] = "idle" <=> q \in sessions'
      BY <1>0, <2>4, <3>1 DEF Queued, TypeOK
    <3>3. sessions' \subseteq Pools
      BY <1>0, <2>4 DEF TypeOK
    <3>4. Queued'
      BY <1>0, <2>0, <2>4, <3>2, <3>3, SessionsChange
    <3>5. QED
      BY <2>2, <2>4, <3>4
  <2>5. QED
    BY <1>5, <2>1, <2>3, <2>4 DEF AdmitPool
<1>6. QED
  BY <1>2, <1>3, <1>4, <1>5 DEF PoolSpawn

LEMMA TakeStep == ASSUME IInv, NEW u \in Users, TakeConn(u) PROVE (Queued /\ Owned)'
<1> DEFINE p == Head(poolQueue)
<1>0. TypeOK /\ Queued /\ Owned
  BY DEF IInv
<1>1. /\ mode = "tcp" /\ mode' = mode /\ poolQueue # <<>> /\ poolQueue' = Tail(poolQueue)
      /\ sessions' = sessions /\ user[u] = "wait"
  BY DEF TakeConn, env
<1>2. p \in Pools /\ pool[p] = "idle"
  BY <1>0, <1>1, HeadTail DEF TypeOK, Queued
<1>3. CASE p \in dead
  <2>1. Become(p, "none") /\ user' = [user EXCEPT ![u] = "none"] /\ carrier' = carrier
    BY <1>3 DEF TakeConn
  <2> HIDE DEF p
  <2>2. pool'[p] = "none" /\ \A q \in Pools : q # p => pool'[q] = pool[q]
    BY <1>0, <1>2, <2>1 DEF TypeOK, Become
  <2>3. Queued'
    BY <1>0, <1>1, <2>2, QueueShrinks DEF p
  <2>4. \A v \in Users : user'[v] = "relay" <=> user[v] = "relay"
    BY <1>0, <1>1, <2>1 DEF TypeOK
  <2>5. \A q \in Pools : pool'[q] = "used" <=> pool[q] = "used"
    BY <1>2, <2>2
  <2>6. QED
    BY <1>0, <1>1, <2>1, <2>3, <2>4, <2>5, OwnedKept
<1>4. CASE p \notin dead
  <2>1. /\ Become(p, "used") /\ user' = [user EXCEPT ![u] = "relay"]
        /\ carrier' = [carrier EXCEPT ![u] = p]
    BY <1>4 DEF TakeConn
  <2> HIDE DEF p
  <2>2. pool'[p] = "used" /\ \A q \in Pools : q # p => pool'[q] = pool[q]
    BY <1>0, <1>2, <2>1 DEF TypeOK, Become
  <2>3. Queued'
    BY <1>0, <1>1, <2>2, QueueShrinks DEF p
  <2>4. /\ user'[u] = "relay" /\ carrier'[u] = p
        /\ \A v \in Users : v # u => user'[v] = user[v] /\ carrier'[v] = carrier[v]
    BY <1>0, <2>1 DEF TypeOK
  <2>5. \A v \in Users : user[v] = "relay" =>
          carrier[v] \in Pools /\ pool[carrier[v]] = "used" /\ carrier[v] # p
    BY <1>0, <1>1, <1>2 DEF Owned, TypeOK
  <2>6. p # None
    BY <1>2, NoneAssumption
  <2>7. \A v \in Users : user'[v] = "relay" <=> carrier'[v] # None
    BY <1>0, <2>4, <2>6 DEF Owned
  <2>8. \A v \in Users : user'[v] = "relay" => pool'[carrier'[v]] = "used"
    BY <2>2, <2>4, <2>5
  <2>9. \A v, w \in Users :
          user'[v] = "relay" /\ user'[w] = "relay" /\ carrier'[v] = carrier'[w] => v = w
    BY <1>0, <1>1, <2>4, <2>5 DEF Owned
  <2>10. \A q \in Pools : pool'[q] = "used" => \E v \in Users : carrier'[v] = q
    <3>1. ASSUME NEW q \in Pools, pool'[q] = "used", q # p PROVE \E v \in Users : carrier'[v] = q
      <4>1. PICK v \in Users : carrier[v] = q
        BY <1>0, <1>1, <2>2, <3>1 DEF Owned
      <4>2. v # u
        BY <1>0, <1>1, <3>1, <4>1, NoneAssumption DEF Owned
      <4>3. QED
        BY <2>4, <4>1, <4>2
    <3>2. QED
      BY <2>4, <3>1
  <2>11. QED
    BY <2>3, <2>7, <2>8, <2>9, <2>10 DEF Owned
<1>5. QED
  BY <1>3, <1>4

LEMMA PickStep == ASSUME IInv, NEW u \in Users, PickSession(u) PROVE (Queued /\ Owned)'
<1>0. TypeOK /\ Queued /\ Owned
  BY DEF IInv
<1>1. /\ mode = "tcpmux" /\ mode' = mode /\ poolQueue' = poolQueue /\ user[u] = "wait"
      /\ sessions' = sessions \ dead
      /\ pool' = [p \in Pools |-> IF p \in sessions \cap dead THEN "none" ELSE pool[p]]
  BY DEF PickSession, env
<1>2. poolQueue = <<>> /\ Len(poolQueue) = 0
  BY <1>0, <1>1 DEF Queued
<1>3. \A p \in Pools : pool'[p] = "idle" <=> p \in sessions'
  BY <1>0, <1>1, <1>2 DEF Queued
<1>4. Queued'
  BY <1>0, <1>1, <1>3, SessionsChange DEF TypeOK
<1>5. UNCHANGED users \/ \E p \in Pools : /\ user' = [user EXCEPT ![u] = "relay"]
                                          /\ carrier' = [carrier EXCEPT ![u] = p]
  BY <1>0 DEF PickSession, HasRoom, TypeOK
<1>6. \A v \in Users : user'[v] = "relay" <=> carrier'[v] # None
  BY <1>0, <1>5, NoneAssumption DEF Owned, TypeOK, users
<1>7. QED
  BY <1>1, <1>4, <1>6 DEF Owned

LEMMA ReturnStep == ASSUME IInv, NEW u \in Users, RelayEnds(u) PROVE (Queued /\ Owned)'
<1>0. TypeOK /\ Queued /\ Owned
  BY DEF IInv
<1>1. /\ user' = [user EXCEPT ![u] = "none"] /\ carrier' = [carrier EXCEPT ![u] = None]
      /\ mode' = mode /\ poolQueue' = poolQueue /\ sessions' = sessions /\ user[u] = "relay"
  BY DEF RelayEnds, env
<1>2. /\ user'[u] = "none" /\ carrier'[u] = None
      /\ \A v \in Users : v # u => user'[v] = user[v] /\ carrier'[v] = carrier[v]
  BY <1>0, <1>1 DEF TypeOK
<1>3. \A v \in Users : user'[v] = "relay" <=> carrier'[v] # None
  BY <1>0, <1>2 DEF Owned
<1>4. CASE mode # "tcp"
  <2>1. pool' = pool
    BY <1>4 DEF RelayEnds
  <2>2. Queued'
    BY <1>0, <1>1, <2>1, QueueKept
  <2>3. QED
    BY <1>1, <1>3, <1>4, <2>2 DEF Owned
<1>5. CASE mode = "tcp"
  <2>1. Become(carrier[u], "none")
    BY <1>5 DEF RelayEnds
  <2>2. carrier[u] \in Pools /\ pool[carrier[u]] = "used"
    BY <1>0, <1>1, <1>5 DEF Owned, TypeOK
  <2>3. /\ pool'[carrier[u]] = "none"
        /\ \A q \in Pools : q # carrier[u] => pool'[q] = pool[q]
    BY <1>0, <2>1, <2>2 DEF TypeOK, Become
  <2>4. Queued'
    BY <1>0, <1>1, <2>2, <2>3, QueueKept
  <2>5. \A v \in Users : user'[v] = "relay" =>
          /\ v # u /\ user[v] = "relay" /\ carrier'[v] = carrier[v]
          /\ carrier[v] \in Pools /\ carrier[v] # carrier[u]
    BY <1>0, <1>1, <1>2, <1>5 DEF Owned, TypeOK
  <2>6. \A v \in Users : user'[v] = "relay" => pool'[carrier'[v]] = "used"
    BY <1>0, <1>5, <2>3, <2>5 DEF Owned
  <2>7. \A v, w \in Users :
          user'[v] = "relay" /\ user'[w] = "relay" /\ carrier'[v] = carrier'[w] => v = w
    BY <1>0, <1>5, <2>5 DEF Owned
  <2>8. ASSUME NEW q \in Pools, pool'[q] = "used" PROVE \E v \in Users : carrier'[v] = q
    <3>1. q # carrier[u] /\ pool[q] = "used"
      BY <2>3, <2>8
    <3>2. PICK v \in Users : carrier[v] = q
      BY <1>0, <1>5, <3>1 DEF Owned
    <3>3. QED
      BY <1>2, <3>1, <3>2
  <2>9. QED
    BY <1>3, <2>4, <2>6, <2>7, <2>8 DEF Owned
<1>6. QED
  BY <1>4, <1>5

LEMMA IInvStep == IInv /\ [Next]_vars => IInv'
<1> SUFFICES ASSUME IInv, [Next]_vars PROVE (Queued /\ Owned)'
  BY TypeStep DEF IInv
<1>0. TypeOK /\ Queued /\ Owned
  BY DEF IInv
<1>1. ASSUME UNCHANGED <<mode, pool, poolQueue, sessions, user, carrier>> PROVE (Queued /\ Owned)'
  BY <1>0, <1>1, QueueKept, OwnedKept
<1>2. ASSUME NEW c \in Conns, Handler(c) \/ LinkBreaks(c) PROVE (Queued /\ Owned)'
  BY <1>1, <1>2 DEF Handler, Check, Ack, Publish, ReadEnds, LinkBreaks, Fault, env, carriers, users
<1>3. CASE ListenerCrashes \/ UNCHANGED vars
  BY <1>1, <1>3 DEF ListenerCrashes, Fault, vars, env, carriers, users
<1>4. CASE DialerCrashes
  <2>1. /\ poolQueue' = <<>> /\ sessions' = {} /\ pool' = [p \in Pools |-> "none"]
        /\ user' = [u \in Users |-> "none"] /\ carrier' = [u \in Users |-> None]
    BY <1>4 DEF DialerCrashes
  <2>2. Queued'
    BY <2>1 DEF Queued
  <2>3. Owned'
    BY <2>1 DEF Owned
  <2>4. QED
    BY <2>2, <2>3
<1>5. ASSUME NEW u \in Users, UserArrives(u) \/ GiveUp(u) PROVE (Queued /\ Owned)'
  <2>1. \A v \in Users : user'[v] = "relay" <=> user[v] = "relay"
    BY <1>0, <1>5 DEF TypeOK, UserArrives, GiveUp
  <2>2. UNCHANGED <<mode, pool, poolQueue, sessions, carrier>>
    BY <1>5 DEF UserArrives, GiveUp, env, carriers
  <2>3. QED
    BY <1>0, <2>1, <2>2, QueueKept, OwnedKept
<1>6. QED
  BY <1>2, <1>3, <1>4, <1>5, DialerStep, PoolStep, TakeStep, PickStep, ReturnStep DEF Next, Take

LEMMA IInvInit == Init => IInv
<1> SUFFICES ASSUME Init PROVE IInv
  OBVIOUS
<1>1. Len(poolQueue) = 0
  BY DEF Init
<1>2. Queued /\ Owned
  BY <1>1 DEF Init, Queued, Owned
<1>3. QED
  BY <1>2, TypeInit DEF IInv

-------------------------------------------------------------------------------
(* The theorems.                                                           *)

\* The pool and the users account for every carrier, at any number of them: the
\* queue and the list of sessions are exactly what is idle (Queued), and what is
\* in use in mode tcp is one user's (Owned).
THEOREM CarriersSafe == Spec => []CarriersAccounted
<1>1. IInv => CarriersAccounted
  <2> SUFFICES ASSUME IInv PROVE CarriersAccounted
    OBVIOUS
  <2>0. TypeOK /\ Queued /\ Owned
    BY DEF IInv
  <2> DEFINE n == Len(poolQueue)
  <2>1. n \in Nat /\ DOMAIN poolQueue = 1..n /\ \A i \in 1..n : poolQueue[i] \in Pools
    BY <2>0 DEF TypeOK
  <2>2. CASE mode = "tcp"
    <3>1. {p \in Pools : pool[p] = "idle"} = ToSet(poolQueue)
      BY <2>0, <2>1, <2>2 DEF Queued, ToSet
    <3>2. ASSUME NEW p \in Pools PROVE Streams(p) = IF pool[p] = "used" THEN 1 ELSE 0
      <4> DEFINE S == {u \in Users : carrier[u] = p}
      <4>1. p # None
        BY NoneAssumption
      <4>2. \A u \in S : user[u] = "relay" /\ pool[p] = "used"
        BY <2>0, <2>2, <4>1 DEF Owned
      <4>3. CASE pool[p] = "used"
        <5>1. PICK u \in Users : carrier[u] = p
          BY <2>0, <2>2, <4>3 DEF Owned
        <5>2. \A v \in S : v = u
          BY <2>0, <2>2, <4>2, <5>1 DEF Owned
        <5>3. S = {u}
          BY <5>1, <5>2
        <5>4. QED
          BY <4>3, <5>3, FS_Singleton DEF Streams
      <4>4. CASE pool[p] # "used"
        <5>1. S = {}
          BY <4>2, <4>4
        <5>2. QED
          BY <4>4, <5>1, FS_EmptySet DEF Streams
      <4>5. QED
        BY <4>3, <4>4
    <3>3. IsInjective(poolQueue)
      BY <2>0, <2>1 DEF Queued, IsInjective
    <3>4. QED
      BY <2>0, <2>2, <3>1, <3>2, <3>3 DEF CarriersAccounted, Owned
  <2>3. CASE mode = "tcpmux"
    <3>1. poolQueue = <<>> /\ n = 0
      BY <2>0, <2>3 DEF Queued
    <3>2. {p \in Pools : pool[p] = "idle"} = sessions
      BY <2>0, <3>1 DEF Queued, TypeOK
    <3>3. IsInjective(poolQueue)
      BY <2>1, <3>1 DEF IsInjective
    <3>4. QED
      BY <2>0, <2>3, <3>2, <3>3 DEF CarriersAccounted, Owned
  <2>4. QED
    BY <2>0, <2>2, <2>3, ModesAssumption DEF TypeOK
<1>2. QED
  BY <1>1, IInvInit, IInvStep, PTL DEF Spec

Kept == \A p \in Pools :
          Standing /\ Standing' /\ pool[p] = "idle" /\ pool'[p] = "none" /\ gen[p] = conn
            => p \in dead

LEMMA KeptStep == IInv /\ [Next]_vars => Kept
<1> SUFFICES ASSUME IInv, [Next]_vars, NEW q \in Pools, Standing, Standing',
                    pool[q] = "idle", pool'[q] = "none", q \notin dead
             PROVE  FALSE
  BY DEF Kept
<1>0. TypeOK /\ Queued /\ Owned
  BY DEF IInv
<1> USE DEF Become
<1>1. ASSUME UNCHANGED pool PROVE FALSE
  BY <1>1
<1>2. ASSUME NEW n, NEW c, Spawn(n, c) PROVE FALSE
  BY <1>2 DEF Spawn
<1>3. CASE Acked \/ Tick
  BY <1>2, <1>3 DEF Acked, Tick
<1>4. CASE Dial \/ NotAcked \/ ControlEnds \/ DrainDone \/ Wait \/ DialFails
  BY <1>1, <1>4 DEF Dial, NotAcked, ControlEnds, DrainDone, Wait, DialFails, carriers
<1>5. CASE DrainOne \/ DialerCrashes
  BY <1>5 DEF DrainOne, DialerCrashes, Standing
<1>6. ASSUME NEW p \in Pools, PoolSpawn(p) \/ CancelPool(p) \/ CarrierDies(p) PROVE FALSE
  <2>1. pool'[q] = pool[q] \/ (p = q /\ pool[p] \in {"dial", "acked"})
    BY <1>0, <1>6 DEF TypeOK, PoolSpawn, HandshakePool, AdmitPool, CancelPool, CarrierDies
  <2>2. QED
    BY <2>1
<1>7. ASSUME NEW u \in Users, TakeConn(u) PROVE FALSE
  <2> DEFINE p == Head(poolQueue)
  <2>1. p \in Pools
    BY <1>0, <1>7, HeadTail DEF TakeConn, TypeOK
  <2>2. \/ Become(p, "none") /\ p \in dead
        \/ Become(p, "used")
    BY <1>7 DEF TakeConn
  <2> HIDE DEF p
  <2>3. QED
    BY <1>0, <2>1, <2>2 DEF TypeOK
<1>8. ASSUME NEW u \in Users, PickSession(u) PROVE FALSE
  BY <1>8 DEF PickSession
<1>9. ASSUME NEW u \in Users, RelayEnds(u) PROVE FALSE
  <2>1. CASE mode = "tcp"
    <3>1. Become(carrier[u], "none") /\ user[u] = "relay"
      BY <1>9, <2>1 DEF RelayEnds
    <3>2. pool[carrier[u]] = "used"
      BY <1>0, <2>1, <3>1 DEF Owned
    <3>3. QED
      BY <1>0, <3>1, <3>2 DEF TypeOK
  <2>2. CASE mode # "tcp"
    BY <1>9, <2>2 DEF RelayEnds
  <2>3. QED
    BY <2>1, <2>2
<1>10. ASSUME NEW u \in Users, UserArrives(u) \/ GiveUp(u) PROVE FALSE
  BY <1>10 DEF UserArrives, GiveUp, carriers
<1>11. ASSUME NEW c \in Conns, Handler(c) \/ LinkBreaks(c) PROVE FALSE
  BY <1>11 DEF Handler, Check, Ack, Publish, ReadEnds, LinkBreaks, carriers
<1>12. CASE ListenerCrashes \/ UNCHANGED vars
  BY <1>12 DEF ListenerCrashes, vars, carriers
<1>13. QED
  BY <1>3, <1>4, <1>5, <1>6, <1>7, <1>8, <1>9, <1>10, <1>11, <1>12 DEF Next, Dialer, Take

\* A working idle carrier of the generation that stands is never closed, for any
\* number of connections, users and faults: draining needs the dialer itself,
\* pruning takes dead ones only, and a relay that ends closes its own connection,
\* which is not idle (Owned).
THEOREM CarriersKept == Spec => KeptWhileStanding
<1>1. IInv /\ [Next]_vars => IInv' /\ [Kept]_vars
  BY IInvStep, KeptStep
<1>2. QED
  BY <1>1, IInvInit, PTL DEF Spec, KeptWhileStanding, Kept

\* The listener serves a connection until it publishes or drops it.  If the
\* backoff is Prompt it serves one at a time, and publishes only where nothing is
\* established; what it reads is what is established.
Serving(c) == handler[c] \in {"check", "ack", "publish"}
Exclusive ==
  /\ dialer = "idle" => \A c \in Conns : ~Serving(c)
  /\ \A c, d \in Conns : Serving(c) /\ Serving(d) => c = d
  /\ \A c \in Conns : handler[c] \in {"ack", "publish"} => established = None
  /\ \A c \in Conns : handler[c] = "read" => established = c

LEMMA ExclusiveStep == ASSUME Prompt PROVE TypeOK /\ Exclusive /\ [Next]_vars => Exclusive'
<1> SUFFICES ASSUME TypeOK, Exclusive, [Next]_vars PROVE Exclusive'
  OBVIOUS
<1> USE DEF Serving, Exclusive
<1>1. ASSUME UNCHANGED <<handler, established>>, dialer' = dialer \/ dialer' # "idle"
      PROVE Exclusive'
  BY <1>1
<1>2. CASE Dial
  <2>1. PICK c \in Conns : handler' = [handler EXCEPT ![c] = "check"]
    BY <1>2 DEF Dial
  <2>2. dialer = "idle" /\ dialer' = "handshake" /\ established' = established
    BY <1>2 DEF Dial
  <2>3. handler'[c] = "check" /\ \A d \in Conns \ {c} : handler'[d] = handler[d]
    BY <2>1 DEF TypeOK
  <2>4. QED
    BY <2>2, <2>3
<1>3. CASE Wait
  BY <1>3 DEF Wait, listener
<1>4. CASE DialFails \/ Acked \/ NotAcked \/ ControlEnds \/ DrainOne \/ DrainDone \/ Tick
  BY <1>1, <1>4 DEF DialFails, Acked, NotAcked, ControlEnds, DrainOne, DrainDone, Tick, listener, dialing
<1>5. ASSUME NEW p \in Pools, PoolSpawn(p) \/ CancelPool(p) \/ CarrierDies(p) PROVE Exclusive'
  BY <1>1, <1>5 DEF PoolSpawn, HandshakePool, AdmitPool, CancelPool, CarrierDies, listener, dialing
<1>6. ASSUME NEW u \in Users, UserArrives(u) \/ Take(u) \/ GiveUp(u) \/ RelayEnds(u) PROVE Exclusive'
  BY <1>1, <1>6 DEF UserArrives, Take, TakeConn, PickSession, GiveUp, RelayEnds, listener, dialing
<1>7. ASSUME NEW c \in Conns, Handler(c) PROVE Exclusive'
  <2>1. dialer' = dialer
    BY <1>7 DEF Handler, Check, Ack, Publish, ReadEnds, dialing
  <2>2. PICK pc \in HandlerPC : handler' = [handler EXCEPT ![c] = pc]
    BY <1>7 DEF Handler, Check, Ack, Publish, ReadEnds, Move, HandlerPC
  <2>3. handler'[c] = pc /\ \A d \in Conns \ {c} : handler'[d] = handler[d]
    BY <2>2 DEF TypeOK
  <2>4. \/ Serving(c) /\ pc \in {"ack", "publish"} /\ established = None /\ established' = None
        \/ pc = "none" /\ established' = established /\ handler[c] # "read"
        \/ handler[c] = "publish" /\ pc = "read" /\ established' = c
        \/ handler[c] = "read" /\ pc = "none"
    BY <1>7, <2>3 DEF Handler, Check, Ack, Publish, ReadEnds, Move, TypeOK
  <2>5. CASE handler[c] = "read" /\ pc = "none"
    <3>1. established = c /\ established' = None
      BY <1>7, <2>5 DEF Handler, Check, Ack, Publish, ReadEnds
    <3>2. QED
      BY <2>1, <2>3, <2>5, <3>1
  <2>6. CASE handler[c] = "publish" /\ pc = "read" /\ established' = c
    BY <2>1, <2>3, <2>6, NoneAssumption
  <2>7. QED
    BY <2>1, <2>3, <2>4, <2>5, <2>6
<1>8. ASSUME NEW c \in Conns, LinkBreaks(c) PROVE Exclusive'
  BY <1>1, <1>8 DEF LinkBreaks, dialing
<1>9. CASE ListenerCrashes
  BY <1>9 DEF ListenerCrashes
<1>10. CASE DialerCrashes \/ UNCHANGED vars
  BY <1>1, <1>10 DEF DialerCrashes, vars, listener, dialing
<1>11. QED
  BY <1>2, <1>3, <1>4, <1>5, <1>6, <1>7, <1>8, <1>9, <1>10 DEF Next, Dialer

\* The listener has one generation at a time, at any number of connections and
\* faults, if the dialer's backoff outlasts the handler of the connection it gave
\* up: only then does the next one find nothing half established.
THEOREM OneGeneration == ASSUME Prompt PROVE Spec => []OneEstablished
<1>1. Init => Exclusive
  BY DEF Init, Exclusive, Serving
<1>2. TypeOK /\ Exclusive /\ [Next]_vars => Exclusive'
  BY ExclusiveStep
<1>3. Exclusive => OneEstablished
  BY NoneAssumption DEF Exclusive, Serving, OneEstablished
<1>4. QED
  BY <1>1, <1>2, <1>3, TypeInit, TypeStep, PTL DEF Spec

===============================================================================
