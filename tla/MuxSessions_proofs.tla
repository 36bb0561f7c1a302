-------------------------- MODULE MuxSessions_proofs --------------------------
(***************************************************************************)
(* Proofs about MuxSessions, for every finite set of users and of sessions *)
(* and all limits: the stream counts at both ends, which no list of        *)
(* sessions plays a part in, and then the client's list.                   *)
(***************************************************************************)
EXTENDS MuxSessions, FiniteSetTheorems, SequenceTheorems, TLAPS

CountTypes ==
  /\ srvSessions \subseteq srvKnown /\ srvKnown \subseteq acked /\ acked \subseteq Sessions
  /\ srvStreams \in [Sessions -> Int] /\ cliStreams \in [Sessions -> Int]
  /\ user \in [Users -> UserPC] /\ stream \in [Users -> StreamPC]
  /\ userSession \in [Users -> Sessions \cup {NoSession}]

\* Whoever has picked a session names it until its goroutine is done, and its
\* stream exists only once it was opened.
Named ==
  \A u \in Users :
    /\ user[u] \in {"open", "add", "relay"} => userSession[u] \in Sessions
    /\ stream[u] # "none" => /\ user[u] \in {"add", "relay", "done"}
                             /\ userSession[u] \in Sessions

IInv == CountTypes /\ Named /\ SlotsBalanced /\ HandlersBalanced

LEMMA SubsetsFinite ==
  ASSUME NEW U \in SUBSET Users PROVE IsFiniteSet(U) /\ Cardinality(U) \in Nat
BY FiniteAssumption, FS_Subset, FS_CardinalityType

-------------------------------------------------------------------------------
(* The types, and that a stream has a session.                             *)

\* A user between its arrival and its relay, at the server.
LEMMA UserSteps ==
  ASSUME CountTypes, Named, NEW u \in Users, Obtain(u) \/ UserArrives(u) \/ Timer(u) \/ Expire(u)
  PROVE  CountTypes' /\ Named'
<1> USE DEF CountTypes, Named, UserPC, StreamPC, cli
<1>1. CASE UserArrives(u) \/ Timer(u) \/ Expire(u)
  BY <1>1 DEF UserArrives, Timer, Expire
<1>2. CASE Arm(u) \/ Wake(u)
  BY <1>2 DEF Arm, Wake
<1>3. CASE PickSession(u)
  <2>1. srvSessions' \subseteq srvSessions
    BY <1>3 DEF PickSession
  <2>2. CASE \E s \in Sessions : /\ userSession' = [userSession EXCEPT ![u] = s]
                                 /\ user' = [user EXCEPT ![u] = "open"]
    BY <1>3, <2>1, <2>2 DEF PickSession
  <2>3. CASE user' = [user EXCEPT ![u] = "arm"] /\ UNCHANGED userSession
    BY <1>3, <2>1, <2>3 DEF PickSession
  <2>4. QED
    BY <1>3, <2>2, <2>3 DEF PickSession
<1>4. CASE OpenStream(u)
  BY <1>4 DEF OpenStream
<1>5. CASE AddStream(u)
  BY <1>5 DEF AddStream
<1>6. QED
  BY <1>1, <1>2, <1>3, <1>4, <1>5 DEF Obtain

LEMMA NamedStep == CountTypes /\ Named /\ [Next]_vars => CountTypes' /\ Named'
<1> SUFFICES ASSUME CountTypes, Named, [Next]_vars PROVE CountTypes' /\ Named'
  OBVIOUS
<1>1. ASSUME NEW u \in Users, Obtain(u) \/ UserArrives(u) \/ Timer(u) \/ Expire(u)
      PROVE CountTypes' /\ Named'
  BY <1>1, UserSteps
<1> USE DEF CountTypes, Named, UserPC, StreamPC, cli, srv
<1>2. ASSUME NEW u \in Users, Release(u) PROVE CountTypes' /\ Named'
  BY <1>2 DEF Release
<1>3. ASSUME NEW u \in Users, AcceptStream(u) \/ CountStream(u) \/ StreamEnds(u)
      PROVE CountTypes' /\ Named'
  BY <1>3 DEF AcceptStream, CountStream, StreamEnds
<1>4. ASSUME NEW s \in Sessions, Ack(s) \/ SessionDies(s) PROVE CountTypes' /\ Named'
  BY <1>4 DEF Ack, SessionDies
<1>5. ASSUME NEW s \in Sessions, AdmitSession(s) PROVE CountTypes' /\ Named'
  BY <1>5 DEF AdmitSession, Broadcast
<1>6. ASSUME NEW s \in Sessions, Register(s) \/ CloseSession(s) \/ AcceptFails(s) \/ Remove(s)
      PROVE CountTypes' /\ Named'
  BY <1>6 DEF Register, CloseSession, AcceptFails, Remove
<1>7. CASE Teardown
  BY <1>7 DEF Teardown
<1>8. CASE ShrinkTick \/ ShrinkOne \/ UNCHANGED vars
  BY <1>8 DEF ShrinkTick, ShrinkOne, vars
<1>9. QED
  BY <1>1, <1>2, <1>3, <1>4, <1>5, <1>6, <1>7, <1>8 DEF Next

-------------------------------------------------------------------------------
(* The counts.                                                             *)

\* Every step but the two that count leaves the relaying users of a session and
\* the server's count of it alone.
LEMMA SlotsStep == IInv /\ [Next]_vars => SlotsBalanced'
<1> SUFFICES ASSUME IInv, [Next]_vars, NEW s \in Sessions
             PROVE  srvStreams'[s] = Cardinality(Relaying(s)')
  BY DEF SlotsBalanced
<1>0. CountTypes /\ Named /\ srvStreams[s] = Cardinality(Relaying(s))
  BY DEF IInv, SlotsBalanced
<1>1. Relaying(s) \in SUBSET Users /\ IsFiniteSet(Relaying(s))
  BY SubsetsFinite DEF Relaying
<1>2. CASE Relaying(s)' = Relaying(s) /\ srvStreams'[s] = srvStreams[s]
  BY <1>0, <1>2
<1> USE <1>0 DEF CountTypes, UserPC, StreamPC, cli, srv
<1>3. ASSUME NEW u \in Users, AddStream(u) PROVE srvStreams'[s] = Cardinality(Relaying(s)')
  <2>1. CASE userSession[u] = s
    <3>1. u \notin Relaying(s) /\ Relaying(s)' = Relaying(s) \cup {u}
      BY <1>3, <2>1 DEF AddStream, Relaying
    <3>2. Cardinality(Relaying(s)') = Cardinality(Relaying(s)) + 1
      BY <3>1, <1>1, FS_AddElement
    <3>3. QED
      BY <1>3, <2>1, <3>2 DEF AddStream
  <2>2. CASE userSession[u] # s
    BY <1>3, <2>2, <1>2 DEF AddStream, Relaying
  <2>3. QED
    BY <2>1, <2>2
<1>4. ASSUME NEW u \in Users, Release(u) PROVE srvStreams'[s] = Cardinality(Relaying(s)')
  <2>1. CASE userSession[u] = s
    <3>1. u \in Relaying(s) /\ Relaying(s)' = Relaying(s) \ {u}
      BY <1>4, <2>1 DEF Release, Relaying
    <3>2. Cardinality(Relaying(s)') = Cardinality(Relaying(s)) - 1
      BY <3>1, <1>1, FS_RemoveElement
    <3>3. QED
      BY <1>4, <2>1, <3>2 DEF Release
  <2>2. CASE userSession[u] # s
    BY <1>4, <2>2, <1>2 DEF Release, Relaying
  <2>3. QED
    BY <2>1, <2>2
<1>5. ASSUME NEW u \in Users, PickSession(u)
      PROVE Relaying(s)' = Relaying(s) /\ srvStreams'[s] = srvStreams[s]
  <2>1. \A v \in Users : v # u => user'[v] = user[v] /\ userSession'[v] = userSession[v]
    BY <1>5 DEF PickSession
  <2>2. user[u] # "relay" /\ user'[u] # "relay" /\ srvStreams' = srvStreams
    BY <1>5 DEF PickSession
  <2>3. QED
    BY <2>1, <2>2 DEF Relaying
<1>6. ASSUME NEW u \in Users, Arm(u) \/ Wake(u) \/ UserArrives(u) \/ Timer(u) \/ Expire(u)
      PROVE Relaying(s)' = Relaying(s) /\ srvStreams'[s] = srvStreams[s]
  BY <1>6 DEF Arm, Wake, UserArrives, Timer, Expire, Relaying
<1>7. ASSUME NEW u \in Users, OpenStream(u) \/ AcceptStream(u) \/ CountStream(u) \/ StreamEnds(u)
      PROVE Relaying(s)' = Relaying(s) /\ srvStreams'[s] = srvStreams[s]
  BY <1>7 DEF OpenStream, AcceptStream, CountStream, StreamEnds, Relaying
<1>8. ASSUME NEW t \in Sessions, AdmitSession(t)
      PROVE Relaying(s)' = Relaying(s) /\ srvStreams'[s] = srvStreams[s]
  BY <1>8 DEF AdmitSession, Broadcast, Relaying
<1>9. ASSUME NEW t \in Sessions, Ack(t) \/ SessionDies(t) \/ Register(t) \/ CloseSession(t)
             \/ AcceptFails(t) \/ Remove(t)
      PROVE Relaying(s)' = Relaying(s) /\ srvStreams'[s] = srvStreams[s]
  BY <1>9 DEF Ack, SessionDies, Register, CloseSession, AcceptFails, Remove, Relaying
<1>10. ASSUME Teardown \/ ShrinkTick \/ ShrinkOne \/ UNCHANGED vars
       PROVE Relaying(s)' = Relaying(s) /\ srvStreams'[s] = srvStreams[s]
  BY <1>10 DEF Teardown, ShrinkTick, ShrinkOne, vars, Relaying
<1>11. QED
  BY <1>2, <1>3, <1>4, <1>5, <1>6, <1>7, <1>8, <1>9, <1>10 DEF Next, Obtain

LEMMA HandlersStep == IInv /\ [Next]_vars => HandlersBalanced'
<1> SUFFICES ASSUME IInv, [Next]_vars, NEW s \in Sessions
             PROVE  cliStreams'[s] = Cardinality(Handling(s)')
  BY DEF HandlersBalanced
<1>0. CountTypes /\ cliStreams[s] = Cardinality(Handling(s))
  BY DEF IInv, HandlersBalanced
<1>1. Handling(s) \in SUBSET Users /\ IsFiniteSet(Handling(s))
  BY SubsetsFinite DEF Handling
<1>2. CASE Handling(s)' = Handling(s) /\ cliStreams'[s] = cliStreams[s]
  BY <1>0, <1>2
<1> USE <1>0 DEF CountTypes, UserPC, StreamPC, cli, srv
<1>3. ASSUME NEW u \in Users, CountStream(u) PROVE cliStreams'[s] = Cardinality(Handling(s)')
  <2>1. CASE userSession[u] = s
    <3>1. u \notin Handling(s) /\ Handling(s)' = Handling(s) \cup {u}
      BY <1>3, <2>1 DEF CountStream, Handling
    <3>2. Cardinality(Handling(s)') = Cardinality(Handling(s)) + 1
      BY <3>1, <1>1, FS_AddElement
    <3>3. QED
      BY <1>3, <2>1, <3>2 DEF CountStream
  <2>2. CASE userSession[u] # s
    BY <1>3, <2>2, <1>2 DEF CountStream, Handling
  <2>3. QED
    BY <2>1, <2>2
<1>4. ASSUME NEW u \in Users, StreamEnds(u) PROVE cliStreams'[s] = Cardinality(Handling(s)')
  <2>1. CASE userSession[u] = s
    <3>1. u \in Handling(s) /\ Handling(s)' = Handling(s) \ {u}
      BY <1>4, <2>1 DEF StreamEnds, Handling
    <3>2. Cardinality(Handling(s)') = Cardinality(Handling(s)) - 1
      BY <3>1, <1>1, FS_RemoveElement
    <3>3. QED
      BY <1>4, <2>1, <3>2 DEF StreamEnds
  <2>2. CASE userSession[u] # s
    BY <1>4, <2>2, <1>2 DEF StreamEnds, Handling
  <2>3. QED
    BY <2>1, <2>2
<1>5. ASSUME NEW u \in Users, PickSession(u)
      PROVE Handling(s)' = Handling(s) /\ cliStreams'[s] = cliStreams[s]
  <2>1. \A v \in Users : v # u => userSession'[v] = userSession[v]
    BY <1>5 DEF PickSession
  <2>2. stream[u] # "handled" /\ stream' = stream /\ cliStreams' = cliStreams
    BY <1>5 DEF PickSession, IInv, Named
  <2>3. QED
    BY <2>1, <2>2 DEF Handling
<1>6. ASSUME NEW u \in Users, Arm(u) \/ Wake(u) \/ UserArrives(u) \/ Timer(u) \/ Expire(u)
             \/ AddStream(u) \/ Release(u)
      PROVE Handling(s)' = Handling(s) /\ cliStreams'[s] = cliStreams[s]
  BY <1>6 DEF Arm, Wake, UserArrives, Timer, Expire, AddStream, Release, Handling
<1>7. ASSUME NEW u \in Users, OpenStream(u)
      PROVE Handling(s)' = Handling(s) /\ cliStreams'[s] = cliStreams[s]
  BY <1>7 DEF OpenStream, Handling, IInv, Named
<1>8. ASSUME NEW u \in Users, AcceptStream(u)
      PROVE Handling(s)' = Handling(s) /\ cliStreams'[s] = cliStreams[s]
  BY <1>8 DEF AcceptStream, Handling
<1>9. ASSUME NEW t \in Sessions, Ack(t) \/ SessionDies(t) \/ Register(t) \/ CloseSession(t)
             \/ AcceptFails(t) \/ Remove(t) \/ AdmitSession(t)
      PROVE Handling(s)' = Handling(s) /\ cliStreams'[s] = cliStreams[s]
  BY <1>9 DEF Ack, SessionDies, Register, CloseSession, AcceptFails, Remove, AdmitSession,
              Handling
<1>10. ASSUME Teardown \/ ShrinkTick \/ ShrinkOne \/ UNCHANGED vars
       PROVE Handling(s)' = Handling(s) /\ cliStreams'[s] = cliStreams[s]
  BY <1>10 DEF Teardown, ShrinkTick, ShrinkOne, vars, Handling
<1>11. QED
  BY <1>2, <1>3, <1>4, <1>5, <1>6, <1>7, <1>8, <1>9, <1>10 DEF Next, Obtain

-------------------------------------------------------------------------------
(* The client's list of sessions.                                          *)

\* Every session of a set, and no other, is in the list, once.
Lists(q, S) ==
  /\ \A s \in S : \E i \in 1..Len(q) : q[i] = s
  /\ \A i \in 1..Len(q) : q[i] \in S /\ \A j \in 1..(i - 1) : q[j] # q[i]

\* What TypeOK says beyond CountTypes.
ListTypes ==
  /\ srvClosed \subseteq srvKnown
  /\ cliSessions \in Seq(Sessions) /\ Lists(cliSessions, Workers)
  /\ cliWorker \in [Sessions -> WorkerPC]
  /\ cliClosed \subseteq Sessions /\ stop \subseteq Sessions
  /\ shrinkLeft \in Nat /\ panicked \in BOOLEAN

\* Deleting one entry keeps the others, in order.
LEMMA WithoutEntries ==
  ASSUME NEW S, NEW q \in Seq(S), NEW i \in 1..Len(q)
  PROVE  /\ Without(q, i) \in Seq(S) /\ Len(Without(q, i)) = Len(q) - 1
         /\ \A j \in 1..(Len(q) - 1) : Without(q, i)[j] = IF j < i THEN q[j] ELSE q[j + 1]
<1> DEFINE a == SubSeq(q, 1, i - 1)
           b == SubSeq(q, i + 1, Len(q))
<1>0. Len(q) \in Nat /\ i \in Int /\ 1 <= i /\ i <= Len(q)
  BY LenProperties
<1>1. a \in Seq(S) /\ Len(a) = i - 1 /\ \A j \in 1..(i - 1) : a[j] = q[j]
  BY SubSeqProperties
<1>2. b \in Seq(S) /\ Len(b) = Len(q) - i /\ \A j \in 1..(Len(q) - i) : b[j] = q[j + i]
  BY SubSeqProperties
<1> HIDE DEF a, b
<1>3. a \o b \in Seq(S) /\ Len(a \o b) = Len(q) - 1
  <2>1. a \o b \in Seq(S) /\ Len(a \o b) = Len(a) + Len(b)
    BY <1>1, <1>2, ConcatProperties
  <2>2. QED
    BY <2>1, <1>0, <1>1, <1>2
<1>4. ASSUME NEW j \in 1..(Len(q) - 1)
      PROVE  (a \o b)[j] = IF j < i THEN q[j] ELSE q[j + 1]
  <2>1. (a \o b)[j] = IF j <= Len(a) THEN a[j] ELSE b[j - Len(a)]
    BY <1>1, <1>2, <1>3, <1>0, ConcatProperties
  <2>2. CASE j < i
    BY <2>1, <2>2, <1>0, <1>1
  <2>3. CASE ~(j < i)
    <3>1. j - Len(a) \in 1..(Len(q) - i) /\ (j - Len(a)) + i = j + 1 /\ ~(j <= Len(a))
      BY <2>3, <1>0, <1>1
    <3>2. QED
      BY <3>1, <2>1, <2>3, <1>2
  <2>4. QED
    BY <2>2, <2>3
<1>5. QED
  BY <1>3, <1>4 DEF Without, a, b

\* A worker registers its session, and takes it out.
LEMMA ListGrows ==
  ASSUME NEW q \in Seq(Sessions), NEW S, Lists(q, S), NEW s \in Sessions, s \notin S
  PROVE  Append(q, s) \in Seq(Sessions) /\ Lists(Append(q, s), S \cup {s})
<1>1. /\ Append(q, s) \in Seq(Sessions) /\ Len(Append(q, s)) = Len(q) + 1
      /\ \A i \in 1..Len(q) : Append(q, s)[i] = q[i]
      /\ Append(q, s)[Len(q) + 1] = s
  BY AppendProperties
<1>2. QED
  BY <1>1 DEF Lists

LEMMA ListShrinks ==
  ASSUME NEW q \in Seq(Sessions), NEW S, Lists(q, S), NEW k \in 1..Len(q)
  PROVE  Without(q, k) \in Seq(Sessions) /\ Lists(Without(q, k), S \ {q[k]})
<1> DEFINE r == Without(q, k)
<1>1. /\ r \in Seq(Sessions) /\ Len(r) = Len(q) - 1 /\ Len(q) \in Nat
      /\ \A j \in 1..(Len(q) - 1) : r[j] = IF j < k THEN q[j] ELSE q[j + 1]
  BY WithoutEntries, LenProperties
<1> HIDE DEF r
<1>2. ASSUME NEW s \in S \ {q[k]} PROVE \E j \in 1..Len(r) : r[j] = s
  <2>1. PICK i \in 1..Len(q) : q[i] = s
    BY DEF Lists
  <2>2. CASE i < k
    <3>1. i \in 1..Len(r) /\ r[i] = s
      BY <1>1, <2>1, <2>2
    <3>2. QED
      BY <3>1
  <2>3. CASE i > k
    <3>1. i - 1 \in 1..Len(r) /\ r[i - 1] = s
      BY <1>1, <2>1, <2>3
    <3>2. QED
      BY <3>1
  <2>4. QED
    BY <2>1, <2>2, <2>3, <1>1
<1>3. ASSUME NEW i \in 1..Len(r)
      PROVE  r[i] \in S \ {q[k]} /\ \A j \in 1..(i - 1) : r[j] # r[i]
  <2>1. \A m, n \in 1..Len(q) : m < n => q[m] # q[n]
    BY <1>1 DEF Lists
  <2>2. PICK m \in 1..Len(q) : m # k /\ r[i] = q[m] /\ (m = i \/ (m = i + 1 /\ i >= k))
                               /\ (m = i => i < k)
    BY <1>1
  <2>3. r[i] \in S \ {q[k]}
    BY <2>1, <2>2, <1>1 DEF Lists
  <2>4. ASSUME NEW j \in 1..(i - 1) PROVE r[j] # r[i]
    <3>0. j \in 1..(Len(q) - 1) /\ j \in 1..Len(q) /\ j + 1 \in 1..Len(q)
      BY <1>1
    <3>1. PICK n \in 1..Len(q) : r[j] = q[n] /\ (n = j \/ (n = j + 1 /\ j >= k))
      <4>1. r[j] = IF j < k THEN q[j] ELSE q[j + 1]
        BY <3>0, <1>1
      <4>2. QED
        BY <3>0, <4>1
    <3>2. n < m
      BY <2>2, <3>1, <1>1
    <3>3. QED
      BY <3>1, <3>2, <2>1, <2>2
  <2>5. QED
    BY <2>3, <2>4
<1>4. QED
  BY <1>1, <1>2, <1>3 DEF Lists, r

LEMMA ListStep == CountTypes /\ ListTypes /\ [Next]_vars => ListTypes'
<1> SUFFICES ASSUME CountTypes, ListTypes, [Next]_vars PROVE ListTypes'
  OBVIOUS
<1> USE DEF ListTypes, srv, cli
<1>1. ASSUME NEW u \in Users, \/ Obtain(u) \/ UserArrives(u) \/ Timer(u) \/ Expire(u) \/ Release(u)
                              \/ AcceptStream(u) \/ CountStream(u) \/ StreamEnds(u)
      PROVE ListTypes'
  BY <1>1 DEF Obtain, PickSession, Arm, Wake, OpenStream, AddStream, UserArrives, Timer, Expire,
              Release, AcceptStream, CountStream, StreamEnds, Workers
<1>2. ASSUME NEW s \in Sessions, Ack(s) \/ AdmitSession(s) \/ SessionDies(s) \/ CloseSession(s)
      PROVE ListTypes'
  BY <1>2 DEF Ack, AdmitSession, SessionDies, CloseSession, Workers
<1>3. CASE Teardown
  BY <1>3 DEF Teardown, Workers, CountTypes
<1>4. ASSUME NEW s \in Sessions, Register(s) PROVE ListTypes'
  <2>1. s \notin Workers /\ Workers' = Workers \cup {s} /\ cliSessions' = Append(cliSessions, s)
    BY <1>4 DEF Register, Workers
  <2>2. cliSessions' \in Seq(Sessions) /\ Lists(cliSessions', Workers')
    BY <2>1, ListGrows
  <2>3. cliWorker' \in [Sessions -> WorkerPC]
    BY <1>4 DEF Register, WorkerPC
  <2>4. QED
    BY <1>4, <2>2, <2>3 DEF Register
<1>5. ASSUME NEW s \in Sessions, AcceptFails(s) PROVE ListTypes'
  <2>1. Workers' = Workers /\ cliWorker' \in [Sessions -> WorkerPC]
    BY <1>5 DEF AcceptFails, Workers, WorkerPC
  <2>2. QED
    BY <1>5, <2>1 DEF AcceptFails
<1>6. ASSUME NEW s \in Sessions, Remove(s) PROVE ListTypes'
  <2>1. PICK k \in 1..Len(cliSessions) :
          cliSessions[k] = s /\ cliSessions' = Without(cliSessions, k)
    BY <1>6 DEF Remove
  <2>2. Workers' = Workers \ {cliSessions[k]} /\ cliWorker' \in [Sessions -> WorkerPC]
    BY <1>6, <2>1 DEF Remove, Workers, WorkerPC
  <2>3. cliSessions' \in Seq(Sessions) /\ Lists(cliSessions', Workers')
    BY <2>1, <2>2, ListShrinks
  <2>4. QED
    BY <1>6, <2>2, <2>3 DEF Remove
<1>7. CASE ShrinkTick
  <2>1. IsFiniteSet(Workers) /\ Cardinality(Workers) \in Nat
    BY FiniteAssumption, FS_Subset, FS_CardinalityType DEF Workers
  <2>2. shrinkLeft' \in Nat
    BY <1>7, <2>1, LimitAssumption DEF ShrinkTick
  <2>3. QED
    BY <1>7, <2>2 DEF ShrinkTick, Workers
<1>8. CASE ShrinkOne
  <2>1. shrinkLeft' \in Nat
    BY <1>8 DEF ShrinkOne
  <2>2. stop' \subseteq Sessions /\ panicked' \in BOOLEAN
    <3>1. \A i \in 1..Len(cliSessions) : cliSessions[i] \in Sessions
      OBVIOUS
    <3>2. CASE UNCHANGED <<stop, panicked>>
      BY <3>2
    <3>3. CASE \E i \in 1..Len(cliSessions) : /\ stop' = stop \cup {cliSessions[i]}
                                             /\ panicked' = (cliSessions[i] \in stop)
      BY <3>1, <3>3
    <3>4. QED
      BY <1>8, <3>2, <3>3 DEF ShrinkOne
  <2>3. QED
    BY <1>8, <2>1, <2>2 DEF ShrinkOne, Workers
<1>9. CASE UNCHANGED vars
  BY <1>9 DEF vars, Workers
<1>10. QED
  BY <1>1, <1>2, <1>3, <1>4, <1>5, <1>6, <1>7, <1>8, <1>9 DEF Next

\* However sessions die under their streams and users give up, the server counts
\* on each session the users that relay on it, and the client the handlers it
\* runs: no slot is lost or given back twice, for any number of users.  And the
\* client lists every session that has a worker once, so that shrinkOne looks at
\* each of them and at no other.
THEOREM CountsCorrect == Spec => []CountsBalanced
<1>1. Init => IInv /\ ListTypes
  <2> SUFFICES ASSUME Init PROVE IInv /\ ListTypes
    OBVIOUS
  <2>1. \A s \in Sessions : Relaying(s) = {} /\ Handling(s) = {}
    BY DEF Init, Relaying, Handling
  <2>2. SlotsBalanced /\ HandlersBalanced
    BY <2>1, FS_EmptySet DEF Init, SlotsBalanced, HandlersBalanced
  <2>3. IInv
    BY <2>2 DEF Init, IInv, CountTypes, Named, UserPC, StreamPC
  <2>4. ListTypes
    <3>1. Workers = {} /\ cliSessions \in Seq(Sessions) /\ Len(cliSessions) = 0
      BY DEF Init, Workers
    <3>2. Lists(cliSessions, Workers)
      BY <3>1 DEF Lists
    <3>3. QED
      BY <3>1, <3>2 DEF Init, ListTypes, WorkerPC
  <2>5. QED
    BY <2>3, <2>4
<1>2. IInv /\ ListTypes /\ [Next]_vars => (IInv /\ ListTypes)'
  BY NamedStep, SlotsStep, HandlersStep, ListStep DEF IInv
<1>3. IInv /\ ListTypes => CountsBalanced
  BY DEF IInv, CountTypes, ListTypes, Lists, CountsBalanced, TypeOK
<1>4. QED
  BY <1>1, <1>2, <1>3, PTL DEF Spec
===============================================================================
