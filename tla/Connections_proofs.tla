--------------------------- MODULE Connections_proofs ---------------------------
(***************************************************************************)
(* Proofs about both stages of a tunnel connection, MCConnections: the     *)
(* pool, for every finite set of workers and all limits the assumption of  *)
(* ClientPool allows, and the pipes, for every set of links that can be    *)
(* half-closed and every window.                                           *)
(***************************************************************************)
EXTENDS MCConnections, FiniteSetTheorems, TLAPS

Types ==
  /\ ctxDone \in BOOLEAN /\ over \in BOOLEAN /\ panicked \in BOOLEAN
  /\ needConn \in 0..NeedCap /\ left \in Nat
  /\ maintainer \in {"fill", "select", "spawn", "shrink", "gone"}
  /\ worker \in [Workers -> WorkerPC]
  /\ watcher \subseteq Workers /\ stop \subseteq Workers
  /\ watcherDone \subseteq Workers /\ deadline \subseteq Workers
  /\ claimed \subseteq Workers /\ tcpIdle \subseteq Workers

CountRight == activeCount = Cardinality(Counted)

LEMMA Bounds == MinIdle \in Nat /\ MaxIdle \in Nat /\ NeedCap \in Nat /\ IsFiniteSet(Workers)
BY BoundsAssumption

LEMMA TypeSplit == TypeOK <=> Types /\ CountRight
BY DEF TypeOK, Types, CountRight

LEMMA CountedFinite == Types => Cardinality(Counted) \in Nat /\ IsFiniteSet(Counted)
<1>1. Counted \subseteq Workers
  BY DEF Counted
<1>2. IsFiniteSet(Counted)
  BY <1>1, Bounds, FS_Subset
<1>3. QED
  BY <1>2, FS_CardinalityType

-------------------------------------------------------------------------------
(* Type correctness.                                                       *)

LEMMA TypeInit == Init => TypeOK
<1> SUFFICES ASSUME Init PROVE TypeOK
  OBVIOUS
<1>1. Counted = {}
  BY DEF Init, Counted
<1>2. CountRight
  BY <1>1, FS_EmptySet DEF CountRight, Init
<1>3. needConn \in 0..NeedCap /\ left \in Nat /\ worker \in [Workers -> WorkerPC]
  BY Bounds DEF Init, WorkerPC
<1>4. Types
  BY <1>3 DEF Init, Types
<1>5. QED
  BY <1>2, <1>4, TypeSplit

LEMMA MaintainTypes == ASSUME TypeOK, Maintain PROVE Types'
<1>1. Types /\ activeCount \in Nat
  BY TypeSplit, CountedFinite DEF CountRight
<1> USE <1>1, Bounds DEF Types, WorkerPC, chans
<1>2. CASE Spawn
  <2>1. left' \in Nat /\ maintainer' \in {"fill", "select", "spawn", "shrink", "gone"}
    BY <1>2 DEF Spawn
  <2>2. worker' \in [Workers -> WorkerPC]
    BY <1>2 DEF Spawn, SpawnOne, Goto
  <2>3. QED
    BY <1>2, <2>1, <2>2 DEF Spawn
<1>3. CASE SelectDone
  BY <1>3 DEF SelectDone
<1>4. CASE SelectNeed
  <2>1. worker' \in [Workers -> WorkerPC]
    BY <1>4 DEF SelectNeed, SpawnOne, Goto
  <2>2. needConn' \in 0..NeedCap
    BY <1>4 DEF SelectNeed
  <2>3. QED
    BY <1>4, <2>1, <2>2 DEF SelectNeed
<1>5. CASE TickBelow
  <2>1. left' \in Nat
    BY <1>5 DEF TickBelow
  <2>2. QED
    BY <1>5, <2>1 DEF TickBelow
<1>6. CASE TickAbove
  <2>1. left' \in Nat
    BY <1>6 DEF TickAbove
  <2>2. QED
    BY <1>6, <2>1 DEF TickAbove
<1>7. CASE TickWithin
  BY <1>7 DEF TickWithin
<1>8. CASE ShrinkOne
  <2>1. left' \in Nat
    BY <1>8 DEF ShrinkOne
  <2>2. CASE tcpIdle = {}
    BY <1>8, <2>1, <2>2 DEF ShrinkOne
  <2>3. CASE tcpIdle # {}
    <3>1. PICK w \in tcpIdle : tcpIdle' = tcpIdle \ {w} /\ CloseStop(w)
      BY <1>8, <2>3 DEF ShrinkOne
    <3>2. panicked' \in BOOLEAN
      BY <3>1 DEF CloseStop
    <3>3. stop' \subseteq Workers /\ tcpIdle' \subseteq Workers
      BY <3>1 DEF CloseStop
    <3>4. QED
      BY <1>8, <2>1, <3>2, <3>3 DEF ShrinkOne
  <2>4. QED
    BY <2>2, <2>3
<1>9. CASE ShrinkDone
  BY <1>9 DEF ShrinkDone
<1>10. QED
  BY <1>2, <1>3, <1>4, <1>5, <1>6, <1>7, <1>8, <1>9 DEF Maintain, Tick

LEMMA TypesStep == TypeOK /\ [Next]_vars => Types'
<1> SUFFICES ASSUME TypeOK, [Next]_vars PROVE Types'
  OBVIOUS
<1>1. Types
  BY TypeSplit
<1>2. CASE Maintain
  BY <1>2, MaintainTypes
<1> USE <1>1, Bounds DEF Types, WorkerPC, gen, chans, Goto
<1>3. CASE NeedArrives
  BY <1>3 DEF NeedArrives
<1>4. CASE GenerationEnds
  BY <1>4 DEF GenerationEnds
<1>5. ASSUME NEW w \in Workers, Work(w) \/ Claim(w) \/ ReadFails(w) \/ ServeEnds(w)
      PROVE Types'
  BY <1>5 DEF Work, WorkerStarts, Dial, Register, ReadTarget, ReleaseWatcher, Unregister,
              WorkerReturns, Claim, ReadFails, ServeEnds
<1>6. ASSUME NEW w \in Workers, Watch(w) PROVE Types'
  BY <1>6 DEF Watch, WatcherFires, WatcherQuits
<1>7. CASE UNCHANGED vars
  BY <1>7 DEF vars
<1>8. QED
  BY <1>2, <1>3, <1>4, <1>5, <1>6, <1>7 DEF Next

\* A worker enters the count when it starts and leaves it when it returns; no
\* other step moves the count or a worker across its bounds.
LEMMA CountStep == TypeOK /\ [Next]_vars => CountRight'
<1> SUFFICES ASSUME TypeOK, [Next]_vars PROVE CountRight'
  OBVIOUS
<1>1. Types /\ CountRight
  BY TypeSplit
<1>2. Types'
  BY TypesStep
<1>3. CASE Counted' = Counted /\ activeCount' = activeCount
  BY <1>1, <1>3 DEF CountRight
<1> USE <1>1 DEF Types, WorkerPC, Goto
<1>4. ASSUME NEW w \in Workers, WorkerStarts(w) PROVE CountRight'
  <2>1. w \notin Counted /\ Counted' = Counted \cup {w}
    BY <1>4 DEF WorkerStarts, Counted
  <2>2. Cardinality(Counted') = Cardinality(Counted) + 1
    BY <2>1, CountedFinite, FS_AddElement
  <2>3. QED
    BY <1>4, <2>2 DEF WorkerStarts, CountRight
<1>5. ASSUME NEW w \in Workers, WorkerReturns(w) PROVE CountRight'
  <2>1. w \in Counted /\ Counted' = Counted \ {w}
    BY <1>5 DEF WorkerReturns, Counted
  <2>2. Cardinality(Counted') = Cardinality(Counted) - 1
    BY <2>1, CountedFinite, FS_RemoveElement
  <2>3. QED
    BY <1>5, <2>2 DEF WorkerReturns, CountRight
<1>6. ASSUME SpawnOne PROVE Counted' = Counted
  BY <1>6 DEF SpawnOne, Counted
<1>7. ASSUME Maintain PROVE Counted' = Counted /\ activeCount' = activeCount
  <2>1. CASE Spawn
    BY <2>1, <1>6 DEF Spawn, Counted
  <2>2. CASE SelectNeed
    BY <2>2, <1>6 DEF SelectNeed
  <2>3. CASE SelectDone \/ Tick \/ ShrinkOne \/ ShrinkDone
    BY <2>3 DEF SelectDone, Tick, TickBelow, TickAbove, TickWithin, ShrinkOne, ShrinkDone,
                Counted
  <2>4. QED
    BY <1>7, <2>1, <2>2, <2>3 DEF Maintain
<1>8. ASSUME NEW w \in Workers, Claim(w) \/ Watch(w)
      PROVE Counted' = Counted /\ activeCount' = activeCount
  BY <1>8 DEF Claim, Watch, WatcherFires, WatcherQuits, Counted
<1>9. ASSUME NEW w \in Workers,
             Dial(w) \/ Register(w) \/ ReadTarget(w) \/ ReleaseWatcher(w) \/ Unregister(w)
               \/ ReadFails(w) \/ ServeEnds(w)
      PROVE Counted' = Counted /\ activeCount' = activeCount
  BY <1>9 DEF Dial, Register, ReadTarget, ReleaseWatcher, Unregister, ReadFails, ServeEnds,
              Counted
<1>10. ASSUME NeedArrives \/ GenerationEnds \/ UNCHANGED vars
       PROVE Counted' = Counted /\ activeCount' = activeCount
  BY <1>10 DEF NeedArrives, GenerationEnds, vars, Counted
<1>11. QED
  BY <1>3, <1>4, <1>5, <1>7, <1>8, <1>9, <1>10 DEF Next, Work

-------------------------------------------------------------------------------
(* A stop channel is closed once.                                          *)

\* A name that a new worker may take, or that has not registered yet, has no
\* watcher and no closed stop channel: the last of a worker and its watcher to
\* return cleans up.
FreshOf(w) ==
  /\ worker[w] \in {"spawned", "dial", "register"} => w \notin watcher /\ w \notin stop
  /\ worker[w] = "none" /\ w \notin watcher => w \notin stop
Fresh == \A w \in Workers : FreshOf(w)

IInv == Types /\ Fresh /\ StoppedOnce

LEMMA FreshStep == IInv /\ [Next]_vars => Fresh'
<1> SUFFICES ASSUME IInv, [Next]_vars, NEW v \in Workers PROVE FreshOf(v)'
  BY DEF Fresh
<1>1. /\ Types /\ FreshOf(v)
      /\ v \in tcpIdle => worker[v] \notin {"none", "spawned", "dial", "register"}
  BY DEF IInv, Fresh, StoppedOnce
<1> USE <1>1 DEF FreshOf, Types, WorkerPC, gen, chans, Goto
<1>2. ASSUME SpawnOne, UNCHANGED <<watcher, stop>> PROVE FreshOf(v)'
  <2>1. CASE ctxDone /\ UNCHANGED worker
    BY <1>2, <2>1
  <2>2. ASSUME NEW w \in Workers, worker[w] = "none", w \notin watcher, Goto(w, "spawned")
        PROVE FreshOf(v)'
    BY <1>2, <2>2
  <2>3. QED
    BY <1>2, <2>1, <2>2 DEF SpawnOne
<1>3. CASE Maintain
  <2>1. CASE Spawn
    BY <2>1, <1>2 DEF Spawn
  <2>2. CASE SelectNeed
    BY <2>2, <1>2 DEF SelectNeed
  <2>3. CASE ShrinkOne
    BY <2>3 DEF ShrinkOne, CloseStop
  <2>4. CASE SelectDone \/ Tick \/ ShrinkDone
    BY <2>4 DEF SelectDone, Tick, TickBelow, TickAbove, TickWithin, ShrinkDone
  <2>5. QED
    BY <1>3, <2>1, <2>2, <2>3, <2>4 DEF Maintain
<1>4. ASSUME NEW w \in Workers, WorkerStarts(w) \/ Dial(w) \/ Register(w) PROVE FreshOf(v)'
  BY <1>4 DEF WorkerStarts, Dial, Register
<1>5. ASSUME NEW w \in Workers, ReadTarget(w) \/ ReadFails(w) \/ ReleaseWatcher(w)
             \/ Unregister(w) \/ ServeEnds(w) \/ Claim(w)
      PROVE FreshOf(v)'
  BY <1>5 DEF ReadTarget, ReadFails, ReleaseWatcher, Unregister, ServeEnds, Claim
<1>6. ASSUME NEW w \in Workers, WorkerReturns(w) PROVE FreshOf(v)'
  BY <1>6 DEF WorkerReturns
<1>7. ASSUME NEW w \in Workers, Watch(w) PROVE FreshOf(v)'
  BY <1>7 DEF Watch, WatcherFires, WatcherQuits
<1>8. CASE NeedArrives \/ GenerationEnds \/ UNCHANGED vars
  BY <1>8 DEF NeedArrives, GenerationEnds, vars
<1>9. QED
  BY <1>3, <1>4, <1>5, <1>6, <1>7, <1>8 DEF Next, Work

LEMMA StoppedOnceStep == IInv /\ [Next]_vars => StoppedOnce'
<1> SUFFICES ASSUME IInv, [Next]_vars PROVE StoppedOnce'
  OBVIOUS
<1>1. Types /\ StoppedOnce
  BY DEF IInv
<1>2. \A w \in Workers : worker[w] \in {"spawned", "dial", "register"} => w \notin stop
  BY DEF IInv, Fresh, FreshOf
<1> USE <1>1 DEF StoppedOnce, Types, WorkerPC, gen, chans, Goto
<1>3. ASSUME SpawnOne, UNCHANGED <<tcpIdle, stop, panicked>> PROVE StoppedOnce'
  <2>1. CASE ctxDone /\ UNCHANGED worker
    BY <1>3, <2>1
  <2>2. ASSUME NEW w \in Workers, worker[w] = "none", Goto(w, "spawned") PROVE StoppedOnce'
    BY <1>3, <2>2
  <2>3. QED
    BY <1>3, <2>1, <2>2 DEF SpawnOne
<1>4. CASE Maintain
  <2>1. CASE Spawn
    BY <2>1, <1>3 DEF Spawn
  <2>2. CASE SelectNeed
    BY <2>2, <1>3 DEF SelectNeed
  <2>3. CASE ShrinkOne
    BY <2>3 DEF ShrinkOne, CloseStop
  <2>4. CASE SelectDone \/ Tick \/ ShrinkDone
    BY <2>4 DEF SelectDone, Tick, TickBelow, TickAbove, TickWithin, ShrinkDone
  <2>5. QED
    BY <1>4, <2>1, <2>2, <2>3, <2>4 DEF Maintain
<1>5. ASSUME NEW w \in Workers, WorkerStarts(w) \/ Dial(w) PROVE StoppedOnce'
  BY <1>5 DEF WorkerStarts, Dial
<1>6. ASSUME NEW w \in Workers, Register(w) PROVE StoppedOnce'
  BY <1>6, <1>2 DEF Register
<1>7. ASSUME NEW w \in Workers, ReadTarget(w) \/ ReadFails(w) \/ ReleaseWatcher(w)
             \/ ServeEnds(w) \/ Claim(w)
      PROVE StoppedOnce'
  BY <1>7 DEF ReadTarget, ReadFails, ReleaseWatcher, ServeEnds, Claim
<1>8. ASSUME NEW w \in Workers, Unregister(w) PROVE StoppedOnce'
  BY <1>8 DEF Unregister
<1>9. ASSUME NEW w \in Workers, WorkerReturns(w) PROVE StoppedOnce'
  BY <1>9 DEF WorkerReturns
<1>10. ASSUME NEW w \in Workers, Watch(w) PROVE StoppedOnce'
  BY <1>10 DEF Watch, WatcherFires, WatcherQuits
<1>11. CASE NeedArrives \/ GenerationEnds \/ UNCHANGED vars
  BY <1>11 DEF NeedArrives, GenerationEnds, vars
<1>12. QED
  BY <1>4, <1>5, <1>6, <1>7, <1>8, <1>9, <1>10, <1>11 DEF Next, Work

-------------------------------------------------------------------------------
(* The pipes.                                                              *)

-------------------------------------------------------------------------------
(* Type correctness.                                                       *)

LEMMA PipeTypeInit == Relay!Init => Relay!TypeOK
BY WindowAssumption DEF Relay!Init, Relay!TypeOK, Relay!MainPC, Relay!Ended

LEMMA PipeTypeStep == Relay!TypeOK /\ [Relay!Next]_piping => Relay!TypeOK'
<1> SUFFICES ASSUME Relay!TypeOK, [Relay!Next]_piping PROVE Relay!TypeOK'
  OBVIOUS
<1> USE WindowAssumption DEF Relay!TypeOK, Relay!MainPC, Relay!Ended, Relay!Links,
                             Relay!Dirs, Relay!Pipes
<1>1. ASSUME NEW x \in Relay!Outgoing, Relay!Send(x) \/ Relay!Finish(x) \/ Relay!PeerGone(x[1])
      PROVE Relay!TypeOK'
  <2>1. x \in Relay!Links \X Relay!Dirs /\ x[1] \in {"user", "target"}
    BY DEF Relay!Outgoing
  <2>2. CASE Relay!Send(x)
    BY <2>1, <2>2 DEF Relay!Send
  <2>3. CASE Relay!Finish(x)
    BY <2>1, <2>3 DEF Relay!Finish
  <2>4. CASE Relay!PeerGone(x[1])
    BY <2>1, <2>4 DEF Relay!PeerGone
  <2>5. QED
    BY <1>1, <2>2, <2>3, <2>4
<1>2. ASSUME NEW x \in Relay!Incoming, Relay!Receive(x) PROVE Relay!TypeOK'
  BY <1>2 DEF Relay!Incoming, Relay!Receive
<1>3. ASSUME NEW p \in Relay!Pipes, Relay!Main(p) PROVE Relay!TypeOK'
  BY <1>3 DEF Relay!Main, Relay!First, Relay!Second, Relay!GracePasses, Relay!Return
<1>4. ASSUME NEW p \in Relay!Pipes, NEW d \in Relay!Dirs, Relay!Copy(p, d) PROVE Relay!TypeOK'
  <2>1. Relay!Src(p, d) \in Relay!Links /\ Relay!Dst(p, d) \in Relay!Links
    BY DEF Relay!Src, Relay!Dst
  <2>2. QED
    BY <1>4, <2>1 DEF Relay!Copy
<1>5. ASSUME NEW p \in Relay!Pipes, NEW d \in Relay!Dirs, Relay!CopyEnds(p, d)
      PROVE Relay!TypeOK'
  <2>1. Relay!Dst(p, d) \in Relay!Links
    BY DEF Relay!Src, Relay!Dst
  <2>2. QED
    BY <1>5, <2>1 DEF Relay!CopyEnds
<1>6. CASE UNCHANGED piping
  BY <1>6 DEF piping
<1>7. QED
  BY <1>1, <1>2, <1>3, <1>4, <1>5, <1>6 DEF Relay!Next

-------------------------------------------------------------------------------
(* The end of the data comes after the data.                               *)

\* A half-close that Pipe passed on is the last thing its copy did.
LastWord ==
  \A p \in Relay!Pipes, d \in Relay!Dirs : <<Relay!Dst(p, d), d>> \in fin => <<p, d>> \notin copying

PipeInv == Relay!TypeOK /\ LastWord /\ Relay!EndAfterData

\* What is closed stays closed.
LEMMA DeadStays ==
  ASSUME Relay!TypeOK, [Relay!Next]_piping, NEW l \in Relay!Links, Relay!Dead(l)
  PROVE  Relay!Dead(l)'
<1> USE DEF Relay!Dead, Relay!Closed, Relay!TypeOK, Relay!MainPC, Relay!Pipes
<1>1. gone \subseteq gone'
  BY DEF Relay!Next, piping, Relay!Send, Relay!Finish, Relay!PeerGone, Relay!Receive,
         Relay!Main, Relay!First, Relay!Second, Relay!GracePasses, Relay!Return,
         Relay!Copy, Relay!CopyEnds
<1>2. \A p \in Relay!Pipes : Relay!Closed(p) => Relay!Closed(p)'
  <2>1. main' = main \/ \E p \in Relay!Pipes : Relay!Main(p)
    BY DEF Relay!Next, piping, Relay!Send, Relay!Finish, Relay!PeerGone, Relay!Receive,
           Relay!Copy, Relay!CopyEnds
  <2>2. ASSUME NEW p \in Relay!Pipes, Relay!Main(p), NEW q \in Relay!Pipes, Relay!Closed(q)
        PROVE Relay!Closed(q)'
    BY <2>2 DEF Relay!Main, Relay!First, Relay!Second, Relay!GracePasses, Relay!Return
  <2>3. QED
    BY <2>1, <2>2
<1>3. QED
  BY <1>1, <1>2

LEMMA LastWordStep == PipeInv /\ [Relay!Next]_piping => LastWord'
<1> SUFFICES ASSUME PipeInv, [Relay!Next]_piping, NEW q \in Relay!Pipes, NEW e \in Relay!Dirs,
                    (<<Relay!Dst(q, e), e>> \in fin)'
             PROVE  (<<q, e>> \notin copying)'
  BY DEF LastWord
<1> USE DEF PipeInv, LastWord, Relay!TypeOK
<1>1. copying' \subseteq copying
  BY DEF Relay!Next, piping, Relay!Send, Relay!Finish, Relay!PeerGone, Relay!Receive,
         Relay!Main, Relay!First, Relay!Second, Relay!GracePasses, Relay!Return,
         Relay!Copy, Relay!CopyEnds
<1>2. CASE <<Relay!Dst(q, e), e>> \in fin
  BY <1>1, <1>2 DEF Relay!Dst, Relay!Src
<1>3. CASE <<Relay!Dst(q, e), e>> \notin fin
  <2>1. ASSUME NEW x \in Relay!Outgoing PROVE ~Relay!Finish(x)
    BY <1>3, <2>1 DEF Relay!Finish, Relay!Outgoing, Relay!Dst, Relay!Src, Relay!Pipes,
                      Relay!Dirs
  <2>2. PICK p \in Relay!Pipes, d \in Relay!Dirs : Relay!CopyEnds(p, d)
    BY <1>3, <2>1 DEF Relay!Next, piping, Relay!Send, Relay!PeerGone, Relay!Receive,
                      Relay!Main, Relay!First, Relay!Second, Relay!GracePasses,
                      Relay!Return, Relay!Copy, Relay!Dst, Relay!Src
  <2>3. <<Relay!Dst(p, d), d>> = <<Relay!Dst(q, e), e>>
    BY <1>3, <2>2 DEF Relay!CopyEnds, Relay!Dst, Relay!Src
  <2>4. p = q /\ d = e
    BY <2>3 DEF Relay!Dst, Relay!Src, Relay!Pipes, Relay!Dirs
  <2>5. QED
    BY <2>2, <2>4 DEF Relay!CopyEnds
<1>4. QED
  BY <1>2, <1>3

\* A source that is over stays empty: nobody may send or copy into it.
LEMMA SourceStaysOver ==
  ASSUME PipeInv, [Relay!Next]_piping, NEW p \in Relay!Pipes, NEW d \in Relay!Dirs,
         LET src == <<Relay!Src(p, d), d>>
         IN flow[src] = 0 /\ (src \in fin \/ Relay!Dead(src[1]))
  PROVE  LET src == <<Relay!Src(p, d), d>>
         IN (flow[src] = 0 /\ (src \in fin \/ Relay!Dead(src[1])))'
<1> DEFINE src == <<Relay!Src(p, d), d>>
<1>1. src \in Relay!Links \X Relay!Dirs /\ src[1] \in Relay!Links /\ src[1] = Relay!Src(p, d)
  BY DEF Relay!Src, Relay!Links, Relay!Pipes, Relay!Dirs
<1>2. fin \subseteq fin'
  BY DEF Relay!Next, piping, Relay!Send, Relay!Finish, Relay!PeerGone, Relay!Receive,
         Relay!Main, Relay!First, Relay!Second, Relay!GracePasses, Relay!Return,
         Relay!Copy, Relay!CopyEnds
<1>3. src \in fin' \/ Relay!Dead(src[1])'
  BY <1>1, <1>2, DeadStays DEF PipeInv
<1>4. flow'[src] = 0
  <2> USE WindowAssumption DEF PipeInv, Relay!TypeOK
  <2>1. ASSUME NEW x \in Relay!Outgoing, Relay!Send(x) \/ Relay!Finish(x) \/ Relay!PeerGone(x[1])
        PROVE flow'[src] = 0
    <3>1. CASE Relay!Send(x)
      <4>1. x # src /\ x \in Relay!Links \X Relay!Dirs
        BY <3>1, <1>1 DEF Relay!Send, Relay!Outgoing, Relay!Links, Relay!Dirs
      <4>2. QED
        BY <3>1, <4>1, <1>1 DEF Relay!Send
    <3>2. QED
      BY <2>1, <3>1 DEF Relay!Finish, Relay!PeerGone
  <2>2. ASSUME NEW x \in Relay!Incoming, Relay!Receive(x) PROVE flow'[src] = 0
    <3>1. x # src /\ x \in Relay!Links \X Relay!Dirs
      BY <2>2, <1>1 DEF Relay!Receive, Relay!Incoming, Relay!Links, Relay!Dirs
    <3>2. QED
      BY <2>2, <3>1, <1>1 DEF Relay!Receive
  <2>3. ASSUME NEW q \in Relay!Pipes, NEW e \in Relay!Dirs, Relay!Copy(q, e)
        PROVE flow'[src] = 0
    <3>1. <<Relay!Src(q, e), e>> # src
      BY <2>3 DEF Relay!Copy
    <3>2. <<Relay!Dst(q, e), e>> # src
      <4>1. CASE src \in fin
        BY <2>3, <4>1 DEF Relay!Copy, LastWord
      <4>2. CASE Relay!Dead(src[1])
        BY <2>3, <4>2 DEF Relay!Copy
      <4>3. QED
        BY <4>1, <4>2
    <3>3. QED
      BY <2>3, <3>1, <3>2, <1>1 DEF Relay!Copy
  <2>4. ASSUME NEW q \in Relay!Pipes, Relay!Main(q) \/ \E e \in Relay!Dirs : Relay!CopyEnds(q, e)
        PROVE flow'[src] = 0
    BY <2>4 DEF Relay!Main, Relay!First, Relay!Second, Relay!GracePasses, Relay!Return,
                Relay!CopyEnds
  <2>5. CASE UNCHANGED piping
    BY <2>5 DEF piping
  <2>6. QED
    BY <2>1, <2>2, <2>3, <2>4, <2>5 DEF Relay!Next
<1>5. QED
  BY <1>3, <1>4 DEF Relay!Src

LEMMA EndAfterDataStep == PipeInv /\ [Relay!Next]_piping => Relay!EndAfterData'
<1> SUFFICES ASSUME PipeInv, [Relay!Next]_piping, NEW p \in Relay!Pipes, NEW d \in Relay!Dirs,
                    (<<Relay!Dst(p, d), d>> \in fin /\ ~Relay!Dead(Relay!Dst(p, d)))'
             PROVE  LET src == <<Relay!Src(p, d), d>>
                    IN (flow[src] = 0 /\ (src \in fin \/ Relay!Dead(src[1])))'
  BY DEF Relay!EndAfterData
<1>1. Relay!Dst(p, d) \in Relay!Links
  BY DEF Relay!Dst, Relay!Src, Relay!Links, Relay!Pipes, Relay!Dirs
<1>2. ~Relay!Dead(Relay!Dst(p, d))
  BY <1>1, DeadStays DEF PipeInv, Relay!Dst, Relay!Src
<1>3. CASE <<Relay!Dst(p, d), d>> \in fin
  <2>1. LET src ==
  <<Relay!Src(p, d), d>> IN flow[src] = 0 /\ (src \in fin \/ Relay!Dead(src[1]))
    BY <1>2, <1>3 DEF PipeInv, Relay!EndAfterData
  <2>2. QED
    BY <2>1, SourceStaysOver
<1>4. CASE <<Relay!Dst(p, d), d>> \notin fin
  <2>1. ASSUME NEW x \in Relay!Outgoing PROVE ~Relay!Finish(x)
    BY <1>4, <2>1 DEF Relay!Finish, Relay!Outgoing, Relay!Dst, Relay!Src, Relay!Pipes,
                      Relay!Dirs
  <2>2. PICK q \in Relay!Pipes, e \in Relay!Dirs : Relay!CopyEnds(q, e)
    BY <1>4, <2>1 DEF Relay!Next, piping, Relay!Send, Relay!PeerGone, Relay!Receive,
                      Relay!Main, Relay!First, Relay!Second, Relay!GracePasses,
                      Relay!Return, Relay!Copy, Relay!Dst, Relay!Src
  <2>3. <<Relay!Dst(q, e), e>> = <<Relay!Dst(p, d), d>> /\ ~Relay!Closed(q)
    BY <1>4, <2>2 DEF Relay!CopyEnds, Relay!Dst, Relay!Src
  <2>4. q = p /\ e = d
    BY <2>3 DEF Relay!Dst, Relay!Src, Relay!Pipes, Relay!Dirs
  <2>5. LET src ==
  <<Relay!Src(p, d), d>> IN flow[src] = 0 /\ (src \in fin \/ Relay!Dead(src[1]))
    BY <1>2, <2>2, <2>3, <2>4 DEF Relay!CopyEnds, Relay!AtEnd
  <2>6. QED
    BY <2>5, SourceStaysOver
<1>5. QED
  BY <1>3, <1>4

-------------------------------------------------------------------------------
(* The theorems: each stage moves by itself.                               *)

LEMMA StageStep ==
  [StageNext]_<<vars, piping, stage>> => [Next]_vars /\ [Relay!Next]_piping
BY DEF StageNext, vars, piping

\* The variables of both stages have their types; activeCount is the number of
\* workers between its increment and its deferred decrement, and a Pipe that
\* returned has no goroutine left.
THEOREM TypeCorrect == StageSpec => []TypesOK
<1>1. StageInit => TypesOK
  BY TypeInit, PipeTypeInit DEF StageInit, TypesOK
<1>2. TypesOK /\ [StageNext]_<<vars, piping, stage>> => TypesOK'
  <2> SUFFICES ASSUME TypesOK, [StageNext]_<<vars, piping, stage>> PROVE TypesOK'
    OBVIOUS
  <2>1. TypeOK /\ Relay!TypeOK /\ [Next]_vars /\ [Relay!Next]_piping
    BY StageStep DEF TypesOK
  <2>2. TypeOK'
    BY <2>1, TypesStep, CountStep, TypeSplit DEF TypeOK, Types, CountRight
  <2>3. Relay!TypeOK'
    BY <2>1, PipeTypeStep
  <2>4. QED
    BY <2>2, <2>3 DEF TypesOK
<1>3. QED
  BY <1>1, <1>2, PTL DEF StageSpec

\* shrinkOne never closes a stop channel twice, for any number of workers: what
\* is registered has not been stopped (it leaves c.tcpIdle under the same lock),
\* and a name is used again only when its stop channel is fresh.
THEOREM StopsOnce == StageSpec => []StoppedOnce
<1> DEFINE Inv == TypeOK /\ IInv
<1>1. StageInit => Inv
  BY TypeInit, TypeSplit DEF StageInit, Init, IInv, Fresh, FreshOf, StoppedOnce
<1>2. Inv /\ [StageNext]_<<vars, piping, stage>> => Inv'
  <2> SUFFICES ASSUME Inv, [StageNext]_<<vars, piping, stage>> PROVE Inv'
    OBVIOUS
  <2>1. [Next]_vars
    BY StageStep
  <2>2. TypeOK'
    BY <2>1, TypesStep, CountStep, TypeSplit DEF TypeOK, Types, CountRight
  <2>3. QED
    BY <2>1, <2>2, TypesStep, FreshStep, StoppedOnceStep DEF IInv
<1>3. Inv => StoppedOnce
  BY DEF IInv
<1>4. QED
  BY <1>1, <1>2, <1>3, PTL DEF StageSpec

\* An end of stream that Pipe passes on is never ahead of data: CopyEnds sends it
\* when the source is empty and over, and such a source stays so, because what
\* could fill it has itself half-closed (LastWord) or is dead for good.
THEOREM EndsAfterData == StageSpec => []EndAfterData
<1>1. StageInit => PipeInv
  BY PipeTypeInit DEF StageInit, Relay!Init, PipeInv, LastWord, Relay!EndAfterData
<1>2. PipeInv /\ [StageNext]_<<vars, piping, stage>> => PipeInv'
  BY StageStep, PipeTypeStep, LastWordStep, EndAfterDataStep DEF PipeInv
<1>3. PipeInv => EndAfterData
  BY DEF PipeInv, EndAfterData
<1>4. QED
  BY <1>1, <1>2, <1>3, PTL DEF StageSpec

===============================================================================
