------------------------------- MODULE DirectDial -------------------------------
(***************************************************************************)
(* Direction "direct" (direct.go), both boxes: the server dials the        *)
(* control connection and fills its own pool, the client listens.  A       *)
(* control connection names its generation and its epoch; a connection is  *)
(* used again when neither box remembers it.                               *)
(*                                                                         *)
(* Links break, dials fail and either process may crash and be restarted,  *)
(* MaxFaults times in all.  Time is abstract but for two assumptions: a    *)
(* user waits longer than the maintainer takes to notice and dial while a  *)
(* generation stands (obtainCtx is dial_timeout + 5 s, the tick 2 s), and, *)
(* if Prompt, the dialer's backoff outlasts what the listener still does   *)
(* for a connection that the dialer gave up.                               *)
(***************************************************************************)
EXTENDS Integers, Sequences, FiniteSets, SequencesExt

CONSTANTS Conns, Pools, Users, None,
          Modes,       \* the modes to consider, of {"tcp", "tcpmux"}
          MinIdle,     \* config min_idle
          MaxStreams,  \* config max_streams_per_session
          QueueCap,    \* capacity of poolQueue
          MaxFaults,   \* bound on faults
          Prompt

ASSUME ModesAssumption == Modes \subseteq {"tcp", "tcpmux"}
ASSUME FaultsAssumption == MaxFaults \in Nat
ASSUME NoneAssumption == None \notin Conns \cup Pools

VARIABLES
  mode, faults,
  dialer,       \* the goroutine of runDialer
  conn,         \* its control connection; s.controlConn while it is "up"
  poolQueue,    \* mode tcp
  sessions,     \* mode tcpmux; pickSession does not tell equally loaded ones apart
  pool,         \* [Pools -> PoolPC], its spawn, then its place
  gen,          \* [Pools -> Conns \cup {None}], the epoch it presents
  dead,         \* pool connections that no longer work
  user, carrier,
  handler,      \* [Conns -> HandlerPC], admitTunnelConn at the listener
  established,  \* the listener's c.controlConn and c.epoch
  broken        \* control connections closed or lost at either end

env == <<mode, faults>>
dialing == <<dialer, conn>>
carriers == <<poolQueue, sessions, pool, gen, dead>>
users == <<user, carrier>>
listener == <<handler, established, broken>>
vars == <<env, dialing, carriers, users, listener>>

PoolPC == {"none", "dial", "acked", "idle", "used"}
HandlerPC == {"none", "check", "ack", "publish", "read"}

Standing == dialer = "up"
Streams(p) == Cardinality({u \in Users : carrier[u] = p})
Free == {p \in Pools : pool[p] = "none" /\ Streams(p) = 0}
Presented(c) == \E p \in Pools : pool[p] = "dial" /\ gen[p] = c
Fault == faults < MaxFaults /\ faults' = faults + 1 /\ UNCHANGED mode

Init ==
  /\ mode \in Modes /\ faults = 0
  /\ dialer = "idle" /\ conn = None
  /\ poolQueue = <<>> /\ sessions = {} /\ pool = [p \in Pools |-> "none"]
  /\ gen = [p \in Pools |-> None] /\ dead = {}
  /\ user = [u \in Users |-> "none"] /\ carrier = [u \in Users |-> None]
  /\ handler = [c \in Conns |-> "none"] /\ established = None /\ broken = {}

-------------------------------------------------------------------------------
(* The dialer: runDialer and dialControlOnce.                              *)

\* A control connection is dialed and its handshake begun.
Dial ==
  /\ dialer = "idle"
  /\ \E c \in Conns :
       /\ handler[c] = "none" /\ ~Presented(c)
       /\ conn' = c /\ broken' = broken \ {c}
       /\ handler' = [handler EXCEPT ![c] = "check"]
  /\ dialer' = "handshake"
  /\ UNCHANGED <<env, carriers, users, established>>

DialFails ==
  /\ dialer = "idle" /\ Fault
  /\ dialer' = "backoff"
  /\ UNCHANGED <<conn, carriers, users, listener>>

\* go spawn(), n times; a free connection stands for a new one.
Spawn(n, c) ==
  LET k == IF n < Cardinality(Free) THEN n ELSE Cardinality(Free)
  IN \E S \in SUBSET Free :
       /\ Cardinality(S) = k
       /\ pool' = [p \in Pools |-> IF p \in S THEN "dial" ELSE pool[p]]
       /\ gen' = [p \in Pools |-> IF p \in S THEN c ELSE gen[p]]
       /\ dead' = dead \ S

\* The epoch arrives: the generation is published, its maintainer starts.
Acked ==
  /\ dialer = "handshake" /\ handler[conn] \in {"publish", "read"}
  /\ dialer' = "up"
  /\ Spawn(MinIdle, conn)
  /\ UNCHANGED <<env, conn, poolQueue, sessions, users, listener>>

\* ackBusy, or the connection breaks before the ack is read.
NotAcked ==
  /\ dialer = "handshake" /\ conn \in broken
  /\ dialer' = "backoff" /\ conn' = None
  /\ UNCHANGED <<env, carriers, users, listener>>

\* The read fails, meets its deadline or finds the link degraded: the generation
\* is cancelled, closed and withdrawn.
ControlEnds ==
  /\ Standing /\ conn \in broken
  /\ dialer' = "drain"
  /\ UNCHANGED <<env, conn, carriers, users, listener>>

\* Mutant of the next action: the teardown of one generation may still run when
\* the next one stands.
DrainLate ==
  /\ dialer \in {"drain", "up"} /\ poolQueue # <<>>
  /\ pool' = [pool EXCEPT ![Head(poolQueue)] = "none"]
  /\ poolQueue' = Tail(poolQueue)
  /\ UNCHANGED <<env, dialing, sessions, gen, dead, users, listener>>

Drop(S) ==
  /\ pool' = [p \in Pools |-> IF p \in S THEN "none" ELSE pool[p]]
  /\ dead' = dead \cup S

\* teardownEpoch: the queue, one receive at a time, and the sessions at once.
DrainOne ==
  /\ dialer = "drain"
  /\ \/ /\ poolQueue # <<>> /\ Drop({Head(poolQueue)})
        /\ poolQueue' = Tail(poolQueue) /\ UNCHANGED sessions
     \/ /\ sessions # {} /\ Drop(sessions)
        /\ sessions' = {} /\ UNCHANGED poolQueue
  /\ UNCHANGED <<env, dialing, gen, users, listener>>

DrainDone ==
  /\ dialer = "drain" /\ poolQueue = <<>> /\ sessions = {}
  /\ dialer' = "backoff" /\ conn' = None
  /\ UNCHANGED <<env, carriers, users, listener>>

\* bo.wait.
Wait ==
  /\ dialer = "backoff"
  /\ Prompt => \A c \in Conns : handler[c] \notin {"check", "ack", "publish"}
  /\ dialer' = "idle"
  /\ UNCHANGED <<env, conn, carriers, users, listener>>

Dialer == Dial \/ Acked \/ NotAcked \/ ControlEnds \/ DrainOne \/ DrainDone \/ Wait

-------------------------------------------------------------------------------
(* dialMaintainer, its spawns, and the pool.                               *)

\* What is queued, dead or alive, and no dial.
poolCount == IF mode = "tcp" THEN Len(poolQueue) ELSE Cardinality(sessions)

\* The 2 s ticker.
Tick ==
  /\ Standing /\ poolCount < MinIdle /\ Free # {}
  /\ Spawn(MinIdle - poolCount, conn)
  /\ UNCHANGED <<env, dialing, poolQueue, sessions, users, listener>>

Become(p, pc) == pool' = [pool EXCEPT ![p] = pc]

\* The listener compares the epoch and acks; nothing ties it to the generation
\* from then on.
HandshakePool(p) ==
  /\ pool[p] = "dial"
  /\ Become(p, IF established = gen[p] THEN "acked" ELSE "none")
  /\ UNCHANGED <<env, dialing, poolQueue, sessions, gen, dead, users, listener>>

\* dialProfile is cancelled with the generation.
CancelPool(p) ==
  /\ pool[p] = "dial" /\ ~(Standing /\ conn = gen[p])
  /\ Become(p, "none")
  /\ UNCHANGED <<env, dialing, poolQueue, sessions, gen, dead, users, listener>>

\* Mutant of the next action: a full queue leaves the connection open.
AdmitLeaks(p) ==
  /\ pool[p] = "acked" /\ Become(p, "idle")
  /\ IF mode = "tcpmux" THEN sessions' = sessions \cup {p} ELSE UNCHANGED sessions
  /\ poolQueue' = IF mode = "tcp" /\ Len(poolQueue) < QueueCap
                   THEN Append(poolQueue, p) ELSE poolQueue
  /\ UNCHANGED <<env, dialing, gen, dead, users, listener>>

\* admitPoolConn, whichever generation stands by now.
AdmitPool(p) ==
  /\ pool[p] = "acked"
  /\ \/ /\ mode = "tcp" /\ Len(poolQueue) < QueueCap
        /\ Become(p, "idle") /\ poolQueue' = Append(poolQueue, p) /\ UNCHANGED sessions
     \/ /\ mode = "tcp" /\ Len(poolQueue) >= QueueCap
        /\ Become(p, "none") /\ UNCHANGED <<poolQueue, sessions>>
     \/ /\ mode = "tcpmux"
        /\ Become(p, "idle") /\ sessions' = sessions \cup {p} /\ UNCHANGED poolQueue
  /\ UNCHANGED <<env, dialing, gen, dead, users, listener>>

PoolSpawn(p) == HandshakePool(p) \/ AdmitPool(p)

-------------------------------------------------------------------------------
(* Users: obtainCarrier in either mode.                                    *)

UserArrives(u) ==
  /\ user[u] = "none"
  /\ user' = [user EXCEPT ![u] = "wait"]
  /\ UNCHANGED <<env, dialing, carriers, carrier, listener>>

\* Mode tcp: the head of the queue; if it died there, so does the user's
\* connection.
TakeConn(u) ==
  /\ mode = "tcp" /\ user[u] = "wait" /\ poolQueue # <<>>
  /\ LET p == Head(poolQueue)
     IN IF p \in dead
        THEN /\ Become(p, "none") /\ user' = [user EXCEPT ![u] = "none"]
             /\ UNCHANGED carrier
        ELSE /\ Become(p, "used") /\ user' = [user EXCEPT ![u] = "relay"]
             /\ carrier' = [carrier EXCEPT ![u] = p]
  /\ poolQueue' = Tail(poolQueue)
  /\ UNCHANGED <<env, dialing, sessions, gen, dead, listener>>

HasRoom(S) == {p \in S : Streams(p) < MaxStreams}

\* Mutant of the next action: closed sessions are skipped but kept.
PickKeepsDead(u) ==
  /\ mode = "tcpmux" /\ user[u] = "wait"
  /\ \E p \in HasRoom(sessions) \ dead :
       /\ user' = [user EXCEPT ![u] = "relay"]
       /\ carrier' = [carrier EXCEPT ![u] = p]
  /\ UNCHANGED <<env, dialing, carriers, listener>>

\* Mode tcpmux: pickSession drops the closed sessions and takes a stream of the
\* least loaded; requestMore has no channel to ask on (ctrlOut is nil).
PickSession(u) ==
  LET live == sessions \ dead
      room == HasRoom(live)
      best == {p \in room : \A q \in room : Streams(p) <= Streams(q)}
  IN /\ mode = "tcpmux" /\ user[u] = "wait"
     /\ room # {} \/ live # sessions
     /\ sessions' = live
     /\ pool' = [p \in Pools |-> IF p \in sessions \cap dead THEN "none" ELSE pool[p]]
     /\ \/ room = {} /\ UNCHANGED users
        \/ \E p \in best : /\ user' = [user EXCEPT ![u] = "relay"]
                           /\ carrier' = [carrier EXCEPT ![u] = p]
     /\ UNCHANGED <<env, dialing, poolQueue, gen, dead, listener>>

\* obtainCtx expires: not while a generation stands.
GiveUp(u) ==
  /\ user[u] = "wait" /\ ~Standing
  /\ user' = [user EXCEPT ![u] = "none"]
  /\ UNCHANGED <<env, dialing, carriers, carrier, listener>>

\* The relay ends: a connection is closed, a stream given back.
RelayEnds(u) ==
  /\ user[u] = "relay"
  /\ user' = [user EXCEPT ![u] = "none"] /\ carrier' = [carrier EXCEPT ![u] = None]
  /\ IF mode = "tcp" THEN Become(carrier[u], "none") ELSE UNCHANGED pool
  /\ UNCHANGED <<env, dialing, poolQueue, sessions, gen, dead, listener>>

Take(u) == TakeConn(u) \/ PickSession(u)

-------------------------------------------------------------------------------
(* The listener: admitTunnelConn and runListenerControl.                   *)

Move(c, pc) == handler' = [handler EXCEPT ![c] = pc]

\* Mutant of the next action: the check for an established channel is missing.
CheckNothing(c) ==
  /\ handler[c] = "check" /\ Move(c, "ack")
  /\ UNCHANGED <<env, dialing, carriers, users, established, broken>>

\* serverHandshake, which fails when the dialer is gone before it has sent its
\* tag; then, under c.mu: ackBusy while a generation is established.
Check(c) ==
  /\ handler[c] = "check"
  /\ \/ established = None /\ Move(c, "ack") /\ UNCHANGED broken
     \/ /\ established # None \/ c \in broken
        /\ Move(c, "none") /\ broken' = broken \cup {c}
  /\ UNCHANGED <<env, dialing, carriers, users, established>>

\* serverAckControl, which may fail on a broken connection.
Ack(c) ==
  /\ handler[c] = "ack"
  /\ Move(c, "publish") \/ (c \in broken /\ Move(c, "none"))
  /\ UNCHANGED <<env, dialing, carriers, users, established, broken>>

Publish(c) ==
  /\ handler[c] = "publish" /\ Move(c, "read") /\ established' = c
  /\ UNCHANGED <<env, dialing, carriers, users, broken>>

\* Mutant of the next action: the handler forgets to withdraw its generation.
ReadEndsKeeps(c) ==
  /\ handler[c] = "read" /\ c \in broken /\ Move(c, "none")
  /\ UNCHANGED <<env, dialing, carriers, users, established, broken>>

\* The read fails or meets its deadline: the generation is withdrawn if it is
\* still the established one.
ReadEnds(c) ==
  /\ handler[c] = "read" /\ c \in broken /\ Move(c, "none")
  /\ established' = IF established = c THEN None ELSE established
  /\ UNCHANGED <<env, dialing, carriers, users, broken>>

Handler(c) == Check(c) \/ Ack(c) \/ Publish(c) \/ ReadEnds(c)

-------------------------------------------------------------------------------
(* Faults.                                                                 *)

\* A control connection is lost or degraded.
LinkBreaks(c) ==
  /\ Fault /\ c \notin broken /\ (conn = c \/ handler[c] # "none")
  /\ broken' = broken \cup {c}
  /\ UNCHANGED <<dialing, carriers, users, handler, established>>

\* A pool connection dies, or its dial fails.
CarrierDies(p) ==
  /\ Fault /\ p \notin dead
  /\ \/ pool[p] = "dial" /\ Become(p, "none") /\ UNCHANGED dead
     \/ pool[p] \in {"acked", "idle", "used"} /\ dead' = dead \cup {p} /\ UNCHANGED pool
  /\ UNCHANGED <<dialing, poolQueue, sessions, gen, users, listener>>

\* The listener's process is restarted: what it accepted is closed.
ListenerCrashes ==
  /\ Fault
  /\ handler' = [c \in Conns |-> "none"] /\ established' = None /\ broken' = Conns
  /\ dead' = dead \cup {p \in Pools : pool[p] \in {"acked", "idle", "used"}}
  /\ UNCHANGED <<dialing, poolQueue, sessions, pool, gen, users>>

\* The dialer's process is restarted: what it dialed is closed, its users lost.
DialerCrashes ==
  /\ Fault
  /\ dialer' = "backoff" /\ conn' = None
  /\ broken' = broken \cup ({conn} \ {None})
  /\ poolQueue' = <<>> /\ sessions' = {} /\ pool' = [p \in Pools |-> "none"]
  /\ user' = [u \in Users |-> "none"] /\ carrier' = [u \in Users |-> None]
  /\ UNCHANGED <<gen, dead, handler, established>>

Next ==
  \/ Dialer \/ DialFails \/ Tick
  \/ \E p \in Pools : PoolSpawn(p) \/ CancelPool(p) \/ CarrierDies(p)
  \/ \E u \in Users : UserArrives(u) \/ Take(u) \/ GiveUp(u) \/ RelayEnds(u)
  \/ \E c \in Conns : Handler(c) \/ LinkBreaks(c)
  \/ ListenerCrashes \/ DialerCrashes

Spec == Init /\ [][Next]_vars

\* Goroutines that can run do; nothing is assumed of users and faults.
Fairness ==
  /\ WF_vars(Dialer) /\ WF_vars(Tick)
  /\ \A p \in Pools : WF_vars(PoolSpawn(p))
  /\ \A u \in Users : SF_vars(Take(u))
  /\ \A c \in Conns : WF_vars(Handler(c))

FairSpec == Spec /\ Fairness

-------------------------------------------------------------------------------
(* Properties.                                                             *)

\* The types of the variables.
TypeOK ==
  /\ mode \in Modes /\ faults \in 0..MaxFaults
  /\ dialer \in {"idle", "handshake", "up", "drain", "backoff"}
  /\ conn \in Conns \cup {None} /\ (dialer \in {"handshake", "up", "drain"} <=> conn # None)
  /\ poolQueue \in Seq(Pools) /\ sessions \subseteq Pools /\ pool \in [Pools -> PoolPC]
  /\ gen \in [Pools -> Conns \cup {None}] /\ dead \subseteq Pools
  /\ user \in [Users -> {"none", "wait", "relay"}]
  /\ carrier \in [Users -> Pools \cup {None}]
  /\ handler \in [Conns -> HandlerPC] /\ established \in Conns \cup {None}
  /\ broken \subseteq Conns

\* The pool and the users account for every carrier, through spawns that outlive
\* their generation, teardowns and crashes: what is idle is queued once, or in the
\* list of the sessions, and in mode tcp a carrier in use has one user.
CarriersAccounted ==
  /\ TypeOK
  /\ {p \in Pools : pool[p] = "idle"} = IF mode = "tcp" THEN ToSet(poolQueue) ELSE sessions
  /\ IsInjective(poolQueue)
  /\ \A u \in Users : user[u] = "relay" <=> carrier[u] # None
  /\ mode = "tcp" => \A p \in Pools : Streams(p) = IF pool[p] = "used" THEN 1 ELSE 0

\* A working idle carrier of the generation that stands is taken by a user or
\* stays: no teardown of an earlier generation and no pruning reaches it, as the
\* teardown of the reverse direction may (TeardownOwnOnly of TunnelServer).
KeptWhileStanding ==
  [][\A p \in Pools :
       Standing /\ Standing' /\ pool[p] = "idle" /\ pool'[p] = "none" /\ gen[p] = conn
         => p \in dead]_vars

\* protocol.go:27, "a control channel is already established": the listener has
\* one generation at a time, although it notices the end of one later than the
\* dialer, which dials again meanwhile.
OneEstablished ==
  \A c, d \in Conns : {handler[c], handler[d]} \subseteq {"publish", "read"} => c = d

\* However links break and processes crash, in the end both boxes hold the same
\* generation again, and again.
ControlRestored == []<>(Standing /\ established = conn)

\* A user who waits gets a carrier (or, in mode tcp, a dead one) in either mode,
\* although poolCount counts dead sessions and requestMore does nothing.
UserServed == \A u \in Users : user[u] = "wait" ~> user[u] # "wait"
===============================================================================
