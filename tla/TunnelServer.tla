----------------------------- MODULE TunnelServer -----------------------------
(***************************************************************************)
(* The server role of the tunnel in Direction "reverse", Mode "tcp"        *)
(* (server.go): the handlers of inbound control connections, the writer    *)
(* goroutine of each, the handlers of inbound pool connections, the pool   *)
(* queue, and the handlers of end users, which borrow a pool connection.   *)
(*                                                                         *)
(* Every goroutine has a program counter; an action is the code between    *)
(* two points where another goroutine can run: a critical section of s.mu, *)
(* one channel operation, or one blocking read or write.  The generation   *)
(* of a control connection (its random 8-byte epoch) and its outCh are     *)
(* named by the connection they were made for.                             *)
(*                                                                         *)
(* The client and the network are the environment: a control connection    *)
(* may stall towards the client or end at any time, and a client may       *)
(* present the epoch of any generation it was ever given.                  *)
(***************************************************************************)
EXTENDS Integers, Sequences, FiniteSets

CONSTANTS Controls,    \* inbound control connections
          Pools,       \* inbound pool connections
          Users,       \* connections of end users on the forwarded ports
          OutCap,      \* capacity of a generation's outCh
          QueueCap,    \* capacity of poolQueue
          MaxLoad,     \* bound on what the environment brings, see Load
          None         \* nil

ASSUME CapAssumption == OutCap \in Nat \ {0} /\ QueueCap \in Nat \ {0}
ASSUME NoneAssumption == None \notin Controls /\ None \notin Pools

VARIABLES
  controlConn, epoch, ctrlOut,  \* the fields of Server guarded by s.mu
  handler,    \* [Controls -> HandlerPC], the goroutine of admitTunnelConn
  writer,     \* [Controls -> {"off", "run"}], the writer goroutine
  out,        \* [Controls -> Seq(Signals)], the buffer of each outCh
  outClosed,  \* [Controls -> BOOLEAN]
  link,       \* [Controls -> Links], what the network and the client do
  poolQueue,  \* Seq(Pools)
  pool,       \* [Pools -> PoolPC], the handler, then the place, of each
  presented,  \* [Pools -> Controls \cup {None}], the epoch each presents
  user,       \* [Users -> UserPC], the goroutine of handleLocalConn
  userCh,     \* [Users -> Controls \cup {None}], the outCh requestMore read
  carrier     \* [Users -> Pools \cup {None}], the carrier each user holds

server == <<controlConn, epoch, ctrlOut>>
ctrl == <<handler, writer, out, outClosed, link>>
tcpPool == <<poolQueue, pool, presented>>
usr == <<user, userCh, carrier>>
vars == <<server, ctrl, tcpPool, usr>>

HandlerPC == {"none", "check", "ack", "publish", "read", "pong",
              "ended", "drain", "done"}
PoolPC == {"none", "handshake", "ack", "admit", "idle", "held", "closed"}
UserPC == {"none", "try", "ask", "send", "wait", "relay", "done",
           "panic"}
Signals == {"needConn", "pong"}
Links == {"up", "stalled", "gone"}

IsIn(p, q) == \E i \in 1..Len(q) : q[i] = p
Distinct(q) == \A i, j \in 1..Len(q) : q[i] = q[j] => i = j

\* The server has closed its end of the control connection.
ConnClosed(c) == handler[c] \in {"drain", "done"}

Init ==
  /\ controlConn = None /\ epoch = None /\ ctrlOut = None
  /\ handler = [c \in Controls |-> "none"]
  /\ writer = [c \in Controls |-> "off"]
  /\ out = [c \in Controls |-> <<>>]
  /\ outClosed = [c \in Controls |-> FALSE]
  /\ link = [c \in Controls |-> "up"]
  /\ poolQueue = <<>>
  /\ pool = [p \in Pools |-> "none"]
  /\ presented = [p \in Pools |-> None]
  /\ user = [u \in Users |-> "none"]
  /\ userCh = [u \in Users |-> None]
  /\ carrier = [u \in Users |-> None]

-------------------------------------------------------------------------------
(* The environment.  MaxLoad bounds what arrives in one behaviour, so that *)
(* TLC covers two generations with few users and one generation with many  *)
(* in one instance.                                                        *)

Load == 2 * Cardinality({c \in Controls : handler[c] # "none"})
        + Cardinality({p \in Pools : pool[p] # "none"})
        + Cardinality({u \in Users : user[u] # "none"})

\* A client has dialed and authenticated (serverHandshake, roleControl).
ControlArrives(c) ==
  /\ handler[c] = "none" /\ Load + 2 <= MaxLoad
  /\ handler' = [handler EXCEPT ![c] = "check"]
  /\ UNCHANGED <<server, writer, out, outClosed, link, tcpPool, usr>>

\* The direction to the client stops draining: writes meet their deadline,
\* what the client sends still arrives.
LinkStalls(c) ==
  /\ handler[c] # "none" /\ ~ConnClosed(c) /\ link[c] = "up"
  /\ link' = [link EXCEPT ![c] = "stalled"]
  /\ UNCHANGED <<server, handler, writer, out, outClosed, tcpPool, usr>>

\* The client closes, sends sigClose, or falls silent past the read deadline.
LinkEnds(c) ==
  /\ handler[c] # "none" /\ ~ConnClosed(c) /\ link[c] # "gone"
  /\ link' = [link EXCEPT ![c] = "gone"]
  /\ UNCHANGED <<server, handler, writer, out, outClosed, tcpPool, usr>>

-------------------------------------------------------------------------------
(* admitTunnelConn and runControl for a control connection.                *)

\* Under s.mu: refuse while a generation is published, else make an epoch.
CheckControl(c) ==
  /\ handler[c] = "check"
  /\ handler' = [handler EXCEPT ![c] =
                   IF controlConn = None THEN "ack" ELSE "done"]
  /\ UNCHANGED <<server, writer, out, outClosed, link, tcpPool, usr>>

\* serverAckControl, outside s.mu: the client now knows its epoch.
AckControl(c) ==
  /\ handler[c] = "ack"
  /\ \/ handler' = [handler EXCEPT ![c] = "publish"]
     \/ /\ link[c] # "up"
        /\ handler' = [handler EXCEPT ![c] = "done"]
  /\ UNCHANGED <<server, writer, out, outClosed, link, tcpPool, usr>>

\* The head of runControl: publish the generation, start its writer.
Publish(c) ==
  /\ handler[c] = "publish"
  /\ controlConn' = c /\ epoch' = c /\ ctrlOut' = c
  /\ writer' = [writer EXCEPT ![c] = "run"]
  /\ handler' = [handler EXCEPT ![c] = "read"]
  /\ UNCHANGED <<out, outClosed, link, tcpPool, usr>>

\* The reader gets sigHeartbeat and turns to answering it.
ReadHeartbeat(c) ==
  /\ handler[c] = "read" /\ link[c] # "gone"
  /\ handler' = [handler EXCEPT ![c] = "pong"]
  /\ UNCHANGED <<server, writer, out, outClosed, link, tcpPool, usr>>

\* outCh <- sigPong: blocks while the buffer is full.
SendPong(c) ==
  /\ handler[c] = "pong" /\ Len(out[c]) < OutCap
  /\ out' = [out EXCEPT ![c] = Append(@, "pong")]
  /\ handler' = [handler EXCEPT ![c] = "read"]
  /\ UNCHANGED <<server, writer, outClosed, link, tcpPool, usr>>

\* The read fails, meets its deadline, or returns sigClose.
ReadEnds(c) ==
  /\ handler[c] = "read" /\ link[c] = "gone"
  /\ handler' = [handler EXCEPT ![c] = "ended"]
  /\ UNCHANGED <<server, writer, out, outClosed, link, tcpPool, usr>>

\* Mutants of the next action: s.ctrlOut is not reset; the comparison of
\* s.controlConn with conn is missing.
UnpublishKeepsOut(c) ==
  /\ handler[c] = "ended"
  /\ handler' = [handler EXCEPT ![c] = "drain"]
  /\ IF controlConn = c
     THEN /\ controlConn' = None /\ epoch' = None /\ UNCHANGED ctrlOut
          /\ outClosed' = [outClosed EXCEPT ![ctrlOut] = TRUE]
     ELSE UNCHANGED <<server, outClosed>>
  /\ UNCHANGED <<writer, out, link, tcpPool, usr>>

UnpublishAny(c) ==
  /\ handler[c] = "ended"
  /\ handler' = [handler EXCEPT ![c] = "drain"]
  /\ controlConn' = None /\ epoch' = None /\ ctrlOut' = None
  /\ outClosed' = [outClosed EXCEPT ![c] = TRUE]
  /\ UNCHANGED <<writer, out, link, tcpPool, usr>>

\* The tail of runControl: withdraw what this generation published, if it
\* is still there, and close the connection.
Unpublish(c) ==
  /\ handler[c] = "ended"
  /\ handler' = [handler EXCEPT ![c] = "drain"]
  /\ IF controlConn = c
     THEN /\ controlConn' = None /\ epoch' = None /\ ctrlOut' = None
          /\ outClosed' = [outClosed EXCEPT ![ctrlOut] = TRUE]
     ELSE UNCHANGED <<server, outClosed>>
  /\ UNCHANGED <<writer, out, link, tcpPool, usr>>

\* teardownEpoch: close whatever is in poolQueue, one receive at a time.
DrainOne(c) ==
  /\ handler[c] = "drain" /\ poolQueue # <<>>
  /\ poolQueue' = Tail(poolQueue)
  /\ pool' = [pool EXCEPT ![Head(poolQueue)] = "closed"]
  /\ UNCHANGED <<server, ctrl, presented, usr>>

DrainDone(c) ==
  /\ handler[c] = "drain" /\ poolQueue = <<>>
  /\ handler' = [handler EXCEPT ![c] = "done"]
  /\ UNCHANGED <<server, writer, out, outClosed, link, tcpPool, usr>>

Handler(c) == \/ CheckControl(c) \/ AckControl(c) \/ Publish(c)
              \/ SendPong(c) \/ ReadEnds(c) \/ Unpublish(c)
              \/ DrainOne(c) \/ DrainDone(c)

-------------------------------------------------------------------------------
(* The writer goroutine of runControl.                                     *)

\* A signal is taken from outCh and written; the write may go nowhere.
WriterSend(c) ==
  /\ writer[c] = "run" /\ out[c] # <<>> /\ ~ConnClosed(c)
  /\ out' = [out EXCEPT ![c] = Tail(@)]
  /\ UNCHANGED <<server, handler, writer, outClosed, link, tcpPool, usr>>

\* Mutant of the next action: no ticker, so only a queued signal can fail.
WriterFailsOnSignal(c) ==
  /\ writer[c] = "run" /\ (link[c] # "up" \/ ConnClosed(c))
  /\ out[c] # <<>>
  /\ out' = [out EXCEPT ![c] = Tail(@)]
  /\ writer' = [writer EXCEPT ![c] = "off"]
  /\ UNCHANGED <<server, handler, outClosed, link, tcpPool, usr>>

\* A write fails: a heartbeat of the ticker, or a signal just taken from
\* outCh.  The writer returns; it leaves the connection open.
WriterFails(c) ==
  /\ writer[c] = "run" /\ (link[c] # "up" \/ ConnClosed(c))
  /\ \/ UNCHANGED out
     \/ /\ out[c] # <<>>
        /\ out' = [out EXCEPT ![c] = Tail(@)]
  /\ writer' = [writer EXCEPT ![c] = "off"]
  /\ UNCHANGED <<server, handler, outClosed, link, tcpPool, usr>>

\* outCh is closed and empty.
WriterSeesClose(c) ==
  /\ writer[c] = "run" /\ outClosed[c] /\ out[c] = <<>>
  /\ writer' = [writer EXCEPT ![c] = "off"]
  /\ UNCHANGED <<server, handler, out, outClosed, link, tcpPool, usr>>

Writer(c) == WriterSend(c) \/ WriterFails(c) \/ WriterSeesClose(c)

-------------------------------------------------------------------------------
(* Inbound pool connections.                                               *)

\* A client that was acked for generation c dials a pool connection.
PoolDials(p, c) ==
  /\ pool[p] = "none" /\ Load < MaxLoad
  /\ handler[c] \in {"publish", "read", "pong", "ended", "drain", "done"}
  /\ pool' = [pool EXCEPT ![p] = "handshake"]
  /\ presented' = [presented EXCEPT ![p] = c]
  /\ UNCHANGED <<server, ctrl, poolQueue, usr>>

\* serverHandshake compares the presented epoch with currentEpoch().
PoolHandshake(p) ==
  /\ pool[p] = "handshake"
  /\ pool' = [pool EXCEPT ![p] =
                IF presented[p] = epoch THEN "ack" ELSE "closed"]
  /\ UNCHANGED <<server, ctrl, poolQueue, presented, usr>>

\* serverAckPool succeeds, or fails because the client is gone.
PoolAck(p) ==
  /\ pool[p] = "ack"
  /\ \E next \in {"admit", "closed"} : pool' = [pool EXCEPT ![p] = next]
  /\ UNCHANGED <<server, ctrl, poolQueue, presented, usr>>

\* Mutant of the next action: a full queue leaves the connection open.
PoolAdmitLeaks(p) ==
  /\ pool[p] = "admit"
  /\ IF Len(poolQueue) < QueueCap
     THEN poolQueue' = Append(poolQueue, p) ELSE UNCHANGED poolQueue
  /\ pool' = [pool EXCEPT ![p] = "idle"]
  /\ UNCHANGED <<server, ctrl, presented, usr>>

\* admitPoolConn: queue the connection, or close it when the queue is full.
PoolAdmit(p) ==
  /\ pool[p] = "admit"
  /\ IF Len(poolQueue) < QueueCap
     THEN /\ poolQueue' = Append(poolQueue, p)
          /\ pool' = [pool EXCEPT ![p] = "idle"]
     ELSE /\ pool' = [pool EXCEPT ![p] = "closed"]
          /\ UNCHANGED poolQueue
  /\ UNCHANGED <<server, ctrl, presented, usr>>

PoolHandler(p) == PoolHandshake(p) \/ PoolAck(p) \/ PoolAdmit(p)

-------------------------------------------------------------------------------
(* End users: handleLocalConn, obtainCarrier, obtainPoolConn, requestMore. *)

UserArrives(u) ==
  /\ user[u] = "none" /\ Load < MaxLoad
  /\ user' = [user EXCEPT ![u] = "try"]
  /\ UNCHANGED <<server, ctrl, tcpPool, userCh, carrier>>

\* A receive from poolQueue, by the first select of obtainPoolConn ("try")
\* or by the second ("wait").
TakeConn(u) ==
  /\ user[u] \in {"try", "wait"} /\ poolQueue # <<>>
  /\ poolQueue' = Tail(poolQueue)
  /\ pool' = [pool EXCEPT ![Head(poolQueue)] = "held"]
  /\ carrier' = [carrier EXCEPT ![u] = Head(poolQueue)]
  /\ user' = [user EXCEPT ![u] = "relay"]
  /\ UNCHANGED <<server, ctrl, presented, userCh>>

\* The first select finds the queue empty.
TryFails(u) ==
  /\ user[u] = "try" /\ poolQueue = <<>>
  /\ user' = [user EXCEPT ![u] = "ask"]
  /\ UNCHANGED <<server, ctrl, tcpPool, userCh, carrier>>

\* requestMore reads s.ctrlOut under s.mu and lets the lock go ...
ReadCtrlOut(u) ==
  /\ user[u] = "ask"
  /\ userCh' = [userCh EXCEPT ![u] = ctrlOut]
  /\ user' = [user EXCEPT ![u] = IF ctrlOut = None THEN "wait" ELSE "send"]
  /\ UNCHANGED <<server, ctrl, tcpPool, carrier>>

\* ... and then sends without blocking; a send on a closed channel panics.
SendNeedConn(u) ==
  /\ user[u] = "send" /\ ~outClosed[userCh[u]]
  /\ out' = [out EXCEPT ![userCh[u]] =
               IF Len(@) < OutCap THEN Append(@, "needConn") ELSE @]
  /\ user' = [user EXCEPT ![u] = "wait"]
  /\ UNCHANGED <<server, handler, writer, outClosed, link, tcpPool,
                 userCh, carrier>>

SendPanics(u) ==
  /\ user[u] = "send" /\ outClosed[userCh[u]]
  /\ user' = [user EXCEPT ![u] = "panic"]
  /\ UNCHANGED <<server, ctrl, tcpPool, userCh, carrier>>

\* A broadcast of s.resource or the 300 ms timer: round the loop again.
WaitWakes(u) ==
  /\ user[u] = "wait"
  /\ user' = [user EXCEPT ![u] = "try"]
  /\ UNCHANGED <<server, ctrl, tcpPool, userCh, carrier>>

\* Mutant of the next action: obtainCtx has no deadline.
WaitForever(u) == user[u] = "wait" /\ UNCHANGED vars

\* The deadline of obtainCtx: the user's connection is closed.
WaitExpires(u) ==
  /\ user[u] = "wait"
  /\ user' = [user EXCEPT ![u] = "done"]
  /\ UNCHANGED <<server, ctrl, tcpPool, userCh, carrier>>

\* Mutant of the next action: the carrier goes back to the pool.
RelayReturns(u) ==
  /\ user[u] = "relay"
  /\ poolQueue' = Append(poolQueue, carrier[u])
  /\ pool' = [pool EXCEPT ![carrier[u]] = "idle"]
  /\ carrier' = [carrier EXCEPT ![u] = None]
  /\ user' = [user EXCEPT ![u] = "done"]
  /\ UNCHANGED <<server, ctrl, presented, userCh>>

\* The target is announced and the bytes relayed (or the announcement
\* fails); either way both connections end closed.
RelayEnds(u) ==
  /\ user[u] = "relay"
  /\ pool' = [pool EXCEPT ![carrier[u]] = "closed"]
  /\ carrier' = [carrier EXCEPT ![u] = None]
  /\ user' = [user EXCEPT ![u] = "done"]
  /\ UNCHANGED <<server, ctrl, poolQueue, presented, userCh>>

Obtain(u) == \/ TakeConn(u) \/ TryFails(u) \/ ReadCtrlOut(u)
             \/ SendNeedConn(u) \/ SendPanics(u) \/ WaitWakes(u)
             \/ WaitExpires(u)

-------------------------------------------------------------------------------
\* A goroutine has panicked: the process is gone.
Panicked == \E u \in Users : user[u] = "panic"

Step ==
  \/ \E c \in Controls : \/ ControlArrives(c) \/ LinkStalls(c) \/ LinkEnds(c)
                         \/ ReadHeartbeat(c) \/ Handler(c) \/ Writer(c)
                         \/ \E p \in Pools : PoolDials(p, c)
  \/ \E p \in Pools : PoolHandler(p)
  \/ \E u \in Users : UserArrives(u) \/ Obtain(u) \/ RelayEnds(u)

Next == ~Panicked /\ Step

Spec == Init /\ [][Next]_vars

Running(A) == ~Panicked /\ A

\* A goroutine that can run does.  The deadline of obtainCtx is measured from
\* the start of the loop, so it also comes when the loop keeps being woken.
\* Nothing is assumed of the clients, of the links, or of how long a user's
\* connection is relayed.
Fairness ==
  /\ \A c \in Controls : WF_vars(Running(Handler(c))) /\ WF_vars(Running(Writer(c)))
  /\ \A p \in Pools : WF_vars(Running(PoolHandler(p)))
  /\ \A u \in Users : /\ WF_vars(Running(Obtain(u)))
                      /\ SF_vars(Running(WaitExpires(u)))

FairSpec == Spec /\ Fairness

-------------------------------------------------------------------------------
(* Properties.                                                             *)

\* The types of the variables; a request is only sent on a channel that was
\* published.
TypeOK ==
  /\ controlConn \in Controls \cup {None}
  /\ epoch \in Controls \cup {None}
  /\ ctrlOut \in Controls \cup {None}
  /\ handler \in [Controls -> HandlerPC]
  /\ writer \in [Controls -> {"off", "run"}]
  /\ out \in [Controls -> Seq(Signals)]
  /\ outClosed \in [Controls -> BOOLEAN]
  /\ link \in [Controls -> Links]
  /\ poolQueue \in Seq(Pools)
  /\ pool \in [Pools -> PoolPC]
  /\ presented \in [Pools -> Controls \cup {None}]
  /\ user \in [Users -> UserPC]
  /\ userCh \in [Users -> Controls \cup {None}]
  /\ carrier \in [Users -> Pools \cup {None}]
  /\ \A u \in Users : user[u] = "send" => userCh[u] \in Controls

\* What s.mu guards stays consistent however the handlers of two control
\* connections interleave, the overwriting of one generation by another
\* included: the three fields name one generation, its handler has not
\* finished, and its outCh is open, so close(s.ctrlOut) never closes a closed
\* or nil channel and requestMore never starts from a dead one.  Only the end
\* of a handler closes its outCh.
PublishedOpen ==
  /\ epoch = controlConn /\ ctrlOut = controlConn
  /\ controlConn # None => /\ handler[controlConn] \in {"read", "pong", "ended"}
                           /\ ~outClosed[controlConn]
  /\ \A c \in Controls : outClosed[c] => ConnClosed(c)

\* A published generation is withdrawn only by the end of its own handler, or
\* gives way to one published over it: a handler whose generation was
\* overwritten leaves the survivor alone when it ends.
OnlyOwnerWithdraws ==
  [][\A c \in Controls : controlConn = c /\ controlConn' # c
       => \/ handler[c] = "ended" /\ handler'[c] = "drain"
          \/ controlConn' # None]_vars

\* Every pool connection is in one place: the queued ones are the idle ones,
\* each queued once, each held one has one user, and no user holds another.
\* Drains, users and admissions compete for poolQueue.
PoolAccounted ==
  /\ \A p \in Pools : pool[p] = "idle" <=> IsIn(p, poolQueue)
  /\ Distinct(poolQueue) /\ Len(poolQueue) <= QueueCap
  /\ \A u \in Users : carrier[u] # None => pool[carrier[u]] = "held"
  /\ \A u, v \in Users : carrier[u] = carrier[v] /\ carrier[u] # None => u = v
  /\ \A u \in Users : user[u] = "relay" <=> carrier[u] # None

\* "Each tunnel connection is used once" (README.md, mode tcp): the server
\* implements ConnPool, the places before the queue being outside the pool.
PoolState ==
  [p \in Pools |-> IF pool[p] \in {"none", "handshake", "ack", "admit"}
                   THEN "outside" ELSE pool[p]]

Used == INSTANCE ConnPool WITH Conns <- Pools, Capacity <- QueueCap,
                               NoConn <- None, state <- PoolState
UsedOnce == Used!Spec

\* A user's wait for a carrier ends, with a pool connection or by obtainCtx,
\* however many other users take the connections that would have served it.
UserResolved ==
  \A u \in Users : user[u] = "try" ~> user[u] \in {"relay", "done"} \/ Panicked

\* A generation that has ended leaves no goroutine behind: its handler gets
\* through the teardown while pool connections still arrive, and its writer
\* returns although an overwritten generation's outCh is never closed.
GenerationReleased ==
  \A c \in Controls : handler[c] = "ended"
                        ~> (handler[c] = "done" /\ writer[c] = "off") \/ Panicked

-------------------------------------------------------------------------------
(* What the comments and documents say, and the code does not do.          *)

\* protocol.go:27, "a control channel is already established": at most one
\* control connection is past its ack and not yet ended.
OneEstablished ==
  \A c, d \in Controls :
    /\ handler[c] \in {"publish", "read", "pong"}
    /\ handler[d] \in {"publish", "read", "pong"}
    => c = d

\* README.md:135, "an orphaned connection from a previous generation can't
\* join a new pool": while a generation is published, every idle pool
\* connection presented its epoch.
NoOrphanQueued ==
  epoch # None => \A i \in 1..Len(poolQueue) : presented[poolQueue[i]] = epoch

\* server.go:262, teardownEpoch "closes every pool connection ... that
\* presented this epoch": the end of one generation closes no idle pool
\* connection of the generation now published.
TeardownOwnOnly ==
  [][\A c \in Controls : DrainOne(c) => presented[Head(poolQueue)] # epoch]_vars

\* server.go:183, a generation is owned "until the connection breaks": once
\* the client is gone its generation is withdrawn, so that it can return.
GenerationEnds ==
  \A c \in Controls :
    controlConn = c /\ link[c] = "gone" ~> controlConn # c \/ Panicked

\* server.go:298, a request that cannot be queued is skipped, "the client will
\* catch up": asking for a connection never brings the server down.
NeverPanics == ~Panicked
===============================================================================
