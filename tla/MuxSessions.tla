------------------------------ MODULE MuxSessions ------------------------------
(***************************************************************************)
(* Mode "tcpmux" at both ends: the server's list of mux sessions, from     *)
(* which each user gets a stream (server.go, obtainSession, pickSession,   *)
(* obtainCarrier), the wake-up of waiting users (util.go, notifier), and   *)
(* the client's sessions, stream handlers and shrinkOne (client.go).       *)
(*                                                                         *)
(* A user names the stream opened for it.  smux is external: a stream that *)
(* is opened reaches the other end's AcceptStream while both ends of the   *)
(* session are open, and the close of one end reaches the other later.     *)
(***************************************************************************)
EXTENDS Integers, Sequences, FiniteSets

CONSTANTS Sessions, Users,
          MaxStreams,     \* config max_streams_per_session
          MaxIdle,        \* config max_idle of the client
          MaxLoad,        \* bound on the sessions and users that arrive
          NoSession

ASSUME LimitAssumption == MaxStreams \in Nat \ {0} /\ MaxIdle \in Nat \ {0}
ASSUME NoSessionAssumption == NoSession \notin Sessions
ASSUME FiniteAssumption == IsFiniteSet(Users) /\ IsFiniteSet(Sessions)

VARIABLES
  acked,        \* sessions whose pool handshake is complete
  srvSessions,  \* s.sessions
  srvKnown,     \* sessions the server has ever appended
  srvClosed,    \* sessions closed at the server's end
  srvStreams,   \* [Sessions -> Int], muxSession.streams
  user,         \* [Users -> UserPC]
  userSession,  \* [Users -> Sessions \cup {NoSession}]
  cliSessions,  \* c.sessions, a sequence in the order of registration
  cliClosed,    \* sessions closed at the client's end
  cliStreams,   \* [Sessions -> Int], clientSession.streams
  cliWorker,    \* [Sessions -> WorkerPC], the goroutine of muxSessionWorker
  stream,       \* [Users -> StreamPC], the client's end of the user's stream
  stop,         \* sessions whose stop channel is closed
  shrinkLeft,   \* calls of shrinkOne left in this tick
  panicked      \* a stop channel was closed twice

srv == <<acked, srvSessions, srvKnown, srvClosed, srvStreams, user, userSession>>
cli == <<cliSessions, cliClosed, cliStreams, cliWorker, stream, stop, shrinkLeft, panicked>>
vars == <<srv, cli>>

UserPC == {"none", "pick", "arm", "sleep", "woken", "open", "add", "relay", "done"}
WorkerPC == {"none", "accept", "remove", "gone"}
StreamPC == {"none", "syn", "accepted", "handled", "ended"}

\* Streams the server counts on s, and streams it is about to count.
Relaying(s) == {u \in Users : user[u] = "relay" /\ userSession[u] = s}
Opening(s) == {u \in Users : user[u] \in {"open", "add"} /\ userSession[u] = s}
Handling(s) == {u \in Users : stream[u] = "handled" /\ userSession[u] = s}
Spare(s) == srvStreams[s] < MaxStreams
Workers == {s \in Sessions : cliWorker[s] \in {"accept", "remove"}}
Load == Cardinality(acked) + Cardinality({u \in Users : user[u] # "none"})

Init ==
  /\ acked = {} /\ srvSessions = {} /\ srvKnown = {} /\ srvClosed = {}
  /\ srvStreams = [s \in Sessions |-> 0]
  /\ user = [u \in Users |-> "none"]
  /\ userSession = [u \in Users |-> NoSession]
  /\ cliSessions = <<>> /\ cliClosed = {}
  /\ cliStreams = [s \in Sessions |-> 0]
  /\ cliWorker = [s \in Sessions |-> "none"]
  /\ stream = [u \in Users |-> "none"]
  /\ stop = {} /\ shrinkLeft = 0 /\ panicked = FALSE

-------------------------------------------------------------------------------
(* The server's sessions.                                                  *)

\* The pool handshake of a new connection succeeds at both ends.
Ack(s) ==
  /\ s \notin acked /\ Load < MaxLoad
  /\ acked' = acked \cup {s}
  /\ UNCHANGED <<srvSessions, srvKnown, srvClosed, srvStreams, user, userSession, cli>>

\* s.resource.broadcast() wakes whoever has fetched the channel, no one else.
Broadcast == user' = [u \in Users |-> IF user[u] = "sleep" THEN "woken" ELSE user[u]]

\* admitPoolConn: append the session, then broadcast.
AdmitSession(s) ==
  /\ s \in acked \ srvKnown
  /\ srvKnown' = srvKnown \cup {s}
  /\ srvSessions' = srvSessions \cup {s}
  /\ Broadcast
  /\ UNCHANGED <<acked, srvClosed, srvStreams, userSession, cli>>

\* The server's end closes: the client's close arrives, or keepalive fails.
SessionDies(s) ==
  /\ s \in srvKnown \ srvClosed
  /\ srvClosed' = srvClosed \cup {s}
  /\ UNCHANGED <<acked, srvSessions, srvKnown, srvStreams, user, userSession, cli>>

\* teardownEpoch: close every session and forget the list.
Teardown ==
  /\ srvSessions # {}
  /\ srvClosed' = srvClosed \cup srvSessions
  /\ srvSessions' = {}
  /\ UNCHANGED <<acked, srvKnown, srvStreams, user, userSession, cli>>

-------------------------------------------------------------------------------
(* Users: handleLocalConn, obtainCarrier, obtainSession.                   *)

UserArrives(u) ==
  /\ user[u] = "none" /\ Load < MaxLoad
  /\ user' = [user EXCEPT ![u] = "pick"]
  /\ UNCHANGED <<acked, srvSessions, srvKnown, srvClosed, srvStreams, userSession, cli>>

\* pickSession, under sessMu: drop closed sessions from the list and choose a
\* least loaded one with spare capacity, if there is one.
PickSession(u) ==
  LET live == srvSessions \ srvClosed
      spare == {s \in live : Spare(s)}
      best == {s \in spare : \A t \in spare : srvStreams[s] <= srvStreams[t]}
  IN /\ user[u] = "pick"
     /\ srvSessions' = live
     /\ \/ \E s \in best : /\ userSession' = [userSession EXCEPT ![u] = s]
                           /\ user' = [user EXCEPT ![u] = "open"]
        \/ /\ best = {}
           /\ user' = [user EXCEPT ![u] = "arm"]
           /\ UNCHANGED userSession
     /\ UNCHANGED <<acked, srvKnown, srvClosed, srvStreams, cli>>

\* requestMore, and s.resource.wait() fetches the channel to sleep on.
Arm(u) ==
  /\ user[u] = "arm"
  /\ user' = [user EXCEPT ![u] = "sleep"]
  /\ UNCHANGED <<acked, srvSessions, srvKnown, srvClosed, srvStreams, userSession, cli>>

\* The channel was closed: round the loop.
Wake(u) ==
  /\ user[u] = "woken"
  /\ user' = [user EXCEPT ![u] = "pick"]
  /\ UNCHANGED <<acked, srvSessions, srvKnown, srvClosed, srvStreams, userSession, cli>>

\* Mutant of the next action: no timer, so that only a broadcast wakes.
NoTimer(u) == user[u] = "sleep" /\ UNCHANGED vars

\* The 300 ms timer: round the loop.
Timer(u) ==
  /\ user[u] = "sleep"
  /\ user' = [user EXCEPT ![u] = "pick"]
  /\ UNCHANGED <<acked, srvSessions, srvKnown, srvClosed, srvStreams, userSession, cli>>

\* The deadline of obtainCtx.
Expire(u) ==
  /\ user[u] \in {"sleep", "woken"}
  /\ user' = [user EXCEPT ![u] = "done"]
  /\ UNCHANGED <<acked, srvSessions, srvKnown, srvClosed, srvStreams, userSession, cli>>

\* OpenStream, outside sessMu; an error drops the user.
OpenStream(u) ==
  /\ user[u] = "open"
  /\ \/ /\ userSession[u] \notin srvClosed
        /\ user' = [user EXCEPT ![u] = "add"]
        /\ stream' = [stream EXCEPT ![u] = "syn"]
     \/ /\ userSession[u] \in srvClosed
        /\ user' = [user EXCEPT ![u] = "done"]
        /\ UNCHANGED stream
  /\ UNCHANGED <<acked, srvSessions, srvKnown, srvClosed, srvStreams, userSession,
                 cliSessions, cliClosed, cliStreams, cliWorker, stop, shrinkLeft, panicked>>

\* atomic.AddInt32(&ms.streams, 1)
AddStream(u) ==
  /\ user[u] = "add"
  /\ user' = [user EXCEPT ![u] = "relay"]
  /\ srvStreams' = [srvStreams EXCEPT ![userSession[u]] = @ + 1]
  /\ UNCHANGED <<acked, srvSessions, srvKnown, srvClosed, userSession, cli>>

\* Mutant of the next action: a relay on a dead session returns no slot.
ReleaseIfOpen(u) ==
  /\ user[u] = "relay"
  /\ user' = [user EXCEPT ![u] = "done"]
  /\ srvStreams' = IF userSession[u] \in srvClosed THEN srvStreams
                   ELSE [srvStreams EXCEPT ![userSession[u]] = @ - 1]
  /\ UNCHANGED <<acked, srvSessions, srvKnown, srvClosed, userSession, cli>>

\* The relay ends, or the target could not be announced: release().
Release(u) ==
  /\ user[u] = "relay"
  /\ user' = [user EXCEPT ![u] = "done"]
  /\ srvStreams' = [srvStreams EXCEPT ![userSession[u]] = @ - 1]
  /\ UNCHANGED <<acked, srvSessions, srvKnown, srvClosed, userSession, cli>>

Obtain(u) == PickSession(u) \/ Arm(u) \/ Wake(u) \/ OpenStream(u) \/ AddStream(u)

-------------------------------------------------------------------------------
(* The client: muxSessionWorker, handleStream, shrinkOne.                  *)

\* The worker appends its session and starts the watcher.
Register(s) ==
  /\ s \in acked /\ cliWorker[s] = "none"
  /\ cliWorker' = [cliWorker EXCEPT ![s] = "accept"]
  /\ cliSessions' = Append(cliSessions, s)
  /\ UNCHANGED <<srv, cliClosed, cliStreams, stream, stop, shrinkLeft, panicked>>

\* The client's end closes: its watcher saw stop, or the server's close or a
\* failure of the link arrived, or the generation ended.
CloseSession(s) ==
  /\ s \notin cliClosed /\ cliWorker[s] = "accept"
  /\ cliClosed' = cliClosed \cup {s}
  /\ UNCHANGED <<srv, cliSessions, cliStreams, cliWorker, stream, stop, shrinkLeft, panicked>>

AcceptStream(u) ==
  /\ stream[u] = "syn"
  /\ cliWorker[userSession[u]] = "accept" /\ userSession[u] \notin cliClosed
  /\ stream' = [stream EXCEPT ![u] = "accepted"]
  /\ UNCHANGED <<srv, cliSessions, cliClosed, cliStreams, cliWorker, stop, shrinkLeft, panicked>>

\* atomic.AddInt32(&cs.streams, 1), then the goroutine of handleStream.
CountStream(u) ==
  /\ stream[u] = "accepted"
  /\ stream' = [stream EXCEPT ![u] = "handled"]
  /\ cliStreams' = [cliStreams EXCEPT ![userSession[u]] = @ + 1]
  /\ UNCHANGED <<srv, cliSessions, cliClosed, cliWorker, stop, shrinkLeft, panicked>>

\* handleStream returns.
StreamEnds(u) ==
  /\ stream[u] = "handled"
  /\ stream' = [stream EXCEPT ![u] = "ended"]
  /\ cliStreams' = [cliStreams EXCEPT ![userSession[u]] = @ - 1]
  /\ UNCHANGED <<srv, cliSessions, cliClosed, cliWorker, stop, shrinkLeft, panicked>>

\* AcceptStream fails once every accepted stream has been counted ...
AcceptFails(s) ==
  /\ cliWorker[s] = "accept" /\ s \in cliClosed
  /\ \A u \in Users : userSession[u] = s => stream[u] # "accepted"
  /\ cliWorker' = [cliWorker EXCEPT ![s] = "remove"]
  /\ UNCHANGED <<srv, cliSessions, cliClosed, cliStreams, stream, stop, shrinkLeft, panicked>>

\* append(q[:i], q[i+1:]...)
Without(q, i) == SubSeq(q, 1, i - 1) \o SubSeq(q, i + 1, Len(q))

\* ... and the deferred function takes the session out of c.sessions.
Remove(s) ==
  /\ cliWorker[s] = "remove"
  /\ cliWorker' = [cliWorker EXCEPT ![s] = "gone"]
  /\ \E i \in 1..Len(cliSessions) : cliSessions[i] = s /\ cliSessions' = Without(cliSessions, i)
  /\ UNCHANGED <<srv, cliClosed, cliStreams, stream, stop, shrinkLeft, panicked>>

\* A tick of the maintainer above MaxIdle, IdleGrace having passed: half the
\* excess, rounded up.  Ticks are 2 s apart: the sessions stopped by an earlier
\* one are assumed gone.
ShrinkTick ==
  /\ shrinkLeft = 0 /\ Cardinality(Workers) > MaxIdle
  /\ \A s \in stop : cliWorker[s] = "gone"
  /\ shrinkLeft' = (Cardinality(Workers) - MaxIdle + 1) \div 2
  /\ UNCHANGED <<srv, cliSessions, cliClosed, cliStreams, cliWorker, stream, stop, panicked>>

\* shrinkOne: close the stop channel of the first session without streams.
ShrinkOne ==
  LET Free(i) == cliStreams[cliSessions[i]] = 0
      first == {i \in 1..Len(cliSessions) : Free(i) /\ \A j \in 1..(i - 1) : ~Free(j)}
  IN /\ shrinkLeft > 0
     /\ shrinkLeft' = shrinkLeft - 1
     /\ \/ first = {} /\ UNCHANGED <<stop, panicked>>
        \/ \E i \in first : /\ stop' = stop \cup {cliSessions[i]}
                           /\ panicked' = (cliSessions[i] \in stop)
     /\ UNCHANGED <<srv, cliSessions, cliClosed, cliStreams, cliWorker, stream>>

-------------------------------------------------------------------------------
Next ==
  /\ ~panicked
  /\ \/ \E s \in Sessions : \/ Ack(s) \/ AdmitSession(s) \/ SessionDies(s)
                            \/ Register(s) \/ CloseSession(s) \/ AcceptFails(s)
                            \/ Remove(s)
     \/ \E u \in Users : \/ UserArrives(u) \/ Obtain(u) \/ Timer(u) \/ Expire(u)
                         \/ Release(u) \/ AcceptStream(u) \/ CountStream(u)
                         \/ StreamEnds(u)
     \/ Teardown \/ ShrinkTick \/ ShrinkOne

Spec == Init /\ [][Next]_vars

\* Users' goroutines run and timers fire; nothing is assumed of the client.
Fairness ==
  \A u \in Users : WF_vars(~panicked /\ Obtain(u)) /\ WF_vars(~panicked /\ Timer(u))

FairSpec == Spec /\ Fairness

-------------------------------------------------------------------------------
(* Properties.                                                             *)

\* The types of the variables; c.sessions holds the sessions that have a worker,
\* each once.
TypeOK ==
  /\ acked \subseteq Sessions /\ srvSessions \subseteq srvKnown /\ srvKnown \subseteq acked
  /\ srvClosed \subseteq srvKnown
  /\ srvStreams \in [Sessions -> Int] /\ cliStreams \in [Sessions -> Int]
  /\ user \in [Users -> UserPC] /\ stream \in [Users -> StreamPC]
  /\ userSession \in [Users -> Sessions \cup {NoSession}]
  /\ cliSessions \in Seq(Sessions)
  /\ \A s \in Workers : \E i \in 1..Len(cliSessions) : cliSessions[i] = s
  /\ \A i \in 1..Len(cliSessions) :
       cliSessions[i] \in Workers /\ \A j \in 1..(i - 1) : cliSessions[j] # cliSessions[i]
  /\ cliWorker \in [Sessions -> WorkerPC]
  /\ cliClosed \subseteq Sessions /\ stop \subseteq Sessions
  /\ shrinkLeft \in Nat /\ panicked \in BOOLEAN

\* The server's count of a session is the number of users relaying on it: no
\* slot is lost or given back twice when sessions die under their streams.
SlotsBalanced == \A s \in Sessions : srvStreams[s] = Cardinality(Relaying(s))

\* The client's count is the number of handlers it runs on the session.
HandlersBalanced == \A s \in Sessions : cliStreams[s] = Cardinality(Handling(s))

\* Both, and the types.
CountsBalanced == TypeOK /\ SlotsBalanced /\ HandlersBalanced

\* A user asleep while a session has room does not sleep on: it may have
\* fetched the channel after the broadcast, or the room may have come back by a
\* release, which broadcasts nothing; the 300 ms timer covers both.
RoomNoticed ==
  \A u \in Users :
    user[u] = "sleep" /\ (\E s \in srvSessions \ srvClosed : Spare(s))
      ~> user[u] # "sleep" \/ panicked

-------------------------------------------------------------------------------
(* What the comments say, and the code does not do.                        *)

\* server.go:361, obtainSession "returns a mux session with spare stream
\* capacity": no session carries more than max_streams_per_session.
StreamCap == \A s \in Sessions : srvStreams[s] <= MaxStreams

\* client.go:16, the stream count is "needed so shrinkOne never closes a session
\* that is actually carrying traffic".
ShrinkSparesStreams ==
  [][\A s \in stop' \ stop : Relaying(s) = {}]_vars

\* client.go:214, a tick "drains roughly half the excess": it closes that many
\* sessions, and never the same one twice.
ShrinkNeverPanics == ~panicked
===============================================================================
