------------------------------ MODULE ClientPool ------------------------------
(***************************************************************************)
(* The client role in Direction "reverse", Mode "tcp" (client.go): one     *)
(* generation of the control channel, its maintainer, and its pool workers *)
(* with their watchers.  The server is the environment: it asks for        *)
(* connections, claims idle ones by sending a target, and drops others.    *)
(*                                                                         *)
(* A worker is named by the goroutine that runs tcpPoolWorker; a name is   *)
(* used again when the worker and its watcher have returned, and having no *)
(* free name is the only bound on spawning (the code has none).            *)
(***************************************************************************)
EXTENDS Integers, FiniteSets

CONSTANTS Workers,     \* names of pool workers
          MinIdle,     \* config min_idle
          MaxIdle,     \* config max_idle
          NeedCap      \* capacity of needConn

ASSUME BoundsAssumption ==
  /\ MinIdle \in Nat \ {0} /\ MaxIdle \in Nat /\ MinIdle <= MaxIdle
  /\ NeedCap \in Nat \ {0} /\ IsFiniteSet(Workers)

VARIABLES
  ctxDone,      \* the generation's context is cancelled
  needConn,     \* length of the needConn channel
  maintainer,   \* "fill" (initial spawns), "select", "spawn", "shrink", "gone"
  left,         \* spawns or shrinks left in the batch under way
  over,         \* overSince is set
  worker,       \* [Workers -> WorkerPC]
  watcher,      \* workers whose watcher goroutine runs
  stop,         \* workers whose stop channel is closed
  watcherDone,  \* workers whose watcherDone channel is closed
  deadline,     \* workers whose connection has had SetDeadline(now)
  claimed,      \* workers whose connection the server has sent a target
  tcpIdle,      \* workers registered in c.tcpIdle
  activeCount,  \* c.activeCount
  panicked      \* a channel was closed twice

gen == <<ctxDone, needConn, maintainer, left, over>>
chans == <<watcher, stop, watcherDone, deadline>>
vars == <<gen, worker, chans, claimed, tcpIdle, activeCount, panicked>>

WorkerPC == {"none", "spawned", "dial", "register", "read", "got", "failed",
             "unregGot", "unregFailed", "serve", "return"}

\* Workers inside tcpPoolWorker's activeCount window.
Counted == {w \in Workers : worker[w] \notin {"none", "spawned"}}
Waiting == {w \in Workers : worker[w] = "read" /\ w \notin claimed}
Serving == {w \in Workers : worker[w] = "serve"}

Init ==
  /\ ctxDone = FALSE /\ needConn = 0
  /\ maintainer = "fill" /\ left = MinIdle /\ over = FALSE
  /\ worker = [w \in Workers |-> "none"]
  /\ watcher = {} /\ stop = {} /\ watcherDone = {} /\ deadline = {}
  /\ claimed = {} /\ tcpIdle = {}
  /\ activeCount = 0 /\ panicked = FALSE

Goto(w, pc) == worker' = [worker EXCEPT ![w] = pc]

-------------------------------------------------------------------------------
(* runOnce: the read loop of the control channel.                          *)

\* sigNeedConn: a non-blocking send on needConn.
NeedArrives ==
  /\ ~ctxDone /\ needConn < NeedCap
  /\ needConn' = needConn + 1
  /\ UNCHANGED <<ctxDone, maintainer, left, over, worker, chans, claimed,
                 tcpIdle, activeCount, panicked>>

\* The read loop ends: cancel(), and the epoch is withdrawn.
GenerationEnds ==
  /\ ~ctxDone
  /\ ctxDone' = TRUE
  /\ UNCHANGED <<needConn, maintainer, left, over, worker, chans, claimed,
                 tcpIdle, activeCount, panicked>>

-------------------------------------------------------------------------------
(* maintainer                                                              *)

\* spawnOne starts a worker, unless the epoch is gone, which follows cancel().
SpawnOne ==
  \/ ctxDone /\ UNCHANGED worker
  \/ \E w \in Workers : worker[w] = "none" /\ w \notin watcher /\ Goto(w, "spawned")

\* The initial MinIdle spawns, and those of a tick.
Spawn ==
  /\ maintainer \in {"fill", "spawn"}
  /\ IF left = 0
     THEN maintainer' = "select" /\ UNCHANGED <<left, worker>>
     ELSE left' = left - 1 /\ SpawnOne /\ UNCHANGED maintainer
  /\ UNCHANGED <<ctxDone, needConn, over, chans, claimed, tcpIdle, activeCount,
                 panicked>>

SelectDone ==
  /\ maintainer = "select" /\ ctxDone
  /\ maintainer' = "gone"
  /\ UNCHANGED <<ctxDone, needConn, left, over, worker, chans, claimed, tcpIdle,
                 activeCount, panicked>>

SelectNeed ==
  /\ maintainer = "select" /\ needConn > 0
  /\ needConn' = needConn - 1
  /\ SpawnOne
  /\ UNCHANGED <<ctxDone, maintainer, left, over, chans, claimed, tcpIdle,
                 activeCount, panicked>>

\* Mutant of the next action: off by one, one worker missing is let pass.
TickBelowLate ==
  /\ maintainer = "select" /\ activeCount + 1 < MinIdle
  /\ maintainer' = "spawn" /\ left' = MinIdle - activeCount
  /\ over' = FALSE
  /\ UNCHANGED <<ctxDone, needConn, worker, chans, claimed, tcpIdle,
                 activeCount, panicked>>

\* The ticker finds fewer workers than MinIdle: spawn the difference.
TickBelow ==
  /\ maintainer = "select" /\ activeCount < MinIdle
  /\ maintainer' = "spawn" /\ left' = MinIdle - activeCount
  /\ over' = FALSE
  /\ UNCHANGED <<ctxDone, needConn, worker, chans, claimed, tcpIdle,
                 activeCount, panicked>>

\* More than MaxIdle: note the time first; once IdleGrace has passed, shrink
\* by half the excess, rounded up.
TickAbove ==
  /\ maintainer = "select" /\ activeCount > MaxIdle
  /\ \/ ~over /\ over' = TRUE /\ UNCHANGED <<maintainer, left>>
     \/ /\ over /\ UNCHANGED over
        /\ maintainer' = "shrink"
        /\ left' = (activeCount - MaxIdle + 1) \div 2
  /\ UNCHANGED <<ctxDone, needConn, worker, chans, claimed, tcpIdle,
                 activeCount, panicked>>

TickWithin ==
  /\ maintainer = "select" /\ activeCount \in MinIdle..MaxIdle
  /\ over' = FALSE
  /\ UNCHANGED <<ctxDone, needConn, maintainer, left, worker, chans, claimed,
                 tcpIdle, activeCount, panicked>>

\* close(stop), which panics on a closed channel.
CloseStop(w) == /\ stop' = stop \cup {w}
                /\ IF w \in stop THEN panicked' = TRUE ELSE UNCHANGED panicked

\* Mutant of the next action: the connection stays in c.tcpIdle.
ShrinkOneKeeps ==
  /\ maintainer = "shrink" /\ left > 0
  /\ left' = left - 1
  /\ IF tcpIdle = {} THEN UNCHANGED <<stop, panicked>>
     ELSE \E w \in tcpIdle : CloseStop(w)
  /\ UNCHANGED <<ctxDone, needConn, maintainer, over, worker, watcher, watcherDone,
                 deadline, claimed, tcpIdle, activeCount>>

\* shrinkOne, under tcpIdleMu: take one connection out of c.tcpIdle (map order
\* is arbitrary) and close its stop channel.
ShrinkOne ==
  /\ maintainer = "shrink" /\ left > 0
  /\ left' = left - 1
  /\ IF tcpIdle = {} THEN UNCHANGED <<stop, tcpIdle, panicked>>
     ELSE \E w \in tcpIdle : tcpIdle' = tcpIdle \ {w} /\ CloseStop(w)
  /\ UNCHANGED <<ctxDone, needConn, maintainer, over, worker, watcher, watcherDone,
                 deadline, claimed, activeCount>>

ShrinkDone ==
  /\ maintainer = "shrink" /\ left = 0
  /\ maintainer' = "select"
  /\ UNCHANGED <<ctxDone, needConn, left, over, worker, chans, claimed, tcpIdle,
                 activeCount, panicked>>

Tick == TickBelow \/ TickAbove \/ TickWithin
Maintain == Spawn \/ SelectDone \/ SelectNeed \/ Tick \/ ShrinkOne \/ ShrinkDone

-------------------------------------------------------------------------------
(* tcpPoolWorker                                                           *)

WorkerStarts(w) ==
  /\ worker[w] = "spawned"
  /\ Goto(w, "dial") /\ activeCount' = activeCount + 1
  /\ UNCHANGED <<gen, chans, claimed, tcpIdle, panicked>>

\* Mutant of the next action: a failed dial skips the decrement.
DialLeaks(w) ==
  /\ worker[w] = "dial"
  /\ Goto(w, "register") \/ Goto(w, "none")
  /\ UNCHANGED <<gen, chans, claimed, tcpIdle, activeCount, panicked>>

\* dialProfile and clientHandshakePool; the dial fails once ctx is done.
Dial(w) ==
  /\ worker[w] = "dial"
  /\ Goto(w, "register") \/ Goto(w, "return")
  /\ UNCHANGED <<gen, chans, claimed, tcpIdle, activeCount, panicked>>

\* The connection is put into tcpIdle and its watcher started.
Register(w) ==
  /\ worker[w] = "register"
  /\ Goto(w, "read") /\ tcpIdle' = tcpIdle \cup {w} /\ watcher' = watcher \cup {w}
  /\ UNCHANGED <<gen, stop, watcherDone, deadline, claimed, activeCount, panicked>>

\* The server sends a target on a connection it has acknowledged.
Claim(w) ==
  /\ worker[w] \in {"register", "read"} /\ w \notin claimed
  /\ claimed' = claimed \cup {w}
  /\ UNCHANGED <<gen, worker, chans, tcpIdle, activeCount, panicked>>

\* readString returns the target ...
ReadTarget(w) ==
  /\ worker[w] = "read" /\ w \in claimed /\ w \notin deadline
  /\ Goto(w, "got")
  /\ UNCHANGED <<gen, chans, claimed, tcpIdle, activeCount, panicked>>

\* ... or an error: the deadline was forced, or the connection is lost.
ReadFails(w) ==
  /\ worker[w] = "read"
  /\ Goto(w, "failed")
  /\ UNCHANGED <<gen, chans, claimed, tcpIdle, activeCount, panicked>>

\* close(watcherDone)
ReleaseWatcher(w) ==
  /\ worker[w] \in {"got", "failed"}
  /\ Goto(w, IF worker[w] = "got" THEN "unregGot" ELSE "unregFailed")
  /\ watcherDone' = watcherDone \cup {w}
  /\ UNCHANGED <<gen, watcher, stop, deadline, claimed, tcpIdle, activeCount, panicked>>

\* unregister(), then close the connection or go on to serveTarget.
Unregister(w) ==
  /\ worker[w] \in {"unregGot", "unregFailed"}
  /\ Goto(w, IF worker[w] = "unregGot" THEN "serve" ELSE "return")
  /\ tcpIdle' = tcpIdle \ {w}
  /\ UNCHANGED <<gen, chans, claimed, activeCount, panicked>>

\* serveTarget returns: the relay is over.
ServeEnds(w) ==
  /\ worker[w] = "serve"
  /\ Goto(w, "return")
  /\ UNCHANGED <<gen, chans, claimed, tcpIdle, activeCount, panicked>>

\* The deferred decrement; the name is free for another worker when the
\* watcher has returned too.
WorkerReturns(w) ==
  /\ worker[w] = "return"
  /\ Goto(w, "none") /\ activeCount' = activeCount - 1
  /\ stop' = IF w \in watcher THEN stop ELSE stop \ {w}
  /\ watcherDone' = IF w \in watcher THEN watcherDone ELSE watcherDone \ {w}
  /\ deadline' = deadline \ {w} /\ claimed' = claimed \ {w}
  /\ UNCHANGED <<gen, watcher, tcpIdle, panicked>>

Work(w) == \/ WorkerStarts(w) \/ Dial(w) \/ Register(w) \/ ReadTarget(w)
           \/ ReleaseWatcher(w) \/ Unregister(w) \/ WorkerReturns(w)
           \/ w \in deadline /\ ReadFails(w)

\* The watcher's select, when one or more of its cases are ready: a random one
\* is taken, so a cancelled or stopped connection may have its deadline forced
\* although watcherDone is closed as well.
WatcherFires(w) ==
  /\ w \in watcher /\ (ctxDone \/ w \in stop)
  /\ watcher' = watcher \ {w}
  /\ IF worker[w] = "none"
     THEN /\ stop' = stop \ {w} /\ watcherDone' = watcherDone \ {w}
          /\ UNCHANGED deadline
     ELSE deadline' = deadline \cup {w} /\ UNCHANGED <<stop, watcherDone>>
  /\ UNCHANGED <<gen, worker, claimed, tcpIdle, activeCount, panicked>>

WatcherQuits(w) ==
  /\ w \in watcher /\ w \in watcherDone
  /\ watcher' = watcher \ {w}
  /\ IF worker[w] = "none"
     THEN stop' = stop \ {w} /\ watcherDone' = watcherDone \ {w}
     ELSE UNCHANGED <<stop, watcherDone>>
  /\ UNCHANGED <<gen, worker, deadline, claimed, tcpIdle, activeCount, panicked>>

\* Mutant of the next action: no case for the end of the generation.
WatchStopOnly(w) ==
  \/ w \in stop /\ WatcherFires(w)
  \/ WatcherQuits(w)

Watch(w) == WatcherFires(w) \/ WatcherQuits(w)

-------------------------------------------------------------------------------
Next ==
  /\ ~panicked
  /\ \/ NeedArrives \/ GenerationEnds \/ Maintain
     \/ \E w \in Workers : Work(w) \/ Claim(w) \/ ReadFails(w) \/ ServeEnds(w) \/ Watch(w)

Spec == Init /\ [][Next]_vars

\* The goroutines run; the ticker of the maintainer keeps ticking, and its
\* select is fair between a cancelled context, a request and a tick.  Nothing
\* is assumed of the server.
Fairness ==
  /\ WF_vars(~panicked /\ (Spawn \/ ShrinkOne \/ ShrinkDone))
  /\ SF_vars(~panicked /\ SelectDone) /\ SF_vars(~panicked /\ TickBelow)
  /\ \A w \in Workers : /\ WF_vars(~panicked /\ Work(w))
                        /\ WF_vars(~panicked /\ Watch(w))

FairSpec == Spec /\ Fairness

-------------------------------------------------------------------------------
(* Properties.                                                             *)

\* The types of the variables; activeCount is the number of workers between
\* its increment and its deferred decrement.
TypeOK ==
  /\ ctxDone \in BOOLEAN /\ over \in BOOLEAN /\ panicked \in BOOLEAN
  /\ needConn \in 0..NeedCap /\ left \in Nat
  /\ maintainer \in {"fill", "select", "spawn", "shrink", "gone"}
  /\ worker \in [Workers -> WorkerPC]
  /\ watcher \subseteq Workers /\ stop \subseteq Workers
  /\ watcherDone \subseteq Workers /\ deadline \subseteq Workers
  /\ claimed \subseteq Workers /\ tcpIdle \subseteq Workers
  /\ activeCount = Cardinality(Counted)

\* shrinkOne closes a stop channel at most once, whatever the maintainer, the
\* workers and their watchers do in between: whoever is registered has not
\* been stopped, and is a worker that has not yet gone on to serve or return.
StoppedOnce ==
  /\ ~panicked
  /\ \A w \in tcpIdle :
       w \notin stop /\ worker[w] \in {"read", "got", "failed", "unregGot", "unregFailed"}

\* No goroutine is left behind: a generation that has ended has no connection
\* waiting for a target, and its maintainer returns; and "that leaves the watcher
\* goroutine blocked forever" (client.go:434) cannot happen here, as a worker's
\* watcher returns once the worker does not wait.
GenerationDrains ==
  /\ ctxDone ~> Waiting = {} /\ maintainer = "gone"
  /\ \A w \in Workers : worker[w] \in {"got", "failed"} ~> w \notin watcher

\* While a generation lasts, the workers are brought back to MinIdle after dials
\* fail or connections end, unless that keeps happening for ever.
PoolRefilled ==
  \/ []<>(activeCount >= MinIdle \/ ctxDone)
  \/ []<>(\E w \in Workers : worker[w] = "return")

-------------------------------------------------------------------------------
(* What the comments and documents say, and the code does not do.          *)

\* README.md:91, when an idle connection is claimed "a replacement is dialed to
\* refill the pool": MinIdle connections come to wait for a target again.
ClaimRefilled ==
  \A w \in Workers :
    worker[w] = "serve" ~> worker[w] # "serve" \/ ctxDone
                           \/ Cardinality(Counted \ Serving) >= MinIdle

\* client.go:219, shrinking "never touches anything actively carrying traffic":
\* while the generation lasts, no connection that serves a target has its
\* deadline forced.
ShrinkSparesTraffic ==
  [][\A w \in Serving : w \in deadline' => w \in deadline \/ ctxDone]_vars

\* client.go:224, the shrink leaves "a shrinking-but-nonzero cushion the whole
\* time": it never takes the last waiting connection.
CushionKept ==
  [][Cardinality(tcpIdle) = 1 => ~ShrinkOne \/ left = 0]_vars
===============================================================================
