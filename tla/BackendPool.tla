------------------------------ MODULE BackendPool ------------------------------
(***************************************************************************)
(* The backends of one forwarded target "b1|b2|..." (backendpool.go): the  *)
(* health loop probes them one after another, outside the lock, and        *)
(* applies each result under it; flows take the next healthy backend.      *)
(***************************************************************************)
EXTENDS Naturals, Sequences, FiniteSets

CONSTANTS N,              \* the number of backends, at least two
          FailThreshold,  \* backendFailThreshold
          Period          \* a common multiple of 1..N: next counts modulo it

VARIABLES
  up,       \* the backends that accept connections
  fails,    \* [1..N -> 0..FailThreshold], counted no further
  healthy,  \* the backends the pool takes for healthy
  next,     \* 0..Period - 1
  turn,     \* the backend to probe, 0 between two ticks
  result,   \* of the probe just made: "none", "ok", "failed"
  picked    \* history: the last N picks since healthy last changed

vars == <<up, fails, healthy, next, turn, result, picked>>

\* The index of a live backend in the list of them.
Rank(b) == Cardinality({c \in healthy : c < b})

\* getBackendPool: all are healthy until a probe says otherwise.
Init ==
  /\ up \in SUBSET (1..N)
  /\ fails = [b \in 1..N |-> 0] /\ healthy = 1..N
  /\ next = 0 /\ turn = 0 /\ result = "none" /\ picked = <<>>

\* A backend comes up or goes down.
BackendChanges ==
  /\ \E b \in 1..N : up' = IF b \in up THEN up \ {b} ELSE up \cup {b}
  /\ UNCHANGED <<fails, healthy, next, turn, result, picked>>

\* backendProbeInterval has passed.
Tick ==
  /\ turn = 0 /\ turn' = 1
  /\ UNCHANGED <<up, fails, healthy, next, result, picked>>

\* probeTCP, without the lock.
Probe ==
  /\ turn # 0 /\ result = "none"
  /\ result' = IF turn \in up THEN "ok" ELSE "failed"
  /\ UNCHANGED <<up, fails, healthy, next, turn, picked>>

NextTurn == turn' = (turn + 1) % (N + 1) /\ result' = "none"
History == picked' = IF healthy' = healthy THEN picked ELSE <<>>

\* Mutant of the next action: a success leaves the backend ejected.
ApplyNoReturn ==
  /\ result # "none" /\ NextTurn
  /\ fails' = [fails EXCEPT ![turn] =
       IF result = "ok" THEN 0 ELSE IF @ < FailThreshold THEN @ + 1 ELSE @]
  /\ healthy' = IF fails'[turn] = FailThreshold THEN healthy \ {turn} ELSE healthy
  /\ History
  /\ UNCHANGED <<up, next>>

\* The result is applied under the lock, and the next backend is probed.
Apply ==
  /\ result # "none" /\ NextTurn
  /\ fails' = [fails EXCEPT ![turn] =
       IF result = "ok" THEN 0 ELSE IF @ < FailThreshold THEN @ + 1 ELSE @]
  /\ healthy' = IF result = "ok" THEN healthy \cup {turn}
                ELSE IF fails'[turn] = FailThreshold THEN healthy \ {turn} ELSE healthy
  /\ History
  /\ UNCHANGED <<up, next>>

LastN(s) == IF Len(s) > N THEN Tail(s) ELSE s

\* Mutant of the next action: next counts modulo the backends, not the live ones.
PickByPosition ==
  /\ \E b \in healthy :
       /\ (next % N) + 1 \in healthy => b = (next % N) + 1
       /\ (next % N) + 1 \notin healthy => Rank(b) = 0
       /\ picked' = LastN(Append(picked, b))
  /\ next' = (next + 1) % Period
  /\ UNCHANGED <<up, fails, healthy, turn, result>>

\* pick: round robin over the live backends; if none is live, the first of all
\* is taken and nothing changes.
Pick ==
  /\ \E b \in healthy :
       /\ Rank(b) = next % Cardinality(healthy)
       /\ picked' = LastN(Append(picked, b))
  /\ next' = (next + 1) % Period
  /\ UNCHANGED <<up, fails, healthy, turn, result>>

HealthLoop == Tick \/ Probe \/ Apply
Next == BackendChanges \/ HealthLoop \/ Pick
Spec == Init /\ [][Next]_vars
FairSpec == Spec /\ WF_vars(HealthLoop)

-------------------------------------------------------------------------------
(* Properties.                                                             *)

\* The types of the variables; a backend is ejected exactly by the threshold.
TypeOK ==
  /\ up \subseteq 1..N /\ next \in 0..Period - 1 /\ turn \in 0..N
  /\ fails \in [1..N -> 0..FailThreshold]
  /\ healthy = {b \in 1..N : fails[b] < FailThreshold}
  /\ result \in {"none", "ok", "failed"} /\ (turn = 0 => result = "none")

\* Round robin: as long as the live set stays, no backend gets a second flow
\* before every other live one got its first, wherever next stood when the set
\* changed.
RoundRobin ==
  \A i, j \in 1..Len(picked) :
    i < j /\ j - i < Cardinality(healthy) => picked[i] # picked[j]

\* Once the backends stop changing, the rotation is exactly those that are up,
\* although a probe's result may be applied after the backend has changed.
RotationSettles ==
  \A S \in SUBSET (1..N) : <>[](up = S) => <>[](healthy = S)
===============================================================================
