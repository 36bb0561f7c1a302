------------------------------- MODULE Failover -------------------------------
(***************************************************************************)
(* The dialing client's loop over its disguise profiles: Client.Run        *)
(* (client.go), profileState and pickProfile (profiles.go) and backoff     *)
(* (util.go).                                                              *)
(*                                                                         *)
(* Time passes in units of the five seconds one failure adds to a          *)
(* cooldown.  A cooldown is kept as the time left, and a failCount stops   *)
(* at MaxCool, beyond which it changes no cooldown.                        *)
(***************************************************************************)
EXTENDS Integers

CONSTANTS N,          \* enabled profiles, at least one, 1 the most preferred
          Backups,    \* [1..N -> Nat], the number of backup addresses
          MaxCool,    \* the longest cooldown (3 minutes)
          RetryMin, RetryMax,  \* config retry_min, retry_max; 0 < RetryMin <= RetryMax
          Short,      \* shortLivedThreshold
          DialMax     \* the longest a dial and its handshake take

Profiles == 1..N
Paths == UNION {{p} \X (0..Backups[p]) : p \in Profiles}

VARIABLES
  works,     \* the paths, profile and address, on which the server answers
  calm,      \* the network will not change any more
  failCount, \* [Profiles -> 0..MaxCool]
  cool,      \* [Profiles -> 0..MaxCool], what is left until cooldownUntil
  addrIdx,   \* [Profiles -> Nat]
  wait,      \* the backoff's cur
  phase,     \* "dial", "up" or "wait"
  cur,       \* the profile of this attempt
  lived      \* how long the control channel has been up, at most Short

env == <<works, calm>>
vars == <<env, failCount, cool, addrIdx, wait, phase, cur, lived>>

Lower(a, b) == IF a < b THEN a ELSE b
Elapsed(t) == [p \in Profiles |-> IF cool[p] > t THEN cool[p] - t ELSE 0]

Init ==
  /\ works \in SUBSET Paths /\ calm = FALSE
  /\ failCount = [p \in Profiles |-> 0] /\ cool = [p \in Profiles |-> 0]
  /\ addrIdx = [p \in Profiles |-> 0]
  /\ wait = RetryMin /\ phase = "dial" /\ cur = 1 /\ lived = 0

\* The path being tried or in use.
Path(p) == <<p, addrIdx[p]>>

\* Mutant of the next definition: cooldowns are ignored.
PickFirst(c) == 1

\* pickProfile: the first one not cooling down, or the first one.
PickProfile(c) ==
  IF \E p \in Profiles : c[p] = 0
  THEN CHOOSE p \in Profiles : c[p] = 0 /\ \A q \in Profiles : c[q] = 0 => p <= q
  ELSE 1

\* onFailure and rotateAddr; c is what the cooldowns have run down to.
Fail(p, n, c) ==
  /\ failCount' = [failCount EXCEPT ![p] = Lower(@ + n, MaxCool)]
  /\ cool' = [c EXCEPT ![p] = failCount'[p]]
  /\ addrIdx' = [addrIdx EXCEPT ![p] = (@ + 1) % (Backups[p] + 1)]

-------------------------------------------------------------------------------
\* The dial or the handshake fails, after some time.
DialFails ==
  /\ phase = "dial" /\ ~(calm /\ Path(cur) \in works)
  /\ \E t \in 0..DialMax : Fail(cur, 1, Elapsed(t))
  /\ phase' = "wait"
  /\ UNCHANGED <<env, wait, cur, lived>>

Connect ==
  /\ phase = "dial" /\ Path(cur) \in works
  /\ phase' = "up" /\ lived' = 0
  /\ UNCHANGED <<env, failCount, cool, addrIdx, wait, cur>>

\* A unit of time with the control channel up.
Live ==
  /\ phase = "up" /\ (lived < Short \/ \E p \in Profiles : cool[p] > 0)
  /\ lived' = Lower(lived + 1, Short) /\ cool' = Elapsed(1)
  /\ UNCHANGED <<env, failCount, addrIdx, wait, phase, cur>>

\* The channel ends after a good while: onSuccess and reset.
EndsWell ==
  /\ phase = "up" /\ ~(calm /\ Path(cur) \in works) /\ lived = Short
  /\ failCount' = [failCount EXCEPT ![cur] = 0]
  /\ cool' = [cool EXCEPT ![cur] = 0]
  /\ wait' = RetryMin /\ phase' = "wait"
  /\ UNCHANGED <<env, addrIdx, cur, lived>>

\* Connected, then died fast.
EndsEarly ==
  /\ phase = "up" /\ ~(calm /\ Path(cur) \in works) /\ lived < Short
  /\ Fail(cur, 3, cool)
  /\ phase' = "wait"
  /\ UNCHANGED <<env, wait, cur, lived>>

\* errDegraded, whatever it lived.
Degrades ==
  /\ phase = "up" /\ ~(calm /\ Path(cur) \in works)
  /\ Fail(cur, 1, cool)
  /\ phase' = "wait"
  /\ UNCHANGED <<env, wait, cur, lived>>

\* bo.wait, then the next turn of the loop picks a profile.
Wait ==
  /\ phase = "wait"
  /\ cool' = Elapsed(wait) /\ wait' = Lower(2 * wait, RetryMax)
  /\ phase' = "dial" /\ cur' = PickProfile(cool')
  /\ UNCHANGED <<env, failCount, addrIdx, lived>>

\* The network changes, until it no longer does.
NetworkChanges ==
  /\ ~calm
  /\ works' \in SUBSET Paths /\ calm' \in BOOLEAN
  /\ UNCHANGED <<failCount, cool, addrIdx, wait, phase, cur, lived>>

Run == DialFails \/ Connect \/ Live \/ EndsWell \/ EndsEarly \/ Degrades \/ Wait

Next == Run \/ NetworkChanges

Spec == Init /\ [][Next]_vars

\* The loop never stops, and a dial that can succeed is not taken to fail for
\* ever; a channel on a dead path ends.
Fairness ==
  /\ WF_vars(Run)
  /\ WF_vars(calm /\ (EndsWell \/ EndsEarly))

FairSpec == Spec /\ Fairness

-------------------------------------------------------------------------------
(* Properties.                                                             *)

\* The types of the variables; a cooldown is never longer than what the
\* failures since the last success have earned.
TypeOK ==
  /\ works \subseteq Paths /\ calm \in BOOLEAN
  /\ failCount \in [Profiles -> 0..MaxCool]
  /\ cool \in [Profiles -> Nat] /\ \A p \in Profiles : cool[p] <= failCount[p]
  /\ \A p \in Profiles : addrIdx[p] \in 0..Backups[p]
  /\ wait \in RetryMin..RetryMax /\ phase \in {"dial", "up", "wait"}
  /\ cur \in Profiles /\ lived \in 0..Short

\* If one path goes on working, whichever profile and backup address it is, the
\* client ends up with its control channel on a working path.
FindsWorkingPath == calm /\ works # {} ~> phase = "up" /\ Path(cur) \in works

-------------------------------------------------------------------------------
(* What the documentation says, and the code does not do.                  *)

\* docs/CENSORSHIP.md:77: the client will "climb back to the most-preferred one
\* the moment it's viable again".
ClimbsBack ==
  calm /\ (\A i \in 0..Backups[1] : <<1, i>> \in works) ~> phase = "up" /\ cur = 1
===============================================================================
