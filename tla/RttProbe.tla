------------------------------- MODULE RttProbe -------------------------------
(***************************************************************************)
(* The dialing client's RTT probe on the control channel (client.go,       *)
(* runOnce): a ping per heartbeat stamps pingSentAt, a pong is measured    *)
(* against the stamp, and DegradedStreak bad measurements in a row end the *)
(* generation with errDegraded.                                            *)
(*                                                                         *)
(* Time passes in seconds.  The channel is a stream: a pong takes the      *)
(* round trip of its ping, and never overtakes an earlier one.             *)
(***************************************************************************)
EXTENDS Integers, Sequences

CONSTANTS Heartbeat,       \* config heartbeat
          DegradedRTT,     \* degradedRTTMs
          DegradedStreak,  \* degradedStreak
          Delays           \* the round trips the network may have

ASSUME ProbeAssumption ==
  /\ Heartbeat \in Nat \ {0} /\ DegradedRTT \in Nat
  /\ DegradedStreak \in Nat \ {0} /\ Delays \subseteq Nat

VARIABLES
  sincePing,  \* time since pingSentAt was stamped
  flight,     \* pings without a pong, the oldest first: [age, left]
  badStreak,
  degraded,   \* runOnce has returned errDegraded
  slow        \* history: how many pongs in a row really took too long

vars == <<sincePing, flight, badStreak, degraded, slow>>

Init ==
  /\ sincePing = 0 /\ flight = <<>>
  /\ badStreak = 0 /\ degraded = FALSE /\ slow = 0

\* Mutant of Ping: the streak starts again with every ping.
PingResets ==
  /\ ~degraded /\ sincePing = Heartbeat
  /\ sincePing' = 0 /\ badStreak' = 0
  /\ \E d \in Delays : flight' = Append(flight, [age |-> 0, left |-> d])
  /\ UNCHANGED <<degraded, slow>>

\* The ticker fires: pingSentAt is stamped and the ping is written.
Ping ==
  /\ ~degraded /\ sincePing = Heartbeat
  /\ sincePing' = 0
  /\ \E d \in Delays :
       LET last == IF flight = <<>> THEN 0 ELSE flight[Len(flight)].left
       IN flight' = Append(flight, [age |-> 0, left |-> IF d < last THEN last ELSE d])
  /\ UNCHANGED <<badStreak, degraded, slow>>

\* The history stops counting at SlowBound.
SlowBound == DegradedStreak
NextSlow(age) == IF age <= DegradedRTT THEN 0 ELSE IF slow < SlowBound THEN slow + 1 ELSE slow

\* Mutant of the next action: a good measurement does not end the streak.
PongNoReset ==
  /\ ~degraded /\ flight # <<>> /\ Head(flight).left = 0
  /\ flight' = Tail(flight)
  /\ slow' = NextSlow(Head(flight).age)
  /\ badStreak' = IF sincePing > DegradedRTT THEN badStreak + 1 ELSE badStreak
  /\ degraded' \in BOOLEAN /\ (degraded' <=> badStreak' >= DegradedStreak)
  /\ UNCHANGED sincePing

\* The oldest pong is read: the time since the last ping is taken for its RTT.
Pong ==
  /\ ~degraded /\ flight # <<>> /\ Head(flight).left = 0
  /\ flight' = Tail(flight)
  /\ slow' = NextSlow(Head(flight).age)
  /\ badStreak' = IF sincePing > DegradedRTT THEN badStreak + 1 ELSE 0
  /\ degraded' \in BOOLEAN /\ (degraded' <=> badStreak' >= DegradedStreak)
  /\ UNCHANGED sincePing

\* A second passes; what is due happens first.
Second ==
  /\ ~degraded /\ sincePing < Heartbeat
  /\ \A i \in DOMAIN flight : flight[i].left > 0
  /\ sincePing' = sincePing + 1
  /\ flight' = [i \in DOMAIN flight |->
                  [age |-> flight[i].age + 1, left |-> flight[i].left - 1]]
  /\ UNCHANGED <<badStreak, degraded, slow>>

Next == Ping \/ Pong \/ Second
Spec == Init /\ [][Next]_vars

-------------------------------------------------------------------------------
(* Properties.                                                             *)

\* The types of the variables; pings in flight are one heartbeat apart and the
\* stamp belongs to the last one.
TypeOK ==
  /\ sincePing \in 0..Heartbeat /\ badStreak \in 0..DegradedStreak
  /\ slow \in 0..SlowBound /\ degraded = (badStreak = DegradedStreak)
  /\ \A i \in DOMAIN flight :
       /\ flight[i].age \in Nat /\ flight[i].left \in Nat
       /\ flight[i].age = sincePing + Heartbeat * (Len(flight) - i)

\* No false alarm: a measurement may be too low, when the next ping was stamped
\* before the pong came, but never too high, so a profile is given up only if
\* as many pongs in a row really took too long.
DegradedOnlyIfSlow == badStreak <= slow

\* docs/CENSORSHIP.md:65, "a profile whose control channel measures consistently
\* high round-trip time (over 4 seconds, three heartbeats running) ... is treated
\* as unhealthy": slow pongs in a row end the generation.  The code does so while
\* round trips are shorter than the heartbeat, and not when they are longer.
SlowIsDegraded == slow = SlowBound => degraded
===============================================================================
