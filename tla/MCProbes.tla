-------------------------------- MODULE MCProbes --------------------------------
(***************************************************************************)
(* The four loops that judge the far end: RttProbe judges the profile in   *)
(* use, Failover picks the profile and the address, BackendPool judges the *)
(* backends of a target, and the reapers of UDPCarrier the sockets the     *)
(* server heard of.  They share no state, so a behaviour is one of one of  *)
(* them.  RttProbe, with the default heartbeat of 5 seconds, in half       *)
(* seconds, has round trips up to 4.5 seconds: some below the limit of 4   *)
(* seconds, some above it; Slow, in seconds, has round trips of 6.         *)
(***************************************************************************)
EXTENDS RttProbe

CONSTANTS N, FailThreshold, Period,  \* BackendPool
          ProfileCount, MaxCool, RetryMin, RetryMax, ShortLived, DialMax,  \* Failover
          Flows, Users, NoFlow, NoUser, ChanCap, Window, MaxGen, MaxLoad, MaxFlight  \* UDPCarrier

ASSUME PoolAssumption ==
  /\ {N, FailThreshold, Period} \subseteq Nat \ {0}
  /\ \A n \in 1..N : \E k \in 1..Period : Period = k * n
ASSUME DialAssumption ==
  /\ {ProfileCount, RetryMin, RetryMax} \subseteq Nat \ {0} /\ RetryMin <= RetryMax
  /\ {MaxCool, ShortLived, DialMax} \subseteq Nat

VARIABLES up, fails, healthy, next, turn, result, picked,
          works, calm, failCount, cool, addrIdx, wait, phase, cur, lived,
          gen, standing, udpFlows, udpFlowCh, oldFlow, sessions, oldSess, listener, from,
          claimed, serve, userOf, inbound, toFlow, toServer, toClient, worker, epochOf,
          loop

\* The first profile has a backup address.
Pool == INSTANCE BackendPool
Dial == INSTANCE Failover WITH N <- ProfileCount, Short <- ShortLived,
          Backups <- [p \in 1..ProfileCount |-> IF p = 1 THEN 1 ELSE 0]
Flow == INSTANCE UDPCarrier WITH up <- standing

Short == 0..9
Slow == {6}

pool == <<up, fails, healthy, next, turn, result, picked>>
dial == <<works, calm, failCount, cool, addrIdx, wait, phase, cur, lived>>
flow == <<gen, standing, udpFlows, udpFlowCh, oldFlow, sessions, oldSess, listener, from,
          claimed, serve, userOf, inbound, toFlow, toServer, toClient, worker, epochOf>>

LoopInit ==
  /\ loop \in {"rtt", "health", "dial", "reap"} /\ Init /\ Pool!Init /\ Dial!Init /\ Flow!Init
  /\ loop = "dial" \/ works = {}
LoopNext == /\ \/ loop = "rtt" /\ Next /\ UNCHANGED <<pool, dial, flow>>
               \/ loop = "health" /\ Pool!Next /\ UNCHANGED <<vars, dial, flow>>
               \/ loop = "dial" /\ Dial!Next /\ UNCHANGED <<vars, pool, flow>>
               \/ loop = "reap" /\ Flow!Next /\ UNCHANGED <<vars, pool, dial>>
            /\ UNCHANGED loop
LoopSpec == /\ LoopInit /\ [][LoopNext]_<<vars, pool, dial, flow, loop>>
            /\ WF_pool(loop = "health" /\ Pool!HealthLoop)
            /\ WF_dial(loop = "dial" /\ Dial!Run)
            /\ WF_dial(loop = "dial" /\ calm /\ (Dial!EndsWell \/ Dial!EndsEarly))
            /\ Flow!Fairness  \* no condition where there are no flows

TypesOK == TypeOK /\ Pool!TypeOK /\ Dial!TypeOK
RoundRobin == TypesOK /\ Pool!RoundRobin
RotationSettles == loop = "health" => Pool!RotationSettles
FindsWorkingPath == loop = "dial" => Dial!FindsWorkingPath
DeadFlowForgotten == loop = "reap" => Flow!DeadFlowForgotten
ClimbsBack == loop = "dial" => Dial!ClimbsBack
===============================================================================
