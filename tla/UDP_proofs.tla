------------------------------ MODULE UDP_proofs ------------------------------
(***************************************************************************)
(* Proofs about the two ways of end users' datagrams: as datagrams         *)
(* (UDPCarrier, mode "udp") and over the carriers of a stream tunnel       *)
(* (UDPRelay), for every set of users and of flows or carriers and every   *)
(* value of the bounds.                                                    *)
(***************************************************************************)
EXTENDS UDPCarrier, MCUDPRelay, TLAPS

-------------------------------------------------------------------------------
(* UDPCarrier.  A flow could be claimed again only if the server forgot    *)
(* its address while a copy of its authentication datagram was still in    *)
(* flight.  Forgotten says that there is none: whatever is forgotten was   *)
(* quiet longer than a datagram lives, and no tag is sent twice.           *)

\* The flow has been registered, at some time.
Begun(f) == IsQueued(f) \/ serve[f] # "none" \/ (listener = "insert" /\ claimed = f)

\* What the port's listener has in its hands.
Holding ==
  /\ listener # "read" => from \in Users
  /\ listener \in {"deliver", "insert"} => claimed \in Flows

ForgottenOf(f) ==
  /\ worker[f] = "none" =>
       ~Begun(f) /\ f \notin udpFlows \cup oldFlow /\ "auth" \notin toServer[f]
  /\ "auth" \in toServer[f] /\ f \notin udpFlows => ~Begun(f)
  /\ f \in oldFlow \/ serve[f] \in {"forget", "gone"} => "auth" \notin toServer[f]
Forgotten == \A f \in Flows : ForgottenOf(f)

IInv == TypeOK /\ Holding /\ Forgotten /\ FlowOnce /\ MappedIsServed

LEMMA Initially == Init => IInv
BY BoundAssumption, NoneAssumption
   DEF Init, IInv, TypeOK, Holding, Forgotten, FlowOnce, MappedIsServed, ForgottenOf, Begun,
       IsQueued, ServePC, WorkerPC

-------------------------------------------------------------------------------
(* Type correctness.                                                       *)

LEMMA SentType ==
  /\ \A f \in Flows, m \in {"auth", "data"} :
       TypeOK => Sent(toServer, f, m) \in [Flows -> SUBSET {"auth", "data"}]
  /\ \A f \in Flows, m \in {"target", "data"} :
       TypeOK => Sent(toClient, f, m) \in [Flows -> SUBSET {"target", "data"}]
BY DEF Sent, TypeOK

LEMMA ReceivedType ==
  /\ \A f \in Flows, m \in {"auth", "data"} : \A b \in Received(toServer, f, m) :
       TypeOK => b \in [Flows -> SUBSET {"auth", "data"}]
  /\ \A f \in Flows, m \in {"target", "data"} : \A b \in Received(toClient, f, m) :
       TypeOK => b \in [Flows -> SUBSET {"target", "data"}]
BY DEF Received, TypeOK

LEMMA Bounds == /\ ChanCap \in Nat \ {0} /\ Window \in Nat \ {0} /\ MaxGen \in Nat \ {0}
                /\ NoFlow \notin Flows /\ NoUser \notin Users
BY BoundAssumption, NoneAssumption

LEMMA TypeStep == IInv /\ [Next]_vars => TypeOK'
<1> SUFFICES ASSUME IInv, [Next]_vars PROVE TypeOK'
  OBVIOUS
<1>0. TypeOK /\ Holding
  BY DEF IInv
<1> USE <1>0, Bounds
    DEF TypeOK, control, flowTable, port, relay, chans, net, client
<1>1. CASE GenerationEnds
  BY <1>1 DEF GenerationEnds
<1>2. CASE GenerationStarts
  BY <1>2 DEF GenerationStarts
<1>3. ASSUME NEW f \in Flows, LoseUp(f) PROVE TypeOK'
  BY <1>3 DEF LoseUp
<1>4. ASSUME NEW f \in Flows, LoseDown(f) PROVE TypeOK'
  BY <1>4 DEF LoseDown
<1>5. ASSUME NEW f \in Flows, FlowAges(f) PROVE TypeOK'
  BY <1>5 DEF FlowAges
<1>6. ASSUME NEW f \in Flows, SessionAges(f) PROVE TypeOK'
  BY <1>6 DEF SessionAges
<1>7. ASSUME NEW f \in Flows, Inbound(f) PROVE TypeOK'
  <2>1. toServer' \in [Flows -> SUBSET {"auth", "data"}]
    BY <1>7, ReceivedType DEF Inbound
  <2>2. inbound' \in [Flows -> 0..Window]
    BY <1>7 DEF Inbound, Offer
  <2>3. QED
    BY <1>7, <2>1, <2>2 DEF Inbound
<1>8. ASSUME NEW f \in Flows, Register(f) PROVE TypeOK'
  <2>1. toServer' \in [Flows -> SUBSET {"auth", "data"}]
    BY <1>8, ReceivedType DEF Register
  <2>2. udpFlows' \subseteq Flows /\ udpFlowCh' \in Seq(Flows) /\ Len(udpFlowCh') <= ChanCap
    <3>1. CASE UNCHANGED <<udpFlows, udpFlowCh>>
      BY <3>1
    <3>2. CASE /\ udpFlows' = udpFlows \cup {f} /\ udpFlowCh' = Append(udpFlowCh, f)
               /\ Len(udpFlowCh) < ChanCap
      BY <3>2
    <3>3. QED
      BY <1>8, <3>1, <3>2 DEF Register
  <2>3. QED
    BY <1>8, <2>1, <2>2 DEF Register
<1>9. ASSUME NEW f \in Flows, Serve(f) PROVE TypeOK'
  <2>1. CASE ServeSend(f)
    <3>1. toClient' \in [Flows -> SUBSET {"target", "data"}]
      BY <2>1, SentType DEF ServeSend
    <3>2. toFlow' \in [Flows -> 0..Window]
      BY <2>1 DEF ServeSend
    <3>3. QED
      BY <2>1, <3>1, <3>2 DEF ServeSend
  <2>2. CASE ServeReply(f)
    BY <2>2 DEF ServeReply
  <2>3. CASE ServeQuiet(f)
    BY <2>3 DEF ServeQuiet, ServePC
  <2>4. CASE ServeForgets(f)
    BY <2>4 DEF ServeForgets, ServePC
  <2>5. QED
    BY <1>9, <2>1, <2>2, <2>3, <2>4 DEF Serve
<1>10. ASSUME NEW f \in Flows, Member(f) PROVE TypeOK'
  <2>1. CASE Spawn(f)
    <3>1. toServer' \in [Flows -> SUBSET {"auth", "data"}]
      <4>1. Sent(toServer, f, "auth") \in [Flows -> SUBSET {"auth", "data"}]
        BY SentType
      <4>2. toServer' \in {toServer, Sent(toServer, f, "auth")}
        BY <2>1 DEF Spawn
      <4>3. QED
        BY <4>1, <4>2
    <3>2. worker' \in [Flows -> WorkerPC]
      BY <2>1 DEF Spawn, WorkerPC
    <3>3. QED
      BY <2>1, <3>1, <3>2 DEF Spawn
  <2>2. CASE FirstDatagram(f)
    <3>1. worker' \in [Flows -> WorkerPC]
      <4>1. \E w \in {"relay", "ended", "misled"} : worker' = [worker EXCEPT ![f] = w]
        BY <2>2 DEF FirstDatagram, Close
      <4>2. QED
        BY <4>1 DEF WorkerPC
    <3>2. toClient' \in [Flows -> SUBSET {"target", "data"}]
      BY <2>2, ReceivedType DEF FirstDatagram, Close
    <3>3. QED
      BY <2>2, <3>1, <3>2 DEF FirstDatagram
  <2>3. CASE Unclaimed(f)
    BY <2>3 DEF Unclaimed, Close, WorkerPC
  <2>4. CASE PumpDown(f)
    <3>1. toClient' \in [Flows -> SUBSET {"target", "data"}]
      BY <2>4, ReceivedType DEF PumpDown
    <3>2. QED
      BY <2>4, <3>1 DEF PumpDown
  <2>5. CASE PumpUp(f)
    BY <2>5, SentType DEF PumpUp
  <2>6. CASE PumpEnds(f)
    BY <2>6 DEF PumpEnds, Close, WorkerPC
  <2>7. QED
    BY <1>10, <2>1, <2>2, <2>3, <2>4, <2>5, <2>6 DEF Member
<1>11. CASE ReapFlows
  BY <1>11 DEF ReapFlows
<1>12. CASE ReapSessions
  BY <1>12 DEF ReapSessions
<1>13. ASSUME NEW u \in Users, Receive(u) PROVE TypeOK'
  BY <1>13 DEF Receive
<1>14. CASE Deliver
  <2>1. toFlow' \in [Flows -> 0..Window]
    BY <1>14 DEF Deliver, Offer, Holding
  <2>2. QED
    BY <1>14, <2>1 DEF Deliver, NextDatagram
<1>15. CASE Claim
  <2>1. Head(udpFlowCh) \in Flows /\ Tail(udpFlowCh) \in Seq(Flows)
        /\ Len(Tail(udpFlowCh)) <= ChanCap
    BY <1>15 DEF Claim
  <2>2. toClient' \in [Flows -> SUBSET {"target", "data"}]
    <3>1. Sent(toClient, Head(udpFlowCh), "target") \in [Flows -> SUBSET {"target", "data"}]
      BY <2>1, SentType
    <3>2. toClient' \in {toClient, Sent(toClient, Head(udpFlowCh), "target")}
      BY <1>15 DEF Claim
    <3>3. QED
      BY <3>1, <3>2
  <2>3. listener' \in {"read", "obtain", "deliver", "insert"} /\ claimed' \in Flows \cup {NoFlow}
    BY <1>15, <2>1 DEF Claim
  <2>4. QED
    BY <1>15, <2>1, <2>2, <2>3 DEF Claim
<1>16. CASE GiveUp
  BY <1>16 DEF GiveUp, NextDatagram
<1>17. CASE Insert
  BY <1>17 DEF Insert, NextDatagram, Holding, ServePC
<1>18. CASE UNCHANGED vars
  BY <1>18 DEF vars
<1>19. QED
  BY <1>1, <1>2, <1>3, <1>4, <1>5, <1>6, <1>7, <1>8, <1>9, <1>10, <1>11, <1>12, <1>13,
     <1>14, <1>15, <1>16, <1>17, <1>18 DEF Next

-------------------------------------------------------------------------------
(* Flows are claimed once, and what is mapped is served.                   *)

\* The steps that move datagrams, close sockets or let time pass.
Elsewhere ==
  /\ UNCHANGED <<udpFlows, udpFlowCh, sessions, listener, from, claimed, serve, userOf>>
  /\ oldFlow' \subseteq oldFlow
  /\ \A f \in Flows : /\ "auth" \in toServer'[f] => "auth" \in toServer[f]
                      /\ worker'[f] = "none" => worker[f] = "none"

LEMMA ReceivedTag ==
  ASSUME TypeOK, NEW f \in Flows, NEW m, toServer' \in Received(toServer, f, m)
  PROVE  \A g \in Flows : "auth" \in toServer'[g] => "auth" \in toServer[g]
BY DEF TypeOK, Received

LEMMA NetworkSteps ==
  ASSUME IInv, NEW f \in Flows,
         \/ LoseUp(f) \/ LoseDown(f) \/ SessionAges(f)
         \/ Inbound(f) \/ ServeSend(f) \/ ServeReply(f)
  PROVE  Elsewhere
<1>0. TypeOK
  BY DEF IInv
<1> USE <1>0 DEF Elsewhere, control, flowTable, port, relay, chans, net, client
<1>1. CASE LoseUp(f)
  BY <1>1 DEF LoseUp, TypeOK
<1>2. CASE LoseDown(f) \/ SessionAges(f)
  BY <1>2 DEF LoseDown, SessionAges
<1>3. CASE Inbound(f)
  <2>1. \A g \in Flows : "auth" \in toServer'[g] => "auth" \in toServer[g]
    BY <1>3, ReceivedTag DEF Inbound
  <2>2. QED
    BY <1>3, <2>1 DEF Inbound
<1>4. CASE ServeSend(f) \/ ServeReply(f)
  BY <1>4 DEF ServeSend, ServeReply
<1>5. QED
  BY <1>1, <1>2, <1>3, <1>4

LEMMA ClientSteps ==
  ASSUME IInv, NEW f \in Flows, Member(f), ~Spawn(f)
  PROVE  Elsewhere
<1>0. TypeOK
  BY DEF IInv
<1> USE <1>0 DEF Elsewhere, control, flowTable, port, relay, chans, net, client
<1>1. CASE FirstDatagram(f)
  BY <1>1 DEF FirstDatagram, Close, TypeOK
<1>2. CASE Unclaimed(f) \/ PumpEnds(f)
  BY <1>2 DEF Unclaimed, PumpEnds, Close, TypeOK
<1>3. CASE PumpDown(f)
  BY <1>3 DEF PumpDown
<1>4. CASE PumpUp(f)
  <2>1. \A g \in Flows : "auth" \in Sent(toServer, f, "data")[g] => "auth" \in toServer[g]
    BY DEF Sent, TypeOK
  <2>2. QED
    BY <1>4, <2>1 DEF PumpUp
<1>5. QED
  BY <1>1, <1>2, <1>3, <1>4 DEF Member

\* The other steps are those of flows and sessions.
LEMMA StepCases ==
  ASSUME IInv, [Next]_vars
  PROVE  \/ Elsewhere \/ UNCHANGED vars
         \/ \E f \in Flows : \/ Register(f) \/ FlowAges(f) \/ Spawn(f)
                             \/ ServeQuiet(f) \/ ServeForgets(f)
         \/ \E u \in Users : Receive(u)
         \/ ReapFlows \/ ReapSessions \/ Deliver \/ Claim \/ GiveUp \/ Insert
<1>1. GenerationEnds \/ GenerationStarts => Elsewhere
  BY DEF GenerationEnds, GenerationStarts, Elsewhere, flowTable, port, relay, net, client
<1>2. ASSUME NEW f \in Flows, Serve(f)
      PROVE  ServeSend(f) \/ ServeReply(f) \/ ServeQuiet(f) \/ ServeForgets(f)
  BY <1>2 DEF Serve
<1>3. ASSUME NEW f \in Flows, Member(f) PROVE Spawn(f) \/ Elsewhere
  BY <1>3, ClientSteps
<1>4. QED
  BY <1>1, <1>2, <1>3, NetworkSteps DEF Next

LEMMA HoldingStep == IInv /\ [Next]_vars => Holding'
<1> SUFFICES ASSUME IInv, [Next]_vars PROVE Holding'
  OBVIOUS
<1>0. TypeOK /\ Holding
  BY DEF IInv
<1> USE <1>0, Bounds DEF Holding, port
<1>1. ASSUME NEW f \in Flows, Register(f) \/ FlowAges(f) \/ ServeQuiet(f) \/ ServeForgets(f) \/ Spawn(f)
      PROVE  Holding'
  BY <1>1 DEF Register, FlowAges, ServeQuiet, ServeForgets, Spawn
<1>2. CASE ReapFlows \/ ReapSessions
  BY <1>2 DEF ReapFlows, ReapSessions
<1>3. ASSUME NEW u \in Users, Receive(u) PROVE Holding'
  BY <1>3 DEF Receive, TypeOK
<1>4. CASE Deliver \/ GiveUp \/ Insert
  BY <1>4 DEF Deliver, GiveUp, Insert, NextDatagram
<1>5. CASE Claim
  <2>1. Head(udpFlowCh) \in Flows
    BY <1>5 DEF Claim, TypeOK
  <2>2. QED
    BY <1>5, <2>1 DEF Claim
<1>6. CASE Elsewhere
  BY <1>6 DEF Elsewhere
<1>7. CASE UNCHANGED vars
  BY <1>7 DEF vars
<1>8. QED
  BY <1>1, <1>2, <1>3, <1>4, <1>5, <1>6, <1>7, StepCases

\* What a flow in the channel becomes when one enters ...
LEMMA Entering ==
  ASSUME TypeOK, NEW f \in Flows, udpFlowCh' = Append(udpFlowCh, f), ~IsQueued(f)
  PROVE  /\ \A g \in Flows : IsQueued(g)' <=> IsQueued(g) \/ g = f
         /\ (\A i, j \in 1..Len(udpFlowCh) : udpFlowCh[i] = udpFlowCh[j] => i = j)
              => (\A i, j \in 1..Len(udpFlowCh) : udpFlowCh[i] = udpFlowCh[j] => i = j)'
<1>1. /\ Len(udpFlowCh) \in Nat /\ Len(udpFlowCh') = Len(udpFlowCh) + 1
      /\ udpFlowCh'[Len(udpFlowCh) + 1] = f
      /\ \A i \in 1..Len(udpFlowCh) : udpFlowCh'[i] = udpFlowCh[i]
  BY DEF TypeOK
<1>2. QED
  BY <1>1 DEF IsQueued

\* ... and when the first is claimed.
LEMMA Leaving ==
  ASSUME TypeOK, FlowOnce, udpFlowCh # <<>>, udpFlowCh' = Tail(udpFlowCh)
  PROVE  /\ Head(udpFlowCh) \in Flows /\ IsQueued(Head(udpFlowCh))
         /\ \A g \in Flows : IsQueued(g)' => IsQueued(g) /\ g # Head(udpFlowCh)
         /\ (\A i, j \in 1..Len(udpFlowCh) : udpFlowCh[i] = udpFlowCh[j] => i = j)'
<1>1. /\ Len(udpFlowCh) \in Nat \ {0} /\ Len(udpFlowCh') = Len(udpFlowCh) - 1
      /\ Head(udpFlowCh) = udpFlowCh[1] /\ Head(udpFlowCh) \in Flows
      /\ \A i \in 1..Len(udpFlowCh') : udpFlowCh'[i] = udpFlowCh[i + 1]
  BY DEF TypeOK
<1>2. \A i \in 1..Len(udpFlowCh') : i + 1 \in 1..Len(udpFlowCh) /\ i + 1 # 1
  BY <1>1
<1>3. (\A i, j \in 1..Len(udpFlowCh) : udpFlowCh[i] = udpFlowCh[j] => i = j)'
  BY <1>1, <1>2 DEF FlowOnce
<1>4. \A g \in Flows : IsQueued(g)' => IsQueued(g) /\ g # Head(udpFlowCh)
  BY <1>1, <1>2 DEF FlowOnce, IsQueued
<1>5. QED
  BY <1>1, <1>3, <1>4 DEF IsQueued

\* A flow begins when it is registered, and only then.
LEMMA BegunBefore ==
  ASSUME IInv, [Next]_vars, NEW f \in Flows, Begun(f)'
  PROVE  Begun(f) \/ (f \in udpFlows' \ udpFlows /\ "auth" \in toServer[f])
<1>0. TypeOK /\ Holding /\ FlowOnce
  BY DEF IInv
<1> USE <1>0 DEF Begun, control, flowTable, port, relay, chans, net, client
<1>1. CASE Elsewhere
  BY <1>1 DEF Elsewhere, IsQueued
<1>2. CASE UNCHANGED vars
  BY <1>2 DEF vars, IsQueued
<1>3. ASSUME NEW g \in Flows, Register(g) PROVE Begun(f) \/ (f \in udpFlows' \ udpFlows /\ "auth" \in toServer[f])
  <2>1. CASE UNCHANGED udpFlowCh
    BY <1>3, <2>1 DEF Register, IsQueued
  <2>2. CASE udpFlowCh' = Append(udpFlowCh, g) /\ "auth" \in toServer[g]
    <3>1. IsQueued(f)' => IsQueued(f) \/ f = g
      BY <2>2 DEF IsQueued, TypeOK
    <3>2. QED
      BY <1>3, <2>2, <3>1 DEF Register
  <2>3. QED
    BY <1>3, <2>1, <2>2 DEF Register
<1>4. ASSUME NEW g \in Flows, FlowAges(g) \/ Spawn(g) PROVE Begun(f)
  BY <1>4 DEF FlowAges, Spawn, IsQueued
<1>5. ASSUME NEW g \in Flows, ServeQuiet(g) \/ ServeForgets(g) PROVE Begun(f)
  BY <1>5 DEF ServeQuiet, ServeForgets, IsQueued, TypeOK
<1>6. ASSUME NEW u \in Users, Receive(u) PROVE Begun(f)
  BY <1>6 DEF Receive, IsQueued
<1>7. CASE ReapFlows \/ ReapSessions
  BY <1>7 DEF ReapFlows, ReapSessions, IsQueued
<1>8. CASE Deliver \/ GiveUp
  BY <1>8 DEF Deliver, GiveUp, NextDatagram, IsQueued
<1>9. CASE Claim
  BY <1>9, Leaving DEF Claim
<1>10. CASE Insert
  BY <1>10 DEF Insert, NextDatagram, IsQueued, TypeOK, Holding
<1>11. QED
  BY <1>1, <1>2, <1>3, <1>4, <1>5, <1>6, <1>7, <1>8, <1>9, <1>10, StepCases

LEMMA ForgottenStep == IInv /\ [Next]_vars => Forgotten'
<1> SUFFICES ASSUME IInv, [Next]_vars, NEW f \in Flows PROVE ForgottenOf(f)'
  BY DEF Forgotten
<1>0. TypeOK /\ Holding /\ ForgottenOf(f)
  BY DEF IInv, Forgotten
<1>1. Begun(f)' => Begun(f) \/ (f \in udpFlows' \ udpFlows /\ "auth" \in toServer[f])
  BY BegunBefore
<1> USE <1>0 DEF ForgottenOf, control, flowTable, port, relay, chans, net, client
<1>2. CASE Elsewhere
  <2>1. Begun(f)' <=> Begun(f)
    BY <1>2 DEF Elsewhere, Begun, IsQueued
  <2>2. QED
    BY <1>2, <2>1 DEF Elsewhere
<1>3. CASE UNCHANGED vars
  <2>1. Begun(f)' <=> Begun(f)
    BY <1>3 DEF vars, Begun, IsQueued
  <2>2. QED
    BY <1>3, <2>1 DEF vars
<1>4. ASSUME NEW g \in Flows, Register(g) PROVE ForgottenOf(f)'
  <2>1. "auth" \in toServer'[f] => "auth" \in toServer[f]
    BY <1>4, ReceivedTag DEF Register
  <2>2. f \in udpFlows => f \in udpFlows'
    BY <1>4 DEF Register
  <2>3. CASE g = f
    <3>1. f \in udpFlows' => "auth" \in toServer[f]
      BY <1>4, <2>3 DEF Register
    <3>2. QED
      BY <1>1, <1>4, <2>1, <2>2, <2>3, <3>1 DEF Register
  <2>4. CASE g # f
    <3>1. f \in udpFlows' <=> f \in udpFlows
      BY <1>4, <2>4 DEF Register
    <3>2. QED
      BY <1>1, <1>4, <2>1, <3>1 DEF Register
  <2>5. QED
    BY <2>3, <2>4
<1>5. ASSUME NEW g \in Flows, FlowAges(g) PROVE ForgottenOf(f)'
  BY <1>1, <1>5 DEF FlowAges
<1>6. ASSUME NEW g \in Flows, Spawn(g) PROVE ForgottenOf(f)'
  <2>1. Begun(f)' <=> Begun(f)
    BY <1>6 DEF Spawn, Begun, IsQueued
  <2>2. f # g => worker'[f] = worker[f] /\ toServer'[f] = toServer[f]
    BY <1>6 DEF Spawn, Sent, TypeOK
  <2>3. f = g => worker[f] = "none" /\ worker'[f] # "none"
    BY <1>6 DEF Spawn, TypeOK
  <2>4. serve[f] # "none" => Begun(f)
    BY DEF Begun
  <2>5. QED
    BY <1>6, <2>1, <2>2, <2>3, <2>4 DEF Spawn
<1>7. ASSUME NEW g \in Flows, ServeQuiet(g) PROVE ForgottenOf(f)'
  <2>1. Begun(f)' => Begun(f)
    BY <1>7 DEF ServeQuiet, Begun, IsQueued, TypeOK
  <2>2. QED
    BY <1>7, <2>1 DEF ServeQuiet, TypeOK
<1>8. ASSUME NEW g \in Flows, ServeForgets(g) PROVE ForgottenOf(f)'
  <2>1. Begun(f)' => Begun(f)
    BY <1>8 DEF ServeForgets, Begun, IsQueued, TypeOK
  <2>2. serve'[f] = (IF f = g THEN "gone" ELSE serve[f])
    BY <1>8 DEF ServeForgets, TypeOK
  <2>3. udpFlows' = udpFlows \ {g} /\ oldFlow' = oldFlow \ {g}
    BY <1>8 DEF ServeForgets
  <2>4. f = g => serve[f] = "forget"
    BY <1>8 DEF ServeForgets
  <2>5. UNCHANGED <<worker, toServer>>
    BY <1>8 DEF ServeForgets
  <2>6. QED
    BY <2>1, <2>2, <2>3, <2>4, <2>5
<1>9. CASE ReapFlows
  <2>1. Begun(f)' <=> Begun(f)
    BY <1>9 DEF ReapFlows, Begun, IsQueued
  <2>2. QED
    BY <1>9, <2>1 DEF ReapFlows
<1>10. ASSUME \/ \E u \in Users : Receive(u)
              \/ ReapSessions \/ Deliver \/ Claim \/ GiveUp
       PROVE  ForgottenOf(f)'
  <2>1. UNCHANGED <<udpFlows, oldFlow, toServer, worker, serve>>
    BY <1>10 DEF Receive, ReapSessions, Deliver, Claim, GiveUp
  <2>2. QED
    BY <1>1, <2>1
<1>11. CASE Insert
  <2>1. Begun(f)' => Begun(f)
    BY <1>11 DEF Insert, NextDatagram, Begun, IsQueued, TypeOK, Holding
  <2>2. serve'[f] = serve[f] \/ serve'[f] = "run"
    BY <1>11 DEF Insert, TypeOK
  <2>3. QED
    BY <1>11, <2>1, <2>2 DEF Insert
<1>12. QED
  BY <1>2, <1>3, <1>4, <1>5, <1>6, <1>7, <1>8, <1>9, <1>10, <1>11, StepCases

LEMMA OnceStep == IInv /\ [Next]_vars => FlowOnce'
<1> SUFFICES ASSUME IInv, [Next]_vars PROVE FlowOnce'
  OBVIOUS
<1>0. TypeOK /\ Holding /\ FlowOnce
  BY DEF IInv
<1> USE <1>0 DEF control, flowTable, port, relay, chans, net, client
<1>1. CASE Elsewhere
  BY <1>1 DEF Elsewhere, FlowOnce, IsQueued
<1>2. CASE UNCHANGED vars
  BY <1>2 DEF vars, FlowOnce, IsQueued
<1>3. ASSUME NEW g \in Flows, Register(g) PROVE FlowOnce'
  <2>1. CASE UNCHANGED udpFlowCh
    BY <1>3, <2>1 DEF Register, FlowOnce, IsQueued
  <2>2. CASE udpFlowCh' = Append(udpFlowCh, g) /\ "auth" \in toServer[g]
    <3>1. ~Begun(g)
      BY <1>3, <2>2 DEF Register, IInv, Forgotten, ForgottenOf
    <3>2. \A h \in Flows : IsQueued(h)' <=> IsQueued(h) \/ h = g
      BY <2>2, <3>1, Entering DEF Begun
    <3>3. (\A i, j \in 1..Len(udpFlowCh) : udpFlowCh[i] = udpFlowCh[j] => i = j)'
      BY <2>2, <3>1, Entering DEF Begun, FlowOnce
    <3>4. UNCHANGED <<serve, listener, claimed>>
      BY <1>3 DEF Register
    <3>5. QED
      BY <3>1, <3>2, <3>3, <3>4 DEF FlowOnce, Begun, Holding
  <2>3. QED
    BY <1>3, <2>1, <2>2 DEF Register
<1>4. ASSUME NEW g \in Flows, FlowAges(g) \/ Spawn(g) PROVE FlowOnce'
  BY <1>4 DEF FlowAges, Spawn, FlowOnce, IsQueued
<1>5. ASSUME NEW g \in Flows, ServeQuiet(g) \/ ServeForgets(g) PROVE FlowOnce'
  <2>1. \A h \in Flows : serve[h] = "none" => serve'[h] = "none"
    BY <1>5 DEF ServeQuiet, ServeForgets, TypeOK
  <2>2. UNCHANGED <<udpFlowCh, listener, claimed>>
    BY <1>5 DEF ServeQuiet, ServeForgets
  <2>3. QED
    BY <2>1, <2>2 DEF FlowOnce, IsQueued, Holding
<1>6. ASSUME NEW u \in Users, Receive(u) PROVE FlowOnce'
  BY <1>6 DEF Receive, FlowOnce, IsQueued
<1>7. CASE ReapFlows \/ ReapSessions
  BY <1>7 DEF ReapFlows, ReapSessions, FlowOnce, IsQueued
<1>8. CASE Deliver \/ GiveUp
  BY <1>8 DEF Deliver, GiveUp, NextDatagram, FlowOnce, IsQueued
<1>9. CASE Claim
  <2>1. UNCHANGED serve /\ (listener' = "insert" => claimed' = Head(udpFlowCh))
    BY <1>9 DEF Claim
  <2>2. QED
    BY <1>9, <2>1, Leaving DEF Claim, FlowOnce
<1>10. CASE Insert
  <2>1. \A h \in Flows : serve'[h] = IF h = claimed THEN "run" ELSE serve[h]
    BY <1>10 DEF Insert, TypeOK, Holding
  <2>2. UNCHANGED udpFlowCh /\ listener' = "read" /\ ~IsQueued(claimed)
    BY <1>10 DEF Insert, NextDatagram, FlowOnce
  <2>3. QED
    BY <2>1, <2>2 DEF FlowOnce, IsQueued
<1>11. QED
  BY <1>1, <1>2, <1>3, <1>4, <1>5, <1>6, <1>7, <1>8, <1>9, <1>10, StepCases

LEMMA MappedStep == IInv /\ [Next]_vars => MappedIsServed'
<1> SUFFICES ASSUME IInv, [Next]_vars PROVE MappedIsServed'
  OBVIOUS
<1>0. TypeOK /\ Holding /\ MappedIsServed
  BY DEF IInv
<1> USE <1>0, Bounds DEF MappedIsServed, control, flowTable, port, relay, chans, net, client
<1>1. CASE Elsewhere
  BY <1>1 DEF Elsewhere
<1>2. CASE UNCHANGED vars
  BY <1>2 DEF vars
<1>3. ASSUME NEW f \in Flows, Register(f) \/ FlowAges(f) \/ Spawn(f) PROVE MappedIsServed'
  BY <1>3 DEF Register, FlowAges, Spawn
<1>4. ASSUME NEW f \in Flows, ServeQuiet(f) PROVE MappedIsServed'
  BY <1>4 DEF ServeQuiet, TypeOK
<1>5. ASSUME NEW f \in Flows, ServeForgets(f) PROVE MappedIsServed'
  BY <1>5 DEF ServeForgets, TypeOK
<1>6. ASSUME NEW u \in Users, Receive(u) PROVE MappedIsServed'
  BY <1>6 DEF Receive
<1>7. CASE ReapFlows \/ Deliver \/ Claim \/ GiveUp
  BY <1>7 DEF ReapFlows, Deliver, Claim, GiveUp
<1>8. CASE ReapSessions
  BY <1>8 DEF ReapSessions, TypeOK
<1>9. CASE Insert
  <2>1. serve[claimed] = "none" /\ claimed \in Flows /\ from \in Users
    BY <1>9 DEF Insert, IInv, FlowOnce, Holding
  <2>2. \A u \in Users : sessions[u] # claimed
    BY <2>1
  <2>3. QED
    BY <1>9, <2>1, <2>2 DEF Insert, TypeOK
<1>10. QED
  BY <1>1, <1>2, <1>3, <1>4, <1>5, <1>6, <1>7, <1>8, <1>9, StepCases

LEMMA InvStep == IInv /\ [Next]_vars => IInv'
BY TypeStep, HoldingStep, ForgottenStep, OnceStep, MappedStep DEF IInv

\* The variables have their types, and the channels hold.
THEOREM TypeCorrect == Spec => []TypeOK
<1>1. IInv => TypeOK
  BY DEF IInv
<1>2. QED
  BY <1>1, Initially, InvStep, PTL DEF Spec

\* A flow is claimed once in its life, whatever the network loses, duplicates or
\* reorders, for as long as a datagram does not outlive udpIdleTimeout.
THEOREM ClaimedOnce == Spec => []FlowOnce
<1>1. IInv => FlowOnce
  BY DEF IInv
<1>2. QED
  BY <1>1, Initially, InvStep, PTL DEF Spec

\* The map agrees with the goroutines that serve its sessions.
THEOREM MapSafe == Spec => []MappedIsServed
<1>1. IInv => MappedIsServed
  BY DEF IInv
<1>2. QED
  BY <1>1, Initially, InvStep, PTL DEF Spec

-------------------------------------------------------------------------------
(* UDPRelay.  That the map agrees with the readers is not inductive: that  *)
(* the listener puts a carrier in the map which no other has the place of, *)
(* and which nobody has released, follows from what the listener did in    *)
(* the steps before.  RelayInv says it of the steps in between.            *)

\* What the listener knows of the session in its hands, step by step.
Grips ==
  /\ sess # NoCarrier => ~Relay!Unused(sess)
  /\ taker # "read" => source \in Sources
  /\ taker \in {"obtain", "announce", "insert"} => mapped[source] = NoCarrier
  /\ taker \in {"announce", "insert"} =>
       /\ sess \in Carriers /\ replyTo[sess] = source
       /\ reader[sess] = "none" /\ released[sess] = 0
  /\ taker \in {"touch", "write"} => sess \in Carriers

\* A carrier is released once before its reader goes, and not while it is mapped.
Accounted ==
  /\ \A c \in Carriers : /\ Relay!Unused(c) => reader[c] = "none" /\ released[c] = 0
                         /\ reader[c] # "gone" => released[c] <= 1
  /\ \A k \in Sources : mapped[k] # NoCarrier => released[mapped[k]] = 0

RelayInv == Relay!TypeOK /\ Grips /\ Accounted /\ Relay!MapMatchesReaders

\* The actions of the client and of the network leave the server alone, but for
\* the carriers that a failing tunnel closes.
Abroad ==
  /\ UNCHANGED <<taker, source, sess, mapped, replyTo, released, reader>>
  /\ srvClosed \subseteq srvClosed'

LEMMA RelayFirst == Relay!Init => RelayInv /\ Relay!NoCarrierLost
BY RelayAssumption
   DEF Relay!Init, RelayInv, Relay!TypeOK, Grips, Accounted, Relay!MapMatchesReaders,
       Relay!NoCarrierLost, Relay!Unused,
       Relay!ListenerPC, Relay!ReaderPC, Relay!DownPC, Relay!UpPC

-------------------------------------------------------------------------------
(* Type correctness.                                                       *)

LEMMA RelayTypes == RelayInv /\ [Relay!Next]_(Relay!vars) => Relay!TypeOK'
<1> SUFFICES ASSUME RelayInv, [Relay!Next]_(Relay!vars) PROVE Relay!TypeOK'
  OBVIOUS
<1>0. Relay!TypeOK
  BY DEF RelayInv
<1> USE <1>0, RelayAssumption
    DEF Relay!TypeOK, Relay!ListenerPC, Relay!ReaderPC, Relay!DownPC, Relay!UpPC,
        Relay!srv, Relay!cli
<1>1. ASSUME NEW k \in Sources, Relay!Receive(k) PROVE Relay!TypeOK'
  BY <1>1 DEF Relay!Receive
<1>2. ASSUME Relay!Listen PROVE Relay!TypeOK'
  <2>1. CASE Relay!Obtain
    BY <2>1 DEF Relay!Obtain, Relay!NextDatagram, RelayInv, Grips
  <2>2. CASE Relay!Announce
    BY <2>2 DEF Relay!Announce, Relay!NextDatagram, RelayInv, Grips
  <2>3. CASE Relay!Insert
    BY <2>3 DEF Relay!Insert, RelayInv, Grips
  <2>4. CASE Relay!Touch
    BY <2>4 DEF Relay!Touch
  <2>5. CASE Relay!Write
    BY <2>5 DEF Relay!Write, Relay!NextDatagram, RelayInv, Grips
  <2>6. QED
    BY <1>2, <2>1, <2>2, <2>3, <2>4, <2>5 DEF Relay!Listen
<1>3. ASSUME Relay!Reap PROVE Relay!TypeOK'
  <2>. DEFINE dead == {mapped[k] : k \in Sources} \cap idle
  <2>1. \A c \in dead : released[c] = 0
    BY DEF RelayInv, Accounted
  <2>2. released' \in [Carriers -> 0..2] /\ srvClosed' \subseteq Carriers
    BY <1>3, <2>1 DEF Relay!Reap
  <2>3. mapped' \in [Sources -> Carriers \cup {NoCarrier}]
    BY <1>3 DEF Relay!Reap
  <2>4. QED
    BY <1>3, <2>2, <2>3 DEF Relay!Reap
<1>4. ASSUME NEW c \in Carriers, Relay!Read(c) PROVE Relay!TypeOK'
  <2>1. CASE Relay!ReaderReply(c)
    BY <2>1 DEF Relay!ReaderReply
  <2>2. CASE Relay!ReaderFails(c)
    BY <2>2 DEF Relay!ReaderFails
  <2>3. CASE Relay!ReaderForgets(c)
    BY <2>3 DEF Relay!ReaderForgets
  <2>4. CASE Relay!ReaderReleases(c)
    BY <2>4 DEF Relay!ReaderReleases, RelayInv, Accounted
  <2>5. QED
    BY <1>4, <2>1, <2>2, <2>3, <2>4 DEF Relay!Read
<1>5. ASSUME NEW c \in Carriers, Relay!Ages(c) \/ Relay!Start(c) \/ Relay!Breaks(c) PROVE Relay!TypeOK'
  BY <1>5 DEF Relay!Ages, Relay!Start, Relay!Breaks
<1>6. ASSUME NEW c \in Carriers, Relay!Down(c) PROVE Relay!TypeOK'
  BY <1>6 DEF Relay!Down, Relay!DownRelay, Relay!DownFails, Relay!DownReturns
<1>7. ASSUME NEW c \in Carriers, Relay!Up(c) PROVE Relay!TypeOK'
  BY <1>7 DEF Relay!Up, Relay!UpRelay, Relay!UpFails
<1>8. CASE UNCHANGED Relay!vars
  BY <1>8 DEF Relay!vars
<1>9. QED
  BY <1>1, <1>2, <1>3, <1>4, <1>5, <1>6, <1>7, <1>8 DEF Relay!Next

-------------------------------------------------------------------------------
(* The session map, its readers and what is released.                      *)

\* The steps that are about something else: the client's, the failures of a
\* tunnel, and the passing of time and of datagrams.
LEMMA OtherSteps ==
  ASSUME NEW c \in Carriers, \/ Relay!Ages(c) \/ Relay!ReaderReply(c)
                             \/ Relay!Start(c) \/ Relay!Breaks(c)
                             \/ Relay!Down(c) \/ Relay!Up(c)
  PROVE  Abroad
BY DEF Abroad, Relay!Ages, Relay!ReaderReply, Relay!Start, Relay!Breaks,
       Relay!Down, Relay!DownRelay, Relay!DownFails, Relay!DownReturns,
       Relay!Up, Relay!UpRelay, Relay!UpFails, Relay!srv

\* A carrier that no reader has, or that one has forgotten, is in nobody's place.
LEMMA Unmapped ==
  ASSUME RelayInv, NEW c \in Carriers, reader[c] \notin {"read", "forget"}
  PROVE  \A k \in Sources : mapped[k] # c
<1> SUFFICES ASSUME NEW k \in Sources, mapped[k] = c PROVE FALSE
  OBVIOUS
<1>1. mapped[k] # NoCarrier
  BY RelayAssumption
<1>2. QED
  BY <1>1 DEF RelayInv, Relay!MapMatchesReaders

LEMMA GripsStep == RelayInv /\ [Relay!Next]_(Relay!vars) => Grips'
<1> SUFFICES ASSUME RelayInv, [Relay!Next]_(Relay!vars) PROVE Grips'
  OBVIOUS
<1>0. Relay!TypeOK /\ Grips
  BY DEF RelayInv
<1> USE <1>0, RelayAssumption DEF Relay!TypeOK, Grips, Relay!Unused, Relay!srv
<1>1. ASSUME NEW k \in Sources, Relay!Receive(k) PROVE Grips'
  BY <1>1 DEF Relay!Receive, RelayInv, Relay!MapMatchesReaders
<1>2. ASSUME Relay!Listen PROVE Grips'
  <2>1. CASE Relay!Obtain
    BY <2>1 DEF Relay!Obtain, Relay!NextDatagram, RelayInv, Accounted
  <2>2. CASE Relay!Announce
    BY <2>2 DEF Relay!Announce, Relay!NextDatagram
  <2>3. CASE Relay!Insert
    BY <2>3 DEF Relay!Insert
  <2>4. CASE Relay!Touch \/ Relay!Write
    BY <2>4 DEF Relay!Touch, Relay!Write, Relay!NextDatagram
  <2>5. QED
    BY <1>2, <2>1, <2>2, <2>3, <2>4 DEF Relay!Listen
<1>3. ASSUME Relay!Reap PROVE Grips'
  <2>1. taker \in {"announce", "insert"} => \A k \in Sources : mapped[k] # sess
    BY Unmapped
  <2>2. QED
    BY <1>3, <2>1 DEF Relay!Reap
<1>4. ASSUME NEW c \in Carriers,
             Relay!ReaderFails(c) \/ Relay!ReaderForgets(c) \/ Relay!ReaderReleases(c)
      PROVE  Grips'
  BY <1>4 DEF Relay!ReaderFails, Relay!ReaderForgets, Relay!ReaderReleases
<1>5. CASE Abroad
  BY <1>5 DEF Abroad
<1>6. CASE UNCHANGED Relay!vars
  BY <1>6 DEF Relay!vars
<1>7. QED
  BY <1>1, <1>2, <1>3, <1>4, <1>5, <1>6, OtherSteps DEF Relay!Next, Relay!Read

LEMMA AccountedStep == RelayInv /\ [Relay!Next]_(Relay!vars) => Accounted'
<1> SUFFICES ASSUME RelayInv, [Relay!Next]_(Relay!vars) PROVE Accounted'
  OBVIOUS
<1>0. Relay!TypeOK /\ Grips /\ Accounted
  BY DEF RelayInv
<1> USE <1>0, RelayAssumption DEF Relay!TypeOK, Accounted, Relay!Unused, Relay!srv
<1>1. ASSUME NEW k \in Sources, Relay!Receive(k) PROVE Accounted'
  BY <1>1 DEF Relay!Receive
<1>2. ASSUME Relay!Listen PROVE Accounted'
  <2>1. CASE Relay!Obtain
    BY <2>1 DEF Relay!Obtain
  <2>2. CASE Relay!Announce
    <3>1. \A k \in Sources : mapped[k] # sess
      BY <2>2, Unmapped DEF Relay!Announce, Grips
    <3>2. QED
      BY <2>2, <3>1 DEF Relay!Announce, Grips
  <2>3. CASE Relay!Insert
    BY <2>3 DEF Relay!Insert, Grips
  <2>4. CASE Relay!Touch \/ Relay!Write
    BY <2>4 DEF Relay!Touch, Relay!Write
  <2>5. QED
    BY <1>2, <2>1, <2>2, <2>3, <2>4 DEF Relay!Listen
<1>3. ASSUME Relay!Reap PROVE Accounted'
  <2>1. \A k \in Sources : mapped[k] # NoCarrier => reader[mapped[k]] \in {"read", "forget"}
    BY DEF RelayInv, Relay!MapMatchesReaders
  <2>. DEFINE dead == {mapped[k] : k \in Sources} \cap idle
  <2>2. \A c \in Carriers : released'[c] = IF c \in dead THEN 1 ELSE released[c]
    BY <1>3 DEF Relay!Reap
  <2>3. \A c \in dead \cap Carriers : reader[c] \in {"read", "forget"}
    BY <2>1
  <2>4. UNCHANGED <<replyTo, reader>>
    BY <1>3 DEF Relay!Reap
  <2>5. \A k \in Sources : mapped'[k] # NoCarrier =>
                              mapped'[k] \in Carriers \ dead /\ mapped'[k] = mapped[k]
    BY <1>3 DEF Relay!Reap
  <2>6. QED
    BY <2>2, <2>3, <2>4, <2>5
<1>4. ASSUME NEW c \in Carriers, Relay!ReaderFails(c) \/ Relay!ReaderForgets(c) PROVE Accounted'
  BY <1>4 DEF Relay!ReaderFails, Relay!ReaderForgets
<1>5. ASSUME NEW c \in Carriers, Relay!ReaderReleases(c) PROVE Accounted'
  BY <1>5, Unmapped DEF Relay!ReaderReleases
<1>6. CASE Abroad
  BY <1>6 DEF Abroad
<1>7. CASE UNCHANGED Relay!vars
  BY <1>7 DEF Relay!vars
<1>8. QED
  BY <1>1, <1>2, <1>3, <1>4, <1>5, <1>6, <1>7, OtherSteps DEF Relay!Next, Relay!Read

LEMMA RelayMapStep == RelayInv /\ [Relay!Next]_(Relay!vars) => Relay!MapMatchesReaders'
<1> SUFFICES ASSUME RelayInv, [Relay!Next]_(Relay!vars) PROVE Relay!MapMatchesReaders'
  OBVIOUS
<1>0. Relay!TypeOK /\ Grips /\ Relay!MapMatchesReaders
  BY DEF RelayInv
<1> USE <1>0, RelayAssumption DEF Relay!TypeOK, Relay!MapMatchesReaders, Relay!srv
<1>1. ASSUME NEW k \in Sources, Relay!Receive(k) PROVE Relay!MapMatchesReaders'
  BY <1>1 DEF Relay!Receive
<1>2. ASSUME Relay!Listen PROVE Relay!MapMatchesReaders'
  <2>1. CASE Relay!Obtain
    BY <2>1 DEF Relay!Obtain, RelayInv, Accounted, Relay!Unused
  <2>2. CASE Relay!Announce
    BY <2>2 DEF Relay!Announce
  <2>3. CASE Relay!Insert
    BY <2>3 DEF Relay!Insert, Grips, Relay!Unused
  <2>4. CASE Relay!Touch \/ Relay!Write
    BY <2>4 DEF Relay!Touch, Relay!Write
  <2>5. QED
    BY <1>2, <2>1, <2>2, <2>3, <2>4 DEF Relay!Listen
<1>3. ASSUME Relay!Reap PROVE Relay!MapMatchesReaders'
  <2>. DEFINE dead == {mapped[k] : k \in Sources} \cap idle
  <2>1. \A k \in Sources : mapped'[k] # NoCarrier => mapped'[k] = mapped[k]
    BY <1>3 DEF Relay!Reap
  <2>2. \A c \in Carriers \ srvClosed' : c \notin srvClosed /\ c \notin dead
    BY <1>3 DEF Relay!Reap
  <2>3. \A k \in Sources : mapped[k] \notin dead => mapped'[k] = mapped[k]
    BY <1>3 DEF Relay!Reap
  <2>4. \A c \in Carriers : reader[c] = "read" => replyTo[c] \in Sources
    BY DEF RelayInv, Accounted, Relay!Unused
  <2>5. UNCHANGED <<replyTo, reader>>
    BY <1>3 DEF Relay!Reap
  <2>6. QED
    BY <2>1, <2>2, <2>3, <2>4, <2>5
<1>4. ASSUME NEW c \in Carriers, Relay!ReaderFails(c) \/ Relay!ReaderForgets(c)
      PROVE  Relay!MapMatchesReaders'
  BY <1>4 DEF Relay!ReaderFails, Relay!ReaderForgets, RelayInv, Accounted, Relay!Unused
<1>5. ASSUME NEW c \in Carriers, Relay!ReaderReleases(c) PROVE Relay!MapMatchesReaders'
  BY <1>5, Unmapped DEF Relay!ReaderReleases
<1>6. CASE Abroad
  BY <1>6 DEF Abroad
<1>7. CASE UNCHANGED Relay!vars
  BY <1>7 DEF Relay!vars
<1>8. QED
  BY <1>1, <1>2, <1>3, <1>4, <1>5, <1>6, <1>7, OtherSteps DEF Relay!Next, Relay!Read

LEMMA RelayStep == RelayInv /\ [Relay!Next]_(Relay!vars) => RelayInv'
BY RelayTypes, GripsStep, AccountedStep, RelayMapStep DEF RelayInv

\* The variables have their types: no carrier is released three times.
THEOREM RelayTyped == RelaySpec => []Relay!TypeOK
<1>1. RelayInv => Relay!TypeOK
  BY DEF RelayInv
<1>2. Relay!Init => RelayInv
  BY RelayFirst
<1>3. QED
  BY <1>1, <1>2, RelayStep, PTL DEF RelaySpec, Relay!Spec

\* The map and the readers agree, however listener, reaper, readers and failing
\* tunnels interleave.
THEOREM RelayMapSafe == RelaySpec => []MapMatchesReaders
<1>1. RelayInv => Relay!MapMatchesReaders
  BY DEF RelayInv
<1>2. Relay!Init => RelayInv
  BY RelayFirst
<1>3. QED
  BY <1>1, <1>2, RelayStep, PTL DEF RelaySpec, Relay!Spec, MapMatchesReaders

-------------------------------------------------------------------------------
(* No carrier is lost.                                                     *)

LEMMA LostStep ==
  RelayInv /\ Relay!NoCarrierLost /\ [Relay!Next]_(Relay!vars) => Relay!NoCarrierLost'
<1> SUFFICES ASSUME RelayInv, Relay!NoCarrierLost, [Relay!Next]_(Relay!vars)
             PROVE  Relay!NoCarrierLost'
  OBVIOUS
<1>0. Relay!TypeOK /\ Grips
  BY DEF RelayInv
<1> USE <1>0, RelayAssumption DEF Relay!TypeOK, Relay!NoCarrierLost, Relay!Unused, Relay!srv
<1>1. ASSUME NEW k \in Sources, Relay!Receive(k) PROVE Relay!NoCarrierLost'
  BY <1>1 DEF Relay!Receive
<1>2. ASSUME Relay!Listen PROVE Relay!NoCarrierLost'
  <2>1. CASE Relay!Obtain
    BY <2>1 DEF Relay!Obtain, Relay!NextDatagram
  <2>2. CASE Relay!Announce
    BY <2>2 DEF Relay!Announce, Relay!NextDatagram, Grips
  <2>3. CASE Relay!Insert
    BY <2>3 DEF Relay!Insert, Grips
  <2>4. CASE Relay!Touch \/ Relay!Write
    BY <2>4 DEF Relay!Touch, Relay!Write, Relay!NextDatagram
  <2>5. QED
    BY <1>2, <2>1, <2>2, <2>3, <2>4 DEF Relay!Listen
<1>3. ASSUME Relay!Reap PROVE Relay!NoCarrierLost'
  BY <1>3 DEF Relay!Reap
<1>4. ASSUME NEW c \in Carriers,
             Relay!ReaderFails(c) \/ Relay!ReaderForgets(c) \/ Relay!ReaderReleases(c)
      PROVE  Relay!NoCarrierLost'
  BY <1>4 DEF Relay!ReaderFails, Relay!ReaderForgets, Relay!ReaderReleases
<1>5. CASE Abroad
  BY <1>5 DEF Abroad
<1>6. CASE UNCHANGED Relay!vars
  BY <1>6 DEF Relay!vars
<1>7. QED
  BY <1>1, <1>2, <1>3, <1>4, <1>5, <1>6, OtherSteps DEF Relay!Next, Relay!Read

\* A carrier that was obtained is released, or somebody is about to.
THEOREM CarriersKept == RelaySpec => []NoCarrierLost
<1>1. Relay!Init => RelayInv /\ Relay!NoCarrierLost
  BY RelayFirst
<1>2. QED
  BY <1>1, RelayStep, LostStep, PTL DEF RelaySpec, Relay!Spec, NoCarrierLost

===============================================================================
