------------------------------ MODULE UDPCarrier ------------------------------
(***************************************************************************)
(* Mode "udp" (udpcarrier.go): end users' datagrams travel as datagrams.   *)
(* A flow is one UDP socket of the client, known to the server by its      *)
(* address.  It authenticates with one datagram and waits in udpFlowCh;    *)
(* the listener of a forwarded port claims one for a new user and sends    *)
(* it the target as an ordinary datagram, after which a goroutine at       *)
(* either end relays.                                                      *)
(*                                                                         *)
(* The network between the two loses, duplicates and reorders: what is in  *)
(* flight for a flow is a set, and a receipt may leave the datagram there. *)
(* Only one thing is assumed of it: a datagram does not outlive            *)
(* udpIdleTimeout.  Time is abstract: what nobody touches may become old   *)
(* at any moment.  A session is named by its flow; addresses are not       *)
(* reused.                                                                 *)
(***************************************************************************)
EXTENDS Integers, Sequences, FiniteSets

CONSTANTS Flows, Users, NoFlow, NoUser,
          ChanCap,    \* capacity of udpFlowCh
          Window,     \* capacity of a flow's inbound and a session's toFlow
          MaxGen,     \* bound on the generations of the control channel
          MaxLoad,    \* bound on generations and flows together
          MaxFlight   \* bound on the datagrams in flight one way: more are lost

ASSUME BoundAssumption == {ChanCap, Window, MaxGen, MaxLoad, MaxFlight} \subseteq Nat \ {0}
ASSUME NoneAssumption == NoFlow \notin Flows /\ NoUser \notin Users

VARIABLES
  gen, up,      \* the last generation, and whether it still stands
  udpFlows,     \* the addresses known to the server
  udpFlowCh,    \* Seq(Flows)
  oldFlow,      \* flows whose lastActive is udpIdleTimeout ago
  sessions,     \* [Users -> Flows \cup {NoFlow}]
  oldSess,      \* sessions whose lastActive is udpIdleTimeout ago
  listener, from, claimed,  \* the port's goroutine, its datagram, its flow
  serve,        \* [Flows -> ServePC], serveUDPCarrierSession
  userOf,       \* [Flows -> Users \cup {NoUser}], that session's user
  inbound, toFlow,  \* [Flows -> 0..Window], the two channels of a session
  toServer,     \* [Flows -> SUBSET {"auth", "data"}], in flight
  toClient,     \* [Flows -> SUBSET {"target", "data"}], in flight
  worker,       \* [Flows -> WorkerPC], udpCarrierSpawnOne
  epochOf       \* [Flows -> 0..MaxGen], the epoch it authenticates for

control == <<gen, up>>
flowTable == <<udpFlows, udpFlowCh, oldFlow>>
port == <<listener, from, claimed>>
relay == <<serve, userOf>>
chans == <<inbound, toFlow>>
net == <<toServer, toClient>>
client == <<worker, epochOf>>
vars == <<control, flowTable, sessions, oldSess, port, relay, chans, net, client>>

ServePC == {"none", "run", "forget", "gone"}
Datagrams == {"auth", "target", "data"}
WorkerPC == {"none", "claimwait", "relay", "misled", "ended"}

IsQueued(f) == \E i \in 1..Len(udpFlowCh) : udpFlowCh[i] = f
Closed(f) == worker[f] \in {"misled", "ended"}
\* Generations begun and flows dialed.
Load == gen + Cardinality({f \in Flows : worker[f] # "none"})
Sent(box, f, m) ==
  IF Cardinality({x \in Flows \X Datagrams : x[2] \in box[x[1]]}) < MaxFlight
  THEN [box EXCEPT ![f] = @ \cup {m}] ELSE box
\* A datagram is received once, or a duplicate is still to come.
Received(box, f, m) == {box, [box EXCEPT ![f] = @ \ {m}]}
\* A send that drops the datagram when the channel is full.
Offer(ch, f) == [ch EXCEPT ![f] = IF @ < Window THEN @ + 1 ELSE @]

Init ==
  /\ gen = 1 /\ up = TRUE
  /\ udpFlows = {} /\ udpFlowCh = <<>> /\ oldFlow = {}
  /\ sessions = [u \in Users |-> NoFlow] /\ oldSess = {}
  /\ listener = "read" /\ from = NoUser /\ claimed = NoFlow
  /\ serve = [f \in Flows |-> "none"] /\ userOf = [f \in Flows |-> NoUser]
  /\ inbound = [f \in Flows |-> 0] /\ toFlow = [f \in Flows |-> 0]
  /\ toServer = [f \in Flows |-> {}] /\ toClient = [f \in Flows |-> {}]
  /\ worker = [f \in Flows |-> "none"] /\ epochOf = [f \in Flows |-> 0]

-------------------------------------------------------------------------------
(* The control channel and the network.                                    *)

GenerationEnds ==
  /\ up /\ up' = FALSE
  /\ UNCHANGED <<gen, flowTable, sessions, oldSess, port, relay, chans, net, client>>

GenerationStarts ==
  /\ ~up /\ gen < MaxGen /\ Load < MaxLoad
  /\ up' = TRUE /\ gen' = gen + 1
  /\ UNCHANGED <<flowTable, sessions, oldSess, port, relay, chans, net, client>>

LoseUp(f) ==
  /\ \E m \in toServer[f] : toServer' = [toServer EXCEPT ![f] = @ \ {m}]
  /\ UNCHANGED <<control, flowTable, sessions, oldSess, port, relay, chans, toClient, client>>

LoseDown(f) ==
  /\ \E m \in toClient[f] : toClient' = [toClient EXCEPT ![f] = @ \ {m}]
  /\ UNCHANGED <<control, flowTable, sessions, oldSess, port, relay, chans, toServer, client>>

-------------------------------------------------------------------------------
(* udpPoolReadLoop and udpFlowReaper.                                      *)

\* A datagram of a known flow: it is touched, and its consumer gets the data.
Inbound(f) ==
  /\ f \in udpFlows
  /\ \E m \in toServer[f] : toServer' \in Received(toServer, f, m)
  /\ oldFlow' = oldFlow \ {f}
  /\ inbound' = Offer(inbound, f)
  /\ UNCHANGED <<control, udpFlows, udpFlowCh, sessions, oldSess, port, relay, toFlow,
                 toClient, client>>

\* Mutant of the next action: any datagram of a new address will do.
RegisterAny(f) ==
  /\ f \notin udpFlows
  /\ \E m \in toServer[f] :
       /\ toServer' \in Received(toServer, f, m)
       /\ IF Len(udpFlowCh) < ChanCap
          THEN udpFlows' = udpFlows \cup {f} /\ udpFlowCh' = Append(udpFlowCh, f)
          ELSE UNCHANGED <<udpFlows, udpFlowCh>>
  /\ oldFlow' = oldFlow \ {f}
  /\ UNCHANGED <<control, sessions, oldSess, port, relay, chans, toClient, client>>

\* A new address: the tag of the current epoch makes it a flow, unless the
\* channel is full; anything else is ignored.
Register(f) ==
  /\ f \notin udpFlows
  /\ \E m \in toServer[f] :
       /\ toServer' \in Received(toServer, f, m)
       /\ IF m = "auth" /\ up /\ epochOf[f] = gen /\ Len(udpFlowCh) < ChanCap
          THEN udpFlows' = udpFlows \cup {f} /\ udpFlowCh' = Append(udpFlowCh, f)
          ELSE UNCHANGED <<udpFlows, udpFlowCh>>
  /\ oldFlow' = oldFlow \ {f}
  /\ UNCHANGED <<control, sessions, oldSess, port, relay, chans, toClient, client>>

\* udpIdleTimeout passes; no copy of the tag lives that long.
FlowAges(f) ==
  /\ f \in udpFlows \ oldFlow /\ "auth" \notin toServer[f]
  /\ oldFlow' = oldFlow \cup {f}
  /\ UNCHANGED <<control, udpFlows, udpFlowCh, sessions, oldSess, port, relay, chans, net, client>>

\* Mutant of the next action: a flow in service is spared.
ReapUnclaimed ==
  LET dead == {f \in udpFlows \cap oldFlow : serve[f] # "run"}
  IN /\ dead # {}
     /\ udpFlows' = udpFlows \ dead /\ oldFlow' = oldFlow \ dead
     /\ UNCHANGED <<control, udpFlowCh, sessions, oldSess, port, relay, chans, net, client>>

\* A tick of the reaper.
ReapFlows ==
  /\ udpFlows \cap oldFlow # {}
  /\ udpFlows' = udpFlows \ oldFlow /\ oldFlow' = {}
  /\ UNCHANGED <<control, udpFlowCh, sessions, oldSess, port, relay, chans, net, client>>

-------------------------------------------------------------------------------
(* runUDPCarrierPort: one goroutine for all the users of a port.           *)

NextDatagram == listener' = "read" /\ from' = NoUser /\ claimed' = NoFlow

\* A datagram of a user, and the lookup under mu.
Receive(u) ==
  /\ listener = "read"
  /\ from' = u /\ claimed' = sessions[u]
  /\ listener' = IF sessions[u] = NoFlow THEN "obtain" ELSE "deliver"
  /\ UNCHANGED <<control, flowTable, sessions, oldSess, relay, chans, net, client>>

\* The session, which may have ended meanwhile, is touched and gets the data.
Deliver ==
  /\ listener = "deliver"
  /\ NextDatagram
  /\ oldSess' = oldSess \ {claimed}
  /\ toFlow' = IF serve[claimed] = "gone" THEN toFlow ELSE Offer(toFlow, claimed)
  /\ UNCHANGED <<control, flowTable, sessions, relay, inbound, net, client>>

\* obtainUDPFlow takes a flow and sends it the target.  A failed write drops the
\* flow and tries another.
Claim ==
  /\ listener = "obtain" /\ udpFlowCh # <<>>
  /\ udpFlowCh' = Tail(udpFlowCh)
  /\ \/ /\ claimed' = Head(udpFlowCh) /\ listener' = "insert"
        /\ toClient' = IF Closed(claimed') THEN toClient ELSE Sent(toClient, claimed', "target")
     \/ UNCHANGED <<claimed, listener, toClient>>
  /\ UNCHANGED <<control, udpFlows, oldFlow, sessions, oldSess, from, relay, chans,
                 toServer, client>>

\* obtainCtx expires, and the user's datagram is dropped.
GiveUp ==
  /\ listener = "obtain"
  /\ NextDatagram
  /\ UNCHANGED <<control, flowTable, sessions, oldSess, relay, chans, net, client>>

\* The session, with the user's datagram in its channel, and its goroutine.
Insert ==
  /\ listener = "insert"
  /\ NextDatagram
  /\ sessions' = [sessions EXCEPT ![from] = claimed]
  /\ toFlow' = [toFlow EXCEPT ![claimed] = 1]
  /\ serve' = [serve EXCEPT ![claimed] = "run"]
  /\ userOf' = [userOf EXCEPT ![claimed] = from]
  /\ UNCHANGED <<control, flowTable, oldSess, inbound, net, client>>

SessionAges(f) ==
  /\ f \notin oldSess /\ \E u \in Users : sessions[u] = f
  /\ oldSess' = oldSess \cup {f}
  /\ UNCHANGED <<control, flowTable, sessions, port, relay, chans, net, client>>

\* A tick of the port's reaper: the map forgets, the goroutine goes on.
ReapSessions ==
  /\ \E u \in Users : sessions[u] \in oldSess
  /\ sessions' = [u \in Users |-> IF sessions[u] \in oldSess THEN NoFlow ELSE sessions[u]]
  /\ oldSess' = {}
  /\ UNCHANGED <<control, flowTable, port, relay, chans, net, client>>

-------------------------------------------------------------------------------
(* serveUDPCarrierSession.                                                 *)

ServeSend(f) ==
  /\ serve[f] = "run" /\ toFlow[f] > 0
  /\ toFlow' = [toFlow EXCEPT ![f] = @ - 1]
  /\ toClient' = IF Closed(f) THEN toClient ELSE Sent(toClient, f, "data")
  /\ UNCHANGED <<control, flowTable, sessions, oldSess, port, relay, inbound, toServer, client>>

ServeReply(f) ==
  /\ serve[f] = "run" /\ inbound[f] > 0
  /\ inbound' = [inbound EXCEPT ![f] = @ - 1]
  /\ UNCHANGED <<control, flowTable, sessions, oldSess, port, relay, toFlow, net, client>>

\* The idle timer, which either direction resets.
ServeQuiet(f) ==
  /\ serve[f] = "run" /\ toFlow[f] = 0 /\ inbound[f] = 0 /\ "auth" \notin toServer[f]
  /\ serve' = [serve EXCEPT ![f] = "forget"]
  /\ UNCHANGED <<control, flowTable, sessions, oldSess, port, userOf, chans, net, client>>

\* Mutant of the next action: the session stays in the port's map.
ServeForgetsFlow(f) ==
  /\ serve[f] = "forget"
  /\ serve' = [serve EXCEPT ![f] = "gone"]
  /\ udpFlows' = udpFlows \ {f} /\ oldFlow' = oldFlow \ {f}
  /\ UNCHANGED <<control, udpFlowCh, sessions, oldSess, port, userOf, chans, net, client>>

\* The deferred function: the session if it is still the user's, and the flow.
ServeForgets(f) ==
  /\ serve[f] = "forget"
  /\ serve' = [serve EXCEPT ![f] = "gone"]
  /\ sessions' = [u \in Users |-> IF sessions[u] = f THEN NoFlow ELSE sessions[u]]
  /\ udpFlows' = udpFlows \ {f} /\ oldFlow' = oldFlow \ {f} /\ oldSess' = oldSess \ {f}
  /\ inbound' = [inbound EXCEPT ![f] = 0] /\ toFlow' = [toFlow EXCEPT ![f] = 0]
  /\ UNCHANGED <<control, udpFlowCh, port, userOf, net, client>>

Serve(f) == ServeSend(f) \/ ServeReply(f) \/ ServeQuiet(f) \/ ServeForgets(f)

-------------------------------------------------------------------------------
(* The client: udpCarrierSpawnOne and udpCarrierCopy.                      *)

\* A pool member is dialed and sends its tag.
Spawn(f) ==
  /\ worker[f] = "none" /\ Load < MaxLoad
  /\ epochOf' = [epochOf EXCEPT ![f] = gen]
  /\ \/ worker' = [worker EXCEPT ![f] = "claimwait"] /\ toServer' = Sent(toServer, f, "auth")
     \/ worker' = [worker EXCEPT ![f] = "ended"] /\ UNCHANGED toServer
  /\ UNCHANGED <<control, flowTable, sessions, oldSess, port, relay, chans, toClient>>

\* The socket is closed, and what arrives for it is discarded.
Close(f, how) ==
  /\ worker' = [worker EXCEPT ![f] = how]
  /\ toClient' = [toClient EXCEPT ![f] = {}]

\* The first datagram, whatever it is, is taken for the target: it is dialed, or
\* it does not resolve.
FirstDatagram(f) ==
  /\ worker[f] = "claimwait"
  /\ \/ /\ "target" \in toClient[f]
        /\ toClient' \in Received(toClient, f, "target")
        /\ worker' = [worker EXCEPT ![f] = "relay"]
     \/ "target" \in toClient[f] /\ Close(f, "ended")
     \/ "data" \in toClient[f] /\ Close(f, "misled")
  /\ UNCHANGED <<control, flowTable, sessions, oldSess, port, relay, chans, toServer, epochOf>>

\* claimWait, or the end of the generation.
Unclaimed(f) ==
  /\ worker[f] = "claimwait" /\ Close(f, "ended")
  /\ UNCHANGED <<control, flowTable, sessions, oldSess, port, relay, chans, toServer, epochOf>>

PumpDown(f) ==
  /\ worker[f] = "relay"
  /\ \E m \in toClient[f] : toClient' \in Received(toClient, f, m)
  /\ UNCHANGED <<control, flowTable, sessions, oldSess, port, relay, chans, toServer, client>>

PumpUp(f) ==
  /\ worker[f] = "relay"
  /\ toServer' = Sent(toServer, f, "data")
  /\ UNCHANGED <<control, flowTable, sessions, oldSess, port, relay, chans, toClient, client>>

\* One pump is quiet for udpIdleTimeout or fails, and both sockets are closed.
PumpEnds(f) ==
  /\ worker[f] = "relay" /\ Close(f, "ended")
  /\ UNCHANGED <<control, flowTable, sessions, oldSess, port, relay, chans, toServer, epochOf>>

Member(f) == Spawn(f) \/ FirstDatagram(f) \/ Unclaimed(f)
             \/ PumpDown(f) \/ PumpUp(f) \/ PumpEnds(f)

-------------------------------------------------------------------------------
Next ==
  \/ GenerationEnds \/ GenerationStarts
  \/ \E f \in Flows : LoseUp(f) \/ LoseDown(f) \/ Inbound(f) \/ Register(f) \/ FlowAges(f) \/ SessionAges(f)
                      \/ Serve(f) \/ Member(f)
  \/ ReapFlows \/ ReapSessions
  \/ \E u \in Users : Receive(u)
  \/ Deliver \/ Claim \/ GiveUp \/ Insert

Spec == Init /\ [][Next]_vars

\* Datagrams do not stay in flight for ever, time passes, and the reaper ticks.
Fairness ==
  /\ \A f \in Flows : WF_vars(LoseUp(f)) /\ WF_vars(FlowAges(f))
  /\ WF_vars(ReapFlows)

FairSpec == Spec /\ Fairness

-------------------------------------------------------------------------------
(* Properties.                                                             *)

\* The types of the variables; the channels hold.
TypeOK ==
  /\ gen \in 1..MaxGen /\ up \in BOOLEAN
  /\ udpFlows \cup oldFlow \cup oldSess \subseteq Flows
  /\ udpFlowCh \in Seq(Flows) /\ Len(udpFlowCh) <= ChanCap
  /\ sessions \in [Users -> Flows \cup {NoFlow}]
  /\ listener \in {"read", "obtain", "deliver", "insert"}
  /\ from \in Users \cup {NoUser} /\ claimed \in Flows \cup {NoFlow}
  /\ serve \in [Flows -> ServePC] /\ userOf \in [Flows -> Users \cup {NoUser}]
  /\ inbound \in [Flows -> 0..Window] /\ toFlow \in [Flows -> 0..Window]
  /\ toServer \in [Flows -> SUBSET {"auth", "data"}]
  /\ toClient \in [Flows -> SUBSET {"target", "data"}]
  /\ worker \in [Flows -> WorkerPC] /\ epochOf \in [Flows -> 0..MaxGen]

\* No user gets another user's replies: a flow is claimed once in its life,
\* although its client may still send when the server has forgotten it.
FlowOnce ==
  /\ \A i, j \in 1..Len(udpFlowCh) : udpFlowCh[i] = udpFlowCh[j] => i = j
  /\ \A f \in Flows : IsQueued(f) => serve[f] = "none"
  /\ listener = "insert" => ~IsQueued(claimed) /\ serve[claimed] = "none"

\* A mapped session is one whose goroutine still serves that user and will
\* clean up: the listener, the reaper and the goroutine change the map apart.
MappedIsServed ==
  \A u \in Users :
    sessions[u] # NoFlow =>
      userOf[sessions[u]] = u /\ serve[sessions[u]] \in {"run", "forget"}

\* The server forgets the address of a socket its client has closed, whatever
\* the user still sends to it.
DeadFlowForgotten == \A f \in Flows : Closed(f) ~> f \notin udpFlows

-------------------------------------------------------------------------------
(* What the comments say, and the code does not do.                        *)

\* udpcarrier.go:199: the reaper "is only for auth'd-but-never-claimed flows":
\* the replies of a flow in service find their way.
ServedIsRouted == \A f \in Flows : serve[f] = "run" => f \in udpFlows

\* udpcarrier.go:223: the claim "announces target to it as that flow's first
\* datagram".
TargetIsFirst == \A f \in Flows : worker[f] # "misled"

\* README.md:135: "an orphaned connection from a previous generation can't join
\* a new pool".
NoOrphanFlow == \A i \in 1..Len(udpFlowCh) : up => epochOf[udpFlowCh[i]] = gen
===============================================================================
