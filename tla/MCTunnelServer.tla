---------------------------- MODULE MCTunnelServer ----------------------------
(***************************************************************************)
(* The server for TLC: it accepts a tunnel connection (Accept), and serves *)
(* users over it (TunnelServer).  The two share no state, so a behaviour   *)
(* is one of one of them.                                                  *)
(***************************************************************************)
EXTENDS TunnelServer

CONSTANTS Peers, Strangers, Room, NoPeer
VARIABLES kind, at, said, gone, pending, connCh, loop, hand, down, closed,
          stage

Listener == INSTANCE Accept

accepting == <<kind, at, said, gone, pending, connCh, loop, hand, down, closed>>

\* The stage that is not looked at rests.
StageInit == /\ stage \in {"accept", "serve"} /\ Init /\ Listener!Init
             /\ stage = "accept" \/ kind = "plain"
StageNext == /\ \/ stage = "accept" /\ Listener!Next /\ UNCHANGED vars
                \/ stage = "serve" /\ Next /\ UNCHANGED accepting
             /\ UNCHANGED stage
StageSpec == StageInit /\ [][StageNext]_<<vars, accepting, stage>>

Serving(A) == stage = "serve" /\ ~Panicked /\ A
ServeFair ==
  /\ \A c \in Controls : WF_vars(Serving(Handler(c))) /\ WF_vars(Serving(Writer(c)))
  /\ \A p \in Pools : WF_vars(Serving(PoolHandler(p)))
  /\ \A u \in Users : /\ WF_vars(Serving(Obtain(u)))
                      /\ SF_vars(Serving(WaitExpires(u)))

FairStageSpec ==
  StageSpec /\ WF_accepting(stage = "accept" /\ Listener!Serve) /\ ServeFair

TypesOK == TypeOK /\ Listener!TypeOK
BlocksOnNoPeer == Listener!BlocksOnNoPeer
Resolved == stage = "accept" => Listener!Resolved
LoopReturns == stage = "accept" => Listener!LoopReturns
ShutsDown == stage = "accept" => Listener!ShutsDown
SilentDropped == stage = "accept" => Listener!SilentDropped
===============================================================================
