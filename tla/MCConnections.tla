----------------------------- MODULE MCConnections -----------------------------
(***************************************************************************)
(* Two stages in the life of a tunnel connection: the client keeps it in   *)
(* its pool (ClientPool), two pipes relay over it (Pipe).  They share no   *)
(* state, so a behaviour is one of one of them.                            *)
(***************************************************************************)
EXTENDS ClientPool, Sequences

CONSTANTS HalfCloses, Window               \* Pipe
ASSUME WindowAssumption == Window \in Nat \ {0}
VARIABLES flow, fin, gone, copying, main,
          stage

Relay == INSTANCE Pipe

\* A raw TCP carrier, and one that cannot be half-closed (a mux stream, noise, wss).
TcpCarrier == {"user", "carrier", "target"}
StreamCarrier == {"user", "target"}

piping == <<flow, fin, gone, copying, main>>

\* The stage that is not looked at rests.
StageInit == stage \in {"pool", "pipe"} /\ Init /\ Relay!Init
StageNext == /\ \/ stage = "pool" /\ Next /\ UNCHANGED piping
                \/ stage = "pipe" /\ Relay!Next /\ UNCHANGED vars
             /\ UNCHANGED stage
StageSpec == StageInit /\ [][StageNext]_<<vars, piping, stage>>

PoolFair ==
  LET In(A) == stage = "pool" /\ ~panicked /\ A
  IN /\ WF_vars(In(Spawn \/ ShrinkOne \/ ShrinkDone))
     /\ SF_vars(In(SelectDone)) /\ SF_vars(In(TickBelow))
     /\ \A w \in Workers : WF_vars(In(Work(w))) /\ WF_vars(In(Watch(w)))
PipeFair ==
  LET In(A) == stage = "pipe" /\ A
  IN /\ \A p \in Relay!Pipes :
          /\ WF_piping(In(Relay!Main(p)))
          /\ \A d \in Relay!Dirs : WF_piping(In(Relay!Copy(p, d) \/ Relay!CopyEnds(p, d)))
     /\ \A x \in Relay!Incoming : WF_piping(In(Relay!Receive(x)))

FairStageSpec == StageSpec /\ PoolFair /\ PipeFair

\* The types of the variables of both.
TypesOK == TypeOK /\ Relay!TypeOK
EndAfterData == Relay!EndAfterData
BothReturn == stage = "pipe" => Relay!BothReturn
KeepsMinIdle == stage = "pool" => PoolRefilled

ClaimsRefilled == stage = "pool" => ClaimRefilled
GraceOnlyIfDeaf ==
  [][stage = "pipe" => \A p \in Relay!Pipes :
       Relay!GracePasses(p) => \E d \in Relay!Ended(p) : Relay!Dst(p, d) \notin HalfCloses]_piping
===============================================================================
