--------------------------------- MODULE MCSetup ---------------------------------
(***************************************************************************)
(* What the menus prepare: the two boxes' configurations (Setup), a        *)
(* tunnel's buffers (Sizing) and its ports (PortSpecs), the auto-refresh   *)
(* schedule (AutoRefresh).  They share no state, so a behaviour is one of  *)
(* one part.                                                               *)
(***************************************************************************)
EXTENDS Setup

CONSTANTS Cores, Mbps, Rtts, Ports, Hosts, Local, MaxPorts, MaxBackends, Hours

ASSUME NumbersAssumption ==
  Cores \cup Mbps \cup Rtts \cup {MaxPorts, MaxBackends} \subseteq Nat
ASSUME HoursAssumption == Hours \subseteq Nat \ {0}

VARIABLES part, cfg, link, bug, ports, line, typed,
          timer, service, enabled, active, saved, step, want

Size == INSTANCE Sizing
Specs == INSTANCE PortSpecs
Timer == INSTANCE AutoRefresh

size == <<cfg, link, bug>>
spec == <<ports, line, typed>>
auto == <<timer, service, enabled, active, saved, step, want>>

PartInit ==
  /\ part \in {"setup", "size", "spec", "auto"}
  /\ IF part = "setup" THEN Init ELSE conf = [r \in Roles |-> None]
  /\ IF part = "size" THEN Size!Init ELSE cfg = <<>> /\ link = 0 /\ bug = 0
  /\ Specs!Init /\ Timer!Init

PartNext ==
  /\ \/ part = "setup" /\ Next /\ UNCHANGED <<size, spec, auto>>
     \/ part = "size" /\ Size!Next /\ UNCHANGED <<conf, spec, auto>>
     \/ part = "spec" /\ Specs!Next /\ UNCHANGED <<conf, size, auto>>
     \/ part = "auto" /\ Timer!Next /\ UNCHANGED <<conf, size, spec>>
  /\ UNCHANGED part

PartSpec == PartInit /\ [][PartNext]_<<part, conf, size, spec, auto>>

FitsLink == part = "size" => Size!FitsLink
StaleReset == [][part = "size" => Size!ResetRight]_<<part, size>>
HandTunedKept == part = "size" => Size!HandTunedKept
BugIsThreeEqual == part = "size" => Size!BugIsThreeEqual
SameOrRefused == Specs!SameOrRefused
FormatInverts == Specs!FormatInverts
NeverHidden == Timer!NeverHidden
ShownIsScheduled == Timer!ShownIsScheduled
===============================================================================
