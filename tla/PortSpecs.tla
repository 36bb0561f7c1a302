------------------------------- MODULE PortSpecs -------------------------------
(***************************************************************************)
(* The forwarded ports of a tunnel as the editor shows and asks for them   *)
(* (ports.go, tunnels.go): a spec is read into a listening port and a list *)
(* of backends, and shown again in the shortest of its three forms.        *)
(***************************************************************************)
EXTENDS Naturals, Sequences, FiniteSets

CONSTANTS Ports, Hosts, Local,  \* Local, 127.0.0.1, is one of the Hosts
          MaxPorts, MaxBackends

VARIABLES ports,  \* the configured PortMaps
          line,   \* what the editor shows, <<>> outside of it
          typed   \* history: the ports shown when the same line was typed back

vars == <<ports, line, typed>>

NoLine == <<>>
Backends == [host : Hosts, port : Ports]
Targets == UNION {[1..n -> Backends] : n \in 1..MaxBackends}

\* A spec: PORT, PORT:rest or PORT=target.  "rest" is a port, or what is left of
\* a target whose first "127.0.0.1:" has been cut off.
Bare(p) == [form |-> "bare", port |-> p, rest |-> NoLine]
Colon(p, rest) == [form |-> "colon", port |-> p, rest |-> rest]
Equals(p, target) == [form |-> "equals", port |-> p, rest |-> target]

\* parsePortSpec: a set, empty if the spec is refused.
parsePortSpec(s) ==
  CASE s.form = "equals" -> {[listen |-> s.port, target |-> s.rest]}
    [] s.form = "colon" -> {[listen |-> s.port, target |-> <<[host |-> Local, port |-> s.rest[1].port]>>] :
                              x \in IF Len(s.rest) = 1 THEN {1} ELSE {}}
    [] s.form = "bare" -> {[listen |-> s.port, target |-> <<[host |-> Local, port |-> s.port]>>]}

\* formatPortSpec
formatPortSpec(pm) ==
  IF pm.target = <<[host |-> Local, port |-> pm.listen]>> THEN Bare(pm.listen)
  ELSE IF pm.target[1].host = Local THEN Colon(pm.listen, pm.target)
  ELSE Equals(pm.listen, pm.target)

\* Mutant of the next definition: the specs that can be read are kept.
ParseSome(specs) ==
  LET good == SelectSeq(specs, LAMBDA s : parsePortSpec(s) # {})
  IN IF good = <<>> THEN {}
     ELSE {[i \in 1..Len(good) |-> CHOOSE pm \in parsePortSpec(good[i]) : TRUE]}

\* parsePortsLine: all of the line, or nothing of it.
parsePortsLine(specs) ==
  IF specs = <<>> \/ \E i \in 1..Len(specs) : parsePortSpec(specs[i]) = {} THEN {}
  ELSE {[i \in 1..Len(specs) |-> CHOOSE pm \in parsePortSpec(specs[i]) : TRUE]}

-------------------------------------------------------------------------------
Specs == {Bare(p) : p \in Ports} \cup {Colon(p, <<b>>) : p \in Ports, b \in [host : {Local}, port : Ports]}
           \cup {Equals(p, t) : p \in Ports, t \in Targets}

Init == ports = <<>> /\ line = NoLine /\ typed = NoLine

\* askPorts: a line of one's own, after what was entered before.
Type ==
  /\ \E s \in Specs : \E new \in parsePortsLine(<<s>>) :
       /\ Len(ports) < MaxPorts
       /\ ports' = ports \o new
  /\ line' = NoLine /\ typed' = NoLine

\* editTunnelBody shows the current ports; askPorts starts from none.
Show ==
  /\ ports # <<>>
  /\ line' = [i \in 1..Len(ports) |-> formatPortSpec(ports[i])]
  /\ typed' = ports /\ ports' = <<>>

\* askPorts: the line shown is typed back, and refused or taken whole.
TypeBack ==
  /\ line # NoLine /\ ports = <<>>
  /\ ports' \in parsePortsLine(line)
  /\ line' = NoLine
  /\ UNCHANGED typed

Next == Type \/ Show \/ TypeBack

Spec == Init /\ [][Next]_vars

-------------------------------------------------------------------------------
(* Properties.                                                             *)

\* A line of ports that is typed back as the editor shows it is refused, or is
\* the same ports again, all of them: never another target.  It is refused only
\* where a target of several backends begins with a local one.
SameOrRefused ==
  /\ typed # NoLine /\ line = NoLine => ports = typed
  /\ line # NoLine /\ parsePortsLine(line) = {} =>
       \E i \in 1..Len(typed) : Len(typed[i].target) > 1 /\ typed[i].target[1].host = Local

\* ports.go:127: "formatPortSpec is parsePortSpec's inverse".  It is not for
\* several backends of which the first is local (refuted).
FormatInverts == line # NoLine => parsePortsLine(line) = {typed}
===============================================================================
