------------------------------- MODULE ConnPool -------------------------------
(***************************************************************************)
(* What the server promises about pool connections in mode "tcp": every    *)
(* connection is used once.  It joins the idle pool, one user claims it,   *)
(* and it is closed when that user is finished; the idle pool never grows  *)
(* past its capacity.  TunnelServer implements this specification.         *)
(***************************************************************************)
EXTENDS Integers, FiniteSets

CONSTANTS Conns,      \* pool connections
          Users,      \* connections of end users
          Capacity,   \* of the idle pool
          NoConn      \* "holds no pool connection"

VARIABLES state,      \* [Conns -> {"outside", "idle", "held", "closed"}]
          carrier     \* [Users -> Conns \cup {NoConn}]: what each user holds

vars == <<state, carrier>>

Idle == {p \in Conns : state[p] = "idle"}

Init == /\ state = [p \in Conns |-> "outside"]
        /\ carrier = [u \in Users |-> NoConn]

Join(p) ==
  /\ state[p] = "outside"
  /\ Cardinality(Idle) < Capacity
  /\ state' = [state EXCEPT ![p] = "idle"]
  /\ UNCHANGED carrier

\* An outsider is turned away, or an idle connection is dropped unused.
Discard(p) ==
  /\ state[p] \in {"outside", "idle"}
  /\ state' = [state EXCEPT ![p] = "closed"]
  /\ UNCHANGED carrier

Claim(u, p) ==
  /\ carrier[u] = NoConn
  /\ state[p] = "idle"
  /\ state' = [state EXCEPT ![p] = "held"]
  /\ carrier' = [carrier EXCEPT ![u] = p]

Finish(u) ==
  /\ carrier[u] # NoConn
  /\ state[carrier[u]] = "held"
  /\ state' = [state EXCEPT ![carrier[u]] = "closed"]
  /\ carrier' = [carrier EXCEPT ![u] = NoConn]

Next == \/ \E p \in Conns : Join(p) \/ Discard(p)
        \/ \E u \in Users : Finish(u) \/ \E p \in Conns : Claim(u, p)

Spec == Init /\ [][Next]_vars
===============================================================================
