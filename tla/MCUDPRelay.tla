------------------------------ MODULE MCUDPRelay ------------------------------
(***************************************************************************)
(* Instances of UDPRelay.  The variables it has in common with UDPCarrier  *)
(* go by other names, so that one module can extend both.  Sources are     *)
(* interchangeable, and so are carriers.                                   *)
(***************************************************************************)
EXTENDS Integers, TLC

CONSTANTS Sources, Carriers, NoCarrier, NoSource,
          Held        \* datagrams a carrier holds in one direction
ASSUME RelayAssumption ==
  Held \in Nat \ {0} /\ NoCarrier \notin Carriers /\ NoSource \notin Sources

VARIABLES taker, source, sess, mapped, replyTo, idle, srvClosed, released, reader,
          outbound, replies, cliClosed, localClosed, down, uplink

Relay == INSTANCE UDPRelay
  WITH Window <- Held, listener <- taker, from <- source, sessions <- mapped,
       inbound <- replies, up <- uplink

RelaySpec == Relay!Spec
MapMatchesReaders == Relay!MapMatchesReaders
NoCarrierLost == Relay!NoCarrierLost

Symmetry == Permutations(Sources) \cup Permutations(Carriers)
===============================================================================
