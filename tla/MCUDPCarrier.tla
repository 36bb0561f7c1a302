----------------------------- MODULE MCUDPCarrier -----------------------------
(***************************************************************************)
(* Instances of UDPCarrier for TLC.  Flows are interchangeable, and so are *)
(* users.                                                                  *)
(***************************************************************************)
EXTENDS UDPCarrier, TLC

Symmetry == Permutations(Flows) \cup Permutations(Users)
===============================================================================
