----------------------------- MODULE MCMuxSessions -----------------------------
(***************************************************************************)
(* Instances of MuxSessions for TLC.  Users are interchangeable, and so    *)
(* are sessions.                                                           *)
(***************************************************************************)
EXTENDS MuxSessions, TLC

Symmetry == Permutations(Sessions) \cup Permutations(Users)
===============================================================================
