----------------------------- MODULE MCTunnelFiles -----------------------------
(* TunnelFiles with a few tunnels. *)
EXTENDS TunnelFiles
===============================================================================
