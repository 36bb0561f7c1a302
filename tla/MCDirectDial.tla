------------------------------ MODULE MCDirectDial ------------------------------
(***************************************************************************)
(* Instances of DirectDial for TLC.                                        *)
(***************************************************************************)
EXTENDS DirectDial

BothModes == {"tcp", "tcpmux"}
Mux == {"tcpmux"}
===============================================================================
