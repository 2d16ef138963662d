--------------------------- MODULE MCDistroOutbox ---------------------------
(* TLC instance of DistroOutbox: one distro, which may be given up and       *)
(* imported again.                                                           *)
EXTENDS DistroOutbox
CONSTANTS d1
=============================================================================
