--------------------------- MODULE MCPostInterface ---------------------------
(* TLC instance of PostInterface: a few packets, one of them oversized. *)
EXTENDS PostInterface
CONSTANTS p1, p2, p3
=============================================================================
