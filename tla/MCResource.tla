----------------------------- MODULE MCResource -----------------------------
(* TLC instance of Resource: five parts, in three segments of the hashmap.  *)
EXTENDS Resource
=============================================================================
