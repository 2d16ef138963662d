------------------------------- MODULE MCLink -------------------------------
(* A TLC instance of Link: the responder measured the longer RTT, and the
   establishment timer may come due while the link is stale. *)
EXTENDS Link, TLC
Slow == (I :> 2) @@ (R :> 5)
=============================================================================
