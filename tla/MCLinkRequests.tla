--------------------------- MODULE MCLinkRequests ---------------------------
(* TLC instance of LinkRequests: one request of each form on one link. *)
EXTENDS LinkRequests
=============================================================================
