------------------------------ MODULE Transfer ------------------------------
(***************************************************************************)
(* What a Resource transfer promises its two ends, whatever the windows,   *)
(* the hashmap segments, the retries and the losses behind it              *)
(* (lib/rns/resource.js): the sender's promise settles once, it resolves   *)
(* only when the receiver holds the whole payload, and the receiver is     *)
(* given that payload at most once.                                        *)
(***************************************************************************)
VARIABLES
  offer,       \* the sender's promise
  held         \* what the receiver has of it

vars == <<offer, held>>

Init == offer = "open" /\ held = "nothing"

\* The receiver takes the transfer on, again too when an earlier try was dropped.
Take == held \in {"nothing", "dropped"} /\ held' = "some" /\ UNCHANGED offer

\* The whole payload is handed on.
Deliver == held = "some" /\ held' = "all" /\ UNCHANGED offer

\* The receiver gives the transfer up.
Drop == held = "some" /\ held' = "dropped" /\ UNCHANGED offer

\* The sender learns of the delivery.
Prove == offer = "open" /\ held = "all" /\ offer' = "proved" /\ UNCHANGED held

\* The sender gives up, or is told to: whether it was delivered is not known.
Fail == offer = "open" /\ offer' = "failed" /\ UNCHANGED held

Next == Take \/ Deliver \/ Drop \/ Prove \/ Fail

Spec == Init /\ [][Next]_vars
=============================================================================
