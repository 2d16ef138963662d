------------------------------ MODULE Received ------------------------------
(***************************************************************************)
(* What a conversation keeps of the messages it receives, whatever order   *)
(* they come in: the records in the order of their times, the sender's     *)
(* name, and a reaction to a record.                                       *)
(***************************************************************************)
EXTENDS Integers, SequencesExt

NoName == [name |-> "none", at |-> 0]
NoReaction == [emoji |-> "none", at |-> 0]

\* addInOrder: one more arrived than any there; after the last that is not
\* later than it; and past the cap the one that arrived first goes.
NextArrival(records) ==
  IF records = <<>> THEN 0 ELSE Max({records[i].arrival : i \in DOMAIN records}) + 1
Place(records, at) == Max({0} \cup {i \in DOMAIN records : records[i].at <= at}) + 1
Placed(records, r) ==
  InsertAt(records, Place(records, r.at),
           [m |-> r.m, at |-> r.at, arrival |-> NextArrival(records), chip |-> NoReaction, stored |-> "none"])
FirstArrived(records) ==
  CHOOSE i \in DOMAIN records : \A j \in DOMAIN records : records[i].arrival <= records[j].arrival
AddInOrder(records, r, cap) ==
  LET all == Placed(records, r)
  IN IF Len(all) <= cap THEN all ELSE RemoveAt(all, FirstArrived(all))

\* messageNameVerdict: whether a name (or a clear) is taken at all.
NameTaken(slot, name, sig) ==
  \/ name # "absent" /\ sig = "validated"
  \/ name \notin {"absent", "none"} /\ sig = "unknown" /\ slot.name = "none"

\* acceptMessageNameAt: only from a message newer than the one that last set
\* it; one whose source is not known yet leaves the time as it was.
\* (Variant: the last to arrive.)
AcceptLast(slot, name, sig, at) ==
  IF ~NameTaken(slot, name, sig) THEN slot
  ELSE [name |-> name, at |-> IF sig = "validated" THEN at ELSE slot.at]
AcceptName(slot, name, sig, at) ==
  IF at <= slot.at \/ ~NameTaken(slot, name, sig) THEN slot
  ELSE [name |-> name, at |-> IF sig = "validated" THEN at ELSE slot.at]

\* applyReaction: a newer one replaces it, one taken back included.
ApplyReaction(held, emoji, at) == IF held.at >= at THEN held ELSE [emoji |-> emoji, at |-> at]
=============================================================================
