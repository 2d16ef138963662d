------------------------------ MODULE SeenList ------------------------------
(***************************************************************************)
(* A list of ids a store has seen, the oldest first, that keeps the newest *)
(* `limit` of them and is stored at every change: LxmfSeen, PropagatedHeld *)
(* and DistroSeen keep one each.                                           *)
(***************************************************************************)
EXTENDS Integers, SequencesExt

Seen(ids, id) == id \in ToSet(ids)

\* check, add: what is new goes last, and past the limit the oldest go.
Record(ids, id, limit) ==
  IF Seen(ids, id) THEN ids
  ELSE LET all == Append(ids, id) IN SubSeq(all, Max({1, Len(all) - limit + 1}), Len(all))

\* What recording `id` drops.
Dropped(ids, id, limit) == ToSet(ids) \ ToSet(Record(ids, id, limit))

\* DistroSeen.forget.
Forget(ids, id) == RemoveFirst(ids, id)
=============================================================================
