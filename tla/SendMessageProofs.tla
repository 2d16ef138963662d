------------------------- MODULE SendMessageProofs -------------------------
(***************************************************************************)
(* Proofs about SendMessage: the node gets one copy of a message at most,  *)
(* no copy goes once its outcome was shown, and an outcome stands.         *)
(***************************************************************************)
EXTENDS SendMessage, FiniteSetTheorems, TLAPS

-----------------------------------------------------------------------------
(* The inductive invariant.                                                *)

Records ==
  [kind : Kinds, status : Statuses, waitFor : {"null", "init", "propagation"},
   direct : {"none", "linking", "resource", "packet", "doomed"},
   copy : {"none", "link", "mining", "packet", "resource"}, on : Links \cup {NoLink},
   proofs : SUBSET Legs, ticket : BOOLEAN, legs : SUBSET Legs, transfers : SUBSET Legs,
   deferred : BOOLEAN, settled : BOOLEAN, fallback : BOOLEAN, ceiling : BOOLEAN,
   started : BOOLEAN, uploads : Nat, cut : BOOLEAN]

\* Neither the fallback nor the direct attempt's failure will start a copy.
Begun(r) == r.started \/ (~r.fallback /\ r.direct \notin {"linking", "resource", "doomed"})

\* A message that has not gone has nothing under way; a copy is of a message that
\* was begun, and one that was uploaded is not begun again.
CopyOK(r) ==
  /\ r.status \in {"none", "queued"} => r.copy = "none" /\ r.uploads = 0
  /\ r.status = "queued" => r.waitFor \in {"init", "propagation"}
  /\ r.status \in {"none", "sending"} => r.waitFor = "null"
  /\ r.status = "none" \/ IsQueued(r) => ~r.fallback /\ r.direct = "none"
  /\ r.copy # "none" \/ IsParked(r) \/ r.uploads > 0 => Begun(r)
  /\ r.uploads <= 1
  /\ r.uploads = 1 /\ ~Settled(r) => r.copy \notin {"link", "mining"}

SettledOK(r) == r.settled => r.transfers # {} /\ Settled(r)
Fine(r) == r \in Records /\ SettledOK(r) /\ CopyOK(r)

\* All of the state but the messages.
RestTyped ==
  /\ {rns, initialized, down, nodeKnown, reopen} \subseteq BOOLEAN
  /\ warming \in [0..MaxStops -> SUBSET Messages]
  /\ {propLink, promise} \subseteq Links \cup {NoLink}
  /\ link \in [Links -> {"none", "pending", "active", "stale", "closed"}]
  /\ events \in Seq([name : {"established", "close"}, of : Links, up : BOOLEAN])
  /\ flush \in [Links -> Seq(Messages)] /\ visiting \in [Links -> Messages \cup {NoMessage}]
  /\ stops \in 0..MaxStops /\ outages \in 0..MaxOutages /\ closes \in 0..MaxCloses

IInv == /\ msg \in [Messages -> Records] /\ RestTyped
        /\ \A m \in Messages : Fine(msg[m])

-----------------------------------------------------------------------------
(* What may become of a message.                                           *)

\* What the user was shown only gets better.
Stands(was, is) ==
  /\ was = "proved" => is = "proved"
  /\ was = "propagated" => is \in {"propagated", "proved"}
  /\ was = "failed" => is \in {"failed", "propagated", "proved"}

\* A message moves; a message goes, where its copy may be put on the wire.
Moves(r, q) == Fine(q) /\ Stands(r.status, q.status) /\ q.uploads = r.uploads
Goes(r, q) ==
  Fine(q) /\ Stands(r.status, q.status) /\ (q.uploads > r.uploads => r.status = "sending")

\* A message that stays as it is.
LEMMA StaysPut ==
  ASSUME NEW r, Fine(r)
  PROVE  Moves(r, r) /\ Goes(r, r)
<1>1. r.uploads \in Nat
  BY DEF Fine, Records
<1> QED  BY <1>1 DEF Moves, Goes, Stands

\* Two moves are one, and a move is a way to go.
LEMMA MovesOn ==
  ASSUME NEW r, NEW q, NEW s, Moves(r, q)
  PROVE  /\ Moves(q, s) => Moves(r, s)
         /\ Goes(q, s) /\ q.status = r.status => Goes(r, s)
BY DEF Moves, Goes, Stands

\* A move of a message that is fine is a way to go.
LEMMA MoveGoes ==
  ASSUME NEW r, NEW q, Fine(r), Moves(r, q)
  PROVE  Goes(r, q)
<1>1. r.uploads \in Nat
  BY DEF Fine, Records
<1> QED  BY <1>1 DEF Moves, Goes

-----------------------------------------------------------------------------
(* lib/send_progress.js, and what moves a record.                          *)

\* settle(), of a message whose outcome is known or that has no transfer left.
LEMMA SettleMoves ==
  ASSUME NEW r \in Records, CopyOK(r), Settled(r) \/ r.transfers = {}
  PROVE  Moves(r, Settle(r)) /\ Settle(r).status = r.status
<1> DEFINE q == Settle(r)
<1>1. q \in Records
  BY ZenonT(40) DEF Settle, Records
<1>2. /\ q.status = r.status /\ q.waitFor = r.waitFor /\ q.direct = r.direct /\ q.copy = r.copy
      /\ q.uploads = r.uploads /\ q.started = r.started /\ q.fallback = r.fallback
      /\ q.transfers = r.transfers /\ q.settled = (r.transfers # {})
  BY DEF Settle, Records
<1> HIDE DEF q
<1>3. CopyOK(q)
  BY <1>2 DEF CopyOK, Settled, IsQueued, IsParked, Begun
<1>4. SettledOK(q)
  BY <1>2 DEF SettledOK, Settled
<1> QED  BY <1>1, <1>2, <1>3, <1>4 DEF Moves, Fine, Stands, q

\* What a copy and an outcome do not depend on.
SameCourse(r, q) ==
  /\ q \in Records /\ q.status = r.status /\ q.waitFor = r.waitFor /\ q.direct = r.direct
  /\ q.copy = r.copy /\ q.uploads = r.uploads /\ q.started = r.started /\ q.fallback = r.fallback
  /\ q.settled = r.settled /\ q.transfers = r.transfers

\* A change of nothing else is a move.
LEMMA SameCourseMoves ==
  ASSUME NEW r, Fine(r), NEW q, SameCourse(r, q)
  PROVE  Moves(r, q)
<1>1. CopyOK(q)
  BY DEF SameCourse, Fine, CopyOK, Settled, IsQueued, IsParked, Begun
<1>2. SettledOK(q)
  BY DEF SameCourse, Fine, SettledOK, Settled
<1> QED  BY <1>1, <1>2 DEF SameCourse, Moves, Fine, Stands

\* Timers, proofs, tickets and the legs change nothing of a message's course.
LEMMA TimersMove ==
  ASSUME NEW r, Fine(r)
  PROVE  /\ Moves(r, [r EXCEPT !.deferred = FALSE])
         /\ Moves(r, [r EXCEPT !.deferred = FALSE, !.ceiling = TRUE])
         /\ Moves(r, [r EXCEPT !.ceiling = FALSE])
         /\ Moves(r, [r EXCEPT !.ticket = FALSE])
         /\ Moves(r, [[r EXCEPT !.ceiling = FALSE] EXCEPT !.deferred = TRUE])
<1>1. /\ SameCourse(r, [r EXCEPT !.deferred = FALSE])
      /\ SameCourse(r, [r EXCEPT !.deferred = FALSE, !.ceiling = TRUE])
      /\ SameCourse(r, [r EXCEPT !.ceiling = FALSE])
      /\ SameCourse(r, [r EXCEPT !.ticket = FALSE])
      /\ SameCourse(r, [[r EXCEPT !.ceiling = FALSE] EXCEPT !.deferred = TRUE])
  BY DEF SameCourse, Fine, Records
<1> QED  BY <1>1, SameCourseMoves

\* A message that is sending fails; any other stays as it is.
LEMMA FailSendingMoves ==
  ASSUME NEW r, Fine(r)
  PROVE  Moves(r, FailSending(r))
<1>1. CASE r.status # "sending"
  BY <1>1, StaysPut DEF FailSending
<1>2. CASE r.status = "sending"
  <2> DEFINE q == [r EXCEPT !.status = "failed", !.ceiling = FALSE]
  <2>1. /\ q \in Records /\ q.status = "failed" /\ q.waitFor = r.waitFor /\ q.direct = r.direct
        /\ q.copy = r.copy /\ q.uploads = r.uploads /\ q.started = r.started /\ q.fallback = r.fallback
    BY DEF Fine, Records, Statuses
  <2>2. FailSending(r) = Settle(q)
    BY <1>2 DEF FailSending
  <2> HIDE DEF q
  <2>3. CopyOK(q) /\ Settled(q)
    BY <1>2, <2>1 DEF Fine, CopyOK, Settled, IsQueued, IsParked, Begun
  <2>4. Moves(q, Settle(q))
    BY <2>1, <2>3, SettleMoves
  <2> QED  BY <1>2, <2>1, <2>2, <2>4 DEF Moves, Stands
<1> QED  BY <1>1, <1>2

\* The peer's proof is the best a message can be shown.
LEMMA ProvedMoves ==
  ASSUME NEW r, Fine(r)
  PROVE  Moves(r, Proved(r))
<1> DEFINE q == [r EXCEPT !.status = "proved"]
<1>1. /\ q \in Records /\ q.status = "proved" /\ q.waitFor = r.waitFor /\ q.direct = r.direct
      /\ q.copy = r.copy /\ q.uploads = r.uploads /\ q.started = r.started /\ q.fallback = r.fallback
  BY DEF Fine, Records, Statuses
<1>2. Proved(r) = Settle(q)
  BY DEF Proved
<1> HIDE DEF q
<1>3. CopyOK(q) /\ Settled(q)
  BY <1>1 DEF Fine, CopyOK, Settled, IsQueued, IsParked, Begun
<1>4. Moves(q, Settle(q)) /\ Settle(q).status = "proved"
  BY <1>1, <1>3, SettleMoves
<1> QED  BY <1>1, <1>2, <1>4 DEF Moves, Stands

\* The node's proof of the copy takes nothing back from the peer's.
LEMMA PropagatedMoves ==
  ASSUME NEW r, Fine(r)
  PROVE  Moves(r, Propagated(r))
<1>1. CASE r.status = "proved"
  BY <1>1, StaysPut DEF Propagated
<1>2. CASE r.status # "proved"
  <2> DEFINE q == [r EXCEPT !.status = "propagated"]
  <2>1. /\ q \in Records /\ q.status = "propagated" /\ q.waitFor = r.waitFor /\ q.direct = r.direct
        /\ q.copy = r.copy /\ q.uploads = r.uploads /\ q.started = r.started /\ q.fallback = r.fallback
    BY DEF Fine, Records, Statuses
  <2>2. Propagated(r) = Settle(q)
    BY <1>2 DEF Propagated
  <2> HIDE DEF q
  <2>3. CopyOK(q) /\ Settled(q)
    BY <2>1 DEF Fine, CopyOK, Settled, IsQueued, IsParked, Begun
  <2>4. Moves(q, Settle(q)) /\ Settle(q).status = "propagated"
    BY <2>1, <2>3, SettleMoves
  <2> QED  BY <1>2, <2>1, <2>2, <2>4 DEF Moves, Stands
<1> QED  BY <1>1, <1>2

\* A transfer ends: the last one may bring the ceiling back, or the failure.
LEMMA EndMoves ==
  ASSUME NEW r, Fine(r), NEW leg \in Legs, NEW ok \in BOOLEAN
  PROVE  Moves(r, End(r, leg, ok))
<1> DEFINE left == [r EXCEPT !.transfers = @ \ {leg}]
           over == IF left.settled THEN Settle(left) ELSE left
<1>1. /\ left \in Records /\ left.status = r.status /\ left.waitFor = r.waitFor
      /\ left.direct = r.direct /\ left.copy = r.copy /\ left.uploads = r.uploads
      /\ left.started = r.started /\ left.fallback = r.fallback /\ left.settled = r.settled
  BY DEF Fine, Records
<1>2. End(r, leg, ok) =
        IF left.transfers # {} \/ ~r.deferred THEN IF left.transfers # {} THEN left ELSE over
        ELSE IF ~ok /\ leg = "propagated" THEN FailSending([over EXCEPT !.deferred = FALSE])
        ELSE [over EXCEPT !.deferred = FALSE, !.ceiling = TRUE]
  BY DEF End
<1> HIDE DEF left
<1>3. CopyOK(left)
  BY <1>1 DEF Fine, CopyOK, Settled, IsQueued, IsParked, Begun
<1>4. CASE left.transfers # {}
  <2>1. Moves(r, left)
    BY <1>1, <1>3, <1>4 DEF Fine, SettledOK, Settled, Moves, Stands
  <2> QED  BY <1>2, <1>4, <2>1
<1>5. CASE left.transfers = {}
  <2>1. Moves(left, over) /\ over.status = r.status
    <3>1. CASE left.settled
      BY <1>1, <1>3, <1>5, <3>1, SettleMoves
    <3>2. CASE ~left.settled
      BY <1>1, <1>3, <3>2 DEF Moves, Fine, SettledOK, Stands
    <3> QED  BY <3>1, <3>2
  <2>2. Fine(over) /\ Moves(r, over)
    BY <1>1, <2>1 DEF Moves, Stands
  <2> HIDE DEF over
  <2>3. /\ Moves(r, [over EXCEPT !.deferred = FALSE])
        /\ Moves(r, [over EXCEPT !.deferred = FALSE, !.ceiling = TRUE])
    <3>1. /\ Moves(over, [over EXCEPT !.deferred = FALSE])
          /\ Moves(over, [over EXCEPT !.deferred = FALSE, !.ceiling = TRUE])
      BY <2>2, TimersMove
    <3> QED  BY <2>2, <3>1 DEF Moves, Stands
  <2>4. Moves(r, FailSending([over EXCEPT !.deferred = FALSE]))
    <3>1. Fine([over EXCEPT !.deferred = FALSE])
      BY <2>3 DEF Moves
    <3> QED  BY <2>3, <3>1, FailSendingMoves, MovesOn
  <2> QED  BY <1>2, <1>5, <2>2, <2>3, <2>4
<1> QED  BY <1>4, <1>5

\* A leg is given up; the message fails with the last of them.
LEMMA LegGoneMoves ==
  ASSUME NEW r, Fine(r), NEW leg \in Legs
  PROVE  Moves(r, LegGone(r, leg)) /\ SameCourse(r, LegGone(r, leg))
<1>1. SameCourse(r, LegGone(r, leg))
  BY DEF SameCourse, Fine, Records, LegGone, Legs
<1> QED  BY <1>1, SameCourseMoves

\* _propagationFailed.
LEMMA PropagationFailedMoves ==
  ASSUME NEW r, Fine(r)
  PROVE  Moves(r, PropagationFailed(r))
<1> DEFINE s == LegGone(r, "propagated")
<1>1. Moves(r, s) /\ Fine(s)
  BY LegGoneMoves DEF Legs, Moves
<1>2. PropagationFailed(r) = IF LastLeg(r, "propagated") THEN FailSending(s) ELSE s
  BY DEF PropagationFailed
<1> HIDE DEF s
<1>3. Moves(s, FailSending(s))
  BY <1>1, FailSendingMoves
<1>4. Moves(r, FailSending(s))
  BY <1>1, <1>3, MovesOn
<1> QED  BY <1>1, <1>2, <1>4

\* Its copy ends, on whichever link.
LEMMA CopyEnds ==
  ASSUME NEW r, Fine(r)
  PROVE  Moves(r, [r EXCEPT !.copy = "none", !.on = NoLink])
<1> DEFINE q == [r EXCEPT !.copy = "none", !.on = NoLink]
<1>1. /\ q \in Records /\ q.status = r.status /\ q.waitFor = r.waitFor /\ q.direct = r.direct
      /\ q.copy = "none" /\ q.uploads = r.uploads /\ q.started = r.started /\ q.fallback = r.fallback
      /\ q.settled = r.settled /\ q.transfers = r.transfers
  BY DEF Fine, Records
<1> HIDE DEF q
<1>2. CopyOK(q) /\ SettledOK(q)
  BY <1>1 DEF Fine, CopyOK, SettledOK, Settled, IsQueued, IsParked, Begun
<1> QED  BY <1>1, <1>2 DEF Moves, Fine, Stands, q

\* Its direct attempt ends.
LEMMA DirectEnds ==
  ASSUME NEW r, Fine(r)
  PROVE  LET q == [r EXCEPT !.direct = "none"] IN
         Moves(r, q) /\ q.status = r.status /\ q.started = r.started /\ q.fallback = r.fallback
<1> DEFINE q == [r EXCEPT !.direct = "none"]
<1>1. /\ q \in Records /\ q.status = r.status /\ q.waitFor = r.waitFor /\ q.direct = "none"
      /\ q.copy = r.copy /\ q.uploads = r.uploads /\ q.started = r.started /\ q.fallback = r.fallback
      /\ q.settled = r.settled /\ q.transfers = r.transfers
  BY DEF Fine, Records
<1> HIDE DEF q
<1>2. CopyOK(q) /\ SettledOK(q)
  BY <1>1 DEF Fine, CopyOK, SettledOK, Settled, IsQueued, IsParked, Begun
<1> QED  BY <1>1, <1>2 DEF Moves, Fine, Stands, q

\* park(): a message whose copy was begun and not uploaded waits for the node.
LEMMA ParkMoves ==
  ASSUME NEW r \in Records, SettledOK(r), Settled(r) => CopyOK(r),
         ~Settled(r) => Begun(r) /\ r.uploads = 0
  PROVE  Moves(r, Park(r))
<1>1. CASE Settled(r)
  <2>1. Park(r) = [r EXCEPT !.copy = "none", !.on = NoLink]
    BY <1>1 DEF Park
  <2> QED  BY <1>1, <2>1, CopyEnds DEF Fine
<1>2. CASE ~Settled(r)
  <2> DEFINE q == Park(r)
  <2>1. /\ q \in Records /\ q.status = "queued" /\ q.waitFor = "propagation" /\ q.direct = r.direct
        /\ q.copy = "none" /\ q.uploads = r.uploads /\ q.started = r.started /\ q.fallback = r.fallback
        /\ q.settled = r.settled /\ q.transfers = r.transfers
    BY <1>2 DEF Park, Records, Statuses
  <2> HIDE DEF q
  <2>2. CopyOK(q) /\ SettledOK(q)
    BY <1>2, <2>1 DEF CopyOK, SettledOK, Settled, IsQueued, IsParked, Begun
  <2> QED  BY <1>2, <2>1, <2>2 DEF Moves, Fine, Stands, Settled, q
<1> QED  BY <1>1, <1>2

\* A message whose copy waits is one that was begun and not uploaded.
LEMMA CopyWaits ==
  ASSUME NEW r, Fine(r), r.copy \in {"link", "mining"}, ~Settled(r)
  PROVE  r.status = "sending" /\ Begun(r) /\ r.uploads = 0
<1>1. r.status \in Statuses /\ r.uploads \in Nat /\ r.copy # "none" /\ CopyOK(r)
  BY DEF Fine, Records
<1>2. r.status = "sending"
  BY <1>1 DEF CopyOK, Settled, Statuses
<1>3. r.uploads = 0
  BY <1>1 DEF CopyOK
<1> QED  BY <1>1, <1>2, <1>3 DEF CopyOK

\* _dispatchMessage: a message that has not gone is sent, or fails at once.
LEMMA DispatchMoves ==
  ASSUME NEW r, Fine(r), r.status = "none" \/ IsQueued(r)
  PROVE  /\ Moves(r, Dispatched(r)) /\ Moves(r, Refused(r)) /\ Moves(r, Stranded(r))
         /\ r.status = "none" => Moves(r, [r EXCEPT !.status = "queued", !.waitFor = "init"])
<1>1. /\ r.copy = "none" /\ r.uploads = 0 /\ ~r.settled /\ r \in Records
      /\ r.status \in {"none", "queued"} /\ ~r.fallback /\ r.direct = "none"
  BY DEF Fine, CopyOK, SettledOK, Settled, IsQueued
<1>2. Moves(r, Dispatched(r))
  <2> DEFINE q == Dispatched(r)
  <2>1. /\ q \in Records /\ q.status = "sending" /\ q.waitFor = "null" /\ q.copy = r.copy
        /\ q.uploads = r.uploads /\ q.settled = r.settled /\ q.transfers = r.transfers
    BY ZenonT(40), <1>1 DEF Dispatched, Records, Statuses, Legs
  <2> HIDE DEF q
  <2>2. CopyOK(q) /\ SettledOK(q)
    BY <1>1, <2>1 DEF CopyOK, SettledOK, Settled, IsQueued, IsParked
  <2> QED  BY <1>1, <2>1, <2>2 DEF Moves, Fine, Stands, q
<1>3. Moves(r, Refused(r))
  <2> DEFINE q == Refused(r)
  <2>1. /\ q \in Records /\ q.status = "failed" /\ q.waitFor = "null" /\ q.copy = r.copy
        /\ q.uploads = r.uploads /\ q.settled = r.settled /\ q.transfers = r.transfers
    BY <1>1 DEF Refused, Records, Statuses
  <2> HIDE DEF q
  <2>2. CopyOK(q) /\ SettledOK(q)
    BY <1>1, <2>1 DEF CopyOK, SettledOK, Settled, IsQueued, IsParked
  <2> QED  BY <1>1, <2>1, <2>2 DEF Moves, Fine, Stands, q
<1>4. Moves(r, Stranded(r))
  <2>1. CASE r.kind = "distro"
    BY <1>2, <2>1 DEF Stranded
  <2>2. CASE r.kind # "distro"
    <3> DEFINE q == Stranded(r)
    <3>1. /\ q \in Records /\ q.status = "sending" /\ q.waitFor = "null" /\ q.copy = r.copy
          /\ q.uploads = r.uploads /\ q.settled = r.settled /\ q.transfers = r.transfers
      BY <1>1, <2>2 DEF Stranded, Records, Statuses
    <3> HIDE DEF q
    <3>2. CopyOK(q) /\ SettledOK(q)
      BY <1>1, <3>1 DEF CopyOK, SettledOK, Settled, IsQueued, IsParked
    <3> QED  BY <1>1, <3>1, <3>2 DEF Moves, Fine, Stands, q
  <2> QED  BY <2>1, <2>2
<1>5. ASSUME r.status = "none" PROVE Moves(r, [r EXCEPT !.status = "queued", !.waitFor = "init"])
  <2> DEFINE q == [r EXCEPT !.status = "queued", !.waitFor = "init"]
  <2>1. /\ q \in Records /\ q.status = "queued" /\ q.waitFor = "init" /\ q.copy = r.copy
        /\ q.uploads = r.uploads /\ q.settled = r.settled /\ q.transfers = r.transfers
        /\ q.fallback = r.fallback /\ q.direct = r.direct
    BY <1>1 DEF Records, Statuses
  <2> HIDE DEF q
  <2>2. CopyOK(q) /\ SettledOK(q)
    BY <1>1, <2>1 DEF CopyOK, SettledOK, Settled, IsQueued, IsParked, Begun
  <2> QED  BY <1>1, <1>5, <2>1, <2>2 DEF Moves, Fine, Stands, q
<1> QED  BY <1>2, <1>3, <1>4, <1>5

\* The copy is put on the wire: once, of a message shown as being sent.
LEMMA UploadGoes ==
  ASSUME NEW r, Fine(r), r.copy = "mining", ~Settled(r)
  PROVE  Goes(r, Upload(r))
<1>1. r.status = "sending" /\ Begun(r) /\ r.uploads = 0 /\ r \in Records /\ ~r.settled /\ r.waitFor = "null"
  BY CopyWaits DEF Fine, SettledOK, CopyOK
<1> DEFINE q == Upload(r)
<1>2. /\ q \in Records /\ q.status = r.status /\ q.waitFor = r.waitFor /\ q.direct = r.direct
      /\ q.copy \in {"packet", "resource"} /\ q.uploads = 1
      /\ q.started = r.started /\ q.fallback = r.fallback /\ q.settled = r.settled
  <2>1. CASE r.kind \in {"packet", "distro"}
    <3>1. q = [r EXCEPT !.copy = "packet", !.proofs = @ \cup {"propagated"}, !.uploads = @ + 1]
      BY <2>1 DEF Upload
    <3>2. r.proofs \cup {"propagated"} \in SUBSET Legs /\ r.uploads + 1 = 1 /\ 1 \in Nat
      BY <1>1 DEF Records, Legs
    <3> HIDE DEF q
    <3> QED  BY <1>1, <3>1, <3>2 DEF Records
  <2>2. CASE r.kind \notin {"packet", "distro"}
    <3>1. q = [r EXCEPT !.copy = "resource", !.transfers = @ \cup {"propagated"}, !.uploads = @ + 1]
      BY <2>2 DEF Upload
    <3>2. r.transfers \cup {"propagated"} \in SUBSET Legs /\ r.uploads + 1 = 1 /\ 1 \in Nat
      BY <1>1 DEF Records, Legs
    <3> HIDE DEF q
    <3> QED  BY <1>1, <3>1, <3>2 DEF Records
  <2> QED  BY <2>1, <2>2
<1> HIDE DEF q
<1>3. CopyOK(q) /\ SettledOK(q)
  BY <1>1, <1>2 DEF CopyOK, SettledOK, Settled, IsQueued, IsParked, Begun
<1> QED  BY <1>1, <1>2, <1>3 DEF Goes, Fine, Stands, q

\* A flush claims a parked message.
LEMMA ClaimMoves ==
  ASSUME NEW r, Fine(r), IsParked(r), ~Settled(r), NEW l \in Links
  PROVE  Moves(r, Claimed(r, l))
<1>1. r.status = "queued" /\ Begun(r) /\ r.uploads = 0 /\ r.copy = "none" /\ r \in Records /\ ~r.settled
  BY DEF Fine, SettledOK, CopyOK, Settled, IsParked, Records, Statuses
<1> DEFINE q == Claimed(r, l)
<1>2. /\ q \in Records /\ q.status = "sending" /\ q.waitFor = "null" /\ q.direct = r.direct
      /\ q.copy = "mining" /\ q.uploads = r.uploads
      /\ q.started = r.started /\ q.fallback = r.fallback /\ q.settled = r.settled
  BY <1>1 DEF Claimed, Records, Legs, Statuses
<1> HIDE DEF q
<1>3. CopyOK(q) /\ SettledOK(q)
  BY <1>1, <1>2 DEF CopyOK, SettledOK, Settled, IsQueued, IsParked, Begun
<1> QED  BY <1>1, <1>2, <1>3 DEF Moves, Fine, Stands, q
-----------------------------------------------------------------------------
(* The state as a whole.                                                   *)

\* Every message goes on as it may.
Advance == msg' \in [Messages -> Records] /\ \A m \in Messages : Goes(msg[m], msg'[m])

\* One message goes and the others stay, or none of them moves.
LEMMA OneGoes ==
  ASSUME IInv, NEW m \in Messages, NEW q, Goes(msg[m], q), msg' = [msg EXCEPT ![m] = q]
  PROVE  Advance
<1>1. \A k \in Messages : Goes(msg[k], msg'[k])
  BY StaysPut DEF IInv
<1>2. msg' \in [Messages -> Records]
  BY DEF IInv, Goes, Fine
<1> QED  BY <1>1, <1>2 DEF Advance

\* One message moves.
LEMMA OneMoves ==
  ASSUME IInv, NEW m \in Messages, NEW q, Moves(msg[m], q), msg' = [msg EXCEPT ![m] = q]
  PROVE  Advance
<1>1. Goes(msg[m], q)
  BY MoveGoes DEF IInv
<1> QED  BY <1>1, OneGoes

\* None of them moves.
LEMMA NoneMoves ==
  ASSUME IInv, UNCHANGED msg
  PROVE  Advance
BY StaysPut DEF IInv, Advance

\* A pass over the messages moves each of them or leaves it.
LEMMA AllMove ==
  ASSUME IInv, NEW f, msg' = [m \in Messages |-> f[m]], \A m \in Messages : Moves(msg[m], f[m])
  PROVE  Advance
<1>1. \A m \in Messages : Goes(msg[m], f[m]) /\ f[m] \in Records
  BY MoveGoes DEF IInv, Moves, Fine
<1> QED  BY <1>1 DEF Advance

\* A new attempt at the propagation link is of one of its links.
LEMMA EstablishTyped ==
  ASSUME RestTyped, Establish
  PROVE  /\ propLink' \in Links /\ promise' \in Links
         /\ link' \in [Links -> {"none", "pending", "active", "stale", "closed"}]
<1> DEFINE l == CHOOSE l \in Unused : TRUE
<1>1. l \in Unused /\ propLink' = l /\ promise' = l /\ link' = [link EXCEPT ![l] = "pending"]
  BY DEF Establish
<1>2. l \in Links
  BY <1>1 DEF Unused
<1> HIDE DEF l
<1> QED  BY <1>1, <1>2 DEF RestTyped

-----------------------------------------------------------------------------
(* The copy starts.                                                        *)

\* Neither the fallback nor the direct attempt's failure has started a copy yet.
LEMMA NotBegun ==
  ASSUME NEW r, Fine(r), r.fallback \/ r.direct \in {"linking", "resource", "doomed"}, ~r.started
  PROVE  r.copy = "none" /\ r.uploads = 0 /\ (~Settled(r) => r.status = "sending")
<1>1. r.uploads \in Nat /\ r.status \in Statuses /\ CopyOK(r) /\ ~Begun(r)
  BY DEF Fine, Records, Begun
<1>2. r.copy = "none" /\ r.uploads = 0
  BY <1>1 DEF CopyOK
<1>3. r.status # "none" /\ ~IsQueued(r) /\ ~IsParked(r)
  BY <1>1 DEF CopyOK
<1>4. r.status # "queued"
  BY <1>1, <1>3 DEF CopyOK, IsQueued, IsParked
<1> QED  BY <1>1, <1>2, <1>3, <1>4 DEF Settled, Statuses

\* The fallback's timer is over.
LEMMA FallbackEnds ==
  ASSUME NEW r, Fine(r)
  PROVE  LET q == [r EXCEPT !.fallback = FALSE] IN
         Moves(r, q) /\ q.status = r.status /\ q.started = r.started /\ q.copy = r.copy
<1> DEFINE q == [r EXCEPT !.fallback = FALSE]
<1>1. /\ q \in Records /\ q.status = r.status /\ q.waitFor = r.waitFor /\ q.direct = r.direct
      /\ q.copy = r.copy /\ q.uploads = r.uploads /\ q.started = r.started /\ q.fallback = FALSE
      /\ q.settled = r.settled /\ q.transfers = r.transfers
  BY DEF Fine, Records
<1> HIDE DEF q
<1>2. CopyOK(q) /\ SettledOK(q)
  BY <1>1 DEF Fine, CopyOK, SettledOK, Settled, IsQueued, IsParked, Begun, Records
<1> QED  BY <1>1, <1>2 DEF Moves, Fine, Stands, q

\* A copy that was started is mined for the link, or waits for it.
LEMMA CopyStarts ==
  ASSUME NEW r, Fine(r), r.status = "sending", r.uploads = 0, r.started,
         NEW c \in {"link", "mining"}, NEW l \in Links \cup {NoLink}
  PROVE  LET opened == [r EXCEPT !.legs = @ \cup {"propagated"}] IN
         Moves(r, opened) /\ Moves(r, [opened EXCEPT !.copy = c, !.on = l]) /\ Moves(r, Park(opened))
<1> DEFINE opened == [r EXCEPT !.legs = @ \cup {"propagated"}]
           q == [opened EXCEPT !.copy = c, !.on = l]
<1>1. SameCourse(r, opened)
  BY DEF SameCourse, Fine, Records, Legs
<1>2. Moves(r, opened)
  BY <1>1, SameCourseMoves
<1>3. /\ q \in Records /\ q.status = r.status /\ q.waitFor = r.waitFor /\ q.direct = r.direct
      /\ q.copy = c /\ q.uploads = r.uploads /\ q.started = r.started /\ q.fallback = r.fallback
      /\ q.settled = r.settled /\ q.transfers = r.transfers
  BY DEF Fine, Records, Legs
<1>4. Fine(opened) /\ ~Settled(opened) /\ Begun(opened) /\ opened.uploads = 0 /\ opened.status = r.status
  BY <1>1, <1>2 DEF Moves, SameCourse, Settled, Begun
<1> HIDE DEF q, opened
<1>5. Moves(opened, Park(opened))
  BY <1>4, ParkMoves DEF Fine
<1>6. Moves(r, Park(opened))
  BY <1>2, <1>5, MovesOn
<1>7. CopyOK(q) /\ SettledOK(q)
  BY <1>3 DEF Fine, CopyOK, SettledOK, Settled, IsQueued, IsParked, Begun
<1>8. Moves(r, q)
  BY <1>3, <1>7 DEF Moves, Fine, Stands
<1> QED  BY <1>2, <1>6, <1>8 DEF q, opened

\* propagate(): of a message as the fallback or the direct attempt leaves it.
LEMMA PropagateGoes ==
  ASSUME IInv, NEW m \in Messages, NEW q, Moves(msg[m], q),
         ~q.started => q.copy = "none" /\ q.uploads = 0 /\ (~Settled(q) => q.status = "sending"),
         Propagate(m, q), UNCHANGED <<connection, warming, flushes>>
  PROVE  Advance /\ RestTyped'
<1>1. CASE UNCHANGED links /\ msg' = [msg EXCEPT ![m] = q]
  BY <1>1, OneMoves DEF IInv, RestTyped, connection, links, flushes
<1>2. CASE ~q.started /\ StartCopy(m, [q EXCEPT !.started = TRUE])
  <2> DEFINE r == [q EXCEPT !.started = TRUE]
             opened == [r EXCEPT !.legs = @ \cup {"propagated"}]
  <2>1. /\ r \in Records /\ r.status = q.status /\ r.waitFor = q.waitFor /\ r.direct = q.direct
        /\ r.copy = q.copy /\ r.uploads = q.uploads /\ r.started /\ r.fallback = q.fallback
        /\ r.settled = q.settled /\ r.transfers = q.transfers /\ Fine(q)
    BY DEF Moves, Fine, Records
  <2> HIDE DEF r
  <2>2. CopyOK(r) /\ SettledOK(r)
    BY <2>1 DEF Fine, CopyOK, SettledOK, Settled, IsQueued, IsParked, Begun
  <2>3. Moves(msg[m], r) /\ Fine(r)
    BY <2>1, <2>2 DEF Moves, Fine, Stands
  <2>4. CASE Settled(r) /\ msg' = [msg EXCEPT ![m] = r] /\ UNCHANGED links
    BY <2>3, <2>4, OneMoves DEF IInv, RestTyped, connection, links, flushes
  <2>5. CASE ~Settled(r)
    <3>1. r.status = "sending" /\ r.uploads = 0 /\ r.started
      BY <1>2, <2>1, <2>5 DEF Settled
    <3>2. \A c \in {"link", "mining"}, l \in Links \cup {NoLink} :
            Moves(msg[m], [opened EXCEPT !.copy = c, !.on = l])
      <4> TAKE c \in {"link", "mining"}, l \in Links \cup {NoLink}
      <4>1. Moves(r, [opened EXCEPT !.copy = c, !.on = l])
        BY <2>3, <3>1, CopyStarts
      <4> QED  BY <2>3, <4>1, MovesOn
    <3>3. Moves(msg[m], Park(opened))
      <4>1. Moves(r, Park(opened))
        BY <2>3, <3>1, CopyStarts
      <4> QED  BY <2>3, <4>1, MovesOn
    <3>4. \/ /\ msg' = [msg EXCEPT ![m] = [opened EXCEPT !.copy = "mining", !.on = propLink]]
             /\ UNCHANGED links
          \/ msg' = [msg EXCEPT ![m] = Park(opened)] /\ UNCHANGED links
          \/ /\ Establish \/ UNCHANGED <<propLink, promise, link>>
             /\ UNCHANGED <<reopen, events, closes>>
             /\ msg' = [msg EXCEPT ![m] = [opened EXCEPT !.copy = "link", !.on = promise']]
      BY <1>2, <2>5 DEF StartCopy, r
    <3> HIDE DEF opened
    <3>5. CASE /\ msg' = [msg EXCEPT ![m] = [opened EXCEPT !.copy = "mining", !.on = propLink]]
               /\ UNCHANGED links
      <4>1. propLink \in Links \cup {NoLink}
        BY DEF IInv, RestTyped
      <4>2. Moves(msg[m], [opened EXCEPT !.copy = "mining", !.on = propLink])
        BY <3>2, <4>1
      <4>3. Advance
        BY <3>5, <4>2, OneMoves
      <4> QED  BY <3>5, <4>3 DEF IInv, RestTyped, connection, links, flushes
    <3>6. CASE msg' = [msg EXCEPT ![m] = Park(opened)] /\ UNCHANGED links
      <4>1. Advance
        BY <3>3, <3>6, OneMoves
      <4> QED  BY <3>6, <4>1 DEF IInv, RestTyped, connection, links, flushes
    <3>7. CASE /\ Establish \/ UNCHANGED <<propLink, promise, link>>
               /\ UNCHANGED <<reopen, events, closes>>
               /\ msg' = [msg EXCEPT ![m] = [opened EXCEPT !.copy = "link", !.on = promise']]
      <4>1. /\ {propLink', promise'} \subseteq Links \cup {NoLink}
            /\ link' \in [Links -> {"none", "pending", "active", "stale", "closed"}]
        BY <3>7, EstablishTyped DEF IInv, RestTyped
      <4>2. Moves(msg[m], [opened EXCEPT !.copy = "link", !.on = promise'])
        BY <3>2, <4>1
      <4>3. Advance
        BY <3>7, <4>2, OneMoves
      <4> QED  BY <3>7, <4>1, <4>3 DEF IInv, RestTyped, connection, flushes
    <3> QED  BY <3>4, <3>5, <3>6, <3>7
  <2> QED  BY <1>2, <2>4, <2>5 DEF StartCopy, r
<1> QED  BY <1>1, <1>2 DEF Propagate
-----------------------------------------------------------------------------
(* One lemma per action: every message goes as it may, and the rest keeps  *)
(* its types.  First, what happens to one message.                         *)

\* A step of messages only.
LEMMA OnlyMessages ==
  ASSUME IInv, Advance, UNCHANGED <<connection, warming, links, flushes>>
  PROVE  Advance /\ RestTyped'
BY DEF IInv, RestTyped, connection, links, flushes

\* The user sends.
LEMMA SendGoes ==
  ASSUME IInv, NEW m \in Messages, Send(m)
  PROVE  Advance /\ RestTyped'
<1> DEFINE r == msg[m]
<1>1. Fine(r) /\ r.status = "none"
  BY DEF IInv, Send
<1>2. /\ Moves(r, Dispatched(r)) /\ Moves(r, Refused(r))
      /\ Moves(r, [r EXCEPT !.status = "queued", !.waitFor = "init"])
  BY <1>1, DispatchMoves
<1>3. \/ msg' = [msg EXCEPT ![m] = [r EXCEPT !.status = "queued", !.waitFor = "init"]]
      \/ msg' = [msg EXCEPT ![m] = Refused(r)]
      \/ msg' = [msg EXCEPT ![m] = Dispatched(r)]
  BY DEF Send, IInv
<1> HIDE DEF r
<1>4. Advance
  BY <1>2, <1>3, OneMoves DEF r
<1> QED  BY <1>4, OnlyMessages DEF Send

\* The propagation delay ran out.
LEMMA FallbackGoes ==
  ASSUME IInv, NEW m \in Messages, Fallback(m)
  PROVE  Advance /\ RestTyped'
<1> DEFINE r == msg[m]
           q == [r EXCEPT !.fallback = FALSE]
<1>1. Fine(r) /\ r.fallback
  BY DEF IInv, Fallback
<1>2. Moves(r, q) /\ q.status = r.status /\ q.started = r.started /\ q.copy = r.copy
  BY <1>1, FallbackEnds
<1>3. ~q.started => q.copy = "none" /\ q.uploads = 0 /\ (~Settled(q) => q.status = "sending")
  BY <1>1, <1>2, NotBegun DEF Moves, Settled
<1>4. Propagate(m, q) /\ UNCHANGED <<connection, warming, flushes>>
  BY DEF Fallback
<1> HIDE DEF q
<1> QED  BY <1>2, <1>3, <1>4, PropagateGoes

\* The stamp is mined.
LEMMA MinedGoes ==
  ASSUME IInv, NEW m \in Messages, Mined(m)
  PROVE  Advance /\ RestTyped'
<1> DEFINE r == msg[m]
           ended == [r EXCEPT !.copy = "none", !.on = NoLink]
<1>1. Fine(r) /\ r.copy = "mining"
  BY DEF IInv, Mined, Mining
<1>2. Moves(r, ended) /\ Fine(ended)
  BY <1>1, CopyEnds DEF Moves
<1>3. ~Settled(r) => Moves(r, Park(r)) /\ Goes(r, Upload(r))
  BY <1>1, CopyWaits, ParkMoves, UploadGoes DEF Fine
<1>4. \/ msg' = [msg EXCEPT ![m] = ended]
      \/ ~Settled(r) /\ msg' = [msg EXCEPT ![m] = Park(r)]
      \/ ~Settled(r) /\ msg' = [msg EXCEPT ![m] = Upload(r)]
      \/ msg' = [msg EXCEPT ![m] = FailSending(ended)]
      \/ msg' = [msg EXCEPT ![m] = PropagationFailed(ended)]
  BY DEF Mined, StillWanted
<1>5. UNCHANGED <<connection, warming, links, flush>>
      /\ visiting' = [l \in Links |-> IF visiting[l] = m THEN NoMessage ELSE visiting[l]]
  BY DEF Mined, FlushGoesOn
<1> HIDE DEF r, ended
<1>6. Moves(ended, FailSending(ended)) /\ Moves(ended, PropagationFailed(ended))
  BY <1>2, FailSendingMoves, PropagationFailedMoves
<1>7. Moves(r, FailSending(ended))
  BY <1>2, <1>6, MovesOn
<1>8. Moves(r, PropagationFailed(ended))
  BY <1>2, <1>6, MovesOn
<1>9. Advance
  <2>1. CASE ~Settled(r) /\ msg' = [msg EXCEPT ![m] = Upload(r)]
    BY <1>3, <2>1, OneGoes DEF r
  <2>2. CASE ~Settled(r) /\ msg' = [msg EXCEPT ![m] = Park(r)]
    BY <1>3, <2>2, OneMoves DEF r
  <2>3. CASE msg' = [msg EXCEPT ![m] = ended]
    BY <1>2, <2>3, OneMoves DEF r
  <2>4. CASE msg' = [msg EXCEPT ![m] = FailSending(ended)]
    BY <1>7, <2>4, OneMoves DEF r
  <2>5. CASE msg' = [msg EXCEPT ![m] = PropagationFailed(ended)]
    BY <1>8, <2>5, OneMoves DEF r
  <2> QED  BY <1>4, <2>1, <2>2, <2>3, <2>4, <2>5
<1>10. visiting' \in [Links -> Messages \cup {NoMessage}]
  BY <1>5 DEF IInv, RestTyped
<1> QED  BY <1>5, <1>9, <1>10 DEF IInv, RestTyped, connection, links

\* Its proof is used up, and the copy with it.
LEMMA ProofUsed ==
  ASSUME NEW r, Fine(r)
  PROVE  /\ Moves(r, [r EXCEPT !.copy = "none", !.on = NoLink, !.proofs = @ \ {"propagated"}])
         /\ Moves(r, [r EXCEPT !.direct = "none", !.proofs = @ \ {"direct"}])
<1> DEFINE s == [r EXCEPT !.copy = "none", !.on = NoLink]
           d == [r EXCEPT !.direct = "none"]
<1>1. Moves(r, s) /\ Moves(r, d) /\ Fine(s) /\ Fine(d)
  BY CopyEnds, DirectEnds DEF Moves
<1>2. /\ SameCourse(s, [r EXCEPT !.copy = "none", !.on = NoLink, !.proofs = @ \ {"propagated"}])
      /\ SameCourse(d, [r EXCEPT !.direct = "none", !.proofs = @ \ {"direct"}])
  BY DEF SameCourse, Fine, Records
<1> HIDE DEF s, d
<1>3. Moves(s, [r EXCEPT !.copy = "none", !.on = NoLink, !.proofs = @ \ {"propagated"}])
  BY <1>1, <1>2, SameCourseMoves
<1>4. Moves(d, [r EXCEPT !.direct = "none", !.proofs = @ \ {"direct"}])
  BY <1>1, <1>2, SameCourseMoves
<1>5. Moves(r, [r EXCEPT !.copy = "none", !.on = NoLink, !.proofs = @ \ {"propagated"}])
  BY <1>1, <1>3, MovesOn
<1> QED  BY <1>1, <1>4, <1>5, MovesOn

\* The node proves the copy.
LEMMA CopyProvedGoes ==
  ASSUME IInv, NEW m \in Messages, CopyProved(m)
  PROVE  Advance /\ RestTyped'
<1> DEFINE r == msg[m]
           s == [r EXCEPT !.copy = "none", !.on = NoLink]
           p == [r EXCEPT !.copy = "none", !.on = NoLink, !.proofs = @ \ {"propagated"}]
           e == End(s, "propagated", TRUE)
<1>1. Fine(r)
  BY DEF IInv
<1>2. Moves(r, s) /\ Moves(r, p) /\ Fine(s) /\ Fine(p)
  BY <1>1, CopyEnds, ProofUsed DEF Moves
<1>3. \/ msg' = [msg EXCEPT ![m] = Propagated(e)]
      \/ msg' = [msg EXCEPT ![m] = Propagated(p)]
  BY DEF CopyProved
<1> HIDE DEF r, s, p
<1>4. Moves(s, e) /\ Fine(e)
  BY <1>2, EndMoves DEF Legs, Moves
<1> HIDE DEF e
<1>5. Moves(r, e)
  BY <1>2, <1>4, MovesOn
<1>6. Moves(e, Propagated(e)) /\ Moves(p, Propagated(p))
  BY <1>2, <1>4, PropagatedMoves
<1>7. Moves(r, Propagated(e))
  BY <1>5, <1>6, MovesOn
<1>8. Moves(r, Propagated(p))
  BY <1>2, <1>6, MovesOn
<1>9. Advance
  BY <1>3, <1>7, <1>8, OneMoves DEF r
<1> QED  BY <1>9, OnlyMessages DEF CopyProved

\* The copy's Resource fails.
LEMMA CopyFailsGoes ==
  ASSUME IInv, NEW m \in Messages, CopyFails(m)
  PROVE  Advance /\ RestTyped'
<1> DEFINE r == msg[m]
           s == [r EXCEPT !.copy = "none", !.on = NoLink]
           e == End(s, "propagated", FALSE)
<1>1. Fine(r)
  BY DEF IInv
<1>2. Moves(r, s) /\ Fine(s)
  BY <1>1, CopyEnds DEF Moves
<1>3. msg' = [msg EXCEPT ![m] = PropagationFailed(e)]
  BY DEF CopyFails
<1> HIDE DEF r, s
<1>4. Moves(s, e) /\ Fine(e)
  BY <1>2, EndMoves DEF Legs, Moves
<1> HIDE DEF e
<1>5. Moves(r, e)
  BY <1>2, <1>4, MovesOn
<1>6. Moves(e, PropagationFailed(e))
  BY <1>4, PropagationFailedMoves
<1>7. Moves(r, PropagationFailed(e))
  BY <1>5, <1>6, MovesOn
<1>8. Advance
  BY <1>3, <1>7, OneMoves DEF r
<1> QED  BY <1>8, OnlyMessages DEF CopyFails

\* The link to the peer is up, and the message goes on it.
LEMMA PeerLinkedGoes ==
  ASSUME IInv, NEW m \in Messages, PeerLinked(m)
  PROVE  Advance /\ RestTyped'
<1> DEFINE r == msg[m]
           q == IF r.kind = "bulk"
                THEN [r EXCEPT !.direct = "resource", !.transfers = @ \cup {"direct"}]
                ELSE [r EXCEPT !.direct = "packet", !.proofs = @ \cup {"direct"}]
<1>1. Fine(r) /\ r.direct = "linking" /\ msg' = [msg EXCEPT ![m] = q]
  BY DEF IInv, PeerLinked
<1>2. /\ q \in Records /\ q.status = r.status /\ q.waitFor = r.waitFor
      /\ q.direct \in {"resource", "packet"} /\ q.copy = r.copy /\ q.uploads = r.uploads
      /\ q.started = r.started /\ q.fallback = r.fallback /\ q.settled = r.settled
      /\ r.transfers \subseteq q.transfers
  <2>1. CASE r.kind = "bulk"
    BY <1>1, <2>1 DEF Fine, Records, Legs
  <2>2. CASE r.kind # "bulk"
    BY <1>1, <2>2 DEF Fine, Records, Legs
  <2> QED  BY <2>1, <2>2
<1> HIDE DEF r, q
<1>3. CopyOK(q) /\ SettledOK(q)
  BY <1>1, <1>2 DEF Fine, CopyOK, SettledOK, Settled, IsQueued, IsParked, Begun
<1>4. Moves(r, q)
  BY <1>1, <1>2, <1>3 DEF Moves, Fine, Stands
<1>5. Advance
  BY <1>1, <1>4, OneMoves DEF r
<1> QED  BY <1>5, OnlyMessages DEF PeerLinked

\* The peer proves it.
LEMMA DirectProvedGoes ==
  ASSUME IInv, NEW m \in Messages, DirectProved(m)
  PROVE  Advance /\ RestTyped'
<1> DEFINE r == msg[m]
           p == [r EXCEPT !.direct = "none", !.proofs = @ \ {"direct"}]
           d == [r EXCEPT !.direct = "none"]
           e == End(d, "direct", TRUE)
           t == [r EXCEPT !.ticket = FALSE]
<1>1. Fine(r)
  BY DEF IInv
<1>2. Moves(r, p) /\ Moves(r, d) /\ Moves(r, t) /\ Fine(p) /\ Fine(d) /\ Fine(t)
  BY <1>1, DirectEnds, ProofUsed, TimersMove DEF Moves
<1>3. \/ msg' = [msg EXCEPT ![m] = Proved(p)]
      \/ msg' = [msg EXCEPT ![m] = Proved(e)]
      \/ msg' = [msg EXCEPT ![m] = Proved(t)]
  BY DEF DirectProved
<1> HIDE DEF r, p, d, t
<1>4. Moves(d, e) /\ Fine(e)
  BY <1>2, EndMoves DEF Legs, Moves
<1> HIDE DEF e
<1>5. Moves(r, e)
  BY <1>2, <1>4, MovesOn
<1>6. Moves(p, Proved(p)) /\ Moves(e, Proved(e)) /\ Moves(t, Proved(t))
  BY <1>2, <1>4, ProvedMoves
<1>7. Moves(r, Proved(p))
  BY <1>2, <1>6, MovesOn
<1>8. Moves(r, Proved(e))
  BY <1>5, <1>6, MovesOn
<1>9. Moves(r, Proved(t))
  BY <1>2, <1>6, MovesOn
<1>10. Advance
  BY <1>3, <1>7, <1>8, <1>9, OneMoves DEF r
<1> QED  BY <1>10, OnlyMessages DEF DirectProved

\* The end of a direct transfer leaves the outcome and the copy alone.
LEMMA EndKeeps ==
  ASSUME NEW r, Fine(r), NEW ok \in BOOLEAN
  PROVE  LET e == End(r, "direct", ok) IN
         e.started = r.started /\ e.copy = r.copy /\ e.status = r.status
<1> DEFINE left == [r EXCEPT !.transfers = @ \ {"direct"}]
           over == IF left.settled THEN Settle(left) ELSE left
           e == End(r, "direct", ok)
<1>1. left \in Records /\ left.started = r.started /\ left.copy = r.copy /\ left.status = r.status
  BY DEF Fine, Records
<1>2. e = left \/ e = over \/ e = [over EXCEPT !.deferred = FALSE, !.ceiling = TRUE]
  BY DEF End
<1> HIDE DEF left, e
<1>3. over \in Records /\ over.started = r.started /\ over.copy = r.copy /\ over.status = r.status
  <2>1. LET s == Settle(left) IN
        /\ s \in Records /\ s.started = left.started /\ s.copy = left.copy
        /\ s.status = left.status
    BY ZenonT(40), <1>1 DEF Settle, Records
  <2> QED  BY <1>1, <2>1
<1> HIDE DEF over
<1>4. CASE e = [over EXCEPT !.deferred = FALSE, !.ceiling = TRUE]
  BY <1>3, <1>4 DEF e, Records
<1> QED  BY <1>1, <1>2, <1>3, <1>4 DEF e

\* The direct attempt fails: the copy goes now, unless it went before.
LEMMA DirectFailsGoes ==
  ASSUME IInv, NEW m \in Messages, DirectFails(m)
  PROVE  Advance /\ RestTyped'
<1> DEFINE r == msg[m]
           d == [r EXCEPT !.direct = "none"]
           ended == IF "direct" \in r.transfers THEN End(d, "direct", FALSE) ELSE d
           gone == LegGone(ended, "direct")
<1>1. Fine(r) /\ r.direct \in {"linking", "resource", "doomed"}
  BY DEF IInv, DirectFails
<1>2. Moves(r, d) /\ Fine(d)
  BY <1>1, DirectEnds DEF Moves
<1>3. Moves(r, ended) /\ Fine(ended)
  <2> DEFINE e == End(d, "direct", FALSE)
  <2> HIDE DEF d, r
  <2>1. Moves(d, e) /\ Fine(e)
    BY <1>2, EndMoves DEF Legs, Moves
  <2> HIDE DEF e
  <2>2. Moves(r, e)
    BY <1>2, <2>1, MovesOn
  <2>3. ended = e \/ ended = d
    BY DEF e
  <2> QED  BY <1>2, <2>1, <2>2, <2>3
<1>4. ended.started = r.started /\ ended.copy = r.copy /\ ended.status = r.status
  <2>1. d.started = r.started /\ d.copy = r.copy /\ d.status = r.status
    BY <1>1 DEF Fine, Records
  <2>2. LET e == End(d, "direct", FALSE) IN
        e.started = d.started /\ e.copy = d.copy /\ e.status = d.status
    <3> HIDE DEF d
    <3> QED  BY <1>2, EndKeeps
  <2> QED  BY <2>1, <2>2
<1>5. \/ /\ r.started /\ UNCHANGED links
         /\ msg' = [msg EXCEPT ![m] = IF LastLeg(ended, "direct") THEN FailSending(gone) ELSE gone]
      \/ ~r.started /\ Propagate(m, gone)
  <2>1. IF r.started
        THEN /\ msg' = [msg EXCEPT ![m] = IF LastLeg(ended, "direct") THEN FailSending(gone) ELSE gone]
             /\ UNCHANGED links
        ELSE Propagate(m, gone)
    BY Zenon DEF DirectFails
  <2> HIDE DEF r, ended, gone
  <2> QED  BY <2>1
<1>6. UNCHANGED <<connection, warming, flushes>>
  BY DEF DirectFails
<1> HIDE DEF r, d, ended
<1>7. Moves(ended, gone) /\ SameCourse(ended, gone) /\ Fine(gone)
  BY <1>3, LegGoneMoves DEF Legs, Moves
<1> HIDE DEF gone
<1>8. Moves(r, gone)
  BY <1>3, <1>7, MovesOn
<1>9. CASE r.started
  <2>1. Moves(gone, FailSending(gone))
    BY <1>7, FailSendingMoves
  <2>2. Moves(r, FailSending(gone))
    BY <1>8, <2>1, MovesOn
  <2>3. Advance /\ UNCHANGED links
    BY <1>5, <1>8, <1>9, <2>2, OneMoves DEF r
  <2> QED  BY <1>6, <2>3, OnlyMessages
<1>10. CASE ~r.started
  <2>1. r.copy = "none" /\ r.uploads = 0 /\ (~Settled(r) => r.status = "sending")
    BY <1>1, <1>10, NotBegun
  <2>2. gone.copy = "none" /\ gone.uploads = 0 /\ gone.status = r.status
    BY <1>4, <1>7, <1>8, <2>1 DEF Moves, SameCourse
  <2>3. ~Settled(gone) => gone.status = "sending"
    BY <2>1, <2>2 DEF Settled
  <2> QED  BY <1>5, <1>6, <1>8, <1>10, <2>2, <2>3, PropagateGoes DEF r
<1> QED  BY <1>9, <1>10

\* The exchange that carried its packet failed.
LEMMA PacketLostGoes ==
  ASSUME IInv, NEW m \in Messages, PacketLost(m)
  PROVE  Advance /\ RestTyped'
<1> DEFINE r == msg[m]
           q == [r EXCEPT !.status = "failed", !.ceiling = FALSE]
<1>1. Fine(r) /\ r.status = "sending" /\ msg' = [msg EXCEPT ![m] = q]
  BY DEF IInv, PacketLost
<1>2. /\ q \in Records /\ q.status = "failed" /\ q.waitFor = r.waitFor /\ q.direct = r.direct
      /\ q.copy = r.copy /\ q.uploads = r.uploads /\ q.started = r.started /\ q.fallback = r.fallback
      /\ q.settled = r.settled /\ q.transfers = r.transfers
  BY <1>1 DEF Fine, Records, Statuses
<1> HIDE DEF r, q
<1>3. CopyOK(q) /\ SettledOK(q)
  BY <1>1, <1>2 DEF Fine, CopyOK, SettledOK, Settled, IsQueued, IsParked, Begun
<1>4. Moves(r, q)
  BY <1>1, <1>2, <1>3 DEF Moves, Fine, Stands
<1>5. Advance
  BY <1>1, <1>4, OneMoves DEF r
<1> QED  BY <1>5, OnlyMessages DEF PacketLost

\* The 30 s ceiling.
LEMMA CeilingGoes ==
  ASSUME IInv, NEW m \in Messages, Ceiling(m)
  PROVE  Advance /\ RestTyped'
<1> DEFINE r == msg[m]
           q == [r EXCEPT !.ceiling = FALSE]
           put == [q EXCEPT !.deferred = TRUE]
<1>1. Fine(r)
  BY DEF IInv
<1>2. Moves(r, q) /\ Moves(r, put) /\ Fine(q)
  BY <1>1, TimersMove DEF Moves
<1>3. msg' = [msg EXCEPT ![m] = put] \/ msg' = [msg EXCEPT ![m] = FailSending(q)]
  BY DEF Ceiling
<1> HIDE DEF r, q, put
<1>4. Moves(q, FailSending(q))
  BY <1>2, FailSendingMoves
<1>5. Moves(r, FailSending(q))
  BY <1>2, <1>4, MovesOn
<1>6. Advance
  BY <1>2, <1>3, <1>5, OneMoves DEF r
<1> QED  BY <1>6, OnlyMessages DEF Ceiling
-----------------------------------------------------------------------------
(* The links, the flushes and the connection.                              *)

\* A step of the links only.
LEMMA OnlyLinks ==
  ASSUME IInv, UNCHANGED <<msg, connection, warming, flushes>>, reopen' \in BOOLEAN,
         {propLink', promise'} \subseteq Links \cup {NoLink},
         link' \in [Links -> {"none", "pending", "active", "stale", "closed"}],
         events' \in Seq([name : {"established", "close"}, of : Links, up : BOOLEAN]),
         closes' \in 0..MaxCloses
  PROVE  Advance /\ RestTyped'
BY NoneMoves DEF IInv, RestTyped, connection, flushes

\* The node's announce, or the page or the exchange coming back.
LEMMA RedriveGoes ==
  ASSUME IInv, Redrive
  PROVE  Advance /\ RestTyped'
<1>1. Establish \/ UNCHANGED <<propLink, promise, link>>
  BY DEF Redrive
<1>2. /\ {propLink', promise'} \subseteq Links \cup {NoLink}
      /\ link' \in [Links -> {"none", "pending", "active", "stale", "closed"}]
  BY <1>1, EstablishTyped DEF IInv, RestTyped
<1>3. /\ UNCHANGED <<msg, rns, initialized, down, stops, outages, warming, events, closes, flushes>>
      /\ reopen' \in BOOLEAN /\ nodeKnown' \in BOOLEAN
  BY DEF Redrive, IInv, RestTyped
<1>4. Advance
  BY <1>3, NoneMoves
<1> QED  BY <1>2, <1>3, <1>4 DEF IInv, RestTyped, flushes

\* A link comes up, goes stale, recovers or closes.
LEMMA LinkMoves ==
  ASSUME IInv, NEW l \in Links, LinkUp(l) \/ LinkStale(l) \/ LinkRecovers(l) \/ LinkCloses(l)
  PROVE  Advance /\ RestTyped'
<1>1. /\ UNCHANGED <<msg, connection, warming, flushes, propLink, promise, reopen>>
      /\ link' \in [Links -> {"none", "pending", "active", "stale", "closed"}]
      /\ closes' \in 0..MaxCloses
  <2>1. UNCHANGED <<msg, connection, warming, flushes, propLink, promise, reopen>>
    BY DEF LinkUp, LinkStale, LinkRecovers, LinkCloses
  <2>2. \E s \in {"active", "stale", "closed"} : link' = [link EXCEPT ![l] = s]
    BY DEF LinkUp, LinkStale, LinkRecovers, LinkCloses
  <2>3. UNCHANGED closes \/ (closes < MaxCloses /\ closes' = closes + 1)
    BY DEF LinkUp, LinkStale, LinkRecovers, LinkCloses
  <2>4. closes' \in 0..MaxCloses
    BY <2>3, SendAssumption DEF IInv, RestTyped
  <2> QED  BY <2>1, <2>2, <2>4 DEF IInv, RestTyped
<1>2. events' \in Seq([name : {"established", "close"}, of : Links, up : BOOLEAN])
  <2> DEFINE E == [name : {"established", "close"}, of : Links, up : BOOLEAN]
  <2>1. \/ UNCHANGED events
        \/ events' = Append(events, [name |-> "established", of |-> l, up |-> TRUE])
        \/ events' = Append(events, [name |-> "close", of |-> l, up |-> link[l] # "pending"])
    BY DEF LinkUp, LinkStale, LinkRecovers, LinkCloses
  <2>2. /\ [name |-> "established", of |-> l, up |-> TRUE] \in E
        /\ [name |-> "close", of |-> l, up |-> link[l] # "pending"] \in E
        /\ events \in Seq(E)
    BY DEF IInv, RestTyped
  <2> HIDE DEF E
  <2>3. events' \in Seq(E)
    BY <2>1, <2>2
  <2> QED  BY <2>3 DEF E
<1> QED  BY <1>1, <1>2, OnlyLinks DEF IInv, RestTyped

\* The first event is heard.
LEMMA EventHeard ==
  ASSUME RestTyped, events # <<>>, events' = Tail(events)
  PROVE  /\ Head(events) \in [name : {"established", "close"}, of : Links, up : BOOLEAN]
         /\ events' \in Seq([name : {"established", "close"}, of : Links, up : BOOLEAN])
<1> DEFINE E == [name : {"established", "close"}, of : Links, up : BOOLEAN]
<1>1. events \in Seq(E)
  BY DEF RestTyped
<1> HIDE DEF E
<1>2. Head(events) \in E /\ events' \in Seq(E)
  BY <1>1
<1> QED  BY <1>2 DEF E

\* The oldest first: the parked messages in some order.
LEMMA OrderTyped ==
  ASSUME NEW order \in InOrder(Parked)
  PROVE  order \in Seq(Messages)
<1>1. IsFiniteSet(Parked)
  BY SendAssumption, FS_Subset DEF Parked
<1>2. Cardinality(Parked) \in Nat
  BY <1>1, FS_CardinalityType
<1>3. order \in [1..Cardinality(Parked) -> Messages]
  BY DEF InOrder, Parked
<1> DEFINE n == Cardinality(Parked)
<1> HIDE DEF n
<1>4. order \in [1..n -> Messages] /\ n \in Nat
  BY <1>2, <1>3 DEF n
<1> QED  BY <1>4

\* The waiting copies go on, and a flush begins.
LEMMA EstablishedGoes ==
  ASSUME IInv, NEW l \in Links, Established(l)
  PROVE  Advance /\ RestTyped'
<1> DEFINE f == [m \in Messages |->
               IF m \in Waiters(l) THEN [msg[m] EXCEPT !.copy = IF Settled(msg[m]) THEN "none" ELSE "mining",
                                                       !.on = IF Settled(msg[m]) THEN NoLink ELSE l]
               ELSE msg[m]]
<1>1. msg' = [m \in Messages |-> f[m]]
  BY DEF Established
<1>2. ASSUME NEW m \in Messages PROVE Moves(msg[m], f[m])
  <2> DEFINE r == msg[m]
  <2>1. Fine(r)
    BY DEF IInv
  <2>2. CASE m \notin Waiters(l)
    BY <2>1, <2>2, StaysPut
  <2>3. CASE m \in Waiters(l) /\ Settled(r)
    <3>1. f[m] = [r EXCEPT !.copy = "none", !.on = NoLink]
      BY <2>3
    <3> QED  BY <2>1, <3>1, CopyEnds
  <2>4. CASE m \in Waiters(l) /\ ~Settled(r)
    <3> DEFINE q == [r EXCEPT !.copy = "mining", !.on = l]
    <3>1. f[m] = q
      BY <2>4
    <3>2. r.copy = "link"
      BY <2>4 DEF Waiters
    <3>3. /\ q \in Records /\ q.status = r.status /\ q.waitFor = r.waitFor /\ q.direct = r.direct
          /\ q.copy = "mining" /\ q.uploads = r.uploads /\ q.started = r.started
          /\ q.fallback = r.fallback /\ q.settled = r.settled /\ q.transfers = r.transfers
      BY <2>1 DEF Fine, Records
    <3> HIDE DEF q, r, f
    <3>4. CopyOK(q) /\ SettledOK(q)
      BY <2>1, <3>2, <3>3 DEF Fine, CopyOK, SettledOK, Settled, IsQueued, IsParked, Begun
    <3> QED  BY <3>1, <3>3, <3>4 DEF Moves, Fine, Stands, r
  <2> QED  BY <2>2, <2>3, <2>4
<1>3. Advance
  <2> HIDE DEF f
  <2> QED  BY <1>1, <1>2, AllMove
<1>4. flush' \in [Links -> Seq(Messages)]
  <2>1. \/ UNCHANGED flush
        \/ \E order \in InOrder(Parked) : flush' = [flush EXCEPT ![propLink] = order]
    BY DEF Established
  <2> QED  BY <2>1, OrderTyped DEF IInv, RestTyped
<1>5. /\ events # <<>> /\ events' = Tail(events) /\ promise' = NoLink /\ reopen' = TRUE
      /\ UNCHANGED <<connection, warming, propLink, link, closes, visiting>>
  BY DEF Established
<1>6. events' \in Seq([name : {"established", "close"}, of : Links, up : BOOLEAN])
  BY <1>5, EventHeard DEF IInv
<1> QED  BY <1>3, <1>4, <1>5, <1>6 DEF IInv, RestTyped, connection

\* A link is gone: its waiting copies are parked, and it may be opened again.
LEMMA LinkGoneGoes ==
  ASSUME IInv, NEW l \in Links, LinkGone(l)
  PROVE  Advance /\ RestTyped'
<1> DEFINE f == [m \in Messages |-> IF m \in Waiters(l) THEN Park(msg[m]) ELSE msg[m]]
<1>1. UNCHANGED msg \/ msg' = [m \in Messages |-> f[m]]
  BY DEF LinkGone
<1>2. ASSUME NEW m \in Messages PROVE Moves(msg[m], f[m])
  <2> DEFINE r == msg[m]
  <2>1. Fine(r)
    BY DEF IInv
  <2>2. CASE m \notin Waiters(l)
    BY <2>1, <2>2, StaysPut
  <2>3. CASE m \in Waiters(l)
    <3>1. f[m] = Park(r) /\ r.copy = "link"
      BY <2>3 DEF Waiters
    <3> HIDE DEF r, f
    <3>2. Moves(r, Park(r))
      BY <2>1, <3>1, CopyWaits, ParkMoves DEF Fine
    <3> QED  BY <3>1, <3>2 DEF r
  <2> QED  BY <2>2, <2>3
<1>3. Advance
  <2> HIDE DEF f
  <2> QED  BY <1>1, <1>2, AllMove, NoneMoves
<1>4. /\ events # <<>> /\ events' = Tail(events)
      /\ UNCHANGED <<connection, warming, closes, flushes>>
  BY DEF LinkGone
<1>5. /\ Head(events).up \in BOOLEAN
      /\ events' \in Seq([name : {"established", "close"}, of : Links, up : BOOLEAN])
  BY <1>4, EventHeard DEF IInv
<1>6. \/ UNCHANGED <<propLink, promise, link>>
      \/ Establish
      \/ propLink' = NoLink /\ promise' = NoLink /\ UNCHANGED link
  BY DEF LinkGone
<1>7. /\ {propLink', promise'} \subseteq Links \cup {NoLink}
      /\ link' \in [Links -> {"none", "pending", "active", "stale", "closed"}]
  BY <1>6, EstablishTyped DEF IInv, RestTyped
<1>8. reopen' \in BOOLEAN
  BY DEF LinkGone, IInv, RestTyped
<1> QED  BY <1>3, <1>4, <1>5, <1>7, <1>8 DEF IInv, RestTyped, connection, flushes

\* The flush visits the next parked message.
LEMMA FlushStepGoes ==
  ASSUME IInv, NEW l \in Links, FlushStep(l)
  PROVE  Advance /\ RestTyped'
<1> DEFINE m == Head(flush[l])
<1>1. flush[l] \in Seq(Messages) /\ flush[l] # <<>>
  BY DEF IInv, RestTyped, FlushStep
<1>2. m \in Messages /\ Tail(flush[l]) \in Seq(Messages) /\ <<>> \in Seq(Messages)
  BY <1>1
<1>3. /\ UNCHANGED <<connection, warming, links>>
      /\ \/ flush' = [flush EXCEPT ![l] = <<>>] \/ flush' = [flush EXCEPT ![l] = Tail(@)]
      /\ \/ UNCHANGED <<msg, visiting>>
         \/ /\ IsParked(msg[m]) /\ ~Settled(msg[m])
            /\ msg' = [msg EXCEPT ![m] = Claimed(msg[m], l)]
            /\ visiting' = [visiting EXCEPT ![l] = m]
  BY DEF FlushStep
<1> HIDE DEF m
<1>4. flush' \in [Links -> Seq(Messages)] /\ visiting' \in [Links -> Messages \cup {NoMessage}]
  BY ZenonT(40), <1>2, <1>3 DEF IInv, RestTyped
<1>5. Advance
  <2>1. CASE UNCHANGED <<msg, visiting>>
    BY <2>1, NoneMoves
  <2>2. CASE /\ IsParked(msg[m]) /\ ~Settled(msg[m])
             /\ msg' = [msg EXCEPT ![m] = Claimed(msg[m], l)]
    <3>1. Moves(msg[m], Claimed(msg[m], l))
      BY <1>2, <2>2, ClaimMoves DEF IInv
    <3> QED  BY <1>2, <2>2, <3>1, OneMoves
  <2> QED  BY <1>3, <2>1, <2>2
<1> QED  BY <1>3, <1>4, <1>5 DEF IInv, RestTyped, connection, links

\* _dispatchQueued's pass.
LEMMA DispatchAllGoes ==
  ASSUME IInv, NEW S, NEW gone, DispatchAll(S, gone)
  PROVE  Advance
<1> DEFINE f == [m \in Messages |->
            IF m \in S /\ IsQueued(msg[m])
            THEN IF m \in gone THEN Refused(msg[m])
                 ELSE IF rns THEN Dispatched(msg[m]) ELSE Stranded(msg[m])
            ELSE msg[m]]
<1>1. msg' = [m \in Messages |-> f[m]]
  BY DEF DispatchAll
<1>2. ASSUME NEW m \in Messages PROVE Moves(msg[m], f[m])
  <2>1. Fine(msg[m])
    BY DEF IInv
  <2>2. /\ Moves(msg[m], msg[m])
        /\ IsQueued(msg[m]) => /\ Moves(msg[m], Dispatched(msg[m])) /\ Moves(msg[m], Refused(msg[m]))
                               /\ Moves(msg[m], Stranded(msg[m]))
    BY <2>1, StaysPut, DispatchMoves
  <2> QED  BY <2>2
<1> HIDE DEF f
<1> QED  BY <1>1, <1>2, AllMove

\* The connection's first registration, and its attachments in memory.
LEMMA RegisteredGoes ==
  ASSUME IInv, Registered
  PROVE  Advance /\ RestTyped'
<1> DEFINE queued == {m \in Messages : IsQueued(msg[m])}
<1>1. \/ warming' = [warming EXCEPT ![stops] = queued] /\ UNCHANGED msg
      \/ DispatchAll(queued, {}) /\ UNCHANGED warming
  BY DEF Registered
<1>2. initialized' = TRUE /\ UNCHANGED <<rns, down, nodeKnown, stops, outages, links, flushes>>
  BY DEF Registered
<1>3. queued \in SUBSET Messages
  OBVIOUS
<1> HIDE DEF queued
<1>4. warming' \in [0..MaxStops -> SUBSET Messages]
  BY <1>1, <1>3 DEF IInv, RestTyped
<1>5. Advance
  BY <1>1, DispatchAllGoes, NoneMoves
<1> QED  BY <1>2, <1>4, <1>5 DEF IInv, RestTyped, links, flushes

\* A connection's messages have their bytes in memory.
LEMMA WarmedGoes ==
  ASSUME IInv, NEW c \in 0..MaxStops, Warmed(c)
  PROVE  Advance /\ RestTyped'
<1>1. PICK gone \in SUBSET {m \in warming[c] : msg[m].kind = "bulk"} : DispatchAll(warming[c], gone)
  BY DEF Warmed
<1>2. Advance
  BY <1>1, DispatchAllGoes
<1>3. warming' = [warming EXCEPT ![c] = {}] /\ UNCHANGED <<connection, links, flushes>>
  BY DEF Warmed
<1>4. warming' \in [0..MaxStops -> SUBSET Messages]
  BY <1>3 DEF IInv, RestTyped
<1> QED  BY <1>2, <1>3, <1>4 DEF IInv, RestTyped, connection, links, flushes

\* The exchange goes down and comes up; a new connection.
LEMMA ConnectionGoes ==
  ASSUME IInv, ExchangeDown \/ ExchangeUp \/ Connect
  PROVE  Advance /\ RestTyped'
<1>1. Advance
  BY NoneMoves DEF ExchangeDown, ExchangeUp, Connect
<1>2. outages' \in 0..MaxOutages
  BY SendAssumption DEF ExchangeDown, ExchangeUp, Connect, IInv, RestTyped
<1> QED  BY <1>1, <1>2 DEF ExchangeDown, ExchangeUp, Connect, IInv, RestTyped, connection, links, flushes

\* What a disconnect leaves of a message.
Cut(r) ==
  LET s == [r EXCEPT !.proofs = {}, !.ticket = FALSE, !.ceiling = FALSE,
                     !.direct = IF @ \in {"linking", "resource"} THEN "doomed" ELSE "none",
                     !.cut = @ \/ UnderWay(r)]
  IN IF s.copy = "link" THEN Park(s)
     ELSE IF s.copy = "packet" THEN [s EXCEPT !.copy = "none", !.on = NoLink] ELSE s

\* It is fine, and no outcome is taken back.
LEMMA CutMoves ==
  ASSUME NEW r, Fine(r)
  PROVE  Moves(r, Cut(r))
<1> DEFINE s == [r EXCEPT !.proofs = {}, !.ticket = FALSE, !.ceiling = FALSE,
                          !.direct = IF @ \in {"linking", "resource"} THEN "doomed" ELSE "none",
                          !.cut = @ \/ UnderWay(r)]
<1>1. /\ s \in Records /\ s.status = r.status /\ s.waitFor = r.waitFor
      /\ s.direct = (IF r.direct \in {"linking", "resource"} THEN "doomed" ELSE "none")
      /\ s.copy = r.copy /\ s.uploads = r.uploads /\ s.started = r.started
      /\ s.fallback = r.fallback /\ s.settled = r.settled /\ s.transfers = r.transfers
  <2> DEFINE to == IF r.direct \in {"linking", "resource"} THEN "doomed" ELSE "none"
  <2> DEFINE off == r.cut \/ UnderWay(r)
  <2>1. to \in {"none", "doomed"} /\ off \in BOOLEAN
    BY DEF Fine, Records, UnderWay
  <2>2. s = [r EXCEPT !.proofs = {}, !.ticket = FALSE, !.ceiling = FALSE, !.direct = to, !.cut = off]
    OBVIOUS
  <2> HIDE DEF s, to, off
  <2>3. s \in Records
    BY <2>1, <2>2 DEF Fine, Records
  <2>4. /\ s.status = r.status /\ s.waitFor = r.waitFor /\ s.direct = to
        /\ s.copy = r.copy /\ s.uploads = r.uploads /\ s.started = r.started
        /\ s.fallback = r.fallback /\ s.settled = r.settled /\ s.transfers = r.transfers
    BY <2>2 DEF Fine, Records
  <2> QED  BY <2>3, <2>4 DEF to
<1>2. Cut(r) = IF s.copy = "link" THEN Park(s)
               ELSE IF s.copy = "packet" THEN [s EXCEPT !.copy = "none", !.on = NoLink] ELSE s
  BY DEF Cut
<1> HIDE DEF s
<1>3. CopyOK(s) /\ SettledOK(s)
  BY <1>1 DEF Fine, CopyOK, SettledOK, Settled, IsQueued, IsParked, Begun
<1>4. Moves(r, s) /\ Fine(s)
  BY <1>1, <1>3 DEF Moves, Fine, Stands
<1>5. Moves(s, [s EXCEPT !.copy = "none", !.on = NoLink])
  BY <1>4, CopyEnds
<1>6. Moves(r, [s EXCEPT !.copy = "none", !.on = NoLink])
  BY <1>4, <1>5, MovesOn
<1>7. ASSUME s.copy = "link" PROVE Moves(r, Park(s))
  <2>1. Moves(s, Park(s))
    BY <1>4, <1>7, CopyWaits, ParkMoves DEF Fine
  <2> QED  BY <1>4, <2>1, MovesOn
<1> QED  BY <1>2, <1>4, <1>6, <1>7

\* disconnect().
LEMMA DisconnectGoes ==
  ASSUME IInv, Disconnect
  PROVE  Advance /\ RestTyped'
<1> DEFINE f == [m \in Messages |-> Cut(msg[m])]
<1>1. msg' = [m \in Messages |-> f[m]]
  <2>1. ASSUME NEW m \in Messages PROVE msg'[m] = f[m]
    BY Zenon DEF Disconnect, Cut
  <2>2. msg' = [m \in Messages |-> msg'[m]]
    BY DEF Disconnect
  <2> QED  BY <2>1, <2>2
<1>2. \A m \in Messages : Moves(msg[m], f[m])
  BY CutMoves DEF IInv
<1>3. Advance
  <2> HIDE DEF f
  <2> QED  BY <1>1, <1>2, AllMove
<1>4. /\ rns' = FALSE /\ initialized' = FALSE /\ down' = FALSE /\ reopen' = FALSE
      /\ propLink' = NoLink /\ promise' = NoLink
      /\ UNCHANGED <<nodeKnown, outages, warming, closes, flushes>>
      /\ stops < MaxStops /\ stops' = stops + 1
  BY DEF Disconnect
<1>5. stops' \in 0..MaxStops
  BY <1>4, SendAssumption DEF IInv, RestTyped
<1>6. \/ UNCHANGED <<link, events>>
      \/ /\ propLink # NoLink
         /\ link' = [link EXCEPT ![propLink] = "closed"]
         /\ events' = Append(events, [name |-> "close", of |-> propLink, up |-> link[propLink] # "pending"])
  BY DEF Disconnect
<1>7. link' \in [Links -> {"none", "pending", "active", "stale", "closed"}]
  BY <1>6 DEF IInv, RestTyped
<1>8. events' \in Seq([name : {"established", "close"}, of : Links, up : BOOLEAN])
  <2> DEFINE E == [name : {"established", "close"}, of : Links, up : BOOLEAN]
             e == [name |-> "close", of |-> propLink, up |-> link[propLink] # "pending"]
  <2>1. events \in Seq(E) /\ (propLink # NoLink => e \in E)
    BY DEF IInv, RestTyped
  <2>2. events' = events \/ (propLink # NoLink /\ events' = Append(events, e))
    BY <1>6
  <2> HIDE DEF E, e
  <2>3. events' \in Seq(E)
    BY <2>1, <2>2
  <2> QED  BY <2>3 DEF E
<1> QED  BY <1>3, <1>4, <1>5, <1>7, <1>8 DEF IInv, RestTyped, flushes

\* What is stored of a message is left when the page is loaded again.
Stored(r) ==
  [Fresh(r.kind) EXCEPT !.status = r.status, !.waitFor = r.waitFor,
                        !.uploads = r.uploads, !.cut = r.cut \/ UnderWay(r)]

\* It is fine, and its outcome is the one that was stored.
LEMMA StoredMoves ==
  ASSUME NEW r, Fine(r)
  PROVE  Moves(r, Stored(r))
<1> DEFINE q == Stored(r)
<1>1. /\ q \in Records /\ q.status = r.status /\ q.waitFor = r.waitFor /\ q.direct = "none"
      /\ q.copy = "none" /\ q.uploads = r.uploads /\ ~q.fallback /\ ~q.settled
  <2> DEFINE f == Fresh(r.kind)
  <2>1. /\ f \in Records /\ f.direct = "none" /\ f.copy = "none" /\ ~f.fallback /\ ~f.settled
    BY DEF Fresh, Fine, Records, Statuses
  <2>2. q = [f EXCEPT !.status = r.status, !.waitFor = r.waitFor,
                      !.uploads = r.uploads, !.cut = r.cut \/ UnderWay(r)]
    BY DEF Stored
  <2>3. r \in Records /\ (r.cut \/ UnderWay(r)) \in BOOLEAN
    BY DEF Fine, Records, UnderWay
  <2> HIDE DEF f, q
  <2> QED  BY <2>1, <2>2, <2>3 DEF Records
<1> HIDE DEF q
<1>2. CopyOK(q) /\ SettledOK(q)
  BY <1>1 DEF Fine, CopyOK, SettledOK, Settled, IsQueued, IsParked, Begun
<1> QED  BY <1>1, <1>2 DEF Moves, Fine, Stands, q

\* The page is loaded again.
LEMMA ReloadGoes ==
  ASSUME IInv, Reload
  PROVE  Advance /\ RestTyped'
<1> DEFINE f == [m \in Messages |-> Stored(msg[m])]
<1>1. msg' = [m \in Messages |-> f[m]]
  <2>1. ASSUME NEW m \in Messages PROVE msg'[m] = f[m]
    BY Zenon DEF Reload, Stored
  <2>2. msg' = [m \in Messages |-> msg'[m]]
    BY DEF Reload
  <2> QED  BY <2>1, <2>2
<1>2. \A m \in Messages : Moves(msg[m], f[m])
  BY StoredMoves DEF IInv
<1>3. Advance
  <2> HIDE DEF f
  <2> QED  BY <1>1, <1>2, AllMove
<1>4. /\ rns' = FALSE /\ initialized' = FALSE /\ down' = FALSE /\ reopen' = FALSE
      /\ propLink' = NoLink /\ promise' = NoLink
      /\ stops < MaxStops /\ stops' = stops + 1
      /\ warming' = [c \in 0..MaxStops |-> {}] /\ link' = [l \in Links |-> "none"] /\ events' = <<>>
      /\ flush' = [l \in Links |-> <<>>] /\ visiting' = [l \in Links |-> NoMessage]
      /\ UNCHANGED <<nodeKnown, outages, closes>>
  BY DEF Reload
<1>5. stops' \in 0..MaxStops
  BY <1>4, SendAssumption DEF IInv, RestTyped
<1>6. events' \in Seq([name : {"established", "close"}, of : Links, up : BOOLEAN])
      /\ flush' \in [Links -> Seq(Messages)]
  BY <1>4
<1> QED  BY <1>3, <1>4, <1>5, <1>6 DEF IInv, RestTyped

-----------------------------------------------------------------------------
(* The theorems.                                                           *)

\* No message has gone at first.
LEMMA InitFine == Init => IInv
<1> SUFFICES ASSUME Init PROVE IInv
  OBVIOUS
<1>1. ASSUME NEW m \in Messages PROVE Fine(msg[m])
  <2>1. PICK k \in Kinds : msg[m] = Fresh(k)
    BY DEF Init
  <2> QED  BY <2>1 DEF Fresh, Fine, Records, Statuses, CopyOK, SettledOK, Settled, IsQueued, IsParked, Begun
<1>2. msg \in [Messages -> Records]
  BY <1>1 DEF Init, Fine
<1>3. RestTyped
  <2>1. {rns, initialized, down, nodeKnown, reopen} \subseteq BOOLEAN
    BY DEF Init
  <2>2. /\ warming \in [0..MaxStops -> SUBSET Messages]
        /\ link \in [Links -> {"none", "pending", "active", "stale", "closed"}]
        /\ visiting \in [Links -> Messages \cup {NoMessage}]
        /\ {propLink, promise} \subseteq Links \cup {NoLink}
    BY DEF Init
  <2>3. /\ events \in Seq([name : {"established", "close"}, of : Links, up : BOOLEAN])
        /\ flush \in [Links -> Seq(Messages)]
    BY DEF Init
  <2>4. stops \in 0..MaxStops /\ outages \in 0..MaxOutages /\ closes \in 0..MaxCloses
    BY SendAssumption DEF Init
  <2> QED  BY <2>1, <2>2, <2>3, <2>4 DEF RestTyped
<1> QED  BY <1>1, <1>2, <1>3 DEF IInv

\* Every step takes every message on as it may, and the rest keeps its types.
LEMMA StepGoes ==
  ASSUME IInv, [Next]_vars
  PROVE  Advance /\ RestTyped'
<1>1. ASSUME NEW m \in Messages, MessageNext(m) PROVE Advance /\ RestTyped'
  BY <1>1, SendGoes, FallbackGoes, MinedGoes, CopyProvedGoes, CopyFailsGoes, PeerLinkedGoes,
     DirectProvedGoes, DirectFailsGoes, PacketLostGoes, CeilingGoes DEF MessageNext
<1>2. ASSUME NEW l \in Links, LinkNext(l) PROVE Advance /\ RestTyped'
  BY <1>2, LinkMoves, EstablishedGoes, LinkGoneGoes, FlushStepGoes DEF LinkNext
<1>3. ASSUME NEW c \in 0..MaxStops, Warmed(c) PROVE Advance /\ RestTyped'
  BY <1>3, WarmedGoes
<1>4. CASE UNCHANGED vars
  BY <1>4, NoneMoves, OnlyMessages DEF vars
<1> QED  BY <1>1, <1>2, <1>3, <1>4, RedriveGoes, RegisteredGoes, ConnectionGoes,
            DisconnectGoes, ReloadGoes DEF Next

\* What every step keeps.
LEMMA StepFine ==
  ASSUME IInv, [Next]_vars
  PROVE  IInv'
BY StepGoes DEF Advance, Goes, IInv

\* The inductive invariant of a send, for any number of messages and links.
THEOREM Invariance == Spec => []IInv
<1>1. Init => IInv
  BY InitFine
<1>2. IInv /\ [Next]_vars => IInv'
  BY StepFine
<1> QED  BY <1>1, <1>2, PTL DEF Spec

\* The node gets the copy of a message once: not from overlapping flushes, the
\* fallback and a direct failure, nor after a reload (_propagateMessage,
\* _flushPropagation).
THEOREM OneCopy == Spec => []CopySound
<1>1. IInv => CopySound
  <2> SUFFICES ASSUME IInv PROVE CopySound
    OBVIOUS
  <2>1. OneUpload
    BY DEF IInv, Fine, CopyOK, OneUpload
  <2>2. TypeOK
    BY DEF IInv, RestTyped, Fine, SettledOK, TypeOK, Records
  <2> QED  BY <2>1, <2>2 DEF CopySound
<1> QED  BY <1>1, Invariance, PTL

\* A copy goes only for a message the user still sees being sent (D3: a failed
\* send is dead).
THEOREM NoneAfterOutcome == Spec => NoCopyAfterOutcome
<1>1. IInv /\ [Next]_vars =>
        [\A m \in Messages : msg'[m].uploads > msg[m].uploads => msg[m].status = "sending"]_vars
  BY StepGoes DEF Advance, Goes
<1> QED  BY <1>1, Invariance, PTL DEF Spec, NoCopyAfterOutcome

\* A delivery the user was shown is never taken back, and a message that failed
\* is never sending or queued again.
THEOREM NothingTakenBack == Spec => OutcomeStands
<1>1. IInv /\ [Next]_vars =>
        [\A m \in Messages :
           LET was == msg[m].status
               is == msg'[m].status IN
           /\ was = "proved" => is = "proved"
           /\ was = "propagated" => is \in {"propagated", "proved"}
           /\ was = "failed" => is \in {"failed", "propagated", "proved"}]_vars
  BY StepGoes DEF Advance, Goes, Stands
<1> QED  BY <1>1, Invariance, PTL DEF Spec, OutcomeStands
=============================================================================
