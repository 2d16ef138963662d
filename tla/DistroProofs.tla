--------------------------- MODULE DistroProofs ---------------------------
(***************************************************************************)
(* Proofs about the distro: of DistroOutbox, that an entry is uploaded     *)
(* once at a time and owed exactly as long as it should be, for any        *)
(* distros, number of acts, links and events; of DistroMail, further down, *)
(* that a device files each message once and pulls before it subscribes,   *)
(* for any devices and whatever RFed fans out.                             *)
(***************************************************************************)
EXTENDS DistroOutbox, DistroMail, FiniteSetTheorems, SequenceTheorems, WellFoundedInduction, TLAPS

-----------------------------------------------------------------------------
(* The inductive invariant.                                                *)

\* The attempts at a message: those in flight, and the passes that build it.
Of(m) == {f \in flights : f.msg = m}
Doing(m) == {p \in passes : p.building = m}

\* A message is not under way, or it is open on one link, or being built once
\* for the link at hand: by itself, or for a pass that found no failure.
Live == prop \in Links /\ status[prop] \in {"active", "stale"}
Idling(m) == /\ Of(m) = {} /\ Doing(m) = {}
             /\ \A k \in Links : open[<<m, k>>] = 0 /\ builds[<<m, k>>] = 0
Away(m) == /\ Doing(m) = {} /\ \A k \in Links : builds[<<m, k>>] = 0
           /\ \E l \in Links : /\ Of(m) = {[Flight(m, l) EXCEPT !.left = TRUE]}
                               /\ \A k \in Links : open[<<m, k>>] = IF k = l THEN 1 ELSE 0
Loose(m) == /\ Live /\ Of(m) = {Flight(m, prop)} /\ Doing(m) = {}
            /\ \A k \in Links : open[<<m, k>>] = 0 /\ builds[<<m, k>>] = IF k = prop THEN 1 ELSE 0
Passing(m) == /\ Live /\ Of(m) = {Flight(m, prop)}
              /\ \A k \in Links : open[<<m, k>>] = 0 /\ builds[<<m, k>>] = 0
              /\ \E p \in passes : /\ Doing(m) = {p} /\ p.link = prop
                                   /\ p.at > 0 => unproved[m] < p.at
OneAttempt == \A m \in Listed : Idling(m) \/ Away(m) \/ Loose(m) \/ Passing(m)

\* What is owed: one membership, the device's distro's, nothing lapsed or
\* proved, and nothing that storage has only.
OwedApart ==
  /\ store \subseteq Listed /\ Listed \subseteq DOMAIN acts
  /\ \A m, n \in Listed \cap Membership : m = n
  /\ \A m \in Listed \cap Membership : acts[m].distro = distro
  /\ Listed \cap (lapsed \cup proved) = {}
  /\ neverLeft \subseteq Listed

\* Nothing is known of a message before its act.
Unknown ==
  \A m \in Messages \ DOMAIN acts : Idling(m) /\ m \notin lapsed \cup proved \cup spent \cup late

\* One link is coming up at most, and a link whose close is to be heard is over.
Linked ==
  /\ \A l \in Links : status[l] = "pending" => prop = l
  /\ \A i \in DOMAIN news :
       /\ news[i].what = "established" => prop \in {news[i].link, NoLink}
       /\ news[i].what = "close" => status[news[i].link] \in {"closed", "failed"}

\* What failed or never left is not under way, and no pass of this coming-up
\* takes a failed one again.
Failed ==
  /\ \A m \in Listed \cap spent : Idling(m) /\ m \notin neverLeft
  /\ \A m \in neverLeft : Idling(m)
  /\ \A p \in passes :
       /\ p.at <= ups
       /\ p.at > 0 => \/ p.building = NoMessage /\ ~LinkReady(p.link)
                      \/ \A m \in Listed \cap spent : unproved[m] >= p.at

\* On a link that is up, with its events heard, each entry is under way, or
\* failed at this coming-up, or a pass or the exchange's return will take it.
Attended(m) ==
  \/ \E l \in Links : open[<<m, l>>] > 0 \/ builds[<<m, l>>] > 0
  \/ Doing(m) # {}
  \/ unproved[m] >= ups
  \/ \E p \in passes : p.link = prop /\ p.at = ups /\ m \in p.todo
  \/ m \in neverLeft /\ (down \/ \E p \in passes : p.link = prop /\ p.at = 0 /\ m \in p.todo)
Covered == Up /\ Quiet(prop) => \A m \in Listed : Attended(m)

IInv == /\ TypeOK /\ OwedApart /\ Unknown /\ Linked
        /\ OneAttempt /\ OneInFlight /\ Failed /\ Covered

-----------------------------------------------------------------------------
(* What the types say.                                                     *)

Flying == [msg : Messages, link : Links, left : BOOLEAN]

\* Messages, links, and what is kept of each.
LEMMA Basics ==
  ASSUME TypeOK
  PROVE  /\ Messages \subseteq Nat /\ NoMessage \notin Messages
         /\ Links \subseteq Nat /\ NoLink \notin Links
         /\ Listed \subseteq Messages /\ flights \subseteq Flying /\ passes \subseteq Pass
         /\ Len(acts) \in Nat /\ DOMAIN acts = 1..Len(acts) /\ DOMAIN acts \subseteq Messages
         /\ Membership \subseteq DOMAIN acts
         /\ \A m \in Messages, k \in Links :
              <<m, k>> \in Uploads /\ open[<<m, k>>] \in Nat /\ builds[<<m, k>>] \in Nat
         /\ \A u \in Uploads : u[1] \in Messages /\ u[2] \in Links /\ u = <<u[1], u[2]>>
         /\ unproved \in [Messages -> Nat] /\ ups \in Nat
<1>1. MaxActs \in Nat /\ MaxLinks \in Nat \ {0}
  BY OutboxAssumption
<1>2. /\ Messages \subseteq Nat /\ NoMessage \notin Messages
      /\ Links \subseteq Nat /\ NoLink \notin Links
  BY <1>1 DEF Messages, Links, NoMessage, NoLink
<1>3. Listed \subseteq Messages /\ flights \subseteq Flying /\ passes \subseteq Pass
  BY DEF TypeOK, Listed, Flying
<1>4. Len(acts) \in Nat /\ DOMAIN acts = 1..Len(acts) /\ DOMAIN acts \subseteq Messages
  BY <1>1 DEF TypeOK, Messages
<1>5. Membership \subseteq DOMAIN acts
  BY DEF Membership
<1>6. \A m \in Messages, k \in Links : <<m, k>> \in Uploads
  BY DEF Uploads
<1>7. \A u \in Uploads : u[1] \in Messages /\ u[2] \in Links /\ u = <<u[1], u[2]>>
  BY DEF Uploads
<1>8. \A u \in Uploads : open[u] \in Nat /\ builds[u] \in Nat
  BY DEF TypeOK
<1>9. unproved \in [Messages -> Nat] /\ ups \in Nat
  BY DEF TypeOK
<1> QED  BY <1>2, <1>3, <1>4, <1>5, <1>6, <1>7, <1>8, <1>9

-----------------------------------------------------------------------------
(* The outbox.                                                             *)

OutboxTyped == store \subseteq Messages /\ holding \in BOOLEAN /\ held \subseteq Messages /\ refusals \in Nat

\* Write: what is owed is the rows, whether storage keeps them or refuses, and
\* storage keeps no other.
LEMMA Writes ==
  ASSUME OutboxTyped, NEW rows \in SUBSET Messages, Write(rows)
  PROVE  OutboxTyped' /\ Listed' = rows /\ store' \subseteq Listed'
<1>1. CASE store' = rows /\ holding' = FALSE /\ held' = {} /\ refusals' = refusals
  BY <1>1 DEF OutboxTyped, Listed
<1>2. CASE refusals' = refusals + 1 /\ store' = Kept(rows) /\ holding' = TRUE /\ held' = rows
  BY <1>2 DEF OutboxTyped, Listed, Kept
<1> QED  BY <1>1, <1>2 DEF Write

\* Drop: what is owed is the rest.
LEMMA Drops ==
  ASSUME OutboxTyped, store \subseteq Listed, NEW gone, Drop(gone)
  PROVE  OutboxTyped' /\ Listed' = Listed \ gone /\ store' \subseteq Listed'
<1>1. CASE gone \cap Listed = {} /\ UNCHANGED outbox
  BY <1>1 DEF OutboxTyped, Listed, outbox
<1>2. CASE Write(Listed \ gone)
  <2>1. Listed \ gone \in SUBSET Messages
    BY DEF OutboxTyped, Listed
  <2> QED  BY <1>2, <2>1, Writes
<1> QED  BY <1>1, <1>2 DEF Drop

\* Nothing is written.
LEMMA OutboxSame ==
  ASSUME UNCHANGED outbox
  PROVE  Listed' = Listed /\ (OutboxTyped => OutboxTyped') /\ (store \subseteq Listed => store' \subseteq Listed')
BY DEF outbox, Listed, OutboxTyped

\* A membership owed is of the distro held: nothing is owed to others.
LEMMA NoneToOthers ==
  ASSUME TypeOK, OwedApart
  PROVE  /\ OwedToOthers(distro) = {}
         /\ \A m \in Messages : StillOwed(m) <=> m \in Listed
         /\ OutboxTyped
BY DEF OwedApart, OwedToOthers, StillOwed, OutboxTyped, TypeOK

\* Entries with the same id are the same, while owed.
LEMMA OneId ==
  ASSUME OwedApart, TypeOK, NEW m \in Listed, NEW n \in Listed \cup (Messages \ DOMAIN acts), n # m
  PROVE  ~SameId(n, m) /\ ~SameId(m, n)
<1>1. CASE n \in Listed
  BY <1>1 DEF OwedApart, SameId
<1>2. CASE n \notin DOMAIN acts
  BY <1>2 DEF SameId, Membership
<1> QED  BY <1>1, <1>2

\* Forgetting changes only what is forgotten.
LEMMA Forgets ==
  ASSUME unproved \in [Messages -> Nat], NEW gone, ForgetUploads(gone)
  PROVE  /\ unproved' \in [Messages -> Nat] /\ neverLeft' = neverLeft \ gone
         /\ \A m \in Messages \ gone : unproved'[m] = unproved[m]
BY DEF ForgetUploads

\* A failure is recorded at the present coming-up.
LEMMA UnprovedIs ==
  ASSUME unproved \in [Messages -> Nat], ups \in Nat, NEW msgs, Unproved(msgs)
  PROVE  /\ unproved' \in [Messages -> Nat]
         /\ \A m \in Messages : unproved'[m] = IF m \in msgs \cap Listed THEN ups ELSE unproved[m]
BY DEF Unproved

\* One more, and one less, of a count.
LEMMA Counts ==
  ASSUME NEW c \in [Uploads -> Nat], NEW u \in Uploads
  PROVE  /\ [c EXCEPT ![u] = @ + 1] \in [Uploads -> Nat]
         /\ c[u] > 0 => [c EXCEPT ![u] = @ - 1] \in [Uploads -> Nat]
OBVIOUS

-----------------------------------------------------------------------------
(* Flights.                                                                *)

\* A flight is what its fields say.
LEMMA FlightIs ==
  ASSUME NEW f \in Flying
  PROVE  /\ f = [msg |-> f.msg, link |-> f.link, left |-> f.left]
         /\ ~f.left => f = Flight(f.msg, f.link)
BY DEF Flying, Flight

\* An attempt is over: its flight has landed, and no other.
LEMMA Lands ==
  ASSUME NEW m, NEW l, flights' = Landed(flights, {<<m, l>>})
  PROVE  /\ \A n : n # m => Of(n)' = Of(n)
         /\ Of(m)' = {f \in Of(m) : f.link # l}
BY DEF Landed, Of

\* An upload goes: its flight has left, and no other changes.
LEMMA LeavesFlight ==
  ASSUME flights \subseteq Flying, NEW m \in Messages, NEW l \in Links,
         flights' = {[f EXCEPT !.left = @ \/ <<f.msg, f.link>> = <<m, l>>] : f \in flights}
  PROVE  /\ \A n : n # m => Of(n)' = Of(n)
         /\ Of(m) = {Flight(m, l)} => Of(m)' = {[Flight(m, l) EXCEPT !.left = TRUE]}
         /\ flights' \subseteq Flying
<1> DEFINE g(f) == [f EXCEPT !.left = @ \/ <<f.msg, f.link>> = <<m, l>>]
<1>1. ASSUME NEW f \in Flying
      PROVE  /\ g(f) \in Flying /\ g(f).msg = f.msg
             /\ f.msg # m => g(f) = f
             /\ f = Flight(m, l) => g(f) = [Flight(m, l) EXCEPT !.left = TRUE]
  <2>1. g(f) \in Flying /\ g(f).msg = f.msg
    BY DEF Flying
  <2>2. ASSUME f.msg # m PROVE g(f) = f
    <3>1. (f.left \/ <<f.msg, f.link>> = <<m, l>>) = f.left
      BY <2>2 DEF Flying
    <3>2. g(f) = [f EXCEPT !.left = f.left]
      BY <3>1, Zenon
    <3> QED  BY <3>2 DEF Flying
  <2>3. ASSUME f = Flight(m, l) PROVE g(f) = [Flight(m, l) EXCEPT !.left = TRUE]
    BY <2>3 DEF Flight
  <2> QED  BY <2>1, <2>2, <2>3
<1>2. flights' = {g(f) : f \in flights}
  OBVIOUS
<1> HIDE DEF g
<1>3. flights' \subseteq Flying
  BY <1>1, <1>2
<1>4. ASSUME NEW n, n # m PROVE Of(n)' = Of(n)
  <2>1. Of(n)' = {f \in flights' : f.msg = n}
    BY DEF Of
  <2>2. ASSUME NEW h \in Of(n)' PROVE h \in Of(n)
    <3>1. PICK f \in flights : h = g(f)
      BY <1>2, <2>1
    <3> QED  BY <1>1, <1>4, <2>1, <3>1 DEF Of
  <2>3. ASSUME NEW h \in Of(n) PROVE h \in Of(n)'
    <3>1. h \in flights /\ h.msg = n /\ g(h) = h
      BY <1>1, <1>4 DEF Of
    <3> QED  BY <1>2, <2>1, <3>1
  <2> QED  BY <2>2, <2>3
<1>5. ASSUME Of(m) = {Flight(m, l)} PROVE Of(m)' = {[Flight(m, l) EXCEPT !.left = TRUE]}
  <2> DEFINE x == Flight(m, l)
             y == [Flight(m, l) EXCEPT !.left = TRUE]
  <2>0. x \in flights /\ x.msg = m /\ \A f \in flights : f.msg = m => f = x
    BY <1>5 DEF Of
  <2>1. Of(m)' = {f \in flights' : f.msg = m}
    BY DEF Of
  <2>2. g(x) = y /\ g(x).msg = m
    BY <1>1, <2>0
  <2> HIDE DEF x, y
  <2>3. ASSUME NEW h \in Of(m)' PROVE h = y
    <3>1. PICK f \in flights : h = g(f)
      BY <1>2, <2>1
    <3>2. f.msg = m
      BY <1>1, <2>1, <3>1
    <3> QED  BY <2>0, <2>2, <3>1, <3>2
  <2>4. y \in Of(m)'
    BY <1>2, <2>0, <2>1, <2>2
  <2> QED  BY <2>3, <2>4 DEF y
<1> QED  BY <1>3, <1>4, <1>5

-----------------------------------------------------------------------------
(* What a step leaves of the attempts at a message.                        *)

\* A step that has nothing to do with m.
Untouched(m) ==
  /\ Of(m)' = Of(m) /\ Doing(m)' = Doing(m) /\ unproved'[m] = unproved[m]
  /\ \A k \in Links : open'[<<m, k>>] = open[<<m, k>>] /\ builds'[<<m, k>>] = builds[<<m, k>>]

\* The link that builds are for is still at hand.
StillLive == Live => Live' /\ prop' = prop

Attempt(m) == Idling(m) \/ Away(m) \/ Loose(m) \/ Passing(m)

\* It is under way as before.
LEMMA Stays ==
  ASSUME NEW m \in Messages, Untouched(m)
  PROVE  (Idling(m) => Idling(m)') /\ (StillLive /\ Attempt(m) => Attempt(m)')
<1>1. ASSUME Idling(m) PROVE Idling(m)'
  BY <1>1 DEF Idling, Untouched
<1>2. ASSUME Away(m) PROVE Away(m)'
  BY <1>2 DEF Away, Untouched, Flight
<1>3. ASSUME StillLive, Loose(m) PROVE Loose(m)'
  BY <1>3 DEF Loose, Untouched, StillLive, Flight
<1>4. ASSUME StillLive, Passing(m) PROVE Passing(m)'
  <2>1. PICK p \in passes : Doing(m) = {p} /\ p.link = prop /\ (p.at > 0 => unproved[m] < p.at)
    BY <1>4 DEF Passing
  <2>2. Doing(m)' = {p} /\ p \in passes'
    BY <2>1 DEF Untouched, Doing
  <2>3. /\ Live' /\ Of(m)' = {Flight(m, prop')} /\ prop' = prop
        /\ \A k \in Links : open'[<<m, k>>] = 0 /\ builds'[<<m, k>>] = 0
        /\ p.at > 0 => unproved'[m] < p.at
    BY <1>4, <2>1 DEF Passing, Untouched, StillLive, Flight
  <2> QED  BY <2>1, <2>2, <2>3 DEF Passing, Flight
<1> QED  BY <1>1, <1>2, <1>3, <1>4 DEF Attempt

\* A step that touches the attempts at some messages only, and owes none but
\* these anew.
Confined(A) ==
  /\ A \subseteq DOMAIN acts' /\ DOMAIN acts \subseteq DOMAIN acts' /\ DOMAIN acts' \subseteq Messages
  /\ StillLive \/ DOMAIN acts \subseteq A
  /\ Listed' \subseteq Listed \cup A
  /\ spent' \subseteq spent \cup A /\ neverLeft' \subseteq (neverLeft \cup A) \cap Listed'
  /\ unproved' \in [Messages -> Nat]
  /\ \A m \in ((Listed \cap Listed') \cup (Messages \ DOMAIN acts)) \ A : Untouched(m)
  /\ \A m \in Messages \ DOMAIN acts' : m \notin lapsed' \cup proved' \cup late'

\* Those it touches are alone, or under way but neither failed nor kept.
Well(m) ==
  /\ Attempt(m)' /\ (m \in spent' \cup neverLeft' => Idling(m)')
  /\ ~(m \in spent' /\ m \in neverLeft')
  /\ m \in spent' => \/ unproved'[m] >= ups
                     \/ m \in spent /\ m \in Listed /\ unproved'[m] = unproved[m]

\* The passes are those there were, or new ones that take nothing failed.
Timely ==
  /\ passes' = {} \/ (ups' \in Nat /\ ups' >= ups)
  /\ \A p \in passes' :
       \/ p.at = 0
       \/ p.at <= ups' /\ (spent' = {} \/ (p.building = NoMessage /\ ~LinkReady(p.link)'))
       \/ \E q \in passes : q.at = p.at /\ (q.building # NoMessage \/ LinkReady(q.link))

\* What attends to m does so still, if m is untouched.
Keeps(m) ==
  /\ m \in neverLeft => m \in neverLeft'
  /\ down => down'
  /\ \A p \in passes : p.link = prop /\ m \in p.todo =>
       \E q \in passes' : q.link = p.link /\ q.at = p.at /\ m \in q.todo

\* The step brings the link up, or leaves what attends to each entry.
Covers(A) ==
  Up' /\ Quiet(prop)' =>
    \/ \A m \in Listed' : Attended(m)'
    \/ /\ Up /\ Quiet(prop) /\ prop' = prop /\ ups' = ups
       /\ \A m \in (Listed \cap Listed') \ A : Keeps(m)
       /\ \A m \in A \cap Listed' : Attended(m)'

\* An entry untouched is attended to as before.
LEMMA AttendedStill ==
  ASSUME NEW m, Attended(m), Untouched(m), Keeps(m), prop' = prop, ups' = ups
  PROVE  Attended(m)'
<1>1. CASE \E l \in Links : open[<<m, l>>] > 0 \/ builds[<<m, l>>] > 0
  BY <1>1 DEF Attended, Untouched
<1>2. CASE Doing(m) # {}
  BY <1>2 DEF Attended, Untouched
<1>3. CASE unproved[m] >= ups
  BY <1>3 DEF Attended, Untouched
<1>4. CASE \E p \in passes : p.link = prop /\ p.at = ups /\ m \in p.todo
  BY <1>4 DEF Attended, Keeps
<1>5. CASE m \in neverLeft /\ (down \/ \E p \in passes : p.link = prop /\ p.at = 0 /\ m \in p.todo)
  BY <1>5 DEF Attended, Keeps
<1> QED  BY <1>1, <1>2, <1>3, <1>4, <1>5 DEF Attended

\* What such a step leaves of the invariant.
LEMMA TaskFrame ==
  ASSUME IInv, NEW A, Confined(A), \A m \in A \cap Listed' : Well(m), Timely, Covers(A),
         Listed' \subseteq DOMAIN acts'
  PROVE  OneAttempt' /\ Unknown' /\ Failed' /\ Covered'
<1>0. /\ Listed \subseteq DOMAIN acts /\ passes \subseteq Pass /\ DOMAIN acts \subseteq Messages /\ ups \in Nat
      /\ unproved \in [Messages -> Nat]
  BY Basics DEF IInv, OwedApart
<1>1. ASSUME NEW m \in Listed' PROVE Attempt(m)'
  <2>1. CASE m \in A
    BY <1>1, <2>1 DEF Well
  <2>2. CASE m \notin A
    <3>1. m \in Listed /\ Untouched(m) /\ StillLive /\ m \in Messages
      BY <1>0, <1>1, <2>2 DEF Confined
    <3>2. Attempt(m)
      BY <3>1 DEF IInv, OneAttempt, Attempt
    <3> QED  BY <3>1, <3>2, Stays
  <2> QED  BY <2>1, <2>2
<1>2. ASSUME NEW m \in Messages \ DOMAIN acts'
      PROVE  Idling(m)' /\ m \notin lapsed' \cup proved' \cup spent' \cup late'
  <2>1. m \notin DOMAIN acts /\ m \notin A /\ Untouched(m)
    BY <1>2 DEF Confined
  <2>2. Idling(m) /\ m \notin spent
    BY <2>1, <1>2 DEF IInv, Unknown
  <2> QED  BY <1>2, <2>1, <2>2, Stays DEF Confined
<1>3. ASSUME NEW m \in Listed', m \in spent' PROVE Idling(m)' /\ m \notin neverLeft'
  <2>1. CASE m \in A
    BY <1>3, <2>1 DEF Well
  <2>2. CASE m \notin A
    <3>1. m \in Listed /\ Untouched(m) /\ m \in spent /\ m \in Messages
      BY <1>0, <1>3, <2>2 DEF Confined
    <3>2. Idling(m) /\ m \notin neverLeft
      BY <3>1 DEF IInv, Failed
    <3> QED  BY <2>2, <3>1, <3>2, Stays DEF Confined
  <2> QED  BY <2>1, <2>2
<1>4. ASSUME NEW m \in neverLeft' PROVE Idling(m)'
  <2>0. m \in Listed'
    BY <1>4 DEF Confined
  <2>1. CASE m \in A
    BY <1>4, <2>0, <2>1 DEF Well
  <2>2. CASE m \notin A
    <3>1. m \in Listed /\ Untouched(m) /\ m \in neverLeft /\ m \in Messages
      BY <1>0, <1>4, <2>0, <2>2 DEF Confined
    <3>2. Idling(m)
      BY <3>1 DEF IInv, Failed
    <3> QED  BY <3>1, <3>2, Stays
  <2> QED  BY <2>1, <2>2
<1>5. ASSUME NEW p \in passes'
      PROVE  /\ p.at <= ups'
             /\ p.at > 0 => \/ p.building = NoMessage /\ ~LinkReady(p.link)'
                            \/ \A m \in Listed' \cap spent' : unproved'[m] >= p.at
  <2>0. ups' \in Nat /\ ups' >= ups
    BY <1>5 DEF Timely
  <2>1. CASE p.at = 0
    BY <2>0, <2>1
  <2>2. CASE p.at <= ups' /\ (spent' = {} \/ (p.building = NoMessage /\ ~LinkReady(p.link)'))
    BY <2>2
  <2>3. CASE \E q \in passes : q.at = p.at /\ (q.building # NoMessage \/ LinkReady(q.link))
    <3>1. PICK q \in passes : q.at = p.at /\ (q.building # NoMessage \/ LinkReady(q.link))
      BY <2>3
    <3>2. /\ q.at \in Nat /\ q.at <= ups
          /\ q.at > 0 => \A m \in Listed \cap spent : unproved[m] >= q.at
      BY <1>0, <3>1 DEF Pass, IInv, Failed
    <3>3. ASSUME NEW m \in Listed' \cap spent', p.at > 0 PROVE unproved'[m] >= p.at
      <4>0. m \in Messages /\ unproved'[m] \in Nat
        BY <3>3 DEF Confined
      <4>1. CASE m \in A
        <5>1. unproved'[m] >= ups \/ (m \in spent /\ m \in Listed /\ unproved'[m] = unproved[m])
          BY <3>3, <4>1 DEF Well
        <5> QED  BY <1>0, <3>1, <3>2, <3>3, <4>0, <5>1
      <4>2. CASE m \notin A
        <5>1. m \in spent /\ unproved'[m] = unproved[m] /\ m \in Listed
          BY <1>0, <3>3, <4>2 DEF Untouched, Confined
        <5> QED  BY <3>1, <3>2, <3>3, <5>1
      <4> QED  BY <4>1, <4>2
    <3> QED  BY <1>0, <2>0, <3>1, <3>2, <3>3
  <2> QED  BY <1>5, <2>1, <2>2, <2>3 DEF Timely
<1>6. Covered'
  <2>1. ASSUME Up, Quiet(prop), prop' = prop, ups' = ups,
               \A m \in (Listed \cap Listed') \ A : Keeps(m), NEW m \in Listed' \ A
        PROVE  Attended(m)'
    <3>1. m \in Listed /\ Untouched(m) /\ Keeps(m)
      BY <2>1 DEF Confined
    <3>2. Attended(m)
      BY <2>1, <3>1 DEF IInv, Covered
    <3> QED  BY <2>1, <3>1, <3>2, AttendedStill
  <2>2. ASSUME Up', Quiet(prop)', NEW m \in Listed' PROVE Attended(m)'
    BY <2>1, <2>2 DEF Covers
  <2> QED  BY <2>2 DEF Covered
<1> QED  BY <1>1, <1>2, <1>3, <1>4, <1>5, <1>6 DEF OneAttempt, Unknown, Failed, Attempt, LinkReady

-----------------------------------------------------------------------------
(* One lemma per action: the types, what is owed, and the link.            *)

Base == TypeOK /\ OwedApart /\ Linked

\* A link that has not changed.
LEMMA LinkedSame ==
  ASSUME Linked, UNCHANGED link
  PROVE  Linked'
BY DEF Linked, link

\* What is owed only becomes less.
LEMMA OwesLess ==
  ASSUME OwedApart, acts' = acts, distro' = distro, Listed' \subseteq Listed, store' \subseteq Listed',
         Listed' \cap (lapsed' \cup proved') = {}, neverLeft' \subseteq Listed'
  PROVE  OwedApart'
BY DEF OwedApart, Membership

\* What is owed has not changed.
LEMMA OwesSame ==
  ASSUME OwedApart, UNCHANGED <<outbox, acts, distro, lapsed, proved>>, neverLeft' \subseteq Listed
  PROVE  OwedApart' /\ Listed' = Listed
<1>1. Listed' = Listed /\ store' \subseteq Listed'
  BY OutboxSame DEF OwedApart
<1> QED  BY <1>1, OwesLess DEF OwedApart

\* What a build's end changes.
LEMMA BuiltBase ==
  ASSUME TypeOK, OwedApart, NEW m \in Messages, NEW l \in Links, NEW at, Built(m, l, at)
  PROVE  /\ flights' \subseteq Flying /\ open' \in [Uploads -> Nat] /\ unproved' \in [Messages -> Nat]
         /\ did' \in Nat /\ spent' \subseteq Messages /\ neverLeft' = neverLeft
<1>0. flights \subseteq Flying /\ did \in Nat /\ open \in [Uploads -> Nat] /\ spent \subseteq Messages
  BY Basics DEF TypeOK
<1>1. CASE flights' = Landed(flights, {<<m, l>>}) /\ UNCHANGED <<open, records, did, spent>>
  BY <1>0, <1>1, Basics DEF Landed, records
<1>2. CASE UploadForDistro(m, l)
  <2>1. flights' \subseteq Flying
    BY <1>0, <1>2, LeavesFlight DEF UploadForDistro
  <2>2. open' \in [Uploads -> Nat]
    BY <1>0, <1>2, Basics, Counts DEF UploadForDistro
  <2> QED  BY <1>0, <1>2, <2>1, <2>2, Basics DEF UploadForDistro, records
<1>3. CASE BuildThrew(m, l)
  <2>1. flights' \subseteq Flying /\ did' \in Nat /\ UNCHANGED <<open, neverLeft>>
    BY <1>0, <1>3 DEF BuildThrew, Landed, Counted
  <2>2. unproved' \in [Messages -> Nat]
    BY <1>3, Basics, UnprovedIs DEF BuildThrew
  <2>3. spent' \subseteq Messages
    BY <1>0, <1>3 DEF BuildThrew, Flying
  <2> QED  BY <1>0, <2>1, <2>2, <2>3
<1> QED  BY <1>1, <1>2, <1>3 DEF Built

\* What goes on is owed, and the link at hand is up.
LEMMA GoesOnIs ==
  ASSUME TypeOK, OwedApart, NEW fs, NEW lost
  PROVE  /\ GoesOn(fs, lost) \subseteq Listed
         /\ GoesOn(fs, lost) # {} => Up /\ prop \in Links
         /\ \A m \in GoesOn(fs, lost) : \E l \in Links : <<m, l>> \in lost /\ prop # l
<1>1. ASSUME NEW m \in GoesOn(fs, lost)
      PROVE  m \in Listed /\ Up /\ \E l \in Links : <<m, l>> \in lost /\ prop # l
  BY NoneToOthers DEF GoesOn
<1>2. Up => prop \in Links
  BY DEF Up, TypeOK
<1> QED  BY <1>1, <1>2

\* What a decision as lost changes.
LEMMA LostBase ==
  ASSUME TypeOK, OwedApart, NEW lost \in SUBSET Uploads, DecidedLost(lost)
  PROVE  /\ flights' \subseteq Flying /\ builds' \in [Uploads -> Nat] /\ unproved' \in [Messages -> Nat]
         /\ spent' \subseteq Messages /\ neverLeft' \subseteq neverLeft
<1> DEFINE fs == Landed(flights, lost)
           msgs == {u[1] : u \in lost}
           on == GoesOn(fs, lost)
<1>1. /\ flights' = {f \in fs : \A m \in on : ~ SameId(f.msg, m)} \cup {Flight(m, prop) : m \in on}
      /\ builds' = [u \in Uploads |-> builds[u] + (IF u[1] \in on /\ u[2] = prop THEN 1 ELSE 0)]
      /\ Unproved(msgs) /\ neverLeft' = neverLeft \ on /\ spent' = (spent \cup msgs) \ on
  BY DEF DecidedLost
<1>2. on \subseteq Messages /\ (on # {} => prop \in Links)
  BY GoesOnIs, Basics
<1>3. fs \subseteq Flying
  BY Basics DEF Landed
<1>4. msgs \subseteq Messages
  BY Basics
<1> HIDE DEF fs, msgs, on
<1>5. flights' \subseteq Flying
  <2>1. ASSUME NEW m \in on PROVE Flight(m, prop) \in Flying
    BY <1>2 DEF Flight, Flying
  <2> QED  BY <1>1, <1>3, <2>1
<1>6. builds' \in [Uploads -> Nat]
  <2>1. builds \in [Uploads -> Nat]
    BY DEF TypeOK
  <2>2. ASSUME NEW u \in Uploads PROVE builds[u] + (IF u[1] \in on /\ u[2] = prop THEN 1 ELSE 0) \in Nat
    <3>1. builds[u] \in Nat
      BY <2>1
    <3> QED  BY <3>1
  <2> QED  BY <1>1, <2>2
<1>7. unproved' \in [Messages -> Nat]
  BY <1>1, Basics, UnprovedIs
<1> QED  BY <1>1, <1>4, <1>5, <1>6, <1>7 DEF TypeOK

\* The user's act.
LEMMA OweBase ==
  ASSUME IInv, NEW kind \in Kinds, Owe(kind)
  PROVE  /\ Base' /\ Len(acts) + 1 \in Messages \ DOMAIN acts
         /\ Listed' = (Listed \ (IF kind = "channel" THEN Membership ELSE {})) \cup {Len(acts) + 1}
         /\ DOMAIN acts' = DOMAIN acts \cup {Len(acts) + 1}
<1> DEFINE m == Len(acts) + 1
           replaced == IF kind = "channel" THEN Listed \cap Membership ELSE {}
           same == IF kind = "channel" THEN Membership ELSE {}
<1>0. TypeOK /\ OwedApart /\ Linked /\ OutboxTyped
  BY NoneToOthers DEF IInv
<1>1. /\ distro # NoDistro /\ m \in Messages
      /\ acts' = Append(acts, [kind |-> kind, distro |-> distro])
      /\ Write((Listed \ replaced) \cup {m})
      /\ ForgetUploads(replaced)
      /\ lapsed' = lapsed \cup same
      /\ IF Up
           THEN /\ flights' = {f \in flights : f.msg \notin same} \cup {Flight(m, prop)}
                /\ builds' = [builds EXCEPT ![<<m, prop>>] = @ + 1]
           ELSE UNCHANGED <<flights, builds>>
      /\ UNCHANGED <<distro, ups, link, down, passes, open, late, did, proved, spent>>
  BY DEF Owe
<1>2. [kind |-> kind, distro |-> distro] \in Act
  BY <1>0, <1>1 DEF TypeOK, Act
<1>3. /\ acts' \in Seq(Act) /\ Len(acts') = m /\ DOMAIN acts' = DOMAIN acts \cup {m}
      /\ m \notin DOMAIN acts /\ acts'[m] = [kind |-> kind, distro |-> distro]
      /\ \A n \in DOMAIN acts : acts'[n] = acts[n]
  <2>1. acts \in Seq(Act) /\ Len(acts) \in Nat
    BY <1>0 DEF TypeOK
  <2> QED  BY <1>1, <1>2, <2>1
<1>4. Len(acts') <= MaxActs
  BY <1>1, <1>3, OutboxAssumption DEF Messages
<1>5. (Listed \ replaced) \cup {m} \in SUBSET Messages
  BY <1>0, <1>1, Basics
<1>6. OutboxTyped' /\ Listed' = (Listed \ replaced) \cup {m} /\ store' \subseteq Listed'
  BY <1>0, <1>1, <1>5, Writes
<1>7. unproved' \in [Messages -> Nat] /\ neverLeft' = neverLeft \ replaced
  BY <1>0, <1>1, Basics, Forgets
<1>8. flights' \subseteq Flying /\ builds' \in [Uploads -> Nat]
  <2>1. CASE Up
    <3>1. prop \in Links /\ <<m, prop>> \in Uploads
      BY <1>0, <1>1, <2>1 DEF Up, TypeOK, Uploads
    <3>2. Flight(m, prop) \in Flying
      BY <1>1, <3>1 DEF Flight, Flying
    <3>3. flights' \subseteq Flying
      BY <1>0, <1>1, <2>1, <3>2, Basics
    <3>4. builds' = [builds EXCEPT ![<<m, prop>>] = @ + 1] /\ builds \in [Uploads -> Nat]
      BY <1>0, <1>1, <2>1 DEF TypeOK
    <3>5. builds' \in [Uploads -> Nat]
      BY <3>1, <3>4, Counts
    <3> QED  BY <3>3, <3>5
  <2>2. CASE ~Up
    BY <1>0, <1>1, <2>2, Basics DEF TypeOK
  <2> QED  BY <2>1, <2>2
<1>9. lapsed' \subseteq Messages
  BY <1>0, <1>1, Basics DEF TypeOK
<1> HIDE DEF m
<1>10. TypeOK'
  BY <1>0, <1>1, <1>3, <1>4, <1>6, <1>7, <1>8, <1>9 DEF TypeOK, OutboxTyped, link, Flying
<1>11. /\ Membership' = Membership \cup (IF kind = "channel" THEN {m} ELSE {})
       /\ m \notin Membership /\ m \notin Listed /\ Membership \subseteq DOMAIN acts
  BY <1>0, <1>3 DEF Membership, OwedApart
<1>12. Listed' = (Listed \ same) \cup {m}
  BY <1>6
<1>13. OwedApart'
  <2>1. Listed' \subseteq DOMAIN acts'
    BY <1>0, <1>3, <1>6 DEF OwedApart
  <2>2. ASSUME NEW x \in Listed' \cap Membership', NEW y \in Listed' \cap Membership' PROVE x = y
    BY <1>0, <1>11, <1>12 DEF OwedApart
  <2>3. ASSUME NEW x \in Listed' \cap Membership' PROVE acts'[x].distro = distro'
    <3>1. CASE x = m
      BY <1>1, <1>3, <3>1
    <3>2. CASE x # m
      <4>1. x \in Listed \cap Membership /\ x \in DOMAIN acts
        BY <1>11, <1>12, <3>2
      <4> QED  BY <1>0, <1>1, <1>3, <4>1 DEF OwedApart
    <3> QED  BY <3>1, <3>2
  <2>4. Listed' \cap (lapsed' \cup proved') = {}
    <3>1. m \notin lapsed \cup proved
      BY <1>1, <1>3 DEF IInv, Unknown
    <3> QED  BY <1>0, <1>1, <1>11, <1>12, <3>1 DEF OwedApart
  <2>5. neverLeft' \subseteq Listed'
    BY <1>0, <1>6, <1>7 DEF OwedApart
  <2> QED  BY <1>6, <2>1, <2>2, <2>3, <2>4, <2>5 DEF OwedApart
<1> QED  BY <1>0, <1>1, <1>3, <1>10, <1>12, <1>13, LinkedSame DEF Base, m

\* A new set of passes is one.
LEMMA GoingIs ==
  ASSUME NEW p \in Pass
  PROVE  Going(p) \subseteq {p} /\ Going(p) \subseteq Pass
BY DEF Going

\* A coming-up counted: nothing is owed to another distro, so nothing is dropped.
LEMMA ComingUpBase ==
  ASSUME TypeOK, OwedApart, NEW l \in Links, SendDistroOutbox(l)
  PROVE  /\ OutboxTyped' /\ Listed' = Listed /\ store' \subseteq Listed'
         /\ unproved' \in [Messages -> Nat] /\ neverLeft' = neverLeft /\ ups' = ups + 1
         /\ \A m \in Messages : unproved'[m] = unproved[m]
         /\ passes' = passes \cup Going([link |-> l, at |-> ups + 1, back |-> 0, todo |-> Listed,
                                         building |-> NoMessage])
         /\ passes' \subseteq Pass /\ spent' = (IF LinkReady(l) THEN {} ELSE spent)
<1>0. OwedToOthers(distro) = {} /\ OutboxTyped /\ store \subseteq Listed
  BY NoneToOthers DEF OwedApart
<1>1. /\ ups' = ups + 1 /\ Drop({}) /\ ForgetUploads({})
      /\ passes' = passes \cup Going([link |-> l, at |-> ups + 1, back |-> 0, todo |-> Listed \ {},
                                      building |-> NoMessage])
      /\ spent' = IF LinkReady(l) THEN {} ELSE spent
  BY <1>0 DEF SendDistroOutbox
<1>2. OutboxTyped' /\ Listed' = Listed \ {} /\ store' \subseteq Listed'
  BY <1>0, <1>1, Drops
<1>3. /\ unproved' \in [Messages -> Nat] /\ neverLeft' = neverLeft \ {}
      /\ \A m \in Messages \ {} : unproved'[m] = unproved[m]
  <2>1. unproved \in [Messages -> Nat]
    BY Basics
  <2> QED  BY <1>1, <2>1, Forgets
<1>4. Listed \ {} = Listed /\ neverLeft \ {} = neverLeft
  OBVIOUS
<1>5. [link |-> l, at |-> ups + 1, back |-> 0, todo |-> Listed, building |-> NoMessage] \in Pass
  BY Basics DEF Pass
<1>6. passes' \subseteq Pass
  BY <1>1, <1>4, <1>5, Basics, GoingIs
<1> QED  BY <1>1, <1>2, <1>3, <1>4, <1>6

\* The actions that leave what is owed, and the link, as they are.
LEMMA AttemptBase ==
  ASSUME IInv,
         \/ \E m \in Messages, l \in Links : LooseBuilt(m, l) \/ UploadLost(m, l) \/ UploadNeverLeft(m, l)
         \/ \E p \in passes : PassTurn(p) \/ PassBuilt(p)
         \/ ExchangeFails \/ ExchangeBack
  PROVE  Base' /\ Listed' = Listed
<1>0. TypeOK /\ OwedApart /\ Linked
  BY DEF IInv
<1> USE DEF outbox, records, link, attempts, history
<1>1. ASSUME NEW m \in Messages, NEW l \in Links, LooseBuilt(m, l) PROVE Base' /\ Listed' = Listed
  <2>1. /\ builds' = [builds EXCEPT ![<<m, l>>] = @ - 1] /\ builds[<<m, l>>] > 0 /\ Built(m, l, 0)
        /\ UNCHANGED <<outbox, acts, distro, ups, link, down, passes, late, proved, lapsed>>
    BY <1>1 DEF LooseBuilt
  <2>2. builds' \in [Uploads -> Nat]
    BY <1>0, <2>1, Basics, Counts DEF TypeOK
  <2>3. /\ flights' \subseteq Flying /\ open' \in [Uploads -> Nat] /\ unproved' \in [Messages -> Nat]
        /\ did' \in Nat /\ spent' \subseteq Messages /\ neverLeft' = neverLeft
    BY <1>0, <2>1, BuiltBase
  <2>4. TypeOK'
    BY <1>0, <2>1, <2>2, <2>3 DEF TypeOK, Flying
  <2> QED  BY <1>0, <2>1, <2>3, <2>4, OwesSame, LinkedSame DEF Base, OwedApart
<1>2. ASSUME NEW m \in Messages, NEW l \in Links, UploadLost(m, l) PROVE Base' /\ Listed' = Listed
  <2>1. /\ open[<<m, l>>] > 0 /\ open' = [open EXCEPT ![<<m, l>>] = @ - 1]
        /\ late' = late \cup {m} /\ DecidedLost({<<m, l>>})
        /\ UNCHANGED <<outbox, acts, distro, ups, link, down, passes, did, proved, lapsed>>
    BY <1>2 DEF UploadLost, Decided
  <2>2. open' \in [Uploads -> Nat]
    BY <1>0, <2>1, Basics, Counts DEF TypeOK
  <2>3. {<<m, l>>} \in SUBSET Uploads
    BY <1>0, Basics
  <2>4. /\ flights' \subseteq Flying /\ builds' \in [Uploads -> Nat] /\ unproved' \in [Messages -> Nat]
        /\ spent' \subseteq Messages /\ neverLeft' \subseteq neverLeft
    BY <1>0, <2>1, <2>3, LostBase
  <2>5. TypeOK'
    BY <1>0, <2>1, <2>2, <2>4 DEF TypeOK, Flying
  <2> QED  BY <1>0, <2>1, <2>4, <2>5, OwesSame, LinkedSame DEF Base, OwedApart
<1>3. ASSUME NEW m \in Messages, NEW l \in Links, UploadNeverLeft(m, l) PROVE Base' /\ Listed' = Listed
  <2>1. /\ open[<<m, l>>] > 0 /\ open' = [open EXCEPT ![<<m, l>>] = @ - 1]
        /\ late' = late \cup {m} /\ flights' = Landed(flights, {<<m, l>>})
        /\ neverLeft' = (IF m \in Listed THEN neverLeft \cup {m} ELSE neverLeft)
        /\ UNCHANGED <<outbox, acts, distro, ups, unproved, link, down, builds, passes, did, history>>
    BY <1>3 DEF UploadNeverLeft, Decided
  <2>2. open' \in [Uploads -> Nat]
    BY <1>0, <2>1, Basics, Counts DEF TypeOK
  <2>3. flights' \subseteq Flying /\ neverLeft' \subseteq Listed
    BY <1>0, <2>1, Basics DEF Landed, OwedApart
  <2>4. TypeOK'
    BY <1>0, <2>1, <2>2, <2>3 DEF TypeOK, Flying
  <2> QED  BY <1>0, <2>1, <2>3, <2>4, OwesSame, LinkedSame DEF Base
<1>4. ASSUME NEW p \in passes, PassTurn(p) PROVE Base' /\ Listed' = Listed
  <2>1. UNCHANGED <<outbox, acts, distro, ups, unproved, link, down, builds, open, late, did, history>>
    BY <1>4 DEF PassTurn
  <2>2. p \in Pass
    BY <1>0, Basics
  <2>3. passes' \subseteq Pass /\ flights' \subseteq Flying /\ neverLeft' \subseteq neverLeft
    <3>1. CASE passes' = passes \ {p} /\ UNCHANGED <<flights, neverLeft>>
      BY <1>0, <3>1, Basics
    <3>2. ASSUME NEW m \in p.todo, passes' = (passes \ {p}) \cup Going([p EXCEPT !.todo = @ \ {m}]),
                 UNCHANGED <<flights, neverLeft>>
          PROVE  passes' \subseteq Pass /\ flights' \subseteq Flying /\ neverLeft' \subseteq neverLeft
      <4>1. [p EXCEPT !.todo = @ \ {m}] \in Pass
        BY <2>2 DEF Pass
      <4> QED  BY <1>0, <3>2, <4>1, GoingIs, Basics
    <3>3. ASSUME NEW m \in p.todo, neverLeft' = neverLeft \ {m},
                 passes' = (passes \ {p}) \cup {[[p EXCEPT !.todo = @ \ {m}] EXCEPT !.building = m]},
                 flights' = Begun(flights, m, p.link)
          PROVE  passes' \subseteq Pass /\ flights' \subseteq Flying /\ neverLeft' \subseteq neverLeft
      <4>1. m \in Messages /\ p.link \in Links
        BY <2>2 DEF Pass
      <4>2. [[p EXCEPT !.todo = @ \ {m}] EXCEPT !.building = m] \in Pass
        BY <2>2, <4>1 DEF Pass
      <4>3. Flight(m, p.link) \in Flying
        BY <4>1 DEF Flight, Flying
      <4> QED  BY <1>0, <3>3, <4>2, <4>3, Basics DEF Begun
    <3> QED  BY <1>4, <3>1, <3>2, <3>3 DEF PassTurn
  <2>4. TypeOK'
    BY <1>0, <2>1, <2>3 DEF TypeOK, Flying
  <2> QED  BY <1>0, <2>1, <2>3, <2>4, OwesSame, LinkedSame DEF Base, OwedApart
<1>5. ASSUME NEW p \in passes, PassBuilt(p) PROVE Base' /\ Listed' = Listed
  <2>1. /\ p.building # NoMessage
        /\ passes' = (passes \ {p}) \cup Going([p EXCEPT !.building = NoMessage])
        /\ Built(p.building, p.link, p.at)
        /\ UNCHANGED <<outbox, acts, distro, ups, link, down, builds, late, proved, lapsed>>
    BY <1>5 DEF PassBuilt
  <2>2. p \in Pass /\ p.building \in Messages /\ p.link \in Links
    BY <1>0, <2>1, Basics DEF Pass
  <2>3. [p EXCEPT !.building = NoMessage] \in Pass
    BY <2>2 DEF Pass
  <2>4. passes' \subseteq Pass
    BY <1>0, <2>1, <2>3, GoingIs, Basics
  <2>5. /\ flights' \subseteq Flying /\ open' \in [Uploads -> Nat] /\ unproved' \in [Messages -> Nat]
        /\ did' \in Nat /\ spent' \subseteq Messages /\ neverLeft' = neverLeft
    BY <1>0, <2>1, <2>2, BuiltBase
  <2>6. TypeOK'
    BY <1>0, <2>1, <2>4, <2>5 DEF TypeOK, Flying
  <2> QED  BY <1>0, <2>1, <2>5, <2>6, OwesSame, LinkedSame DEF Base, OwedApart
<1>6. CASE ExchangeFails
  <2>1. /\ down' = TRUE /\ did' = did + 1
        /\ UNCHANGED <<outbox, acts, distro, ups, records, link, attempts, open, late, history>>
    BY <1>6 DEF ExchangeFails, Counted
  <2>2. TypeOK'
    BY <1>0, <2>1 DEF TypeOK
  <2> QED  BY <1>0, <2>1, <2>2, OwesSame, LinkedSame DEF Base, OwedApart
<1>7. CASE ExchangeBack
  <2>1. /\ down' = FALSE /\ SendDistroNeverLeft
        /\ UNCHANGED <<outbox, acts, distro, ups, records, link, flights, builds, open, late, did, history>>
    BY <1>7 DEF ExchangeBack
  <2>2. passes' \subseteq Pass
    <3>1. CASE Up
      <4>1. [link |-> prop, at |-> 0, back |-> did, todo |-> Listed \cap neverLeft,
             building |-> NoMessage] \in Pass
        BY <1>0, <3>1, Basics DEF Pass, Up, TypeOK
      <4> QED  BY <1>0, <2>1, <3>1, <4>1, GoingIs, Basics DEF SendDistroNeverLeft
    <3>2. CASE ~Up
      BY <1>0, <2>1, <3>2, Basics DEF SendDistroNeverLeft
    <3> QED  BY <3>1, <3>2
  <2>3. TypeOK'
    BY <1>0, <2>1, <2>2 DEF TypeOK
  <2> QED  BY <1>0, <2>1, <2>3, OwesSame, LinkedSame DEF Base, OwedApart
<1> QED  BY <1>1, <1>2, <1>3, <1>4, <1>5, <1>6, <1>7

\* A link event emitted.
LEMMA Emits ==
  ASSUME TypeOK, NEW l \in Links, NEW what \in {"established", "recovered", "close"}, Emit(l, what)
  PROVE  /\ news' \in Seq(News)
         /\ \A i \in DOMAIN news : i \in DOMAIN news' /\ news'[i] = news[i]
         /\ \A i \in DOMAIN news' : (i \in DOMAIN news /\ news'[i] = news[i])
                                    \/ (news'[i].link = l /\ news'[i].what = what)
         /\ \E i \in DOMAIN news' : news'[i].link = l
<1> DEFINE x == [link |-> l, what |-> what]
<1>1. x \in News /\ x.link = l /\ x.what = what /\ news \in Seq(News) /\ news' = Append(news, x)
  BY DEF News, TypeOK, Emit
<1> HIDE DEF x
<1>2. news' \in Seq(News) /\ Len(news') = Len(news) + 1 /\ Len(news) \in Nat /\ news'[Len(news) + 1] = x
      /\ \A i \in 1..Len(news) : news'[i] = news[i]
  BY <1>1
<1>3. DOMAIN news = 1..Len(news) /\ DOMAIN news' = 1..Len(news) + 1
  BY <1>1, <1>2
<1> QED  BY <1>1, <1>2, <1>3

\* A link event heard.
LEMMA Hears ==
  ASSUME TypeOK, NEW l \in Links, NEW what, Hear(l, what)
  PROVE  /\ news' \in Seq(News)
         /\ \E i \in DOMAIN news : news[i].link = l /\ news[i].what = what
         /\ \A i \in DOMAIN news' : i + 1 \in DOMAIN news /\ news'[i] = news[i + 1]
         /\ \A k : k # l => (Quiet(k)' <=> Quiet(k))
<1>1. /\ news \in Seq(News) /\ news # <<>> /\ news' = Tail(news)
      /\ Head(news) = [link |-> l, what |-> what]
  BY DEF TypeOK, Hear
<1>2. /\ news' \in Seq(News) /\ Len(news') = Len(news) - 1 /\ Len(news) \in Nat \ {0}
      /\ \A i \in 1..Len(news) - 1 : news'[i] = news[i + 1]
      /\ news[1] = [link |-> l, what |-> what]
      /\ DOMAIN news = 1..Len(news) /\ DOMAIN news' = 1..Len(news) - 1
  BY <1>1
<1>3. 1 \in DOMAIN news /\ news[1].link = l /\ news[1].what = what
  BY <1>2
<1>4. \A i \in DOMAIN news' : i + 1 \in DOMAIN news /\ news'[i] = news[i + 1]
  BY <1>2
<1>5. ASSUME NEW k, k # l PROVE Quiet(k)' <=> Quiet(k)
  <2>1. ASSUME Quiet(k)', NEW i \in DOMAIN news PROVE news[i].link # k
    <3>1. CASE i = 1
      BY <1>3, <1>5, <3>1
    <3>2. CASE i # 1
      <4>1. i - 1 \in DOMAIN news' /\ news'[i - 1] = news[i]
        BY <1>2, <3>2
      <4> QED  BY <2>1, <4>1 DEF Quiet
    <3> QED  BY <3>1, <3>2
  <2>2. ASSUME Quiet(k), NEW i \in DOMAIN news' PROVE news'[i].link # k
    BY <1>4, <2>2 DEF Quiet
  <2> QED  BY <2>1, <2>2 DEF Quiet
<1> QED  BY <1>2, <1>3, <1>4, <1>5

\* A proof: what it settles is not owed any more.
LEMMA SettledBase ==
  ASSUME IInv, NEW m \in Messages, Settled(m), flights' \subseteq flights, open' \in [Uploads -> Nat]
  PROVE  /\ Base' /\ Listed' = Listed \ {m} /\ acts' = acts /\ neverLeft' = neverLeft \ {m}
         /\ \A n \in Messages \ {m} : unproved'[n] = unproved[n]
<1>0. TypeOK /\ OwedApart /\ Linked /\ OutboxTyped /\ store \subseteq Listed
  BY NoneToOthers DEF IInv, OwedApart
<1>1. /\ Drop({m}) /\ ForgetUploads({m}) /\ late' = late \ {m} /\ proved' = proved \cup {m}
      /\ UNCHANGED <<acts, distro, ups, link, down, builds, passes, did, lapsed, spent>>
  BY DEF Settled
<1>2. OutboxTyped' /\ Listed' = Listed \ {m} /\ store' \subseteq Listed'
  BY <1>0, <1>1, Drops
<1>3. /\ unproved' \in [Messages -> Nat] /\ neverLeft' = neverLeft \ {m}
      /\ \A n \in Messages \ {m} : unproved'[n] = unproved[n]
  <2>1. unproved \in [Messages -> Nat]
    BY <1>0, Basics
  <2> QED  BY <1>1, <2>1, Forgets
<1>4. TypeOK'
  BY <1>0, <1>1, <1>2, <1>3 DEF TypeOK, OutboxTyped, link
<1>5. OwedApart'
  BY <1>0, <1>1, <1>2, <1>3, OwesLess DEF OwedApart
<1> QED  BY <1>0, <1>1, <1>2, <1>3, <1>4, <1>5, LinkedSame DEF Base

\* A proof of an upload, on time or late.
LEMMA ProofBase ==
  ASSUME IInv, NEW m \in Messages, LateProof(m) \/ \E l \in Links : UploadProved(m, l)
  PROVE  /\ Base' /\ Listed' = Listed \ {m} /\ acts' = acts /\ neverLeft' = neverLeft \ {m}
         /\ \A n \in Messages \ {m} : unproved'[n] = unproved[n]
<1>0. TypeOK
  BY DEF IInv
<1>1. CASE LateProof(m)
  BY <1>0, <1>1, SettledBase DEF LateProof, TypeOK
<1>2. ASSUME NEW l \in Links, UploadProved(m, l) PROVE Settled(m) /\ flights' \subseteq flights /\ open' \in [Uploads -> Nat]
  <2>1. /\ open[<<m, l>>] > 0 /\ open' = [open EXCEPT ![<<m, l>>] = @ - 1]
        /\ flights' = Landed(flights, {<<m, l>>}) /\ Settled(m)
    BY <1>2 DEF UploadProved, Decided
  <2>2. open' \in [Uploads -> Nat]
    BY <1>0, <2>1, Basics, Counts DEF TypeOK
  <2> QED  BY <2>1, <2>2 DEF Landed
<1> QED  BY <1>1, <1>2, SettledBase

\* Another distro, or none.
LEMMA ChangeDistroBase ==
  ASSUME IInv, NEW d \in Distros \cup {NoDistro}, ChangeDistro(d)
  PROVE  /\ Base' /\ Listed' = Listed \ OwedToOthers(d) /\ acts' = acts
         /\ neverLeft' = neverLeft \ OwedToOthers(d)
         /\ \A n \in Messages \ OwedToOthers(d) : unproved'[n] = unproved[n]
<1> DEFINE gone == OwedToOthers(d)
<1>0. TypeOK /\ OwedApart /\ Linked /\ OutboxTyped /\ store \subseteq Listed
  BY NoneToOthers DEF IInv, OwedApart
<1>1. /\ did' = did + 1 /\ distro' = d /\ Drop(gone) /\ ForgetUploads(gone)
      /\ lapsed' = lapsed \cup {m \in Membership : acts[m].distro # d}
      /\ UNCHANGED <<acts, ups, link, down, attempts, open, late, proved, spent>>
  BY DEF ChangeDistro, Counted
<1>2. gone = {m \in Listed \cap Membership : acts[m].distro # d}
  BY DEF OwedToOthers
<1> HIDE DEF gone
<1>3. OutboxTyped' /\ Listed' = Listed \ gone /\ store' \subseteq Listed'
  BY <1>0, <1>1, Drops
<1>4. /\ unproved' \in [Messages -> Nat] /\ neverLeft' = neverLeft \ gone
      /\ \A n \in Messages \ gone : unproved'[n] = unproved[n]
  <2>1. unproved \in [Messages -> Nat]
    BY <1>0, Basics
  <2> QED  BY <1>1, <2>1, Forgets
<1>5. lapsed' \subseteq Messages
  BY <1>0, <1>1, Basics DEF TypeOK
<1>6. TypeOK'
  BY <1>0, <1>1, <1>3, <1>4, <1>5 DEF TypeOK, OutboxTyped, link, attempts
<1>7. Membership' = Membership
  BY <1>1 DEF Membership
<1>8. OwedApart'
  BY <1>0, <1>1, <1>2, <1>3, <1>4, <1>7 DEF OwedApart
<1> QED  BY <1>0, <1>1, <1>3, <1>4, <1>6, <1>8, LinkedSame DEF Base, gone

\* The link's own steps, and hearing of its close.
LEMMA LinkBase ==
  ASSUME IInv, NEW l \in Links,
         Establish(l) \/ LinkUp(l) \/ LinkStale(l) \/ LinkRecovers(l) \/ LinkCloses(l) \/ HearClose(l)
  PROVE  Base' /\ Listed' = Listed
<1>0. /\ TypeOK /\ OwedApart /\ Linked /\ neverLeft \subseteq Listed /\ prop \in Links \cup {NoLink} /\ NoLink \notin Links
      /\ status \in [Links -> {"unused", "pending", "active", "stale", "closed", "failed"}]
      /\ news \in Seq(News)
      /\ \A i \in DOMAIN news : news[i].link \in Links
  <2>1. news \in Seq(News)
    BY DEF IInv, TypeOK
  <2>2. \A i \in DOMAIN news : news[i] \in News
    BY <2>1
  <2> QED  BY <2>1, <2>2, Basics DEF IInv, OwedApart, TypeOK, News
<1>a. \A k \in Links, b \in [Uploads -> Nat] : [u \in Uploads |-> IF u[2] = k THEN 0 ELSE b[u]] \in [Uploads -> Nat]
  OBVIOUS
<1> USE DEF outbox, records, history
<1>1. CASE Establish(l)
  <2>1. /\ status[l] = "unused" /\ NoneEstablished
        /\ prop # NoLink => status[prop] \in {"closed", "stale"}
        /\ prop' = l /\ status' = [status EXCEPT ![l] = "pending"] /\ GoneFor(prop)
        /\ UNCHANGED <<outbox, acts, distro, ups, records, news, down, open, late, did, history>>
    BY <1>1 DEF Establish
  <2>2. flights' \subseteq Flying /\ passes' \subseteq Pass /\ builds' \in [Uploads -> Nat]
    BY <1>0, <2>1, Basics DEF GoneFor, TypeOK
  <2>3. TypeOK'
    BY <1>0, <2>1, <2>2 DEF TypeOK, Flying
  <2>4. \A k \in Links : status[k] # "pending"
    BY <1>0, <2>1 DEF Linked
  <2>5. Linked'
    BY <1>0, <2>1, <2>4 DEF Linked, NoneEstablished
  <2> QED  BY <1>0, <2>1, <2>3, <2>5, OwesSame DEF Base
<1>2. CASE LinkUp(l)
  <2>1. /\ status[l] = "pending" /\ status' = [status EXCEPT ![l] = "active"] /\ Emit(l, "established")
        /\ UNCHANGED <<outbox, acts, distro, ups, records, prop, down, attempts, open, late, did, history>>
    BY <1>2 DEF LinkUp
  <2>2. prop = l
    BY <1>0, <2>1 DEF Linked
  <2>3. TypeOK'
    BY <1>0, <2>1, Emits DEF TypeOK, attempts
  <2>4. Linked'
    BY <1>0, <2>1, <2>2, Emits DEF Linked
  <2> QED  BY <1>0, <2>1, <2>3, <2>4, OwesSame DEF Base
<1>3. CASE LinkStale(l)
  <2>1. /\ status[l] = "active" /\ status' = [status EXCEPT ![l] = "stale"] /\ did' = did + 1
        /\ UNCHANGED <<outbox, acts, distro, ups, records, prop, news, down, attempts, open, late, history>>
    BY <1>3 DEF LinkStale, Counted
  <2>2. TypeOK'
    BY <1>0, <2>1 DEF TypeOK, attempts
  <2>3. Linked'
    BY <1>0, <2>1 DEF Linked
  <2> QED  BY <1>0, <2>1, <2>2, <2>3, OwesSame DEF Base
<1>4. CASE LinkRecovers(l)
  <2>1. /\ status[l] = "stale" /\ status' = [status EXCEPT ![l] = "active"] /\ Emit(l, "recovered")
        /\ UNCHANGED <<outbox, acts, distro, ups, records, prop, down, attempts, open, late, did, history>>
    BY <1>4 DEF LinkRecovers
  <2>2. TypeOK'
    BY <1>0, <2>1, Emits DEF TypeOK, attempts
  <2>3. Linked'
    BY <1>0, <2>1, Emits DEF Linked
  <2> QED  BY <1>0, <2>1, <2>2, <2>3, OwesSame DEF Base
<1>5. CASE LinkCloses(l)
  <2>1. /\ status' = [status EXCEPT ![l] = IF @ = "pending" THEN "failed" ELSE "closed"]
        /\ Emit(l, "close") /\ GoneFor(l)
        /\ UNCHANGED <<outbox, acts, distro, ups, records, prop, down, open, late, did, history>>
    BY <1>5 DEF LinkCloses
  <2>2. flights' \subseteq Flying /\ passes' \subseteq Pass /\ builds' \in [Uploads -> Nat]
    BY <1>0, <2>1, Basics DEF GoneFor, TypeOK
  <2>3. TypeOK'
    BY <1>0, <2>1, <2>2, Emits DEF TypeOK, Flying
  <2>4. /\ status'[l] \in {"closed", "failed"} /\ \A k \in Links : k # l => status'[k] = status[k]
    BY <1>0, <2>1
  <2>5. Linked'
    BY <1>0, <2>1, <2>4, Emits DEF Linked
  <2> QED  BY <1>0, <2>1, <2>3, <2>5, OwesSame DEF Base
<1>6. CASE HearClose(l)
  <2> DEFINE lost == {u \in Uploads : u[2] = l /\ open[u] > 0}
  <2>1. /\ Hear(l, "close") /\ DecidedLost(lost)
        /\ open' = [u \in Uploads |-> IF u[2] = l THEN 0 ELSE open[u]]
        /\ late' = late \cup {u[1] : u \in lost}
        /\ prop' = (IF prop = l THEN NoLink ELSE prop)
        /\ status' = [status EXCEPT ![l] = "closed"]
        /\ UNCHANGED <<outbox, acts, distro, ups, down, passes, did, proved, lapsed>>
    BY <1>6 DEF HearClose
  <2>2. lost \in SUBSET Uploads /\ {u[1] : u \in lost} \subseteq Messages
    BY <1>0, Basics
  <2> HIDE DEF lost
  <2>3. /\ flights' \subseteq Flying /\ builds' \in [Uploads -> Nat] /\ unproved' \in [Messages -> Nat]
        /\ spent' \subseteq Messages /\ neverLeft' \subseteq neverLeft
    BY <1>0, <2>1, <2>2, LostBase
  <2>4. open' \in [Uploads -> Nat]
    BY <1>0, <2>1 DEF TypeOK
  <2>5. news' \in Seq(News) /\ \A i \in DOMAIN news' : i + 1 \in DOMAIN news /\ news'[i] = news[i + 1]
    BY <1>0, <2>1, Hears
  <2>6. TypeOK'
    BY <1>0, <2>1, <2>2, <2>3, <2>4, <2>5 DEF TypeOK, Flying
  <2>7. Linked'
    <3>1. \A k \in Links : status'[k] = IF k = l THEN "closed" ELSE status[k]
      BY <1>0, <2>1
    <3>2. \A k \in Links : status'[k] = "pending" => prop' = k
      BY <1>0, <2>1, <3>1 DEF Linked
    <3>3. ASSUME NEW i \in DOMAIN news'
          PROVE  /\ news'[i].what = "established" => prop' \in {news'[i].link, NoLink}
                 /\ news'[i].what = "close" => status'[news'[i].link] \in {"closed", "failed"}
      <4>1. i + 1 \in DOMAIN news /\ news'[i] = news[i + 1] /\ news[i + 1].link \in Links
        BY <1>0, <2>5
      <4> QED  BY <1>0, <2>1, <3>1, <4>1 DEF Linked
    <3> QED  BY <3>2, <3>3 DEF Linked
  <2> QED  BY <1>0, <2>1, <2>3, <2>6, <2>7, OwesSame DEF Base
<1> QED  BY <1>1, <1>2, <1>3, <1>4, <1>5, <1>6

\* A coming-up heard.
LEMMA ComingUpHeard ==
  ASSUME IInv, NEW l \in Links,
         \/ HearEstablished(l)
         \/ HearRecovered(l)
  PROVE  /\ Base' /\ Listed' = Listed /\ acts' = acts
<1>0. TypeOK /\ OwedApart /\ Linked /\ neverLeft \subseteq Listed
  BY DEF IInv, OwedApart
<1>1. /\ news' \in Seq(News) /\ \A i \in DOMAIN news' : i + 1 \in DOMAIN news /\ news'[i] = news[i + 1]
      /\ UNCHANGED <<acts, distro, prop, status, down, flights, builds, open, late, did, proved, lapsed>>
      /\ SendDistroOutbox(l) \/ UNCHANGED <<outbox, records, ups, passes, spent>>
  BY <1>0, Hears DEF HearEstablished, HearRecovered
<1>2. Linked'
  BY <1>0, <1>1 DEF Linked
<1>3. CASE SendDistroOutbox(l)
  <2>1. /\ OutboxTyped' /\ Listed' = Listed /\ store' \subseteq Listed'
        /\ unproved' \in [Messages -> Nat] /\ neverLeft' = neverLeft /\ ups' = ups + 1
        /\ passes' \subseteq Pass /\ spent' = (IF LinkReady(l) THEN {} ELSE spent)
    BY <1>0, <1>3, ComingUpBase
  <2>2. TypeOK'
    BY <1>0, <1>1, <2>1 DEF TypeOK, OutboxTyped
  <2>3. OwedApart'
    BY <1>0, <1>1, <2>1, OwesLess DEF OwedApart
  <2> QED  BY <1>1, <1>2, <2>1, <2>2, <2>3 DEF Base
<1>4. CASE UNCHANGED <<outbox, records, ups, passes, spent>>
  <2>1. TypeOK'
    BY <1>0, <1>1, <1>4 DEF TypeOK, outbox, records
  <2> QED  BY <1>0, <1>1, <1>2, <1>4, <2>1, OwesSame DEF Base, records
<1> QED  BY <1>1, <1>3, <1>4

\* A stop, or a load of the page.
LEMMA StopBase ==
  ASSUME IInv, Disconnect \/ Reload
  PROVE  /\ Base' /\ Listed' \subseteq Listed /\ acts' = acts
<1>0. /\ TypeOK /\ OwedApart /\ Linked /\ OutboxTyped /\ prop \in Links \cup {NoLink} /\ NoLink \notin Links
      /\ status \in [Links -> {"unused", "pending", "active", "stale", "closed", "failed"}]
      /\ store \subseteq Listed /\ neverLeft \subseteq Listed
  BY NoneToOthers, Basics DEF IInv, TypeOK, OwedApart
<1>1. /\ flights' = {} /\ passes' = {} /\ late' = {} /\ prop' = NoLink /\ down' = FALSE /\ did' = did + 1
      /\ builds' = [u \in Uploads |-> 0] /\ open' = [u \in Uploads |-> 0]
  BY DEF Disconnect, Reload, Stopped, Counted
<1>b. builds' \in [Uploads -> Nat] /\ open' \in [Uploads -> Nat] /\ did' \in Nat
  BY <1>0, <1>1 DEF TypeOK
<1>2. CASE Disconnect
  <2>1. /\ Unproved(Cut) /\ spent' = spent \cup Cut
        /\ UNCHANGED <<outbox, acts, distro, ups, neverLeft, proved, lapsed>>
        /\ \/ /\ prop # NoLink /\ status' = [status EXCEPT ![prop] = "closed"] /\ Emit(prop, "close")
           \/ /\ ~(prop # NoLink /\ status[prop] \in {"pending", "active", "stale"})
              /\ UNCHANGED <<status, news>>
    BY <1>2 DEF Disconnect
  <2>2. unproved' \in [Messages -> Nat]
    BY <1>0, <2>1, Basics, UnprovedIs
  <2>3. /\ status' \in [Links -> {"unused", "pending", "active", "stale", "closed", "failed"}]
        /\ news' \in Seq(News) /\ Linked'
    <3>1. CASE prop # NoLink /\ status' = [status EXCEPT ![prop] = "closed"] /\ Emit(prop, "close")
      <4>1. prop \in Links
        BY <1>0, <3>1
      <4>2. /\ news' \in Seq(News)
            /\ \A i \in DOMAIN news' : (i \in DOMAIN news /\ news'[i] = news[i])
                                       \/ (news'[i].link = prop /\ news'[i].what = "close")
        BY <1>0, <3>1, <4>1, Emits
      <4> QED  BY <1>0, <1>1, <3>1, <4>1, <4>2 DEF Linked
    <3>2. CASE /\ ~(prop # NoLink /\ status[prop] \in {"pending", "active", "stale"})
               /\ UNCHANGED <<status, news>>
      BY <1>0, <1>1, <3>2 DEF Linked, TypeOK
    <3> QED  BY <2>1, <3>1, <3>2
  <2>4. spent' \subseteq Messages
    BY <1>0, <2>1 DEF Cut, TypeOK
  <2>5. TypeOK'
    BY <1>0, <1>1, <1>b, <2>1, <2>2, <2>3, <2>4 DEF TypeOK, outbox
  <2> QED  BY <1>0, <2>1, <2>3, <2>5, OwesSame DEF Base, outbox
<1>3. CASE Reload
  <2>1. /\ status' = [l \in Links |-> IF status[l] = "unused" THEN "unused" ELSE "closed"]
        /\ news' = <<>> /\ holding' = FALSE /\ held' = {}
        /\ store' = {m \in store : m \in Membership => acts[m].distro = distro}
        /\ ups' = 0 /\ ForgetUploads(Messages) /\ spent' = {}
        /\ UNCHANGED <<refusals, acts, distro, proved, lapsed>>
    BY <1>3 DEF Reload
  <2>2. unproved' \in [Messages -> Nat] /\ neverLeft' = {}
    <3>1. unproved \in [Messages -> Nat] /\ neverLeft \subseteq Messages
      BY <1>0, Basics DEF TypeOK
    <3> QED  BY <2>1, <3>1, Forgets
  <2>3. Listed' = store' /\ store' \subseteq store
    BY <2>1 DEF Listed
  <2>4. TypeOK'
    <3>1. store' \subseteq Messages /\ Len(acts') <= MaxActs /\ acts' \in Seq(Act)
      BY <1>0, <2>1, <2>3 DEF TypeOK
    <3>2. /\ status' \in [Links -> {"unused", "pending", "active", "stale", "closed", "failed"}]
          /\ news' \in Seq(News) /\ ups' \in Nat
      BY <1>0, <2>1
    <3> QED  BY <1>0, <1>1, <1>b, <2>1, <2>2, <3>1, <3>2 DEF TypeOK
  <2>5. OwedApart'
    BY <1>0, <2>1, <2>2, <2>3, OwesLess DEF OwedApart
  <2>6. Linked'
    BY <1>0, <2>1 DEF Linked
  <2> QED  BY <1>0, <2>1, <2>3, <2>4, <2>5, <2>6 DEF Base
<1> QED  BY <1>2, <1>3

-----------------------------------------------------------------------------
(* One lemma per action: the attempts, what failed, and what is attended to. *)

Attempted == OneAttempt' /\ Unknown' /\ Failed' /\ Covered'

\* What an entry's flight, build, pass or upload says of it.
LEMMA Which ==
  ASSUME IInv, NEW m \in Listed
  PROVE  /\ m \in Messages /\ Attempt(m)
         /\ \A l \in Links : builds[<<m, l>>] > 0 => Loose(m) /\ l = prop
         /\ \A l \in Links : open[<<m, l>>] > 0 =>
              /\ Away(m) /\ Of(m) = {[Flight(m, l) EXCEPT !.left = TRUE]}
              /\ \A k \in Links : open[<<m, k>>] = IF k = l THEN 1 ELSE 0
         /\ Doing(m) # {} => Passing(m)
         /\ m \in spent \cup neverLeft => Idling(m)
<1>0. m \in Messages /\ Attempt(m)
  BY Basics DEF IInv, OneAttempt, Attempt
<1>1. ASSUME NEW l \in Links, builds[<<m, l>>] > 0 PROVE Loose(m) /\ l = prop
  BY <1>0, <1>1 DEF Attempt, Idling, Away, Loose, Passing
<1>2. ASSUME NEW l \in Links, open[<<m, l>>] > 0
      PROVE  /\ Away(m) /\ Of(m) = {[Flight(m, l) EXCEPT !.left = TRUE]}
             /\ \A k \in Links : open[<<m, k>>] = IF k = l THEN 1 ELSE 0
  <2>1. Away(m)
    BY <1>0, <1>2 DEF Attempt, Idling, Loose, Passing
  <2>2. PICK j \in Links : /\ Of(m) = {[Flight(m, j) EXCEPT !.left = TRUE]}
                           /\ \A k \in Links : open[<<m, k>>] = IF k = j THEN 1 ELSE 0
    BY <2>1 DEF Away
  <2>3. j = l
    BY <1>2, <2>2
  <2> QED  BY <2>1, <2>2, <2>3
<1>3. ASSUME Doing(m) # {} PROVE Passing(m)
  BY <1>0, <1>3 DEF Attempt, Idling, Away, Loose
<1>4. ASSUME m \in spent \cup neverLeft PROVE Idling(m)
  BY <1>4 DEF IInv, Failed
<1> QED  BY <1>0, <1>1, <1>2, <1>3, <1>4

\* Nothing is known of a message before its act: any trace of it shows the act.
LEMMA Known ==
  ASSUME IInv, NEW m \in Messages,
         \/ \E l \in Links : builds[<<m, l>>] > 0 \/ open[<<m, l>>] > 0
         \/ Doing(m) # {} \/ Of(m) # {} \/ m \in late \cup spent
  PROVE  m \in DOMAIN acts
<1>1. ASSUME m \notin DOMAIN acts
      PROVE  /\ Of(m) = {} /\ Doing(m) = {} /\ m \notin late \cup spent
             /\ \A l \in Links : ~(builds[<<m, l>>] > 0) /\ ~(open[<<m, l>>] > 0)
  BY <1>1 DEF IInv, Unknown, Idling
<1> QED  BY <1>1

\* What a build's end does to the attempt, and to no other.
LEMMA BuiltEffect ==
  ASSUME TypeOK, NEW m \in Messages, NEW l \in Links, NEW at, Built(m, l, at)
  PROVE  /\ \A n \in Messages \ {m} :
              /\ Of(n)' = Of(n) /\ unproved'[n] = unproved[n]
              /\ \A k \in Links : open'[<<n, k>>] = open[<<n, k>>]
         /\ spent' \subseteq spent \cup {m}
         /\ m \in Listed /\ Of(m) = {Flight(m, l)} /\ (\A k \in Links : open[<<m, k>>] = 0) =>
              \/ /\ Of(m)' = {} /\ \A k \in Links : open'[<<m, k>>] = 0
                 /\ m \in spent' => m \in spent \/ unproved'[m] = ups
                 /\ NotSent(m, l, at) \/ unproved'[m] = ups
              \/ /\ Of(m)' = {[Flight(m, l) EXCEPT !.left = TRUE]} /\ spent' = spent
                 /\ \A k \in Links : open'[<<m, k>>] = IF k = l THEN 1 ELSE 0
<1>0. flights \subseteq Flying /\ unproved \in [Messages -> Nat] /\ ups \in Nat /\ open \in [Uploads -> Nat]
      /\ \A n \in Messages, k \in Links : <<n, k>> \in Uploads
  BY Basics DEF TypeOK
<1>l. ASSUME flights' = Landed(flights, {<<m, l>>})
      PROVE  /\ \A n \in Messages \ {m} : Of(n)' = Of(n)
             /\ Of(m) = {Flight(m, l)} => Of(m)' = {}
  BY <1>l, Lands DEF Flight
<1>1. CASE NotSent(m, l, at) /\ flights' = Landed(flights, {<<m, l>>}) /\ UNCHANGED <<open, records, did, spent>>
  BY <1>1, <1>l DEF records
<1>2. CASE UploadForDistro(m, l)
  <2>1. /\ flights' = {[f EXCEPT !.left = @ \/ <<f.msg, f.link>> = <<m, l>>] : f \in flights}
        /\ open' = [open EXCEPT ![<<m, l>>] = @ + 1] /\ unproved' = unproved /\ spent' = spent
    BY <1>2 DEF UploadForDistro, records
  <2>2. /\ \A n \in Messages \ {m} : Of(n)' = Of(n)
        /\ Of(m) = {Flight(m, l)} => Of(m)' = {[Flight(m, l) EXCEPT !.left = TRUE]}
    BY <1>0, <2>1, LeavesFlight
  <2>3. \A n \in Messages, k \in Links :
           open'[<<n, k>>] = IF n = m /\ k = l THEN open[<<n, k>>] + 1 ELSE open[<<n, k>>]
    BY <1>0, <2>1
  <2> QED  BY <2>1, <2>2, <2>3
<1>3. CASE BuildThrew(m, l)
  <2>1. /\ flights' = Landed(flights, {<<m, l>>}) /\ Unproved({m}) /\ open' = open
        /\ spent' = spent \cup {f.msg : f \in {f \in flights : <<f.msg, f.link>> = <<m, l>>}}
    BY <1>3 DEF BuildThrew
  <2>2. spent' \subseteq spent \cup {m}
    BY <2>1
  <2>3. \A n \in Messages : unproved'[n] = IF n \in {m} \cap Listed THEN ups ELSE unproved[n]
    BY <1>0, <2>1, UnprovedIs
  <2> QED  BY <1>l, <2>1, <2>2, <2>3
<1> QED  BY <1>1, <1>2, <1>3 DEF Built

\* A build that no pass waits for is over.
LEMMA LooseAttempted ==
  ASSUME IInv, NEW m \in Messages, NEW l \in Links, LooseBuilt(m, l), Idle
  PROVE  Attempted
<1>0. TypeOK /\ OwedApart
  BY DEF IInv
<1>1. /\ builds[<<m, l>>] > 0 /\ builds' = [builds EXCEPT ![<<m, l>>] = @ - 1] /\ Built(m, l, 0)
      /\ UNCHANGED <<outbox, acts, distro, ups, link, down, passes, late, proved, lapsed>>
  BY DEF LooseBuilt
<1>2. Base' /\ Listed' = Listed
  BY AttemptBase
<1>3. \A n \in Messages : Doing(n)' = Doing(n)
  BY <1>1 DEF Doing
<1>4. \A n \in Messages, k \in Links :
        builds'[<<n, k>>] = IF n = m /\ k = l THEN builds[<<n, k>>] - 1 ELSE builds[<<n, k>>]
  BY <1>0, <1>1, Basics DEF TypeOK
<1>5. m \in DOMAIN acts
  BY <1>1, Known
<1>6. /\ \A n \in Messages \ {m} :
              /\ Of(n)' = Of(n) /\ unproved'[n] = unproved[n]
              /\ \A k \in Links : open'[<<n, k>>] = open[<<n, k>>]
      /\ spent' \subseteq spent \cup {m}
  BY <1>0, <1>1, BuiltEffect
<1>7. neverLeft' = neverLeft /\ unproved' \in [Messages -> Nat]
  BY <1>0, <1>1, BuiltBase
<1>8. Confined({m})
  <2>1. StillLive
    BY <1>1 DEF StillLive, Live, link
  <2>2. \A n \in ((Listed \cap Listed') \cup (Messages \ DOMAIN acts)) \ {m} : Untouched(n)
    BY <1>0, <1>3, <1>4, <1>6, Basics DEF Untouched
  <2>3. \A n \in Messages \ DOMAIN acts' : n \notin lapsed' \cup proved' \cup late'
    BY <1>1 DEF IInv, Unknown
  <2>4. DOMAIN acts \subseteq Messages /\ neverLeft \subseteq Listed
    BY <1>0, Basics DEF OwedApart
  <2> QED  BY <1>1, <1>2, <1>5, <1>6, <1>7, <2>1, <2>2, <2>3, <2>4 DEF Confined
<1>9. ASSUME m \in Listed PROVE Well(m)
  <2>1. Loose(m) /\ l = prop /\ m \notin spent \cup neverLeft
    BY <1>1, <1>9, Which DEF Idling
  <2>2. /\ Of(m) = {Flight(m, l)} /\ Doing(m)' = {} /\ \A k \in Links : open[<<m, k>>] = 0
        /\ \A k \in Links : builds'[<<m, k>>] = 0
    BY <1>3, <1>4, <2>1 DEF Loose
  <2>3. \/ /\ Of(m)' = {} /\ \A k \in Links : open'[<<m, k>>] = 0
           /\ m \in spent' => m \in spent \/ unproved'[m] = ups
        \/ /\ Of(m)' = {[Flight(m, l) EXCEPT !.left = TRUE]} /\ spent' = spent
           /\ \A k \in Links : open'[<<m, k>>] = IF k = l THEN 1 ELSE 0
    BY <1>0, <1>1, <1>9, <2>2, BuiltEffect
  <2>4. CASE /\ Of(m)' = {} /\ \A k \in Links : open'[<<m, k>>] = 0
             /\ m \in spent' => m \in spent \/ unproved'[m] = ups
    <3>1. Idling(m)'
      BY <2>2, <2>4 DEF Idling
    <3>2. ups \in Nat
      BY <1>0, Basics
    <3> QED  BY <1>7, <2>1, <2>4, <3>1, <3>2 DEF Well, Attempt
  <2>5. CASE /\ Of(m)' = {[Flight(m, l) EXCEPT !.left = TRUE]} /\ spent' = spent
             /\ \A k \in Links : open'[<<m, k>>] = IF k = l THEN 1 ELSE 0
    <3>1. Away(m)'
      BY <2>2, <2>5 DEF Away, Flight
    <3> QED  BY <1>7, <2>1, <2>5, <3>1 DEF Well, Attempt
  <2> QED  BY <2>3, <2>4, <2>5
<1>10. Timely
  BY <1>0, <1>1, Basics DEF Timely, Idle
<1>11. Covers({m})
  <2>1. ASSUME m \in Listed, Up PROVE Attended(m)'
    <3>1. Loose(m) /\ l = prop
      BY <1>1, <2>1, Which
    <3>2. /\ Of(m) = {Flight(m, l)} /\ \A k \in Links : open[<<m, k>>] = 0
      BY <3>1 DEF Loose
    <3>3. ~NotSent(m, l, 0)
      BY <1>0, <2>1, <3>1, NoneToOthers DEF NotSent, Up
    <3>4. unproved'[m] = ups \/ open'[<<m, l>>] > 0
      BY <1>0, <1>1, <2>1, <3>2, <3>3, BuiltEffect
    <3>5. ups' = ups /\ ups \in Nat
      BY <1>0, <1>1, Basics
    <3> QED  BY <3>4, <3>5 DEF Attended
  <2>2. \A n \in Listed : Keeps(n)
    BY <1>1, <1>7 DEF Keeps
  <2> QED  BY <1>1, <1>2, <2>1, <2>2 DEF Covers, Up, LinkReady, Quiet, link
<1> QED  BY <1>2, <1>8, <1>9, <1>10, <1>11, TaskFrame DEF Attempted, Base, OwedApart

\* A build that a pass waits for is over.
LEMMA PassAttempted ==
  ASSUME IInv, NEW p \in passes, PassBuilt(p), Idle
  PROVE  Attempted
<1> DEFINE m == p.building
           l == p.link
<1>0. TypeOK /\ OwedApart
  BY DEF IInv
<1>1. /\ m # NoMessage
      /\ passes' = (passes \ {p}) \cup Going([p EXCEPT !.building = NoMessage])
      /\ Built(m, l, p.at)
      /\ UNCHANGED <<outbox, acts, distro, ups, link, down, builds, late, proved, lapsed>>
  BY DEF PassBuilt
<1>t. p \in Pass /\ m \in Messages /\ l \in Links /\ p.at \in Nat /\ NoMessage \notin Messages
  BY <1>0, <1>1, Basics DEF Pass
<1>2. Base' /\ Listed' = Listed
  BY AttemptBase
<1>3. \A n \in Messages : Doing(n)' = Doing(n) \ {p}
  <2>1. [p EXCEPT !.building = NoMessage].building = NoMessage
    BY <1>t DEF Pass
  <2> QED  BY <1>1, <1>t, <2>1 DEF Doing, Going
<1>4. p \in Doing(m) /\ \A n \in Messages \ {m} : p \notin Doing(n)
  BY DEF Doing
<1> HIDE DEF m, l
<1>5. m \in DOMAIN acts
  BY <1>4, <1>t, Known
<1>6. /\ \A n \in Messages \ {m} :
              /\ Of(n)' = Of(n) /\ unproved'[n] = unproved[n]
              /\ \A k \in Links : open'[<<n, k>>] = open[<<n, k>>]
      /\ spent' \subseteq spent \cup {m}
  BY <1>0, <1>1, <1>t, BuiltEffect
<1>7. neverLeft' = neverLeft /\ unproved' \in [Messages -> Nat]
  BY <1>0, <1>1, <1>t, BuiltBase
<1>8. Confined({m})
  <2>1. StillLive
    BY <1>1 DEF StillLive, Live, link
  <2>2. \A n \in ((Listed \cap Listed') \cup (Messages \ DOMAIN acts)) \ {m} : Untouched(n)
    <3>1. \A n \in Messages \ {m} : Doing(n)' = Doing(n)
      BY <1>3, <1>4
    <3>2. Listed \subseteq Messages
      BY <1>0, Basics
    <3> QED  BY <1>1, <1>6, <3>1, <3>2 DEF Untouched
  <2>3. \A n \in Messages \ DOMAIN acts' : n \notin lapsed' \cup proved' \cup late'
    BY <1>1 DEF IInv, Unknown
  <2>4. DOMAIN acts \subseteq Messages /\ neverLeft \subseteq Listed
    BY <1>0, Basics DEF OwedApart
  <2> QED  BY <1>1, <1>2, <1>5, <1>6, <1>7, <2>1, <2>2, <2>3, <2>4 DEF Confined
<1>9. ASSUME m \in Listed PROVE Well(m)
  <2>1. Passing(m) /\ m \notin spent \cup neverLeft
    BY <1>4, <1>9, Which DEF Idling
  <2>2. PICK q \in passes : Doing(m) = {q} /\ q.link = prop
    BY <2>1 DEF Passing
  <2>3. q = p /\ l = prop
    BY <1>4, <2>2 DEF l
  <2>4. /\ Of(m) = {Flight(m, l)} /\ Doing(m)' = {} /\ \A k \in Links : open[<<m, k>>] = 0
        /\ \A k \in Links : builds'[<<m, k>>] = 0
    BY <1>1, <1>3, <1>t, <2>1, <2>2, <2>3 DEF Passing
  <2>5. \/ /\ Of(m)' = {} /\ \A k \in Links : open'[<<m, k>>] = 0
           /\ m \in spent' => m \in spent \/ unproved'[m] = ups
        \/ /\ Of(m)' = {[Flight(m, l) EXCEPT !.left = TRUE]} /\ spent' = spent
           /\ \A k \in Links : open'[<<m, k>>] = IF k = l THEN 1 ELSE 0
    BY <1>0, <1>1, <1>t, <1>9, <2>4, BuiltEffect
  <2>6. CASE /\ Of(m)' = {} /\ \A k \in Links : open'[<<m, k>>] = 0
             /\ m \in spent' => m \in spent \/ unproved'[m] = ups
    <3>1. Idling(m)'
      BY <2>4, <2>6 DEF Idling
    <3>2. ups \in Nat
      BY <1>0, Basics
    <3> QED  BY <1>7, <2>1, <2>6, <3>1, <3>2 DEF Well, Attempt
  <2>7. CASE /\ Of(m)' = {[Flight(m, l) EXCEPT !.left = TRUE]} /\ spent' = spent
             /\ \A k \in Links : open'[<<m, k>>] = IF k = l THEN 1 ELSE 0
    <3>1. Away(m)'
      BY <1>t, <2>4, <2>7 DEF Away, Flight
    <3> QED  BY <1>7, <2>1, <2>7, <3>1 DEF Well, Attempt
  <2> QED  BY <2>5, <2>6, <2>7
<1>10. Timely
  <2>1. [p EXCEPT !.building = NoMessage].at = p.at
    BY <1>t DEF Pass
  <2>2. \A q \in passes' : q \in passes \/ q.at = p.at
    BY <1>1, <2>1 DEF Going
  <2>3. ups' = ups /\ ups \in Nat /\ p.building # NoMessage
    BY <1>0, <1>1, Basics DEF m
  <2> QED  BY <2>2, <2>3 DEF Timely, Idle
<1>11. Covers({m})
  <2>1. ASSUME m \in Listed, Up PROVE Attended(m)'
    <3>1. Passing(m)
      BY <1>4, <2>1, Which
    <3>2. PICK q \in passes : Doing(m) = {q} /\ q.link = prop /\ (q.at > 0 => unproved[m] < q.at)
      BY <3>1 DEF Passing
    <3>3. q = p /\ l = prop /\ Of(m) = {Flight(m, l)} /\ \A k \in Links : open[<<m, k>>] = 0
      BY <1>4, <3>1, <3>2 DEF l, Passing
    <3>4. ~(p.at > 0 /\ UnprovedSince(m, p.at))
      <4>1. unproved[m] \in Nat
        BY <1>0, <1>t, Basics
      <4> QED  BY <1>t, <3>2, <3>3, <4>1 DEF UnprovedSince
    <3>5. ~NotSent(m, l, p.at)
      BY <1>0, <1>t, <2>1, <3>3, <3>4, NoneToOthers DEF NotSent, Up
    <3>6. unproved'[m] = ups \/ open'[<<m, l>>] > 0
      BY <1>0, <1>1, <1>t, <2>1, <3>3, <3>5, BuiltEffect
    <3>7. ups' = ups /\ ups \in Nat
      BY <1>0, <1>1, Basics
    <3> QED  BY <1>t, <3>6, <3>7 DEF Attended
  <2>2. ASSUME NEW n \in Listed PROVE Keeps(n)
    <3>1. ASSUME NEW q \in passes, q.link = prop, n \in q.todo
          PROVE  \E r \in passes' : r.link = q.link /\ r.at = q.at /\ n \in r.todo
      <4>1. CASE q # p
        BY <1>1, <3>1, <4>1
      <4>2. CASE q = p
        <5> DEFINE r == [p EXCEPT !.building = NoMessage]
        <5>1. r.link = p.link /\ r.at = p.at /\ r.todo = p.todo
          BY <1>t DEF Pass
        <5>2. r \in passes'
          BY <1>1, <3>1, <4>2, <5>1 DEF Going
        <5> QED  BY <4>2, <3>1, <5>1, <5>2
      <4> QED  BY <4>1, <4>2
    <3> QED  BY <1>1, <1>7, <3>1 DEF Keeps
  <2> QED  BY <1>1, <1>2, <2>1, <2>2 DEF Covers, Up, LinkReady, Quiet, link
<1> QED  BY <1>2, <1>8, <1>9, <1>10, <1>11, TaskFrame DEF Attempted, Base, OwedApart

\* What a decision as lost does to the attempts it decides, and to no other.
LEMMA LostEffect ==
  ASSUME IInv, NEW lost \in SUBSET Uploads, DecidedLost(lost), \A u \in lost : open[u] > 0,
         NEW n \in Listed \cup (Messages \ DOMAIN acts)
  PROVE  /\ n \notin {u[1] : u \in lost} =>
              /\ Of(n)' = Of(n) /\ unproved'[n] = unproved[n]
              /\ \A k \in Links : builds'[<<n, k>>] = builds[<<n, k>>]
         /\ n \in {u[1] : u \in lost} =>
              /\ n \in Listed /\ Away(n) /\ n \notin spent \cup neverLeft
              /\ \/ /\ Of(n)' = {} /\ \A k \in Links : builds'[<<n, k>>] = 0
                    /\ n \notin neverLeft' /\ unproved'[n] = ups
                 \/ /\ Up /\ prop \in Links /\ \E l \in Links : <<n, l>> \in lost /\ l # prop
                    /\ Of(n)' = {Flight(n, prop)} /\ n \notin spent' \cup neverLeft'
                    /\ \A k \in Links : builds'[<<n, k>>] = IF k = prop THEN 1 ELSE 0
<1> DEFINE fs == Landed(flights, lost)
           msgs == {u[1] : u \in lost}
           on == GoesOn(fs, lost)
<1>0. TypeOK /\ OwedApart /\ Listed \subseteq Messages /\ n \in Messages
  BY Basics DEF IInv
<1>1. /\ flights' = {f \in fs : \A m \in on : ~ SameId(f.msg, m)} \cup {Flight(m, prop) : m \in on}
      /\ builds' = [u \in Uploads |-> builds[u] + (IF u[1] \in on /\ u[2] = prop THEN 1 ELSE 0)]
      /\ Unproved(msgs) /\ neverLeft' = neverLeft \ on /\ spent' = (spent \cup msgs) \ on
  BY DEF DecidedLost
<1>2. /\ on \subseteq Listed /\ (on # {} => Up /\ prop \in Links)
      /\ \A m \in on : \E l \in Links : <<m, l>> \in lost /\ prop # l
  BY <1>0, GoesOnIs
<1>3. on \subseteq msgs
  <2>1. ASSUME NEW m \in on PROVE m \in msgs
    <3>1. PICK l \in Links : <<m, l>> \in lost
      BY <1>2
    <3>2. <<m, l>>[1] = m
      OBVIOUS
    <3> QED  BY <3>1, <3>2
  <2> QED  BY <2>1
<1>4. \A u \in lost : u[1] \in Messages /\ u[2] \in Links /\ u = <<u[1], u[2]>>
  BY <1>0, Basics
<1>5. fs \subseteq flights /\ \A f \in flights : f.msg \notin msgs => f \in fs
  BY DEF Landed
<1>6. \A m \in Messages : unproved'[m] = IF m \in msgs \cap Listed THEN ups ELSE unproved[m]
  <2>1. unproved \in [Messages -> Nat] /\ ups \in Nat
    BY <1>0, Basics
  <2> QED  BY <1>1, <2>1, UnprovedIs
<1>7. \A k \in Links :
         /\ builds'[<<n, k>>] = builds[<<n, k>>] + (IF n \in on /\ k = prop THEN 1 ELSE 0)
         /\ builds[<<n, k>>] \in Nat
  BY <1>0, <1>1, Basics
<1>8. Of(n)' = {f \in flights' : f.msg = n} /\ \A f : f \in Of(n) <=> (f \in flights /\ f.msg = n)
  BY DEF Of
<1>9. \A m : Flight(m, prop).msg = m
  BY DEF Flight
<1>10. ASSUME n \notin msgs
       PROVE  /\ Of(n)' = Of(n) /\ unproved'[n] = unproved[n]
              /\ \A k \in Links : builds'[<<n, k>>] = builds[<<n, k>>]
  <2>1. n \notin on
    BY <1>3, <1>10
  <2>2. \A m \in on : ~SameId(n, m)
    BY <1>0, <1>2, <2>1, OneId
  <2> HIDE DEF fs, msgs, on
  <2>3. \A f : f \in Of(n)' <=> (f \in flights /\ f.msg = n)
    BY <1>1, <1>5, <1>8, <1>9, <1>10, <2>1, <2>2
  <2>4. Of(n)' = Of(n)
    BY <1>8, <2>3
  <2>5. unproved'[n] = unproved[n]
    BY <1>0, <1>6, <1>10
  <2> QED  BY <1>7, <2>1, <2>4, <2>5
<1>11. ASSUME n \in msgs
       PROVE  /\ n \in Listed /\ Away(n) /\ n \notin spent \cup neverLeft
              /\ \/ /\ Of(n)' = {} /\ \A k \in Links : builds'[<<n, k>>] = 0
                    /\ n \notin neverLeft' /\ unproved'[n] = ups
                 \/ /\ Up /\ prop \in Links /\ \E l \in Links : <<n, l>> \in lost /\ l # prop
                    /\ Of(n)' = {Flight(n, prop)} /\ n \notin spent' \cup neverLeft'
                    /\ \A k \in Links : builds'[<<n, k>>] = IF k = prop THEN 1 ELSE 0
  <2>1. PICK l \in Links : <<n, l>> \in lost /\ open[<<n, l>>] > 0
    BY <1>4, <1>11
  <2>2. n \in Listed
    BY <1>0, <2>1, Known
  <2>3. /\ Away(n) /\ Of(n) = {[Flight(n, l) EXCEPT !.left = TRUE]}
        /\ n \notin spent \cup neverLeft
    BY <2>1, <2>2, Which DEF Idling
  <2>4. \A f \in fs : f.msg # n
    <3>1. ASSUME NEW f \in fs, f.msg = n PROVE FALSE
      <4>1. f \in Of(n)
        BY <1>5, <1>8, <3>1
      <4>2. f = [Flight(n, l) EXCEPT !.left = TRUE]
        BY <2>3, <4>1
      <4>3. <<f.msg, f.link>> \in lost
        BY <2>1, <4>2 DEF Flight
      <4> QED  BY <3>1, <4>3 DEF Landed
    <3> QED  BY <3>1
  <2>5. \A k \in Links : builds[<<n, k>>] = 0
    BY <2>3 DEF Away
  <2> HIDE DEF fs, msgs, on
  <2>6. CASE n \notin on
    <3>1. \A f : f \notin Of(n)'
      BY <1>1, <1>8, <1>9, <2>4, <2>6
    <3>2. unproved'[n] = ups /\ n \notin neverLeft'
      BY <1>0, <1>1, <1>6, <1>11, <2>2, <2>3
    <3> QED  BY <1>7, <2>2, <2>3, <2>5, <2>6, <3>1, <3>2
  <2>7. CASE n \in on
    <3>1. Of(n)' = {Flight(n, prop)}
      <4>1. Flight(n, prop) \in flights'
        BY <1>1, <2>7
      <4>2. \A f \in flights' : f.msg = n => f = Flight(n, prop)
        BY <1>1, <1>9, <2>4
      <4> QED  BY <1>8, <1>9, <4>1, <4>2
    <3>2. n \notin spent' \cup neverLeft'
      BY <1>1, <2>7
    <3>3. \A k \in Links : builds'[<<n, k>>] = IF k = prop THEN 1 ELSE 0
      BY <1>7, <2>5, <2>7
    <3>4. Up /\ prop \in Links /\ \E j \in Links : <<n, j>> \in lost /\ j # prop
      BY <1>2, <2>7
    <3> QED  BY <2>2, <2>3, <3>1, <3>2, <3>3, <3>4
  <2> QED  BY <2>6, <2>7
<1> QED  BY <1>10, <1>11

\* Uploads are decided lost.
LEMMA LostAttempted ==
  ASSUME IInv, Base', Idle, Up' /\ Quiet(prop)' => Up /\ Quiet(prop) /\ prop' = prop /\ down' = down,
         NEW lost \in SUBSET Uploads, DecidedLost(lost), \A u \in lost : open[u] > 0,
         \A u \in Uploads \ lost : open'[u] = open[u], \A u \in lost : open'[u] = open[u] - 1 \/ open'[u] = 0,
         late' = late \cup {u[1] : u \in lost}, StillLive,
         UNCHANGED <<outbox, acts, ups, passes, lapsed, proved>>
  PROVE  Attempted
<1> DEFINE msgs == {u[1] : u \in lost}
<1>0. /\ TypeOK /\ OwedApart /\ Listed' = Listed /\ Listed \subseteq Messages /\ DOMAIN acts \subseteq Messages
      /\ neverLeft \subseteq Listed
  BY Basics, OutboxSame DEF IInv, OwedApart
<1>1. msgs \subseteq DOMAIN acts
  <2>1. ASSUME NEW u \in lost PROVE u[1] \in DOMAIN acts
    <3>1. u[1] \in Messages /\ u[2] \in Links /\ u = <<u[1], u[2]>> /\ open[u] > 0
      BY <1>0, Basics
    <3> QED  BY <3>1, Known
  <2> QED  BY <2>1
<1>2. /\ spent' \subseteq spent \cup msgs /\ neverLeft' \subseteq neverLeft
      /\ neverLeft \ msgs \subseteq neverLeft'
  <2>1. GoesOn(Landed(flights, lost), lost) \subseteq msgs
    <3>1. \A m \in GoesOn(Landed(flights, lost), lost) : \E l \in Links : <<m, l>> \in lost
      BY <1>0, GoesOnIs
    <3>2. ASSUME NEW m \in GoesOn(Landed(flights, lost), lost) PROVE m \in msgs
      <4>1. PICK l \in Links : <<m, l>> \in lost
        BY <3>1
      <4>2. <<m, l>>[1] = m
        OBVIOUS
      <4> QED  BY <4>1, <4>2
    <3> QED  BY <3>2
  <2> QED  BY <2>1 DEF DecidedLost
<1>3. unproved' \in [Messages -> Nat]
  BY <1>0, LostBase
<1>4. \A n \in Messages : Doing(n)' = Doing(n)
  BY DEF Doing
<1>5. ASSUME NEW n \in (Listed \cup (Messages \ DOMAIN acts)) \ msgs PROVE Untouched(n)
  <2>1. /\ Of(n)' = Of(n) /\ unproved'[n] = unproved[n]
        /\ \A k \in Links : builds'[<<n, k>>] = builds[<<n, k>>]
    BY <1>5, LostEffect
  <2>2. \A k \in Links : <<n, k>> \in Uploads \ lost
    BY <1>0, <1>5, Basics
  <2> QED  BY <1>0, <1>4, <1>5, <2>1, <2>2 DEF Untouched
<1>6. ASSUME NEW n \in msgs \cap Listed PROVE Well(n)
  <2>1. /\ Away(n) /\ n \notin spent \cup neverLeft
        /\ \/ /\ Of(n)' = {} /\ \A k \in Links : builds'[<<n, k>>] = 0
              /\ n \notin neverLeft' /\ unproved'[n] = ups
           \/ /\ Up /\ prop \in Links /\ \E l \in Links : <<n, l>> \in lost /\ l # prop
              /\ Of(n)' = {Flight(n, prop)} /\ n \notin spent' \cup neverLeft'
              /\ \A k \in Links : builds'[<<n, k>>] = IF k = prop THEN 1 ELSE 0
    BY <1>6, LostEffect
  <2>2. \A k \in Links : open'[<<n, k>>] = 0
    <3>1. PICK u \in lost : u[1] = n
      BY <1>6
    <3>2. u[2] \in Links /\ u = <<n, u[2]>>
      BY <1>0, <3>1, Basics
    <3>3. \A k \in Links : open[<<n, k>>] = IF k = u[2] THEN 1 ELSE 0
      BY <1>6, <3>1, <3>2, Which
    <3>4. \A k \in Links : <<n, k>> \in Uploads /\ (<<n, k>> \in lost => k = u[2])
      <4>1. \A k \in Links : <<n, k>> \in Uploads
        BY <1>0, <1>6, Basics
      <4>2. \A k \in Links : <<n, k>> \in lost => open[<<n, k>>] > 0
        OBVIOUS
      <4>3. \A k \in Links : <<n, k>> \in lost => k = u[2]
        BY <3>3, <4>2
      <4> QED  BY <4>1, <4>3
    <3>5. ASSUME NEW k \in Links PROVE open'[<<n, k>>] = 0
      <4>1. CASE k = u[2]
        BY <3>1, <3>2, <3>3, <4>1
      <4>2. CASE k # u[2]
        BY <3>3, <3>4, <4>2
      <4> QED  BY <4>1, <4>2
    <3> QED  BY <3>5
  <2>3. Doing(n)' = {}
    BY <1>0, <1>4, <1>6, <2>1 DEF Away
  <2>4. CASE /\ Of(n)' = {} /\ \A k \in Links : builds'[<<n, k>>] = 0
             /\ n \notin neverLeft' /\ unproved'[n] = ups
    <3>1. Idling(n)'
      BY <2>2, <2>3, <2>4 DEF Idling
    <3>2. ups \in Nat
      BY <1>0, Basics
    <3> QED  BY <2>4, <3>1, <3>2 DEF Well, Attempt
  <2>5. CASE /\ Up /\ prop \in Links
             /\ Of(n)' = {Flight(n, prop)} /\ n \notin spent' \cup neverLeft'
             /\ \A k \in Links : builds'[<<n, k>>] = IF k = prop THEN 1 ELSE 0
    <3>1. Live' /\ prop' = prop
      BY <2>5 DEF StillLive, Live, Up, LinkReady
    <3>2. Loose(n)'
      BY <2>2, <2>3, <2>5, <3>1 DEF Loose, Flight
    <3> QED  BY <2>5, <3>2 DEF Well, Attempt
  <2> QED  BY <2>1, <2>4, <2>5
<1>7. Confined(msgs)
  <2>1. \A n \in Messages \ DOMAIN acts' : n \notin lapsed' \cup proved' \cup late'
    BY <1>1 DEF IInv, Unknown
  <2>2. neverLeft' \subseteq Listed'
    BY DEF Base, OwedApart
  <2> QED  BY <1>0, <1>1, <1>2, <1>3, <1>5, <2>1, <2>2 DEF Confined
<1>8. Timely
  BY <1>0, Basics DEF Timely, Idle
<1>9. Covers(msgs)
  <2>1. ASSUME NEW n \in msgs \cap Listed, Up, prop' = prop PROVE Attended(n)'
    <3>1. \/ unproved'[n] = ups
          \/ prop \in Links /\ \A k \in Links : builds'[<<n, k>>] = IF k = prop THEN 1 ELSE 0
      BY <2>1, LostEffect
    <3>2. ups' = ups /\ ups \in Nat
      BY <1>0, Basics
    <3> QED  BY <3>1, <3>2 DEF Attended
  <2>2. ASSUME NEW n \in Listed \ msgs, down' = down PROVE Keeps(n)
    BY <1>2, <2>2 DEF Keeps
  <2> HIDE DEF msgs
  <2> QED  BY <1>0, <2>1, <2>2 DEF Covers
<1> QED  BY <1>0, <1>6, <1>7, <1>8, <1>9, TaskFrame DEF Attempted, Base, OwedApart

\* The exchange lost an upload, or the close of its link is heard.
LEMMA LossAttempted ==
  ASSUME IInv, Idle,
         \/ \E m \in Messages, l \in Links : UploadLost(m, l)
         \/ \E l \in Links : HearClose(l)
  PROVE  Attempted
<1>0. TypeOK /\ open \in [Uploads -> Nat] /\ Linked
  BY DEF IInv, TypeOK
<1>1. ASSUME NEW m \in Messages, NEW l \in Links, UploadLost(m, l) PROVE Attempted
  <2> DEFINE lost == {<<m, l>>}
  <2>1. /\ open[<<m, l>>] > 0 /\ open' = [open EXCEPT ![<<m, l>>] = @ - 1]
        /\ late' = late \cup {m} /\ DecidedLost(lost)
        /\ UNCHANGED <<outbox, acts, distro, ups, link, down, passes, did, proved, lapsed>>
    BY <1>1 DEF UploadLost, Decided
  <2>2. Base'
    BY <1>1, AttemptBase
  <2>3. lost \in SUBSET Uploads /\ \A u \in lost : open[u] > 0
    BY <1>0, <2>1, Basics
  <2>4. {u[1] : u \in lost} = {m}
    OBVIOUS
  <2>5. /\ \A u \in Uploads \ lost : open'[u] = open[u]
        /\ \A u \in lost : open'[u] = open[u] - 1 \/ open'[u] = 0
    BY <1>0, <2>1, <2>3
  <2>6. StillLive
    BY <2>1 DEF StillLive, Live, link
  <2>7. Up' /\ Quiet(prop)' => Up /\ Quiet(prop) /\ prop' = prop /\ down' = down
    BY <2>1 DEF Up, LinkReady, Quiet, link
  <2> HIDE DEF lost
  <2> QED  BY <2>1, <2>2, <2>3, <2>4, <2>5, <2>6, <2>7, LostAttempted
<1>2. ASSUME NEW l \in Links, HearClose(l) PROVE Attempted
  <2> DEFINE lost == {u \in Uploads : u[2] = l /\ open[u] > 0}
  <2>1. /\ Hear(l, "close") /\ DecidedLost(lost)
        /\ open' = [u \in Uploads |-> IF u[2] = l THEN 0 ELSE open[u]]
        /\ late' = late \cup {u[1] : u \in lost}
        /\ prop' = (IF prop = l THEN NoLink ELSE prop)
        /\ status' = [status EXCEPT ![l] = "closed"]
        /\ UNCHANGED <<outbox, acts, distro, ups, down, passes, did, proved, lapsed>>
    BY <1>2 DEF HearClose
  <2>2. Base'
    BY <1>2, LinkBase
  <2>3. lost \in SUBSET Uploads /\ \A u \in lost : open[u] > 0
    OBVIOUS
  <2>4. \A u \in Uploads \ lost : open'[u] = open[u]
    BY <1>0, <2>1
  <2>5. \A u \in lost : open'[u] = open[u] - 1 \/ open'[u] = 0
    BY <2>1
  <2>6. status[l] \in {"closed", "failed"}
    <3>1. \E i \in DOMAIN news : news[i].link = l /\ news[i].what = "close"
      BY <1>0, <2>1, Hears
    <3> QED  BY <1>0, <3>1 DEF Linked
  <2>7. StillLive
    <3>1. status \in [Links -> {"unused", "pending", "active", "stale", "closed", "failed"}]
      BY <1>0 DEF TypeOK
    <3> QED  BY <2>1, <2>6, <3>1 DEF StillLive, Live
  <2>8. Up' /\ Quiet(prop)' => Up /\ Quiet(prop) /\ prop' = prop /\ down' = down
    <3>1. ASSUME Up', Quiet(prop)' PROVE Up /\ Quiet(prop) /\ prop' = prop
      <4>1. prop' # NoLink /\ prop' = prop /\ prop # l /\ status'[prop] = "active"
        BY <2>1, <3>1 DEF Up, LinkReady
      <4>2. Quiet(prop)' <=> \A i \in DOMAIN news' : news'[i].link # prop
        BY <4>1 DEF Quiet
      <4>3. Quiet(prop)
        BY <1>0, <2>1, <3>1, <4>1, <4>2, Hears DEF Quiet
      <4>4. status \in [Links -> {"unused", "pending", "active", "stale", "closed", "failed"}]
        BY <1>0 DEF TypeOK
      <4> QED  BY <2>1, <3>1, <4>1, <4>3, <4>4 DEF Up, LinkReady
    <3> QED  BY <2>1, <3>1
  <2> HIDE DEF lost
  <2> QED  BY <2>1, <2>2, <2>3, <2>4, <2>5, <2>7, <2>8, LostAttempted
<1> QED  BY <1>1, <1>2

\* The exchange, down, never took an upload.
LEMMA NeverLeftAttempted ==
  ASSUME IInv, Idle, NEW m \in Messages, NEW l \in Links, UploadNeverLeft(m, l)
  PROVE  Attempted
<1>0. TypeOK /\ OwedApart /\ Listed \subseteq Messages /\ neverLeft \subseteq Listed /\ DOMAIN acts \subseteq Messages
      /\ unproved \in [Messages -> Nat] /\ ups \in Nat
  BY Basics DEF IInv, OwedApart
<1>1. /\ open[<<m, l>>] > 0 /\ open' = [open EXCEPT ![<<m, l>>] = @ - 1]
      /\ late' = late \cup {m} /\ flights' = Landed(flights, {<<m, l>>})
      /\ neverLeft' = (IF m \in Listed THEN neverLeft \cup {m} ELSE neverLeft)
      /\ UNCHANGED <<outbox, acts, distro, ups, unproved, link, down, builds, passes, did, history>>
  BY DEF UploadNeverLeft, Decided
<1>2. Base' /\ Listed' = Listed
  BY AttemptBase
<1>3. \A n \in Messages : Doing(n)' = Doing(n)
  BY <1>1 DEF Doing
<1>4. \A n \in Messages, k \in Links :
        open'[<<n, k>>] = IF n = m /\ k = l THEN open[<<n, k>>] - 1 ELSE open[<<n, k>>]
  BY <1>0, <1>1, Basics DEF TypeOK
<1>5. m \in DOMAIN acts
  BY <1>1, Known
<1>6. (\A n : n # m => Of(n)' = Of(n)) /\ Of(m)' = {f \in Of(m) : f.link # l}
  BY <1>1, Lands
<1>7. Confined({m})
  <2>1. StillLive
    BY <1>1 DEF StillLive, Live, link
  <2>2. \A n \in ((Listed \cap Listed') \cup (Messages \ DOMAIN acts)) \ {m} : Untouched(n)
    BY <1>0, <1>1, <1>3, <1>4, <1>6 DEF Untouched
  <2>3. \A n \in Messages \ DOMAIN acts' : n \notin lapsed' \cup proved' \cup late'
    BY <1>1, <1>5 DEF IInv, Unknown, history
  <2> QED  BY <1>0, <1>1, <1>2, <1>5, <2>1, <2>2, <2>3 DEF Confined, history
<1>8. ASSUME m \in Listed PROVE Well(m)
  <2>1. /\ Away(m) /\ Of(m) = {[Flight(m, l) EXCEPT !.left = TRUE]}
        /\ \A k \in Links : open[<<m, k>>] = IF k = l THEN 1 ELSE 0
        /\ m \notin spent
    BY <1>1, <1>8, Which DEF Idling
  <2>2. [Flight(m, l) EXCEPT !.left = TRUE].link = l
    BY DEF Flight
  <2>3. Of(m)' = {}
    BY <1>6, <2>1, <2>2
  <2>4. Idling(m)'
    BY <1>1, <1>3, <1>4, <2>1, <2>3 DEF Idling, Away
  <2> QED  BY <1>1, <2>1, <2>4 DEF Well, Attempt, history
<1>9. Timely
  BY <1>0, <1>1 DEF Timely, Idle
<1>10. Covers({m})
  <2>1. m \in Listed => Attended(m)'
    BY <1>1 DEF Attended, UploadNeverLeft
  <2>2. \A n \in Listed : Keeps(n)
    BY <1>1 DEF Keeps
  <2> QED  BY <1>1, <1>2, <2>1, <2>2 DEF Covers, Up, LinkReady, Quiet, link
<1> QED  BY <1>2, <1>7, <1>8, <1>9, <1>10, TaskFrame DEF Attempted, Base, OwedApart

\* A proof comes.
LEMMA ProofAttempted ==
  ASSUME IInv, Idle, NEW m \in Messages, LateProof(m) \/ \E l \in Links : UploadProved(m, l)
  PROVE  Attempted
<1>0. TypeOK /\ OwedApart /\ Listed \subseteq Messages /\ DOMAIN acts \subseteq Messages /\ ups \in Nat
      /\ neverLeft \subseteq Listed
  BY Basics DEF IInv, OwedApart
<1>1. /\ late' = late \ {m} /\ proved' = proved \cup {m}
      /\ UNCHANGED <<acts, distro, ups, link, down, builds, passes, did, lapsed, spent>>
  BY DEF LateProof, UploadProved, Settled
<1>2. /\ Base' /\ Listed' = Listed \ {m} /\ neverLeft' = neverLeft \ {m}
      /\ \A n \in Messages \ {m} : unproved'[n] = unproved[n]
  BY ProofBase
<1>3. /\ \A n \in Messages \ {m} : Of(n)' = Of(n) /\ \A k \in Links : open'[<<n, k>>] = open[<<n, k>>]
      /\ m \in DOMAIN acts
  <2>1. CASE LateProof(m)
    BY <2>1, Known DEF LateProof, Of
  <2>2. ASSUME NEW l \in Links, UploadProved(m, l)
        PROVE  /\ \A n \in Messages \ {m} : Of(n)' = Of(n) /\ \A k \in Links : open'[<<n, k>>] = open[<<n, k>>]
               /\ m \in DOMAIN acts
    <3>1. /\ open[<<m, l>>] > 0 /\ open' = [open EXCEPT ![<<m, l>>] = @ - 1]
          /\ flights' = Landed(flights, {<<m, l>>})
      BY <2>2 DEF UploadProved, Decided
    <3>2. \A n \in Messages \ {m}, k \in Links : open'[<<n, k>>] = open[<<n, k>>]
      BY <1>0, <3>1, Basics DEF TypeOK
    <3> QED  BY <3>1, <3>2, Lands, Known
  <2> QED  BY <2>1, <2>2
<1>4. Confined({m})
  <2>1. StillLive
    BY <1>1 DEF StillLive, Live, link
  <2>2. \A n \in ((Listed \cap Listed') \cup (Messages \ DOMAIN acts)) \ {m} : Untouched(n)
    BY <1>0, <1>1, <1>2, <1>3 DEF Untouched, Doing
  <2>3. \A n \in Messages \ DOMAIN acts' : n \notin lapsed' \cup proved' \cup late'
    BY <1>1, <1>3 DEF IInv, Unknown
  <2>4. unproved' \in [Messages -> Nat] /\ neverLeft' \subseteq Listed'
    BY <1>2 DEF Base, TypeOK, OwedApart
  <2> QED  BY <1>0, <1>1, <1>2, <1>3, <2>1, <2>2, <2>3, <2>4 DEF Confined
<1>5. Timely
  BY <1>0, <1>1 DEF Timely, Idle
<1>6. Covers({m})
  <2>1. \A n \in Listed' : Keeps(n)
    BY <1>1, <1>2 DEF Keeps
  <2> QED  BY <1>1, <1>2, <2>1 DEF Covers, Up, LinkReady, Quiet, link
<1> QED  BY <1>2, <1>4, <1>5, <1>6, TaskFrame DEF Attempted, Base, OwedApart

\* Another distro, or none.
LEMMA ChangeAttempted ==
  ASSUME IInv, Idle, NEW d \in Distros \cup {NoDistro}, ChangeDistro(d)
  PROVE  Attempted
<1>0. TypeOK /\ OwedApart /\ Listed \subseteq Messages /\ DOMAIN acts \subseteq Messages /\ ups \in Nat
      /\ Membership \subseteq DOMAIN acts
  BY Basics DEF IInv
<1>1. /\ lapsed' = lapsed \cup {m \in Membership : acts[m].distro # d}
      /\ UNCHANGED <<acts, ups, link, down, attempts, open, late, proved, spent>>
  BY DEF ChangeDistro
<1>2. /\ Base' /\ Listed' = Listed \ OwedToOthers(d) /\ neverLeft' = neverLeft \ OwedToOthers(d)
      /\ \A n \in Messages \ OwedToOthers(d) : unproved'[n] = unproved[n]
  BY ChangeDistroBase
<1>3. OwedToOthers(d) \subseteq DOMAIN acts
  BY <1>0 DEF OwedToOthers
<1>4. Confined({})
  <2>1. StillLive
    BY <1>1 DEF StillLive, Live, link
  <2>2. \A n \in (Listed \cap Listed') \cup (Messages \ DOMAIN acts) : Untouched(n)
    BY <1>0, <1>1, <1>2, <1>3 DEF Untouched, Doing, Of, attempts
  <2>3. \A n \in Messages \ DOMAIN acts' : n \notin lapsed' \cup proved' \cup late'
    BY <1>0, <1>1 DEF IInv, Unknown
  <2>4. unproved' \in [Messages -> Nat] /\ neverLeft' \subseteq Listed'
    BY <1>2 DEF Base, TypeOK, OwedApart
  <2> QED  BY <1>0, <1>1, <1>2, <2>1, <2>2, <2>3, <2>4 DEF Confined
<1>5. Timely
  BY <1>0, <1>1 DEF Timely, Idle, attempts
<1>6. Covers({})
  <2>1. \A n \in Listed' : Keeps(n)
    BY <1>1, <1>2 DEF Keeps, attempts
  <2> QED  BY <1>1, <1>2, <2>1 DEF Covers, Up, LinkReady, Quiet, link
<1> QED  BY <1>2, <1>4, <1>5, <1>6, TaskFrame DEF Attempted, Base, OwedApart

\* A link gone for good, which may be the one at hand: what it was built for
\* is alone again, and nothing else changes.
LEMMA GoneEffect ==
  ASSUME IInv, NEW l, GoneFor(l), open' = open, unproved' = unproved, l = prop \/ StillLive
  PROVE  /\ \A m \in Messages : Idling(m) => Untouched(m)
         /\ \A m \in Listed : Attempt(m)' /\ (Idling(m) => Idling(m)')
         /\ passes' \subseteq passes
<1>1. /\ flights' = {f \in flights : f.link # l \/ f.left}
      /\ builds' = [u \in Uploads |-> IF u[2] = l THEN 0 ELSE builds[u]]
      /\ passes' = {p \in passes : p.link # l}
  BY DEF GoneFor
<1>2. \A m \in Messages, k \in Links : builds'[<<m, k>>] = IF k = l THEN 0 ELSE builds[<<m, k>>]
  BY <1>1 DEF Uploads
<1>3. \A m \in Messages : Of(m)' = {f \in Of(m) : f.link # l \/ f.left}
  BY <1>1 DEF Of
<1>4. \A m \in Messages : Doing(m)' = {p \in Doing(m) : p.link # l}
  BY <1>1 DEF Doing
<1>5. ASSUME NEW m \in Messages, Idling(m) PROVE Untouched(m)
  <2>1. Of(m) = {} /\ Doing(m) = {} /\ \A k \in Links : builds[<<m, k>>] = 0
    BY <1>5 DEF Idling
  <2>2. Of(m)' = {} /\ Doing(m)' = {} /\ \A k \in Links : builds'[<<m, k>>] = 0
    BY <1>2, <1>3, <1>4, <2>1
  <2> QED  BY <2>1, <2>2 DEF Untouched
<1>6. ASSUME NEW m \in Listed PROVE Attempt(m)' /\ (Idling(m) => Idling(m)')
  <2>0. m \in Messages /\ Attempt(m)
    BY <1>6, Which
  <2>1. CASE Idling(m)
    BY <1>5, <2>0, <2>1, Stays DEF Attempt
  <2>2. CASE Away(m)
    <3>1. PICK j \in Links : /\ Of(m) = {[Flight(m, j) EXCEPT !.left = TRUE]}
                             /\ \A k \in Links : open[<<m, k>>] = IF k = j THEN 1 ELSE 0
      BY <2>2 DEF Away
    <3>2. [Flight(m, j) EXCEPT !.left = TRUE].left
      BY DEF Flight
    <3>3. Of(m)' = {[Flight(m, j) EXCEPT !.left = TRUE]}
      BY <1>3, <2>0, <3>1, <3>2
    <3>4. Away(m)'
      BY <1>2, <1>4, <2>0, <2>2, <3>1, <3>3 DEF Away, Flight
    <3>5. ~Idling(m)
      BY <3>1 DEF Idling
    <3> QED  BY <3>4, <3>5 DEF Attempt
  <2>3. CASE Loose(m) \/ Passing(m)
    <3>0. /\ Live /\ Of(m) = {Flight(m, prop)} /\ Flight(m, prop).link = prop /\ ~Flight(m, prop).left
          /\ ~Idling(m) /\ \A k \in Links : open[<<m, k>>] = 0
      BY <2>3 DEF Loose, Passing, Flight, Idling
    <3>1. CASE l = prop
      <4>1. Of(m)' = {}
        BY <1>3, <2>0, <3>0, <3>1
      <4>2. Doing(m)' = {} /\ \A k \in Links : builds'[<<m, k>>] = 0
        BY <1>2, <1>4, <2>0, <2>3, <3>1 DEF Loose, Passing
      <4>3. Idling(m)'
        BY <3>0, <4>1, <4>2 DEF Idling
      <4> QED  BY <3>0, <4>3 DEF Attempt
    <3>2. CASE l # prop
      <4>1. Of(m)' = Of(m)
        BY <1>3, <2>0, <3>0, <3>2
      <4>2. Doing(m)' = Doing(m) /\ \A k \in Links : builds'[<<m, k>>] = builds[<<m, k>>]
        BY <1>2, <1>4, <2>0, <2>3, <3>2 DEF Loose, Passing
      <4>3. Untouched(m) /\ StillLive
        BY <2>0, <3>2, <4>1, <4>2 DEF Untouched
      <4> QED  BY <2>0, <3>0, <4>3, Stays
    <3> QED  BY <3>1, <3>2
  <2> QED  BY <2>0, <2>1, <2>2, <2>3 DEF Attempt
<1> QED  BY <1>1, <1>5, <1>6

\* The link's own steps.
LEMMA LinkAttempted ==
  ASSUME IInv, Idle, NEW l \in Links,
         Establish(l) \/ LinkUp(l) \/ LinkStale(l) \/ LinkRecovers(l) \/ LinkCloses(l)
  PROVE  Attempted
<1>0. /\ TypeOK /\ OwedApart /\ Linked /\ Listed \subseteq Messages /\ DOMAIN acts \subseteq Messages
      /\ ups \in Nat /\ unproved \in [Messages -> Nat] /\ neverLeft \subseteq Listed
      /\ status \in [Links -> {"unused", "pending", "active", "stale", "closed", "failed"}]
  BY Basics DEF IInv, OwedApart, TypeOK
<1>1. Base' /\ Listed' = Listed
  BY LinkBase
<1>2. UNCHANGED <<outbox, acts, distro, ups, records, down, open, late, history>>
  BY DEF Establish, LinkUp, LinkStale, LinkRecovers, LinkCloses
<1>3. \A n \in Messages \ DOMAIN acts' : n \notin lapsed' \cup proved' \cup late'
  BY <1>2 DEF IInv, Unknown, history
<1>4. CASE UNCHANGED attempts /\ StillLive /\ (Up' /\ Quiet(prop)' => Up /\ Quiet(prop) /\ prop' = prop)
  <2>1. \A n \in Messages : Untouched(n)
    BY <1>2, <1>4 DEF Untouched, Of, Doing, attempts, records
  <2>2. Confined({})
    BY <1>0, <1>1, <1>2, <1>3, <1>4, <2>1 DEF Confined, records, history
  <2>3. Timely
    BY <1>0, <1>2, <1>4 DEF Timely, Idle, attempts
  <2>4. \A n \in Listed : Keeps(n)
    BY <1>2, <1>4 DEF Keeps, attempts, records
  <2>5. Covers({})
    BY <1>2, <1>4, <2>4 DEF Covers
  <2> QED  BY <1>1, <2>2, <2>3, <2>5, TaskFrame DEF Attempted, Base, OwedApart
<1>5. ASSUME NEW k, GoneFor(k), k = prop \/ StillLive,
             Up' /\ Quiet(prop)' => Up /\ Quiet(prop) /\ prop' = prop /\ k # prop
      PROVE  Attempted
  <2>1. /\ \A m \in Messages : Idling(m) => Untouched(m)
        /\ \A m \in Listed : Attempt(m)' /\ (Idling(m) => Idling(m)')
        /\ passes' \subseteq passes
    BY <1>2, <1>5, GoneEffect DEF records
  <2>2. \A n \in Messages \ DOMAIN acts : Untouched(n)
    BY <2>1 DEF IInv, Unknown
  <2>3. Confined(DOMAIN acts)
    BY <1>0, <1>1, <1>2, <1>3, <2>2 DEF Confined, records, history
  <2>4. \A m \in DOMAIN acts \cap Listed' : Well(m)
    BY <1>1, <1>2, <2>1 DEF Well, IInv, Failed, records, history
  <2>5. Timely
    BY <1>0, <1>2, <2>1 DEF Timely, Idle
  <2>6. ASSUME Up, Quiet(prop), prop' = prop, k # prop, NEW n \in Listed PROVE Attended(n)'
    <3>1. /\ builds' = [u \in Uploads |-> IF u[2] = k THEN 0 ELSE builds[u]]
          /\ passes' = {p \in passes : p.link # k}
      BY <1>5 DEF GoneFor
    <3>2. n \in Messages /\ \A j \in Links : builds[<<n, j>>] > 0 => j = prop
      BY Which
    <3>3. \A j \in Links : builds[<<n, j>>] > 0 => builds'[<<n, j>>] > 0
      BY <2>6, <3>1, <3>2 DEF Uploads
    <3>4. Doing(n) # {} => Doing(n)' # {}
      <4>1. ASSUME Doing(n) # {} PROVE \E p \in Doing(n) : p.link = prop
        BY <4>1, Which DEF Passing
      <4> QED  BY <2>6, <3>1, <4>1 DEF Doing
    <3>5. Attended(n)
      BY <2>6 DEF IInv, Covered
    <3> QED  BY <1>2, <2>6, <3>1, <3>3, <3>4, <3>5 DEF Attended, records
  <2>7. Covers(DOMAIN acts)
    BY <1>1, <1>5, <2>6 DEF Covers
  <2> QED  BY <1>1, <2>3, <2>4, <2>5, <2>7, TaskFrame DEF Attempted, Base, OwedApart
<1>6. CASE Establish(l)
  <2>1. GoneFor(prop) /\ prop' = l /\ status' = [status EXCEPT ![l] = "pending"]
    BY <1>6 DEF Establish
  <2>2. ~Up'
    BY <1>0, <2>1 DEF Up, LinkReady
  <2> QED  BY <1>5, <2>1, <2>2
<1>7. CASE LinkUp(l)
  <2>1. /\ status[l] = "pending" /\ status' = [status EXCEPT ![l] = "active"]
        /\ UNCHANGED <<prop, attempts>> /\ Emit(l, "established")
    BY <1>7 DEF LinkUp
  <2>2. StillLive
    BY <1>0, <2>1 DEF StillLive, Live
  <2>3. prop' = l /\ \E i \in DOMAIN news' : news'[i].link = l
    BY <1>0, <2>1, Emits DEF Linked
  <2>4. ~Quiet(prop)'
    BY <2>3 DEF Quiet
  <2> QED  BY <1>4, <2>1, <2>2, <2>4
<1>8. CASE LinkStale(l)
  <2>1. status' = [status EXCEPT ![l] = "stale"] /\ UNCHANGED <<prop, news, attempts>>
    BY <1>8 DEF LinkStale
  <2>2. StillLive
    BY <1>0, <2>1 DEF StillLive, Live
  <2>3. Up' /\ Quiet(prop)' => Up /\ Quiet(prop)
    BY <1>0, <2>1 DEF Up, LinkReady, Quiet
  <2> QED  BY <1>4, <2>1, <2>2, <2>3
<1>9. CASE LinkRecovers(l)
  <2>1. /\ status' = [status EXCEPT ![l] = "active"] /\ UNCHANGED <<prop, attempts>>
        /\ Emit(l, "recovered")
    BY <1>9 DEF LinkRecovers
  <2>2. StillLive
    BY <1>0, <2>1 DEF StillLive, Live
  <2>3. /\ \A i \in DOMAIN news : i \in DOMAIN news' /\ news'[i] = news[i]
        /\ \E i \in DOMAIN news' : news'[i].link = l
    BY <1>0, <2>1, Emits
  <2>4. ASSUME Up', Quiet(prop)' PROVE Up /\ Quiet(prop)
    <3>1. prop # l /\ Quiet(prop)
      BY <2>1, <2>3, <2>4 DEF Quiet
    <3>2. Up
      BY <1>0, <2>1, <2>4, <3>1 DEF Up, LinkReady
    <3> QED  BY <3>1, <3>2
  <2> QED  BY <1>4, <2>1, <2>2, <2>4
<1>10. CASE LinkCloses(l)
  <2>1. status' = [status EXCEPT ![l] = IF @ = "pending" THEN "failed" ELSE "closed"]
        /\ prop' = prop /\ GoneFor(l) /\ Emit(l, "close")
    BY <1>10 DEF LinkCloses
  <2>2. l = prop \/ StillLive
    BY <1>0, <2>1 DEF StillLive, Live
  <2>3. ASSUME Up', Quiet(prop)' PROVE Up /\ Quiet(prop) /\ l # prop
    <3>1. \A i \in DOMAIN news : i \in DOMAIN news' /\ news'[i] = news[i]
      BY <1>0, <2>1, Emits
    <3>2. Up /\ l # prop
      BY <1>0, <2>1, <2>3 DEF Up, LinkReady
    <3> QED  BY <2>1, <2>3, <3>1, <3>2 DEF Quiet
  <2> QED  BY <1>5, <2>1, <2>2, <2>3
<1> QED  BY <1>6, <1>7, <1>8, <1>9, <1>10

\* The exchange fails, or is back and begins a pass over what never left.
LEMMA ExchangeAttempted ==
  ASSUME IInv, Idle, ExchangeFails \/ ExchangeBack
  PROVE  Attempted
<1>0. /\ TypeOK /\ OwedApart /\ Listed \subseteq Messages /\ DOMAIN acts \subseteq Messages
      /\ ups \in Nat /\ unproved \in [Messages -> Nat] /\ neverLeft \subseteq Listed /\ NoMessage \notin Messages
  BY Basics DEF IInv, OwedApart
<1>1. Base' /\ Listed' = Listed
  BY AttemptBase
<1>2. /\ UNCHANGED <<outbox, acts, distro, ups, records, link, flights, builds, open, late, history>>
      /\ passes' = passes \/ SendDistroNeverLeft
  BY DEF ExchangeFails, ExchangeBack, attempts
<1>3. \A p \in passes' : p \in passes \/ (p.building = NoMessage /\ p.at = 0)
  BY <1>2 DEF SendDistroNeverLeft, Going
<1>4. passes \subseteq passes'
  BY <1>2 DEF SendDistroNeverLeft
<1>5. \A n \in Messages : Untouched(n)
  <2>1. \A n \in Messages : Doing(n)' = Doing(n)
    BY <1>0, <1>3, <1>4 DEF Doing
  <2> QED  BY <1>2, <2>1 DEF Untouched, Of, records
<1>6. Confined({})
  <2>1. StillLive
    BY <1>2 DEF StillLive, Live, link
  <2>2. \A n \in Messages \ DOMAIN acts' : n \notin lapsed' \cup proved' \cup late'
    BY <1>2 DEF IInv, Unknown, history
  <2> QED  BY <1>0, <1>1, <1>2, <1>5, <2>1, <2>2 DEF Confined, records, history
<1>7. Timely
  BY <1>0, <1>2, <1>3 DEF Timely, Idle
<1>8. Covers({})
  <2>1. CASE ExchangeFails
    <3>1. \A n \in Listed : Keeps(n)
      BY <1>2, <2>1 DEF Keeps, records, attempts, ExchangeFails
    <3> QED  BY <1>1, <1>2, <3>1 DEF Covers, Up, LinkReady, Quiet, link
  <2>2. CASE ExchangeBack
    <3>1. ASSUME NEW n \in Listed, Up, Quiet(prop) PROVE Attended(n)'
      <4>1. SendDistroNeverLeft /\ ups' = ups /\ prop' = prop /\ neverLeft' = neverLeft
        BY <1>2, <2>2 DEF ExchangeBack, link, records
      <4>2. CASE n \in neverLeft
        <5> DEFINE r == [link |-> prop, at |-> 0, back |-> did, todo |-> Listed \cap neverLeft,
                         building |-> NoMessage]
        <5>1. r \in passes' /\ r.link = prop /\ r.at = 0 /\ n \in r.todo
          BY <3>1, <4>1, <4>2 DEF SendDistroNeverLeft, Going
        <5> HIDE DEF r
        <5> QED  BY <4>1, <4>2, <5>1 DEF Attended
      <4>3. CASE n \notin neverLeft
        <5>1. Attended(n) /\ Untouched(n)
          BY <1>0, <1>5, <3>1 DEF IInv, Covered
        <5>2. Attended(n)'
          BY <1>4, <4>1, <4>3, <5>1 DEF Attended, Untouched
        <5> QED  BY <5>2
      <4> QED  BY <4>2, <4>3
    <3> QED  BY <1>1, <1>2, <3>1 DEF Covers, Up, LinkReady, Quiet, link
  <2> QED  BY <2>1, <2>2
<1> QED  BY <1>1, <1>6, <1>7, <1>8, TaskFrame DEF Attempted, Base, OwedApart

\* The connection stops, or the page is loaded again.
LEMMA StopAttempted ==
  ASSUME IInv, Idle, Disconnect \/ Reload
  PROVE  Attempted
<1>0. /\ TypeOK /\ OwedApart /\ Listed \subseteq Messages /\ DOMAIN acts \subseteq Messages
      /\ ups \in Nat /\ unproved \in [Messages -> Nat] /\ neverLeft \subseteq Listed
  BY Basics DEF IInv, OwedApart
<1>1. Base' /\ Listed' \subseteq Listed /\ acts' = acts
  BY StopBase
<1>2. /\ flights' = {} /\ passes' = {} /\ late' = {} /\ prop' = NoLink
      /\ builds' = [u \in Uploads |-> 0] /\ open' = [u \in Uploads |-> 0]
      /\ UNCHANGED <<lapsed, proved>>
  BY DEF Disconnect, Reload, Stopped
<1>3. \A n \in Messages : Idling(n)'
  <2>1. \A n \in Messages, k \in Links : open'[<<n, k>>] = 0 /\ builds'[<<n, k>>] = 0
    BY <1>2 DEF Uploads
  <2> QED  BY <1>2, <2>1 DEF Idling, Of, Doing
<1>4. Cut \subseteq DOMAIN acts
  BY Known DEF Cut
<1>5. /\ spent' \subseteq spent \cup DOMAIN acts /\ neverLeft' \subseteq neverLeft
      /\ \A m \in Listed' : ~(m \in spent' /\ m \in neverLeft')
      /\ \A m \in Messages \ DOMAIN acts : unproved'[m] = unproved[m] \/ Reload
      /\ \A m \in Listed' \cap spent' : unproved'[m] >= ups \/ (m \in spent /\ unproved'[m] = unproved[m])
  <2>1. CASE Disconnect
    <3>1. Unproved(Cut) /\ spent' = spent \cup Cut /\ neverLeft' = neverLeft
      BY <2>1 DEF Disconnect
    <3>2. \A m \in Messages : unproved'[m] = IF m \in Cut \cap Listed THEN ups ELSE unproved[m]
      BY <1>0, <3>1, UnprovedIs
    <3>3. ASSUME NEW m \in Listed', m \in spent', m \in neverLeft' PROVE FALSE
      <4>1. m \in Listed /\ m \in neverLeft /\ m \in spent \cup Cut
        BY <1>1, <3>1, <3>3
      <4>2. m \notin spent /\ Idling(m)
        BY <4>1 DEF IInv, Failed
      <4>3. \A k \in Links : ~(open[<<m, k>>] > 0)
        BY <4>2 DEF Idling
      <4> QED  BY <4>1, <4>2, <4>3 DEF Cut
    <3> QED  BY <1>0, <1>1, <1>4, <3>1, <3>2, <3>3
  <2>2. CASE Reload
    <3>1. spent' = {} /\ ForgetUploads(Messages)
      BY <2>2 DEF Reload
    <3>2. neverLeft' \subseteq neverLeft
      BY <1>0, <3>1, Forgets
    <3> QED  BY <2>2, <3>1, <3>2
  <2> QED  BY <2>1, <2>2
<1>6. /\ \A n \in Messages \ DOMAIN acts' : n \notin lapsed' \cup proved' \cup spent' \cup late'
  <2>1. CASE Disconnect
    BY <1>1, <1>2, <1>4, <2>1 DEF IInv, Unknown, Disconnect
  <2>2. CASE Reload
    BY <1>1, <1>2, <2>2 DEF IInv, Unknown, Reload
  <2> QED  BY <2>1, <2>2
<1> QED
  BY <1>0, <1>1, <1>2, <1>3, <1>5, <1>6
     DEF Attempted, OneAttempt, Unknown, Failed, Covered, Up, Base, OwedApart

\* A coming-up is heard, and a pass begins.
LEMMA ComingUpAttempted ==
  ASSUME IInv, Idle, NEW l \in Links, HearEstablished(l) \/ HearRecovered(l)
  PROVE  Attempted
<1>0. /\ TypeOK /\ OwedApart /\ Listed \subseteq Messages /\ DOMAIN acts \subseteq Messages
      /\ ups \in Nat /\ unproved \in [Messages -> Nat] /\ neverLeft \subseteq Listed /\ NoMessage \notin Messages
  BY Basics DEF IInv, OwedApart
<1>1. Base' /\ Listed' = Listed /\ acts' = acts
  BY ComingUpHeard
<1>2. /\ UNCHANGED <<acts, distro, prop, status, down, flights, builds, open, late, did, proved, lapsed>>
      /\ SendDistroOutbox(l) \/ UNCHANGED <<outbox, records, ups, passes, spent>>
  BY DEF HearEstablished, HearRecovered
<1>3. CASE SendDistroOutbox(l)
  <2>1. /\ unproved' \in [Messages -> Nat] /\ neverLeft' = neverLeft /\ ups' = ups + 1
        /\ \A m \in Messages : unproved'[m] = unproved[m]
        /\ passes' = passes \cup Going([link |-> l, at |-> ups + 1, back |-> 0, todo |-> Listed,
                                        building |-> NoMessage])
        /\ spent' = (IF LinkReady(l) THEN {} ELSE spent)
    BY <1>0, <1>3, ComingUpBase
  <2>2. \A p \in passes' : p \in passes \/ (p.building = NoMessage /\ p.at = ups + 1 /\ p.link = l)
    BY <2>1 DEF Going
  <2>3. \A n \in Messages : Untouched(n)
    <3>1. \A n \in Messages : Doing(n)' = Doing(n)
      BY <1>0, <2>1, <2>2 DEF Doing
    <3> QED  BY <1>2, <2>1, <3>1 DEF Untouched, Of
  <2>4. Confined({})
    <3>1. StillLive
      BY <1>2 DEF StillLive, Live
    <3>2. \A n \in Messages \ DOMAIN acts' : n \notin lapsed' \cup proved' \cup late'
      BY <1>2 DEF IInv, Unknown
    <3>3. spent' \subseteq spent
      BY <2>1
    <3> QED  BY <1>0, <1>1, <1>2, <2>1, <2>3, <3>1, <3>2, <3>3 DEF Confined
  <2>5. Timely
    <3>1. ups' \in Nat /\ ups' >= ups /\ ups + 1 <= ups'
      BY <1>0, <2>1
    <3>2. LinkReady(l)' = LinkReady(l)
      BY <1>2 DEF LinkReady
    <3>3. ASSUME NEW p \in passes', p \notin passes
          PROVE  p.at <= ups' /\ (spent' = {} \/ (p.building = NoMessage /\ ~LinkReady(p.link)'))
      <4>1. p.building = NoMessage /\ p.at = ups + 1 /\ p.link = l
        BY <2>2, <3>3
      <4>2. LinkReady(p.link)' <=> LinkReady(l)'
        BY <4>1 DEF LinkReady
      <4> QED  BY <2>1, <3>1, <3>2, <4>1, <4>2
    <3> QED  BY <3>1, <3>3 DEF Timely, Idle
  <2>6. Covers({})
    <3>1. Up' => prop = l
      <4>1. CASE HearEstablished(l)
        <5>1. \E i \in DOMAIN news : news[i].link = l /\ news[i].what = "established"
          BY <1>0, <4>1, Hears DEF HearEstablished
        <5> QED  BY <1>2, <5>1 DEF IInv, Linked, Up
      <4>2. CASE HearRecovered(l)
        <5>1. LinkReady(l) \/ ups' = ups
          BY <4>2 DEF HearRecovered
        <5> QED  BY <1>0, <2>1, <5>1 DEF LinkReady
      <4> QED  BY <4>1, <4>2
    <3>2. ASSUME Up', NEW n \in Listed' PROVE Attended(n)'
      <4> DEFINE r == [link |-> l, at |-> ups + 1, back |-> 0, todo |-> Listed, building |-> NoMessage]
      <4>1. r.link = l /\ r.at = ups + 1 /\ n \in r.todo
        BY <1>1, <3>2
      <4>2. r \in passes'
        BY <2>1, <4>1 DEF Going
      <4> HIDE DEF r
      <4>3. r.link = prop' /\ r.at = ups'
        BY <1>2, <2>1, <3>1, <3>2, <4>1
      <4> QED  BY <4>1, <4>2, <4>3 DEF Attended
    <3> QED  BY <3>2 DEF Covers
  <2> QED  BY <1>1, <2>4, <2>5, <2>6, TaskFrame DEF Attempted, Base, OwedApart
<1>4. CASE UNCHANGED <<outbox, records, ups, passes, spent>>
  <2>1. \A n \in Messages : Untouched(n)
    BY <1>2, <1>4 DEF Untouched, Of, Doing, records
  <2>2. Confined({})
    <3>1. StillLive
      BY <1>2 DEF StillLive, Live
    <3>2. \A n \in Messages \ DOMAIN acts' : n \notin lapsed' \cup proved' \cup late'
      BY <1>2 DEF IInv, Unknown
    <3> QED  BY <1>0, <1>1, <1>2, <1>4, <2>1, <3>1, <3>2 DEF Confined, records
  <2>3. Timely
    BY <1>0, <1>4 DEF Timely, Idle
  <2>4. Covers({})
    <3>0. \A n \in Listed : Keeps(n)
      BY <1>2, <1>4 DEF Keeps, records
    <3>1. CASE prop = l /\ Up'
      <4>1. ups' = ups + 1
        BY <1>0, <1>2, <3>1, ComingUpBase DEF HearEstablished, HearRecovered, Up, LinkReady
      <4> QED  BY <1>0, <1>4, <4>1
    <3>2. CASE prop # l
      <4>1. Quiet(prop)' => Quiet(prop)
        <5>1. /\ \A i \in DOMAIN news' : i + 1 \in DOMAIN news /\ news'[i] = news[i + 1]
              /\ \A k : k # l => (Quiet(k)' <=> Quiet(k))
          BY <1>0, Hears DEF HearEstablished, HearRecovered
        <5>2. Quiet(prop)' <=> \A i \in DOMAIN news' : news'[i].link # prop
          BY <1>2 DEF Quiet
        <5> QED  BY <3>2, <5>1, <5>2 DEF Quiet
      <4> QED  BY <1>1, <1>2, <1>4, <3>0, <4>1 DEF Covers, Up, LinkReady
    <3> QED  BY <3>1, <3>2 DEF Covers
  <2> QED  BY <1>1, <2>2, <2>3, <2>4, TaskFrame DEF Attempted, Base, OwedApart
<1> QED  BY <1>2, <1>3, <1>4

\* The user's act: it is being built, if the link at hand is up.
LEMMA OweAttempted ==
  ASSUME IInv, Idle, NEW kind \in Kinds, Owe(kind)
  PROVE  Attempted
<1> PICK m : m = Len(acts) + 1
  OBVIOUS
<1> DEFINE replaced == IF kind = "channel" THEN Listed \cap Membership ELSE {}
           same == IF kind = "channel" THEN Membership ELSE {}
<1>0. /\ TypeOK /\ OwedApart /\ Listed \subseteq Messages /\ DOMAIN acts \subseteq Messages
      /\ ups \in Nat /\ unproved \in [Messages -> Nat] /\ neverLeft \subseteq Listed
      /\ Listed \subseteq DOMAIN acts /\ Membership \subseteq DOMAIN acts
  BY Basics DEF IInv, OwedApart
<1>1. /\ ForgetUploads(replaced) /\ lapsed' = lapsed \cup same
      /\ IF Up
           THEN /\ flights' = {f \in flights : f.msg \notin same} \cup {Flight(m, prop)}
                /\ builds' = [builds EXCEPT ![<<m, prop>>] = @ + 1]
           ELSE UNCHANGED <<flights, builds>>
      /\ UNCHANGED <<distro, ups, link, down, passes, open, late, did, proved, spent>>
  BY DEF Owe
<1>2. /\ Base' /\ m \in Messages \ DOMAIN acts
      /\ Listed' = (Listed \ same) \cup {m} /\ DOMAIN acts' = DOMAIN acts \cup {m}
  BY OweBase
<1>3. /\ unproved' \in [Messages -> Nat] /\ neverLeft' = neverLeft \ replaced
      /\ \A n \in Messages \ replaced : unproved'[n] = unproved[n]
  BY <1>0, <1>1, Forgets
<1>4. Idling(m) /\ m \notin lapsed \cup proved \cup spent \cup late
  BY <1>2 DEF IInv, Unknown
<1>5. replaced \subseteq same /\ same \subseteq DOMAIN acts
  BY <1>0
<1>6. Flight(m, prop).msg = m
  BY DEF Flight
<1>7. \A n \in Messages : Doing(n)' = Doing(n)
  BY <1>1 DEF Doing
<1>8. /\ \A n \in Messages : Of(n) = {f \in flights : f.msg = n}
      /\ \A n \in Messages : Of(n)' = {f \in flights' : f.msg = n}
  BY DEF Of
<1>p. Up => prop \in Links /\ Live
  BY <1>0 DEF Up, LinkReady, Live, TypeOK
<1> HIDE DEF replaced, same
<1>9. ASSUME NEW n \in Messages \ {m}
      PROVE  /\ n \notin same => Of(n)' = Of(n)
             /\ \A k \in Links : builds'[<<n, k>>] = builds[<<n, k>>]
  <2>1. CASE Up
    <3>1. \A f \in flights' : f.msg = n => f \in flights
      BY <1>1, <1>6, <1>9, <2>1
    <3>2. \A f \in flights : f.msg \notin same => f \in flights'
      BY <1>1, <2>1
    <3>3. n \notin same => Of(n)' = Of(n)
      <4>1. Of(n)' = {f \in flights' : f.msg = n} /\ Of(n) = {f \in flights : f.msg = n}
        BY <1>8
      <4> QED  BY <3>1, <3>2, <4>1
    <3>4. builds' = [builds EXCEPT ![<<m, prop>>] = @ + 1] /\ <<m, prop>> \in Uploads
      BY <1>1, <1>2, <1>p, <2>1 DEF Uploads
    <3>5. \A k \in Links : <<n, k>> # <<m, prop>> /\ <<n, k>> \in Uploads
      BY <1>9 DEF Uploads
    <3> QED  BY <1>0, <3>3, <3>4, <3>5 DEF TypeOK
  <2>2. CASE ~Up
    BY <1>1, <1>8, <1>9, <2>2
  <2> QED  BY <2>1, <2>2
<1>10. Confined({m})
  <2>1. StillLive
    BY <1>1 DEF StillLive, Live, link
  <2>2. ASSUME NEW n \in ((Listed \cap Listed') \cup (Messages \ DOMAIN acts)) \ {m} PROVE Untouched(n)
    <3>1. n \in Messages \ {m} /\ n \notin same /\ n \notin replaced
      BY <1>0, <1>2, <1>5, <2>2
    <3> QED  BY <1>1, <1>3, <1>7, <1>9, <3>1 DEF Untouched
  <2>3. \A n \in Messages \ DOMAIN acts' : n \notin lapsed' \cup proved' \cup late'
    BY <1>1, <1>2, <1>5 DEF IInv, Unknown
  <2>4. neverLeft' \subseteq Listed'
    BY <1>2 DEF Base, OwedApart
  <2> QED  BY <1>0, <1>1, <1>2, <1>3, <2>1, <2>2, <2>3, <2>4 DEF Confined
<1>11. Well(m)
  <2>0. m \notin spent' /\ m \notin neverLeft' /\ Doing(m)' = {} /\ \A k \in Links : open'[<<m, k>>] = 0
    <3>1. m \notin neverLeft /\ m \in Messages
      BY <1>0, <1>2
    <3>2. Doing(m) = {} /\ \A k \in Links : open[<<m, k>>] = 0
      BY <1>4 DEF Idling
    <3> QED  BY <1>1, <1>3, <1>4, <1>7, <3>1, <3>2
  <2>1. CASE Up
    <3>1. Of(m)' = {Flight(m, prop)}
      <4>1. \A f \in flights : f.msg # m
        BY <1>2, <1>4, <1>8 DEF Idling
      <4>2. Flight(m, prop) \in flights' /\ \A f \in flights' : f \in flights \/ f = Flight(m, prop)
        BY <1>1, <2>1
      <4>3. Of(m)' = {f \in flights' : f.msg = m}
        BY <1>2, <1>8
      <4> QED  BY <1>6, <4>1, <4>2, <4>3
    <3>2. \A k \in Links : builds'[<<m, k>>] = IF k = prop THEN 1 ELSE 0
      <4>1. builds' = [builds EXCEPT ![<<m, prop>>] = @ + 1] /\ \A k \in Links : <<m, k>> \in Uploads
        BY <1>1, <1>2, <2>1 DEF Uploads
      <4>2. \A k \in Links : builds[<<m, k>>] = 0
        BY <1>4 DEF Idling
      <4> QED  BY <1>0, <1>p, <2>1, <4>1, <4>2 DEF TypeOK
    <3>3. Live' /\ prop' = prop
      BY <1>1, <1>p, <2>1 DEF Live, link
    <3>4. Loose(m)'
      BY <2>0, <3>1, <3>2, <3>3 DEF Loose, Flight
    <3> QED  BY <2>0, <3>4 DEF Well, Attempt
  <2>2. CASE ~Up
    <3>1. Idling(m)'
      <4>1. Of(m)' = Of(m) /\ builds' = builds
        BY <1>1, <1>2, <1>8, <2>2
      <4> QED  BY <1>4, <2>0, <4>1 DEF Idling
    <3> QED  BY <2>0, <3>1 DEF Well, Attempt
  <2> QED  BY <2>1, <2>2
<1>12. Timely
  BY <1>0, <1>1 DEF Timely, Idle
<1>13. Covers({m})
  <2>1. Up => Attended(m)'
    <3>1. ASSUME Up PROVE prop \in Links /\ builds'[<<m, prop>>] > 0
      <4>1. builds' = [builds EXCEPT ![<<m, prop>>] = @ + 1] /\ prop \in Links /\ <<m, prop>> \in Uploads
        BY <1>1, <1>2, <1>p, <3>1 DEF Uploads
      <4>2. builds[<<m, prop>>] = 0
        BY <1>4, <4>1 DEF Idling
      <4> QED  BY <1>0, <4>1, <4>2 DEF TypeOK
    <3> QED  BY <3>1 DEF Attended
  <2>2. ASSUME NEW n \in (Listed \cap Listed') \ {m} PROVE Keeps(n)
    <3>1. n \notin replaced
      BY <1>2, <1>5, <2>2
    <3> QED  BY <1>1, <1>3, <3>1 DEF Keeps
  <2> QED  BY <1>1, <2>1, <2>2 DEF Covers, Up, LinkReady, Quiet, link
<1> QED  BY <1>2, <1>10, <1>11, <1>12, <1>13, TaskFrame DEF Attempted, Base, OwedApart

\* A pass takes up an entry that is owed, alone, and neither failed since the
\* coming-up it answers nor, without one, unrecorded as never left.
LEMMA Taken ==
  ASSUME IInv, NEW p \in passes, p.building = NoMessage, LinkReady(p.link),
         NEW m \in p.todo, ~Skipped(p, m)
  PROVE  /\ m \in Listed /\ Idling(m) /\ m \notin spent /\ p.link = prop /\ prop \in Links
         /\ p.at > 0 => unproved[m] < p.at
<1>0. /\ TypeOK /\ OwedApart /\ p \in Pass /\ unproved \in [Messages -> Nat] /\ Listed \subseteq Messages
  BY Basics DEF IInv
<1>1. p.link = prop /\ prop \in Links /\ p.at \in Nat
  BY <1>0 DEF LinkReady, Pass
<1>2. /\ m \in Listed /\ ~AttemptOpen(flights, m, p.link)
      /\ p.at > 0 => ~UnprovedSince(m, p.at)
      /\ p.at = 0 => m \in neverLeft
  BY <1>0, <1>1, NoneToOthers DEF Skipped, StillOwed
<1>3. p.at > 0 => unproved[m] < p.at
  BY <1>0, <1>1, <1>2 DEF UnprovedSince
<1>4. \A f \in Of(m) : f.link # prop /\ ~f.left
  BY <1>1, <1>2 DEF AttemptOpen, Of
<1>5. Idling(m)
  <2>1. Attempt(m)
    BY <1>2, Which
  <2>2. ~Away(m)
    BY <1>4 DEF Away, Flight
  <2>3. ~Loose(m) /\ ~Passing(m)
    <3>1. Flight(m, prop).link = prop
      BY DEF Flight
    <3>2. Of(m) # {Flight(m, prop)}
      BY <1>4, <3>1
    <3> QED  BY <3>2 DEF Loose, Passing
  <2> QED  BY <2>1, <2>2, <2>3 DEF Attempt
<1>6. m \notin spent
  <2>1. CASE p.at = 0
    BY <1>2, <2>1 DEF IInv, Failed
  <2>2. CASE p.at > 0
    <3>1. m \in spent => unproved[m] >= p.at
      BY <1>2, <2>2 DEF IInv, Failed
    <3> QED  BY <1>0, <1>1, <1>2, <1>3, <2>2, <3>1
  <2> QED  BY <1>1, <2>1, <2>2
<1> QED  BY <1>1, <1>2, <1>3, <1>5, <1>6

\* A pass passes over an entry that is attended to without it.
LEMMA PassedOver ==
  ASSUME IInv, NEW p \in passes, NEW m \in Listed, Skipped(p, m), p.link = prop, Attended(m)
  PROVE  \/ \E l \in Links : open[<<m, l>>] > 0 \/ builds[<<m, l>>] > 0
         \/ Doing(m) # {}
         \/ unproved[m] >= ups
         \/ \E q \in passes \ {p} : q.link = prop /\ q.at = ups /\ m \in q.todo
         \/ /\ m \in neverLeft
            /\ down \/ \E q \in passes \ {p} : q.link = prop /\ q.at = 0 /\ m \in q.todo
<1>0. /\ TypeOK /\ OwedApart /\ m \in Messages /\ p \in Pass /\ unproved[m] \in Nat /\ ups \in Nat
  BY Basics DEF IInv
<1>1. CASE AttemptOpen(flights, m, p.link)
  <2>1. Of(m) # {}
    BY <1>1 DEF AttemptOpen, Of
  <2>2. Away(m) \/ Loose(m) \/ Passing(m)
    BY <2>1, Which DEF Attempt, Idling
  <2>3. CASE Away(m)
    <3>1. \E l \in Links : open[<<m, l>>] = 1
      BY <2>3 DEF Away
    <3> QED  BY <3>1
  <2>4. CASE Loose(m)
    <3>1. prop \in Links /\ builds[<<m, prop>>] = 1
      BY <2>4 DEF Loose, Live
    <3> QED  BY <3>1
  <2>5. CASE Passing(m)
    BY <2>5 DEF Passing
  <2> QED  BY <2>2, <2>3, <2>4, <2>5
<1>2. CASE p.at > 0 /\ UnprovedSince(m, p.at)
  <2>1. p.at # 0 /\ unproved[m] >= p.at
    BY <1>0, <1>2 DEF UnprovedSince
  <2> QED  BY <2>1 DEF Attended
<1>3. CASE ~(p.at > 0) /\ m \notin neverLeft
  <2>1. p.at = 0
    BY <1>0, <1>3 DEF Pass
  <2> QED  BY <1>0, <1>3, <2>1 DEF Attended
<1> QED  BY <1>0, <1>1, <1>2, <1>3, NoneToOthers DEF Skipped

\* The turn of an entry in a pass.
LEMMA TurnAttempted ==
  ASSUME IInv, NEW p \in passes, PassTurn(p)
  PROVE  Attempted
<1>0. /\ TypeOK /\ OwedApart /\ Listed \subseteq Messages /\ DOMAIN acts \subseteq Messages
      /\ ups \in Nat /\ unproved \in [Messages -> Nat] /\ neverLeft \subseteq Listed /\ NoMessage \notin Messages
      /\ Listed \subseteq DOMAIN acts /\ p \in Pass
  BY Basics DEF IInv, OwedApart
<1>1. /\ p.building = NoMessage
      /\ UNCHANGED <<outbox, acts, distro, ups, unproved, link, down, builds, open, late, did, history>>
  BY DEF PassTurn
<1>2. Base' /\ Listed' = Listed
  BY AttemptBase
<1>3. \A n \in Messages : p \notin Doing(n)
  BY <1>0, <1>1 DEF Doing
<1>4. StillLive /\ \A n \in Messages \ DOMAIN acts' : n \notin lapsed' \cup proved' \cup late'
  BY <1>1 DEF StillLive, Live, link, IInv, Unknown, history
<1>5. ASSUME NEW q \in passes
      PROVE  \/ q.at <= ups' /\ q.building = NoMessage /\ ~LinkReady(q.link)'
             \/ q.building # NoMessage \/ LinkReady(q.link)
  <2>1. q.at <= ups
    BY <1>5 DEF IInv, Failed
  <2> QED  BY <1>1, <2>1 DEF LinkReady, link
<1>6. CASE /\ UNCHANGED <<flights, neverLeft>> /\ Covers({})
           /\ \E r \in Pass : /\ passes' = passes \ {p} \/ passes' = (passes \ {p}) \cup Going(r)
                              /\ r.building = NoMessage
                              /\ r.at = p.at /\ (LinkReady(p.link) \/ passes' = passes \ {p})
  <2>1. PICK r \in Pass : /\ passes' = passes \ {p} \/ passes' = (passes \ {p}) \cup Going(r)
                          /\ r.building = NoMessage
                          /\ r.at = p.at /\ (LinkReady(p.link) \/ passes' = passes \ {p})
    BY <1>6
  <2>2. passes \ {p} \subseteq passes' /\ passes' \subseteq (passes \ {p}) \cup {r}
    BY <2>1 DEF Going
  <2>3. ASSUME NEW n \in Messages PROVE Untouched(n)
    <3>1. Doing(n)' = Doing(n)
      BY <1>0, <1>3, <2>1, <2>2, <2>3 DEF Doing
    <3> QED  BY <1>1, <1>6, <3>1 DEF Untouched, Of
  <2>4. Confined({})
    BY <1>0, <1>1, <1>2, <1>4, <1>6, <2>3 DEF Confined, history
  <2>5. Timely
    BY <1>0, <1>1, <1>5, <2>1, <2>2 DEF Timely
  <2> QED  BY <1>2, <1>6, <2>4, <2>5, TaskFrame DEF Attempted, Base, OwedApart
<1>7. ASSUME NEW m \in p.todo, LinkReady(p.link), ~Skipped(p, m),
             passes' = (passes \ {p}) \cup {[[p EXCEPT !.todo = @ \ {m}] EXCEPT !.building = m]},
             flights' = Begun(flights, m, p.link), neverLeft' = neverLeft \ {m}
      PROVE  Attempted
  <2> DEFINE r == [[p EXCEPT !.todo = @ \ {m}] EXCEPT !.building = m]
  <2>1. r.building = m /\ r.at = p.at /\ r.link = p.link
    BY <1>0 DEF Pass
  <2>2. /\ m \in Listed /\ Idling(m) /\ m \notin spent /\ p.link = prop /\ prop \in Links
        /\ p.at > 0 => unproved[m] < p.at
    BY <1>1, <1>7, Taken
  <2>3. passes' = (passes \ {p}) \cup {r}
    BY <1>7
  <2> HIDE DEF r
  <2>4. m \in Messages /\ m \in DOMAIN acts
    BY <1>0, <2>2
  <2>5. \A n \in Messages \ {m} : Doing(n)' = Doing(n)
    BY <1>3, <2>1, <2>3, <2>4 DEF Doing
  <2>6. Doing(m)' = {r}
    <3>1. \A q \in passes : q.building # m
      BY <2>2 DEF Idling, Doing
    <3> QED  BY <2>1, <2>3, <3>1 DEF Doing
  <2>7. /\ \A n \in (Listed \cup (Messages \ DOMAIN acts)) \ {m} : Of(n)' = Of(n)
        /\ Of(m)' = {Flight(m, prop)}
    <3>1. flights' = {f \in flights : ~ SameId(f.msg, m)} \cup {Flight(m, prop)}
      BY <1>7, <2>2 DEF Begun
    <3>2. Flight(m, prop).msg = m /\ SameId(m, m)
      BY DEF Flight, SameId
    <3>3. ASSUME NEW n \in (Listed \cup (Messages \ DOMAIN acts)) \ {m} PROVE Of(n)' = Of(n)
      <4>1. ~SameId(n, m)
        BY <1>0, <2>2, <3>3, OneId
      <4> QED  BY <3>1, <3>2, <3>3, <4>1 DEF Of
    <3>4. Of(m)' = {Flight(m, prop)}
      BY <3>1, <3>2 DEF Of
    <3> QED  BY <3>3, <3>4
  <2>8. Confined({m})
    <3>1. \A n \in ((Listed \cap Listed') \cup (Messages \ DOMAIN acts)) \ {m} : Untouched(n)
      BY <1>0, <1>1, <1>2, <2>5, <2>7 DEF Untouched
    <3> QED  BY <1>0, <1>1, <1>2, <1>4, <1>7, <2>4, <3>1 DEF Confined, history
  <2>9. Well(m)
    <3>1. m \notin spent' /\ m \notin neverLeft'
      BY <1>1, <1>7, <2>2 DEF history
    <3>2. Live' /\ prop' = prop
      BY <1>1, <1>7, <2>2 DEF Live, LinkReady, link
    <3>3. \A k \in Links : open'[<<m, k>>] = 0 /\ builds'[<<m, k>>] = 0
      BY <1>1, <2>2 DEF Idling
    <3>4. r \in passes' /\ r.link = prop /\ (r.at > 0 => unproved'[m] < r.at)
      BY <1>1, <2>1, <2>2, <2>3
    <3>5. Passing(m)'
      BY <2>6, <2>7, <3>2, <3>3, <3>4 DEF Passing, Flight
    <3> QED  BY <3>1, <3>5 DEF Well, Attempt
  <2>10. Timely
    BY <1>0, <1>1, <1>5, <1>7, <2>1, <2>3 DEF Timely
  <2>11. Covers({m})
    <3>1. Attended(m)'
      BY <2>6 DEF Attended
    <3>2. ASSUME NEW n \in Listed \ {m} PROVE Keeps(n)
      <4>1. r.todo = p.todo \ {m}
        BY <1>0 DEF Pass, r
      <4>2. \A q \in passes : n \in q.todo =>
              \E s \in passes' : s.link = q.link /\ s.at = q.at /\ n \in s.todo
        BY <2>1, <2>3, <3>2, <4>1
      <4> QED  BY <1>1, <1>7, <3>2, <4>2 DEF Keeps
    <3> QED  BY <1>1, <1>2, <3>1, <3>2 DEF Covers, Up, LinkReady, Quiet, link
  <2> QED  BY <1>2, <2>8, <2>9, <2>10, <2>11, TaskFrame DEF Attempted, Base, OwedApart
<1>8. CASE ~LinkReady(p.link) /\ passes' = passes \ {p} /\ UNCHANGED <<flights, neverLeft>>
  <2>1. ASSUME NEW n \in Listed, Up PROVE Keeps(n)
    <3>1. p.link # prop
      BY <1>8, <2>1 DEF Up, LinkReady
    <3> QED  BY <1>1, <1>8, <3>1 DEF Keeps
  <2>2. Covers({})
    BY <1>1, <1>2, <2>1 DEF Covers, Up, LinkReady, Quiet, link
  <2> QED  BY <1>0, <1>1, <1>6, <1>8, <2>2
<1>9. ASSUME NEW m \in p.todo, LinkReady(p.link), Skipped(p, m), UNCHANGED <<flights, neverLeft>>,
             passes' = (passes \ {p}) \cup Going([p EXCEPT !.todo = @ \ {m}])
      PROVE  Attempted
  <2>1. /\ [p EXCEPT !.todo = @ \ {m}] \in Pass /\ [p EXCEPT !.todo = @ \ {m}].building = NoMessage
        /\ [p EXCEPT !.todo = @ \ {m}].at = p.at
    BY <1>0, <1>1 DEF Pass
  <2>2. Covers({})
    <3> DEFINE r == [p EXCEPT !.todo = @ \ {m}]
    <3>1. r.link = p.link /\ r.at = p.at /\ r.todo = p.todo \ {m}
      BY <1>0 DEF Pass
    <3>2. passes \ {p} \subseteq passes' /\ (r.todo # {} => r \in passes')
      BY <1>9 DEF Going
    <3> HIDE DEF r
    <3>3. ASSUME NEW n \in Listed, Up, Quiet(prop) PROVE Attended(n)'
      <4>0. Attended(n) /\ p.link = prop /\ n \in Messages
        BY <1>0, <1>9, <3>3 DEF IInv, Covered, LinkReady
      <4>1. Doing(n) # {} => Doing(n)' # {}
        BY <1>3, <3>2, <4>0 DEF Doing
      <4>2. CASE n = m
        <5>1. \/ \E l \in Links : open[<<n, l>>] > 0 \/ builds[<<n, l>>] > 0
              \/ Doing(n) # {}
              \/ unproved[n] >= ups
              \/ \E q \in passes \ {p} : q.link = prop /\ q.at = ups /\ n \in q.todo
              \/ /\ n \in neverLeft
                 /\ down \/ \E q \in passes \ {p} : q.link = prop /\ q.at = 0 /\ n \in q.todo
          BY <1>9, <4>0, <4>2, PassedOver
        <5> QED  BY <1>1, <1>9, <3>2, <4>1, <5>1 DEF Attended, link
      <4>3. CASE n # m
        <5>1. \A q \in passes : n \in q.todo =>
                \E s \in passes' : s.link = q.link /\ s.at = q.at /\ n \in s.todo
          BY <3>1, <3>2, <4>3
        <5> QED  BY <1>1, <1>9, <4>0, <4>1, <5>1 DEF Attended, link
      <4> QED  BY <4>2, <4>3
    <3> QED  BY <1>1, <1>2, <3>3 DEF Covers, Up, LinkReady, Quiet, link
  <2> QED  BY <1>6, <1>9, <2>1, <2>2
<1> QED  BY <1>7, <1>8, <1>9 DEF PassTurn

-----------------------------------------------------------------------------
(* The invariant.                                                          *)

\* The initial states satisfy it.
LEMMA InitOK ==
  ASSUME Init
  PROVE  IInv
<1>1. /\ store = {} /\ holding = FALSE /\ held = {} /\ acts = <<>> /\ distro \in Distros
      /\ ups = 0 /\ unproved = [m \in Messages |-> 0] /\ neverLeft = {}
      /\ prop = NoLink /\ status = [l \in Links |-> "unused"] /\ news = <<>> /\ down = FALSE
      /\ flights = {} /\ passes = {} /\ late = {}
      /\ builds = [u \in Uploads |-> 0] /\ open = [u \in Uploads |-> 0]
      /\ did = 0 /\ refusals = 0 /\ proved = {} /\ lapsed = {} /\ spent = {}
  BY DEF Init
<1>2. Listed = {}
  BY <1>1 DEF Listed
<1>3. TypeOK
  <2>1. acts \in Seq(Act) /\ Len(acts) <= MaxActs /\ news \in Seq(News)
    BY <1>1, OutboxAssumption
  <2>2. /\ builds \in [Uploads -> Nat] /\ open \in [Uploads -> Nat]
        /\ unproved \in [Messages -> Nat]
        /\ status \in [Links -> {"unused", "pending", "active", "stale", "closed", "failed"}]
    BY <1>1
  <2> QED  BY <1>1, <2>1, <2>2 DEF TypeOK
<1>4. OwedApart /\ Linked
  BY <1>1, <1>2 DEF OwedApart, Linked, NoLink
<1>5. \A m \in Messages, k \in Links : open[<<m, k>>] = 0 /\ builds[<<m, k>>] = 0
  BY <1>1 DEF Uploads
<1>6. Unknown
  BY <1>1, <1>5 DEF Unknown, Idling, Of, Doing
<1>7. OneAttempt /\ Failed /\ Covered
  BY <1>1, <1>2 DEF OneAttempt, Failed, Covered
<1>8. OneInFlight
  BY <1>5 DEF OneInFlight
<1> QED  BY <1>3, <1>4, <1>6, <1>7, <1>8 DEF IInv

\* No upload of an entry is open beside its build.
LEMMA BuiltAlone ==
  ASSUME IInv, NEW m \in Listed, Loose(m) \/ Passing(m)
  PROVE  m \notin spent /\ \A k \in Links : open[<<m, k>>] = 0
<1>1. \A k \in Links : open[<<m, k>>] = 0
  BY DEF Loose, Passing
<1>2. ~Idling(m)
  BY DEF Loose, Passing, Idling
<1> QED  BY <1>1, <1>2, Which

\* Only an owed entry leaves, from its build, and nothing else opens an upload.
LEMMA Opens ==
  ASSUME IInv, Next
  PROVE  \/ \A u \in Uploads : open'[u] <= open[u]
         \/ \E m \in Listed, l \in Links :
              /\ Loose(m) \/ Passing(m)
              /\ open' = [open EXCEPT ![<<m, l>>] = @ + 1]
<1> DEFINE Fewer == \A u \in Uploads : open'[u] <= open[u]
           Gone == \E m \in Listed, l \in Links :
                     /\ Loose(m) \/ Passing(m)
                     /\ open' = [open EXCEPT ![<<m, l>>] = @ + 1]
<1>0. TypeOK /\ OwedApart /\ open \in [Uploads -> Nat]
  BY DEF IInv, TypeOK
<1>1. open' = open => Fewer
  BY <1>0
<1>2. \A u \in Uploads : open' = [open EXCEPT ![u] = @ - 1] => Fewer
  BY <1>0
<1>3. ASSUME NEW m \in Messages, NEW l \in Links, NEW at, Built(m, l, at),
             m \in Listed => Loose(m) \/ Passing(m)
      PROVE  Fewer \/ Gone
  <2>1. CASE UNCHANGED open
    BY <1>1, <2>1
  <2>2. CASE ~NotSent(m, l, at) /\ UploadForDistro(m, l)
    BY <1>3, <2>2 DEF NotSent, StillOwed, UploadForDistro
  <2> QED  BY <1>3, <2>1, <2>2 DEF Built, BuildThrew
<1>4. ASSUME NEW m \in Messages, NEW l \in Links, LooseBuilt(m, l) PROVE Fewer \/ Gone
  <2>1. Built(m, l, 0) /\ builds[<<m, l>>] > 0
    BY <1>4 DEF LooseBuilt
  <2> QED  BY <1>3, <2>1, Which
<1>5. ASSUME NEW p \in passes, PassBuilt(p) PROVE Fewer \/ Gone
  <2>1. Built(p.building, p.link, p.at) /\ p.building \in Messages /\ p.link \in Links
    BY <1>0, <1>5, Basics DEF PassBuilt, Pass
  <2>2. Doing(p.building) # {}
    BY DEF Doing
  <2> QED  BY <1>3, <2>1, <2>2, Which
<1>6. ASSUME NEW m \in Messages, NEW l \in Links,
             UploadLost(m, l) \/ UploadNeverLeft(m, l) \/ UploadProved(m, l)
      PROVE  Fewer
  BY <1>0, <1>2, <1>6, Basics DEF UploadLost, UploadNeverLeft, UploadProved, Decided
<1>7. ASSUME NEW l \in Links, HearClose(l) PROVE Fewer
  <2>1. open' = [u \in Uploads |-> IF u[2] = l THEN 0 ELSE open[u]]
    BY <1>7 DEF HearClose
  <2> QED  BY <1>0, <2>1
<1>8. Disconnect \/ Reload => Fewer
  BY <1>0 DEF Disconnect, Reload, Stopped
<1>9. \/ \E kind \in Kinds : Owe(kind)
      \/ \E d \in Distros \cup {NoDistro} : ChangeDistro(d)
      \/ \E m \in Messages : LateProof(m)
      \/ \E p \in passes : PassTurn(p)
      \/ \E l \in Links :
           \/ Establish(l) \/ LinkUp(l) \/ LinkStale(l) \/ LinkRecovers(l) \/ LinkCloses(l)
           \/ HearEstablished(l) \/ HearRecovered(l)
      \/ ExchangeFails \/ ExchangeBack
      => open' = open
  BY DEF Owe, ChangeDistro, LateProof, PassTurn, Establish, LinkUp, LinkStale, LinkRecovers,
         LinkCloses, HearEstablished, HearRecovered, ExchangeFails, ExchangeBack
<1> HIDE DEF Fewer, Gone
<1>10. Fewer \/ Gone
  BY <1>1, <1>4, <1>5, <1>6, <1>7, <1>8, <1>9 DEF Next, Task
<1> QED  BY <1>10 DEF Fewer, Gone

\* One upload of an entry at a time is kept.
LEMMA InFlightKept ==
  ASSUME IInv, Next, TypeOK'
  PROVE  OneInFlight'
<1>0. /\ \A m \in Messages, k \in Links : <<m, k>> \in Uploads /\ open[<<m, k>>] \in Nat
      /\ \A m \in Messages, k \in Links : open'[<<m, k>>] \in Nat
      /\ open \in [Uploads -> Nat] /\ Listed \subseteq Messages
      /\ OneInFlight
  BY Basics DEF IInv, TypeOK
<1>1. CASE \A u \in Uploads : open'[u] <= open[u]
  <2>1. \A m \in Messages, k \in Links : open'[<<m, k>>] <= open[<<m, k>>]
    BY <1>0, <1>1
  <2>2. ASSUME NEW m \in Messages, NEW k \in Links, NEW l \in Links
        PROVE  open'[<<m, l>>] <= 1 /\ (open'[<<m, k>>] > 0 /\ open'[<<m, l>>] > 0 => k = l)
    <3>1. /\ open[<<m, l>>] <= 1 /\ (open[<<m, k>>] > 0 /\ open[<<m, l>>] > 0 => k = l)
          /\ open'[<<m, k>>] <= open[<<m, k>>] /\ open'[<<m, l>>] <= open[<<m, l>>]
      BY <1>0, <2>1 DEF OneInFlight
    <3> QED  BY <1>0, <3>1
  <2> QED  BY <2>2 DEF OneInFlight
<1>2. ASSUME NEW n \in Listed, NEW j \in Links, Loose(n) \/ Passing(n),
             open' = [open EXCEPT ![<<n, j>>] = @ + 1]
      PROVE  OneInFlight'
  <2>1. \A k \in Links : open[<<n, k>>] = 0
    BY <1>2, BuiltAlone
  <2>2. \A m \in Messages, k \in Links :
           open'[<<m, k>>] = IF m = n /\ k = j THEN open[<<m, k>>] + 1 ELSE open[<<m, k>>]
    BY <1>0, <1>2
  <2>3. \A k \in Links : open'[<<n, k>>] = IF k = j THEN 1 ELSE 0
    BY <1>0, <1>2, <2>1, <2>2
  <2>4. \A m \in Messages \ {n}, k \in Links : open'[<<m, k>>] = open[<<m, k>>]
    BY <2>2
  <2>5. ASSUME NEW m \in Messages, NEW k \in Links, NEW l \in Links
        PROVE  open'[<<m, l>>] <= 1 /\ (open'[<<m, k>>] > 0 /\ open'[<<m, l>>] > 0 => k = l)
    <3>1. CASE m = n
      BY <2>3, <3>1
    <3>2. CASE m # n
      BY <1>0, <2>4, <3>2 DEF OneInFlight
    <3> QED  BY <3>1, <3>2
  <2> QED  BY <2>5 DEF OneInFlight
<1> QED  BY <1>1, <1>2, Opens

\* Every step keeps it.
LEMMA NextOK ==
  ASSUME IInv, Next
  PROVE  IInv'
<1>1. ASSUME Base', Attempted PROVE IInv'
  BY <1>1, InFlightKept DEF Base, Attempted, IInv
<1>2. ASSUME NEW p \in passes, PassTurn(p) PROVE IInv'
  BY <1>1, <1>2, AttemptBase, TurnAttempted
<1>3. ASSUME Idle, NEW kind \in Kinds, Owe(kind) PROVE IInv'
  BY <1>1, <1>3, OweBase, OweAttempted
<1>4. ASSUME Idle, NEW d \in Distros \cup {NoDistro}, ChangeDistro(d) PROVE IInv'
  BY <1>1, <1>4, ChangeDistroBase, ChangeAttempted
<1>5. ASSUME Idle, NEW m \in Messages, LateProof(m) PROVE IInv'
  BY <1>1, <1>5, ProofBase, ProofAttempted
<1>6. ASSUME Idle, NEW m \in Messages, NEW l \in Links, LooseBuilt(m, l) PROVE IInv'
  BY <1>1, <1>6, AttemptBase, LooseAttempted
<1>7. ASSUME Idle, NEW m \in Messages, NEW l \in Links, UploadLost(m, l) PROVE IInv'
  BY <1>1, <1>7, AttemptBase, LossAttempted
<1>8. ASSUME Idle, NEW m \in Messages, NEW l \in Links, UploadNeverLeft(m, l) PROVE IInv'
  BY <1>1, <1>8, AttemptBase, NeverLeftAttempted
<1>9. ASSUME Idle, NEW m \in Messages, NEW l \in Links, UploadProved(m, l) PROVE IInv'
  BY <1>1, <1>9, ProofBase, ProofAttempted
<1>10. ASSUME Idle, NEW p \in passes, PassBuilt(p) PROVE IInv'
  BY <1>1, <1>10, AttemptBase, PassAttempted
<1>11. ASSUME Idle, NEW l \in Links,
              Establish(l) \/ LinkUp(l) \/ LinkStale(l) \/ LinkRecovers(l) \/ LinkCloses(l)
       PROVE  IInv'
  BY <1>1, <1>11, LinkBase, LinkAttempted
<1>12. ASSUME Idle, NEW l \in Links, HearEstablished(l) \/ HearRecovered(l) PROVE IInv'
  BY <1>1, <1>12, ComingUpHeard, ComingUpAttempted
<1>13. ASSUME Idle, NEW l \in Links, HearClose(l) PROVE IInv'
  BY <1>1, <1>13, LinkBase, LossAttempted
<1>14. ASSUME Idle, ExchangeFails \/ ExchangeBack PROVE IInv'
  BY <1>1, <1>14, AttemptBase, ExchangeAttempted
<1>15. ASSUME Idle, Disconnect \/ Reload PROVE IInv'
  BY <1>1, <1>15, StopBase, StopAttempted
<1> QED
  BY <1>2, <1>3, <1>4, <1>5, <1>6, <1>7, <1>8, <1>9, <1>10, <1>11, <1>12, <1>13, <1>14, <1>15
     DEF Next, Task

\* A step that changes nothing keeps it.
LEMMA Stutters ==
  ASSUME IInv, UNCHANGED vars
  PROVE  IInv'
<1> USE DEF vars, outbox, records, link, attempts, history
<1>1. Listed' = Listed /\ Membership' = Membership
  BY DEF Listed, Membership
<1>2. TypeOK' /\ OwedApart' /\ Linked'
  BY <1>1 DEF IInv, TypeOK, OwedApart, Linked
<1>3. \A m \in Messages : Untouched(m)
  BY DEF Untouched, Of, Doing
<1>4. StillLive
  BY DEF StillLive, Live
<1>5. Listed \subseteq Messages
  BY Basics DEF IInv
<1>6. OneAttempt'
  BY <1>1, <1>3, <1>4, <1>5, Stays DEF IInv, OneAttempt, Attempt
<1>7. Unknown'
  BY <1>3, Stays DEF IInv, Unknown
<1>8. Failed'
  <2>1. neverLeft \subseteq Messages
    BY DEF IInv, TypeOK
  <2> QED  BY <1>1, <1>3, <1>5, <2>1, Stays DEF IInv, Failed, LinkReady
<1>9. OneInFlight'
  BY DEF IInv, OneInFlight
<1>10. Covered'
  <2>1. \A m \in Listed : Keeps(m)
    BY DEF Keeps
  <2>2. (Up' <=> Up) /\ (Quiet(prop)' <=> Quiet(prop))
    BY DEF Up, LinkReady, Quiet
  <2> QED  BY <1>1, <1>3, <1>5, <2>1, <2>2, AttendedStill DEF IInv, Covered
<1> QED  BY <1>2, <1>6, <1>7, <1>8, <1>9, <1>10 DEF IInv

\* The inductive invariant holds of every reachable state.
THEOREM Invariance == Spec => []IInv
<1>1. IInv /\ [Next]_vars => IInv'
  BY NextOK, Stutters
<1> QED  BY <1>1, InitOK, PTL DEF Spec

-----------------------------------------------------------------------------
(* The properties.                                                         *)

\* At most one upload of an entry is on its way, on whatever link.
THEOREM OneUploadAtATime == Spec => []UploadsSound
<1>1. IInv => UploadsSound
  BY DEF IInv, UploadsSound
<1> QED  BY <1>1, Invariance, PTL

\* On a link that is up, with its events heard and no pass under way, no entry
\* is left lying until some later coming-up.
THEOREM EachAttended == Spec => []NothingLeftLying
<1>1. ASSUME IInv PROVE NothingLeftLying
  <2>1. ASSUME Up, Quiet(prop), passes = {}, NEW m \in Listed
        PROVE  \/ \E l \in Links : open[<<m, l>>] > 0 \/ builds[<<m, l>>] > 0
               \/ UnprovedSince(m, ups)
               \/ down /\ m \in neverLeft
    <3>1. Attended(m)
      BY <1>1, <2>1 DEF IInv, Covered
    <3> QED  BY <2>1, <3>1 DEF Attended, Doing, UnprovedSince
  <2> QED  BY <2>1 DEF NothingLeftLying
<1> QED  BY <1>1, Invariance, PTL

\* What leaves is owed, and has not failed since an event that lets it go.
LEMMA LeavesOwed ==
  ASSUME IInv, Next, NEW m \in Messages, Leaves(m)
  PROVE  m \in Listed /\ m \notin spent
<1>0. /\ \A n \in Messages, k \in Links : <<n, k>> \in Uploads /\ open[<<n, k>>] \in Nat
      /\ open \in [Uploads -> Nat] /\ Listed \subseteq Messages
  BY Basics DEF IInv, TypeOK
<1>1. PICK k \in Links : open'[<<m, k>>] > open[<<m, k>>]
  BY DEF Leaves
<1>2. ~ \A u \in Uploads : open'[u] <= open[u]
  <2>1. TypeOK'
    BY NextOK DEF IInv
  <2>2. open'[<<m, k>>] \in Nat
    BY <1>0, <2>1 DEF TypeOK
  <2>3. ~(open'[<<m, k>>] <= open[<<m, k>>])
    BY <1>0, <1>1, <2>2
  <2> QED  BY <1>0, <2>3
<1>3. PICK n \in Listed, l \in Links : (Loose(n) \/ Passing(n)) /\ open' = [open EXCEPT ![<<n, l>>] = @ + 1]
  BY <1>2, Opens
<1>4. m = n
  <2>1. m # n => <<m, k>> # <<n, l>>
    OBVIOUS
  <2>2. m # n => open'[<<m, k>>] = open[<<m, k>>]
    BY <1>0, <1>3, <2>1
  <2> QED  BY <1>0, <1>1, <2>2
<1> QED  BY <1>3, <1>4, BuiltAlone

\* An entry stops being owed only by its own proof, by a later act or a change
\* of distro, or, when storage had refused it, with the page.
LEMMA StopsBeingOwed ==
  ASSUME IInv, Next, NEW m \in Listed \ Listed'
  PROVE  m \in proved' \/ m \in lapsed' \/ (m \notin store /\ Reload)
<1>0. TypeOK /\ OwedApart /\ m \in Listed
  BY DEF IInv
<1>1. ASSUME NEW kind \in Kinds, Owe(kind) PROVE m \in lapsed'
  <2>1. Listed' = (Listed \ (IF kind = "channel" THEN Membership ELSE {})) \cup {Len(acts) + 1}
    BY <1>1, OweBase
  <2> QED  BY <1>1, <2>1 DEF Owe
<1>2. ASSUME NEW d \in Distros \cup {NoDistro}, ChangeDistro(d) PROVE m \in lapsed'
  <2>1. m \in OwedToOthers(d)
    BY <1>2, ChangeDistroBase
  <2> QED  BY <1>2, <2>1 DEF ChangeDistro, OwedToOthers
<1>3. ASSUME NEW n \in Messages, LateProof(n) \/ \E l \in Links : UploadProved(n, l)
      PROVE  m \in proved'
  <2>1. m = n
    BY <1>3, ProofBase
  <2> QED  BY <1>3, <2>1 DEF LateProof, UploadProved, Settled
<1>4. ~(\/ \E n \in Messages, l \in Links : LooseBuilt(n, l) \/ UploadLost(n, l) \/ UploadNeverLeft(n, l)
        \/ \E p \in passes : PassTurn(p) \/ PassBuilt(p)
        \/ ExchangeFails \/ ExchangeBack)
  BY AttemptBase
<1>5. ~ \E l \in Links : \/ Establish(l) \/ LinkUp(l) \/ LinkStale(l) \/ LinkRecovers(l) \/ LinkCloses(l)
                         \/ HearClose(l)
  BY LinkBase
<1>6. ~ \E l \in Links : HearEstablished(l) \/ HearRecovered(l)
  BY ComingUpHeard
<1>7. ~Disconnect
  BY OutboxSame DEF Disconnect
<1>8. ASSUME Reload PROVE m \notin store
  <2>1. Listed' = {n \in store : n \in Membership => acts[n].distro = distro}
    BY <1>8 DEF Reload, Listed
  <2> QED  BY <1>0, <2>1 DEF OwedApart
<1> QED  BY <1>1, <1>2, <1>3, <1>4, <1>5, <1>6, <1>7, <1>8 DEF Next, Task

\* A failed upload is not made again before an event that lets it go.
THEOREM NoneOnItsOwnFailure == Spec => NeverOnItsOwnFailure
<1>1. IInv /\ [Next]_vars => [\A m \in Messages : Leaves(m) => m \notin spent]_vars
  BY LeavesOwed
<1> QED  BY <1>1, Invariance, PTL DEF Spec, NeverOnItsOwnFailure

\* An entry is owed until its proof, and nothing settled goes again.
THEOREM OwedAsLongAsItShould == Spec => OwedExactly
<1>1. IInv /\ [Next]_vars =>
        [\A m \in Listed \ Listed' : m \in proved' \/ m \in lapsed' \/ (m \notin store /\ Reload)]_vars
  BY StopsBeingOwed
<1>2. IInv => \A m \in Listed : m \notin lapsed /\ m \notin proved
  BY DEF IInv, OwedApart
<1>3. IInv /\ [Next]_vars => [\A m \in Messages : Leaves(m) => m \notin lapsed]_vars
  BY <1>2, LeavesOwed
<1>4. IInv /\ [Next]_vars => [\A m \in Messages : Leaves(m) => m \notin proved]_vars
  BY <1>2, LeavesOwed
<1> QED
  BY <1>1, <1>3, <1>4, Invariance, PTL
     DEF Spec, OwedExactly, OwedUntilProved, LapsedNeverGoes, ProvedIsDone

-----------------------------------------------------------------------------
(***************************************************************************)
(* What RFed fans out (DistroMail), for any devices, page size, limit of   *)
(* the seen list and worlds: mail and copies filed once on every device,   *)
(* and a connection that pulls before it subscribes.                       *)
(***************************************************************************)

-----------------------------------------------------------------------------
(* Numbers, sequences and the list of what was seen. *)

Less == {p \in Nat \X Nat : p[1] < p[2]}

\* A set of natural numbers that is not empty has a least element,
LEMMA LeastNumber ==
  ASSUME NEW T \in SUBSET Nat, T # {}
  PROVE  \E m \in T : \A k \in T : m <= k
<1>1. IsWellFoundedOn(Less, Nat)
  BY Zenon, NatLessThanWellFounded DEF OpToRel, Less
<1>2. PICK m \in T : \A k \in T : <<k, m>> \notin Less
  BY <1>1, WFMin, Zenon
<1>3. \A k \in Nat : k < m => <<k, m>> \in Less
  BY DEF Less
<1>4. \A k \in T : ~(k < m)
  BY <1>2, <1>3
<1> QED  BY <1>4

\* Of two numbers.
LEMMA MaxOfTwo ==
  ASSUME NEW a \in Int, NEW b \in Int
  PROVE  Max({a, b}) = IF a >= b THEN a ELSE b
BY DEF Max

\* What is in a sequence.
LEMMA InSeq ==
  ASSUME NEW S, NEW q \in Seq(S)
  PROVE  /\ Len(q) \in Nat /\ DOMAIN q = 1..Len(q)
         /\ \A i \in 1..Len(q) : q[i] \in S /\ q[i] \in ToSet(q)
         /\ ToSet(q) \subseteq S
         /\ \A x : x \in ToSet(q) <=> \E i \in 1..Len(q) : q[i] = x
BY DEF ToSet

\* The last n of a sequence.
LEMMA LastOf ==
  ASSUME NEW S, NEW q \in Seq(S), NEW n \in Nat, n > 0
  PROVE  LET t == SubSeq(q, Max({1, Len(q) - n + 1}), Len(q)) IN
         /\ t \in Seq(S)
         /\ Len(t) = IF Len(q) <= n THEN Len(q) ELSE n
         /\ \A i \in 1..Len(t) : t[i] = q[Len(q) - Len(t) + i]
<1> DEFINE m == IF Len(q) <= n THEN 1 ELSE Len(q) - n + 1
           t == SubSeq(q, m, Len(q))
<1>1. Max({1, Len(q) - n + 1}) = m
  BY MaxOfTwo
<1>2. m \in Int /\ m >= 1 /\ m <= Len(q) + 1
  OBVIOUS
<1>3. \A i \in m..Len(q) : q[i] \in S
  BY <1>2
<1>4. /\ t \in Seq(S) /\ Len(t) = IF m <= Len(q) THEN Len(q) - m + 1 ELSE 0
      /\ \A i \in 1..Len(q) - m + 1 : t[i] = q[m + i - 1]
  <2> HIDE DEF m
  <2> QED  BY <1>2, <1>3, SubSeqProperties
<1>5. Len(t) = (IF Len(q) <= n THEN Len(q) ELSE n) /\ Len(t) = Len(q) - m + 1
  <2>1. Len(q) \in Nat /\ (m = IF Len(q) <= n THEN 1 ELSE Len(q) - n + 1)
    OBVIOUS
  <2>2. Len(t) = IF m <= Len(q) THEN Len(q) - m + 1 ELSE 0
    BY <1>4
  <2> HIDE DEF t, m
  <2>3. CASE Len(q) <= n
    BY <2>1, <2>2, <2>3
  <2>4. CASE Len(q) > n
    <3>1. ~(Len(q) <= n) /\ n \in Nat /\ n > 0 /\ Len(q) \in Nat
      BY <2>1, <2>4
    <3>2. m = Len(q) - n + 1
      BY <2>1, <3>1
    <3>3. m <= Len(q)
      BY <3>1, <3>2
    <3>4. Len(t) = Len(q) - m + 1
      BY <2>2, <3>3
    <3> QED  BY <3>1, <3>2, <3>4
  <2> QED  BY <2>1, <2>3, <2>4
<1>6. \A i \in 1..Len(t) : t[i] = q[Len(q) - Len(t) + i]
  <2> SUFFICES ASSUME NEW i \in 1..Len(t) PROVE t[i] = q[Len(q) - Len(t) + i]
    OBVIOUS
  <2>1. t[i] = q[m + i - 1] /\ Len(t) \in Nat
    BY <1>4, <1>5
  <2>2. m + i - 1 = Len(q) - Len(t) + i
    <3>1. Len(q) \in Nat /\ i \in Nat
      BY <2>1
    <3>2. Len(t) = Len(q) - m + 1 /\ m \in Int
      BY <1>2, <1>5
    <3> HIDE DEF m, t
    <3> QED  BY <3>1, <3>2
  <2> QED  BY <2>1, <2>2
<1> HIDE DEF m, t
<1> QED  BY <1>1, <1>4, <1>5, <1>6 DEF t

\* Recording an id keeps it, and what is not kept is what Dropped says.
LEMMA Recording ==
  ASSUME NEW S, NEW ids \in Seq(S), NEW id \in S, NEW n \in Nat, n > 0
  PROVE  /\ Record(ids, id, n) \in Seq(S)
         /\ id \in ToSet(Record(ids, id, n))
         /\ ToSet(Record(ids, id, n)) \subseteq ToSet(ids) \cup {id}
         /\ ToSet(ids) \subseteq ToSet(Record(ids, id, n)) \cup Dropped(ids, id, n)
         /\ Dropped(ids, id, n) \subseteq ToSet(ids)
<1>1. CASE Seen(ids, id)
  BY <1>1 DEF Record, Seen, Dropped
<1>2. CASE ~Seen(ids, id)
  <2> DEFINE all == Append(ids, id)
             new == SubSeq(all, Max({1, Len(all) - n + 1}), Len(all))
  <2>1. all \in Seq(S) /\ Len(all) = Len(ids) + 1 /\ all[Len(all)] = id
        /\ \A i \in 1..Len(ids) : all[i] = ids[i]
    OBVIOUS
  <2>2. /\ new \in Seq(S) /\ Len(new) = (IF Len(all) <= n THEN Len(all) ELSE n)
        /\ \A i \in 1..Len(new) : new[i] = all[Len(all) - Len(new) + i]
    <3> HIDE DEF all
    <3> QED  BY <2>1, LastOf
  <2>3. Record(ids, id, n) = new
    BY <1>2 DEF Record
  <2> HIDE DEF all, new
  <2>4. Len(new) >= 1 /\ Len(new) <= Len(all) /\ Len(new) \in Nat /\ Len(ids) \in Nat
    BY <2>1, <2>2
  <2>5. new[Len(new)] = id /\ id \in ToSet(new)
    <3>1. Len(all) - Len(new) + Len(new) = Len(all) /\ Len(new) \in 1..Len(new)
      BY <2>1, <2>4
    <3>2. new[Len(new)] = all[Len(all)]
      BY <2>2, <3>1
    <3> QED  BY <2>1, <2>2, <3>1, <3>2, InSeq
  <2>6. ASSUME NEW x \in ToSet(new) PROVE x \in ToSet(ids) \cup {id}
    <3>1. PICK i \in 1..Len(new) : new[i] = x
      BY <2>2, InSeq
    <3> DEFINE j == Len(all) - Len(new) + i
    <3>2. x = all[j] /\ j \in 1..Len(all)
      <4>1. Len(all) \in Nat /\ i \in Nat /\ i >= 1 /\ i <= Len(new)
        BY <2>1, <2>4
      <4>2. j \in 1..Len(all)
        BY <2>4, <4>1
      <4>3. new[i] = all[j]
        BY <2>2
      <4> QED  BY <3>1, <4>2, <4>3
    <3> HIDE DEF j
    <3>3. j = Len(all) \/ j \in 1..Len(ids)
      BY <3>2, <2>1, <2>4
    <3> QED  BY <3>2, <3>3, <2>1, InSeq
  <2> QED  BY <2>2, <2>3, <2>5, <2>6 DEF Dropped
<1> QED  BY <1>1, <1>2

\* and after a removal.
LEMMA Removed ==
  ASSUME NEW S, NEW q \in Seq(S), NEW k \in 1..Len(q)
  PROVE  /\ RemoveAt(q, k) \in Seq(S)
         /\ Len(RemoveAt(q, k)) = Len(q) - 1
         /\ \A i \in 1..Len(q) - 1 : RemoveAt(q, k)[i] = IF i < k THEN q[i] ELSE q[i + 1]
<1> DEFINE a == SubSeq(q, 1, k - 1)
           b == SubSeq(q, k + 1, Len(q))
<1>1. /\ a \in Seq(S) /\ Len(a) = k - 1 /\ \A i \in 1..k - 1 : a[i] = q[i]
      /\ b \in Seq(S) /\ Len(b) = Len(q) - k /\ \A i \in 1..Len(b) : b[i] = q[k + i]
  BY SubSeqProperties
<1> HIDE DEF a, b
<1>2. /\ a \o b \in Seq(S) /\ Len(a \o b) = Len(a) + Len(b)
      /\ \A i \in 1..Len(a) + Len(b) : (a \o b)[i] = IF i <= Len(a) THEN a[i] ELSE b[i - Len(a)]
  BY <1>1, ConcatProperties
<1>3. RemoveAt(q, k) = a \o b
  BY DEF RemoveAt, a, b
<1>4. Len(a) + Len(b) = Len(q) - 1 /\ Len(q) \in Nat /\ k \in Nat
  BY <1>1
<1>5. ASSUME NEW i \in 1..Len(q) - 1 PROVE (a \o b)[i] = IF i < k THEN q[i] ELSE q[i + 1]
  <2>1. CASE i < k
    BY <2>1, <1>1, <1>2, <1>4
  <2>2. CASE i >= k
    <3>1. i - Len(a) \in 1..Len(b) /\ k + (i - Len(a)) = i + 1 /\ ~(i <= Len(a))
      BY <2>2, <1>1, <1>4
    <3>2. (a \o b)[i] = b[i - Len(a)]
      BY <3>1, <1>2, <1>4
    <3>3. b[i - Len(a)] = q[k + (i - Len(a))]
      BY <3>1, <1>1
    <3> QED  BY <2>2, <3>1, <3>2, <3>3, <1>4
  <2> QED  BY <2>1, <2>2, <1>4
<1> QED  BY <1>2, <1>3, <1>4, <1>5

\* A list records no id twice: nor does it after one more,
LEMMA RecordOnce ==
  ASSUME NEW S, NEW ids \in Seq(S), NEW id \in S, NEW n \in Nat, n > 0,
         ~Seen(ids, id), IsInjective(ids), Len(ids) <= n
  PROVE  /\ IsInjective(Record(ids, id, n)) /\ Len(Record(ids, id, n)) <= n
         /\ Record(ids, id, n) \in Seq(S)
<1> DEFINE all == Append(ids, id)
           new == SubSeq(all, Max({1, Len(all) - n + 1}), Len(all))
<1>1. all \in Seq(S) /\ Len(all) = Len(ids) + 1 /\ all[Len(all)] = id
      /\ \A i \in 1..Len(ids) : all[i] = ids[i]
  OBVIOUS
<1>2. Len(ids) \in Nat /\ \A i \in 1..Len(ids) : ids[i] # id
  BY DEF Seen, ToSet
<1> HIDE DEF all
<1>3. /\ new \in Seq(S) /\ Len(new) = (IF Len(all) <= n THEN Len(all) ELSE n)
      /\ \A i \in 1..Len(new) : new[i] = all[Len(all) - Len(new) + i]
  BY ZenonT(30), <1>1, LastOf
<1>4. Record(ids, id, n) = new
  BY DEF Record, all
<1> HIDE DEF new
<1>5. Len(new) \in Nat /\ Len(new) <= n /\ Len(new) <= Len(all) /\ Len(all) \in Nat
  <2>1. Len(new) \in Nat /\ Len(all) \in Nat
    BY <1>1, <1>3
  <2> QED  BY <1>3, <2>1
<1>6. ASSUME NEW i \in 1..Len(all), NEW j \in 1..Len(all), all[i] = all[j] PROVE i = j
  <2>1. \A k \in 1..Len(all) : k = Len(all) \/ k \in 1..Len(ids)
    BY <1>1, <1>2
  <2>2. \A k, l \in 1..Len(ids) : ids[k] = ids[l] => k = l
    BY DEF IsInjective
  <2> QED  BY <1>1, <1>2, <1>6, <2>1, <2>2
<1>7. ASSUME NEW i \in 1..Len(new), NEW j \in 1..Len(new), new[i] = new[j] PROVE i = j
  <2>1. Len(all) - Len(new) + i \in 1..Len(all) /\ Len(all) - Len(new) + j \in 1..Len(all)
    BY <1>5
  <2>2. Len(all) - Len(new) + i = Len(all) - Len(new) + j
    BY <1>3, <1>6, <1>7, <2>1
  <2> QED  BY <1>5, <2>2
<1>8. IsInjective(new)
  BY <1>3, <1>7 DEF IsInjective
<1> QED  BY <1>3, <1>4, <1>5, <1>8

\* and after one is forgotten, which then is not in it.
LEMMA Forgetting ==
  ASSUME NEW S, NEW ids \in Seq(S), NEW id, IsInjective(ids)
  PROVE  /\ Forget(ids, id) \in Seq(S) /\ IsInjective(Forget(ids, id))
         /\ Len(Forget(ids, id)) <= Len(ids)
         /\ ToSet(Forget(ids, id)) = ToSet(ids) \ {id}
<1>0. Len(ids) \in Nat /\ DOMAIN ids = 1..Len(ids)
  OBVIOUS
<1>1. CASE ~\E i \in 1..Len(ids) : ids[i] = id
  <2>1. Forget(ids, id) = ids
    BY <1>1 DEF Forget, RemoveFirst
  <2>2. id \notin ToSet(ids)
    BY <1>1 DEF ToSet
  <2> QED  BY <1>0, <2>1, <2>2
<1>2. CASE \E i \in 1..Len(ids) : ids[i] = id
  <2>1. PICK k \in 1..Len(ids) : ids[k] = id
    BY <1>2
  <2>2. {i \in 1..Len(ids) : ids[i] = id} = {k}
    BY <1>0, <2>1 DEF IsInjective
  <2>3. Min({k}) = k
    BY <1>0 DEF Min
  <2>4. SelectInSeq(ids, LAMBDA v : v = id) = k
    BY <2>2, <2>3 DEF SelectInSeq
  <2>5. Forget(ids, id) = RemoveAt(ids, k)
    BY <1>2, <2>4 DEF Forget, RemoveFirst
  <2>6. PICK q : q = RemoveAt(ids, k)
    OBVIOUS
  <2>7. /\ q \in Seq(S) /\ Len(q) = Len(ids) - 1
        /\ \A i \in 1..Len(ids) - 1 : q[i] = IF i < k THEN ids[i] ELSE ids[i + 1]
    BY <2>6, Removed
  <2>8. Len(q) \in Nat /\ DOMAIN q = 1..Len(q) /\ k \in Nat
    BY <2>7
  <2>9. \A i \in 1..Len(q) : (i < k => q[i] = ids[i]) /\ (i >= k => q[i] = ids[i + 1])
    BY <2>7, <2>8
  <2>10. \A i, j \in 1..Len(ids) : ids[i] = ids[j] => i = j
    BY <1>0 DEF IsInjective
  <2>11. ASSUME NEW i \in 1..Len(q), NEW j \in 1..Len(q), q[i] = q[j] PROVE i = j
    <3> DEFINE a == IF i < k THEN i ELSE i + 1
               b == IF j < k THEN j ELSE j + 1
    <3>1. a \in 1..Len(ids) /\ b \in 1..Len(ids) /\ q[i] = ids[a] /\ q[j] = ids[b]
      BY <1>0, <2>7, <2>8, <2>9
    <3>2. a = b
      BY <2>10, <2>11, <3>1
    <3> QED  BY <2>8, <3>2
  <2>12. IsInjective(q)
    BY <2>8, <2>11 DEF IsInjective
  <2>13. ASSUME NEW x \in ToSet(q) PROVE x \in ToSet(ids) \ {id}
    <3>1. PICK i \in 1..Len(q) : q[i] = x
      BY <2>7, InSeq
    <3> DEFINE a == IF i < k THEN i ELSE i + 1
    <3>2. a \in 1..Len(ids) /\ x = ids[a] /\ a # k
      BY <1>0, <2>7, <2>8, <2>9, <3>1
    <3>3. x # id
      BY <2>1, <2>10, <3>2
    <3> HIDE DEF a
    <3> QED  BY <3>2, <3>3, InSeq
  <2>14. ASSUME NEW x \in ToSet(ids) \ {id} PROVE x \in ToSet(q)
    <3>1. PICK i \in 1..Len(ids) : ids[i] = x
      BY InSeq
    <3>2. i # k
      BY <2>1, <3>1
    <3>3. CASE i < k
      <4>1. i \in 1..Len(q) /\ q[i] = x
        BY <1>0, <2>7, <2>8, <2>9, <3>1, <3>3
      <4> QED  BY <2>7, <4>1, InSeq
    <3>4. CASE i > k
      <4>1. i - 1 \in 1..Len(q) /\ i - 1 >= k /\ (i - 1) + 1 = i
        BY <1>0, <2>7, <2>8, <3>4
      <4>2. q[i - 1] = x
        BY <2>9, <3>1, <4>1
      <4> QED  BY <2>7, <4>1, <4>2, InSeq
    <3> QED  BY <2>8, <3>2, <3>3, <3>4
  <2> QED  BY <1>0, <2>5, <2>6, <2>7, <2>12, <2>13, <2>14
<1> QED  BY <1>1, <1>2

\* What is in a sequence says whose sequence it is.
Listing(q) == q \in Seq(ToSet(q))
\* Any sequence is a listing.
LEMMA ListingIs ==
  ASSUME NEW S, NEW q \in Seq(S)
  PROVE  Listing(q)
<1>1. Len(q) \in Nat /\ DOMAIN q = 1..Len(q) /\ \A i \in 1..Len(q) : q[i] \in ToSet(q)
  BY InSeq
<1>2. q = [i \in 1..Len(q) |-> q[i]]
  OBVIOUS
<1> QED  BY <1>1, <1>2 DEF Listing

\* One more at the end.
LEMMA AppendedIs ==
  ASSUME NEW q, NEW e, Listing(q)
  PROVE  LET r == Append(q, e) IN
         /\ Listing(r) /\ Len(q) \in Nat /\ Len(r) = Len(q) + 1 /\ DOMAIN r = 1..Len(r) /\ DOMAIN q = 1..Len(q)
         /\ r[Len(q) + 1] = e /\ \A i \in 1..Len(q) : r[i] = q[i]
<1> DEFINE r == Append(q, e)
           S == ToSet(q) \cup {e}
<1>1. q \in Seq(S) /\ e \in S
  BY DEF Listing
<1> HIDE DEF S
<1>2. /\ r \in Seq(S) /\ Len(q) \in Nat /\ Len(r) = Len(q) + 1 /\ DOMAIN r = 1..Len(r) /\ DOMAIN q = 1..Len(q)
      /\ r[Len(q) + 1] = e /\ \A i \in 1..Len(q) : r[i] = q[i]
  BY <1>1
<1>3. Listing(r)
  BY <1>2, ListingIs
<1> QED  BY <1>2, <1>3

-----------------------------------------------------------------------------
(* What holds of one device's stores, whatever the others do. *)

Fields(s) ==
  s = [listed |-> s.listed, rec |-> s.rec, owed |-> s.owed, copies |-> s.copies, seen |-> s.seen,
       chat |-> s.chat, reacted |-> s.reacted, tickets |-> s.tickets, proved |-> s.proved,
       phase |-> s.phase, subscribed |-> s.subscribed, forgot |-> s.forgot]

\* A copy a device takes; what is filed in the chat.
GoodCopy(b) == b.kind = "copy" /\ b.refused = FALSE
ForChat(b) == b.kind = "mail" \/ GoodCopy(b)

RecOK(r) == r.op \in {"none", "join", "leave"} /\ r.at \in Int /\ r.at >= -1
SyncOK(b) == b.op \in {"join", "leave"} /\ b.at \in Nat

\* The types of a device: one membership message owed at most, no id recorded
\* twice, a reaction only on what is filed.
DevOK(s) ==
  /\ Fields(s)
  /\ s.listed \in BOOLEAN /\ s.subscribed \in BOOLEAN /\ s.phase \in {"off", "pulling", "on"}
  /\ RecOK(s.rec)
  /\ \A a, b \in s.owed : a = b
  /\ \A b \in s.owed : b.kind = "sync" /\ SyncOK(b)
  /\ \A c \in s.copies : GoodCopy(c)
  /\ Listing(s.seen) /\ Len(s.seen) <= SeenLimit /\ IsInjective(s.seen)
  /\ Listing(s.chat) /\ \A m : Filed(s, m) => ForChat(m)
  /\ \A m \in s.reacted : Filed(s, m)

\* A blob of RFed: all but a sync and a copy come from elsewhere.
BlobOK(out, b) ==
  /\ b.kind \in {"mail", "reaction", "ticket", "control", "copy", "sync"}
  /\ b.kind = "sync" => SyncOK(b)
  /\ b.kind = "copy" => b.refused \in BOOLEAN
  /\ b.kind \notin {"sync", "copy"} => b \in out
OutSound(out) ==
  \A b \in out : BlobOK(out, b) /\ ~GoodCopy(b) /\ (b.kind = "mail" => b.by \notin Device)

\* An id the list has or had; what a device took of an id, if it took any.
KeyIn(s, key) == key \in ToSet(s.seen) \cup s.forgot
Took(out, s, key) ==
  \/ \E i \in DOMAIN s.chat : Key(s.chat[i]) = key
  \/ \E b \in out : /\ Key(b) = key
                    /\ \/ b.kind = "reaction" /\ b.of \in s.reacted
                       \/ b.kind = "ticket" /\ b.of \in s.proved

\* The list of device d knows what it took: an id of a source and a time is in
\* it only with what was taken of it; what came and is filed is, or was, in
\* it; what was sent here is filed at its place; and so a message is filed
\* once, and one of an id, but for what was sent here and what it forgot.
SeenTook(out, s) == \A src, ts : TimeKey(src, ts) \in ToSet(s.seen) => Took(out, s, TimeKey(src, ts))
CameKnown(s, d) == \A i \in DOMAIN s.chat : s.chat[i].by # d => KeyIn(s, Key(s.chat[i]))
OwnPlaced(s, d) == \A i \in DOMAIN s.chat : s.chat[i].by = d => s.chat[i].n = i
OnceFiled(s, d) ==
  \A i, j \in DOMAIN s.chat :
    i # j /\ Key(s.chat[i]) = Key(s.chat[j]) =>
      \/ Key(s.chat[i]) \in s.forgot
      \/ s.chat[i] # s.chat[j] /\ d \in {s.chat[i].by, s.chat[j].by}
DevKeys(out, s, d) == SeenTook(out, s) /\ CameKnown(s, d) /\ OwnPlaced(s, d) /\ OnceFiled(s, d)

-----------------------------------------------------------------------------
(* The operations on a device, field by field. *)

Recorded(s, key) ==
  [s EXCEPT !.seen = Record(@, key, SeenLimit), !.forgot = @ \cup Dropped(s.seen, key, SeenLimit)]

\* The fields are those.
LEMMA FieldNames ==
  ASSUME NEW s, Fields(s)
  PROVE  DOMAIN s = {"listed", "rec", "owed", "copies", "seen", "chat", "reacted", "tickets", "proved",
                     "phase", "subscribed", "forgot"}
BY DEF Fields

\* What an update leaves of them.
LEMMA Updated ==
  ASSUME NEW s, NEW a, NEW b, NEW c, Fields(s)
  PROVE  /\ Fields([s EXCEPT !.seen = a, !.forgot = b])
         /\ Fields([s EXCEPT !.listed = a, !.subscribed = b])
         /\ Fields([s EXCEPT !.rec = a, !.owed = b])
         /\ Fields([s EXCEPT !.tickets = a, !.proved = b])
         /\ Fields([s EXCEPT !.owed = a, !.copies = b])
         /\ Fields([s EXCEPT !.phase = a, !.subscribed = b])
         /\ Fields([s EXCEPT !.phase = a, !.subscribed = b, !.tickets = c])
         /\ Fields([s EXCEPT !.copies = a, !.tickets = b])
         /\ Fields([s EXCEPT !.seen = a])
         /\ Fields([s EXCEPT !.chat = a])
         /\ Fields([s EXCEPT !.reacted = a])
         /\ Fields([s EXCEPT !.rec = a])
         /\ Fields([s EXCEPT !.phase = a])
<1>1. ASSUME NEW w, w = [s EXCEPT !.seen = a, !.forgot = b] PROVE Fields(w)
  BY <1>1 DEF Fields
<1>2. ASSUME NEW w, w = [s EXCEPT !.listed = a, !.subscribed = b] PROVE Fields(w)
  BY <1>2 DEF Fields
<1>3. ASSUME NEW w, w = [s EXCEPT !.rec = a, !.owed = b] PROVE Fields(w)
  BY <1>3 DEF Fields
<1>4. ASSUME NEW w, w = [s EXCEPT !.tickets = a, !.proved = b] PROVE Fields(w)
  BY <1>4 DEF Fields
<1>5. ASSUME NEW w, w = [s EXCEPT !.owed = a, !.copies = b] PROVE Fields(w)
  BY <1>5 DEF Fields
<1>6. ASSUME NEW w, w = [s EXCEPT !.phase = a, !.subscribed = b] PROVE Fields(w)
  BY <1>6 DEF Fields
<1>7. ASSUME NEW w, w = [s EXCEPT !.phase = a, !.subscribed = b, !.tickets = c] PROVE Fields(w)
  BY <1>7 DEF Fields
<1>8. ASSUME NEW w, w = [s EXCEPT !.copies = a, !.tickets = b] PROVE Fields(w)
  BY <1>8 DEF Fields
<1>9. ASSUME NEW w, w = [s EXCEPT !.seen = a] PROVE Fields(w)
  BY <1>9 DEF Fields
<1>10. ASSUME NEW w, w = [s EXCEPT !.chat = a] PROVE Fields(w)
  BY <1>10 DEF Fields
<1>11. ASSUME NEW w, w = [s EXCEPT !.reacted = a] PROVE Fields(w)
  BY <1>11 DEF Fields
<1>12. ASSUME NEW w, w = [s EXCEPT !.rec = a] PROVE Fields(w)
  BY <1>12 DEF Fields
<1>13. ASSUME NEW w, w = [s EXCEPT !.phase = a] PROVE Fields(w)
  BY <1>13 DEF Fields
<1> QED  BY <1>1, <1>2, <1>3, <1>4, <1>5, <1>6, <1>7, <1>8, <1>9, <1>10, <1>11, <1>12, <1>13

\* Recording an id: the list and what it forgot.
LEMMA RecordedIs ==
  ASSUME NEW s, NEW key, Fields(s)
  PROVE  LET t == Recorded(s, key) IN
         /\ Fields(t) /\ t.seen = Record(s.seen, key, SeenLimit)
         /\ t.forgot = s.forgot \cup Dropped(s.seen, key, SeenLimit)
         /\ t.listed = s.listed /\ t.rec = s.rec /\ t.owed = s.owed /\ t.copies = s.copies /\ t.chat = s.chat
         /\ t.reacted = s.reacted /\ t.tickets = s.tickets /\ t.proved = s.proved
         /\ t.phase = s.phase /\ t.subscribed = s.subscribed
<1>1. Fields(Recorded(s, key))
  BY Updated DEF Recorded
<1>2. LET t == Recorded(s, key) IN
      /\ t.seen = Record(s.seen, key, SeenLimit) /\ t.forgot = s.forgot \cup Dropped(s.seen, key, SeenLimit) /\ t.listed = s.listed /\ t.rec = s.rec
      /\ t.owed = s.owed /\ t.copies = s.copies /\ t.chat = s.chat /\ t.reacted = s.reacted
      /\ t.tickets = s.tickets /\ t.proved = s.proved /\ t.phase = s.phase /\ t.subscribed = s.subscribed
  BY FieldNames DEF Recorded
<1> QED  BY <1>1, <1>2

\* Filing a message: the chat.
LEMMA FileIs ==
  ASSUME NEW s, NEW m, Fields(s)
  PROVE  LET t == File(s, m) IN
         /\ Fields(t) /\ t.chat = Append(s.chat, m)
         /\ t.seen = s.seen /\ t.forgot = s.forgot
         /\ t.listed = s.listed /\ t.rec = s.rec /\ t.owed = s.owed /\ t.copies = s.copies
         /\ t.reacted = s.reacted /\ t.tickets = s.tickets /\ t.proved = s.proved
         /\ t.phase = s.phase /\ t.subscribed = s.subscribed
<1>1. Fields(File(s, m))
  BY Updated DEF File
<1>2. LET t == File(s, m) IN
      /\ t.chat = Append(s.chat, m) /\ t.seen = s.seen /\ t.forgot = s.forgot /\ t.listed = s.listed
      /\ t.rec = s.rec /\ t.owed = s.owed /\ t.copies = s.copies /\ t.reacted = s.reacted
      /\ t.tickets = s.tickets /\ t.proved = s.proved /\ t.phase = s.phase /\ t.subscribed = s.subscribed
  BY FieldNames DEF File
<1> QED  BY <1>1, <1>2

\* Forgetting an id: the list.
LEMMA DroppedIs ==
  ASSUME NEW s, NEW key, Fields(s)
  PROVE  LET t == DroppedBlob(s, key) IN
         /\ Fields(t) /\ t.seen = Forget(s.seen, key)
         /\ t.chat = s.chat /\ t.forgot = s.forgot
         /\ t.listed = s.listed /\ t.rec = s.rec /\ t.owed = s.owed /\ t.copies = s.copies
         /\ t.reacted = s.reacted /\ t.tickets = s.tickets /\ t.proved = s.proved
         /\ t.phase = s.phase /\ t.subscribed = s.subscribed
<1>1. Fields(DroppedBlob(s, key))
  BY Updated DEF DroppedBlob
<1>2. LET t == DroppedBlob(s, key) IN
      /\ t.seen = Forget(s.seen, key) /\ t.chat = s.chat /\ t.forgot = s.forgot /\ t.listed = s.listed
      /\ t.rec = s.rec /\ t.owed = s.owed /\ t.copies = s.copies /\ t.reacted = s.reacted
      /\ t.tickets = s.tickets /\ t.proved = s.proved /\ t.phase = s.phase /\ t.subscribed = s.subscribed
  BY FieldNames DEF DroppedBlob
<1> QED  BY <1>1, <1>2

\* All but the channel and its subscription; more reactions and tickets at most.
SameMail(s, t) ==
  /\ Fields(t) /\ t.seen = s.seen /\ t.forgot = s.forgot /\ t.chat = s.chat
  /\ t.copies = s.copies /\ t.phase = s.phase
  /\ s.reacted \subseteq t.reacted /\ s.proved \subseteq t.proved

\* A reaction taken.
LEMMA ReactedIs ==
  ASSUME NEW s, NEW of, Fields(s)
  PROVE  LET t == [s EXCEPT !.reacted = @ \cup {of}] IN
         /\ SameMail(s, t) /\ t.owed = s.owed /\ t.reacted = s.reacted \cup {of}
         /\ t.listed = s.listed /\ t.rec = s.rec /\ t.subscribed = s.subscribed
<1>1. Fields([s EXCEPT !.reacted = @ \cup {of}])
  BY Updated
<1>2. LET t == [s EXCEPT !.reacted = @ \cup {of}] IN
      /\ t.seen = s.seen /\ t.forgot = s.forgot /\ t.chat = s.chat /\ t.copies = s.copies
      /\ t.phase = s.phase /\ t.owed = s.owed /\ t.reacted = s.reacted \cup {of} /\ t.listed = s.listed
      /\ t.rec = s.rec /\ t.subscribed = s.subscribed /\ t.proved = s.proved
  BY FieldNames
<1> QED  BY <1>1, <1>2 DEF SameMail

\* A ticket taken.
LEMMA TicketIs ==
  ASSUME NEW s, NEW of, Fields(s)
  PROVE  LET t == [s EXCEPT !.tickets = @ \ {of}, !.proved = @ \cup {of}] IN
         /\ SameMail(s, t) /\ t.owed = s.owed /\ t.reacted = s.reacted /\ t.proved = s.proved \cup {of}
         /\ t.listed = s.listed /\ t.rec = s.rec /\ t.subscribed = s.subscribed
<1>1. Fields([s EXCEPT !.tickets = @ \ {of}, !.proved = @ \cup {of}])
  BY Updated
<1>2. LET t == [s EXCEPT !.tickets = @ \ {of}, !.proved = @ \cup {of}] IN
      /\ t.seen = s.seen /\ t.forgot = s.forgot /\ t.chat = s.chat /\ t.copies = s.copies
      /\ t.phase = s.phase /\ t.owed = s.owed /\ t.reacted = s.reacted /\ t.listed = s.listed
      /\ t.rec = s.rec /\ t.subscribed = s.subscribed /\ t.proved = s.proved \cup {of}
  BY FieldNames
<1> QED  BY <1>1, <1>2 DEF SameMail

\* The channel joined here,
LEMMA JoinHereIs ==
  ASSUME NEW s, NEW subscribe \in BOOLEAN, Fields(s), s.subscribed \in BOOLEAN
  PROVE  LET t == JoinHere(s, subscribe) IN
         /\ SameMail(s, t) /\ t.owed = s.owed /\ t.reacted = s.reacted
         /\ t.listed = TRUE /\ t.rec = s.rec /\ t.subscribed \in BOOLEAN
<1>1. (s.subscribed \/ subscribe) \in BOOLEAN
  OBVIOUS
<1>2. PICK v \in BOOLEAN : v = (s.subscribed \/ subscribe)
  BY <1>1
<1>3. JoinHere(s, subscribe) = [s EXCEPT !.listed = TRUE, !.subscribed = v]
  BY <1>2 DEF JoinHere
<1>4. Fields([s EXCEPT !.listed = TRUE, !.subscribed = v])
  BY Updated
<1>5. LET t == [s EXCEPT !.listed = TRUE, !.subscribed = v] IN
      /\ t.seen = s.seen /\ t.forgot = s.forgot /\ t.chat = s.chat /\ t.copies = s.copies
      /\ t.phase = s.phase /\ t.owed = s.owed /\ t.reacted = s.reacted /\ t.listed = TRUE
      /\ t.rec = s.rec /\ t.subscribed = v /\ t.proved = s.proved
  BY FieldNames
<1> QED  BY <1>3, <1>4, <1>5 DEF SameMail

\* and left.
LEMMA LeaveHereIs ==
  ASSUME NEW s, Fields(s)
  PROVE  LET t == LeaveHere(s) IN
         /\ SameMail(s, t) /\ t.owed = s.owed /\ t.reacted = s.reacted
         /\ t.listed = FALSE /\ t.rec = s.rec /\ t.subscribed = FALSE
<1>1. Fields(LeaveHere(s))
  BY Updated DEF LeaveHere
<1>2. LET t == LeaveHere(s) IN
      /\ t.seen = s.seen /\ t.forgot = s.forgot /\ t.chat = s.chat /\ t.copies = s.copies
      /\ t.phase = s.phase /\ t.owed = s.owed /\ t.reacted = s.reacted /\ t.listed = FALSE
      /\ t.rec = s.rec /\ t.subscribed = FALSE /\ t.proved = s.proved
  BY FieldNames DEF LeaveHere
<1> QED  BY <1>1, <1>2 DEF SameMail

\* The membership record set.
LEMMA RecIs ==
  ASSUME NEW s, NEW rec, Fields(s)
  PROVE  LET t == [s EXCEPT !.rec = rec] IN
         /\ SameMail(s, t) /\ t.owed = s.owed /\ t.reacted = s.reacted
         /\ t.listed = s.listed /\ t.rec = rec /\ t.subscribed = s.subscribed
<1>1. Fields([s EXCEPT !.rec = rec])
  BY Updated
<1>2. LET t == [s EXCEPT !.rec = rec] IN
      /\ t.seen = s.seen /\ t.forgot = s.forgot /\ t.chat = s.chat /\ t.copies = s.copies
      /\ t.phase = s.phase /\ t.owed = s.owed /\ t.reacted = s.reacted /\ t.listed = s.listed
      /\ t.rec = rec /\ t.subscribed = s.subscribed /\ t.proved = s.proved
  BY FieldNames
<1> QED  BY <1>1, <1>2 DEF SameMail

Owes(s, t, rec, owed) == t = [s EXCEPT !.rec = rec, !.owed = owed]
\* The membership record set, and its message owed.
LEMMA OwedIs ==
  ASSUME NEW s, NEW rec, NEW owed, Fields(s), NEW t, Owes(s, t, rec, owed)
  PROVE  /\ SameMail(s, t) /\ t.owed = owed /\ t.reacted = s.reacted
         /\ t.listed = s.listed /\ t.rec = rec /\ t.subscribed = s.subscribed
<1>1. Fields([s EXCEPT !.rec = rec, !.owed = owed])
  BY Updated
<1>2. LET u == [s EXCEPT !.rec = rec, !.owed = owed] IN
      /\ u.seen = s.seen /\ u.forgot = s.forgot /\ u.chat = s.chat /\ u.copies = s.copies
      /\ u.phase = s.phase /\ u.owed = owed /\ u.reacted = s.reacted /\ u.listed = s.listed
      /\ u.rec = rec /\ u.subscribed = s.subscribed /\ u.proved = s.proved
  BY FieldNames
<1>3. t = [s EXCEPT !.rec = rec, !.owed = owed]
  BY DEF Owes
<1> QED  BY <1>1, <1>2, <1>3 DEF SameMail

\* A membership message applied.
LEMMA ApplySyncIs ==
  ASSUME NEW s, NEW b, DevOK(s), SyncOK(b)
  PROVE  LET t == ApplySync(s, b) IN
         /\ SameMail(s, t) /\ t.owed = s.owed /\ t.reacted = s.reacted
         /\ t.listed \in BOOLEAN /\ t.subscribed \in BOOLEAN
         /\ t.rec = [op |-> b.op, at |-> b.at]
<1> DEFINE rec == [op |-> b.op, at |-> b.at]
           u == IF b.op = "join" /\ ~s.listed THEN JoinHere(s, Resubscribed(s))
                ELSE IF b.op = "leave" /\ s.listed THEN LeaveHere(s)
                ELSE s
<1>1. Fields(s) /\ s.subscribed \in BOOLEAN /\ s.listed \in BOOLEAN /\ Resubscribed(s) \in BOOLEAN
  BY DEF DevOK, Resubscribed
<1>2. /\ SameMail(s, u) /\ u.owed = s.owed /\ u.reacted = s.reacted
      /\ u.listed \in BOOLEAN /\ u.subscribed \in BOOLEAN
  <2>1. CASE b.op = "join" /\ ~s.listed
    <3>1. u = JoinHere(s, Resubscribed(s))
      BY <2>1
    <3> HIDE DEF u
    <3> QED  BY <1>1, <3>1, JoinHereIs
  <2>2. CASE ~(b.op = "join" /\ ~s.listed) /\ b.op = "leave" /\ s.listed
    <3>1. u = LeaveHere(s)
      BY <2>2
    <3> HIDE DEF u
    <3> QED  BY <1>1, <3>1, LeaveHereIs
  <2>3. CASE ~(b.op = "join" /\ ~s.listed) /\ ~(b.op = "leave" /\ s.listed)
    <3>1. u = s
      BY <2>3
    <3> HIDE DEF u
    <3> QED  BY <1>1, <3>1 DEF SameMail
  <2> QED  BY <2>1, <2>2, <2>3
<1>3. ApplySync(s, b) = [u EXCEPT !.rec = rec]
  BY DEF ApplySync
<1> HIDE DEF u, rec
<1>4. Fields(u)
  BY <1>2 DEF SameMail
<1>5. PICK t : t = [u EXCEPT !.rec = rec]
  OBVIOUS
<1>6. /\ SameMail(u, t) /\ t.owed = u.owed /\ t.reacted = u.reacted
      /\ t.listed = u.listed /\ t.rec = rec /\ t.subscribed = u.subscribed
  BY <1>4, <1>5, RecIs
<1>7. SameMail(s, t)
  BY <1>2, <1>6 DEF SameMail
<1>8. ApplySync(s, b) = t
  BY <1>3, <1>5
<1> QED  BY <1>2, <1>6, <1>7, <1>8 DEF rec

-----------------------------------------------------------------------------
(* What handling blobs does to a device. *)

\* Two ids are one only of one source and time, and a sync's is no such id.
LEMMA KeysApart ==
  /\ \A a, b, x, y : TimeKey(a, x) = TimeKey(b, y) => a = b /\ x = y
  /\ \A b : b.kind = "sync" => \A a, x : TimeKey(a, x) # Key(b)
  /\ \A b : b.kind = "copy" => Key(b) = TimeKey(Distro, b.ts)
  /\ \A b : b.kind \notin {"sync", "copy"} => Key(b) = TimeKey("x", b.ts)
  /\ Distro # "x"
BY DEF TimeKey, Key, Distro

\* What is filed after one message more.
Adds(s, t, m) == t.chat = Append(s.chat, m)
Extends(s, t) == \A i \in DOMAIN s.chat : i \in DOMAIN t.chat /\ t.chat[i] = s.chat[i]
FiledAfter(s, t, m) ==
  /\ Listing(t.chat) /\ Extends(s, t)
  /\ Len(s.chat) + 1 \in DOMAIN t.chat /\ t.chat[Len(s.chat) + 1] = m
  /\ \A i \in DOMAIN t.chat : i \in DOMAIN s.chat \/ i = Len(s.chat) + 1
  /\ \A k : Filed(t, k) <=> Filed(s, k) \/ k = m
\* One message more: it alone is filed anew.
LEMMA FiledMore ==
  ASSUME NEW s, NEW t, NEW m, Listing(s.chat), Adds(s, t, m)
  PROVE  FiledAfter(s, t, m)
<1>1. /\ Listing(t.chat) /\ Len(s.chat) \in Nat /\ Len(t.chat) = Len(s.chat) + 1
      /\ DOMAIN t.chat = 1..Len(t.chat) /\ DOMAIN s.chat = 1..Len(s.chat)
      /\ t.chat[Len(s.chat) + 1] = m /\ \A i \in 1..Len(s.chat) : t.chat[i] = s.chat[i]
  BY AppendedIs DEF Adds
<1>2. /\ Extends(s, t) /\ Len(s.chat) + 1 \in DOMAIN t.chat
      /\ \A i \in DOMAIN t.chat : i \in DOMAIN s.chat \/ i = Len(s.chat) + 1
  BY <1>1 DEF Extends
<1>3. \A k : Filed(t, k) <=> Filed(s, k) \/ k = m
  BY <1>1, <1>2 DEF Filed, ToSet, Extends
<1> QED  BY <1>1, <1>2, <1>3 DEF FiledAfter

\* The same chat files the same.
LEMMA FiledSame ==
  ASSUME NEW s, NEW t, t.chat = s.chat
  PROVE  (\A m : Filed(t, m) <=> Filed(s, m)) /\ Extends(s, t)
BY DEF Filed, Extends

\* With more of everything, no less was taken.
MoreTaken(s, t) == s.reacted \subseteq t.reacted /\ s.proved \subseteq t.proved
LEMMA TookMore ==
  ASSUME NEW out, NEW s, NEW t, Extends(s, t), MoreTaken(s, t)
  PROVE  \A key : Took(out, s, key) => Took(out, t, key)
BY DEF Took, Extends, MoreTaken

\* What is filed is taken.
LEMMA FiledIsTaken ==
  ASSUME NEW out, NEW s, NEW m, Filed(s, m)
  PROVE  Took(out, s, Key(m))
BY DEF Filed, ToSet, Took

\* What reaches d: RFed's, and a copy a device sent, that d has if it is its own.
Comes(out, s, b, d) ==
  /\ BlobOK(out, b)
  /\ b.kind = "mail" => b.by # d
  /\ GoodCopy(b) /\ b.by = d => Filed(s, b)

\* From s to t, of device d, by the blobs B: what is filed is theirs, and of
\* each message's id something is taken.
Moved(out, d, s, t, B) ==
  /\ DevOK(t) /\ DevKeys(out, t, d) /\ t.copies = s.copies
  /\ \A m : Filed(s, m) => Filed(t, m)
  /\ \A m : Filed(t, m) => Filed(s, m) \/ m \in B
  /\ \A key : Took(out, s, key) => Took(out, t, key)
  /\ \A b \in B : ForChat(b) => Took(out, t, Key(b))

\* The membership record goes on only to what supersedes it, and the
\* subscription only with it.
Onward(s, t) == (t.rec = s.rec /\ t.subscribed = s.subscribed) \/ Supersedes(t.rec, s.rec)

\* One blob: what becomes of the list and the chat.
SeenAfter(s, t, b) ==
  /\ s.forgot \subseteq t.forgot /\ ToSet(t.seen) \subseteq ToSet(s.seen) \cup {Key(b)}
  /\ \A key : KeyIn(s, key) => KeyIn(t, key)
FiledBlob(s, t, b) == ForChat(b) /\ KeyIn(t, Key(b)) /\ Adds(s, t, b) /\ MoreTaken(s, t)
LeftOut(out, s, t, b) ==
  /\ t.chat = s.chat /\ MoreTaken(s, t)
  /\ Key(b) \in ToSet(t.seen) \/ ForChat(b) => b.kind = "sync" \/ Took(out, t, Key(b))

\* The list stays sound: an id it knows was taken of,
LEMMA SeenStill ==
  ASSUME NEW out, NEW s, NEW t, NEW b, SeenTook(out, s), SeenAfter(s, t, b), Extends(s, t), MoreTaken(s, t),
         Key(b) \in ToSet(t.seen) => b.kind = "sync" \/ Took(out, t, Key(b))
  PROVE  SeenTook(out, t)
<1> SUFFICES ASSUME NEW src, NEW ts, TimeKey(src, ts) \in ToSet(t.seen) PROVE Took(out, t, TimeKey(src, ts))
  BY DEF SeenTook
<1>1. CASE TimeKey(src, ts) \in ToSet(s.seen)
  BY <1>1, TookMore DEF SeenTook
<1>2. CASE TimeKey(src, ts) = Key(b)
  BY <1>2, KeysApart
<1> QED  BY <1>1, <1>2 DEF SeenAfter

\* when a message that came is filed,
LEMMA FiledKeys ==
  ASSUME NEW out, NEW s, NEW t, NEW b, NEW d, DevOK(s), DevKeys(out, s, d),
         ~(Key(b) \in ToSet(s.seen)), b.by # d, SeenAfter(s, t, b), FiledBlob(s, t, b)
  PROVE  DevKeys(out, t, d)
<1>1. FiledAfter(s, t, b)
  BY FiledMore DEF FiledBlob, DevOK
<1> DEFINE last == Len(s.chat) + 1
<1>2. /\ Extends(s, t) /\ last \in DOMAIN t.chat /\ t.chat[last] = b
      /\ \A i \in DOMAIN t.chat : i \in DOMAIN s.chat \/ i = last
  BY <1>1 DEF FiledAfter
<1> HIDE DEF last
<1>3. SeenTook(out, t)
  <2>1. Took(out, t, Key(b))
    BY <1>2 DEF Took
  <2> QED  BY <1>2, <2>1, SeenStill DEF DevKeys, FiledBlob
<1>4. CameKnown(t, d)
  BY <1>2 DEF CameKnown, DevKeys, Extends, SeenAfter, FiledBlob
<1>5. OwnPlaced(t, d)
  BY <1>2 DEF OwnPlaced, DevKeys, Extends
<1>6. ASSUME NEW i \in DOMAIN s.chat, Key(s.chat[i]) = Key(b)
      PROVE  Key(b) \in t.forgot \/ (s.chat[i] # b /\ s.chat[i].by = d)
  <2>1. CASE s.chat[i].by # d
    <3>1. KeyIn(s, Key(b))
      BY <1>6, <2>1 DEF DevKeys, CameKnown
    <3> QED  BY <3>1 DEF KeyIn, SeenAfter
  <2>2. CASE s.chat[i].by = d
    BY <2>2
  <2> QED  BY <2>1, <2>2
<1>7. OnceFiled(t, d)
  <2> SUFFICES ASSUME NEW i \in DOMAIN t.chat, NEW j \in DOMAIN t.chat, i # j, Key(t.chat[i]) = Key(t.chat[j])
               PROVE  \/ Key(t.chat[i]) \in t.forgot
                      \/ t.chat[i] # t.chat[j] /\ d \in {t.chat[i].by, t.chat[j].by}
    BY DEF OnceFiled
  <2>1. CASE i \in DOMAIN s.chat /\ j \in DOMAIN s.chat
    <3>1. t.chat[i] = s.chat[i] /\ t.chat[j] = s.chat[j] /\ s.forgot \subseteq t.forgot
      BY <1>2, <2>1 DEF Extends, SeenAfter
    <3> QED  BY <2>1, <3>1 DEF DevKeys, OnceFiled
  <2>2. CASE i = last
    <3>1. j \in DOMAIN s.chat /\ t.chat[j] = s.chat[j]
      BY <1>2, <2>2 DEF Extends
    <3> QED  BY <1>2, <1>6, <2>2, <3>1
  <2>3. CASE j = last
    <3>1. i \in DOMAIN s.chat /\ t.chat[i] = s.chat[i]
      BY <1>2, <2>3 DEF Extends
    <3> QED  BY <1>2, <1>6, <2>3, <3>1
  <2> QED  BY <1>2, <2>1, <2>2, <2>3
<1> QED  BY <1>3, <1>4, <1>5, <1>7 DEF DevKeys

\* and when nothing is.
LEMMA LeftKeys ==
  ASSUME NEW out, NEW s, NEW t, NEW b, NEW d, DevKeys(out, s, d), SeenAfter(s, t, b), LeftOut(out, s, t, b)
  PROVE  DevKeys(out, t, d)
<1>1. t.chat = s.chat /\ Extends(s, t)
  BY FiledSame DEF LeftOut
<1>2. SeenTook(out, t)
  BY <1>1, SeenStill DEF DevKeys, LeftOut
<1>3. CameKnown(t, d) /\ OwnPlaced(t, d)
  BY <1>1 DEF DevKeys, CameKnown, OwnPlaced, SeenAfter
<1>4. OnceFiled(t, d)
  BY <1>1 DEF DevKeys, OnceFiled, SeenAfter
<1> QED  BY <1>2, <1>3, <1>4 DEF DevKeys

\* A blob that is filed moves the device on,
LEMMA FiledMoves ==
  ASSUME NEW out, NEW s, NEW t, NEW b, NEW d, DevOK(s), DevKeys(out, s, d),
         ~(Key(b) \in ToSet(s.seen)), b.by # d, SeenAfter(s, t, b), FiledBlob(s, t, b),
         DevOK(t), t.copies = s.copies
  PROVE  Moved(out, d, s, t, {b})
<1>1. DevKeys(out, t, d)
  BY FiledKeys
<1>2. FiledAfter(s, t, b)
  BY FiledMore DEF FiledBlob, DevOK
<1>3. Extends(s, t) /\ (\A m : Filed(t, m) <=> Filed(s, m) \/ m = b)
  BY <1>2 DEF FiledAfter
<1>4. \A key : Took(out, s, key) => Took(out, t, key)
  BY <1>3, TookMore DEF FiledBlob
<1>5. Took(out, t, Key(b))
  BY <1>3, FiledIsTaken
<1> QED  BY <1>1, <1>3, <1>4, <1>5 DEF Moved

\* and one that is not leaves it as it was.
LEMMA LeftMoves ==
  ASSUME NEW out, NEW s, NEW t, NEW b, NEW d, DevKeys(out, s, d),
         SeenAfter(s, t, b), LeftOut(out, s, t, b), DevOK(t), t.copies = s.copies
  PROVE  Moved(out, d, s, t, {b})
<1>1. DevKeys(out, t, d)
  BY LeftKeys
<1>2. (\A m : Filed(t, m) <=> Filed(s, m)) /\ Extends(s, t)
  BY FiledSame DEF LeftOut
<1>3. \A key : Took(out, s, key) => Took(out, t, key)
  BY <1>2, TookMore DEF LeftOut
<1>4. ForChat(b) => Took(out, t, Key(b))
  BY DEF LeftOut, ForChat, GoodCopy
<1> QED  BY <1>1, <1>2, <1>3, <1>4 DEF Moved

\* Nothing of the mail changed.
LEMMA SameOK ==
  ASSUME NEW s, NEW t, DevOK(s), SameMail(s, t), t.listed \in BOOLEAN, t.subscribed \in BOOLEAN, RecOK(t.rec),
         \A a, b \in t.owed : a = b, \A b \in t.owed : b.kind = "sync" /\ SyncOK(b),
         \A m \in t.reacted : Filed(s, m)
  PROVE  DevOK(t)
<1>1. \A m : Filed(t, m) <=> Filed(s, m)
  BY FiledSame DEF SameMail
<1> QED  BY <1>1 DEF DevOK, SameMail

\* Nothing of the mail changed: nothing moved.
LEMMA SameMoves ==
  ASSUME NEW out, NEW s, NEW t, NEW d, DevKeys(out, s, d), DevOK(t), MoreTaken(s, t),
         t.seen = s.seen, t.forgot = s.forgot, t.chat = s.chat, t.copies = s.copies
  PROVE  Moved(out, d, s, t, {})
<1>1. (\A m : Filed(t, m) <=> Filed(s, m)) /\ Extends(s, t)
  BY FiledSame
<1>2. \A key : Took(out, s, key) => Took(out, t, key)
  BY <1>1, TookMore
<1>3. DevKeys(out, t, d)
  <2>1. SeenTook(out, t)
    BY <1>2 DEF DevKeys, SeenTook
  <2>2. CameKnown(t, d) /\ OwnPlaced(t, d) /\ OnceFiled(t, d)
    BY DEF DevKeys, CameKnown, OwnPlaced, OnceFiled, KeyIn
  <2> QED  BY <2>1, <2>2 DEF DevKeys
<1> QED  BY <1>1, <1>2, <1>3 DEF Moved

\* An id recorded that was not in the list,
LEMMA RecordedOK ==
  ASSUME NEW s, NEW b, DevOK(s), ~(Key(b) \in ToSet(s.seen))
  PROVE  LET r == Recorded(s, Key(b)) IN
         /\ DevOK(r) /\ SeenAfter(s, r, b) /\ Key(b) \in ToSet(r.seen)
         /\ r.chat = s.chat /\ r.copies = s.copies /\ r.owed = s.owed /\ r.rec = s.rec
         /\ r.phase = s.phase /\ r.subscribed = s.subscribed /\ r.reacted = s.reacted /\ r.proved = s.proved
<1> DEFINE key == Key(b)
           S == ToSet(s.seen) \cup {key}
           new == Record(s.seen, key, SeenLimit)
<1> HIDE DEF key
<1>1. PICK r : r = Recorded(s, key)
  OBVIOUS
<1>2. /\ Fields(r) /\ r.seen = new /\ r.forgot = s.forgot \cup Dropped(s.seen, key, SeenLimit)
      /\ r.listed = s.listed /\ r.rec = s.rec /\ r.owed = s.owed /\ r.copies = s.copies /\ r.chat = s.chat
      /\ r.reacted = s.reacted /\ r.tickets = s.tickets /\ r.proved = s.proved
      /\ r.phase = s.phase /\ r.subscribed = s.subscribed
  BY <1>1, RecordedIs DEF DevOK
<1>3. SeenLimit \in Nat /\ SeenLimit > 0
  BY DistroMailAssumption
<1>4. s.seen \in Seq(S) /\ key \in S /\ IsInjective(s.seen) /\ Len(s.seen) <= SeenLimit
  BY DEF DevOK, Listing
<1>5. ~Seen(s.seen, key)
  BY DEF Seen, key
<1> HIDE DEF S
<1>6. IsInjective(new) /\ Len(new) <= SeenLimit /\ new \in Seq(S)
  BY <1>3, <1>4, <1>5, RecordOnce
<1>7. /\ key \in ToSet(new) /\ ToSet(new) \subseteq ToSet(s.seen) \cup {key}
      /\ ToSet(s.seen) \subseteq ToSet(new) \cup Dropped(s.seen, key, SeenLimit)
  BY <1>3, <1>4, Recording
<1>8. Listing(new)
  BY <1>6, ListingIs
<1> HIDE DEF new
<1>9. DevOK(r)
  BY <1>2, <1>6, <1>8, FiledSame DEF DevOK
<1>10. SeenAfter(s, r, b)
  BY <1>2, <1>7 DEF SeenAfter, KeyIn, key
<1> QED  BY <1>1, <1>2, <1>7, <1>9, <1>10 DEF key

\* and forgotten again.
LEMMA DroppedOK ==
  ASSUME NEW out, NEW s, NEW r, NEW b, DevOK(r), SeenAfter(s, r, b), ~(Key(b) \in ToSet(s.seen)),
         r.chat = s.chat, r.reacted = s.reacted, r.proved = s.proved, ~ForChat(b)
  PROVE  LET t == DroppedBlob(r, Key(b)) IN
         /\ DevOK(t) /\ SeenAfter(s, t, b) /\ LeftOut(out, s, t, b)
         /\ t.copies = r.copies /\ t.owed = r.owed /\ t.rec = r.rec /\ t.phase = r.phase
         /\ t.subscribed = r.subscribed
<1> DEFINE key == Key(b)
           S == ToSet(r.seen)
           new == Forget(r.seen, key)
<1> HIDE DEF key
<1>1. PICK t : t = DroppedBlob(r, key)
  OBVIOUS
<1>2. /\ Fields(t) /\ t.seen = new /\ t.chat = r.chat /\ t.forgot = r.forgot
      /\ t.listed = r.listed /\ t.rec = r.rec /\ t.owed = r.owed /\ t.copies = r.copies
      /\ t.reacted = r.reacted /\ t.tickets = r.tickets /\ t.proved = r.proved
      /\ t.phase = r.phase /\ t.subscribed = r.subscribed
  BY <1>1, DroppedIs DEF DevOK
<1>3. r.seen \in Seq(S) /\ IsInjective(r.seen) /\ Len(r.seen) <= SeenLimit /\ Len(r.seen) \in Nat
  BY DEF DevOK, Listing
<1>4. /\ new \in Seq(S) /\ IsInjective(new) /\ Len(new) <= Len(r.seen)
      /\ ToSet(new) = ToSet(r.seen) \ {key}
  <2> HIDE DEF S
  <2> QED  BY <1>3, Forgetting
<1>5. Listing(new) /\ Len(new) \in Nat
  BY <1>4, ListingIs
<1>6. Len(new) <= SeenLimit
  BY <1>3, <1>4, <1>5, DistroMailAssumption
<1> HIDE DEF new, S
<1>7. DevOK(t)
  BY <1>2, <1>4, <1>5, <1>6, FiledSame DEF DevOK
<1>8. SeenAfter(s, t, b)
  <2>1. s.forgot \subseteq t.forgot /\ ToSet(t.seen) \subseteq ToSet(s.seen) \cup {key}
    BY <1>2, <1>4 DEF SeenAfter, key
  <2>2. ASSUME NEW k, KeyIn(s, k) PROVE KeyIn(t, k)
    <3>1. KeyIn(r, k)
      BY <2>2 DEF SeenAfter
    <3>2. CASE k \in s.forgot
      BY <3>2, <2>1 DEF KeyIn
    <3>3. CASE k \in ToSet(s.seen)
      <4>1. k # key
        BY <3>3 DEF key
      <4> QED  BY <1>2, <1>4, <3>1, <4>1 DEF KeyIn
    <3> QED  BY <2>2, <3>2, <3>3 DEF KeyIn
  <2> QED  BY <2>1, <2>2 DEF SeenAfter, key
<1>9. LeftOut(out, s, t, b)
  BY <1>2, <1>4 DEF LeftOut, MoreTaken, key
<1> QED  BY <1>1, <1>2, <1>7, <1>8, <1>9 DEF key

\* A message filed: the types stay.
LEMMA FileOK ==
  ASSUME NEW r, NEW m, DevOK(r), ForChat(m)
  PROVE  LET t == File(r, m) IN
         /\ DevOK(t) /\ Adds(r, t, m) /\ t.seen = r.seen /\ t.forgot = r.forgot
         /\ t.copies = r.copies /\ t.owed = r.owed /\ t.rec = r.rec /\ t.phase = r.phase
         /\ t.subscribed = r.subscribed /\ t.reacted = r.reacted /\ t.proved = r.proved
<1>1. PICK t : t = File(r, m)
  OBVIOUS
<1>2. /\ Fields(t) /\ t.chat = Append(r.chat, m)
      /\ t.seen = r.seen /\ t.forgot = r.forgot
      /\ t.listed = r.listed /\ t.rec = r.rec /\ t.owed = r.owed /\ t.copies = r.copies
      /\ t.reacted = r.reacted /\ t.tickets = r.tickets /\ t.proved = r.proved
      /\ t.phase = r.phase /\ t.subscribed = r.subscribed
  BY <1>1, FileIs DEF DevOK
<1>3. Adds(r, t, m)
  BY <1>2 DEF Adds
<1>4. FiledAfter(r, t, m)
  BY <1>3, FiledMore DEF DevOK
<1>5. DevOK(t)
  BY <1>2, <1>4 DEF DevOK, FiledAfter
<1> QED  BY <1>1, <1>2, <1>3, <1>5

\* A device after a blob.
After(out, d, s, t, b) == Moved(out, d, s, t, {b}) /\ Onward(s, t) /\ t.owed = s.owed /\ t.phase = s.phase

\* It was in the list: nothing of it.
LEMMA AgainAfter ==
  ASSUME NEW out, NEW s, NEW b, NEW d, DevOK(s), DevKeys(out, s, d), Key(b) \in ToSet(s.seen)
  PROVE  After(out, d, s, s, b)
<1>1. ASSUME ForChat(b) PROVE Took(out, s, Key(b))
  <2>1. \E src : Key(b) = TimeKey(src, b.ts)
    BY <1>1, KeysApart DEF ForChat, GoodCopy
  <2> QED  BY <2>1 DEF DevKeys, SeenTook
<1> QED  BY <1>1 DEF After, Moved, Onward

\* It was not, and the list records it first: r.
Noted(s, r, b) ==
  /\ DevOK(r) /\ SeenAfter(s, r, b) /\ Key(b) \in ToSet(r.seen)
  /\ r.chat = s.chat /\ r.copies = s.copies /\ r.owed = s.owed /\ r.rec = s.rec
  /\ r.phase = s.phase /\ r.subscribed = s.subscribed /\ r.reacted = s.reacted /\ r.proved = s.proved

\* What is dropped is forgotten,
LEMMA DroppedAfter ==
  ASSUME NEW out, NEW s, NEW r, NEW b, NEW d, DevKeys(out, s, d),
         ~(Key(b) \in ToSet(s.seen)), Noted(s, r, b), ~ForChat(b)
  PROVE  After(out, d, s, DroppedBlob(r, Key(b)), b)
<1>1. PICK t : t = DroppedBlob(r, Key(b))
  OBVIOUS
<1>2. /\ DevOK(t) /\ SeenAfter(s, t, b) /\ LeftOut(out, s, t, b)
      /\ t.copies = r.copies /\ t.owed = r.owed /\ t.rec = r.rec /\ t.phase = r.phase
      /\ t.subscribed = r.subscribed
  BY <1>1, DroppedOK DEF Noted
<1>3. Moved(out, d, s, t, {b})
  BY <1>2, LeftMoves DEF Noted
<1> QED  BY <1>1, <1>2, <1>3 DEF After, Onward, Noted

\* what is filed is not,
LEMMA FiledBlobAfter ==
  ASSUME NEW out, NEW s, NEW r, NEW b, NEW d, DevOK(s), DevKeys(out, s, d),
         ~(Key(b) \in ToSet(s.seen)), Noted(s, r, b), ForChat(b), b.by # d
  PROVE  After(out, d, s, File(r, b), b)
<1>1. PICK t : t = File(r, b)
  OBVIOUS
<1>2. /\ DevOK(t) /\ Adds(r, t, b) /\ t.seen = r.seen /\ t.forgot = r.forgot
      /\ t.copies = r.copies /\ t.owed = r.owed /\ t.rec = r.rec /\ t.phase = r.phase
      /\ t.subscribed = r.subscribed /\ t.reacted = r.reacted /\ t.proved = r.proved
  BY <1>1, FileOK DEF Noted
<1>3. SeenAfter(s, t, b) /\ KeyIn(t, Key(b))
  BY <1>2 DEF Noted, SeenAfter, KeyIn
<1>4. FiledBlob(s, t, b)
  BY <1>2, <1>3 DEF FiledBlob, Noted, Adds, MoreTaken
<1>5. Moved(out, d, s, t, {b})
  BY <1>2, <1>3, <1>4, FiledMoves DEF Noted
<1> QED  BY <1>1, <1>2, <1>5 DEF After, Onward, Noted

\* and the rest leaves the mail as it was.
LEMMA KeptAfter ==
  ASSUME NEW out, NEW s, NEW r, NEW b, NEW t, NEW d, DevKeys(out, s, d),
         Noted(s, r, b), DevOK(t), SameMail(r, t), t.owed = r.owed, Onward(r, t),
         b.kind = "sync" \/ Took(out, t, Key(b))
  PROVE  After(out, d, s, t, b)
<1>1. SeenAfter(s, t, b)
  BY DEF Noted, SeenAfter, SameMail, KeyIn
<1>2. LeftOut(out, s, t, b)
  BY DEF Noted, LeftOut, SameMail, MoreTaken
<1>3. t.copies = s.copies /\ t.owed = s.owed /\ t.phase = s.phase /\ Onward(s, t)
  BY DEF Noted, SameMail, Onward
<1>4. Moved(out, d, s, t, {b})
  BY <1>1, <1>2, <1>3, LeftMoves
<1> QED  BY <1>3, <1>4 DEF After

\* A membership message: applied only when it supersedes what is recorded.
LEMMA SyncAfter ==
  ASSUME NEW out, NEW s, NEW r, NEW b, NEW d, DevOK(s), DevKeys(out, s, d), BlobOK(out, b),
         Noted(s, r, b), b.kind = "sync"
  PROVE  ChannelSync(r, b, d).kept /\ After(out, d, s, ChannelSync(r, b, d).s, b)
<1>1. SyncOK(b) /\ DevOK(r) /\ ~ForChat(b)
  BY DEF BlobOK, Noted, ForChat, GoodCopy
<1>2. CASE Disposition(r, b, d) = "apply"
  <2>1. PICK t : t = ApplySync(r, b)
    OBVIOUS
  <2>2. /\ SameMail(r, t) /\ t.owed = r.owed /\ t.reacted = r.reacted
        /\ t.listed \in BOOLEAN /\ t.subscribed \in BOOLEAN
        /\ t.rec = [op |-> b.op, at |-> b.at]
    BY <1>1, <2>1, ApplySyncIs
  <2>3. RecOK(t.rec) /\ t.rec.at = b.at /\ t.rec.op = b.op
    BY <1>1, <2>2 DEF RecOK, SyncOK
  <2>4. /\ \A a, c \in t.owed : a = c
        /\ \A c \in t.owed : c.kind = "sync" /\ SyncOK(c)
        /\ \A m \in t.reacted : Filed(r, m)
    BY <1>1, <2>2 DEF DevOK
  <2>5. DevOK(t)
    BY <1>1, <2>2, <2>3, <2>4, SameOK
  <2>6. Supersedes(b, r.rec)
    BY <1>2 DEF Disposition
  <2>7. Onward(r, t)
    BY <2>3, <2>6 DEF Onward, Supersedes
  <2>8. After(out, d, s, t, b)
    BY <2>2, <2>5, <2>7, KeptAfter
  <2> QED  BY <1>2, <2>1, <2>8 DEF ChannelSync, Answer
<1>3. CASE Disposition(r, b, d) # "apply"
  <2>1. SameMail(r, r) /\ Onward(r, r)
    BY <1>1 DEF SameMail, Onward, DevOK
  <2>2. After(out, d, s, r, b)
    BY <1>1, <2>1, KeptAfter
  <2> QED  BY <1>3, <2>2 DEF ChannelSync, Answer
<1> QED  BY <1>2, <1>3

\* A reaction, on what is filed; a ticket.
LEMMA ReactionAfter ==
  ASSUME NEW out, NEW s, NEW r, NEW b, NEW d, DevKeys(out, s, d), BlobOK(out, b),
         ~(Key(b) \in ToSet(s.seen)), Noted(s, r, b), b.kind = "reaction"
  PROVE  LET a == TakeReaction(r, b) IN
         After(out, d, s, IF a.kept THEN a.s ELSE DroppedBlob(a.s, Key(b)), b)
<1>1. DevOK(r) /\ ~ForChat(b)
  BY DEF Noted, ForChat, GoodCopy
<1>2. CASE Filed(r, b.of)
  <2>1. PICK t : t = [r EXCEPT !.reacted = @ \cup {b.of}]
    OBVIOUS
  <2>2. /\ SameMail(r, t) /\ t.owed = r.owed /\ t.reacted = r.reacted \cup {b.of}
        /\ t.listed = r.listed /\ t.rec = r.rec /\ t.subscribed = r.subscribed
    <3>1. PICK of : of = b.of
      OBVIOUS
    <3>2. t = [r EXCEPT !.reacted = @ \cup {of}]
      BY <2>1, <3>1
    <3>3. Fields(r)
      BY <1>1 DEF DevOK
    <3>4. LET u == [r EXCEPT !.reacted = @ \cup {of}] IN
          /\ SameMail(r, u) /\ u.owed = r.owed /\ u.reacted = r.reacted \cup {of}
          /\ u.listed = r.listed /\ u.rec = r.rec /\ u.subscribed = r.subscribed
      BY <3>3, ReactedIs
    <3> QED  BY <3>1, <3>2, <3>4
  <2>3. DevOK(t)
    BY <1>1, <1>2, <2>2, SameOK DEF DevOK
  <2>4. After(out, d, s, t, b)
    <3>1. Took(out, t, Key(b))
      BY <2>2 DEF BlobOK, Took
    <3> QED  BY <2>2, <2>3, <3>1, KeptAfter DEF Onward
  <2> QED  BY <1>2, <2>1, <2>4 DEF TakeReaction, Answer
<1>3. CASE ~Filed(r, b.of)
  <2>1. After(out, d, s, DroppedBlob(r, Key(b)), b)
    BY <1>1, DroppedAfter
  <2> QED  BY <1>3, <2>1 DEF TakeReaction, Answer
<1> QED  BY <1>2, <1>3

\* A ticket, if it is waited for.
LEMMA TicketAfter ==
  ASSUME NEW out, NEW s, NEW r, NEW b, NEW d, DevKeys(out, s, d), BlobOK(out, b),
         ~(Key(b) \in ToSet(s.seen)), Noted(s, r, b), b.kind = "ticket"
  PROVE  LET a == Ticket(r, b) IN
         After(out, d, s, IF a.kept THEN a.s ELSE DroppedBlob(a.s, Key(b)), b)
<1>1. DevOK(r) /\ ~ForChat(b)
  BY DEF Noted, ForChat, GoodCopy
<1>2. CASE b.of \in r.tickets
  <2>1. PICK t : t = [r EXCEPT !.tickets = @ \ {b.of}, !.proved = @ \cup {b.of}]
    OBVIOUS
  <2>2. /\ SameMail(r, t) /\ t.owed = r.owed /\ t.reacted = r.reacted /\ t.proved = r.proved \cup {b.of}
        /\ t.listed = r.listed /\ t.rec = r.rec /\ t.subscribed = r.subscribed
    <3>1. Fields(r)
      BY <1>1 DEF DevOK
    <3>2. PICK of : of = b.of
      OBVIOUS
    <3>3. t = [r EXCEPT !.tickets = @ \ {of}, !.proved = @ \cup {of}]
      BY <2>1, <3>2
    <3>4. /\ SameMail(r, t) /\ t.owed = r.owed /\ t.reacted = r.reacted /\ t.proved = r.proved \cup {of}
          /\ t.listed = r.listed /\ t.rec = r.rec /\ t.subscribed = r.subscribed
      BY <3>1, <3>3, TicketIs
    <3> QED  BY <3>2, <3>4
  <2>3. DevOK(t)
    BY <1>1, <2>2, SameOK DEF DevOK
  <2>4. After(out, d, s, t, b)
    <3>1. Took(out, t, Key(b))
      BY <2>2 DEF BlobOK, Took
    <3> QED  BY <2>2, <2>3, <3>1, KeptAfter DEF Onward
  <2> QED  BY <1>2, <2>1, <2>4 DEF Ticket, Answer
<1>3. CASE ~(b.of \in r.tickets)
  <2>1. After(out, d, s, DroppedBlob(r, Key(b)), b)
    BY <1>1, DroppedAfter
  <2> QED  BY <1>3, <2>1 DEF Ticket, Answer
<1> QED  BY <1>2, <1>3

\* A copy: refused, its own, or filed.
LEMMA CopyAfter ==
  ASSUME NEW out, NEW s, NEW r, NEW b, NEW d, DevOK(s), DevKeys(out, s, d), Comes(out, s, b, d),
         ~(Key(b) \in ToSet(s.seen)), Noted(s, r, b), b.kind = "copy"
  PROVE  LET a == SentCopy(r, b, d) IN
         After(out, d, s, IF a.kept THEN a.s ELSE DroppedBlob(a.s, Key(b)), b)
<1>0. b.refused \in BOOLEAN /\ DevOK(r)
  BY DEF Comes, BlobOK, Noted
<1>1. CASE b.refused
  <2>1. ~ForChat(b)
    BY <1>1 DEF ForChat, GoodCopy
  <2>2. After(out, d, s, DroppedBlob(r, Key(b)), b)
    BY <2>1, DroppedAfter
  <2>3. SentCopy(r, b, d) = Answer(r, FALSE)
    BY <1>1 DEF SentCopy
  <2> QED  BY <2>2, <2>3 DEF Answer
<1>2. CASE ~b.refused /\ b.by = d
  <2>1. Took(out, r, Key(b))
    <3>1. Filed(s, b)
      BY <1>0, <1>2 DEF Comes, GoodCopy
    <3>2. Filed(r, b)
      BY <3>1, FiledSame DEF Noted
    <3> QED  BY <3>2, FiledIsTaken
  <2>2. SameMail(r, r) /\ Onward(r, r)
    BY <1>0 DEF SameMail, Onward, DevOK
  <2>3. After(out, d, s, r, b)
    BY <1>0, <2>1, <2>2, KeptAfter
  <2>4. SentCopy(r, b, d) = Answer(r, TRUE)
    BY <1>2 DEF SentCopy
  <2> QED  BY <2>3, <2>4 DEF Answer
<1>3. CASE ~b.refused /\ b.by # d
  <2>1. ForChat(b)
    BY <1>0, <1>3 DEF ForChat, GoodCopy
  <2>2. After(out, d, s, File(r, b), b)
    BY <1>3, <2>1, FiledBlobAfter
  <2>3. SentCopy(r, b, d) = Answer(File(r, b), TRUE)
    BY <1>3 DEF SentCopy
  <2> QED  BY <2>2, <2>3 DEF Answer
<1> QED  BY <1>0, <1>1, <1>2, <1>3

\* Whatever the blob is.
LEMMA HandledAfter ==
  ASSUME NEW out, NEW s, NEW b, NEW d, DevOK(s), DevKeys(out, s, d), Comes(out, s, b, d)
  PROVE  After(out, d, s, HandleBlob(s, b, d), b)
<1>1. CASE Key(b) \in ToSet(s.seen)
  <2>1. HandleBlob(s, b, d) = s
    BY <1>1 DEF HandleBlob, Seen
  <2> QED  BY <1>1, <2>1, AgainAfter
<1>2. CASE ~(Key(b) \in ToSet(s.seen))
  <2>1. PICK r : r = Recorded(s, Key(b))
    OBVIOUS
  <2>2. Noted(s, r, b)
    BY <1>2, <2>1, RecordedOK DEF Noted
  <2>3. PICK a : a = Dispose(r, b, d)
    OBVIOUS
  <2>4. HandleBlob(s, b, d) = IF a.kept THEN a.s ELSE DroppedBlob(a.s, Key(b))
    BY <1>2, <2>1, <2>3 DEF HandleBlob, Seen, Recorded
  <2>5. BlobOK(out, b)
    BY DEF Comes
  <2>6. CASE b.kind = "copy"
    BY <1>2, <2>2, <2>3, <2>4, <2>6, CopyAfter DEF Dispose
  <2>7. CASE b.kind = "sync"
    <3>1. a = ChannelSync(r, b, d)
      BY <2>3, <2>7 DEF Dispose
    <3> QED  BY <2>2, <2>4, <2>5, <2>7, <3>1, SyncAfter
  <2>8. CASE b.kind = "control"
    <3>1. a = Answer(r, FALSE) /\ ~ForChat(b)
      BY <2>3, <2>8 DEF Dispose, ForChat, GoodCopy
    <3> QED  BY <1>2, <2>2, <2>4, <2>5, <3>1, DroppedAfter DEF Answer
  <2>9. CASE b.kind = "reaction"
    BY <1>2, <2>2, <2>3, <2>4, <2>5, <2>9, ReactionAfter DEF Dispose
  <2>10. CASE b.kind = "ticket"
    BY <1>2, <2>2, <2>3, <2>4, <2>5, <2>10, TicketAfter DEF Dispose
  <2>11. CASE b.kind = "mail"
    <3>1. a = Answer(File(r, b), TRUE) /\ ForChat(b) /\ b.by # d
      BY <2>3, <2>11 DEF Dispose, ForChat, Comes
    <3>2. After(out, d, s, File(r, b), b)
      BY <1>2, <2>2, <3>1, FiledBlobAfter
    <3> QED  BY <2>4, <3>1, <3>2 DEF Answer
  <2> QED  BY <2>5, <2>6, <2>7, <2>8, <2>9, <2>10, <2>11 DEF BlobOK
<1> QED  BY <1>1, <1>2

\* Supersedes is an order.
LEMMA OnwardOn ==
  ASSUME NEW s, NEW t, NEW u, RecOK(s.rec), RecOK(t.rec), RecOK(u.rec), Onward(s, t), Onward(t, u)
  PROVE  Onward(s, u)
BY DEF Onward, Supersedes, RecOK

\* One blob after others.
LEMMA MovedOn ==
  ASSUME NEW out, NEW d, NEW s, NEW t, NEW u, NEW B, NEW b, Moved(out, d, s, t, B), After(out, d, t, u, b)
  PROVE  Moved(out, d, s, u, B \cup {b})
<1>1. DevOK(u) /\ DevKeys(out, u, d) /\ u.copies = s.copies
  BY DEF Moved, After
<1>2. (\A m : Filed(s, m) => Filed(u, m)) /\ (\A m : Filed(u, m) => Filed(s, m) \/ m \in B \cup {b})
  BY DEF Moved, After
<1>3. /\ \A key : Took(out, s, key) => Took(out, u, key)
      /\ \A c \in B \cup {b} : ForChat(c) => Took(out, u, Key(c))
  BY DEF Moved, After
<1> QED  BY <1>1, <1>2, <1>3 DEF Moved

\* The function HandlePage runs through, as far as k.
Runs(f, s, page, d, k) ==
  f = [n \in 0..k |-> IF n = 0 THEN s ELSE HandleBlob(f[n - 1], page[n], d)]

\* That function exists, however far it runs.
LEMMA RunsFar ==
  ASSUME NEW s, NEW page, NEW d, NEW k \in Nat
  PROVE  \E f : Runs(f, s, page, d, k)
<1> DEFINE Bad == {n \in Nat : ~\E f : Runs(f, s, page, d, n)}
<1>1. SUFFICES ASSUME Bad # {} PROVE FALSE
  OBVIOUS
<1>2. PICK m \in Bad : \A n \in Bad : m <= n
  BY <1>1, LeastNumber
<1>3. m # 0
  <2> DEFINE f == [n \in 0..0 |-> s]
  <2>1. f = [n \in 0..0 |-> IF n = 0 THEN s ELSE HandleBlob(f[n - 1], page[n], d)]
    OBVIOUS
  <2>2. Runs(f, s, page, d, 0)
    BY <2>1 DEF Runs
  <2> QED  BY <2>2
<1>4. m - 1 \in Nat /\ m - 1 \notin Bad
  BY <1>2, <1>3
<1>5. PICK g : Runs(g, s, page, d, m - 1)
  BY <1>4
<1> DEFINE f == [n \in 0..m |-> IF n = m THEN HandleBlob(g[m - 1], page[m], d) ELSE g[n]]
<1>6. \A n \in 0..(m - 1) : g[n] = IF n = 0 THEN s ELSE HandleBlob(g[n - 1], page[n], d)
  BY <1>5 DEF Runs
<1>7. ASSUME NEW n \in 0..m PROVE f[n] = IF n = 0 THEN s ELSE HandleBlob(f[n - 1], page[n], d)
  <2>1. CASE n = m
    <3>1. f[n] = HandleBlob(g[m - 1], page[m], d) /\ f[n - 1] = g[m - 1] /\ n # 0
      BY <1>3, <1>4, <2>1
    <3> QED  BY <2>1, <3>1
  <2>2. CASE n # m
    <3>1. n \in 0..(m - 1) /\ f[n] = g[n]
      BY <1>4, <2>2
    <3>2. n # 0 => n - 1 \in 0..m /\ n - 1 # m /\ f[n - 1] = g[n - 1]
      BY <1>4, <3>1
    <3> HIDE DEF f
    <3> QED  BY <1>6, <3>1, <3>2
  <2> QED  BY <2>1, <2>2
<1>8. Runs(f, s, page, d, m)
  <2> DEFINE h == [n \in 0..m |-> IF n = 0 THEN s ELSE HandleBlob(f[n - 1], page[n], d)]
  <2>1. \A n \in 0..m : h[n] = f[n]
    BY <1>7
  <2>2. f = h
    BY <2>1
  <2> QED  BY <2>2 DEF Runs
<1> HIDE DEF f
<1> QED  BY <1>2, <1>8

\* A page's end is reached.
LEMMA PageRuns ==
  ASSUME NEW s, NEW page, NEW d, Len(page) \in Nat
  PROVE  \E f : Runs(f, s, page, d, Len(page)) /\ HandlePage(s, page, d) = f[Len(page)]
<1> DEFINE f == CHOOSE g : g = [n \in 0..Len(page) |-> IF n = 0 THEN s ELSE HandleBlob(g[n - 1], page[n], d)]
<1>1. \E g : Runs(g, s, page, d, Len(page))
  BY RunsFar
<1>2. \E g : g = [n \in 0..Len(page) |-> IF n = 0 THEN s ELSE HandleBlob(g[n - 1], page[n], d)]
  BY <1>1 DEF Runs
<1>3. f = [n \in 0..Len(page) |-> IF n = 0 THEN s ELSE HandleBlob(f[n - 1], page[n], d)]
  BY <1>2, Zenon
<1>4. Runs(f, s, page, d, Len(page))
  BY <1>3, Zenon DEF Runs
<1>5. HandlePage(s, page, d) = f[Len(page)]
  BY Zenon DEF HandlePage
<1> QED  BY <1>4, <1>5, Zenon

\* The blobs of a page, one after another.
LEMMA PageAfter ==
  ASSUME NEW out, NEW s, NEW page, NEW d, NEW S, page \in Seq(S), DevOK(s), DevKeys(out, s, d),
         \A i \in 1..Len(page) : Comes(out, s, page[i], d)
  PROVE  LET t == HandlePage(s, page, d) IN
         Moved(out, d, s, t, ToSet(page)) /\ Onward(s, t) /\ t.owed = s.owed /\ t.phase = s.phase
<1>0. Len(page) \in Nat /\ DOMAIN page = 1..Len(page)
  BY InSeq
<1>1. PICK f : Runs(f, s, page, d, Len(page)) /\ HandlePage(s, page, d) = f[Len(page)]
  BY <1>0, PageRuns
<1>2. \A n \in 0..Len(page) : f[n] = IF n = 0 THEN s ELSE HandleBlob(f[n - 1], page[n], d)
  BY <1>1 DEF Runs
<1> DEFINE Had(n) == {page[i] : i \in 1..n}
           Fine(n) == Moved(out, d, s, f[n], Had(n)) /\ Onward(s, f[n]) /\ f[n].owed = s.owed /\ f[n].phase = s.phase
           Bad == {n \in Nat : n <= Len(page) /\ ~Fine(n)}
<1>3. Bad = {}
  <2> SUFFICES ASSUME Bad # {} PROVE FALSE
    OBVIOUS
  <2>1. PICK m \in Bad : \A n \in Bad : m <= n
    BY LeastNumber
  <2>2. m # 0
    <3>1. f[0] = s
      BY <1>0, <1>2
    <3>2. Had(0) = {}
      OBVIOUS
    <3>3. Moved(out, d, s, s, {})
      BY DEF Moved
    <3>4. Fine(0)
      BY <3>1, <3>2, <3>3 DEF Onward
    <3> HIDE DEF Fine
    <3> QED  BY <2>1, <3>4
  <2>3. m - 1 \in Nat /\ m \in 1..Len(page) /\ m - 1 <= Len(page)
    BY <1>0, <2>1, <2>2
  <2>4. Fine(m - 1)
    <3> HIDE DEF Fine
    <3>1. m - 1 \notin Bad
      BY <2>1, <2>3
    <3> QED  BY <2>3, <3>1
  <2>5. PICK u : u = f[m - 1]
    OBVIOUS
  <2>6. f[m] = HandleBlob(u, page[m], d)
    BY <1>2, <2>2, <2>3, <2>5
  <2> HIDE DEF Bad
  <2>7. PICK B : B = Had(m - 1)
    OBVIOUS
  <2>8. PICK b : b = page[m]
    OBVIOUS
  <2>9. Moved(out, d, s, u, B) /\ Onward(s, u) /\ u.owed = s.owed /\ u.phase = s.phase
    BY <2>4, <2>5, <2>7
  <2>11. Comes(out, s, b, d)
    BY <2>3, <2>8
  <2>12. Comes(out, u, b, d)
    BY <2>9, <2>11 DEF Comes, Moved
  <2>13. DevOK(u) /\ DevKeys(out, u, d)
    BY <2>9 DEF Moved
  <2>14. PICK v : v = HandleBlob(u, b, d)
    OBVIOUS
  <2>15. After(out, d, u, v, b)
    BY <2>12, <2>13, <2>14, HandledAfter
  <2>16. Moved(out, d, s, v, B \cup {b})
    BY <2>9, <2>15, MovedOn
  <2>17. DevOK(v)
    BY <2>16 DEF Moved
  <2>18. Onward(s, v) /\ v.owed = s.owed /\ v.phase = s.phase
    BY <2>9, <2>13, <2>15, <2>17, OnwardOn DEF After, DevOK
  <2>19. Had(m) = B \cup {b}
    <3>1. \A i \in 1..m : i = m \/ i \in 1..(m - 1)
      BY <2>3
    <3>2. m \in 1..m /\ \A i \in 1..(m - 1) : i \in 1..m
      BY <2>3
    <3> QED  BY <2>7, <2>8, <3>1, <3>2
  <2>20. f[m] = v
    BY <2>6, <2>8, <2>14
  <2>21. Fine(m)
    BY <2>16, <2>18, <2>19, <2>20
  <2> HIDE DEF Fine
  <2> QED  BY <2>1, <2>21 DEF Bad
<1>4. Fine(Len(page))
  <2> HIDE DEF Fine
  <2> QED  BY <1>0, <1>3
<1>5. Had(Len(page)) = ToSet(page)
  BY <1>0 DEF ToSet
<1> QED  BY <1>1, <1>4, <1>5

-----------------------------------------------------------------------------
(* All devices, and what is on its way. *)

\* A copy that is owed, or that RFed has for some device, or filed: its sender
\* filed it.
Owed(dv, m) == \E f \in Device : m \in dv[f].copies
Written(dv, m) == \E e \in Device : Filed(dv[e], m)
Around(dv, q, c) == GoodCopy(c) /\ (Owed(dv, c) \/ Written(dv, c) \/ \E e \in Device : c \in q[e])
CopyOK(dv, c) == c.by \in Device /\ Filed(dv[c.by], c)

\* A message was taken, or something of its id; or it is on its way.
Reaches(out, dv, q, d) ==
  \A m : (m \in out /\ m.kind = "mail") \/ Written(dv, m) =>
    Took(out, dv[d], Key(m)) \/ m \in q[d] \/ Owed(dv, m)

Sound(out, dv, q) ==
  /\ OutSound(out)
  /\ dv = [d \in Device |-> dv[d]] /\ q = [d \in Device |-> q[d]]
  /\ \A d \in Device : DevOK(dv[d]) /\ DevKeys(out, dv[d], d) /\ Reaches(out, dv, q, d)
  /\ \A d \in Device : \A b \in q[d] : BlobOK(out, b)
  /\ \A c : Around(dv, q, c) => CopyOK(dv, c)

\* What RFed has for a device comes to it so.
LEMMA ComesOf ==
  ASSUME NEW out, NEW dv, NEW q, Sound(out, dv, q), NEW d \in Device, NEW b \in q[d]
  PROVE  Comes(out, dv[d], b, d)
<1>1. BlobOK(out, b)
  BY DEF Sound
<1>2. b.kind = "mail" => b.by # d
  BY <1>1 DEF BlobOK, Sound, OutSound
<1>3. GoodCopy(b) => CopyOK(dv, b)
  BY DEF Sound, Around
<1> QED  BY <1>1, <1>2, <1>3 DEF Comes, CopyOK

\* A device goes on by some of what RFed has for it, which keeps the rest.
LEMMA MovedKeeps ==
  ASSUME NEW out, NEW dv, NEW q, Sound(out, dv, q), NEW d \in Device, NEW t, NEW B, NEW Q,
         Moved(out, d, dv[d], t, B), B \subseteq q[d], Q \subseteq q[d], q[d] \subseteq Q \cup B
  PROVE  Sound(out, [dv EXCEPT ![d] = t], [q EXCEPT ![d] = Q])
<1>1. PICK w : w = [dv EXCEPT ![d] = t]
  OBVIOUS
<1>2. PICK r : r = [q EXCEPT ![d] = Q]
  OBVIOUS
<1>3. /\ w = [e \in Device |-> w[e]] /\ w[d] = t /\ \A e \in Device : e # d => w[e] = dv[e]
      /\ r = [e \in Device |-> r[e]] /\ r[d] = Q /\ \A e \in Device : e # d => r[e] = q[e]
  <2>1. dv = [e \in Device |-> dv[e]] /\ q = [e \in Device |-> q[e]]
    BY DEF Sound
  <2> QED  BY <1>1, <1>2, <2>1
<1>4. /\ \A e \in Device : \A m : Filed(dv[e], m) => Filed(w[e], m)
      /\ \A e \in Device : \A key : Took(out, dv[e], key) => Took(out, w[e], key)
      /\ \A e \in Device : w[e].copies = dv[e].copies /\ r[e] \subseteq q[e]
  BY <1>3 DEF Moved
<1>5. /\ \A e \in Device : DevOK(w[e]) /\ DevKeys(out, w[e], e)
      /\ \A e \in Device : \A m : Filed(w[e], m) => Filed(dv[e], m) \/ m \in q[d]
  <2>1. DevOK(t) /\ DevKeys(out, t, d) /\ \A m : Filed(t, m) => Filed(dv[d], m) \/ m \in B
    BY DEF Moved
  <2>2. \A e \in Device : DevOK(dv[e]) /\ DevKeys(out, dv[e], e)
    BY DEF Sound
  <2> QED  BY <1>3, <2>1, <2>2
<1>6. ASSUME NEW m, Written(w, m)
      PROVE  Written(dv, m) \/ (m \in q[d] /\ ForChat(m))
  <2>1. PICK e \in Device : Filed(w[e], m)
    BY <1>6 DEF Written
  <2>2. ForChat(m)
    BY <1>5, <2>1 DEF DevOK
  <2> QED  BY <1>5, <2>1, <2>2 DEF Written
<1>7. \A m : Owed(w, m) <=> Owed(dv, m)
  BY <1>4 DEF Owed
<1>8. ASSUME NEW c, Around(w, r, c) PROVE CopyOK(w, c)
  <2>1. Around(dv, q, c)
    BY <1>4, <1>6, <1>7, <1>8 DEF Around
  <2>2. CopyOK(dv, c)
    BY <2>1 DEF Sound
  <2> QED  BY <1>4, <2>2 DEF CopyOK
<1>9. ASSUME NEW m, Written(w, m) PROVE (m \in out /\ m.kind = "mail") \/ Written(dv, m)
  <2>1. CASE m \in q[d] /\ m.kind = "mail"
    <3>1. BlobOK(out, m)
      BY <2>1 DEF Sound
    <3> QED  BY <2>1, <3>1 DEF BlobOK
  <2>2. CASE m \in q[d] /\ GoodCopy(m)
    <3>1. CopyOK(dv, m)
      BY <2>2 DEF Sound, Around
    <3> QED  BY <3>1 DEF CopyOK, Written
  <2> QED  BY <1>6, <1>9, <2>1, <2>2 DEF ForChat
<1>10. ASSUME NEW e \in Device PROVE Reaches(out, w, r, e)
  <2> SUFFICES ASSUME NEW m, (m \in out /\ m.kind = "mail") \/ Written(w, m)
               PROVE  Took(out, w[e], Key(m)) \/ m \in r[e] \/ Owed(w, m)
    BY DEF Reaches
  <2>1. (m \in out /\ m.kind = "mail") \/ Written(dv, m)
    BY <1>9
  <2>2. Took(out, dv[e], Key(m)) \/ m \in q[e] \/ Owed(dv, m)
    BY <2>1 DEF Sound, Reaches
  <2>3. ForChat(m)
    <3>1. Written(dv, m) => ForChat(m)
      BY DEF Written, Sound, DevOK
    <3> QED  BY <2>1, <3>1 DEF ForChat
  <2>4. m \in q[d] => m \in r[d] \/ Took(out, w[d], Key(m))
    BY <1>3, <2>3 DEF Moved
  <2> QED  BY <1>3, <1>4, <1>7, <2>2, <2>4
<1>11. \A e \in Device : \A b \in r[e] : BlobOK(out, b)
  BY <1>4 DEF Sound
<1>12. OutSound(out)
  BY DEF Sound
<1>13. Sound(out, w, r)
  BY <1>3, <1>5, <1>8, <1>10, <1>11, <1>12 DEF Sound
<1> QED  BY <1>1, <1>2, <1>13

-----------------------------------------------------------------------------
(* What each action does to a device. *)

\* A membership message is owed alone, with a later time.
LEMMA OwingOK ==
  ASSUME NEW s, NEW op \in {"join", "leave"}, NEW d, DevOK(s), Clock(d) \in Nat
  PROVE  LET t == Owing(s, op, d) IN DevOK(t) /\ SameMail(s, t) /\ t.rec # s.rec
<1> DEFINE at == Stamp(s.rec, Clock(d))
           rec == [op |-> op, at |-> at]
           owed == {[kind |-> "sync", op |-> op, at |-> at, by |-> d]}
<1>1. PICK t : t = Owing(s, op, d)
  OBVIOUS
<1>2. t = [s EXCEPT !.rec = rec, !.owed = owed]
  BY <1>1 DEF Owing
<1>3. at \in Nat /\ at > s.rec.at /\ RecOK(s.rec) /\ Fields(s)
  <2>1. RecOK(s.rec) /\ Fields(s)
    BY DEF DevOK
  <2>2. s.rec.at \in Int /\ s.rec.at >= -1
    BY <2>1 DEF RecOK
  <2> QED  BY <2>1, <2>2 DEF Stamp
<1>4. rec.at = at /\ rec.op = op /\ RecOK(rec)
  BY <1>3 DEF RecOK
<1>5. /\ \A a, b \in owed : a = b
      /\ \A b \in owed : b.kind = "sync" /\ SyncOK(b)
  <2> HIDE DEF at
  <2> QED  BY <1>3 DEF SyncOK
<1> HIDE DEF rec, owed, at
<1>6. /\ SameMail(s, t) /\ t.owed = owed /\ t.reacted = s.reacted
      /\ t.listed = s.listed /\ t.rec = rec /\ t.subscribed = s.subscribed
  <2>1. Owes(s, t, rec, owed)
    BY <1>2 DEF Owes
  <2> QED  BY <1>3, <2>1, OwedIs
<1>7. DevOK(t)
  BY <1>4, <1>5, <1>6, SameOK DEF DevOK
<1>8. t.rec # s.rec
  BY <1>3, <1>4, <1>6
<1> QED  BY <1>1, <1>6, <1>7, <1>8

\* The user joins,
LEMMA JoinOK ==
  ASSUME NEW s, NEW d, DevOK(s), Clock(d) \in Nat
  PROVE  LET t == Owing(JoinHere(s, TRUE), "join", d) IN DevOK(t) /\ SameMail(s, t) /\ t.rec # s.rec
<1>1. PICK u : u = JoinHere(s, TRUE)
  OBVIOUS
<1>2. /\ SameMail(s, u) /\ u.owed = s.owed /\ u.reacted = s.reacted
      /\ u.listed = TRUE /\ u.rec = s.rec /\ u.subscribed \in BOOLEAN
  BY <1>1, JoinHereIs DEF DevOK
<1>3. DevOK(u)
  <2>1. /\ u.listed \in BOOLEAN /\ RecOK(u.rec) /\ \A a, b \in u.owed : a = b
        /\ \A b \in u.owed : b.kind = "sync" /\ SyncOK(b)
        /\ \A m \in u.reacted : Filed(s, m)
    BY <1>2 DEF DevOK
  <2> QED  BY <1>2, <2>1, SameOK
<1>4. PICK t : t = Owing(u, "join", d)
  OBVIOUS
<1>5. DevOK(t) /\ SameMail(u, t) /\ t.rec # u.rec
  BY <1>3, <1>4, OwingOK
<1>6. SameMail(s, t) /\ t.rec # s.rec
  BY <1>2, <1>5 DEF SameMail
<1> QED  BY <1>1, <1>4, <1>5, <1>6

\* or leaves.
LEMMA LeaveOK ==
  ASSUME NEW s, NEW d, DevOK(s), Clock(d) \in Nat
  PROVE  LET t == Owing(LeaveHere(s), "leave", d) IN DevOK(t) /\ SameMail(s, t) /\ t.rec # s.rec
<1>1. PICK u : u = LeaveHere(s)
  OBVIOUS
<1>2. /\ SameMail(s, u) /\ u.owed = s.owed /\ u.reacted = s.reacted
      /\ u.listed = FALSE /\ u.rec = s.rec /\ u.subscribed = FALSE
  BY <1>1, LeaveHereIs DEF DevOK
<1>3. DevOK(u)
  <2>1. /\ u.listed \in BOOLEAN /\ RecOK(u.rec) /\ \A a, b \in u.owed : a = b
        /\ \A b \in u.owed : b.kind = "sync" /\ SyncOK(b)
        /\ \A m \in u.reacted : Filed(s, m)
    BY <1>2 DEF DevOK
  <2> QED  BY <1>2, <2>1, SameOK
<1>4. PICK t : t = Owing(u, "leave", d)
  OBVIOUS
<1>5. DevOK(t) /\ SameMail(u, t) /\ t.rec # u.rec
  BY <1>3, <1>4, OwingOK
<1>6. SameMail(s, t) /\ t.rec # s.rec
  BY <1>2, <1>5 DEF SameMail
<1> QED  BY <1>1, <1>4, <1>5, <1>6

\* All but the connection and the tickets.
SameStores(s, t) ==
  /\ t.seen = s.seen /\ t.forgot = s.forgot /\ t.chat = s.chat /\ t.copies = s.copies /\ t.owed = s.owed
  /\ t.reacted = s.reacted /\ t.proved = s.proved /\ t.listed = s.listed /\ t.rec = s.rec

\* With the same stores, the types stay.
LEMMA StoresOK ==
  ASSUME NEW s, NEW t, DevOK(s), Fields(t), SameStores(s, t),
         t.subscribed \in BOOLEAN, t.phase \in {"off", "pulling", "on"}
  PROVE  DevOK(t)
<1>1. \A m : Filed(t, m) <=> Filed(s, m)
  BY FiledSame DEF SameStores
<1> QED  BY <1>1 DEF DevOK, SameStores

\* The stored channels are subscribed.
LEMMA SubscribeOK ==
  ASSUME NEW s, DevOK(s)
  PROVE  DevOK(Subscribe(s)) /\ SameStores(s, Subscribe(s))
<1>1. PICK v \in BOOLEAN : v = (s.subscribed \/ s.listed)
  BY DEF DevOK
<1>2. Subscribe(s) = [s EXCEPT !.phase = "on", !.subscribed = v]
  BY <1>1 DEF Subscribe
<1>3. Fields(s)
  BY DEF DevOK
<1>4. Fields([s EXCEPT !.phase = "on", !.subscribed = v])
  BY <1>3, Updated
<1>5. LET t == [s EXCEPT !.phase = "on", !.subscribed = v] IN
      SameStores(s, t) /\ t.phase = "on" /\ t.subscribed = v
  BY <1>3, FieldNames DEF SameStores
<1>6. PICK t : t = Subscribe(s)
  OBVIOUS
<1>7. Fields(t) /\ SameStores(s, t) /\ t.phase = "on" /\ t.subscribed = v
  BY <1>2, <1>4, <1>5, <1>6
<1>8. DevOK(t)
  BY <1>7, StoresOK
<1> QED  BY <1>6, <1>7, <1>8

\* The pull begins.
LEMMA StartOK ==
  ASSUME NEW s, DevOK(s)
  PROVE  LET t == StartPulling(s) IN DevOK(t) /\ SameStores(s, t) /\ t.subscribed = s.subscribed
<1>3. Fields(s)
  BY DEF DevOK
<1>4. Fields(StartPulling(s))
  BY <1>3, Updated DEF StartPulling
<1>5. LET t == StartPulling(s) IN
      SameStores(s, t) /\ t.phase = "pulling" /\ t.subscribed = s.subscribed
  BY <1>3, FieldNames DEF SameStores, StartPulling
<1>6. PICK t : t = StartPulling(s)
  OBVIOUS
<1>7. Fields(t) /\ SameStores(s, t) /\ t.phase = "pulling" /\ t.subscribed = s.subscribed
  BY <1>4, <1>5, <1>6
<1>8. DevOK(t)
  BY <1>7, StoresOK DEF DevOK
<1> QED  BY <1>6, <1>7, <1>8

\* The connection stops.
LEMMA StopOK ==
  ASSUME NEW s, DevOK(s)
  PROVE  LET t == [s EXCEPT !.phase = "off", !.subscribed = FALSE, !.tickets = {}] IN
         DevOK(t) /\ SameStores(s, t) /\ t.subscribed = FALSE
<1>3. Fields(s)
  BY DEF DevOK
<1>4. Fields([s EXCEPT !.phase = "off", !.subscribed = FALSE, !.tickets = {}])
  BY <1>3, Updated
<1>5. LET t == [s EXCEPT !.phase = "off", !.subscribed = FALSE, !.tickets = {}] IN
      SameStores(s, t) /\ t.phase = "off" /\ t.subscribed = FALSE
  BY <1>3, FieldNames DEF SameStores
<1>6. PICK t : t = [s EXCEPT !.phase = "off", !.subscribed = FALSE, !.tickets = {}]
  OBVIOUS
<1>7. Fields(t) /\ SameStores(s, t) /\ t.phase = "off" /\ t.subscribed = FALSE
  BY <1>4, <1>5, <1>6
<1>8. DevOK(t)
  BY <1>7, StoresOK
<1> QED  BY <1>6, <1>7, <1>8

\* A message sent: filed, its copy owed.
Sends(s, t, m, tickets) == t = [File(s, m) EXCEPT !.copies = @ \cup {m}, !.tickets = tickets]
\* The types stay,
LEMMA SendOK ==
  ASSUME NEW s, NEW t, NEW m, NEW tickets, DevOK(s), GoodCopy(m), Sends(s, t, m, tickets)
  PROVE  /\ DevOK(t) /\ Adds(s, t, m) /\ t.copies = s.copies \cup {m}
         /\ t.seen = s.seen /\ t.forgot = s.forgot /\ t.subscribed = s.subscribed
         /\ t.reacted = s.reacted /\ t.proved = s.proved
<1>1. PICK u : u = File(s, m)
  OBVIOUS
<1>2. /\ DevOK(u) /\ Adds(s, u, m) /\ u.seen = s.seen /\ u.forgot = s.forgot
      /\ u.copies = s.copies /\ u.owed = s.owed /\ u.rec = s.rec /\ u.phase = s.phase
      /\ u.subscribed = s.subscribed /\ u.reacted = s.reacted /\ u.proved = s.proved
  BY <1>1, FileOK DEF ForChat
<1>3. Fields(u)
  BY <1>2 DEF DevOK
<1>4. PICK copies : copies = u.copies \cup {m}
  OBVIOUS
<1>5. t = [u EXCEPT !.copies = copies, !.tickets = tickets]
  BY <1>1, <1>4 DEF Sends
<1>6. Fields(t)
  BY <1>3, <1>5, Updated
<1>7. /\ t.seen = u.seen /\ t.forgot = u.forgot /\ t.chat = u.chat /\ t.copies = copies /\ t.owed = u.owed
      /\ t.reacted = u.reacted /\ t.listed = u.listed /\ t.rec = u.rec /\ t.phase = u.phase
      /\ t.subscribed = u.subscribed /\ t.proved = u.proved
  BY <1>3, <1>5, FieldNames
<1>8. \A x : Filed(t, x) <=> Filed(u, x)
  BY <1>7, FiledSame
<1>9. \A x \in copies : GoodCopy(x)
  BY <1>2, <1>4 DEF DevOK
<1>10. DevOK(t)
  BY <1>2, <1>6, <1>7, <1>8, <1>9 DEF DevOK
<1>11. Adds(s, t, m)
  BY <1>2, <1>7 DEF Adds
<1> QED  BY <1>1, <1>2, <1>4, <1>5, <1>7, <1>10, <1>11

\* What is owed uploaded.
Uploaded(s, t, b) == t = [s EXCEPT !.owed = @ \ {b}, !.copies = @ \ {b}]
\* and it is owed no more.
LEMMA UploadOK ==
  ASSUME NEW s, NEW t, NEW b, DevOK(s), Uploaded(s, t, b)
  PROVE  /\ DevOK(t) /\ t.copies = s.copies \ {b} /\ t.seen = s.seen /\ t.forgot = s.forgot /\ t.chat = s.chat
         /\ t.subscribed = s.subscribed /\ t.reacted = s.reacted /\ t.proved = s.proved
<1>1. PICK owed, copies : owed = s.owed \ {b} /\ copies = s.copies \ {b}
  OBVIOUS
<1>2. t = [s EXCEPT !.owed = owed, !.copies = copies]
  BY <1>1 DEF Uploaded
<1>3. Fields(s)
  BY DEF DevOK
<1>4. Fields(t)
  BY <1>2, <1>3, Updated
<1>5. /\ t.seen = s.seen /\ t.forgot = s.forgot /\ t.chat = s.chat /\ t.copies = copies /\ t.owed = owed
      /\ t.reacted = s.reacted /\ t.listed = s.listed /\ t.rec = s.rec /\ t.phase = s.phase
      /\ t.subscribed = s.subscribed /\ t.proved = s.proved
  BY <1>2, <1>3, FieldNames
<1>6. \A x : Filed(t, x) <=> Filed(s, x)
  BY <1>5, FiledSame
<1>7. DevOK(t)
  BY <1>1, <1>4, <1>5, <1>6 DEF DevOK
<1> QED  BY <1>1, <1>2, <1>5, <1>7

-----------------------------------------------------------------------------
(* The invariant, and each action. *)

WorldOK(w) ==
  /\ w = [out |-> w.out, acts |-> w.acts, sends |-> w.sends, ticks |-> w.ticks, dups |-> w.dups,
          stops |-> w.stops, fails |-> w.fails, ahead |-> w.ahead]
  /\ w.fails \in Nat /\ w.ahead \in [Device -> Nat]

Invariant == now \in Nat /\ WorldOK(world) /\ Sound(world.out, dev, queue)

\* A bound counts down; what comes from elsewhere stays.
LEMMA SpendOK ==
  ASSUME WorldOK(world), NEW what \in {"acts", "sends", "ticks", "dups", "stops", "fails"}, Spend(what)
  PROVE  /\ WorldOK(world') /\ world'.out = world.out
         /\ what = "fails" => world'.fails # world.fails
<1>1. PICK w : w = world
  OBVIOUS
<1>2. PICK v : v = world'
  OBVIOUS
<1>3. v = [w EXCEPT ![what] = @ - 1] /\ w[what] > 0
  BY <1>1, <1>2 DEF Spend
<1>4. /\ w = [out |-> w.out, acts |-> w.acts, sends |-> w.sends, ticks |-> w.ticks, dups |-> w.dups,
              stops |-> w.stops, fails |-> w.fails, ahead |-> w.ahead]
      /\ w.fails \in Nat /\ w.ahead \in [Device -> Nat]
  BY <1>1 DEF WorldOK
<1>5. DOMAIN w = {"out", "acts", "sends", "ticks", "dups", "stops", "fails", "ahead"}
  BY <1>4
<1>6. v.out = w.out /\ v.ahead = w.ahead
  BY <1>3, <1>5
<1>7. v.fails \in Nat /\ (what = "fails" => v.fails # w.fails)
  <2>1. CASE what = "fails"
    <3>1. v.fails = w.fails - 1 /\ w.fails > 0
      BY <1>3, <1>5, <2>1
    <3> QED  BY <1>4, <3>1
  <2>2. CASE what # "fails"
    <3>1. v.fails = w.fails
      BY <1>3, <1>5, <2>2
    <3> QED  BY <1>4, <2>2, <3>1
  <2> QED  BY <2>1, <2>2
<1>8. v = [out |-> v.out, acts |-> v.acts, sends |-> v.sends, ticks |-> v.ticks, dups |-> v.dups,
           stops |-> v.stops, fails |-> v.fails, ahead |-> v.ahead]
  BY <1>3, <1>4
<1>9. WorldOK(v)
  BY <1>4, <1>6, <1>7, <1>8 DEF WorldOK
<1> QED  BY <1>1, <1>2, <1>6, <1>7, <1>9

\* The clocks show numbers.
LEMMA ClockOK ==
  ASSUME Invariant, NEW d \in Device
  PROVE  Clock(d) \in Nat
BY DEF Invariant, WorldOK, Clock

\* A step of one device that leaves what it files and what RFed has.
LEMMA AloneKeeps ==
  ASSUME Invariant, NEW d \in Device, NEW t, DevOK(t),
         t.seen = dev[d].seen, t.forgot = dev[d].forgot, t.chat = dev[d].chat, t.copies = dev[d].copies,
         MoreTaken(dev[d], t), dev' = [dev EXCEPT ![d] = t], queue' = queue
  PROVE  Sound(world.out, dev', queue')
<1>1. Sound(world.out, dev, queue)
  BY DEF Invariant
<1>2. DevKeys(world.out, dev[d], d)
  BY <1>1 DEF Sound
<1>3. Moved(world.out, d, dev[d], t, {})
  BY <1>2, SameMoves
<1>4. PICK Q, B : Q = queue[d] /\ B = {}
  OBVIOUS
<1>5. Sound(world.out, [dev EXCEPT ![d] = t], [queue EXCEPT ![d] = Q])
  <2>1. Moved(world.out, d, dev[d], t, B) /\ B \subseteq queue[d] /\ Q \subseteq queue[d] /\ queue[d] \subseteq Q \cup B
    BY <1>3, <1>4
  <2> QED  BY <1>1, <2>1, MovedKeeps
<1>6. queue = [queue EXCEPT ![d] = Q]
  BY <1>1, <1>4 DEF Sound
<1> QED  BY <1>5, <1>6

\* What PulledFirst says of a step, of one device.
First(d) ==
  (/\ ~dev[d].subscribed /\ dev'[d].subscribed
   /\ dev'[d].rec = dev[d].rec /\ world'.fails = world.fails)
  => ~\E b \in queue'[d] : b.kind = "sync" /\ b.op = "leave" /\ Supersedes(b, dev'[d].rec)

\* The other devices do nothing, so they subscribe nothing.
LEMMA OthersFirst ==
  ASSUME Invariant, NEW d \in Device, NEW t, dev' = [dev EXCEPT ![d] = t]
  PROVE  /\ dev'[d] = t /\ DevOK(dev[d])
         /\ \A e \in Device : e # d => First(e)
<1>1. dev = [e \in Device |-> dev[e]] /\ DevOK(dev[d])
  BY DEF Invariant, Sound
<1> QED  BY <1>1 DEF First

\* The user joins the channel,
LEMMA JoinKeeps ==
  ASSUME Invariant, NEW d \in Device, Join(d)
  PROVE  Invariant' /\ \A e \in Device : First(e)
<1>1. PICK t : t = Owing(JoinHere(dev[d], TRUE), "join", d)
  OBVIOUS
<1>2. dev' = [dev EXCEPT ![d] = t] /\ Spend("acts") /\ UNCHANGED <<now, queue>>
  BY <1>1 DEF Join
<1>3. dev'[d] = t /\ DevOK(dev[d]) /\ \A e \in Device : e # d => First(e)
  BY <1>2, OthersFirst
<1>4. DevOK(t) /\ SameMail(dev[d], t) /\ t.rec # dev[d].rec
  BY <1>1, <1>3, JoinOK, ClockOK
<1>5. Sound(world.out, dev', queue')
  BY <1>2, <1>4, AloneKeeps DEF SameMail, MoreTaken
<1>6. WorldOK(world') /\ world'.out = world.out
  BY <1>2, SpendOK DEF Invariant
<1>7. First(d)
  BY <1>3, <1>4 DEF First
<1> QED  BY <1>2, <1>3, <1>5, <1>6, <1>7 DEF Invariant

\* or leaves it.
LEMMA LeaveKeeps ==
  ASSUME Invariant, NEW d \in Device, Leave(d)
  PROVE  Invariant' /\ \A e \in Device : First(e)
<1>1. PICK t : t = Owing(LeaveHere(dev[d]), "leave", d)
  OBVIOUS
<1>2. dev' = [dev EXCEPT ![d] = t] /\ Spend("acts") /\ UNCHANGED <<now, queue>>
  BY <1>1 DEF Leave
<1>3. dev'[d] = t /\ DevOK(dev[d]) /\ \A e \in Device : e # d => First(e)
  BY <1>2, OthersFirst
<1>4. DevOK(t) /\ SameMail(dev[d], t) /\ t.rec # dev[d].rec
  BY <1>1, <1>3, LeaveOK, ClockOK
<1>5. Sound(world.out, dev', queue')
  BY <1>2, <1>4, AloneKeeps DEF SameMail, MoreTaken
<1>6. WorldOK(world') /\ world'.out = world.out
  BY <1>2, SpendOK DEF Invariant
<1>7. First(d)
  BY <1>3, <1>4 DEF First
<1> QED  BY <1>2, <1>3, <1>5, <1>6, <1>7 DEF Invariant

\* The link comes up.
LEMMA ConnectKeeps ==
  ASSUME Invariant, NEW d \in Device, Connect(d)
  PROVE  Invariant' /\ \A e \in Device : First(e)
<1>1. PICK t : t = StartPulling(dev[d])
  OBVIOUS
<1>2. dev' = [dev EXCEPT ![d] = t] /\ UNCHANGED <<world, now, queue>>
  BY <1>1 DEF Connect
<1>3. dev'[d] = t /\ DevOK(dev[d]) /\ \A e \in Device : e # d => First(e)
  BY <1>2, OthersFirst
<1>4. DevOK(t) /\ SameStores(dev[d], t) /\ t.subscribed = dev[d].subscribed
  BY <1>1, <1>3, StartOK
<1>5. Sound(world.out, dev', queue')
  BY <1>2, <1>4, AloneKeeps DEF SameStores, MoreTaken
<1>6. First(d)
  BY <1>3, <1>4 DEF First
<1> QED  BY <1>2, <1>3, <1>5, <1>6 DEF Invariant

\* The pull fails, which says nothing of what it would have brought.
LEMMA PullFailsKeeps ==
  ASSUME Invariant, NEW d \in Device, PullFails(d)
  PROVE  Invariant' /\ \A e \in Device : First(e)
<1>1. PICK t : t = Subscribe(dev[d])
  OBVIOUS
<1>2. dev' = [dev EXCEPT ![d] = t] /\ Spend("fails") /\ UNCHANGED <<now, queue>>
  BY <1>1 DEF PullFails
<1>3. dev'[d] = t /\ DevOK(dev[d]) /\ \A e \in Device : e # d => First(e)
  BY <1>2, OthersFirst
<1>4. DevOK(t) /\ SameStores(dev[d], t)
  BY <1>1, <1>3, SubscribeOK
<1>5. Sound(world.out, dev', queue')
  BY <1>2, <1>4, AloneKeeps DEF SameStores, MoreTaken
<1>6. WorldOK(world') /\ world'.out = world.out /\ world'.fails # world.fails
  BY <1>2, SpendOK DEF Invariant
<1>7. First(d)
  BY <1>6 DEF First
<1> QED  BY <1>2, <1>3, <1>5, <1>6, <1>7 DEF Invariant

\* The connection stops.
LEMMA StopKeeps ==
  ASSUME Invariant, NEW d \in Device, Stop(d)
  PROVE  Invariant' /\ \A e \in Device : First(e)
<1>1. PICK t : t = [dev[d] EXCEPT !.phase = "off", !.subscribed = FALSE, !.tickets = {}]
  OBVIOUS
<1>2. dev' = [dev EXCEPT ![d] = t] /\ Spend("stops") /\ UNCHANGED <<now, queue>>
  BY <1>1 DEF Stop
<1>3. dev'[d] = t /\ DevOK(dev[d]) /\ \A e \in Device : e # d => First(e)
  BY <1>2, OthersFirst
<1>4. DevOK(t) /\ SameStores(dev[d], t) /\ t.subscribed = FALSE
  <2>1. PICK s : s = dev[d]
    OBVIOUS
  <2>2. LET u == [s EXCEPT !.phase = "off", !.subscribed = FALSE, !.tickets = {}] IN
        DevOK(u) /\ SameStores(s, u) /\ u.subscribed = FALSE
    BY <1>3, <2>1, StopOK
  <2> QED  BY <1>1, <2>1, <2>2
<1>5. Sound(world.out, dev', queue')
  BY <1>2, <1>4, AloneKeeps DEF SameStores, MoreTaken
<1>6. WorldOK(world') /\ world'.out = world.out
  BY <1>2, SpendOK DEF Invariant
<1>7. First(d)
  BY <1>3, <1>4 DEF First
<1> QED  BY <1>2, <1>3, <1>5, <1>6, <1>7 DEF Invariant

\* A message sent is filed at its place, and owed.
LEMMA SentKeeps ==
  ASSUME NEW out, NEW dv, NEW q, Sound(out, dv, q), NEW d \in Device, NEW t, NEW m,
         GoodCopy(m), m.by = d, m.n = Len(dv[d].chat) + 1,
         DevOK(t), Adds(dv[d], t, m), t.copies = dv[d].copies \cup {m},
         t.seen = dv[d].seen, t.forgot = dv[d].forgot, t.reacted = dv[d].reacted, t.proved = dv[d].proved
  PROVE  Sound(out, [dv EXCEPT ![d] = t], q)
<1>1. PICK w : w = [dv EXCEPT ![d] = t]
  OBVIOUS
<1>2. w = [e \in Device |-> w[e]] /\ w[d] = t /\ \A e \in Device : e # d => w[e] = dv[e]
  BY <1>1 DEF Sound
<1>3. PICK s : s = dv[d]
  OBVIOUS
<1>4. DevOK(s) /\ DevKeys(out, s, d) /\ Adds(s, t, m) /\ m.n = Len(s.chat) + 1
      /\ t.seen = s.seen /\ t.forgot = s.forgot /\ MoreTaken(s, t)
  BY <1>3 DEF Sound, MoreTaken
<1> DEFINE last == Len(s.chat) + 1
<1>5. /\ Extends(s, t) /\ last \in DOMAIN t.chat /\ t.chat[last] = m
      /\ \A i \in DOMAIN t.chat : i \in DOMAIN s.chat \/ i = last
      /\ \A k : Filed(t, k) <=> Filed(s, k) \/ k = m
  BY <1>4, FiledMore DEF FiledAfter, DevOK
<1>6. last \notin DOMAIN s.chat
  <2>1. Len(s.chat) \in Nat /\ DOMAIN s.chat = 1..Len(s.chat)
    BY <1>4 DEF DevOK, Listing
  <2> QED  BY <2>1
<1>7. m.n = last
  BY <1>4
<1> HIDE DEF last
<1>8. \A key : Took(out, s, key) => Took(out, t, key)
  BY <1>4, <1>5, TookMore
<1>9. DevKeys(out, t, d)
  <2>1. SeenTook(out, t)
    BY <1>4, <1>8 DEF DevKeys, SeenTook
  <2>2. CameKnown(t, d)
    BY <1>4, <1>5 DEF DevKeys, CameKnown, Extends, KeyIn
  <2>3. OwnPlaced(t, d)
    BY <1>4, <1>5, <1>7 DEF DevKeys, OwnPlaced, Extends
  <2>4. \A i \in DOMAIN s.chat : s.chat[i] # m
    BY <1>4, <1>6, <1>7 DEF DevKeys, OwnPlaced
  <2>5. OnceFiled(t, d)
    <3> SUFFICES ASSUME NEW i \in DOMAIN t.chat, NEW j \in DOMAIN t.chat, i # j, Key(t.chat[i]) = Key(t.chat[j])
                 PROVE  \/ Key(t.chat[i]) \in t.forgot
                        \/ t.chat[i] # t.chat[j] /\ d \in {t.chat[i].by, t.chat[j].by}
      BY DEF OnceFiled
    <3>1. CASE i \in DOMAIN s.chat /\ j \in DOMAIN s.chat
      <4>1. t.chat[i] = s.chat[i] /\ t.chat[j] = s.chat[j]
        BY <1>5, <3>1 DEF Extends
      <4> QED  BY <1>4, <3>1, <4>1 DEF DevKeys, OnceFiled
    <3>2. CASE i = last
      <4>1. j \in DOMAIN s.chat /\ t.chat[j] = s.chat[j]
        BY <1>5, <3>2 DEF Extends
      <4> QED  BY <1>5, <2>4, <3>2, <4>1
    <3>3. CASE j = last
      <4>1. i \in DOMAIN s.chat /\ t.chat[i] = s.chat[i]
        BY <1>5, <3>3 DEF Extends
      <4> QED  BY <1>5, <2>4, <3>3, <4>1
    <3> QED  BY <1>5, <3>1, <3>2, <3>3
  <2> QED  BY <2>1, <2>2, <2>3, <2>5 DEF DevKeys
<1>10. /\ \A e \in Device : \A k : Filed(dv[e], k) => Filed(w[e], k)
       /\ \A e \in Device : \A k : Filed(w[e], k) => Filed(dv[e], k) \/ k = m
       /\ \A e \in Device : \A key : Took(out, dv[e], key) => Took(out, w[e], key)
       /\ \A e \in Device : DevOK(w[e]) /\ DevKeys(out, w[e], e)
  <2>1. \A e \in Device : DevOK(dv[e]) /\ DevKeys(out, dv[e], e)
    BY DEF Sound
  <2> QED  BY <1>2, <1>3, <1>5, <1>8, <1>9, <2>1
<1>11. /\ \A k : Owed(dv, k) => Owed(w, k)
       /\ \A k : Owed(w, k) => Owed(dv, k) \/ k = m
       /\ Owed(w, m)
  <2>1. w[d].copies = dv[d].copies \cup {m}
    BY <1>2
  <2> QED  BY <1>2, <2>1 DEF Owed
<1>12. \A k : Written(w, k) => Written(dv, k) \/ k = m
  BY <1>10 DEF Written
<1>13. ASSUME NEW c, Around(w, q, c) PROVE CopyOK(w, c)
  <2>1. CASE c = m
    <3>1. Filed(w[d], m)
      BY <1>2, <1>5
    <3> QED  BY <2>1, <3>1 DEF CopyOK
  <2>2. CASE c # m
    <3>1. Around(dv, q, c)
      BY <1>11, <1>12, <1>13, <2>2 DEF Around
    <3>2. CopyOK(dv, c)
      BY <3>1 DEF Sound
    <3> QED  BY <1>10, <3>2 DEF CopyOK
  <2> QED  BY <2>1, <2>2
<1>14. ASSUME NEW e \in Device PROVE Reaches(out, w, q, e)
  <2> SUFFICES ASSUME NEW k, (k \in out /\ k.kind = "mail") \/ Written(w, k), k # m
               PROVE  Took(out, w[e], Key(k)) \/ k \in q[e] \/ Owed(w, k)
    BY <1>11 DEF Reaches
  <2>1. (k \in out /\ k.kind = "mail") \/ Written(dv, k)
    BY <1>12
  <2>2. Took(out, dv[e], Key(k)) \/ k \in q[e] \/ Owed(dv, k)
    BY <2>1 DEF Sound, Reaches
  <2> QED  BY <1>10, <1>11, <2>2
<1>15. /\ OutSound(out) /\ q = [e \in Device |-> q[e]]
       /\ \A e \in Device : \A b \in q[e] : BlobOK(out, b)
  BY DEF Sound
<1>16. Sound(out, w, q)
  BY <1>2, <1>10, <1>13, <1>14, <1>15 DEF Sound
<1> QED  BY <1>1, <1>16

\* What is owed reaches RFed, and all devices.
LEMMA UploadedKeeps ==
  ASSUME NEW out, NEW dv, NEW q, Sound(out, dv, q), NEW d \in Device, NEW t, NEW b,
         b \in dv[d].owed \cup dv[d].copies, DevOK(t), t.copies = dv[d].copies \ {b}, t.seen = dv[d].seen,
         t.forgot = dv[d].forgot, t.chat = dv[d].chat, t.reacted = dv[d].reacted, t.proved = dv[d].proved
  PROVE  Sound(out, [dv EXCEPT ![d] = t], [e \in Device |-> q[e] \cup {b}])
<1>1. PICK w : w = [dv EXCEPT ![d] = t]
  OBVIOUS
<1>2. PICK r : r = [e \in Device |-> q[e] \cup {b}]
  OBVIOUS
<1>3. /\ w = [e \in Device |-> w[e]] /\ w[d] = t /\ \A e \in Device : e # d => w[e] = dv[e]
      /\ r = [e \in Device |-> r[e]] /\ \A e \in Device : r[e] = q[e] \cup {b}
  BY <1>1, <1>2 DEF Sound
<1>4. DevOK(dv[d]) /\ DevKeys(out, dv[d], d)
  BY DEF Sound
<1>5. (b.kind = "sync" /\ SyncOK(b)) \/ (GoodCopy(b) /\ b \in dv[d].copies)
  BY <1>4 DEF DevOK
<1>6. BlobOK(out, b)
  BY <1>5 DEF BlobOK, GoodCopy
<1>7. /\ \A m : Filed(t, m) <=> Filed(dv[d], m)
      /\ \A key : Took(out, dv[d], key) => Took(out, t, key)
      /\ DevKeys(out, t, d)
  <2>1. (\A m : Filed(t, m) <=> Filed(dv[d], m)) /\ Extends(dv[d], t)
    BY FiledSame
  <2>2. \A key : Took(out, dv[d], key) => Took(out, t, key)
    BY <2>1, TookMore DEF MoreTaken
  <2>3. SeenTook(out, t)
    BY <1>4, <2>2 DEF DevKeys, SeenTook
  <2>4. CameKnown(t, d) /\ OwnPlaced(t, d) /\ OnceFiled(t, d)
    BY <1>4 DEF DevKeys, CameKnown, OwnPlaced, OnceFiled, KeyIn
  <2> QED  BY <2>1, <2>2, <2>3, <2>4 DEF DevKeys
<1>8. /\ \A e \in Device : \A m : Filed(w[e], m) <=> Filed(dv[e], m)
      /\ \A e \in Device : \A key : Took(out, dv[e], key) => Took(out, w[e], key)
      /\ \A e \in Device : DevOK(w[e]) /\ DevKeys(out, w[e], e)
  <2>1. \A e \in Device : DevOK(dv[e]) /\ DevKeys(out, dv[e], e)
    BY DEF Sound
  <2> QED  BY <1>3, <1>7, <2>1
<1>9. /\ \A m : Owed(w, m) => Owed(dv, m)
      /\ \A m : Owed(dv, m) => Owed(w, m) \/ m = b
  <2>1. w[d].copies = dv[d].copies \ {b}
    BY <1>3
  <2> QED  BY <1>3, <2>1 DEF Owed
<1>10. \A m : Written(w, m) <=> Written(dv, m)
  BY <1>8 DEF Written
<1>11. ASSUME NEW c, Around(w, r, c) PROVE CopyOK(w, c)
  <2>1. Around(dv, q, c)
    <3>1. CASE c = b
      <4>1. b \in dv[d].copies
        BY <1>5, <1>11, <3>1 DEF Around, GoodCopy
      <4> QED  BY <1>11, <3>1, <4>1 DEF Around, Owed
    <3>2. CASE c # b
      BY <1>3, <1>9, <1>10, <1>11, <3>2 DEF Around
    <3> QED  BY <3>1, <3>2
  <2>2. CopyOK(dv, c)
    BY <2>1 DEF Sound
  <2> QED  BY <1>8, <2>2 DEF CopyOK
<1>12. ASSUME NEW e \in Device PROVE Reaches(out, w, r, e)
  <2> SUFFICES ASSUME NEW m, (m \in out /\ m.kind = "mail") \/ Written(w, m)
               PROVE  Took(out, w[e], Key(m)) \/ m \in r[e] \/ Owed(w, m)
    BY DEF Reaches
  <2>1. Took(out, dv[e], Key(m)) \/ m \in q[e] \/ Owed(dv, m)
    BY <1>10 DEF Sound, Reaches
  <2>2. q[e] \subseteq r[e] /\ b \in r[e]
    BY <1>3
  <2> QED  BY <1>8, <1>9, <2>1, <2>2
<1>13. \A e \in Device : \A c \in r[e] : BlobOK(out, c)
  BY <1>3, <1>6 DEF Sound
<1>14. OutSound(out)
  BY DEF Sound
<1>15. Sound(out, w, r)
  BY <1>3, <1>8, <1>11, <1>12, <1>13, <1>14 DEF Sound
<1> QED  BY <1>1, <1>2, <1>15

\* A message is sent.
LEMMA SendAsKeeps ==
  ASSUME Invariant, NEW d \in Device, SendAs(d)
  PROVE  Invariant' /\ \A e \in Device : First(e)
<1>1. PICK s : s = dev[d]
  OBVIOUS
<1>2. PICK m : m = [kind |-> "copy", ts |-> Clock(d), by |-> d, n |-> Len(s.chat) + 1, refused |-> FALSE]
  OBVIOUS
<1>3. GoodCopy(m) /\ m.by = d /\ m.n = Len(s.chat) + 1
  BY <1>2 DEF GoodCopy
<1>4. PICK u : u = File(s, m)
  OBVIOUS
<1>5. PICK tickets : tickets = IF s.phase = "off" THEN u.tickets ELSE u.tickets \cup {m}
  OBVIOUS
<1>6. PICK t : t = [u EXCEPT !.copies = @ \cup {m}, !.tickets = tickets]
  OBVIOUS
<1>7. dev' = [dev EXCEPT ![d] = t] /\ Spend("sends") /\ UNCHANGED <<now, queue>>
  <2>1. PICK x : x = [u EXCEPT !.copies = @ \cup {m}, !.tickets = IF s.phase = "off" THEN @ ELSE @ \cup {m}]
    OBVIOUS
  <2>2. dev' = [dev EXCEPT ![d] = [File(dev[d], m) EXCEPT
             !.copies = @ \cup {m},
             !.tickets = IF dev[d].phase = "off" THEN @ ELSE @ \cup {m}]]
    BY <1>1, <1>2, Zenon DEF SendAs
  <2>3. Spend("sends") /\ UNCHANGED <<now, queue>>
    BY DEF SendAs
  <2>4. [File(dev[d], m) EXCEPT
             !.copies = @ \cup {m},
             !.tickets = IF dev[d].phase = "off" THEN @ ELSE @ \cup {m}] = x
    BY <1>1, <1>4, <2>1, Zenon
  <2>5. dev' = [dev EXCEPT ![d] = x]
    BY <2>2, <2>4
  <2>6. x = t
    <3>1. CASE s.phase = "off"
      BY <1>5, <1>6, <2>1, <3>1
    <3>2. CASE s.phase # "off"
      BY <1>5, <1>6, <2>1, <3>2
    <3> QED  BY <3>1, <3>2
  <2> QED  BY <2>3, <2>5, <2>6
<1>8. dev'[d] = t /\ DevOK(s) /\ \A e \in Device : e # d => First(e)
  BY <1>1, <1>7, OthersFirst
<1>9. /\ DevOK(t) /\ Adds(s, t, m) /\ t.copies = s.copies \cup {m}
      /\ t.seen = s.seen /\ t.forgot = s.forgot /\ t.subscribed = s.subscribed
      /\ t.reacted = s.reacted /\ t.proved = s.proved
  <2>1. Sends(s, t, m, tickets)
    BY <1>4, <1>6 DEF Sends
  <2> QED  BY <1>3, <1>8, <2>1, SendOK
<1>10. WorldOK(world') /\ world'.out = world.out
  BY <1>7, SpendOK DEF Invariant
<1>11. Sound(world.out, [dev EXCEPT ![d] = t], queue)
  <2>1. PICK out, dv, q : out = world.out /\ dv = dev /\ q = queue
    OBVIOUS
  <2>2. Sound(out, dv, q) /\ dv[d] = s
    BY <1>1, <2>1 DEF Invariant
  <2>3. Sound(out, [dv EXCEPT ![d] = t], q)
    BY <1>3, <1>9, <2>2, SentKeeps
  <2> QED  BY <2>1, <2>3
<1>12. First(d)
  BY <1>1, <1>8, <1>9 DEF First
<1> QED  BY <1>7, <1>8, <1>10, <1>11, <1>12 DEF Invariant

\* What is owed is uploaded.
LEMMA UploadKeeps ==
  ASSUME Invariant, NEW d \in Device, NEW b, Upload(d, b)
  PROVE  Invariant' /\ \A e \in Device : First(e)
<1>1. PICK t : t = [dev[d] EXCEPT !.owed = @ \ {b}, !.copies = @ \ {b}]
  OBVIOUS
<1>2. dev = [e \in Device |-> dev[e]] /\ Sound(world.out, dev, queue) /\ DevOK(dev[d])
  BY DEF Invariant, Sound
<1>3. dev' = [dev EXCEPT ![d] = t]
  <2>1. dev' = [dev EXCEPT ![d].owed = @ \ {b}, ![d].copies = @ \ {b}]
    BY DEF Upload
  <2>2. DOMAIN dev[d] = {"listed", "rec", "owed", "copies", "seen", "chat", "reacted", "tickets", "proved",
                         "phase", "subscribed", "forgot"}
    BY <1>2, FieldNames DEF DevOK
  <2> QED  BY <1>1, <1>2, <2>1, <2>2
<1>4. /\ b \in dev[d].owed \cup dev[d].copies /\ queue' = [e \in Device |-> queue[e] \cup {b}]
      /\ UNCHANGED <<world, now>>
  BY DEF Upload
<1>5. dev'[d] = t /\ \A e \in Device : e # d => First(e)
  BY <1>3, OthersFirst
<1>6. /\ DevOK(t) /\ t.copies = dev[d].copies \ {b} /\ t.seen = dev[d].seen /\ t.forgot = dev[d].forgot
      /\ t.chat = dev[d].chat /\ t.subscribed = dev[d].subscribed
      /\ t.reacted = dev[d].reacted /\ t.proved = dev[d].proved
  <2>1. Uploaded(dev[d], t, b)
    BY <1>1 DEF Uploaded
  <2> QED  BY <1>2, <2>1, UploadOK
<1>7. Sound(world.out, [dev EXCEPT ![d] = t], [e \in Device |-> queue[e] \cup {b}])
  <2>1. PICK out, dv, q : out = world.out /\ dv = dev /\ q = queue
    OBVIOUS
  <2>2. /\ b \in dv[d].owed \cup dv[d].copies /\ DevOK(t) /\ t.copies = dv[d].copies \ {b}
        /\ t.seen = dv[d].seen /\ t.forgot = dv[d].forgot /\ t.chat = dv[d].chat /\ Sound(out, dv, q)
        /\ t.reacted = dv[d].reacted /\ t.proved = dv[d].proved
    BY <1>2, <1>4, <1>6, <2>1
  <2>3. Sound(out, [dv EXCEPT ![d] = t], [e \in Device |-> q[e] \cup {b}])
    BY <2>2, UploadedKeeps
  <2> QED  BY <2>1, <2>3
<1>8. First(d)
  BY <1>5, <1>6 DEF First
<1> QED  BY <1>3, <1>4, <1>5, <1>7, <1>8 DEF Invariant

\* A push arrives, and once more when its answer is lost.
LEMMA PushKeeps ==
  ASSUME Invariant, NEW d \in Device, NEW b, NEW again \in BOOLEAN, Push(d, b, again)
  PROVE  Invariant' /\ \A e \in Device : First(e)
<1>1. PICK t : t = HandleBlob(dev[d], b, d)
  OBVIOUS
<1>2. PICK Q : Q = IF again THEN queue[d] ELSE queue[d] \ {b}
  OBVIOUS
<1>3. /\ dev' = [dev EXCEPT ![d] = t] /\ queue' = [queue EXCEPT ![d] = Q] /\ b \in queue[d]
      /\ (IF again THEN Spend("dups") ELSE UNCHANGED world) /\ now' = now
  BY <1>1, <1>2 DEF Push
<1>4. dev'[d] = t /\ DevOK(dev[d]) /\ \A e \in Device : e # d => First(e)
  <2>1. dev'[d] = t /\ DevOK(dev[d])
    BY <1>3, OthersFirst
  <2> QED  BY <1>3, <2>1, OthersFirst
<1>5. Sound(world.out, dev, queue)
  BY DEF Invariant
<1>6. Comes(world.out, dev[d], b, d) /\ DevKeys(world.out, dev[d], d)
  <2>1. PICK out, dv, q : out = world.out /\ dv = dev /\ q = queue
    OBVIOUS
  <2>2. Sound(out, dv, q) /\ b \in q[d]
    BY <1>3, <1>5, <2>1
  <2>3. Comes(out, dv[d], b, d)
    BY <2>2, ComesOf
  <2>4. DevKeys(out, dv[d], d)
    BY <2>2 DEF Sound
  <2> QED  BY <2>1, <2>3, <2>4
<1>7. After(world.out, d, dev[d], t, b)
  BY <1>1, <1>4, <1>6, HandledAfter
<1>8. Moved(world.out, d, dev[d], t, {b}) /\ Onward(dev[d], t)
  BY <1>7 DEF After
<1>9. Sound(world.out, [dev EXCEPT ![d] = t], [queue EXCEPT ![d] = Q])
  <2>1. PICK out, dv, q, B : out = world.out /\ dv = dev /\ q = queue /\ B = {b}
    OBVIOUS
  <2>2. Sound(out, dv, q) /\ Moved(out, d, dv[d], t, B) /\ B \subseteq q[d] /\ Q \subseteq q[d] /\ q[d] \subseteq Q \cup B
    BY <1>2, <1>3, <1>5, <1>8, <2>1
  <2>3. Sound(out, [dv EXCEPT ![d] = t], [q EXCEPT ![d] = Q])
    BY <2>2, MovedKeeps
  <2> QED  BY <2>1, <2>3
<1>10. WorldOK(world') /\ world'.out = world.out
  BY <1>3, SpendOK DEF Invariant
<1>11. First(d)
  <2> SUFFICES ASSUME ~dev[d].subscribed, dev'[d].subscribed, dev'[d].rec = dev[d].rec PROVE FALSE
    BY DEF First
  <2>1. RecOK(t.rec) /\ t.rec = dev[d].rec
    BY <1>4, <1>8 DEF Moved, DevOK
  <2> QED  BY <1>4, <1>7, <1>8, <2>1 DEF Onward, Supersedes, RecOK, After
<1> QED  BY <1>3, <1>4, <1>9, <1>10, <1>11 DEF Invariant

\* A page is pulled; the last one ends the pull.
LEMMA PullPageKeeps ==
  ASSUME Invariant, NEW d \in Device, NEW page \in Pages(d), PullPage(d, page)
  PROVE  Invariant' /\ \A e \in Device : First(e)
<1>1. PICK s : s = HandlePage(dev[d], page, d)
  OBVIOUS
<1>2. PICK rest : rest = queue[d] \ ToSet(page)
  OBVIOUS
<1>3. PICK t : t = IF PullOver(rest, page) THEN Subscribe(s) ELSE s
  OBVIOUS
<1>4. dev' = [dev EXCEPT ![d] = t] /\ queue' = [queue EXCEPT ![d] = rest] /\ world' = world /\ now' = now
  BY <1>1, <1>2, <1>3 DEF PullPage
<1>5. Sound(world.out, dev, queue) /\ queue = [e \in Device |-> queue[e]]
  BY DEF Invariant, Sound
<1>6. page \in Seq(queue[d]) /\ (page = <<>> => queue[d] = {})
  <2>1. page \in SeqOf(queue[d], PageSize) /\ (page = <<>> => queue[d] = {})
    BY DEF Pages
  <2>2. PICK m \in 0..PageSize : page \in [1..m -> queue[d]]
    BY <2>1 DEF SeqOf
  <2>3. m \in Nat
    BY <2>2, DistroMailAssumption
  <2> QED  BY <2>1, <2>2, <2>3
<1>7. ToSet(page) \subseteq queue[d] /\ \A i \in 1..Len(page) : page[i] \in queue[d]
  BY <1>6, InSeq
<1>8. DevOK(dev[d]) /\ DevKeys(world.out, dev[d], d)
  BY <1>5 DEF Sound
<1>9. \A i \in 1..Len(page) : Comes(world.out, dev[d], page[i], d)
  <2>1. PICK out, dv, q : out = world.out /\ dv = dev /\ q = queue
    OBVIOUS
  <2>2. \A b \in q[d] : Comes(out, dv[d], b, d)
    BY <1>5, <2>1, ComesOf
  <2> QED  BY <1>7, <2>1, <2>2
<1>10. Moved(world.out, d, dev[d], s, ToSet(page)) /\ Onward(dev[d], s)
  BY <1>1, <1>6, <1>8, <1>9, PageAfter
<1>11. Moved(world.out, d, dev[d], t, ToSet(page))
  <2>1. CASE PullOver(rest, page)
    <3>1. DevOK(t) /\ SameStores(s, t)
      BY <1>3, <1>10, <2>1, SubscribeOK DEF Moved
    <3>2. DevKeys(world.out, s, d)
      BY <1>10 DEF Moved
    <3>3. Moved(world.out, d, s, t, {})
      BY <3>1, <3>2, SameMoves DEF SameStores, MoreTaken
    <3> QED  BY <1>10, <3>3 DEF Moved
  <2> QED  BY <1>3, <1>10, <2>1
<1>12. Sound(world.out, [dev EXCEPT ![d] = t], [queue EXCEPT ![d] = rest])
  <2>1. PICK out, dv, q, B : out = world.out /\ dv = dev /\ q = queue /\ B = ToSet(page)
    OBVIOUS
  <2>2. /\ Sound(out, dv, q) /\ Moved(out, d, dv[d], t, B)
        /\ B \subseteq q[d] /\ rest \subseteq q[d] /\ q[d] \subseteq rest \cup B
    BY <1>2, <1>5, <1>7, <1>11, <2>1
  <2>3. Sound(out, [dv EXCEPT ![d] = t], [q EXCEPT ![d] = rest])
    BY <2>2, MovedKeeps
  <2> QED  BY <2>1, <2>3
<1>13. dev'[d] = t /\ \A e \in Device : e # d => First(e)
  <2>1. dev'[d] = t
    BY <1>4, OthersFirst
  <2> QED  BY <1>4, <2>1, OthersFirst
<1>14. First(d)
  <2>1. CASE PullOver(rest, page)
    <3>1. queue'[d] = {}
      BY <1>2, <1>4, <1>5, <1>6, <2>1 DEF PullOver
    <3> QED  BY <3>1 DEF First
  <2>2. CASE ~PullOver(rest, page)
    <3> SUFFICES ASSUME ~dev[d].subscribed, dev'[d].subscribed, dev'[d].rec = dev[d].rec PROVE FALSE
      BY DEF First
    <3>1. t = s /\ RecOK(t.rec) /\ t.rec = dev[d].rec
      BY <1>3, <1>10, <1>13, <2>2 DEF Moved, DevOK
    <3> QED  BY <1>10, <1>13, <3>1 DEF Onward, Supersedes, RecOK
  <2> QED  BY <2>1, <2>2
<1> QED  BY <1>4, <1>12, <1>13, <1>14 DEF Invariant

\* Time passes.
LEMMA TickKeeps ==
  ASSUME Invariant, Tick
  PROVE  Invariant' /\ \A e \in Device : First(e)
<1>1. Spend("ticks") /\ now' = now + 1 /\ dev' = dev /\ queue' = queue
  BY DEF Tick
<1>2. WorldOK(world') /\ world'.out = world.out
  BY <1>1, SpendOK DEF Invariant
<1> QED  BY <1>1, <1>2 DEF Invariant, First

\* A step that is none.
LEMMA StutterKeeps ==
  ASSUME Invariant, UNCHANGED mailVars
  PROVE  Invariant' /\ \A e \in Device : First(e)
BY DEF mailVars, Invariant, First

\* Every step keeps the invariant, and pulls first.
LEMMA NextKeeps ==
  ASSUME Invariant, [MailNext]_mailVars
  PROVE  Invariant' /\ \A e \in Device : First(e)
<1>1. ASSUME NEW d \in Device,
             \/ Join(d) \/ Leave(d) \/ SendAs(d) \/ Connect(d) \/ PullFails(d) \/ Stop(d)
             \/ \E b \in dev[d].owed \cup dev[d].copies : Upload(d, b)
             \/ \E b \in queue[d], again \in BOOLEAN : Push(d, b, again)
             \/ \E page \in Pages(d) : PullPage(d, page)
      PROVE  Invariant' /\ \A e \in Device : First(e)
  BY <1>1, JoinKeeps, LeaveKeeps, SendAsKeeps, ConnectKeeps, PullFailsKeeps, StopKeeps,
     UploadKeeps, PushKeeps, PullPageKeeps, Zenon
<1>2. CASE Tick
  BY <1>2, TickKeeps
<1>3. CASE UNCHANGED mailVars
  BY <1>3, StutterKeeps
<1> QED  BY <1>1, <1>2, <1>3, Zenon DEF MailNext

\* What comes from elsewhere is sound.
LEMMA WorldIs ==
  ASSUME NEW w \in Worlds
  PROVE  WorldOK(w) /\ OutSound(w.out)
<1>1. WorldOK(w)
  BY WorldsSound DEF WorldOK
<1>2. \A b \in w.out :
        /\ b.kind \in {"mail", "reaction", "ticket", "control", "copy", "sync"}
        /\ b.kind = "copy" => b.refused = TRUE
        /\ b.kind = "sync" => b.op \in {"join", "leave"} /\ b.at \in Nat
        /\ b.kind = "mail" => b.by \notin Device
  BY WorldsSound
<1>3. OutSound(w.out)
  BY <1>2 DEF OutSound, BlobOK, SyncOK, GoodCopy
<1> QED  BY <1>1, <1>3

\* A device that has nothing yet.
LEMMA Device0OK ==
  ASSUME NEW out
  PROVE  /\ \A d : DevKeys(out, Device0, d)
         /\ DevOK(Device0) /\ Device0.copies = {} /\ \A m : ~Filed(Device0, m)
<1>1. /\ Fields(Device0) /\ Device0.listed = FALSE /\ Device0.subscribed = FALSE /\ Device0.phase = "off"
      /\ Device0.rec = NoSync /\ Device0.owed = {} /\ Device0.copies = {} /\ Device0.seen = <<>>
      /\ Device0.chat = <<>> /\ Device0.reacted = {} /\ Device0.forgot = {}
  BY DEF Device0, Fields
<1>2. RecOK(NoSync)
  BY DEF RecOK, NoSync
<1>3. DOMAIN Device0.chat = {} /\ \A m : ~Filed(Device0, m)
  <2>1. DOMAIN Device0.chat = {}
    BY <1>1
  <2> QED  BY <2>1 DEF Filed, ToSet
<1>4. Listing(<<>>) /\ Len(<<>>) <= SeenLimit /\ IsInjective(<<>>) /\ ToSet(<<>>) = {}
  <2>1. SeenLimit \in Nat
    BY DistroMailAssumption
  <2>2. Len(<<>>) = 0 /\ DOMAIN <<>> = {}
    OBVIOUS
  <2>3. Len(<<>>) <= SeenLimit
    BY <2>1, <2>2
  <2>4. ToSet(<<>>) = {} /\ IsInjective(<<>>)
    BY <2>2 DEF ToSet, IsInjective
  <2> QED  BY <2>3, <2>4 DEF Listing
<1>5. DevOK(Device0)
  BY <1>1, <1>2, <1>3, <1>4 DEF DevOK
<1>6. \A d : DevKeys(out, Device0, d)
  BY <1>1, <1>3, <1>4 DEF DevKeys, SeenTook, CameKnown, OwnPlaced, OnceFiled
<1> QED  BY <1>1, <1>3, <1>5, <1>6

\* The first states are sound.
LEMMA InitSound ==
  ASSUME MailInit
  PROVE  Invariant
<1>1. WorldOK(world) /\ OutSound(world.out) /\ now = 0
  BY WorldIs DEF MailInit
<1>2. PICK out, dv, q : out = world.out /\ dv = dev /\ q = queue
  OBVIOUS
<1>3. dv = [d \in Device |-> Device0] /\ q = [d \in Device |-> out] /\ OutSound(out)
  BY <1>1, <1>2 DEF MailInit
<1>4. \A d \in Device : dv[d] = Device0 /\ q[d] = out
  BY <1>3
<1>5. /\ \A d : DevKeys(out, Device0, d)
      /\ DevOK(Device0) /\ Device0.copies = {} /\ \A m : ~Filed(Device0, m)
  BY Device0OK
<1>6. \A d \in Device : DevOK(dv[d]) /\ DevKeys(out, dv[d], d) /\ Reaches(out, dv, q, d)
  BY <1>4, <1>5 DEF Reaches, Written
<1>7. \A d \in Device : \A b \in q[d] : BlobOK(out, b)
  BY <1>3, <1>4 DEF OutSound
<1>8. \A c : ~Around(dv, q, c)
  BY <1>3, <1>4, <1>5 DEF Around, OutSound, Owed, Written
<1>9. dv = [d \in Device |-> dv[d]] /\ q = [d \in Device |-> q[d]]
  BY <1>3
<1>10. Sound(out, dv, q)
  BY <1>3, <1>6, <1>7, <1>8, <1>9 DEF Sound
<1> QED  BY <1>1, <1>2, <1>10 DEF Invariant

\* Every state that is reached is sound.
LEMMA InvariantHolds == MailSpec => []Invariant
<1>1. MailInit => Invariant
  BY InitSound
<1>2. Invariant /\ [MailNext]_mailVars => Invariant'
  BY NextKeeps
<1> QED  BY <1>1, <1>2, PTL DEF MailSpec

\* The types.
LEMMA Types ==
  ASSUME Invariant
  PROVE  MailTypeOK
<1> SUFFICES ASSUME NEW d \in Device
             PROVE  /\ dev[d].listed \in BOOLEAN /\ dev[d].subscribed \in BOOLEAN
                    /\ dev[d].phase \in {"off", "pulling", "on"}
                    /\ dev[d].rec.op \in {"none", "join", "leave"} /\ dev[d].rec.at >= -1
                    /\ Cardinality(dev[d].owed) <= 1
                    /\ Len(dev[d].seen) <= SeenLimit /\ IsInjective(dev[d].seen)
                    /\ dev[d].reacted \subseteq ToSet(dev[d].chat)
  BY DEF MailTypeOK, Invariant
<1>1. DevOK(dev[d])
  BY DEF Invariant, Sound
<1>2. Cardinality(dev[d].owed) <= 1
  <2>1. \A a, b \in dev[d].owed : a = b
    BY <1>1 DEF DevOK
  <2>2. CASE dev[d].owed = {}
    BY <2>2, FS_EmptySet
  <2>3. CASE dev[d].owed # {}
    <3>1. PICK a : dev[d].owed = {a}
      BY <2>1, <2>3
    <3>2. Cardinality({a}) = 1
      BY FS_Singleton
    <3> QED  BY <3>1, <3>2
  <2> QED  BY <2>2, <2>3
<1>3. dev[d].reacted \subseteq ToSet(dev[d].chat)
  BY <1>1 DEF DevOK, Filed
<1> QED  BY <1>1, <1>2, <1>3 DEF DevOK, RecOK

\* Mail and copies are filed once,
LEMMA Files ==
  ASSUME Invariant
  PROVE  FiledOnce
<1>1. \A d \in Device : DevKeys(world.out, dev[d], d)
  BY DEF Invariant, Sound
<1> QED  BY <1>1 DEF DevKeys, OnceFiled, FiledOnce

\* and none is missed but one shadowed by another of its time.
LEMMA Misses ==
  ASSUME Invariant
  PROVE  NoneMissed
<1>1. Sound(world.out, dev, queue)
  BY DEF Invariant
<1> SUFFICES ASSUME NEW d \in Device, NEW m, (m \in world.out /\ m.kind = "mail") \/ Written(dev, m)
             PROVE  \/ \E b \in TookAt(d) : Key(b) = Key(m)
                    \/ m \in queue[d] \/ \E e \in Device : m \in dev[e].copies
  BY Zenon DEF NoneMissed, Written, Filed
<1>2. Took(world.out, dev[d], Key(m)) \/ m \in queue[d] \/ Owed(dev, m)
  BY <1>1 DEF Sound, Reaches
<1>3. Took(world.out, dev[d], Key(m)) => \E b \in TookAt(d) : Key(b) = Key(m)
  BY DEF Took, TookAt, ToSet
<1> QED  BY <1>2, <1>3 DEF Owed

-----------------------------------------------------------------------------

\* What a device keeps of its mail is sound: its types; a message is filed
\* once, but for what the seen list forgot; and every message to the user or
\* by the user is filed on every device it is not on its way to, or what the
\* device took has its source and its time.
THEOREM MailSoundHolds == MailSpec => []MailSound
<1>1. Invariant => MailSound
  BY Types, Files, Misses DEF MailSound
<1> QED  BY <1>1, InvariantHolds, PTL

\* A connection subscribes a stored channel only when no newer leave of it
\* waits for the device.
THEOREM PulledFirstHolds == MailSpec => PulledFirst
<1>1. Invariant /\ [MailNext]_mailVars =>
        [\A d \in Device :
           (/\ ~dev[d].subscribed /\ dev'[d].subscribed
            /\ dev'[d].rec = dev[d].rec /\ world'.fails = world.fails)
           => ~\E b \in queue'[d] : b.kind = "sync" /\ b.op = "leave" /\ Supersedes(b, dev'[d].rec)]_mailVars
  BY NextKeeps DEF First
<1> QED  BY <1>1, InvariantHolds, PTL DEF MailSpec, PulledFirst

=============================================================================
