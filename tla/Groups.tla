------------------------------- MODULE Groups -------------------------------
(***************************************************************************)
(* One group of the distro D on the user's devices, each of which holds D: *)
(* what reaches D is fanned out to all of them, in any order and at times  *)
(* twice, and what the user does on one reaches the others as group syncs. *)
(* The creator, or an invited member, c writes the posts and the reaction; *)
(* m is the other member, who accepts and may leave.                       *)
(***************************************************************************)
EXTENDS HeldArrivals

CONSTANTS
  Device, \* the user's devices
  Worlds  \* what may be explored: sets of [creator, out, allows, knows,
          \* switched, acts, dups, reloads, mutes]

\* What c and m send: no post twice, and none that the user wrote; only c
\* invites, and only to a group it made.
ASSUME GroupWorldsSound ==
  \A w \in Worlds :
    /\ w = [creator |-> w.creator, out |-> w.out, allows |-> w.allows, knows |-> w.knows,
            switched |-> w.switched, acts |-> w.acts, dups |-> w.dups,
            reloads |-> w.reloads, mutes |-> w.mutes]
    /\ w.creator \in {"c", "distro"} /\ w.knows \in [Device -> SUBSET {"c", "m"}]
    /\ \A b \in w.out :
         /\ b.kind \in {"invite", "post", "react", "accept", "leave"}
         /\ b.kind = "invite" => w.creator = "c" /\ b.key \in {"c", "m"}
         /\ b.kind \in {"accept", "leave"} => b.keyed \in BOOLEAN
         /\ b.kind = "post" => b.post \notin Device /\ \A a \in w.out : a.kind = "post" /\ a.post = b.post => a = b

VARIABLES
  world, \* what is left of it: the bounds count down
  dev,   \* device -> what it keeps of the group
  net,   \* device -> what RFed has for it
  wire,  \* the user's accept and leaves on their way to c
  peer   \* the status of D in c's list

vars == <<world, dev, net, wire, peer>>

Group == "g"
Distro == "distro"

\* GroupStore's entry and marks, the distro's left list, the invites the
\* filter dropped, the held arrivals, the keys of c and m, GroupMsgStore, the
\* seen lists (DistroSeen, persisted; _groupSeenIds, of this page), the posts
\* being sent; `pushed`, `untold` and `cut` record what was pushed out of the
\* held arrivals, a leave no sync has carried yet, and a post whose sync a
\* reload kept from being owed.
Device0(w, d) ==
  [st |-> "none", creator |-> "none", m |-> "invited", copy |-> "none", changes |-> <<>>,
   closed |-> FALSE, left |-> FALSE, filtered |-> FALSE, rows |-> <<>>,
   allow |-> d \in w.allows, keys |-> w.knows[d],
   shown |-> << >>, chip |-> FALSE, seen |-> {}, page |-> {}, sending |-> {},
   pushed |-> {}, untold |-> FALSE, cut |-> FALSE]

-----------------------------------------------------------------------------
(* Member statuses *)

\* GroupStore.keepStatus: the creator's copy of what counted.
Keep(s, act) ==
  IF s.creator # Distro \/ s.m = "left" \/ s.copy = "leave" THEN s ELSE [s EXCEPT !.copy = act]

\* GroupStore.updateMember.
UpdateMember(s, act) ==
  IF s.m = "left" THEN s ELSE [s EXCEPT !.m = IF act = "leave" THEN "left" ELSE "accepted"]

\* _applyGroupStatusChange: the copy first, then the list.
ApplyChange(s, act) == UpdateMember(Keep(s, act), act)

\* _decideHeldGroupChanges, in the order they came.
DecideHeld(s) ==
  IF "m" \notin s.keys THEN s
  ELSE LET after[n \in 0 .. Len(s.changes)] ==
             IF n = 0 THEN s ELSE ApplyChange(after[n - 1], s.changes[n].kind)
       IN [after[Len(s.changes)] EXCEPT !.changes = <<>>]

\* _takeGroupStatusChange: what is not verified is held from the switch on.
TakeChange(s, b) ==
  IF b.keyed \/ "m" \in s.keys \/ ~world.switched THEN ApplyChange(s, b.kind)
  ELSE IF \E i \in DOMAIN s.changes : s.changes[i] = b THEN s
  ELSE [s EXCEPT !.changes = Append(@, b)]

Remember(s, b) == IF b.keyed THEN [s EXCEPT !.keys = @ \cup {"m"}] ELSE s

\* _takeGroupStatuses: each element as if it had arrived directly.
TakeElement(s, b) == IF s.m = "left" THEN s ELSE TakeChange(Remember(s, b), b)
TakeElements(s, els) ==
  LET after[n \in 0 .. Len(els)] == IF n = 0 THEN s ELSE TakeElement(after[n - 1], els[n])
  IN after[Len(els)]

-----------------------------------------------------------------------------
(* A message of the group reaching the distro: [s, verdict] *)

Answer(s, verdict) == [s |-> s, verdict |-> verdict]

Source(b) == CASE b.kind \in {"accept", "leave"} -> "m" [] b.kind = "sync" -> Distro [] OTHER -> "c"

Validated(s, b) ==
  IF b.kind \in {"accept", "leave"} THEN b.keyed \/ "m" \in s.keys
  ELSE b.kind = "invite" \/ "c" \in s.keys

\* shouldProcessGroupMessage, for a group whose status is `status`.
Accepts(s, b, status) ==
  IF b.kind = "invite" THEN s.allow /\ ~s.closed
  ELSE /\ status # "none"
       /\ b.kind \in {"accept", "leave"} => s.m # "left"
       /\ b.kind = "status" => status = "active" /\ s.creator = "c" /\ Validated(s, b)

\* _holdGroupArrival: what only the group's not being joined here keeps out.
\* (Variant: only what came for an invitation pending here.)
MayHoldPending(s, b) == s.st = "pending" /\ ~s.closed /\ ~s.filtered /\ Accepts(s, b, "active")
MayHold(s, b) ==
  /\ b.kind # "invite" /\ s.st # "active" /\ ~s.closed /\ ~s.filtered
  /\ IF s.st = "pending" THEN Accepts(s, b, "active") ELSE Validated(s, b)

HoldRow(s, b) ==
  LET room == Hold(s.rows, [blob |-> b, group |-> Group, src |-> Source(b), pending |-> s.st = "pending"], Distro)
  IN Answer([s EXCEPT !.rows = room.rows, !.pushed = @ \cup room.out],
            IF room.held THEN "held" ELSE "dropped")

\* _handleGroupMessage's refusal: an invite the filter drops is remembered,
\* what may be held is.
Refuse(s, b) ==
  IF b.kind = "invite" /\ s.st = "none" /\ ~s.closed THEN Answer([s EXCEPT !.filtered = TRUE], "dropped")
  ELSE IF MayHold(s, b) THEN HoldRow(s, b)
  ELSE Answer(s, "dropped")

Show(s, p) == [s EXCEPT !.shown = Append(@, p)]
Shows(s, p) == \E i \in DOMAIN s.shown : s.shown[i] = p

\* An invite: its key, then, when the group is new, the pending entry.
Invite(s, b) ==
  LET t == DecideHeld([s EXCEPT !.keys = @ \cup {b.key}])
  IN IF t.st # "none" THEN t ELSE [t EXCEPT !.st = "pending", !.creator = "c"]

\* An accept or a leave: its key, and what was held for that first.
Change(s, b) ==
  LET t == Remember(s, b)
  IN TakeChange(IF Validated(s, b) THEN DecideHeld(t) ELSE t, b)

\* _handleGroupMessage, once its rule took it and this page has not seen it.
Handle(s, b) ==
  CASE b.kind = "post"   -> Answer(Show(s, b.post), "kept")
    [] b.kind = "react"  -> IF Shows(s, b.post) THEN Answer([s EXCEPT !.chip = TRUE], "kept")
                            ELSE Answer(s, "dropped")
    [] b.kind = "invite" -> Answer(Invite(s, b), "kept")
    [] b.kind = "status" -> Answer(TakeElements(s, b.els), "kept")
    [] OTHER             -> Answer(Change(s, b), "kept")

GroupMessage(s, b) ==
  IF ~Accepts(s, b, s.st) THEN Refuse(s, b)
  ELSE IF b \in s.page THEN Answer(s, "kept")
  ELSE Handle([s EXCEPT !.page = @ \cup {b}], b)

\* DistroSeen.check first, and forget unless the message was kept.
Mark(s, b, answer) ==
  IF answer.verdict # "kept" THEN answer.s ELSE [answer.s EXCEPT !.seen = @ \cup {b}]

Receive(s, b) == IF b \in s.seen THEN s ELSE Mark(s, b, GroupMessage(s, b))

-----------------------------------------------------------------------------
(* A group sync of another of the user's devices *)

\* GroupStore.close with what goes with it.  (Variant: what is held stays.)
CloseHolding(s) ==
  [s EXCEPT !.st = "none", !.creator = "none", !.m = "invited", !.copy = "none", !.changes = <<>>,
            !.closed = TRUE, !.shown = <<>>, !.chip = FALSE]
Close(s) == [CloseHolding(s) EXCEPT !.rows = ForgetGroup(s.rows, Group)]

CloseFromSync(s) == [Close(s) EXCEPT !.left = TRUE]

\* _applyGroupSync for a post: the user's own, from the other device.
SyncedPost(s, b) ==
  CASE s.closed -> Answer(s, "dropped")
    [] ~s.closed /\ s.st # "active" -> IF s.filtered THEN Answer(s, "dropped") ELSE HoldRow(s, b)
    [] OTHER -> Answer(Show(s, b.post), "kept")

\* _replayHeldGroupArrivals: each released, then handled as new.
ReplayRow(s, r) ==
  LET t == [s EXCEPT !.rows = Release(s.rows, r)]
  IN IF r.blob.kind # "sync" THEN Receive(t, r.blob) ELSE Mark(t, r.blob, SyncedPost(t, r.blob))
Replay(s) ==
  LET rows == ForGroup(s.rows, Group)
      after[n \in 0 .. Len(rows)] == IF n = 0 THEN s ELSE ReplayRow(after[n - 1], rows[n])
  IN after[Len(rows)]

\* _joinedFromSync, and the accept of the user on this device.
Joined(s) == Replay([DecideHeld(s) EXCEPT !.st = "active", !.allow = TRUE])
JoinedFromSync(s, b) == Joined([s EXCEPT !.keys = @ \cup b.keys, !.filtered = FALSE])

\* _applyGroupSync for a create or an accept.  (Variant: a group closed here
\* is joined again.)
SyncedJoinAgain(s, b) ==
  IF s.st = "active" THEN s
  ELSE JoinedFromSync([s EXCEPT !.closed = FALSE, !.creator = IF b.op = "create" THEN Distro ELSE "c"], b)
SyncedJoin(s, b) ==
  IF s.closed \/ s.st = "active" THEN s
  ELSE JoinedFromSync([s EXCEPT !.creator = IF b.op = "create" THEN Distro ELSE "c"], b)

ApplySync(s, b) ==
  CASE b.op \in {"create", "accept"} -> Answer(SyncedJoin(s, b), "kept")
    [] b.op = "leave" -> Answer(IF s.closed THEN s ELSE CloseFromSync(s), "kept")
    [] b.op = "post"  -> SyncedPost(s, b)
    [] OTHER          -> Answer(s, "kept") \* of another group

\* _applyGroupSyncLeft: the sync's left list, but for its own group.
ApplyLeft(s, b) ==
  IF ~b.left \/ b.op # "other" THEN s
  ELSE IF s.closed THEN [s EXCEPT !.left = TRUE] ELSE CloseFromSync(s)

\* _handleDistroGroupSync: the repeat, the echo of this device's own, the op,
\* the left list.  (Variant: the echo is applied too.)
GroupSyncEcho(s, b, d) ==
  IF b \in s.seen THEN s
  ELSE LET answer == ApplySync(s, b)
       IN Mark(s, b, [answer EXCEPT !.s = ApplyLeft(@, b)])
GroupSync(s, b, d) ==
  IF b \in s.seen THEN s
  ELSE IF b.by = d THEN Mark(s, b, Answer(s, "kept"))
  ELSE LET answer == ApplySync(s, b)
       IN Mark(s, b, [answer EXCEPT !.s = ApplyLeft(@, b)])

\* _handleDistroBlob.
Blob(s, b, d) == IF b.kind = "sync" THEN GroupSync(s, b, d) ELSE Receive(s, b)

-----------------------------------------------------------------------------
(* What the user does on a device *)

Sync(op, d, s, p) == [kind |-> "sync", op |-> op, by |-> d, post |-> p, keys |-> s.keys, left |-> s.left]

\* _syncGroupAction: the leave on the left list, then the sync, which may
\* not be owed (`mute`: no address for it, or it could not be built).
Owe(op, d, s, p, mute) ==
  IF mute THEN {} ELSE {Sync(op, d, s, p)}

FanOut(blobs) == net' = [e \in Device |-> net[e] \cup blobs]

\* What a user does: device d is s after it, `others` is what the other
\* members send from then on.
Act(d, s, op, p, mute, others) ==
  /\ world.acts > 0
  /\ mute => world.mutes > 0
  /\ world' = [world EXCEPT !.acts = @ - 1, !.mutes = IF mute THEN @ - 1 ELSE @]
  /\ dev' = [dev EXCEPT ![d] = s]
  /\ FanOut(Owe(op, d, s, p, mute) \cup others)

\* createGroup.
Create(d, mute) ==
  LET s == dev[d]
  IN /\ world.creator = Distro /\ s.st = "none" /\ ~s.closed
     /\ \A e \in Device : dev[e].creator # Distro /\ ~dev[e].closed
     /\ Act(d, [s EXCEPT !.st = "active", !.creator = Distro, !.allow = TRUE], "create", "none", mute, world.out)
     /\ UNCHANGED <<wire, peer>>

\* _fanoutGroupEnvelope: an envelope to every other member, m.
TellMembers(what) == wire' = wire \cup {what}

\* sendGroupAccept, to every other member listed, and sendGroupLeave, to
\* those that have not left, as c never does.
SendGroupAccept == TellMembers("accept")
SendGroupLeave == TellMembers("leave")

\* _acceptGroupInvite: every member's key is here.
AcceptInvite(d, mute) ==
  LET s == dev[d]
  IN /\ s.st = "pending" /\ {"c", "m"} \subseteq s.keys
     /\ Act(d, Joined(s), "accept", "none", mute, {})
     /\ SendGroupAccept
     /\ UNCHANGED peer

\* _quitGroup: a decline or a leave; its sync goes with the id on the left
\* list, the leave to the members.
Quit(d, mute) ==
  LET s == dev[d]
  IN /\ s.st # "none"
     /\ Act(d, [Close(s) EXCEPT !.left = TRUE, !.untold = mute], "leave", "none", mute, {})
     /\ SendGroupLeave
     /\ UNCHANGED peer

\* sendGroupMessage: stored; the sync is owed with the first copy handed on.
\* The post is named by the device, which writes one at most.
Post(d) ==
  /\ world.acts > 0 /\ dev[d].st = "active"
  /\ ~Shows(dev[d], d)
  /\ world' = [world EXCEPT !.acts = @ - 1]
  /\ dev' = [dev EXCEPT ![d] = [Show(dev[d], d) EXCEPT !.sending = {d}]]
  /\ UNCHANGED <<net, wire, peer>>

Submitted(d) ==
  /\ dev[d].sending # {}
  /\ dev' = [dev EXCEPT ![d] = [dev[d] EXCEPT !.sending = {}]]
  /\ FanOut(Owe("post", d, dev[d], d, dev[d].st = "none"))
  /\ UNCHANGED <<world, wire, peer>>

\* A sync of another group: only its left list is about this one.
OtherSync(d) ==
  /\ dev[d].closed
  /\ Act(d, [dev[d] EXCEPT !.untold = FALSE], "other", "none", FALSE, {})
  /\ UNCHANGED <<wire, peer>>

-----------------------------------------------------------------------------
(* What happens to a device *)

\* What RFed has for it reaches it, pushed or pulled; at times again.
Deliver(d, b, again) ==
  /\ b \in net[d]
  /\ again => world.dups > 0
  /\ world' = [world EXCEPT !.dups = IF again THEN @ - 1 ELSE @]
  /\ dev' = [dev EXCEPT ![d] = Blob(dev[d], b, d)]
  /\ net' = [net EXCEPT ![d] = IF again THEN @ ELSE @ \ {b}]
  /\ UNCHANGED <<wire, peer>>

\* m announces: its key, and what was held for it.
Announced(d) ==
  /\ "m" \notin dev[d].keys \/ dev[d].changes # <<>>
  /\ LET s == dev[d]
     IN dev' = [dev EXCEPT ![d] = DecideHeld([s EXCEPT !.keys = @ \cup {"m"}])]
  /\ UNCHANGED <<world, net, wire, peer>>

\* The page is loaded anew: only what is persisted stays.
Reload(d) ==
  LET s == dev[d]
  IN /\ world.reloads > 0
     /\ s.page # {} \/ s.sending # {}
     /\ world' = [world EXCEPT !.reloads = @ - 1]
     /\ dev' = [dev EXCEPT ![d] = [s EXCEPT !.page = {}, !.sending = {}, !.cut = s.cut \/ s.sending # {}]]
     /\ UNCHANGED <<net, wire, peer>>

\* c hears of the user's accept or leave; its client answers an accept that
\* counts with the statuses it has; with none, nothing comes of it.
Changes == {b \in world.out : b.kind \in {"accept", "leave"}}
Heard(msg) ==
  /\ msg \in wire
  /\ wire' = wire \ {msg}
  /\ peer' = IF peer = "left" THEN peer ELSE IF msg = "leave" THEN "left" ELSE "accepted"
  /\ \/ /\ msg = "accept" /\ peer # "left" /\ world.creator = "c"
        /\ \E els \in {<<>>} \cup {<<b>> : b \in Changes} :
             FanOut(IF els = <<>> THEN {} ELSE {[kind |-> "status", els |-> els]})
     \/ /\ ~(msg = "accept" /\ peer # "left" /\ world.creator = "c")
        /\ UNCHANGED net
  /\ UNCHANGED <<world, dev>>

-----------------------------------------------------------------------------
Init ==
  /\ world \in Worlds
  /\ dev = [d \in Device |-> Device0(world, d)]
  /\ net = [d \in Device |-> IF world.creator = "c" THEN world.out ELSE {}]
  /\ wire = {}
  /\ peer = "invited"

Next ==
  \/ \E d \in Device :
       \/ \E mute \in BOOLEAN : Create(d, mute) \/ AcceptInvite(d, mute) \/ Quit(d, mute)
       \/ Post(d) \/ Submitted(d) \/ OtherSync(d) \/ Announced(d) \/ Reload(d)
       \/ \E b \in net[d], again \in BOOLEAN : Deliver(d, b, again)
  \/ \E msg \in wire : Heard(msg)

Spec == Init /\ [][Next]_vars

\* RFed keeps what it has for a device until the device took it, what the
\* user sends is handed on, and m announces.
Fairness ==
  /\ \A d \in Device : /\ []<>(net[d] = {})
                       /\ []<>(dev[d].sending = {})
                       /\ []<>("m" \in dev[d].keys /\ dev[d].changes = <<>>)
  /\ []<>(wire = {})

FairSpec == Spec /\ Fairness

-----------------------------------------------------------------------------
(* Properties *)

TypeOK ==
  /\ peer \in {"invited", "accepted", "left"} /\ wire \subseteq {"accept", "leave"}
  /\ \A d \in Device :
       /\ dev[d].st \in {"none", "pending", "active"} /\ dev[d].m \in {"invited", "accepted", "left"}
       /\ dev[d].creator \in {"none", "c", Distro} /\ dev[d].copy \in {"none", "accept", "leave"}
       /\ dev[d].keys \subseteq {"c", "m"}
       /\ \A mark \in {"closed", "left", "filtered", "allow", "chip", "untold", "cut"} : dev[d][mark] \in BOOLEAN

\* A group the user left or declined is gone from the device for good: no
\* late, held, replayed or repeated blob, nor another device's accept, brings
\* back its entry, a post, or anything held for it.
ClosedIsEmpty ==
  \A d \in Device : dev[d].closed =>
    /\ dev[d].st = "none" /\ dev[d].shown = <<>>
    /\ dev[d].rows = <<>> /\ dev[d].changes = <<>> /\ dev[d].copy = "none"

\* What is held stays within its bounds, and no more of one source than its
\* share, whatever comes while the group is not joined here.
HeldInBounds ==
  \A d \in Device : LET rows == dev[d].rows IN
    /\ Len(rows) <= PerGroup /\ Len(rows) <= MaxBlobs
    /\ Cardinality({i \in DOMAIN rows : ~rows[i].pending}) <= NotHeld
    /\ \A src \in {"c", "m"} : Cardinality({i \in DOMAIN rows : rows[i].src = src}) <= PerSource

\* No post is shown twice on a device, though it may come twice, be held and
\* replayed, or be the echo of the device's own, before or after a reload.
ShownOnce ==
  \A d \in Device : \A i, j \in DOMAIN dev[d].shown : dev[d].shown[i] = dev[d].shown[j] => i = j

\* What the creator would pass on of a member is what its own list shows.
CopiesTrue ==
  \A d \in Device : dev[d].creator = Distro =>
    dev[d].copy = CASE dev[d].m = "invited" -> "none" [] dev[d].m = "accepted" -> "accept" [] dev[d].m = "left" -> "leave"

\* The invariants of the group on a device: its types, what it holds, shows
\* and would pass on.
GroupSound == TypeOK /\ HeldInBounds /\ ShownOnce /\ CopiesTrue

\* A group left or declined on one device ends up closed on all of them, and
\* the other members hear of it, unless the leave's own sync was never owed
\* and no later sync of that device carries it on its left list.
LeaveSpreads ==
  \A d \in Device :
    (dev[d].closed /\ \A e \in Device : ~dev[e].untold) ~> (peer = "left" /\ \A e \in Device : dev[e].closed)

\* Devices that may hold what comes early: their filter lets c invite, they
\* have c's key, and m's messages verify there.
Ready(d) == /\ d \in world.allows /\ "c" \in world.knows[d]
            /\ "m" \in world.knows[d] \/ \A b \in Changes : b.keyed
            /\ dev[d].pushed = {}
Sees(d) == <<{dev[d].shown[i] : i \in DOMAIN dev[d].shown}, dev[d].m>>

\* Two devices that are in the group come to show the same posts and the same
\* status of the other member, whatever order each got things in, and
\* whenever it joined.
DevicesAgree ==
  \A d, e \in Device :
    <>[](dev[d].st = "active" /\ dev[e].st = "active" /\ Ready(d) /\ Ready(e) /\ ~dev[d].cut /\ ~dev[e].cut
         => Sees(d) = Sees(e))
=============================================================================
