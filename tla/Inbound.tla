------------------------------ MODULE Inbound -------------------------------
(***************************************************************************)
(* What reaches the device's own lxmf.delivery: the sender's packets, the  *)
(* copies it leaves on the propagation node, which rfed may also push live *)
(* and a /get downloads and purges.  Each is encrypted to a ratchet the    *)
(* device announced; the older ratchets are tried over several tasks, and  *)
(* every listener runs a task later, so the paths overtake one another.    *)
(***************************************************************************)
EXTENDS SeenList, Received, AttachmentStore, Functions

CONSTANTS
  SeenLimit,    \* of LxmfSeen
  HeldLimit,    \* of PropagatedHeld
  KeepLimit,    \* of a conversation
  RatchetCount, \* ratchets kept
  Worlds        \* what may be explored: sets of [mail, direct, linked, stored,
                \* live, rows, knows, allows, adds, tells, rotate, refuse, fail,
                \* lose, reload, opens]
ASSUME LimitsPositive == {SeenLimit, HeldLimit, KeepLimit, RatchetCount} \subseteq Nat \ {0}
ASSUME WorldsSound ==
  \A w \in Worlds :
    /\ w = [mail |-> w.mail, direct |-> w.direct, linked |-> w.linked, stored |-> w.stored,
            live |-> w.live, rows |-> w.rows, knows |-> w.knows, allows |-> w.allows,
            adds |-> w.adds, tells |-> w.tells, rotate |-> w.rotate, refuse |-> w.refuse,
            fail |-> w.fail, lose |-> w.lose, reload |-> w.reload, opens |-> w.opens]
    /\ w.direct \cup w.linked \cup w.stored \subseteq DOMAIN w.mail
    /\ w.live \cup w.opens \subseteq BOOLEAN
    /\ \A m \in DOMAIN w.mail :
         /\ w.mail[m].kind \in {"text", "react", "control", "bad", "refused"}
         /\ w.mail[m].at \in Nat \ {0} /\ w.mail[m].file \in BOOLEAN

VARIABLES
  world, \* what is left of it: what is sent and the bounds go down
  net,   \* the packets, the node's copies, the pushes, the ratchet the
         \* device last announced and the one the sender knows
  dev,   \* what the device has stored
  page,  \* what the page holds: decryptions under way, tasks, the /get; and
         \* the attachment store, whose disk outlives it
  past   \* what happened, for the properties

vars == <<world, net, dev, page, past>>

Mail(m) == world.mail[m]
Source(m) == Mail(m).src
Sources == {Source(m) : m \in DOMAIN world.mail}

NoGet == [at |-> "idle", left |-> <<>>, asking |-> {}, have |-> {}]
Page0(ratchets, files) ==
  [scans |-> {}, tasks |-> <<>>, get |-> NoGet, ratchets |-> ratchets, rotated |-> FALSE, files |-> files]

State == [dev |-> dev, page |-> page, past |-> past]
Becomes(s) == dev' = s.dev /\ page' = s.page /\ past' = s.past

-----------------------------------------------------------------------------
(* Reading a message *)

\* PrivacyFilter.acceptsSource, with the filter on, of a source in no group:
\* an allowlisted row.
AcceptsSource(s, m) == Source(m) \in s.dev.allows

\* PrivacyFilter.acceptsMessage, asked again of what was parsed: the user's own
\* control messages come as fan-out only.
AcceptsMessage(s, m) == AcceptsSource(s, m) /\ Mail(m).kind # "control"
Parses(m) == Mail(m).kind \notin {"bad", "refused"}

Drop(s, m) == [s EXCEPT !.past.dropped = @ \cup {m}]

\* emit: the listeners run in a later task.
Task(s, what, m) ==
  [s EXCEPT !.page.tasks = Append(@, [what |-> what, m |-> m,
     sig |-> IF Source(m) \in s.dev.knows THEN "validated" ELSE "unknown"])]

\* PropagatedHeld.add.
Hold(s, c) == [s EXCEPT !.dev.held = Record(@, c, HeldLimit)]
Held(s, c) == Seen(s.dev.held, c)

\* The /get's next turn: what is held by now is purged and not asked for, the
\* first that is not is asked for, and at the end what is had is purged.
Turn(s) ==
  LET g == s.page.get
      new == {i \in DOMAIN g.left : ~Held(s, g.left[i])}
      at == IF new = {} THEN Len(g.left) ELSE Min(new)
      had == g.have \cup {g.left[i] : i \in 1..at \ new}
  IN [s EXCEPT !.page.get =
       IF new # {}
       THEN [at |-> "ask", left |-> SubSeq(g.left, at + 1, Len(g.left)), asking |-> {g.left[at]}, have |-> had]
       ELSE IF had = {} THEN NoGet
       ELSE [at |-> "purge", left |-> <<>>, asking |-> {}, have |-> had]]

\* _ingestPropagatedBlob once it was decrypted: the filter, then the parse.
Ingest(s, c, opens) ==
  IF ~opens THEN s
  ELSE IF ~AcceptsSource(s, c.m) THEN Drop(s, c.m)
  ELSE IF ~Parses(c.m) THEN s
  ELSE IF ~AcceptsMessage(s, c.m) THEN Drop(s, c.m)
  ELSE Task(s, "message", c.m)
Unread(s, c, opens) == ~opens \/ (AcceptsSource(s, c.m) /\ Mail(c.m).kind = "bad")

\* What is done with a plaintext, or with none: a packet is handed on, a push
\* is held unless it could not be read, and what a /get returned is purged
\* whatever it was.  (Variant: what could not be read stays on the node.)
GetTaken(s, c) == Turn([s EXCEPT !.page.get.have = @ \cup {c}, !.page.get.asking = {}])
OpenedLeaving(s, how, c, opens) ==
  CASE how = "packet" -> IF opens THEN Task(s, "packet", c.m) ELSE s
    [] how = "push" -> IF Unread(s, c, opens) THEN s ELSE Hold(Ingest(s, c, opens), c)
    [] how = "get" -> IF Unread(s, c, opens) THEN Turn([s EXCEPT !.page.get.asking = {}])
                      ELSE GetTaken(Hold(Ingest(s, c, opens), c), c)
Opened(s, how, c, opens) ==
  CASE how = "packet" -> IF opens THEN Task(s, "packet", c.m) ELSE s
    [] how = "push" -> IF Unread(s, c, opens) THEN s ELSE Hold(Ingest(s, c, opens), c)
    [] how = "get" -> GetTaken(Hold(Ingest(s, c, opens), c), c)

\* Identity.decrypt: the identity key (0), or one of the ratchets.
Decrypts(c, ratchets) == c.key = 0 \/ Contains(ratchets, c.key)

\* Destination.decryptSoon: the newest ratchet and the identity key at once,
\* the older ratchets over the next tasks.
DecryptSoon(s, how, c) ==
  LET now == Decrypts(c, SubSeq(s.page.ratchets, 1, 1))
  IN IF now \/ s.page.ratchets = <<>> THEN Opened(s, how, c, now)
     ELSE [s EXCEPT !.page.scans =
             @ \cup {[how |-> how, copy |-> c, opens |-> Decrypts(c, s.page.ratchets)]}]

-----------------------------------------------------------------------------
(* The tasks: the router's listener, then the app's *)

Prove(s, m) == [s EXCEPT !.past.proved = @ \cup {m}]

\* LXMRouter's packet listener: the filter, the parse, the proof, the message.
OnPacket(s, m) ==
  IF ~AcceptsSource(s, m) THEN Drop(s, m)
  ELSE IF ~Parses(m) THEN Prove(s, m)
  ELSE IF ~AcceptsMessage(s, m) THEN Drop(s, m)
  ELSE Task(Prove(s, m), "message", m)

\* LXMRouter.handleLinkPayload: the same of a link packet; a Resource was
\* proved already.
OnLinkPayload(s, t) ==
  LET read == IF t.what = "link" THEN Prove(s, t.m) ELSE s
  IN IF ~AcceptsSource(s, t.m) THEN Drop(s, t.m)
     ELSE IF ~Parses(t.m) THEN read
     ELSE IF ~AcceptsMessage(s, t.m) THEN Drop(s, t.m)
     ELSE Task(read, "message", t.m)

\* LxmfSeen.check, on a message not seen.
Check(s, m) ==
  [s EXCEPT !.dev.seen = Record(@, m, SeenLimit),
            !.past.forgot = @ \cup Dropped(s.dev.seen, m, SeenLimit)]

\* ContactStore.acceptMessageName: rows only.
AcceptMessageName(s, t) ==
  LET src == Source(t.m) IN
  IF src \notin s.dev.rows THEN s
  ELSE [s EXCEPT !.dev.slot[src] = AcceptName(@, Mail(t.m).name, t.sig, Mail(t.m).at),
                 !.past.offered = @ \cup {[m |-> t.m, sig |-> t.sig]}]

\* _takeReaction: to a message of that conversation, or dropped.
TakeReaction(s, m) ==
  LET box == s.dev.inbox[Source(m)]
      to == {i \in DOMAIN box : box[i].m = Mail(m).to}
  IN IF to = {} THEN s
     ELSE LET i == Min(to) IN
       [s EXCEPT !.dev.inbox[Source(m)][i].chip = ApplyReaction(@, Mail(m).emoji, Mail(m).at),
                 !.past.reacted = @ \cup {m}]

\* attachmentKey, and keysOf a conversation.
KeyOf(src, r) == <<src, r.arrival>>
KeysOf(src, box) == {KeyOf(src, box[i]) : i \in {j \in DOMAIN box : box[j].stored # "none"}}

\* discardAttachments; an IndexedDB that did not open keeps them.
DiscardAttachments(s, keys) ==
  [s EXCEPT !.page.files = Discard(@, keys),
            !.past.left = IF s.page.files.opens THEN @ ELSE @ \cup keys]

\* MsgStore.add; the bytes of what the cap drops go with it.
Add(s, m) ==
  LET src == Source(m)
      box == AddInOrder(s.dev.inbox[src], [m |-> m, at |-> Mail(m).at], KeepLimit)
      gone == KeysOf(src, s.dev.inbox[src]) \ KeysOf(src, box)
  IN DiscardAttachments([s EXCEPT !.dev.inbox[src] = box, !.past.arrived[src] = Append(@, m)], gone)

\* _keepAttachments of the message added last.
KeepAttachments(s, m) ==
  LET src == Source(m)
      box == s.dev.inbox[src]
      i == CHOOSE j \in DOMAIN box : \A k \in DOMAIN box : box[k].arrival <= box[j].arrival
  IN IF ~Mail(m).file THEN s
     ELSE [s EXCEPT !.dev.inbox[src][i].stored = "saving", !.page.files = Put(@, KeyOf(src, box[i]))]

\* Its end: the record, if it is still there, says where they are.
Saved(s, key, where) ==
  [s EXCEPT !.dev.inbox[key[1]] =
     [i \in DOMAIN @ |-> IF @[i].arrival = key[2] THEN [@[i] EXCEPT !.stored = where] ELSE @[i]]]

\* connect()'s message handler.  (Variant: no duplicate check.)
Process(s, t) ==
  LET named == AcceptMessageName(s, t) IN
  IF Mail(t.m).kind = "react" THEN TakeReaction(named, t.m)
  ELSE LET kept == [named EXCEPT !.dev.rows = @ \cup {Source(t.m)}] IN
       KeepAttachments(Add(IF Source(t.m) \in s.dev.rows THEN kept ELSE AcceptMessageName(kept, t), t.m), t.m)
OnMessageAgain(s, t) == Process(s, t)
OnMessage(s, t) == IF Seen(s.dev.seen, t.m) THEN s ELSE Process(Check(s, t.m), t)

RunTask ==
  /\ page.tasks # <<>>
  /\ LET t == Head(page.tasks)
         s == [State EXCEPT !.page.tasks = Tail(@)]
     IN Becomes(CASE t.what = "packet" -> OnPacket(s, t.m)
                  [] t.what \in {"link", "resource"} -> OnLinkPayload(s, t)
                  [] t.what = "message" -> OnMessage(s, t))
  /\ UNCHANGED <<world, net>>

ScanDone ==
  \E x \in page.scans :
    /\ Becomes(Opened([State EXCEPT !.page.scans = @ \ {x}], x.how, x.copy, x.opens))
    /\ UNCHANGED <<world, net>>

\* IndexedDB answers, or refuses.
FileLands ==
  /\ page.files.work # <<>>
  /\ \E ok \in IF page.files.opens /\ world.refuse > 0 THEN BOOLEAN ELSE {TRUE} :
       LET w == Head(page.files.work)
           s == [State EXCEPT !.page.files = Lands(@, ok)]
       IN /\ world' = [world EXCEPT !.refuse = IF ok THEN @ ELSE @ - 1]
          /\ Becomes(IF w.op = "put" THEN Saved(s, w.key, Answered(page.files, ok))
                     ELSE IF ok THEN s ELSE [s EXCEPT !.past.left = @ \cup {w.key}])
  /\ UNCHANGED net

-----------------------------------------------------------------------------
(* The sender and the network *)

Copy(m) == [m |-> m, key |-> net.heard]

SendDirect ==
  \E m \in world.direct :
    /\ world' = [world EXCEPT !.direct = @ \ {m}]
    /\ net' = [net EXCEPT !.air = @ \cup {Copy(m)}]
    /\ UNCHANGED <<dev, page, past>>

\* Over a link of the sender's, whose own keys need no ratchet: in a link
\* packet, or as a Resource, which its protocol proves before it is read.
SendOnLink ==
  \E m \in world.linked, how \in {"link", "resource"} :
    /\ world' = [world EXCEPT !.linked = @ \ {m}]
    /\ Becomes(Task(IF how = "resource" THEN Prove(State, m) ELSE State, how, m))
    /\ UNCHANGED net

\* Left on the node, and pushed live where the stream is bound.
Propagate ==
  \E m \in world.stored, live \in world.live :
    /\ world' = [world EXCEPT !.stored = @ \ {m}]
    /\ net' = [net EXCEPT !.node = @ \cup {Copy(m)}, !.push = IF live THEN @ \cup {Copy(m)} ELSE @]
    /\ past' = [past EXCEPT !.stored = @ \cup {Copy(m)}]
    /\ UNCHANGED <<dev, page>>

SenderHears ==
  /\ net.told # net.heard
  /\ net' = [net EXCEPT !.heard = net.told]
  /\ UNCHANGED <<world, dev, page, past>>

Lose ==
  /\ world.lose > 0
  /\ \/ \E c \in net.air : net' = [net EXCEPT !.air = @ \ {c}]
     \/ \E c \in net.push : net' = [net EXCEPT !.push = @ \ {c}]
  /\ world' = [world EXCEPT !.lose = @ - 1]
  /\ UNCHANGED <<dev, page, past>>

\* Destination.onPacket.
PacketArrives ==
  \E c \in net.air :
    /\ net' = [net EXCEPT !.air = @ \ {c}]
    /\ Becomes(DecryptSoon(State, "packet", c))
    /\ UNCHANGED world

\* _onPropagatedPush.
PushArrives ==
  \E c \in net.push :
    /\ net' = [net EXCEPT !.push = @ \ {c}]
    /\ Becomes(IF Held(State, c) THEN State ELSE DecryptSoon(State, "push", c))
    /\ UNCHANGED world

-----------------------------------------------------------------------------
(* _fetchPropagatedMessages *)

Fail == world.fail > 0 /\ world' = [world EXCEPT !.fail = @ - 1]

\* On the page's wake-ups, and when the link comes up.
Fetch ==
  /\ page.get.at = "idle"
  /\ page' = [page EXCEPT !.get.at = "list"]
  /\ UNCHANGED <<world, net, dev, past>>

Listed ==
  /\ page.get.at = "list"
  /\ UNCHANGED net
  /\ \/ Fail /\ Becomes([State EXCEPT !.page.get = NoGet])
     \/ /\ UNCHANGED world
        /\ LET held == {c \in net.node : Held(State, c)} IN
           \E order \in SetToSeqs(net.node \ held) :
             Becomes(Turn([State EXCEPT !.page.get.have = held, !.page.get.left = order]))

\* One download's answer: none, and it stays for another fetch; or the
\* message, which a push may have brought meanwhile.  (Variant: one that
\* failed is purged.)
DownloadFailedHad(s, c) == GetTaken(s, c)
DownloadFailed(s, c) == Turn([s EXCEPT !.page.get.asking = {}])
Downloaded ==
  /\ page.get.at = "ask"
  /\ UNCHANGED net
  /\ \E c \in page.get.asking :
       \/ Fail /\ Becomes(DownloadFailed(State, c))
       \/ /\ UNCHANGED world
          /\ Becomes(IF Held(State, c) THEN GetTaken(State, c)
                     ELSE DecryptSoon([State EXCEPT !.page.get.at = "read"], "get", c))

Purged ==
  /\ page.get.at = "purge"
  /\ \/ Fail /\ UNCHANGED net
     \/ UNCHANGED world /\ net' = [net EXCEPT !.node = @ \ page.get.have]
  /\ page' = [page EXCEPT !.get = NoGet]
  /\ UNCHANGED <<dev, past>>

-----------------------------------------------------------------------------
(* The device *)

\* Destination.rotateRatchets: what storage refuses is undone.
\* (Variant: the new ratchet stays.)
RotateLoose(s, kept) ==
  LET all == <<s.past.made + 1>> \o s.page.ratchets
      new == SubSeq(all, 1, Min({RatchetCount, Len(all)}))
  IN [s EXCEPT !.page.ratchets = new, !.page.rotated = TRUE, !.past.made = @ + 1,
               !.dev.ratchets = IF kept THEN new ELSE @]
Rotate(s, kept) == IF kept THEN RotateLoose(s, kept) ELSE [s EXCEPT !.past.made = @ + 1]

\* Destination.buildAnnounceData, its rotation due at the first announce of a
\* page and then once an interval.
Announce ==
  /\ world.rotate > 0
  /\ \E kept \in IF world.refuse > 0 THEN BOOLEAN ELSE {TRUE} :
       LET s == Rotate(State, kept) IN
       /\ world' = [world EXCEPT !.rotate = @ - 1, !.refuse = IF kept THEN @ ELSE @ - 1]
       /\ IF s.page.ratchets = <<>> THEN Becomes(s) /\ UNCHANGED net
          ELSE /\ net' = [net EXCEPT !.told = Head(s.page.ratchets)]
               /\ Becomes([s EXCEPT !.past.announced =
                    IF Contains(@, Head(s.page.ratchets)) THEN @ ELSE Append(@, Head(s.page.ratchets))])

\* ContactStore.allow, and the row it makes.
UserAdds ==
  \E src \in world.adds :
    /\ world' = [world EXCEPT !.adds = @ \ {src}]
    /\ dev' = [dev EXCEPT !.allows = @ \cup {src}, !.rows = @ \cup {src}]
    /\ UNCHANGED <<net, page, past>>

\* ContactStore.updateFromAnnounce: a row's key.
SenderAnnounces ==
  \E src \in world.tells \cap dev.rows :
    /\ world' = [world EXCEPT !.tells = @ \ {src}]
    /\ dev' = [dev EXCEPT !.knows = @ \cup {src}]
    /\ UNCHANGED <<net, page, past>>

\* The page is closed and opened again: what had not run is gone.
Reload ==
  /\ world.reload > 0
  /\ world' = [world EXCEPT !.reload = @ - 1]
  /\ \E opens \in world.opens, disk \in LeftBy(page.files) :
       page' = Page0(dev.ratchets, OpenStore(opens, disk))
  /\ past' = [past EXCEPT
       !.cut = @ \cup {t.m : t \in {u \in ToSet(page.tasks) : u.what \in {"message", "resource"}}},
       !.earlier = @ \cup UNION {KeysOf(src, dev.inbox[src]) : src \in Sources},
       !.left = @ \cup {w.key : w \in {v \in ToSet(page.files.work) : v.op = "delete"}}]
  /\ UNCHANGED <<net, dev>>

-----------------------------------------------------------------------------

Init ==
  /\ world \in Worlds
  /\ net = [air |-> {}, node |-> {}, push |-> {}, told |-> 0, heard |-> 0]
  /\ dev = [held |-> <<>>, seen |-> <<>>, inbox |-> [s \in Sources |-> <<>>],
            slot |-> [s \in Sources |-> NoName], rows |-> world.rows,
            knows |-> world.knows, allows |-> world.allows, ratchets |-> <<>>]
  /\ \E opens \in world.opens : page = Page0(<<>>, OpenStore(opens, {}))
  /\ past = [proved |-> {}, stored |-> {}, dropped |-> {}, cut |-> {}, forgot |-> {},
             arrived |-> [s \in Sources |-> <<>>], offered |-> {}, reacted |-> {}, announced |-> <<>>, made |-> 0,
             earlier |-> {}, left |-> {}]

Next ==
  \/ SendDirect \/ SendOnLink \/ Propagate \/ SenderHears \/ Lose \/ PacketArrives \/ PushArrives
  \/ ScanDone \/ RunTask \/ FileLands
  \/ Fetch \/ Listed \/ Downloaded \/ Purged
  \/ Announce \/ UserAdds \/ SenderAnnounces \/ Reload

Spec == Init /\ [][Next]_vars

\* The page's tasks run and its requests are answered or fail (every request
\* ends), and it fetches again while the node has something for it.
FairSpec ==
  /\ Spec
  /\ []<>(page.tasks = <<>>)
  /\ []<>(page.scans = {})
  /\ []<>(page.get.at = "idle")
  /\ []<>(page.get.at # "idle" \/ net.node = {})

-----------------------------------------------------------------------------

Ids(src) == {dev.inbox[src][i].m : i \in DOMAIN dev.inbox[src]}
Kept(m) == m \in Ids(Source(m))
Running(m) == \E i \in DOMAIN page.tasks : page.tasks[i].m = m
\* The newest KeepLimit that arrived from `src`.
Latest(src) ==
  LET all == past.arrived[src] IN ToSet(SubSeq(all, Max({1, Len(all) - KeepLimit + 1}), Len(all)))

\* A message is in its conversation once, whichever of its copies came first
\* and however often, unless LxmfSeen has since forgotten it: packet, push
\* and /get all end in the one duplicate check.
KeptOnce ==
  \A src \in Sources : \A i, j \in DOMAIN dev.inbox[src] :
    i # j /\ dev.inbox[src][i].m = dev.inbox[src][j].m => dev.inbox[src][i].m \in past.forgot

\* A text message whose packet was proved, or whose copy the node no longer
\* has, is kept, unless the filter dropped it, a newer one pushed it out of
\* its conversation, its ratchet is no longer kept, or the page was closed
\* with its handler still to run.
NothingLost ==
  \A m \in DOMAIN world.mail :
    /\ Mail(m).kind = "text"
    /\ m \in past.proved \/ \E c \in past.stored \ net.node : c.m = m /\ c.key \in {0} \cup ToSet(dev.ratchets)
    => Kept(m) \/ Running(m) \/ m \in past.dropped \cup past.cut \cup ToSet(past.arrived[Source(m)])

\* Of the ratchets announced, the newest RatchetCount are stored: a reload
\* never loses the key to what a peer may still send, though storage may
\* refuse a rotation.
AnnouncedOpens ==
  LET told == past.announced
  IN ToSet(SubSeq(told, Max({1, Len(told) - RatchetCount + 1}), Len(told))) \subseteq ToSet(dev.ratchets)

\* The name a conversation shows is the newest message's that told one and
\* whose signature was checked, and a record's reaction the newest one taken,
\* in whatever order the packets and the propagated copies came.
NewestWins ==
  /\ \A src \in Sources :
       LET told == {o.m : o \in {p \in past.offered :
                       p.sig = "validated" /\ Source(p.m) = src /\ Mail(p.m).name # "absent"}}
       IN told # {} => \E last \in told :
            /\ \A m \in told : Mail(m).at <= Mail(last).at
            /\ dev.slot[src] = [name |-> Mail(last).name, at |-> Mail(last).at]
  /\ \A src \in Sources : \A i \in DOMAIN dev.inbox[src] :
       LET r == dev.inbox[src][i]
           taken == {m \in past.reacted : Mail(m).to = r.m}
       IN taken # {} /\ r.m \notin past.forgot => \E last \in taken :
            /\ \A m \in taken : Mail(m).at <= Mail(last).at
            /\ r.chip = [emoji |-> Mail(last).emoji, at |-> Mail(last).at]

\* A conversation is in the order of its messages' times, and what the cap
\* let go arrived before all that is kept: a late, old message is never the
\* one dropped for arriving old.
InOrder ==
  \A src \in Sources :
    /\ \A i, j \in DOMAIN dev.inbox[src] : i < j => dev.inbox[src][i].at <= dev.inbox[src][j].at
    /\ Ids(src) = Latest(src)

\* An attachment of this page's can be read, whatever IndexedDB refuses, and
\* one said to be persisted is; bytes outlast their message only where their
\* delete was refused, cut short by a reload, or not asked of an IndexedDB that
\* did not open (attachment_store.js: "never a silent loss").
FilesTold ==
  LET files == page.files
      kept == UNION {KeysOf(src, dev.inbox[src]) : src \in Sources}
  IN /\ \A src \in Sources : \A i \in DOMAIN dev.inbox[src] :
          LET r == dev.inbox[src][i]
              key == KeyOf(src, r)
          IN /\ r.stored = "persisted" => key \in files.disk
             /\ r.stored # "none" => Reads(files, key) \/ key \in past.earlier
     /\ files.disk \cup files.mem \subseteq
          kept \cup past.left \cup {w.key : w \in {v \in ToSet(files.work) : v.op = "delete"}}

\* A conversation reads right: in order, under the newest name, with the
\* newest reactions, and with its attachments.
ReadsRight == NewestWins /\ InOrder /\ FilesTold

\* The node is emptied of what it has for this device, what cannot be read
\* included.
NodeEmptied == net.node # {} ~> net.node = {}
=============================================================================
