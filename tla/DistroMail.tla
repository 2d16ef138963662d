----------------------------- MODULE DistroMail -----------------------------
(***************************************************************************)
(* What RFed fans out to every device of a distro D, and one channel the   *)
(* devices join and leave together (RFed SPEC 17.11, 17.12): app.js from   *)
(* _pullDistroMessages to _handleDistroBlob, and lib/channel_sync.js.      *)
(* Mail to D, copies of what the user sends as D on another device, and    *)
(* joins and leaves, pushed or pulled page by page in any order, at times  *)
(* twice; each device has its own clock.                                   *)
(***************************************************************************)
EXTENDS SeenList, Functions

CONSTANTS
  Device,    \* the user's devices
  SeenLimit, \* DistroSeen.LIMIT
  PageSize,  \* what RFed answers one pull with, at most
  Worlds     \* what may be explored: sets of [out, acts, sends, ticks, dups, stops, fails, ahead]

ASSUME DistroMailAssumption == SeenLimit \in Nat \ {0} /\ PageSize \in Nat \ {0}
\* What comes from elsewhere; a copy among it is one that is refused.
ASSUME WorldsSound ==
  \A w \in Worlds :
    /\ w = [out |-> w.out, acts |-> w.acts, sends |-> w.sends, ticks |-> w.ticks, dups |-> w.dups,
            stops |-> w.stops, fails |-> w.fails, ahead |-> w.ahead]
    /\ w.fails \in Nat /\ w.ahead \in [Device -> Nat]
    /\ \A b \in w.out :
         /\ b.kind \in {"mail", "reaction", "ticket", "control", "copy", "sync"}
         /\ b.kind = "copy" => b.refused = TRUE
         /\ b.kind = "sync" => b.op \in {"join", "leave"} /\ b.at \in Nat
         /\ b.kind = "mail" => b.by \notin Device

VARIABLES
  world, \* what is left of it: the bounds count down
  now,   \* the time, in ms
  dev,   \* device -> what it keeps
  queue  \* device -> what RFed has for it

mailVars == <<world, now, dev, queue>>

Distro == "distro"
NoSync == [op |-> "none", at |-> -1]

\* The channel in the list and rule 5's record; the membership message and
\* the copies still owed to D; DistroSeen; the chat with x, its reactions and
\* the tickets waited for; the connection: off, pulling, or on once the
\* stored channels are subscribed; whether the subscription of this one is
\* asked for (a join made offline waits for the link).  `forgot` records what
\* DistroSeen dropped past its limit.
Device0 ==
  [listed |-> FALSE, rec |-> NoSync, owed |-> {}, copies |-> {}, seen |-> <<>>,
   chat |-> <<>>, reacted |-> {}, tickets |-> {}, proved |-> {},
   phase |-> "off", subscribed |-> FALSE, forgot |-> {}]

Filed(s, m) == m \in ToSet(s.chat)
File(s, m) == [s EXCEPT !.chat = Append(@, m)]

-----------------------------------------------------------------------------
(* Membership: lib/channel_sync.js *)

\* (Variant: at an equal time what comes last wins.)
SupersedesTied(sync, rec) == sync.at >= rec.at
Supersedes(sync, rec) ==
  sync.at > rec.at \/ (sync.at = rec.at /\ sync.op = "leave" /\ rec.op = "join")

\* ChannelMembership.stampLocal.
Stamp(rec, clock) == IF rec.at + 1 > clock THEN rec.at + 1 ELSE clock

\* ChannelStore.join and _ensureChannelSubscribed; _leaveChannelHere.
JoinHere(s, subscribe) == [s EXCEPT !.listed = TRUE, !.subscribed = @ \/ subscribe]
LeaveHere(s) == [s EXCEPT !.listed = FALSE, !.subscribed = FALSE]

\* _channelsResubscribed: set before the pull that comes first.
Resubscribed(s) == s.phase # "off"

\* _applyDistroChannelSync.
ApplySync(s, b) ==
  LET t == IF b.op = "join" /\ ~s.listed THEN JoinHere(s, Resubscribed(s))
           ELSE IF b.op = "leave" /\ s.listed THEN LeaveHere(s)
           ELSE s
  IN [t EXCEPT !.rec = [op |-> b.op, at |-> b.at]]

-----------------------------------------------------------------------------
(* A blob reaching a device: [s, kept] *)

Answer(s, kept) == [s |-> s, kept |-> kept]

\* channelSyncDisposition, of a message signed by the distro.
Disposition(s, b, d) ==
  IF b.by = d THEN "echo" ELSE IF Supersedes(b, s.rec) THEN "apply" ELSE "stale"

\* _handleDistroChannelSync: an echo and a stale one are held too.
ChannelSync(s, b, d) == Answer(IF Disposition(s, b, d) = "apply" THEN ApplySync(s, b) ELSE s, TRUE)

\* _takeReaction.
TakeReaction(s, b) ==
  IF Filed(s, b.of) THEN Answer([s EXCEPT !.reacted = @ \cup {b.of}], TRUE) ELSE Answer(s, FALSE)

\* A copy of what another device sent.
SentCopy(s, b, d) ==
  CASE b.refused -> Answer(s, FALSE)
    [] ~b.refused /\ b.by = d -> Answer(s, TRUE)
    [] OTHER -> Answer(File(s, b), TRUE)

\* A ticket this device waits for.
Ticket(s, b) ==
  IF b.of \in s.tickets
  THEN Answer([s EXCEPT !.tickets = @ \ {b.of}, !.proved = @ \cup {b.of}], TRUE)
  ELSE Answer(s, FALSE)

Dispose(s, b, d) ==
  CASE b.kind = "copy"     -> SentCopy(s, b, d)
    [] b.kind = "sync"     -> ChannelSync(s, b, d)
    [] b.kind = "control"  -> Answer(s, FALSE)
    [] b.kind = "reaction" -> TakeReaction(s, b)
    [] b.kind = "ticket"   -> Ticket(s, b)
    [] b.kind = "mail"     -> Answer(File(s, b), TRUE)

\* What a blob is known by: its source and time, a sync by its hash.
TimeKey(src, ts) == <<src, "ts", ts>>
Key(b) ==
  CASE b.kind = "sync" -> <<Distro, "hash", b>>
    [] b.kind = "copy" -> TimeKey(Distro, b.ts)
    [] OTHER -> TimeKey("x", b.ts)

\* _handleDistroBlob: recorded before it is judged, un-recorded when nothing
\* of it was kept.  (Variant: it stays recorded.)
DroppedSeen(s, key) == s
DroppedBlob(s, key) == [s EXCEPT !.seen = Forget(@, key)]
HandleBlob(s, b, d) ==
  LET key == Key(b)
      answer == Dispose([s EXCEPT !.seen = Record(@, key, SeenLimit),
                                  !.forgot = @ \cup Dropped(s.seen, key, SeenLimit)], b, d)
  IN IF Seen(s.seen, key) THEN s
     ELSE IF answer.kept THEN answer.s ELSE DroppedBlob(answer.s, key)

\* The blobs of a page, one after another.
HandlePage(s, page, d) ==
  LET after[n \in 0 .. Len(page)] == IF n = 0 THEN s ELSE HandleBlob(after[n - 1], page[n], d)
  IN after[Len(page)]

-----------------------------------------------------------------------------
(* What the user does *)

Clock(d) == now + world.ahead[d]
Spend(what) == world[what] > 0 /\ world' = [world EXCEPT ![what] = @ - 1]

\* _syncChannelMembership: recorded, and owed in place of one still owed.
Owing(s, op, d) ==
  LET at == Stamp(s.rec, Clock(d))
  IN [s EXCEPT !.rec = [op |-> op, at |-> at],
               !.owed = {[kind |-> "sync", op |-> op, at |-> at, by |-> d]}]

\* joinChannel, leaveChannel.
Join(d) ==
  /\ ~dev[d].listed
  /\ Spend("acts")
  /\ dev' = [dev EXCEPT ![d] = Owing(JoinHere(@, TRUE), "join", d)]
  /\ UNCHANGED <<now, queue>>

Leave(d) ==
  /\ dev[d].listed
  /\ Spend("acts")
  /\ dev' = [dev EXCEPT ![d] = Owing(LeaveHere(@), "leave", d)]
  /\ UNCHANGED <<now, queue>>

\* A message to x, sent as D: filed, its copy owed, its ticket waited for.  Two
\* of one millisecond differ in what they say: in `n`.
SendAs(d) ==
  LET m == [kind |-> "copy", ts |-> Clock(d), by |-> d, n |-> Len(dev[d].chat) + 1, refused |-> FALSE] IN
  /\ Spend("sends")
  /\ dev' = [dev EXCEPT ![d] = [File(dev[d], m) EXCEPT
       !.copies = @ \cup {m},
       !.tickets = IF dev[d].phase = "off" THEN @ ELSE @ \cup {m}]]
  /\ UNCHANGED <<now, queue>>

\* What is owed reaches RFed, which fans it out to all, this device included.
Upload(d, b) ==
  /\ b \in dev[d].owed \cup dev[d].copies
  /\ dev[d].phase # "off"
  /\ dev' = [dev EXCEPT ![d].owed = @ \ {b}, ![d].copies = @ \ {b}]
  /\ queue' = [e \in Device |-> queue[e] \cup {b}]
  /\ UNCHANGED <<world, now>>

-----------------------------------------------------------------------------
(* How it reaches a device *)

\* A push on the link, by its answer RFed's no more, unless that is lost.
Push(d, b, again) ==
  /\ b \in queue[d] /\ dev[d].phase # "off"
  /\ IF again THEN Spend("dups") ELSE UNCHANGED world
  /\ dev' = [dev EXCEPT ![d] = HandleBlob(@, b, d)]
  /\ queue' = [queue EXCEPT ![d] = IF again THEN @ ELSE @ \ {b}]
  /\ UNCHANGED now

\* _initChannels: the stored channels, once the pull is over; one that was
\* left by then is not among them.
Subscribe(s) == [s EXCEPT !.phase = "on", !.subscribed = @ \/ s.listed]

\* The link is up and the pull goes first (_distroFirst).  (Variant: the
\* stored channels are subscribed beside it.)
StartBeside(s) == [s EXCEPT !.phase = "pulling", !.subscribed = @ \/ s.listed]
StartPulling(s) == [s EXCEPT !.phase = "pulling"]
Connect(d) ==
  /\ dev[d].phase = "off"
  /\ dev' = [dev EXCEPT ![d] = StartPulling(@)]
  /\ UNCHANGED <<world, now, queue>>

\* A page, in the order RFed has it; with more queued the next is pulled.
PullOver(rest, page) == rest = {} \/ page = <<>>
Pages(d) == {p \in SeqOf(queue[d], PageSize) : IsInjective(p) /\ (p = <<>> => queue[d] = {})}
PullPage(d, page) ==
  /\ dev[d].phase = "pulling"
  /\ LET rest == queue[d] \ ToSet(page)
         s == HandlePage(dev[d], page, d)
     IN /\ dev' = [dev EXCEPT ![d] = IF PullOver(rest, page) THEN Subscribe(s) ELSE s]
        /\ queue' = [queue EXCEPT ![d] = rest]
  /\ UNCHANGED <<world, now>>

\* The pull fails or is refused: said, and the subscription goes on.
PullFails(d) ==
  /\ dev[d].phase = "pulling"
  /\ Spend("fails")
  /\ dev' = [dev EXCEPT ![d] = Subscribe(@)]
  /\ UNCHANGED <<now, queue>>

\* disconnect(), or the page is loaded anew.
Stop(d) ==
  /\ dev[d].phase # "off"
  /\ Spend("stops")
  /\ dev' = [dev EXCEPT ![d] = [@ EXCEPT !.phase = "off", !.subscribed = FALSE, !.tickets = {}]]
  /\ UNCHANGED <<now, queue>>

Tick ==
  /\ Spend("ticks")
  /\ now' = now + 1
  /\ UNCHANGED <<dev, queue>>

-----------------------------------------------------------------------------
MailInit ==
  /\ world \in Worlds
  /\ now = 0
  /\ dev = [d \in Device |-> Device0]
  /\ queue = [d \in Device |-> world.out]

MailNext ==
  \/ \E d \in Device :
       \/ Join(d) \/ Leave(d) \/ SendAs(d) \/ Connect(d) \/ PullFails(d) \/ Stop(d)
       \/ \E b \in dev[d].owed \cup dev[d].copies : Upload(d, b)
       \/ \E b \in queue[d], again \in BOOLEAN : Push(d, b, again)
       \/ \E page \in Pages(d) : PullPage(d, page)
  \/ Tick

MailSpec == MailInit /\ [][MailNext]_mailVars

\* A device comes back on, what it owes is uploaded and what RFed has for it
\* reaches it.
Fairness ==
  \A d \in Device : []<>(dev[d].phase = "on" /\ dev[d].owed = {} /\ dev[d].copies = {} /\ queue[d] = {})

MailFairSpec == MailSpec /\ Fairness

-----------------------------------------------------------------------------
(* Properties *)

MailTypeOK ==
  /\ now \in Nat
  /\ \A d \in Device :
       /\ dev[d].listed \in BOOLEAN /\ dev[d].subscribed \in BOOLEAN
       /\ dev[d].phase \in {"off", "pulling", "on"}
       /\ dev[d].rec.op \in {"none", "join", "leave"} /\ dev[d].rec.at >= -1
       /\ Cardinality(dev[d].owed) <= 1
       /\ Len(dev[d].seen) <= SeenLimit /\ IsInjective(dev[d].seen)
       /\ dev[d].reacted \subseteq ToSet(dev[d].chat)

\* All devices end up with the same last action for the channel, and list it
\* accordingly, though joins and leaves cross, come at one time, from clocks
\* that differ, in any order and twice.
MembershipAgrees ==
  <>[](\A d, e \in Device : dev[d].rec = dev[e].rec /\ dev[d].listed = (dev[d].rec.op = "join"))

\* What is known by its source and time is in the chat of a device at most
\* once, however often it comes, after a reload or again from RFed, unless the
\* seen list forgot it, and but for what the user sent here: that is not known
\* by them, and is there once.
FiledOnce ==
  \A d \in Device : \A i, j \in DOMAIN dev[d].chat :
    LET m == dev[d].chat[i]  k == dev[d].chat[j] IN
    i # j /\ Key(m) = Key(k) => Key(m) \in dev[d].forgot \/ (m # k /\ d \in {m.by, k.by})

\* What device d took: the chat, and the reactions and tickets of use to it.
TookAt(d) ==
  ToSet(dev[d].chat)
    \cup {b \in world.out : b.kind = "reaction" /\ b.of \in dev[d].reacted}
    \cup {b \in world.out : b.kind = "ticket" /\ b.of \in dev[d].proved}

\* A message to the user or by the user, sent as D on any device, is filed on
\* every device it is not still on its way to, though a blob known as it is
\* came first and was refused; or what the device took has its source and
\* time, and is another: of two that one source sends in one millisecond the
\* first to come is filed, and the second is answered "already held".
NoneMissed ==
  \A d \in Device :
    \A m \in {b \in world.out : b.kind = "mail"} \cup UNION {ToSet(dev[e].chat) : e \in Device} :
      \/ \E b \in TookAt(d) : Key(b) = Key(m)
      \/ m \in queue[d] \/ \E e \in Device : m \in dev[e].copies

\* What a device keeps of its mail: the types, one membership message owed at
\* most, no id recorded twice, a reaction only on a message held, a message
\* filed once, and none missed but one shadowed by another of its time.
MailSound == MailTypeOK /\ FiledOnce /\ NoneMissed

\* With a pull that ends well, a connection subscribes a stored channel only
\* when RFed has no newer leave of it for this device.
PulledFirst ==
  [][\A d \in Device :
       (/\ ~dev[d].subscribed /\ dev'[d].subscribed
        /\ dev'[d].rec = dev[d].rec /\ world'.fails = world.fails)
       => ~\E b \in queue'[d] : b.kind = "sync" /\ b.op = "leave" /\ Supersedes(b, dev'[d].rec)]_mailVars

=============================================================================
